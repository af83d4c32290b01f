------------------------------- MODULE MsgFIFO -------------------------------
(***************************************************************************)
(* What the message queue between the communication layer and the          *)
(* dispatcher promises: a bounded queue, whose messages are taken in the   *)
(* order they were put in, one at a time.                                  *)
(***************************************************************************)
EXTENDS Naturals, Sequences

CONSTANTS Messages, Capacity, NoMsg

VARIABLES queue,   \* the messages that wait
          hand     \* the message the dispatcher handles, or NoMsg

Init ==
    /\ queue = << >>
    /\ hand = NoMsg

Send(m) ==
    /\ Len(queue) < Capacity
    /\ queue' = Append(queue, m)
    /\ UNCHANGED hand

Receive ==
    /\ hand = NoMsg
    /\ queue # << >>
    /\ hand' = Head(queue)
    /\ queue' = Tail(queue)

Finish ==
    /\ hand # NoMsg
    /\ hand' = NoMsg
    /\ UNCHANGED queue

Next == (\E m \in Messages : Send(m)) \/ Receive \/ Finish

Spec == Init /\ [][Next]_<<queue, hand>>
==============================================================================
