------------------------------ MODULE SerialSend ------------------------------
(***************************************************************************)
(* Commands to the signal controller: sequence numbers and the wait for    *)
(* an acknowledgement (get_seq_num and TC_packet_tx of                     *)
(* src/src/traffic_signal_packet_tx.c, WAIT_ACK_LOOP of                    *)
(* src/include/traffic_signal_packet_rx.h).  command_buf_init sends the    *)
(* first command, from main; then the polling timer's thread sends and     *)
(* waits, or not, and the timer threads of the applications send and do    *)
(* not wait.  What the commands say is in SerialCommands.                  *)
(*                                                                         *)
(* A packet is the record of its number, taken from seq_num, and of which  *)
(* packet of the program it is; only the number is on the line.            *)
(***************************************************************************)
EXTENDS Integers, Sequences, FiniteSets

CONSTANTS
    Waiters,      \* threads that may wait for an acknowledgement
    Others,       \* threads that never do
    SeqMod,       \* 256, the values of the uint8_t seq_num
    Lossy,        \* packets and acknowledgements may be lost
    MaxSent,      \* bound on the packets
    MaxLine       \* bound on the packets under way

Threads == {"main"} \cup Waiters \cup Others

ASSUME SerialSendAssumption ==
    /\ SeqMod \in Nat \ {0, 1} /\ MaxSent \in Nat /\ MaxLine \in Nat
    /\ Lossy \in BOOLEAN
    /\ Waiters \cap Others = {} /\ {"main", "free"} \cap (Waiters \cup Others) = {}

VARIABLES
    seq_num,
    mutex_seq_num,  \* its holder, or "free"
    ack_seq,        \* -1 after a damaged acknowledgement
    thread,         \* of each: where it is, its packet, will it wait
    line,           \* external: packets under way to the controller
    acks,           \* external: acknowledgements under way back
    received,       \* external, history: packets the controller has taken
    count,          \* history: packets built so far
    ackOf,          \* history: the packet whose acknowledgement set ack_seq
    ended           \* history: how the last wait ended and for which packet

vars == <<seq_num, mutex_seq_num, ack_seq, thread, line, acks, received, count,
          ackOf, ended>>
link == <<line, acks, received, ack_seq, ackOf>>

None == 0

Init ==
    /\ seq_num = 0 /\ mutex_seq_num = "free"
    /\ ack_seq = 0
    /\ thread = [t \in Threads |-> [at |-> "idle", SEQ |-> 0, n |-> None, waits |-> FALSE]]
    /\ line = <<>> /\ acks = <<>> /\ received = {}
    /\ count = 0 /\ ackOf = None
    /\ ended = [how |-> "none", n |-> None]

\* Timers are created and applications registered after command_buf_init.
Started == thread["main"].at = "done"

-----------------------------------------------------------------------------
(* A command: its number, its packet, the write and the wait.               *)

Call(t) ==
    /\ thread[t].at = "idle"
    /\ count < MaxSent
    /\ t # "main" => Started
    /\ \E w \in IF t = "main" THEN {TRUE} ELSE IF t \in Waiters THEN BOOLEAN ELSE {FALSE} :
          thread' = [thread EXCEPT ![t].at = "lock", ![t].waits = w]
    /\ UNCHANGED <<seq_num, mutex_seq_num, link, count, ended>>

\* Faulty variant: the number is taken without the mutex.
LockNothing(t) ==
    /\ thread[t].at = "lock"
    /\ thread' = [thread EXCEPT ![t].at = "number", ![t].SEQ = seq_num]
    /\ UNCHANGED <<seq_num, mutex_seq_num, link, count, ended>>

get_seq_num_lock(t) ==
    /\ thread[t].at = "lock"
    /\ mutex_seq_num = "free"
    /\ mutex_seq_num' = t
    /\ thread' = [thread EXCEPT ![t].at = "number", ![t].SEQ = seq_num]
    /\ UNCHANGED <<seq_num, link, count, ended>>

\* seq_num++ in eight bits.
get_seq_num_end(t) ==
    /\ thread[t].at = "number"
    /\ seq_num' = (thread[t].SEQ + 1) % SeqMod
    /\ mutex_seq_num' = "free"
    /\ count' = count + 1
    /\ thread' = [thread EXCEPT ![t].at = "write", ![t].n = count']
    /\ UNCHANGED <<link, ended>>

\* mutex_rs232_write is held for one write of the whole packet.
TC_packet_tx(t) ==
    /\ thread[t].at = "write"
    /\ Len(line) < MaxLine
    /\ line' = Append(line, [SEQ |-> thread[t].SEQ, n |-> thread[t].n])
    /\ thread' = [thread EXCEPT ![t].at = IF thread[t].waits THEN "wait" ELSE "idle"]
    /\ UNCHANGED <<seq_num, mutex_seq_num, acks, received, ack_seq, count, ackOf, ended>>

Over(t) == IF t = "main" THEN "done" ELSE "idle"

\* Faulty variant: any acknowledgement will do.
AnyAck(t) == ack_seq # -1 /\ ackOf # None

Acknowledged(t) == thread[t].SEQ = ack_seq

WaitSucceeds(t) ==
    /\ thread[t].at = "wait"
    /\ Acknowledged(t)
    /\ thread' = [thread EXCEPT ![t].at = Over(t)]
    /\ ended' = [how |-> "ack", n |-> thread[t].n]
    /\ UNCHANGED <<seq_num, mutex_seq_num, link, count>>

\* The loop spins until the process has used ACK_TIMEOUTSEC of the processor;
\* its callers do not ask how it ended.
WaitTimesOut(t) ==
    /\ thread[t].at = "wait"
    /\ ~ Acknowledged(t)
    /\ thread' = [thread EXCEPT ![t].at = Over(t)]
    /\ ended' = [how |-> "timeout", n |-> thread[t].n]
    /\ UNCHANGED <<seq_num, mutex_seq_num, link, count>>

-----------------------------------------------------------------------------
(* External: the controller and the line; and recv_ack (SerialReceive).     *)

ControllerTakes ==
    /\ line # <<>> /\ Len(acks) < MaxLine
    /\ line' = Tail(line)
    /\ received' = received \cup {line[1].n}
    /\ acks' = Append(acks, line[1])
    /\ UNCHANGED <<seq_num, mutex_seq_num, ack_seq, thread, count, ackOf, ended>>

LosePacket ==
    /\ Lossy /\ line # <<>>
    /\ line' = Tail(line)
    /\ UNCHANGED <<seq_num, mutex_seq_num, ack_seq, thread, acks, received, count,
                   ackOf, ended>>

LoseAck ==
    /\ Lossy /\ acks # <<>>
    /\ acks' = Tail(acks)
    /\ ack_seq' \in {ack_seq, -1}
    /\ ackOf' = IF ack_seq' = -1 THEN None ELSE ackOf
    /\ UNCHANGED <<seq_num, mutex_seq_num, thread, line, received, count, ended>>

recv_ack ==
    /\ acks # <<>>
    /\ acks' = Tail(acks)
    /\ ack_seq' = acks[1].SEQ
    /\ ackOf' = acks[1].n
    /\ UNCHANGED <<seq_num, mutex_seq_num, thread, line, received, count, ended>>

Step(t) ==
    \/ Call(t) \/ get_seq_num_lock(t) \/ get_seq_num_end(t) \/ TC_packet_tx(t)
    \/ WaitSucceeds(t) \/ WaitTimesOut(t)

Next ==
    \/ \E t \in Threads : Step(t)
    \/ ControllerTakes \/ LosePacket \/ LoseAck \/ recv_ack

Spec == Init /\ [][Next]_vars

-----------------------------------------------------------------------------
TypeOK ==
    /\ seq_num \in 0..(SeqMod - 1) /\ ack_seq \in -1..(SeqMod - 1)
    /\ mutex_seq_num \in Threads \cup {"free"}
    /\ thread \in [Threads -> [at : {"idle", "lock", "number", "write", "wait", "done"},
                               SEQ : 0..(SeqMod - 1), n : 0..count, waits : BOOLEAN]]
    /\ received \subseteq 1..count /\ ackOf \in 0..count

\* The packets that exist: under way, acknowledged, or in a thread's hands.
Packets ==
    {line[i] : i \in DOMAIN line} \cup {acks[i] : i \in DOMAIN acks}
    \cup {[SEQ |-> thread[t].SEQ, n |-> thread[t].n] :
             t \in {u \in Threads : thread[u].at \in {"write", "wait"}}}

\* Two packets that exist at the same time and are less than SeqMod packets
\* apart have different numbers, whichever threads sent them.
NumbersDistinct ==
    TypeOK /\ \A p, q \in Packets : (p.n < q.n /\ q.n - p.n < SeqMod) => p.SEQ # q.SEQ

\* A wait that ends with the acknowledgement of a packet less than SeqMod
\* packets away means that the controller has that very packet.
AckedMeansReceived ==
    (/\ ended'.how = "ack" /\ ended' # ended /\ ackOf # None
     /\ ended'.n - ackOf < SeqMod /\ ackOf - ended'.n < SeqMod)
        => ended'.n \in received
AcksMeanReceived == [][AckedMeansReceived]_vars
=============================================================================
