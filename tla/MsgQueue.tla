------------------------------ MODULE MsgQueue -------------------------------
(***************************************************************************)
(* The message queue (src/src/msg_queue.c) between the thread of the       *)
(* communication layer, which puts every packet and the disconnection      *)
(* notice of the cloud into it, and the dispatcher thread, which takes     *)
(* them out (src/src/dispatcher.c).  Two semaphores count the messages     *)
(* ("empty") and the free places ("full"), a mutex guards the list.  The   *)
(* dispatcher thread itself initialises the queue when it starts, which    *)
(* the communication layer does not wait for.                              *)
(***************************************************************************)
EXTENDS Naturals, Sequences

CONSTANTS
    Messages,     \* the message objects, told apart
    Capacity,     \* MAX_MSG_QUEUE_SIZE
    NoMsg,        \* no message in hand
    EarlyPackets  \* may a packet arrive before the dispatcher has started?

ASSUME MsgQueueAssumption ==
    /\ Capacity \in Nat \ {0}
    /\ NoMsg \notin Messages
    /\ EarlyPackets \in BOOLEAN

Threads == {"com", "dispatcher"}

VARIABLES
    queue,   \* msg_queue.msg_queue_head
    empty,   \* semaphore: messages that can be taken
    full,    \* semaphore: places that are free
    mutex,   \* the thread that holds msg_queue.mutex, or "none"
    com,     \* where the communication layer is in msg_queue_enqueue
    packet,  \* the message it enqueues
    disp,    \* where the dispatcher is
    hand     \* the message the dispatcher removed and handles

vars == <<queue, empty, full, mutex, com, packet, disp, hand>>

ComPlaces  == {"idle", "full", "lock", "insert", "unlock", "post", "asleep"}
DispPlaces == {"init", "empty", "lock", "remove", "unlock", "post", "handle"}

(* Before msg_queue_init the queue is what the loader leaves: zeros.       *)
Init ==
    /\ queue = << >>
    /\ empty = 0
    /\ full = 0
    /\ mutex = "none"
    /\ com = "idle"
    /\ packet = NoMsg
    /\ disp = "init"
    /\ hand = NoMsg

(* A caller that already waits for the zeroed semaphore "full" is not      *)
(* known to the new one: it may sleep on for ever.                         *)
msg_queue_init ==
    /\ disp = "init"
    /\ queue' = << >>
    /\ empty' = 0
    /\ full' = Capacity
    /\ mutex' = "none"
    /\ disp' = "empty"
    /\ com' \in IF com = "full" THEN {"full", "asleep"} ELSE {com}
    /\ UNCHANGED <<packet, hand>>

-----------------------------------------------------------------------------
(* The communication layer: comm_packet_enqueue, on_cloud_disconnected.    *)
comm_packet_enqueue(m) ==
    /\ com = "idle"
    /\ EarlyPackets \/ disp # "init"
    /\ packet' = m
    /\ com' = "full"
    /\ UNCHANGED <<queue, empty, full, mutex, disp, hand>>

WaitFull ==
    /\ com = "full"
    /\ full > 0
    /\ full' = full - 1
    /\ com' = "lock"
    /\ UNCHANGED <<queue, empty, mutex, packet, disp, hand>>

LockInsert ==
    /\ com = "lock"
    /\ mutex = "none"
    /\ mutex' = "com"
    /\ com' = "insert"
    /\ UNCHANGED <<queue, empty, full, packet, disp, hand>>

(* Mutant: queue_insert_head.                                              *)
InsertHead ==
    /\ com = "insert"
    /\ queue' = <<packet>> \o queue
    /\ packet' = NoMsg
    /\ com' = "unlock"
    /\ UNCHANGED <<empty, full, mutex, disp, hand>>

InsertTail ==
    /\ com = "insert"
    /\ queue' = Append(queue, packet)
    /\ packet' = NoMsg
    /\ com' = "unlock"
    /\ UNCHANGED <<empty, full, mutex, disp, hand>>

UnlockInsert ==
    /\ com = "unlock"
    /\ mutex' = "none"
    /\ com' = "post"
    /\ UNCHANGED <<queue, empty, full, packet, disp, hand>>

PostEmpty ==
    /\ com = "post"
    /\ empty' = empty + 1
    /\ com' = "idle"
    /\ UNCHANGED <<queue, full, mutex, packet, disp, hand>>

msg_queue_enqueue ==
    WaitFull \/ LockInsert \/ InsertTail \/ UnlockInsert \/ PostEmpty

-----------------------------------------------------------------------------
(* The dispatcher: msg_queue_dequeue, then the handlers and free(msg).     *)
WaitEmpty ==
    /\ disp = "empty"
    /\ empty > 0
    /\ empty' = empty - 1
    /\ disp' = "lock"
    /\ UNCHANGED <<queue, full, mutex, com, packet, hand>>

LockRemove ==
    /\ disp = "lock"
    /\ mutex = "none"
    /\ mutex' = "dispatcher"
    /\ disp' = "remove"
    /\ UNCHANGED <<queue, empty, full, com, packet, hand>>

RemoveHead ==
    /\ disp = "remove"
    /\ hand' = Head(queue)
    /\ queue' = Tail(queue)
    /\ disp' = "unlock"
    /\ UNCHANGED <<empty, full, mutex, com, packet>>

UnlockRemove ==
    /\ disp = "unlock"
    /\ mutex' = "none"
    /\ disp' = "post"
    /\ UNCHANGED <<queue, empty, full, com, packet, hand>>

(* Mutant: the place is not given back.                                    *)
PostFullForgotten ==
    /\ disp = "post"
    /\ disp' = "handle"
    /\ UNCHANGED <<queue, empty, full, mutex, com, packet, hand>>

PostFull ==
    /\ disp = "post"
    /\ full' = full + 1
    /\ disp' = "handle"
    /\ UNCHANGED <<queue, empty, mutex, com, packet, hand>>

msg_queue_dequeue ==
    WaitEmpty \/ LockRemove \/ RemoveHead \/ UnlockRemove \/ PostFull

HandleMessage ==
    /\ disp = "handle"
    /\ hand' = NoMsg
    /\ disp' = "empty"
    /\ UNCHANGED <<queue, empty, full, mutex, com, packet>>

dispatcher_handler == msg_queue_init \/ msg_queue_dequeue \/ HandleMessage

-----------------------------------------------------------------------------
Next ==
    \/ \E m \in Messages : comm_packet_enqueue(m)
    \/ msg_queue_enqueue
    \/ dispatcher_handler

Spec == Init /\ [][Next]_vars

(* A thread that can run does; a handler returns.                          *)
Fairness == WF_vars(msg_queue_enqueue) /\ WF_vars(dispatcher_handler)

FairSpec == Spec /\ Fairness

-----------------------------------------------------------------------------
TypeOK ==
    /\ queue \in Seq(Messages)
    /\ empty \in 0..Capacity
    /\ full \in 0..Capacity
    /\ mutex \in Threads \cup {"none"}
    /\ com \in ComPlaces
    /\ packet \in Messages \cup {NoMsg}
    /\ disp \in DispPlaces
    /\ hand \in Messages \cup {NoMsg}

(* Every place of the queue is either free, used, promised to a caller of  *)
(* msg_queue_enqueue that passed sem_wait(full), or owed by a dequeue that *)
(* has not posted it yet; every message in the list is counted by "empty", *)
(* promised to the dispatcher, or not posted yet.  Together they bound the *)
(* list by its capacity and keep the dispatcher from an empty list.        *)
SlotsBalance ==
    disp # "init" =>
      /\ full + Len(queue)
           + (IF com \in {"lock", "insert"} THEN 1 ELSE 0)
           + (IF disp \in {"unlock", "post"} THEN 1 ELSE 0) = Capacity
      /\ empty + (IF disp \in {"lock", "remove"} THEN 1 ELSE 0)
           + (IF com \in {"unlock", "post"} THEN 1 ELSE 0) = Len(queue)

(* The two "CRITICAL SECTION"s of msg_queue.c exclude each other: the list *)
(* is never linked by one thread while the other unlinks from it.          *)
MutualExclusion ==
    ~ (com \in {"insert", "unlock"} /\ disp \in {"remove", "unlock"})

(* msg_queue.c implements the bounded first-in first-out queue: no message *)
(* is lost, duplicated, reordered, put into a full queue or taken from an  *)
(* empty one, whatever the threads' interleaving.                          *)
FIFO == INSTANCE MsgFIFO
ImplementsFIFO == FIFO!Spec

(* A message that is in the queue is handled: no wakeup is lost between    *)
(* sem_post and sem_wait.  And msg_queue_enqueue returns ("Wait until      *)
(* there's at least one space"), unless it was called before the queue was *)
(* initialised: the event loop is not held up for ever.                    *)
EveryMessageHandled ==
    /\ \A m \in Messages :
          (\E i \in 1..Len(queue) : queue[i] = m) ~> (hand = m)
    /\ (com = "full" /\ disp # "init") ~> (com \in {"idle", "asleep"})
==============================================================================
