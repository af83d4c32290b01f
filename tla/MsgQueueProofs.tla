---------------------------- MODULE MsgQueueProofs ----------------------------
(***************************************************************************)
(* For every capacity and every set of messages: the counting of the two   *)
(* semaphores, the mutual exclusion of the two critical sections, and that *)
(* the queue of src/src/msg_queue.c implements the bounded FIFO queue.     *)
(***************************************************************************)
EXTENDS MsgQueue, TLAPS

(* The mutex is held exactly inside the critical sections.                 *)
MutexHeld ==
    /\ (mutex = "com") <=> (com \in {"insert", "unlock"})
    /\ (mutex = "dispatcher") <=> (disp \in {"remove", "unlock"})

(* Who has a message in hand.                                              *)
MessageHeld ==
    /\ com \in {"full", "lock", "insert", "asleep"} => packet \in Messages
    /\ disp \in {"unlock", "post", "handle"} <=> hand \in Messages

(* Until the dispatcher has initialised the queue nobody passes "full".    *)
BeforeInit ==
    disp = "init" => /\ queue = << >> /\ empty = 0 /\ full = 0
                     /\ mutex = "none" /\ com \in {"idle", "full"}

(* The inductive invariant: SlotsBalance alone is not inductive, since the *)
(* bounds of the semaphores and the contents of the hands depend on it.    *)
QueueInv ==
    TypeOK /\ SlotsBalance /\ MutexHeld /\ MessageHeld /\ BeforeInit

-----------------------------------------------------------------------------
(* The zeroed queue satisfies the invariant.                               *)
LEMMA InitQueueInv == Init => QueueInv
  BY MsgQueueAssumption
     DEF Init, QueueInv, TypeOK, SlotsBalance, MutexHeld, MessageHeld,
         BeforeInit, Threads, ComPlaces, DispPlaces

(* Initialising the queue makes every place free.                          *)
LEMMA InitStep == QueueInv /\ msg_queue_init => QueueInv'
  <1> SUFFICES ASSUME QueueInv, msg_queue_init PROVE QueueInv'
      OBVIOUS
  <1> USE MsgQueueAssumption DEF QueueInv, msg_queue_init, ComPlaces,
          DispPlaces, Threads
  <1>1. TypeOK'
    BY DEF TypeOK, BeforeInit
  <1>2. SlotsBalance'
    BY DEF BeforeInit, SlotsBalance, TypeOK
  <1>3. MutexHeld' /\ MessageHeld' /\ BeforeInit'
    BY DEF MutexHeld, MessageHeld, BeforeInit, TypeOK
  <1> QED BY <1>1, <1>2, <1>3

(* A new packet only moves the communication layer to its sem_wait.        *)
LEMMA PacketStep ==
    ASSUME NEW m \in Messages, QueueInv, comm_packet_enqueue(m)
    PROVE  QueueInv'
  BY MsgQueueAssumption
     DEF QueueInv, comm_packet_enqueue, TypeOK, SlotsBalance, MutexHeld,
         MessageHeld, BeforeInit, ComPlaces, DispPlaces, Threads

(* Each step of msg_queue_enqueue keeps the balance.                       *)
LEMMA EnqueueStep == QueueInv /\ msg_queue_enqueue => QueueInv'
  <1> SUFFICES ASSUME QueueInv, msg_queue_enqueue PROVE QueueInv'
      OBVIOUS
  <1> USE MsgQueueAssumption DEF QueueInv, TypeOK, SlotsBalance, MutexHeld,
          MessageHeld, BeforeInit, ComPlaces, DispPlaces, Threads
  <1>1. CASE WaitFull
    BY <1>1 DEF WaitFull
  <1>2. CASE LockInsert
    BY <1>2 DEF LockInsert
  <1>3. CASE InsertTail
    <2>1. /\ Append(queue, packet) \in Seq(Messages)
          /\ Len(Append(queue, packet)) = Len(queue) + 1
      BY <1>3 DEF InsertTail
    <2> QED BY <1>3, <2>1 DEF InsertTail
  <1>4. CASE UnlockInsert
    BY <1>4 DEF UnlockInsert
  <1>5. CASE PostEmpty
    <2>1. Len(queue) \in Nat
      OBVIOUS
    <2> QED BY <1>5, <2>1 DEF PostEmpty
  <1> QED BY <1>1, <1>2, <1>3, <1>4, <1>5 DEF msg_queue_enqueue

(* Each step of msg_queue_dequeue, and the handling of the message, keeps  *)
(* the balance; the list is not empty when its head is taken.              *)
LEMMA DequeueStep ==
    QueueInv /\ (msg_queue_dequeue \/ HandleMessage) => QueueInv'
  <1> SUFFICES ASSUME QueueInv, msg_queue_dequeue \/ HandleMessage
               PROVE  QueueInv'
      OBVIOUS
  <1> USE MsgQueueAssumption DEF QueueInv, TypeOK, SlotsBalance, MutexHeld,
          MessageHeld, BeforeInit, ComPlaces, DispPlaces, Threads
  <1>1. CASE WaitEmpty
    BY <1>1 DEF WaitEmpty
  <1>2. CASE LockRemove
    BY <1>2 DEF LockRemove
  <1>3. CASE RemoveHead
    <2>1. queue # << >>
      BY <1>3 DEF RemoveHead
    <2>2. /\ Head(queue) \in Messages
          /\ Tail(queue) \in Seq(Messages)
          /\ Len(Tail(queue)) = Len(queue) - 1
      BY <2>1
    <2> QED BY <1>3, <2>2 DEF RemoveHead
  <1>4. CASE UnlockRemove
    BY <1>4 DEF UnlockRemove
  <1>5. CASE PostFull
    <2>1. Len(queue) \in Nat
      OBVIOUS
    <2> QED BY <1>5, <2>1 DEF PostFull
  <1>6. CASE HandleMessage
    BY <1>6 DEF HandleMessage
  <1> QED BY <1>1, <1>2, <1>3, <1>4, <1>5, <1>6 DEF msg_queue_dequeue

(* No step of either thread leaves the invariant.                          *)
LEMMA NextQueueInv == QueueInv /\ [Next]_vars => QueueInv'
  <1> SUFFICES ASSUME QueueInv, [Next]_vars PROVE QueueInv'
      OBVIOUS
  <1>1. CASE \E m \in Messages : comm_packet_enqueue(m)
    BY <1>1, PacketStep
  <1>2. CASE msg_queue_enqueue
    BY <1>2, EnqueueStep
  <1>3. CASE dispatcher_handler
    BY <1>3, InitStep, DequeueStep DEF dispatcher_handler
  <1>4. CASE UNCHANGED vars
    BY <1>4 DEF vars, QueueInv, TypeOK, SlotsBalance, MutexHeld,
                MessageHeld, BeforeInit
  <1> QED BY <1>1, <1>2, <1>3, <1>4 DEF Next

(* The inductive invariant holds in every behaviour of the two threads.    *)
THEOREM QueueInvariant == Spec => []QueueInv
  BY InitQueueInv, NextQueueInv, PTL DEF Spec

(* The semaphores of msg_queue.c account for every place and every message *)
(* of the queue, for every capacity.                                       *)
THEOREM SlotsAlwaysBalance == Spec => []SlotsBalance
  <1>1. QueueInv => SlotsBalance
    BY DEF QueueInv
  <1> QED BY <1>1, QueueInvariant, PTL

(* msg_queue_enqueue and msg_queue_dequeue are never both inside their     *)
(* critical sections.                                                      *)
THEOREM CriticalSectionsExclude == Spec => []MutualExclusion
  <1>1. QueueInv => MutualExclusion
    BY DEF QueueInv, MutexHeld, MutualExclusion
  <1> QED BY <1>1, QueueInvariant, PTL

-----------------------------------------------------------------------------
(* Every step of the threads is a step of the FIFO queue or leaves it.     *)
LEMMA StepRefines ==
    QueueInv /\ [Next]_vars => [FIFO!Next]_<<queue, hand>>
  <1> SUFFICES ASSUME QueueInv, [Next]_vars
               PROVE  FIFO!Next \/ UNCHANGED <<queue, hand>>
      OBVIOUS
  <1>1. CASE InsertTail
    <2>1. packet \in Messages /\ Len(queue) < Capacity
      BY <1>1, MsgQueueAssumption
         DEF InsertTail, QueueInv, MessageHeld, SlotsBalance, BeforeInit,
             TypeOK
    <2>2. FIFO!Send(packet)
      BY <1>1, <2>1 DEF InsertTail, FIFO!Send
    <2> QED BY <2>1, <2>2 DEF FIFO!Next
  <1>2. CASE RemoveHead
    <2>1. hand = NoMsg
      BY <1>2 DEF RemoveHead, QueueInv, MessageHeld, TypeOK
    <2>2. queue # << >>
      BY <1>2 DEF RemoveHead, QueueInv, SlotsBalance, TypeOK
    <2> QED BY <1>2, <2>1, <2>2 DEF RemoveHead, FIFO!Next, FIFO!Receive
  <1>3. CASE HandleMessage
    <2>1. hand # NoMsg
      BY <1>3, MsgQueueAssumption DEF HandleMessage, QueueInv, MessageHeld
    <2> QED BY <1>3, <2>1 DEF HandleMessage, FIFO!Next, FIFO!Finish
  <1>4. CASE msg_queue_init
    BY <1>4 DEF msg_queue_init, QueueInv, BeforeInit
  <1>5. CASE \/ \E m \in Messages : comm_packet_enqueue(m)
             \/ WaitFull \/ LockInsert \/ UnlockInsert \/ PostEmpty
             \/ WaitEmpty \/ LockRemove \/ UnlockRemove \/ PostFull
    BY <1>5 DEF comm_packet_enqueue, WaitFull, LockInsert, UnlockInsert,
                PostEmpty, WaitEmpty, LockRemove, UnlockRemove, PostFull
  <1>6. CASE UNCHANGED vars
    BY <1>6 DEF vars
  <1> QED BY <1>1, <1>2, <1>3, <1>4, <1>5, <1>6
             DEF Next, msg_queue_enqueue, dispatcher_handler,
                 msg_queue_dequeue

(* The queue of msg_queue.c, with its semaphores and its mutex, implements *)
(* the bounded FIFO queue the dispatcher relies on.                        *)
THEOREM QueueImplementsFIFO == Spec => ImplementsFIFO
  <1>1. Init => FIFO!Init
    BY DEF Init, FIFO!Init
  <1> QED BY <1>1, StepRefines, QueueInvariant, PTL
          DEF Spec, ImplementsFIFO, FIFO!Spec
==============================================================================
