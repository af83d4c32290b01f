-------------------------- MODULE SerialSendProofs --------------------------
(***************************************************************************)
(* Theorems about the sequence numbers of the commands, for any threads,   *)
(* any modulus and any line: packets that exist at the same time and are   *)
(* less than a full turn apart have different numbers, and a wait that     *)
(* ends with an acknowledgement from within a full turn was for a packet   *)
(* the controller has.                                                     *)
(***************************************************************************)
EXTENDS SerialSend, SequenceTheorems, TLAPS

(* Counting modulo SeqMod.                                                  *)

\* Quotient and remainder.
LEMMA DivMod ==
    ASSUME NEW M \in Nat \ {0}, NEW a \in Nat
    PROVE  /\ a % M \in 0..(M - 1) /\ a \div M \in Int
           /\ a = M * (a \div M) + (a % M)
OBVIOUS

\* A positive multiple of M is at least M.
LEMMA PositiveMultiple ==
    ASSUME NEW M \in Nat \ {0}, NEW d \in Int, d > 0
    PROVE  M * d >= M
OBVIOUS

\* Numbers less than M apart differ modulo M.
LEMMA ModDistinct ==
    ASSUME NEW M \in Nat \ {0}, NEW a \in Nat, NEW b \in Nat, a < b, b - a < M
    PROVE  a % M # b % M
<1> DEFINE p == a \div M
           q == b \div M
<1> SUFFICES ASSUME a % M = b % M PROVE FALSE
  OBVIOUS
<1>1. p \in Int /\ q \in Int /\ b - a = M * q - M * p
  BY DivMod
<1> HIDE DEF p, q
<1>2. b - a = M * (q - p)
  BY <1>1
<1>3. q - p > 0
  <2>1. CASE q - p <= 0
    <3>1. M * (p - q) >= 0
      BY <1>1, <2>1
    <3> QED BY <1>1, <1>2, <3>1
  <2> QED BY <2>1, <1>1
<1>4. M * (q - p) >= M
  BY <1>1, <1>3, PositiveMultiple
<1> QED BY <1>2, <1>4

\* The remainder is the only one.
LEMMA ModUnique ==
    ASSUME NEW M \in Nat \ {0}, NEW q \in Int, NEW r \in 0..(M - 1), M * q + r \in Nat
    PROVE  (M * q + r) % M = r
<1> DEFINE x == M * q + r
           p == x \div M
           s == x % M
<1>1. s \in 0..(M - 1) /\ p \in Int /\ x = M * p + s
  BY DivMod
<1>2. M * q \in Int /\ M * p \in Int /\ M * q - M * p = s - r
  BY <1>1
<1> HIDE DEF x, p, s
<1>3. M * (q - p) = s - r /\ M * (p - q) = r - s
  BY <1>1, <1>2
<1>4. ~(q - p > 0)
  BY <1>1, <1>3, PositiveMultiple
<1>5. ~(p - q > 0)
  BY <1>1, <1>3, PositiveMultiple
<1>6. p = q
  BY <1>1, <1>4, <1>5
<1>7. s = r
  BY <1>1, <1>2, <1>6
<1> QED BY <1>7 DEF x, s

\* Counting modulo M, one step at a time.
LEMMA ModSucc ==
    ASSUME NEW M \in Nat \ {0, 1}, NEW a \in Nat
    PROVE  ((a % M) + 1) % M = (a + 1) % M
<1> DEFINE r == a % M
           q == a \div M
<1>1. r \in 0..(M - 1) /\ q \in Int /\ a = M * q + r
  BY DivMod
<1> HIDE DEF r, q
<1>2. CASE r + 1 < M
  <2>1. a + 1 = M * q + (r + 1) /\ r + 1 \in 0..(M - 1) /\ r + 1 = M * 0 + (r + 1)
    BY <1>1, <1>2
  <2>2. (M * q + (r + 1)) % M = r + 1
    BY <1>1, <2>1, ModUnique
  <2>3. (M * 0 + (r + 1)) % M = r + 1
    BY <1>1, <2>1, ModUnique
  <2> QED BY <2>1, <2>2, <2>3 DEF r
<1>3. CASE r + 1 = M
  <2> DEFINE e == q + 1
  <2>1. a + 1 = M * e + 0 /\ e \in Int /\ 0 \in 0..(M - 1) /\ M * e + 0 \in Nat
    BY <1>1, <1>3
  <2>2. r + 1 = M * 1 + 0
    BY <1>3
  <2> HIDE DEF e
  <2>3. (M * e + 0) % M = 0
    BY <2>1, ModUnique
  <2>4. (M * 1 + 0) % M = 0
    BY ModUnique
  <2> QED BY <2>1, <2>2, <2>3, <2>4 DEF r
<1> QED BY <1>1, <1>2, <1>3

-----------------------------------------------------------------------------
(* The inductive invariant.                                                 *)

Numbers == 0..(SeqMod - 1)

\* The number of the n-th packet of the program.
NumberOf(n) == (n - 1) % SeqMod

\* The packets that may be under way when k have been built.
Built(k) == {p \in [SEQ : Numbers, n : 1..k] : p.SEQ = NumberOf(p.n)}

ThreadStates(k) ==
    [at : {"idle", "lock", "number", "write", "wait", "done"},
     SEQ : Numbers, n : 0..k, waits : BOOLEAN]

\* A thread between the lock and the increment holds the mutex and the number
\* of the next packet; one with a packet in hand has its number.
ThreadOK(t) ==
    /\ thread[t].at = "number" =>
          mutex_seq_num = t /\ thread[t].SEQ = count % SeqMod
    /\ thread[t].at \in {"write", "wait"} =>
          thread[t].n >= 1 /\ thread[t].SEQ = NumberOf(thread[t].n)

SendInv ==
    /\ count \in Nat /\ seq_num = count % SeqMod
    /\ ack_seq \in -1..(SeqMod - 1)
    /\ mutex_seq_num \in Threads \cup {"free"}
    /\ thread \in [Threads -> ThreadStates(count)]
    /\ \A t \in Threads : ThreadOK(t)
    /\ line \in Seq(Built(count))
    /\ received \subseteq 1..count
    /\ acks \in Seq({p \in Built(count) : p.n \in received})
    /\ ackOf \in received \cup {None}
    /\ ackOf # None => ack_seq = NumberOf(ackOf)

-----------------------------------------------------------------------------
LEMMA ModAssumption == SeqMod \in Nat \ {0, 1}
BY SerialSendAssumption

LEMMA NumbersAreNumbers ==
    /\ \A n \in Nat : n % SeqMod \in Numbers
    /\ \A n \in Nat : NumberOf(n + 1) = n % SeqMod
    /\ 0 \in Numbers
<1>1. \A n \in Nat : n % SeqMod \in Numbers
  BY ModAssumption, DivMod DEF Numbers
<1>2. \A n \in Nat : NumberOf(n + 1) = n % SeqMod
  <2> SUFFICES ASSUME NEW n \in Nat PROVE NumberOf(n + 1) = n % SeqMod
    OBVIOUS
  <2>1. (n + 1) - 1 = n
    OBVIOUS
  <2> QED BY <2>1 DEF NumberOf
<1> QED BY <1>1, <1>2, ModAssumption DEF Numbers

LEMMA InitSendInv == Init => SendInv
<1> SUFFICES ASSUME Init PROVE SendInv
  OBVIOUS
<1> USE DEF Init
<1>1. count \in Nat /\ seq_num = count % SeqMod /\ ack_seq \in -1..(SeqMod - 1)
  BY ModAssumption
<1>2. thread \in [Threads -> ThreadStates(count)]
  BY NumbersAreNumbers DEF ThreadStates, None
<1>3. \A t \in Threads : ThreadOK(t)
  BY DEF ThreadOK
<1> QED BY <1>1, <1>2, <1>3 DEF SendInv, None

\* A thread that goes on with the number and the packet it has.
LEMMA ThreadMoves ==
    ASSUME SendInv, NEW t \in Threads, NEW st \in ThreadStates(count),
           thread' = [thread EXCEPT ![t] = st], count' = count,
           mutex_seq_num' = mutex_seq_num \/ mutex_seq_num = "free",
           st.at = "number" => mutex_seq_num' = t /\ st.SEQ = count % SeqMod,
           st.at \in {"write", "wait"} => st.n >= 1 /\ st.SEQ = NumberOf(st.n)
    PROVE  thread' \in [Threads -> ThreadStates(count')] /\ \A u \in Threads : ThreadOK(u)'
<1>1. /\ thread' \in [Threads -> ThreadStates(count)] /\ thread'[t] = st
      /\ \A u \in Threads : u # t => thread'[u] = thread[u]
  BY DEF SendInv
<1>2. "free" \notin Threads
  BY SerialSendAssumption DEF Threads
<1>3. ASSUME NEW u \in Threads PROVE ThreadOK(u)'
  <2>1. CASE u = t
    BY <2>1, <1>1 DEF ThreadOK
  <2>2. CASE u # t
    <3>1. ThreadOK(u) /\ thread'[u] = thread[u]
      BY <2>2, <1>1 DEF SendInv
    <3>2. thread[u].at = "number" => mutex_seq_num' = mutex_seq_num
      BY <3>1, <1>2 DEF ThreadOK
    <3> QED BY <3>1, <3>2 DEF ThreadOK
  <2> QED BY <2>1, <2>2
<1> QED BY <1>1, <1>3

-----------------------------------------------------------------------------
(* A step of a thread keeps the invariant.                                  *)

\* The steps that number no packet and leave the line alone.
LEMMA MoveSendInv ==
    ASSUME SendInv, NEW t \in Threads, NEW st \in ThreadStates(count),
           thread' = [thread EXCEPT ![t] = st],
           UNCHANGED <<link, seq_num, count>>,
           mutex_seq_num' = mutex_seq_num \/ (mutex_seq_num = "free" /\ mutex_seq_num' = t),
           st.at = "number" => mutex_seq_num' = t /\ st.SEQ = count % SeqMod,
           st.at \in {"write", "wait"} => st.n >= 1 /\ st.SEQ = NumberOf(st.n)
    PROVE  SendInv'
<1>1. thread' \in [Threads -> ThreadStates(count')] /\ \A u \in Threads : ThreadOK(u)'
  BY ThreadMoves
<1>2. mutex_seq_num' \in Threads \cup {"free"}
  BY DEF SendInv
<1> QED BY <1>1, <1>2 DEF SendInv, link

LEMMA CallSendInv == ASSUME SendInv, NEW t \in Threads, Call(t) PROVE SendInv'
<1>1. PICK w \in BOOLEAN : thread' = [thread EXCEPT ![t].at = "lock", ![t].waits = w]
  BY DEF Call
<1> DEFINE st == [thread[t] EXCEPT !.at = "lock", !.waits = w]
<1>2. st \in ThreadStates(count) /\ st.at = "lock"
  BY DEF SendInv, ThreadStates
<1>3. thread' = [thread EXCEPT ![t] = st]
  BY <1>1 DEF SendInv
<1> HIDE DEF st
<1> QED BY <1>2, <1>3, MoveSendInv DEF Call

LEMMA LockSendInv == ASSUME SendInv, NEW t \in Threads, get_seq_num_lock(t) PROVE SendInv'
<1> DEFINE st == [thread[t] EXCEPT !.at = "number", !.SEQ = seq_num]
<1>1. seq_num \in Numbers
  BY NumbersAreNumbers DEF SendInv
<1>2. st \in ThreadStates(count) /\ st.at = "number" /\ st.SEQ = count % SeqMod
  BY <1>1 DEF SendInv, ThreadStates
<1>3. thread' = [thread EXCEPT ![t] = st]
  BY DEF get_seq_num_lock, SendInv
<1> HIDE DEF st
<1> QED BY <1>2, <1>3, MoveSendInv DEF get_seq_num_lock

LEMMA WriteSendInv == ASSUME SendInv, NEW t \in Threads, TC_packet_tx(t) PROVE SendInv'
<1> DEFINE st == [thread[t] EXCEPT !.at = IF thread[t].waits THEN "wait" ELSE "idle"]
           p == [SEQ |-> thread[t].SEQ, n |-> thread[t].n]
<1>1. /\ thread[t] \in ThreadStates(count) /\ count \in Nat
      /\ thread[t].n >= 1 /\ thread[t].SEQ = NumberOf(thread[t].n)
  BY DEF SendInv, TC_packet_tx, ThreadOK
<1>2. /\ st \in ThreadStates(count) /\ st.at \in {"wait", "idle"}
      /\ st.n = thread[t].n /\ st.SEQ = thread[t].SEQ
  BY <1>1 DEF ThreadStates
<1>3. thread' = [thread EXCEPT ![t] = st]
  BY DEF TC_packet_tx, SendInv
<1>4. p \in Built(count)
  BY <1>1 DEF Built, ThreadStates
<1>5. line' \in Seq(Built(count))
  BY <1>4 DEF TC_packet_tx, SendInv
<1> HIDE DEF st, p
<1>6. thread' \in [Threads -> ThreadStates(count')] /\ \A u \in Threads : ThreadOK(u)'
  BY <1>1, <1>2, <1>3, ThreadMoves DEF TC_packet_tx
<1> QED BY <1>5, <1>6 DEF TC_packet_tx, SendInv

LEMMA WaitSendInv ==
    ASSUME SendInv, NEW t \in Threads, WaitSucceeds(t) \/ WaitTimesOut(t)
    PROVE  SendInv'
<1> DEFINE st == [thread[t] EXCEPT !.at = Over(t)]
<1>1. st \in ThreadStates(count) /\ st.at \in {"done", "idle"}
  BY DEF SendInv, ThreadStates, Over
<1>2. thread' = [thread EXCEPT ![t] = st]
  BY DEF WaitSucceeds, WaitTimesOut, SendInv
<1> HIDE DEF st
<1> QED BY <1>1, <1>2, MoveSendInv DEF WaitSucceeds, WaitTimesOut

\* The increment builds the next packet and frees the mutex: nobody else was
\* counting, and what is known of the packets built before stays known.
LEMMA NumberSendInv == ASSUME SendInv, NEW t \in Threads, get_seq_num_end(t) PROVE SendInv'
<1> DEFINE st == [thread[t] EXCEPT !.at = "write", !.n = count + 1]
<1>1. /\ count \in Nat /\ count' = count + 1 /\ mutex_seq_num = t
      /\ thread[t] \in ThreadStates(count) /\ thread[t].SEQ = count % SeqMod
  BY DEF SendInv, get_seq_num_end, ThreadOK
<1>2. seq_num' = count' % SeqMod
  BY <1>1, ModAssumption, ModSucc DEF get_seq_num_end
<1>3. ThreadStates(count) \subseteq ThreadStates(count')
  BY <1>1 DEF ThreadStates
<1>4. Built(count) \subseteq Built(count')
  BY <1>1 DEF Built
<1>5. /\ st \in ThreadStates(count') /\ st.at = "write" /\ st.n >= 1
      /\ st.SEQ = NumberOf(st.n)
  <2> DEFINE k == count + 1
  <2>0. k \in 0..k /\ count' = k
    BY <1>1
  <2> HIDE DEF k
  <2>1. st \in ThreadStates(count') /\ st.at = "write" /\ st.SEQ = thread[t].SEQ
    BY <1>1, <1>3, <2>0 DEF ThreadStates, k
  <2>2. st.n = count + 1 /\ st.n >= 1
    BY <1>1 DEF ThreadStates
  <2>3. NumberOf(count + 1) = count % SeqMod
    BY <1>1, NumbersAreNumbers
  <2> QED BY <1>1, <2>1, <2>2, <2>3
<1>6. /\ thread' = [thread EXCEPT ![t] = st] /\ thread \in [Threads -> ThreadStates(count)]
  BY <1>1 DEF get_seq_num_end, SendInv
<1> HIDE DEF st
<1>7. /\ thread' \in [Threads -> ThreadStates(count')] /\ thread'[t] = st
      /\ \A u \in Threads : u # t => thread'[u] = thread[u]
  BY <1>3, <1>5, <1>6
<1>8. ASSUME NEW u \in Threads PROVE ThreadOK(u)'
  <2>1. CASE u = t
    BY <2>1, <1>5, <1>7 DEF ThreadOK
  <2>2. CASE u # t
    <3>1. ThreadOK(u) /\ thread'[u] = thread[u]
      BY <2>2, <1>7 DEF SendInv
    <3>2. thread[u].at # "number"
      BY <3>1, <1>1, <2>2 DEF ThreadOK
    <3> QED BY <3>1, <3>2 DEF ThreadOK
  <2> QED BY <2>1, <2>2
<1>9. line' \in Seq(Built(count')) /\ received' \subseteq 1..count'
  BY <1>1, <1>4 DEF get_seq_num_end, link, SendInv
<1>10. acks' \in Seq({p \in Built(count') : p.n \in received'})
  BY <1>4 DEF get_seq_num_end, link, SendInv
<1> QED BY <1>1, <1>2, <1>7, <1>8, <1>9, <1>10 DEF get_seq_num_end, link, SendInv

-----------------------------------------------------------------------------
(* A step of the line or of the receiving thread keeps it.                  *)

\* Those steps leave the threads alone.
LEMMA LineFrame ==
    ASSUME SendInv, UNCHANGED <<seq_num, mutex_seq_num, thread, count>>
    PROVE  /\ count' \in Nat /\ seq_num' = count' % SeqMod
           /\ mutex_seq_num' \in Threads \cup {"free"}
           /\ thread' \in [Threads -> ThreadStates(count')]
           /\ \A t \in Threads : ThreadOK(t)'
BY DEF SendInv, ThreadOK

LEMMA TakeSendInv == ASSUME SendInv, ControllerTakes PROVE SendInv'
<1>1. /\ line \in Seq(Built(count)) /\ line # <<>> /\ line[1] \in Built(count)
      /\ line' \in Seq(Built(count))
  BY HeadTailProperties DEF SendInv, ControllerTakes
<1>2. line[1].n \in 1..count
  BY <1>1 DEF Built
<1>3. received' = received \cup {line[1].n} /\ received' \subseteq 1..count
  BY <1>2 DEF SendInv, ControllerTakes
<1>4. acks' \in Seq({p \in Built(count) : p.n \in received'})
  BY <1>1, <1>3 DEF SendInv, ControllerTakes
<1>5. ackOf' \in received' \cup {None}
  BY <1>3 DEF SendInv, ControllerTakes
<1> QED BY <1>1, <1>3, <1>4, <1>5, LineFrame DEF SendInv, ControllerTakes

LEMMA LosePacketSendInv == ASSUME SendInv, LosePacket PROVE SendInv'
<1>1. line' \in Seq(Built(count))
  BY HeadTailProperties DEF SendInv, LosePacket
<1> QED BY <1>1, LineFrame DEF SendInv, LosePacket

LEMMA LoseAckSendInv == ASSUME SendInv, LoseAck PROVE SendInv'
<1>1. acks' \in Seq({p \in Built(count) : p.n \in received})
  BY HeadTailProperties DEF SendInv, LoseAck
<1>2. ack_seq' \in -1..(SeqMod - 1)
  BY ModAssumption DEF SendInv, LoseAck
<1>3. ackOf' \in received \cup {None} /\ (ackOf' # None => ack_seq' = NumberOf(ackOf'))
  BY DEF SendInv, LoseAck
<1> QED BY <1>1, <1>2, <1>3, LineFrame DEF SendInv, LoseAck

LEMMA RecvAckSendInv == ASSUME SendInv, recv_ack PROVE SendInv'
<1> DEFINE Acked == {p \in Built(count) : p.n \in received}
<1>1. acks' \in Seq(Acked) /\ acks[1] \in Acked
  BY HeadTailProperties DEF SendInv, recv_ack
<1>2. acks[1].SEQ \in Numbers /\ acks[1].SEQ = NumberOf(acks[1].n) /\ acks[1].n \in received
  BY <1>1 DEF Built
<1>3. ack_seq' \in -1..(SeqMod - 1)
  BY <1>2, ModAssumption DEF recv_ack, Numbers
<1>4. ackOf' \in received /\ ack_seq' = NumberOf(ackOf')
  BY <1>2 DEF recv_ack
<1> QED BY <1>1, <1>3, <1>4, LineFrame DEF SendInv, recv_ack

LEMMA NextSendInv == SendInv /\ [Next]_vars => SendInv'
<1> SUFFICES ASSUME SendInv, [Next]_vars PROVE SendInv'
  OBVIOUS
<1>1. CASE UNCHANGED vars
  BY <1>1, LineFrame DEF vars, SendInv
<1>2. ASSUME NEW t \in Threads, Step(t) PROVE SendInv'
  BY <1>2, CallSendInv, LockSendInv, NumberSendInv, WriteSendInv, WaitSendInv DEF Step
<1>3. CASE ControllerTakes \/ LosePacket \/ LoseAck \/ recv_ack
  BY <1>3, TakeSendInv, LosePacketSendInv, LoseAckSendInv, RecvAckSendInv
<1> QED BY <1>1, <1>2, <1>3 DEF Next

\* Whoever sends what, the invariant holds of the numbers, the packets and the
\* acknowledgements (get_seq_num, TC_packet_tx, recv_ack).
THEOREM SendInvHolds == Spec => []SendInv
BY InitSendInv, NextSendInv, PTL DEF Spec

-----------------------------------------------------------------------------
(* What it implies.                                                         *)

\* Packets whose numbers agree are the same or a full turn apart.
LEMMA SameNumberSamePacket ==
    ASSUME NEW a \in Nat \ {0}, NEW b \in Nat \ {0}, NumberOf(a) = NumberOf(b),
           a - b < SeqMod, b - a < SeqMod
    PROVE  a = b
<1> DEFINE x == a - 1
           y == b - 1
<1>1. x \in Nat /\ y \in Nat /\ x - y = a - b /\ y - x = b - a /\ x % SeqMod = y % SeqMod
  BY DEF NumberOf
<1>2. a = b <=> x = y
  OBVIOUS
<1> HIDE DEF x, y
<1>3. ~(x < y) /\ ~(y < x)
  BY <1>1, ModAssumption, ModDistinct
<1> QED BY <1>1, <1>2, <1>3

LEMMA PacketsAreBuilt == SendInv => Packets \subseteq Built(count)
<1> SUFFICES ASSUME SendInv, NEW p \in Packets PROVE p \in Built(count)
  OBVIOUS
<1>1. CASE \E i \in DOMAIN line : p = line[i]
  BY <1>1 DEF SendInv
<1>2. CASE \E i \in DOMAIN acks : p = acks[i]
  BY <1>2 DEF SendInv
<1>3. CASE \E t \in {u \in Threads : thread[u].at \in {"write", "wait"}} :
              p = [SEQ |-> thread[t].SEQ, n |-> thread[t].n]
  <2>1. PICK t \in Threads : /\ thread[t].at \in {"write", "wait"}
                             /\ p = [SEQ |-> thread[t].SEQ, n |-> thread[t].n]
    BY <1>3
  <2>2. /\ thread[t] \in ThreadStates(count) /\ count \in Nat
        /\ thread[t].n >= 1 /\ thread[t].SEQ = NumberOf(thread[t].n)
    BY <2>1 DEF SendInv, ThreadOK
  <2> QED BY <2>1, <2>2 DEF Built, ThreadStates
<1> QED BY <1>1, <1>2, <1>3 DEF Packets

LEMMA SendInvTypeOK == SendInv => TypeOK
<1> SUFFICES ASSUME SendInv PROVE TypeOK
  OBVIOUS
<1>1. seq_num \in 0..(SeqMod - 1)
  BY NumbersAreNumbers DEF SendInv, Numbers
<1>2. thread \in [Threads -> [at : {"idle", "lock", "number", "write", "wait", "done"},
                              SEQ : 0..(SeqMod - 1), n : 0..count, waits : BOOLEAN]]
  BY DEF SendInv, ThreadStates, Numbers
<1>3. ackOf \in 0..count
  BY DEF SendInv, None
<1> QED BY <1>1, <1>2, <1>3 DEF SendInv, TypeOK

\* Threads that number their packets at the same time never give one number
\* twice within a turn: packets that exist together and are less than SeqMod
\* apart differ in it (get_seq_num, seq_num++ in eight bits).
THEOREM NumbersAreDistinct == Spec => []NumbersDistinct
<1>1. SendInv => NumbersDistinct
  <2> SUFFICES ASSUME SendInv, NEW p \in Packets, NEW q \in Packets,
                      p.n < q.n, q.n - p.n < SeqMod, p.SEQ = q.SEQ
               PROVE  FALSE
    BY SendInvTypeOK DEF NumbersDistinct
  <2>1. count \in Nat /\ p \in Built(count) /\ q \in Built(count)
    BY PacketsAreBuilt DEF SendInv
  <2>2. /\ p.n \in Nat \ {0} /\ q.n \in Nat \ {0} /\ NumberOf(p.n) = NumberOf(q.n)
        /\ p.n - q.n < SeqMod
    BY <2>1, ModAssumption DEF Built
  <2>3. p.n = q.n
    BY <2>2, SameNumberSamePacket
  <2> QED BY <2>2, <2>3
<1> QED BY <1>1, SendInvHolds, PTL

\* A wait that ends as acknowledged ended on the acknowledgement of a packet
\* with its number; if that one is less than a turn away it is the very packet
\* waited for, so the controller has it (WAIT_ACK_LOOP, recv_ack).
THEOREM AcknowledgedIsReceived == Spec => AcksMeanReceived
<1>1. SendInv /\ [Next]_vars => [AckedMeansReceived]_vars
  <2> SUFFICES ASSUME SendInv, Next, ended'.how = "ack", ended' # ended, ackOf # None,
                      ended'.n - ackOf < SeqMod, ackOf - ended'.n < SeqMod
               PROVE  ended'.n \in received
    BY DEF AckedMeansReceived
  <2>1. /\ ~ (ControllerTakes \/ LosePacket \/ LoseAck \/ recv_ack)
        /\ \A t \in Threads :
              ~ (Call(t) \/ get_seq_num_lock(t) \/ get_seq_num_end(t) \/ TC_packet_tx(t))
    BY DEF ControllerTakes, LosePacket, LoseAck, recv_ack, Call, get_seq_num_lock,
           get_seq_num_end, TC_packet_tx
  <2>2. \A t \in Threads : ~ WaitTimesOut(t)
    <3> SUFFICES ASSUME NEW t \in Threads, WaitTimesOut(t) PROVE FALSE
      OBVIOUS
    <3>1. ended' = [how |-> "timeout", n |-> thread[t].n]
      BY DEF WaitTimesOut
    <3> QED BY <3>1
  <2>3. PICK t \in Threads : WaitSucceeds(t)
    BY <2>1, <2>2 DEF Next, Step
  <2>4. /\ thread[t] \in ThreadStates(count) /\ count \in Nat /\ thread[t].n >= 1
        /\ thread[t].SEQ = NumberOf(thread[t].n) /\ thread[t].SEQ = ack_seq
        /\ ended'.n = thread[t].n
    BY <2>3 DEF SendInv, ThreadOK, WaitSucceeds, Acknowledged
  <2>5. ackOf \in received /\ ack_seq = NumberOf(ackOf) /\ ackOf \in Nat \ {0}
    BY <2>4 DEF SendInv, None
  <2>6. thread[t].n \in Nat \ {0}
    BY <2>4 DEF ThreadStates
  <2>7. ended'.n = ackOf
    BY <2>4, <2>5, <2>6, SameNumberSamePacket
  <2> QED BY <2>5, <2>7
<1> QED BY <1>1, SendInvHolds, PTL DEF Spec, AcksMeanReceived
=============================================================================
