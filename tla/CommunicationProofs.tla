------------------------- MODULE CommunicationProofs -------------------------
(***************************************************************************)
(* Theorems about a client's outgoing packets, for any senders, any number *)
(* of packets and any size of the ring: the ring loses, repeats, reorders  *)
(* and overwrites nothing, and under the UDP handlers no packet is left in *)
(* it without its write event.  And about the connections, for any number  *)
(* of them and any width of their ids: who is found under an id, and who   *)
(* gets the answers to the device last heard.                              *)
(***************************************************************************)
EXTENDS ClientWrite, ComServer, FiniteSetTheorems, TLAPS

(* Counting round the ring.                                                 *)

\* Quotient and remainder.
LEMMA DivMod ==
    ASSUME NEW M \in Nat \ {0}, NEW x \in Nat
    PROVE  /\ x % M \in 0..(M - 1) /\ x \div M \in Int
           /\ x = M * (x \div M) + (x % M)
OBVIOUS

\* A positive multiple of M is at least M.
LEMMA PositiveMultiple ==
    ASSUME NEW M \in Nat \ {0}, NEW d \in Int, d > 0
    PROVE  M * d >= M
OBVIOUS

\* Less than two turns modulo the size.
LEMMA Wrap ==
    ASSUME NEW M \in Nat \ {0}, NEW x \in Nat, x < M + M
    PROVE  x % M = IF x < M THEN x ELSE x - M
<1> DEFINE q == x \div M
           r == x % M
<1>1. r \in 0..(M - 1) /\ q \in Int /\ x = M * q + r
  BY DivMod
<1> HIDE DEF q, r
<1>2. q >= 0
  <2>1. CASE -q > 0
    <3>1. M * (-q) >= M
      BY <2>1, <1>1, PositiveMultiple
    <3>2. M * (-q) = -(M * q)
      BY <1>1
    <3> QED BY <3>1, <3>2, <1>1
  <2> QED BY <2>1, <1>1
<1>3. q <= 1
  <2>1. CASE q - 1 > 0
    <3>1. M * (q - 1) >= M
      BY <2>1, <1>1, PositiveMultiple
    <3>2. M * (q - 1) = (M * q) - M
      BY <1>1
    <3> QED BY <3>1, <3>2, <1>1
  <2> QED BY <2>1, <1>1
<1>4. CASE q = 0
  BY <1>1, <1>4 DEF r
<1>5. CASE q = 1
  BY <1>1, <1>5 DEF r
<1> QED BY <1>1, <1>2, <1>3, <1>4, <1>5

\* The size of the ring, whatever CLIENT_RING_MAX keeps of its eight bits.
LEMMA Size == Max \in Nat /\ Max > 1
BY ClientWriteAssumption DEF Max

Places == 0..(Max - 1)

\* How many packets the ring holds, and where the i-th of them is.
Held == ((last + Max) - first) % Max
Place(i) == (first + i) % Max

\* How far it is round the ring from f to l.
LEMMA Distance ==
    ASSUME NEW f \in Places, NEW l \in Places
    PROVE  /\ ((l + Max) - f) % Max = IF f <= l THEN l - f ELSE (l - f) + Max
           /\ ((l + Max) - f) % Max \in Places
           /\ ((l + Max) - f) % Max = 0 <=> f = l
<1>1. f \in Nat /\ l \in Nat /\ f < Max /\ l < Max /\ Max \in Nat \ {0}
  BY Size DEF Places
<1> DEFINE x == (l + Max) - f
           d == x % Max
<1>2. x \in Nat /\ x < Max + Max
  BY <1>1
<1>3. x < Max <=> ~(f <= l)
  BY <1>1
<1> HIDE DEF x
<1>4. d = IF x < Max THEN x ELSE x - Max
  BY <1>1, <1>2, Wrap
<1> HIDE DEF d
<1>5. d = IF f <= l THEN l - f ELSE (l - f) + Max
  BY <1>1, <1>3, <1>4 DEF x
<1>6. d \in Places /\ (d = 0 <=> f = l)
  BY <1>1, <1>5 DEF Places
<1> QED BY <1>5, <1>6 DEF d, x

\* The place after i steps from the next one is the one after i + 1 steps.
LEMMA NextPlace ==
    ASSUME NEW f \in Places, NEW g \in Places, NEW i \in Places, i + 1 \in Places,
           g = IF f = Max - 1 THEN 0 ELSE f + 1
    PROVE  (g + i) % Max = (f + (i + 1)) % Max
<1>1. /\ f \in Nat /\ g \in Nat /\ i \in Nat /\ f < Max /\ g < Max /\ i + 1 < Max
      /\ Max \in Nat \ {0}
  BY Size DEF Places
<1> DEFINE x == g + i
           y == f + (i + 1)
<1>2. x \in Nat /\ x < Max + Max /\ y \in Nat /\ y < Max + Max
  BY <1>1
<1>3. \/ x = y
      \/ y = x + Max /\ x < Max
  BY <1>1
<1> HIDE DEF x, y
<1>4. /\ x % Max = IF x < Max THEN x ELSE x - Max
      /\ y % Max = IF y < Max THEN y ELSE y - Max
  BY <1>1, <1>2, Wrap
<1>5. x % Max = y % Max
  BY <1>1, <1>2, <1>3, <1>4
<1> QED BY <1>5 DEF x, y

\* The ring's pointers, its emptiness and its fullness, by the packets held.
LEMMA RingFacts ==
    ASSUME first \in Places, last \in Places
    PROVE  /\ Held = IF first <= last THEN last - first ELSE (last - first) + Max
           /\ Held \in Places
           /\ buff_ring_empty <=> Held = 0
           /\ buff_ring_full <=> Held = Max - 1
           /\ (first + 1) % Max = IF first = Max - 1 THEN 0 ELSE first + 1
           /\ (last + 1) % Max = IF last = Max - 1 THEN 0 ELSE last + 1
           /\ \A i \in Places : Place(i) = IF first + i < Max THEN first + i
                                           ELSE (first + i) - Max
<1>1. /\ first \in Nat /\ last \in Nat /\ first < Max /\ last < Max
      /\ Max \in Nat \ {0} /\ Max > 1
  BY Size DEF Places
<1>2. Held = IF first <= last THEN last - first ELSE (last - first) + Max
  BY Distance DEF Held
<1>3. (first + 1) % Max = IF first = Max - 1 THEN 0 ELSE first + 1
  <2> DEFINE x == first + 1
  <2>1. x \in Nat /\ x < Max + Max
    BY <1>1
  <2> HIDE DEF x
  <2>2. x % Max = IF x < Max THEN x ELSE x - Max
    BY <1>1, <2>1, Wrap
  <2> QED BY <1>1, <2>2 DEF x
<1>4. (last + 1) % Max = IF last = Max - 1 THEN 0 ELSE last + 1
  <2> DEFINE x == last + 1
  <2>1. x \in Nat /\ x < Max + Max
    BY <1>1
  <2> HIDE DEF x
  <2>2. x % Max = IF x < Max THEN x ELSE x - Max
    BY <1>1, <2>1, Wrap
  <2> QED BY <1>1, <2>2 DEF x
<1>5. ASSUME NEW i \in Places
      PROVE  Place(i) = IF first + i < Max THEN first + i ELSE (first + i) - Max
  <2> DEFINE x == first + i
  <2>1. x \in Nat /\ x < Max + Max
    BY <1>1, <1>5 DEF Places
  <2> HIDE DEF x
  <2>2. x % Max = IF x < Max THEN x ELSE x - Max
    BY <1>1, <2>1, Wrap
  <2> QED BY <2>2 DEF x, Place
<1>6. Held \in Places /\ (Held = 0 <=> first = last)
  BY Distance DEF Held
<1>7. buff_ring_full <=> Held = Max - 1
  BY <1>1, <1>2, <1>4 DEF buff_ring_full
<1> QED BY <1>2, <1>3, <1>4, <1>5, <1>6, <1>7 DEF buff_ring_empty

-----------------------------------------------------------------------------
(* The inductive invariant.                                                 *)

\* The packets of s that com_send has put into the ring.
Pushed(s) == IF sender[s] = "push" THEN made[s] - 1 ELSE made[s]

\* The packets in the order they were pushed: those handed to the socket and
\* behind them those that wait.
Total == Len(out) + Held
At(k) == IF k <= Len(out) THEN out[k] ELSE record[Place((k - Len(out)) - 1)]

Kept ==
    /\ \A k \in 1..Total : \E s \in Senders : \E j \in 1..Pushed(s) : At(k) = <<s, j>>
    /\ \A s \in Senders : \A j \in 1..Pushed(s) : \E k \in 1..Total : At(k) = <<s, j>>
    /\ \A k, m \in 1..Total : k < m /\ At(k)[1] = At(m)[1] => At(k)[2] < At(m)[2]

WriteTypes ==
    /\ handle_type \in {"TCP", "UDP"}
    /\ record \in [Places -> {NoPacket} \cup (Senders \X (1..Packets))]
    /\ first \in Places /\ last \in Places
    /\ mutex \in {"none", "loop"}
    /\ mask \in BOOLEAN /\ epoll \in BOOLEAN
    /\ sender \in [Senders -> {"idle", "push", "epoll", "mask"}]
    /\ made \in [Senders -> 0..Packets]
    /\ \A s \in Senders : sender[s] = "push" => made[s] > 0
    /\ loop \in {"poll", "write", "check", "epoll", "mask", "drop", "dropmask"}
    /\ mutex = "loop" <=> loop \in {"epoll", "mask"}
    /\ out \in Seq(Senders \X (1..Packets))

\* A packet that waits has its event registered, or the sender that will do it
\* is on its way; the UDP handler takes the event back only from an empty ring.
Registered ==
    handle_type = "UDP" =>
        /\ loop \notin {"drop", "dropmask"}
        /\ loop \in {"epoll", "mask"} => buff_ring_empty
        /\ ~ buff_ring_empty =>
              /\ epoll \/ \E s \in Senders : sender[s] = "epoll"
              /\ mask \/ \E s \in Senders : sender[s] \in {"epoll", "mask"}

WriteInv == WriteTypes /\ Kept /\ Registered

-----------------------------------------------------------------------------
(* What the two operations of the ring do to the packets in it.             *)

\* A push puts the packet behind all others and disturbs none.
LEMMA PushAppends ==
    ASSUME WriteTypes, NEW s \in Senders, buff_ring_push(s)
    PROVE  /\ Total' = Total + 1
           /\ \A k : k = Total + 1 => At(k)' = <<s, made[s]>>
           /\ \A k \in 1..Total : At(k)' = At(k)
           /\ first' \in Places /\ last' \in Places
           /\ ~ buff_ring_empty'
<1>1. /\ first \in Places /\ last \in Places /\ Len(out) \in Nat
      /\ record \in [Places -> {NoPacket} \cup (Senders \X (1..Packets))]
      /\ Places = 0..(Max - 1) /\ Max \in Nat /\ Max > 1
  BY Size DEF WriteTypes, Places
<1>2. /\ first' = first /\ out' = out /\ last' = (last + 1) % Max
      /\ record' = [record EXCEPT ![last] = <<s, made[s]>>]
      /\ ~ buff_ring_full
  BY DEF buff_ring_push
<1>3. last' = IF last = Max - 1 THEN 0 ELSE last + 1
  BY <1>1, <1>2, RingFacts
<1>4. first' \in Places /\ last' \in Places
  BY <1>1, <1>2, <1>3
<1>5. /\ Held = IF first <= last THEN last - first ELSE (last - first) + Max
      /\ Held \in Places /\ Held # Max - 1
  BY <1>1, <1>2, RingFacts
<1>6. /\ Held' = IF first' <= last' THEN last' - first' ELSE (last' - first') + Max
      /\ Held' = 0 <=> first' = last'
  BY <1>4, Distance DEF Held
<1>7. Held' = Held + 1
  BY <1>1, <1>2, <1>3, <1>5, <1>6
<1>8. Total' = Total + 1 /\ ~ buff_ring_empty'
  <2>1. Held \in Nat
    BY <1>1, <1>5
  <2>2. first' # last'
    BY <1>6, <1>7, <2>1
  <2>3. Total' = Total + 1
    BY <1>1, <1>2, <1>7, <2>1 DEF Total
  <2> QED BY <2>2, <2>3 DEF buff_ring_empty
<1>9. ASSUME NEW i \in 0..Held
      PROVE  /\ Place(i) = IF first + i < Max THEN first + i ELSE (first + i) - Max
             /\ i < Held => Place(i) # last /\ Place(i) \in Places
             /\ i = Held => Place(i) = last
  <2>1. i \in Places
    BY <1>1, <1>5, <1>9
  <2>2. Place(i) = IF first + i < Max THEN first + i ELSE (first + i) - Max
    BY <1>1, <2>1, RingFacts
  <2> QED BY <1>1, <1>5, <2>1, <2>2
<1>10. ASSUME NEW k, k = Total + 1 PROVE At(k)' = <<s, made[s]>>
  <2> DEFINE i == (k - Len(out)) - 1
  <2>1. i \in 0..Held /\ i = Held /\ ~(k <= Len(out))
    BY <1>1, <1>5, <1>10 DEF Total
  <2> HIDE DEF i
  <2>2. Place(i) = last
    BY <1>9, <2>1
  <2>3. record'[last] = <<s, made[s]>>
    BY <1>1, <1>2
  <2>4. At(k)' = record'[Place(i)]
    BY <1>2, <2>1 DEF At, i, Place
  <2> QED BY <2>2, <2>3, <2>4
<1>11. ASSUME NEW k \in 1..Total PROVE At(k)' = At(k)
  <2>1. CASE k <= Len(out)
    BY <2>1, <1>2 DEF At
  <2>2. CASE ~(k <= Len(out))
    <3> DEFINE i == (k - Len(out)) - 1
    <3>1. i \in 0..Held /\ i < Held
      BY <1>1, <1>5, <1>11, <2>2 DEF Total
    <3> HIDE DEF i
    <3>2. Place(i) # last /\ Place(i) \in Places
      BY <1>9, <3>1
    <3>3. record'[Place(i)] = record[Place(i)]
      BY <1>1, <1>2, <3>2
    <3>4. At(k) = record[Place(i)]
      BY <2>2 DEF At, i
    <3>5. At(k)' = record'[Place(i)]
      BY <1>2, <2>2 DEF At, i, Place
    <3> QED BY <3>3, <3>4, <3>5
  <2> QED BY <2>1, <2>2
<1> QED BY <1>4, <1>8, <1>10, <1>11

\* The loop takes the oldest packet and leaves the order as it is.
LEMMA PopMoves ==
    ASSUME WriteTypes, send_fn, ~ buff_ring_empty
    PROVE  /\ Total' = Total
           /\ \A k \in 1..Total : At(k)' = At(k)
           /\ first' \in Places
           /\ out' = Append(out, At(Len(out) + 1))
           /\ Len(out) + 1 \in 1..Total
<1>1. /\ first \in Places /\ last \in Places /\ Len(out) \in Nat
      /\ Places = 0..(Max - 1) /\ Max \in Nat /\ Max > 1
  BY Size DEF WriteTypes, Places
<1>2. /\ out' = Append(out, record[first]) /\ first' = (first + 1) % Max
      /\ last' = last /\ record' = record
  BY DEF send_fn
<1>3. first' = IF first = Max - 1 THEN 0 ELSE first + 1
  BY <1>1, <1>2, RingFacts
<1>4. /\ first' \in Places /\ last' \in Places
      /\ first' \in Nat /\ first' < Max /\ first \in Nat /\ first < Max
  BY <1>1, <1>2, <1>3
<1>5. /\ Held = IF first <= last THEN last - first ELSE (last - first) + Max
      /\ Held \in Places
  BY <1>1, RingFacts
<1>6. Held \in Nat /\ Held > 0 /\ Held < Max
  <2>1. Held # 0
    BY <1>1, RingFacts
  <2> QED BY <2>1, <1>1, <1>5
<1>7. Held' = IF first' <= last' THEN last' - first' ELSE (last' - first') + Max
  BY <1>4, Distance DEF Held
<1>8. Held' = Held - 1
  BY <1>1, <1>2, <1>3, <1>5, <1>6, <1>7
<1>9. Len(out') = Len(out) + 1 /\ out \in Seq(Senders \X (1..Packets))
  BY <1>2 DEF WriteTypes
<1>10. Total' = Total /\ Len(out) + 1 \in 1..Total
  <2>1. Total' = Len(out') + Held' /\ Total = Len(out) + Held
    BY DEF Total
  <2>2. Len(out') = Len(out) + 1
    BY <1>9
  <2> QED BY <1>1, <1>6, <1>8, <2>1, <2>2
<1>11. Place(0) = first
  <2>1. 0 \in Places /\ first + 0 = first /\ first < Max
    BY <1>1
  <2> QED BY <1>1, <2>1, RingFacts
<1>12. At(Len(out) + 1) = record[first]
  BY <1>1, <1>11 DEF At
<1>13. ASSUME NEW k \in 1..Total PROVE At(k)' = At(k)
  <2>1. CASE k <= Len(out)
    <3>1. out'[k] = out[k] /\ k <= Len(out')
      BY <1>1, <1>2, <1>9, <1>13, <2>1
    <3> QED BY <2>1, <3>1 DEF At
  <2>2. CASE k = Len(out) + 1
    <3>1. out'[k] = record[first] /\ k <= Len(out')
      BY <1>1, <1>2, <1>9, <2>2
    <3> QED BY <1>12, <2>2, <3>1 DEF At
  <2>3. CASE k > Len(out) + 1
    <3> DEFINE i == (k - Len(out)) - 1
               h == (k - Len(out')) - 1
               g == first'
    <3>1. /\ i \in Places /\ h \in Places /\ i = h + 1
          /\ ~(k <= Len(out)) /\ ~(k <= Len(out'))
      BY <1>1, <1>5, <1>9, <1>13, <2>3 DEF Total
    <3> HIDE DEF i, h
    <3>2. /\ first \in Places /\ g \in Places /\ h \in Places /\ h + 1 \in Places
          /\ g = IF first = Max - 1 THEN 0 ELSE first + 1
      BY <1>1, <1>3, <1>4, <3>1
    <3> HIDE DEF g
    <3>3. (g + h) % Max = (first + (h + 1)) % Max
      BY <3>2, NextPlace
    <3>4. At(k)' = record'[(g + h) % Max]
      BY <3>1 DEF At, Place, h, g
    <3>5. At(k) = record[(first + i) % Max]
      BY <3>1 DEF At, Place, i
    <3> QED BY <1>2, <3>1, <3>3, <3>4, <3>5
  <2> QED BY <1>1, <1>13, <2>1, <2>2, <2>3
<1> QED BY <1>2, <1>4, <1>10, <1>12, <1>13

-----------------------------------------------------------------------------
(* The order of the packets.                                                *)

\* It is kept by whatever pushes nothing and changes no packet.
LEMMA OrderUnchanged ==
    ASSUME Kept, Total' = Total, \A k \in 1..Total : At(k)' = At(k),
           \A s \in Senders : Pushed(s)' = Pushed(s)
    PROVE  Kept'
<1>1. \A k \in 1..Total : \E s \in Senders : \E j \in 1..Pushed(s)' : At(k)' = <<s, j>>
  BY DEF Kept
<1>2. \A s \in Senders : \A j \in 1..Pushed(s)' : \E k \in 1..Total : At(k)' = <<s, j>>
  BY DEF Kept
<1>3. \A k, m \in 1..Total : k < m /\ At(k)'[1] = At(m)'[1] => At(k)'[2] < At(m)'[2]
  BY DEF Kept
<1> QED BY <1>1, <1>2, <1>3 DEF Kept

\* It is kept by the push of a sender's next packet.
LEMMA OrderGrows ==
    ASSUME Kept, Total \in Nat, NEW p \in Senders, NEW n \in Nat,
           Pushed(p) = n, Pushed(p)' = n + 1,
           \A s \in Senders : Pushed(s) \in Nat,
           \A s \in Senders \ {p} : Pushed(s)' = Pushed(s),
           Total' = Total + 1,
           \A k : k = Total + 1 => At(k)' = <<p, n + 1>>,
           \A k \in 1..Total : At(k)' = At(k)
    PROVE  Kept'
<1> DEFINE t == Total
           f == n + 1
<1>1. /\ t \in Nat /\ f \in Nat /\ f \in 1..f /\ t + 1 \in 1..(t + 1)
      /\ 1..n \subseteq 1..f /\ 1..t \subseteq 1..(t + 1)
      /\ \A j \in 1..f : j \in 1..n \/ j = f
      /\ \A k \in 1..(t + 1) : k \in 1..t \/ k = t + 1
      /\ \A k \in 1..t : ~(t + 1 < k) /\ ~(t + 1 < t + 1)
  OBVIOUS
<1>2. /\ Pushed(p)' = f /\ Total' = t + 1
      /\ \A k : k = t + 1 => At(k)' = <<p, f>>
      /\ \A k \in 1..t : At(k)' = At(k)
  OBVIOUS
<1>3. /\ \A k \in 1..t : \E s \in Senders : \E j \in 1..Pushed(s) : At(k) = <<s, j>>
      /\ \A s \in Senders : \A j \in 1..Pushed(s) : \E k \in 1..t : At(k) = <<s, j>>
      /\ \A k, m \in 1..t : k < m /\ At(k)[1] = At(m)[1] => At(k)[2] < At(m)[2]
  BY DEF Kept
<1>4. \A s \in Senders : \A j \in 1..Pushed(s) : j \in 1..Pushed(s)' /\ ~(s = p /\ j = f)
  BY <1>1, <1>2
<1>5. ASSUME NEW k \in 1..t, At(k)[1] = p PROVE At(k)[2] < f
  <2>1. PICK s \in Senders : \E j \in 1..Pushed(s) : At(k) = <<s, j>>
    BY <1>3, <1>5
  <2>2. PICK j \in 1..Pushed(s) : At(k) = <<s, j>>
    BY <2>1
  <2>3. s = p /\ j \in 1..n
    BY <1>5, <2>2
  <2>4. j < n + 1
    BY <2>3
  <2> QED BY <2>2, <2>4
<1> HIDE DEF t, f
<1>6. ASSUME NEW k \in 1..(t + 1)
      PROVE  \E s \in Senders : \E j \in 1..Pushed(s)' : At(k)' = <<s, j>>
  <2>1. CASE k \in 1..t
    BY <1>2, <1>3, <1>4, <2>1
  <2>2. CASE k = t + 1
    BY <1>1, <1>2, <2>2
  <2> QED BY <1>1, <2>1, <2>2
<1>7. ASSUME NEW s \in Senders, NEW j \in 1..Pushed(s)'
      PROVE  \E k \in 1..(t + 1) : At(k)' = <<s, j>>
  <2>1. CASE j \in 1..Pushed(s)
    BY <1>1, <1>2, <1>3, <2>1
  <2>2. CASE s = p /\ j = f
    BY <1>1, <1>2, <2>2
  <2>3. j \in 1..Pushed(s) \/ (s = p /\ j = f)
    BY <1>1, <1>2, <1>7 DEF f
  <2> QED BY <2>1, <2>2, <2>3
<1>8. ASSUME NEW k \in 1..(t + 1), NEW m \in 1..(t + 1), k < m, At(k)'[1] = At(m)'[1]
      PROVE  At(k)'[2] < At(m)'[2]
  <2>1. k \in 1..t
    BY <1>1, <1>8
  <2>2. CASE m \in 1..t
    BY <1>2, <1>3, <1>8, <2>1, <2>2
  <2>3. CASE m = t + 1
    <3>1. At(m)' = <<p, f>> /\ At(k)' = At(k)
      BY <1>2, <2>1, <2>3
    <3>2. At(k)[1] = p
      BY <1>8, <3>1
    <3> QED BY <1>5, <2>1, <3>1, <3>2
  <2> QED BY <1>1, <2>2, <2>3
<1> QED BY <1>2, <1>6, <1>7, <1>8 DEF Kept

-----------------------------------------------------------------------------
(* Every step keeps the invariant.                                          *)

\* Nothing is in the ring at first.
LEMMA InitWriteInv == Init => WriteInv
<1> SUFFICES ASSUME Init PROVE WriteInv
  OBVIOUS
<1>1. WriteTypes
  <2>1. 0 \in Places
    BY Size DEF Places
  <2>2. 0 \in 0..Packets
    BY ClientWriteAssumption
  <2>3. record \in [Places -> {NoPacket} \cup (Senders \X (1..Packets))]
    BY DEF Init, Places
  <2>4. out \in Seq(Senders \X (1..Packets))
    BY DEF Init
  <2>5. /\ sender \in [Senders -> {"idle", "push", "epoll", "mask"}]
        /\ made \in [Senders -> 0..Packets]
        /\ \A s \in Senders : sender[s] = "push" => made[s] > 0
    BY <2>2 DEF Init
  <2> QED BY <2>1, <2>3, <2>4, <2>5 DEF Init, WriteTypes
<1>2. Total = 0 /\ \A s \in Senders : Pushed(s) = 0
  <2>1. first \in Places /\ last \in Places /\ first = last /\ Len(out) = 0
    BY <1>1 DEF Init, WriteTypes
  <2>2. Held = 0
    BY <2>1, Distance DEF Held
  <2>3. \A s \in Senders : Pushed(s) = 0
    BY DEF Init, Pushed
  <2> QED BY <2>1, <2>2, <2>3 DEF Total
<1>3. Kept
  BY <1>2 DEF Kept
<1>4. Registered
  BY DEF Init, Registered, buff_ring_empty
<1> QED BY <1>1, <1>3, <1>4 DEF WriteInv

\* com_send: the sender makes its next packet.
LEMMA MakeStep ==
    ASSUME WriteInv, NEW s \in Senders, com_send(s)
    PROVE  WriteInv'
<1> USE DEF WriteInv, com_send, ring
<1>1. WriteTypes'
  <2>1. made[s] + 1 \in 0..Packets /\ made[s] + 1 > 0
    BY ClientWriteAssumption DEF WriteTypes
  <2>2. made' \in [Senders -> 0..Packets]
    BY <2>1 DEF WriteTypes
  <2>3. sender' \in [Senders -> {"idle", "push", "epoll", "mask"}]
    BY DEF WriteTypes
  <2>4. \A t \in Senders : sender'[t] = "push" => made'[t] > 0
    BY <2>1 DEF WriteTypes
  <2> QED BY <2>2, <2>3, <2>4 DEF WriteTypes
<1>2. Kept'
  <2>1. Total' = Total /\ \A k \in 1..Total : At(k)' = At(k)
    BY DEF Total, At, Held, Place
  <2>2. \A t \in Senders : Pushed(t)' = Pushed(t)
    BY DEF Pushed, WriteTypes
  <2> QED BY <2>1, <2>2, OrderUnchanged
<1>3. Registered'
  <2>1. \A t \in Senders : sender[t] # "idle" => sender'[t] = sender[t]
    BY DEF WriteTypes
  <2>2. \A t \in Senders : /\ sender[t] = "epoll" => sender'[t] = "epoll"
                           /\ sender[t] \in {"epoll", "mask"} => sender'[t] \in {"epoll", "mask"}
    BY <2>1
  <2> QED BY <2>2 DEF Registered, buff_ring_empty
<1> QED BY <1>1, <1>2, <1>3

\* The push: the packet has a place, and its sender is on its way to register.
LEMMA PushStep ==
    ASSUME WriteInv, NEW s \in Senders, buff_ring_push(s)
    PROVE  WriteInv'
<1> USE DEF WriteInv
<1>1. /\ sender[s] = "push" /\ mutex = "none"
      /\ sender' = [sender EXCEPT ![s] = "epoll"]
      /\ record' = [record EXCEPT ![last] = <<s, made[s]>>]
      /\ UNCHANGED <<handle_type, mutex, mask, epoll, made, loop, out>>
  BY DEF buff_ring_push
<1>2. /\ Total' = Total + 1 /\ (\A k : k = Total + 1 => At(k)' = <<s, made[s]>>)
      /\ (\A k \in 1..Total : At(k)' = At(k))
      /\ first' \in Places /\ last' \in Places /\ ~ buff_ring_empty'
  BY PushAppends
<1>3. made[s] \in 1..Packets /\ made \in [Senders -> 0..Packets]
  BY <1>1, ClientWriteAssumption DEF WriteTypes
<1>4. WriteTypes'
  <2>1. record' \in [Places -> {NoPacket} \cup (Senders \X (1..Packets))]
    BY <1>1, <1>3 DEF WriteTypes
  <2>2. sender' \in [Senders -> {"idle", "push", "epoll", "mask"}]
    BY <1>1 DEF WriteTypes
  <2>3. \A t \in Senders : sender'[t] = "push" => made'[t] > 0
    BY <1>1 DEF WriteTypes
  <2> QED BY <1>1, <1>2, <2>1, <2>2, <2>3 DEF WriteTypes
<1>5. Kept'
  <2> DEFINE n == made[s] - 1
  <2>1. n \in Nat /\ made[s] = n + 1 /\ Pushed(s) = n /\ Pushed(s)' = n + 1
    BY <1>1, <1>3, ClientWriteAssumption DEF Pushed, WriteTypes
  <2>2. /\ \A t \in Senders : Pushed(t) \in Nat
        /\ \A t \in Senders \ {s} : Pushed(t)' = Pushed(t)
    BY <1>1, <1>3, ClientWriteAssumption DEF Pushed, WriteTypes
  <2>3. Total \in Nat
    BY RingFacts, Size DEF Total, WriteTypes, Places
  <2> HIDE DEF n
  <2>4. \A k : k = Total + 1 => At(k)' = <<s, n + 1>>
    BY <1>2, <2>1
  <2> QED BY <1>2, <2>1, <2>2, <2>3, <2>4, OrderGrows
<1>6. Registered'
  <2>1. sender'[s] = "epoll"
    BY <1>1 DEF WriteTypes
  <2>2. loop \notin {"epoll", "mask"}
    BY <1>1 DEF WriteTypes
  <2> QED BY <1>1, <2>1, <2>2 DEF Registered
<1> QED BY <1>4, <1>5, <1>6

\* A sender registers: in the epoll set, and then in ce->mask.
LEMMA RegisterStep ==
    ASSUME WriteInv, NEW s \in Senders, ae_epoll_add_event(s) \/ SetMask(s)
    PROVE  WriteInv'
<1> USE DEF WriteInv, ring
<1>1. /\ UNCHANGED <<handle_type, record, first, last, mutex, made, loop, out>>
      /\ \/ /\ sender[s] = "epoll" /\ epoll' = TRUE /\ mask' = mask
            /\ sender' = [sender EXCEPT ![s] = "mask"]
         \/ /\ sender[s] = "mask" /\ mask' = TRUE /\ epoll' = epoll
            /\ sender' = [sender EXCEPT ![s] = "idle"]
  BY DEF ae_epoll_add_event, SetMask
<1>2. WriteTypes'
  <2>1. sender' \in [Senders -> {"idle", "push", "epoll", "mask"}]
    BY <1>1 DEF WriteTypes
  <2>2. \A t \in Senders : sender'[t] = "push" => made'[t] > 0
    BY <1>1 DEF WriteTypes
  <2>3. mask' \in BOOLEAN /\ epoll' \in BOOLEAN
    BY <1>1 DEF WriteTypes
  <2> QED BY <1>1, <2>1, <2>2, <2>3 DEF WriteTypes
<1>3. Kept'
  <2>1. Total' = Total /\ \A k \in 1..Total : At(k)' = At(k)
    BY <1>1 DEF Total, At, Held, Place
  <2>2. \A t \in Senders : Pushed(t)' = Pushed(t)
    BY <1>1 DEF Pushed, WriteTypes
  <2> QED BY <2>1, <2>2, OrderUnchanged
<1>4. Registered'
  <2>1. \A t \in Senders \ {s} : sender'[t] = sender[t]
    BY <1>1 DEF WriteTypes
  <2>2. CASE sender[s] = "epoll" /\ epoll' = TRUE /\ mask' = mask /\ sender'[s] = "mask"
    BY <1>1, <2>1, <2>2 DEF Registered, buff_ring_empty
  <2>3. CASE sender[s] = "mask" /\ mask' = TRUE /\ epoll' = epoll
    BY <1>1, <2>1, <2>3 DEF Registered, buff_ring_empty
  <2> QED BY <1>1, <2>2, <2>3 DEF WriteTypes
<1> QED BY <1>2, <1>3, <1>4

\* The loop takes a packet out.
LEMMA PopStep ==
    ASSUME WriteInv, send_fn
    PROVE  WriteInv'
<1> USE DEF WriteInv
<1>1. /\ loop = "write" /\ loop' = "check" /\ mutex = "none"
      /\ UNCHANGED <<handle_type, record, last, mutex, mask, epoll, sender, made>>
  BY DEF send_fn
<1>2. /\ Total' = Total /\ (\A k \in 1..Total : At(k)' = At(k))
      /\ first' \in Places /\ out' \in Seq(Senders \X (1..Packets))
  <2>1. CASE buff_ring_empty
    BY <1>1, <2>1 DEF send_fn, Total, At, Held, Place, WriteTypes
  <2>2. CASE ~ buff_ring_empty
    <3>1. /\ Total' = Total /\ (\A k \in 1..Total : At(k)' = At(k))
          /\ first' \in Places /\ out' = Append(out, At(Len(out) + 1))
          /\ Len(out) + 1 \in 1..Total
      BY <2>2, PopMoves
    <3>2. PICK s \in Senders : \E j \in 1..Pushed(s) : At(Len(out) + 1) = <<s, j>>
      BY <3>1 DEF Kept
    <3>3. PICK j \in 1..Pushed(s) : At(Len(out) + 1) = <<s, j>>
      BY <3>2
    <3>4. j \in 1..Packets
      <4>1. made[s] \in 0..Packets
        BY DEF WriteTypes
      <4> QED BY <4>1, ClientWriteAssumption DEF Pushed
    <3>5. At(Len(out) + 1) \in Senders \X (1..Packets)
      BY <3>3, <3>4
    <3> DEFINE S == Senders \X (1..Packets)
    <3> HIDE DEF S
    <3>6. out \in Seq(S) /\ At(Len(out) + 1) \in S
      BY <3>5 DEF S, WriteTypes
    <3>7. out' \in Seq(S)
      BY <3>1, <3>6
    <3> QED BY <3>1, <3>7 DEF S
  <2> QED BY <2>1, <2>2
<1>3. WriteTypes'
  BY <1>1, <1>2 DEF WriteTypes
<1>4. Kept'
  <2>1. \A t \in Senders : Pushed(t)' = Pushed(t)
    BY <1>1 DEF Pushed
  <2> QED BY <1>2, <2>1, OrderUnchanged
<1>5. Registered'
  <2>1. buff_ring_empty => buff_ring_empty'
    BY <1>1 DEF send_fn, buff_ring_empty
  <2> QED BY <1>1, <2>1 DEF Registered
<1> QED BY <1>3, <1>4, <1>5

\* The loop looks for events, looks into the ring and takes the event back.
LEMMA LoopStep ==
    ASSUME WriteInv, ae_process_events \/ CheckEmpty \/ ae_epoll_del_event \/ ClearMask
    PROVE  WriteInv'
<1> USE DEF WriteInv, ring
<1>1. UNCHANGED <<handle_type, record, first, last, sender, made, out>>
  BY DEF ae_process_events, CheckEmpty, ae_epoll_del_event, ClearMask
<1>2. WriteTypes'
  <2>1. CASE ae_process_events
    BY <1>1, <2>1 DEF ae_process_events, WriteTypes
  <2>2. CASE CheckEmpty
    BY <1>1, <2>2 DEF CheckEmpty, After, WriteTypes
  <2>3. CASE ae_epoll_del_event
    BY <1>1, <2>3 DEF ae_epoll_del_event, WriteTypes
  <2>4. CASE ClearMask
    BY <1>1, <2>4 DEF ClearMask, After, WriteTypes
  <2> QED BY <2>1, <2>2, <2>3, <2>4
<1>3. Kept'
  <2>1. Total' = Total /\ \A k \in 1..Total : At(k)' = At(k)
    BY <1>1 DEF Total, At, Held, Place
  <2>2. \A t \in Senders : Pushed(t)' = Pushed(t)
    BY <1>1 DEF Pushed
  <2> QED BY <2>1, <2>2, OrderUnchanged
<1>4. Registered'
  <2>1. CASE ae_process_events
    BY <1>1, <2>1 DEF ae_process_events, Registered, buff_ring_empty
  <2>2. CASE CheckEmpty
    BY <1>1, <2>2 DEF CheckEmpty, After, Registered, buff_ring_empty
  <2>3. CASE ae_epoll_del_event
    BY <1>1, <2>3 DEF ae_epoll_del_event, Registered, buff_ring_empty
  <2>4. CASE ClearMask
    BY <1>1, <2>4 DEF ClearMask, After, Registered, buff_ring_empty
  <2> QED BY <2>1, <2>2, <2>3, <2>4
<1> QED BY <1>2, <1>3, <1>4

\* Every step keeps the invariant.
LEMMA StepWriteInv == WriteInv /\ [Next]_vars => WriteInv'
<1> SUFFICES ASSUME WriteInv, [Next]_vars PROVE WriteInv'
  OBVIOUS
<1>1. CASE \E s \in Senders : com_send(s) \/ Send(s)
  BY <1>1, MakeStep, PushStep, RegisterStep DEF Send
<1>2. CASE Loop
  BY <1>2, PopStep, LoopStep DEF Loop
<1>3. CASE UNCHANGED vars
  <2>1. WriteTypes' /\ Registered'
    BY <1>3 DEF vars, WriteInv, WriteTypes, Registered, buff_ring_empty
  <2>2. Total' = Total /\ \A k \in 1..Total : At(k)' = At(k)
    BY <1>3 DEF vars, Total, At, Held, Place
  <2>3. \A t \in Senders : Pushed(t)' = Pushed(t)
    BY <1>3 DEF vars, Pushed
  <2> QED BY <2>1, <2>2, <2>3, OrderUnchanged DEF WriteInv
<1> QED BY <1>1, <1>2, <1>3 DEF Next

\* The invariant holds throughout.
LEMMA WriteInvHolds == Spec => []WriteInv
<1> QED BY InitWriteInv, StepWriteInv, PTL DEF Spec

-----------------------------------------------------------------------------
(* What follows from the invariant.                                         *)

\* What was handed to the socket are different packets of the senders.
LEMMA OutIsBounded ==
    ASSUME WriteInv
    PROVE  Len(out) <= Packets * Cardinality(Senders)
<1> DEFINE D == 1..Len(out)
           T == Senders \X (1..Packets)
           f == [k \in D |-> out[k]]
<1>1. Len(out) \in Nat /\ out \in Seq(T) /\ D \subseteq 1..Total
  BY RingFacts, Size DEF WriteInv, WriteTypes, Total, Places
<1>2. f \in [D -> T]
  BY <1>1
<1>3. ASSUME NEW k \in D, NEW m \in D, k < m PROVE out[k] # out[m]
  <2>1. At(k) = out[k] /\ At(m) = out[m]
    BY <1>1 DEF At
  <2>2. At(k)[1] = At(m)[1] => At(k)[2] < At(m)[2]
    BY <1>1, <1>3 DEF WriteInv, Kept
  <2>3. out[k][2] \in Int
    BY <1>1
  <2> QED BY <2>1, <2>2, <2>3
<1>4. f \in Injection(D, T)
  <2>1. \A k, m \in D : f[k] = f[m] => k = m
    BY <1>1, <1>3
  <2> QED BY <1>2, <2>1 DEF Injection, IsInjective
<1>5. /\ IsFiniteSet(T) /\ Cardinality(T) = Cardinality(Senders) * Packets
      /\ Cardinality(Senders) \in Nat
  <2>1. IsFiniteSet(1..Packets) /\ Cardinality(1..Packets) = Packets
    BY FS_Interval, ClientWriteAssumption
  <2> QED BY <2>1, FS_Product, FS_CardinalityType, ClientWriteAssumption
<1>6. Cardinality(D) = Len(out)
  <2> DEFINE n == Len(out)
  <2> HIDE DEF n
  <2>1. n \in Nat
    BY <1>1 DEF n
  <2>2. Cardinality(1..n) = n
    BY <2>1, FS_Interval
  <2> QED BY <2>2 DEF n
<1> HIDE DEF D, T, f
<1>7. Cardinality(D) <= Cardinality(T)
  BY <1>4, <1>5, FS_Injection
<1> QED BY <1>1, <1>5, <1>6, <1>7, ClientWriteAssumption

\* The packets of each sender are in the ring or at the socket, and in order.
LEMMA OrderIsKept ==
    ASSUME WriteInv
    PROVE  RingKeepsPackets
<1>1. /\ Len(out) \in Nat /\ Held \in Nat /\ Held <= Max /\ Places = 0..(Max - 1) /\ Max \in Nat
      /\ Total = Len(out) + Held
  BY RingFacts, Size DEF WriteInv, WriteTypes, Total, Places
<1>0. Waiting = {record[Place(i)] : i \in 0..(Held - 1)}
  <2>1. last + (Max - first) = (last + Max) - first
    BY Size DEF WriteInv, WriteTypes, Places
  <2> QED BY <2>1 DEF Waiting, Held, Place
<1> DEFINE Socket == {out[i] : i \in 1..Len(out)}
           All == Waiting \cup Socket
<1>2. ASSUME NEW p PROVE p \in All <=> \E k \in 1..Total : p = At(k)
  <2>1. ASSUME NEW k \in 1..Total PROVE At(k) \in All
    <3>1. CASE k <= Len(out)
      BY <1>1, <2>1, <3>1 DEF At
    <3>2. CASE ~(k <= Len(out))
      <4>1. (k - Len(out)) - 1 \in 0..(Held - 1)
        BY <1>1, <2>1, <3>2
      <4> QED BY <1>0, <4>1, <3>2 DEF At
    <3> QED BY <3>1, <3>2
  <2>2. ASSUME p \in Socket PROVE \E k \in 1..Total : p = At(k)
    <3>1. PICK i \in 1..Len(out) : p = out[i]
      BY <2>2
    <3>2. i \in 1..Total /\ p = At(i)
      BY <1>1, <3>1 DEF At
    <3> QED BY <3>2
  <2>3. ASSUME p \in Waiting PROVE \E k \in 1..Total : p = At(k)
    <3>1. PICK i \in 0..(Held - 1) : p = record[Place(i)]
      BY <1>0, <2>3
    <3> DEFINE k == (Len(out) + i) + 1
    <3>2. k \in 1..Total /\ ~(k <= Len(out)) /\ (k - Len(out)) - 1 = i
      BY <1>1, <3>1
    <3> HIDE DEF k
    <3>3. At(k) = record[Place(i)]
      BY <3>2 DEF At
    <3> QED BY <3>1, <3>2, <3>3
  <2> QED BY <2>1, <2>2, <2>3
<1>3. ASSUME NEW s \in Senders
      PROVE  {p \in All : p[1] = s} = {s} \X (1..Pushed(s))
  <2>1. ASSUME NEW p \in All, p[1] = s PROVE p \in {s} \X (1..Pushed(s))
    <3>1. PICK k \in 1..Total : p = At(k)
      BY <1>2, <2>1
    <3>2. PICK t \in Senders : \E j \in 1..Pushed(t) : At(k) = <<t, j>>
      BY DEF WriteInv, Kept
    <3> QED BY <2>1, <3>1, <3>2
  <2>2. ASSUME NEW p \in {s} \X (1..Pushed(s)) PROVE p \in All /\ p[1] = s
    <3>1. PICK j \in 1..Pushed(s) : p = <<s, j>>
      BY <2>2
    <3>2. \E k \in 1..Total : At(k) = <<s, j>>
      BY <3>1 DEF WriteInv, Kept
    <3> QED BY <1>2, <3>1, <3>2
  <2> HIDE DEF All
  <2> QED BY <2>1, <2>2
<1>4. ASSUME NEW k \in 1..Len(out), NEW m \in 1..Len(out), k < m, out[k][1] = out[m][1]
      PROVE  out[k][2] < out[m][2]
  <2>1. k \in 1..Total /\ m \in 1..Total /\ At(k) = out[k] /\ At(m) = out[m]
    BY <1>1, <1>4 DEF At
  <2> QED BY <1>4, <2>1 DEF WriteInv, Kept
<1> QED BY <1>3, <1>4 DEF RingKeepsPackets, Pushed

\* For any senders, any packets and any ring: what is handed to the socket and
\* what waits in the ring (src/src/buffer.c) is what com_send pushed, each
\* packet once and each sender's in order, and the UDP write handler leaves no
\* packet in the ring without its write event.
THEOREM PacketsAreKept == Spec => []PacketsKept
<1>1. ASSUME WriteInv PROVE PacketsKept
  <2>1. TypeOK
    BY <1>1, OutIsBounded DEF WriteInv, WriteTypes, TypeOK, Places
  <2>2. RingKeepsPackets
    BY <1>1, OrderIsKept
  <2>3. handle_type = "UDP" => NothingForgotten
    BY <1>1 DEF WriteInv, Registered, NothingForgotten
  <2> QED BY <2>1, <2>2, <2>3 DEF PacketsKept
<1> QED BY <1>1, WriteInvHolds, PTL

-----------------------------------------------------------------------------
(* The connections (server.c, dispatcher.c).                               *)

(* What waits for the dispatcher has the number of the client it is from,  *)
(* modulo the width of handle_id.                                          *)
Handles == 0..(HandleIds - 1)
Waits == {m \in [device : {"cloud", "dsrc", "avi", "ped", "lost"}, handle : Handles,
                 heartbeat : BOOLEAN, from : Nat] : m.handle = m.from % HandleIds}

ClientRecord == [id : 1..(FirstId + MaxConnections), kind : Kinds]

(* The open clients have ids given so far, each its own.                   *)
ClientsRight(open, given) ==
    /\ IsFiniteSet(open) /\ open \subseteq ClientRecord
    /\ \A c \in open : c.id > FirstId /\ c.id <= given
    /\ \A c, d \in open : c.id = d.id => c = d

(* Free(open, given, id): Unrivalled, of these clients and ids.            *)
Free(open, given, id) ==
    \A other \in (FirstId + 1)..given :
        Key(other) = Key(id) => other = id \/ (other > id /\ \E c \in open : c.id = other)

(* The entries are of open clients, one for a key, and those whose key is  *)
(* free have theirs.                                                       *)
DictRight(entries, open, given) ==
    /\ \A e \in entries : \E c \in open : e = <<Key(c.id), c.id>>
    /\ \A e, f \in entries : e[1] = f[1] => e = f
    /\ \A c \in open : Free(open, given, c.id) => <<Key(c.id), c.id>> \in entries

(* The message queue and what the dispatcher keeps of it.                  *)
MessagesRight ==
    /\ queue \in Seq(Waits) /\ Len(queue) <= Capacity
    /\ hand \in Waits \cup {NoMsg}
    /\ com_id \in [IdNames -> Handles] /\ heard \in [IdNames -> Nat]
    /\ \A n \in IdNames : com_id[n] = heard[n] % HandleIds
    /\ noticed \in BOOLEAN

(* The numbers of the time events.                                         *)
TimersRight ==
    /\ next_time_id \in Nat
    /\ timers \subseteq 0..(next_time_id - 1)
    /\ cloud_expired_id \in 0..(next_time_id - 1)

(* The inductive invariant.                                                *)
ServerInv ==
    /\ dispatch_com_id \in FirstId..(FirstId + MaxConnections)
    /\ ClientsRight(clients, dispatch_com_id)
    /\ DictRight(dict, clients, dispatch_com_id)
    /\ serving \in {"poll", "oslink"}
    /\ MessagesRight /\ TimersRight

(* What the proofs use of the constants.                                   *)
LEMMA ServerConstants ==
    /\ Capacity \in Nat \ {0} /\ FirstId \in Nat /\ MaxConnections \in Nat
    /\ HandleIds \in Nat \ {0}
  BY ComServerAssumption

(* What is found for an id is the second half of the entry with its key.   *)
LEMMA FindRight ==
    ASSUME DictRight(dict, clients, dispatch_com_id), NEW id
    PROVE  /\ comm_dict_find(id) # 0 =>
                \E c \in clients : c.id = comm_dict_find(id) /\ Key(c.id) = Key(id)
           /\ \A e \in dict : e[1] = Key(id) => comm_dict_find(id) = e[2]
  <1>1. CASE \E e \in dict : e[1] = Key(id)
    <2> DEFINE e == CHOOSE e \in dict : e[1] = Key(id)
    <2>1. e \in dict /\ e[1] = Key(id) /\ comm_dict_find(id) = e[2]
      BY <1>1 DEF comm_dict_find
    <2> HIDE DEF e
    <2>2. PICK c \in clients : e = <<Key(c.id), c.id>>
      BY <2>1 DEF DictRight
    <2>3. e[1] = Key(c.id) /\ e[2] = c.id
      BY <2>2
    <2>4. \A f \in dict : f[1] = Key(id) => f = e
      BY <2>1 DEF DictRight
    <2> QED BY <2>1, <2>3, <2>4
  <1>2. CASE ~ \E e \in dict : e[1] = Key(id)
    BY <1>2 DEF comm_dict_find
  <1> QED BY <1>1, <1>2

(* A new client's entry is added if its key is not there.                  *)
LEMMA AddRight ==
    ASSUME NEW given \in Nat, ClientsRight(clients, given), DictRight(dict, clients, given),
           FirstId <= given, given + 1 <= FirstId + MaxConnections, NEW kind \in Kinds
    PROVE  LET c == [id |-> given + 1, kind |-> kind]
           IN  /\ ClientsRight(clients \cup {c}, given + 1)
               /\ DictRight(comm_dict_add(c), clients \cup {c}, given + 1)
  <1> DEFINE c == [id |-> given + 1, kind |-> kind]
             open == clients \cup {c}
             added == comm_dict_add(c)
  <1>1. c \in ClientRecord /\ c.id = given + 1
    BY ServerConstants DEF ClientRecord
  <1>2. /\ IsFiniteSet(clients) /\ clients \subseteq ClientRecord
        /\ \A d \in clients : d.id > FirstId /\ d.id <= given
        /\ \A d, f \in clients : d.id = f.id => d = f
    BY DEF ClientsRight
  <1>3. \A d \in clients : d.id \in Nat
    BY <1>2, ServerConstants DEF ClientRecord
  <1>4. added = dict \/ (added = dict \cup {<<Key(c.id), c.id>>}
                         /\ ~ \E e \in dict : e[1] = Key(c.id))
    BY DEF comm_dict_add
  <1>5. (~ \E e \in dict : e[1] = Key(c.id)) => <<Key(c.id), c.id>> \in added
    BY DEF comm_dict_add
  <1> HIDE DEF c, added
  <1>6. IsFiniteSet(open)
    BY <1>2, FS_AddElement
  <1>7. \A d \in clients : d.id # c.id
    BY <1>1, <1>2, <1>3
  <1>8. ClientsRight(open, given + 1)
    <2>1. \A d \in open : d.id > FirstId /\ d.id <= given + 1
      BY <1>1, <1>2, <1>3, ServerConstants
    <2>2. \A d, f \in open : d.id = f.id => d = f
      BY <1>2, <1>7
    <2> QED BY <1>1, <1>2, <1>6, <2>1, <2>2 DEF ClientsRight
  <1>9. \A e \in added : \E d \in open : e = <<Key(d.id), d.id>>
    BY <1>4 DEF DictRight
  <1>10. \A e, f \in added : e[1] = f[1] => e = f
    <2>1. <<Key(c.id), c.id>>[1] = Key(c.id)
      OBVIOUS
    <2> QED BY <2>1, <1>4 DEF DictRight
  <1>11. ASSUME NEW d \in clients, Free(open, given + 1, d.id)
         PROVE  <<Key(d.id), d.id>> \in added
    <2>1. ASSUME NEW other \in (FirstId + 1)..given, Key(other) = Key(d.id), other # d.id
          PROVE  other > d.id /\ \E f \in clients : f.id = other
      <3>1. other \in (FirstId + 1)..(given + 1) /\ other # given + 1
        BY ServerConstants
      <3>2. other > d.id /\ \E f \in open : f.id = other
        BY <1>11, <2>1, <3>1 DEF Free
      <3> QED BY <3>1, <3>2, <1>1
    <2>2. Free(clients, given, d.id)
      BY <2>1 DEF Free
    <2>3. <<Key(d.id), d.id>> \in dict
      BY <2>2 DEF DictRight
    <2> QED BY <2>3, <1>4
  <1>12. ASSUME Free(open, given + 1, c.id) PROVE <<Key(c.id), c.id>> \in added
    <2>1. ASSUME NEW e \in dict, e[1] = Key(c.id) PROVE FALSE
      <3>1. PICK d \in clients : e = <<Key(d.id), d.id>>
        BY DEF DictRight
      <3>2. Key(d.id) = Key(c.id) /\ d.id # c.id /\ d.id \in (FirstId + 1)..(given + 1)
        <4>1. e[1] = Key(d.id)
          BY <3>1
        <4>2. d.id \in (FirstId + 1)..(given + 1)
          BY <1>2, <1>3, ServerConstants
        <4> QED BY <4>1, <4>2, <2>1, <1>7
      <3>3. d.id > c.id
        BY <1>12, <3>2 DEF Free
      <3> QED BY <3>3, <1>1, <1>2, <1>3
    <2> QED BY <2>1, <1>5
  <1>13. DictRight(added, open, given + 1)
    BY <1>9, <1>10, <1>11, <1>12 DEF DictRight
  <1> QED BY <1>8, <1>13 DEF c, added

(* Closing takes out the entry with the client's key, whoever's it is.     *)
LEMMA DeleteRight ==
    ASSUME NEW given, ClientsRight(clients, given), DictRight(dict, clients, given),
           NEW c \in clients, given \in Nat
    PROVE  /\ ClientsRight(clients \ {c}, given)
           /\ DictRight(comm_dict_delete(c.id), clients \ {c}, given)
  <1> DEFINE open == clients \ {c}
             kept == comm_dict_delete(c.id)
  <1>1. /\ IsFiniteSet(clients) /\ clients \subseteq ClientRecord
        /\ \A d \in clients : d.id > FirstId /\ d.id <= given
        /\ \A d, f \in clients : d.id = f.id => d = f
    BY DEF ClientsRight
  <1>2. IsFiniteSet(open)
    BY <1>1, FS_RemoveElement
  <1>3. ClientsRight(open, given)
    BY <1>1, <1>2 DEF ClientsRight
  <1>4. \A e : e \in kept <=> e \in dict /\ e[1] # Key(c.id)
    BY DEF comm_dict_delete
  <1> HIDE DEF kept
  <1>5. ASSUME NEW e \in kept PROVE \E d \in open : e = <<Key(d.id), d.id>>
    <2>1. PICK d \in clients : e = <<Key(d.id), d.id>>
      BY <1>4 DEF DictRight
    <2>2. e[1] = Key(d.id)
      BY <2>1
    <2> QED BY <2>1, <2>2, <1>4
  <1>6. \A e, f \in kept : e[1] = f[1] => e = f
    BY <1>4 DEF DictRight
  <1>7. ASSUME NEW d \in open, Free(open, given, d.id) PROVE <<Key(d.id), d.id>> \in kept
    <2>1. Free(clients, given, d.id)
      BY <1>7 DEF Free
    <2>2. <<Key(d.id), d.id>> \in dict /\ <<Key(d.id), d.id>>[1] = Key(d.id)
      BY <2>1 DEF DictRight
    <2>3. ASSUME Key(d.id) = Key(c.id) PROVE FALSE
      <3>1. c.id \in (FirstId + 1)..given /\ c.id # d.id
        BY <1>1, ServerConstants DEF ClientRecord
      <3>2. \E f \in open : f.id = c.id
        BY <1>7, <2>3, <3>1 DEF Free
      <3> QED BY <3>2, <1>1
    <2> QED BY <2>2, <2>3, <1>4
  <1>8. DictRight(kept, open, given)
    BY <1>5, <1>6, <1>7 DEF DictRight
  <1> QED BY <1>3, <1>8 DEF kept

-----------------------------------------------------------------------------
(* The queue: what is put in is of the right kind, what is taken out too.  *)
LEMMA MessageFits ==
    ASSUME NEW id \in Nat, NEW heartbeat \in BOOLEAN,
           NEW device \in {"cloud", "dsrc", "avi", "ped", "lost"}
    PROVE  Message(device, id, heartbeat) \in Waits
  <1>1. id % HandleIds \in Handles
    BY ServerConstants DEF Handles
  <1> QED BY <1>1 DEF Message, Waits

(* Sending adds a message behind the others.                               *)
LEMMA SendKeeps ==
    ASSUME MessagesRight, NEW m \in Waits, MQ!Send(m), UNCHANGED <<com_id, heard>>,
           noticed' \in BOOLEAN
    PROVE  MessagesRight'
  <1>1. /\ queue \in Seq(Waits) /\ Len(queue) < Capacity
        /\ queue' = Append(queue, m) /\ hand' = hand
        /\ hand \in Waits \cup {NoMsg}
    BY DEF MessagesRight, MQ!Send
  <1>2. queue' \in Seq(Waits) /\ Len(queue') = Len(queue) + 1 /\ Len(queue) \in Nat
    BY <1>1
  <1>3. Len(queue') <= Capacity
    BY <1>1, <1>2, ServerConstants
  <1> QED BY <1>1, <1>2, <1>3 DEF MessagesRight

(* What a new client changes, with or without a message about it.          *)
LEMMA OpenKeeps ==
    ASSUME ServerInv, NEW kind \in Kinds, Open(kind)
    PROVE  /\ dispatch_com_id' \in FirstId..(FirstId + MaxConnections)
           /\ dispatch_com_id' \in Nat
           /\ ClientsRight(clients', dispatch_com_id')
           /\ DictRight(dict', clients', dispatch_com_id')
  <1> DEFINE c == [id |-> dispatch_com_id + 1, kind |-> kind]
  <1>1. /\ dispatch_com_id < FirstId + MaxConnections
        /\ dispatch_com_id' = dispatch_com_id + 1
        /\ clients' = clients \cup {c} /\ dict' = comm_dict_add(c)
    BY DEF Open
  <1>2. /\ dispatch_com_id \in FirstId..(FirstId + MaxConnections)
        /\ ClientsRight(clients, dispatch_com_id)
        /\ DictRight(dict, clients, dispatch_com_id)
    BY DEF ServerInv
  <1>3. /\ dispatch_com_id \in Nat /\ FirstId <= dispatch_com_id
        /\ dispatch_com_id + 1 <= FirstId + MaxConnections
    BY <1>1, <1>2, ServerConstants
  <1>4. /\ ClientsRight(clients \cup {c}, dispatch_com_id + 1)
        /\ DictRight(comm_dict_add(c), clients \cup {c}, dispatch_com_id + 1)
    BY <1>2, <1>3, AddRight
  <1> HIDE DEF c
  <1>5. /\ dispatch_com_id' \in FirstId..(FirstId + MaxConnections)
        /\ dispatch_com_id' \in Nat
    BY <1>1, <1>2, <1>3, ServerConstants
  <1> QED BY <1>1, <1>4, <1>5

(* The event loop accepts the cloud ...                                    *)
LEMMA AcceptTCPKeeps ==
    ASSUME ServerInv, conn_accept_TCP_handler PROVE ServerInv'
  <1>1. /\ Open("cloud") /\ timers' = timers \ {cloud_expired_id}
        /\ UNCHANGED <<serving, queue, hand, com_id, heard, next_time_id,
                       cloud_expired_id, noticed>>
    BY DEF conn_accept_TCP_handler
  <1>2. "cloud" \in Kinds
    BY DEF Kinds
  <1>3. TimersRight' /\ MessagesRight'
    BY <1>1 DEF ServerInv, TimersRight, MessagesRight
  <1> QED BY <1>1, <1>2, <1>3, OpenKeeps DEF ServerInv

(* ... a new address ...                                                   *)
LEMMA AcceptUDPKeeps ==
    ASSUME ServerInv, NEW kind, conn_accept_UDP_handler(kind) PROVE ServerInv'
  <1>1. /\ kind \in {"heartbeat", "obu"} /\ Open(kind)
        /\ \E b \in BOOLEAN : MQ!Send(Message("dsrc", dispatch_com_id', b))
        /\ serving' \in {"poll", "oslink"}
        /\ UNCHANGED <<com_id, heard, timing, noticed>>
    BY DEF conn_accept_UDP_handler, comm_packet_enqueue
  <1>2. kind \in Kinds
    BY <1>1 DEF Kinds
  <1>3. dispatch_com_id' \in Nat
    BY <1>1, <1>2, OpenKeeps
  <1>4. PICK b \in BOOLEAN : MQ!Send(Message("dsrc", dispatch_com_id', b))
    BY <1>1
  <1>5. Message("dsrc", dispatch_com_id', b) \in Waits
    BY <1>3, MessageFits
  <1>6. MessagesRight /\ noticed' \in BOOLEAN
    BY <1>1 DEF ServerInv, MessagesRight
  <1>7. MessagesRight'
    BY <1>1, <1>4, <1>5, <1>6, SendKeeps
  <1>8. TimersRight'
    BY <1>1 DEF ServerInv, TimersRight, timing
  <1> QED BY <1>1, <1>2, <1>7, <1>8, OpenKeeps DEF ServerInv

(* ... the link that a new heartbeat brings ...                            *)
LEMMA OslinkKeeps ==
    ASSUME ServerInv, comm_create_OBU_client PROVE ServerInv'
  <1>1. /\ Open("oslink") /\ serving' = "poll"
        /\ \E b \in BOOLEAN : MQ!Send(Message("dsrc", dispatch_com_id', b))
        /\ UNCHANGED <<com_id, heard, timing, noticed>>
    BY DEF comm_create_OBU_client, comm_packet_enqueue
  <1>2. "oslink" \in Kinds
    BY DEF Kinds
  <1>3. dispatch_com_id' \in Nat
    BY <1>1, <1>2, OpenKeeps
  <1>4. PICK b \in BOOLEAN : MQ!Send(Message("dsrc", dispatch_com_id', b))
    BY <1>1
  <1>5. Message("dsrc", dispatch_com_id', b) \in Waits
    BY <1>3, MessageFits
  <1>6. MessagesRight /\ noticed' \in BOOLEAN
    BY <1>1 DEF ServerInv, MessagesRight
  <1>7. MessagesRight'
    BY <1>1, <1>4, <1>5, <1>6, SendKeeps
  <1>8. TimersRight'
    BY <1>1 DEF ServerInv, TimersRight, timing
  <1> QED BY <1>1, <1>2, <1>7, <1>8, OpenKeeps DEF ServerInv

(* ... a camera or detector ...                                            *)
LEMMA AcceptDeviceKeeps ==
    ASSUME ServerInv, NEW kind, conn_accept_device_handler(kind) PROVE ServerInv'
  <1>1. /\ kind \in {"avi", "ped"} /\ Open(kind)
        /\ UNCHANGED <<serving, queue, hand, com_id, heard, timing, noticed>>
    BY DEF conn_accept_device_handler
  <1>2. kind \in Kinds
    BY <1>1 DEF Kinds
  <1>3. TimersRight' /\ MessagesRight'
    BY <1>1 DEF ServerInv, TimersRight, MessagesRight, timing
  <1> QED BY <1>1, <1>2, <1>3, OpenKeeps DEF ServerInv

(* ... and reading.                                                        *)
LEMMA ReadKeeps ==
    ASSUME ServerInv, NEW c \in clients, conn_read(c) PROVE ServerInv'
  <1>1. /\ MQ!Send(Message(Device(c), c.id, c.kind = "heartbeat"))
        /\ UNCHANGED <<server, serving, com_id, heard, timing, noticed>>
    BY DEF conn_read, comm_packet_enqueue
  <1>2. c \in ClientRecord
    BY DEF ServerInv, ClientsRight
  <1>3. Device(c) \in {"cloud", "dsrc", "avi", "ped", "lost"}
    BY <1>2 DEF ClientRecord, Kinds, Device
  <1>4. c.id \in Nat
    BY <1>2, ServerConstants DEF ClientRecord
  <1>5. (c.kind = "heartbeat") \in BOOLEAN
    OBVIOUS
  <1>6. Message(Device(c), c.id, c.kind = "heartbeat") \in Waits
    BY <1>3, <1>4, <1>5, MessageFits
  <1>7. MessagesRight /\ noticed' \in BOOLEAN
    BY <1>1 DEF ServerInv, MessagesRight
  <1>8. MessagesRight'
    BY <1>1, <1>6, <1>7, SendKeeps
  <1> QED BY <1>1, <1>8 DEF ServerInv, TimersRight, timing, server

(* Closing takes the client and its entry.                                 *)
LEMMA CloseKeeps ==
    ASSUME ServerInv, NEW c \in clients, conn_close(c) PROVE ServerInv'
  <1>1. /\ clients' = clients \ {c} /\ dict' = comm_dict_delete(c.id)
        /\ timers' = timers \cup {next_time_id} /\ next_time_id' = next_time_id + 1
        /\ noticed' = FALSE
        /\ UNCHANGED <<dispatch_com_id, serving, queue, hand, com_id, heard,
                       cloud_expired_id>>
    BY DEF conn_close
  <1>2. dispatch_com_id \in Nat
    BY ServerConstants DEF ServerInv
  <1>5. /\ ClientsRight(clients', dispatch_com_id')
        /\ DictRight(dict', clients', dispatch_com_id')
    BY <1>1, <1>2, DeleteRight DEF ServerInv
  <1>3. MessagesRight'
    BY <1>1 DEF ServerInv, MessagesRight
  <1>4. TimersRight'
    BY <1>1 DEF ServerInv, TimersRight
  <1> QED BY <1>1, <1>3, <1>4, <1>5 DEF ServerInv

(* The timer of the cloud's loss.                                          *)
LEMMA ReportKeeps ==
    ASSUME ServerInv, NEW t \in timers, on_cloud_disconnected(t) PROVE ServerInv'
  <1> DEFINE m == [device |-> "lost", handle |-> 0, heartbeat |-> FALSE, from |-> 0]
  <1>1. /\ cloud_expired_id' = t /\ timers' = timers \ {t} /\ MQ!Send(m)
        /\ UNCHANGED <<server, serving, com_id, heard, next_time_id, noticed>>
    BY DEF on_cloud_disconnected
  <1>2. m \in Waits
    <2>1. 0 % HandleIds = 0 /\ 0 \in Handles
      BY ServerConstants DEF Handles
    <2> QED BY <2>1 DEF Waits
  <1> HIDE DEF m
  <1>3. MessagesRight /\ noticed' \in BOOLEAN
    BY <1>1 DEF ServerInv, MessagesRight
  <1>4. MessagesRight'
    BY <1>1, <1>2, <1>3, SendKeeps
  <1>5. TimersRight'
    BY <1>1 DEF ServerInv, TimersRight
  <1> QED BY <1>1, <1>4, <1>5 DEF ServerInv, server

(* The dispatcher.                                                         *)
LEMMA DequeueKeeps ==
    ASSUME ServerInv, msg_queue_dequeue PROVE ServerInv'
  <1>1. /\ queue # << >> /\ hand' = Head(queue) /\ queue' = Tail(queue)
        /\ UNCHANGED <<server, serving, com_id, heard, timing, noticed>>
    BY DEF msg_queue_dequeue, MQ!Receive
  <1>2. queue \in Seq(Waits) /\ Len(queue) <= Capacity
    BY DEF ServerInv, MessagesRight
  <1>3. /\ Head(queue) \in Waits /\ Tail(queue) \in Seq(Waits)
        /\ Len(Tail(queue)) = Len(queue) - 1 /\ Len(queue) \in Nat
    BY <1>1, <1>2
  <1>4. MessagesRight'
    BY <1>1, <1>2, <1>3, ServerConstants DEF ServerInv, MessagesRight
  <1> QED BY <1>1, <1>4 DEF ServerInv, TimersRight, server, timing

(* It keeps the id of the message it handles.                              *)
LEMMA HandlerKeeps ==
    ASSUME ServerInv, dispatcher_handler PROVE ServerInv'
  <1> DEFINE n == IdOf(hand)
  <1>1. /\ hand # NoMsg /\ hand' = NoMsg
        /\ UNCHANGED <<queue, server, serving, timing>>
        /\ IF n = "none"
           THEN noticed' = TRUE /\ UNCHANGED <<com_id, heard>>
           ELSE /\ com_id' = [com_id EXCEPT ![n] = hand.handle]
                /\ heard' = [heard EXCEPT ![n] = hand.from]
                /\ UNCHANGED noticed
    BY DEF dispatcher_handler, MQ!Finish
  <1>2. hand \in Waits
    BY <1>1 DEF ServerInv, MessagesRight
  <1>3. /\ hand.handle = hand.from % HandleIds
        /\ hand.handle \in Handles /\ hand.from \in Nat
    BY <1>2 DEF Waits
  <1> HIDE DEF n
  <1>4. MessagesRight'
    BY <1>1, <1>3 DEF ServerInv, MessagesRight
  <1> QED BY <1>1, <1>4 DEF ServerInv, TimersRight, server, timing

-----------------------------------------------------------------------------
(* At the start there is nobody.                                           *)
LEMMA ServerStarts == ServerInit => ServerInv
  <1> SUFFICES ASSUME ServerInit PROVE ServerInv
    OBVIOUS
  <1>1. FirstId \in Nat /\ MaxConnections \in Nat /\ Capacity \in Nat
    BY ServerConstants
  <1>2. ClientsRight(clients, dispatch_com_id) /\ DictRight(dict, clients, dispatch_com_id)
    BY FS_EmptySet DEF ServerInit, ClientsRight, DictRight
  <1>3. MessagesRight
    <2>1. 0 % HandleIds = 0 /\ 0 \in Handles
      BY ServerConstants DEF Handles
    <2> QED BY <1>1, <2>1 DEF ServerInit, MessagesRight
  <1>4. TimersRight
    BY <1>1 DEF ServerInit, TimersRight
  <1>5. dispatch_com_id \in FirstId..(FirstId + MaxConnections) /\ serving = "poll"
    BY <1>1 DEF ServerInit
  <1> QED BY <1>2, <1>3, <1>4, <1>5 DEF ServerInv

(* Every step keeps the invariant ...                                      *)
LEMMA ServerStep == ServerInv /\ [ServerNext]_serverVars => ServerInv'
  <1> SUFFICES ASSUME ServerInv, [ServerNext]_serverVars PROVE ServerInv'
    OBVIOUS
  <1>1. CASE EventLoop
    BY <1>1, AcceptTCPKeeps, AcceptUDPKeeps, AcceptDeviceKeeps, OslinkKeeps, ReadKeeps,
       CloseKeeps DEF EventLoop
  <1>2. CASE TimeEvents
    BY <1>2, ReportKeeps DEF TimeEvents
  <1>3. CASE Dispatcher
    BY <1>3, DequeueKeeps, HandlerKeeps DEF Dispatcher
  <1>4. CASE UNCHANGED serverVars
    BY <1>4 DEF serverVars, server, timing, ServerInv, MessagesRight, TimersRight
  <1> QED BY <1>1, <1>2, <1>3, <1>4 DEF ServerNext

(* As many clients as ids: no two share one.                               *)
LEMMA IdsCounted ==
    ASSUME NEW given, ClientsRight(clients, given)
    PROVE  Cardinality(clients) = Cardinality({c.id : c \in clients})
  <1> DEFINE ids == {c.id : c \in clients}
             f == [c \in clients |-> c.id]
  <1>1. IsFiniteSet(clients) /\ \A c, d \in clients : c.id = d.id => c = d
    BY DEF ClientsRight
  <1>2. f \in Bijection(clients, ids)
    BY <1>1 DEF Bijection, Injection, Surjection, IsInjective
  <1> QED BY <1>1, <1>2, FS_Bijection DEF ExistsBijection

(* ... which gives what the run checks.                                    *)
LEMMA ServerInvImplies == ServerInv => ClientsFound
  <1> SUFFICES ASSUME ServerInv PROVE ClientsFound
    OBVIOUS
  <1>1. /\ ClientsRight(clients, dispatch_com_id)
        /\ DictRight(dict, clients, dispatch_com_id) /\ MessagesRight /\ TimersRight
    BY DEF ServerInv
  <1>2. ServerTyped
    BY <1>1 DEF ServerInv, ServerTyped, ClientsRight, ClientRecord, MessagesRight,
                TimersRight, Handles
  <1>3. ASSUME NEW id \in OpenIds, Unrivalled(id) PROVE comm_dict_find(id) = id
    <2>1. PICK c \in clients : c.id = id
      BY DEF OpenIds
    <2>2. Free(clients, dispatch_com_id, c.id)
      BY <1>3, <2>1 DEF Free, Unrivalled, OpenIds
    <2>3. <<Key(id), id>> \in dict
      BY <1>1, <2>1, <2>2 DEF DictRight
    <2>4. <<Key(id), id>>[1] = Key(id) /\ <<Key(id), id>>[2] = id
      OBVIOUS
    <2> QED BY <1>1, <2>3, <2>4, FindRight
  <1>4. DictMatchesClients
    BY <1>1, <1>3, IdsCounted DEF DictMatchesClients, DictRight, OpenIds
  <1>5. RepliesReachSender
    <2> SUFFICES ASSUME NEW n \in {"cloud", "OBU"}
                 PROVE  LET number == heard[n] % HandleIds
                            to == comm_dict_find(com_id[n])
                        IN  /\ number \in OpenIds /\ Unrivalled(number) => to = number
                            /\ to # 0 => to \in OpenIds /\ Key(to) = Key(number)
      BY DEF RepliesReachSender
    <2>1. com_id[n] = heard[n] % HandleIds
      BY <1>1 DEF MessagesRight, IdNames
    <2>2. comm_dict_find(com_id[n]) # 0 =>
              \E c \in clients : c.id = comm_dict_find(com_id[n]) /\ Key(c.id) = Key(com_id[n])
      BY <1>1, FindRight
    <2> QED BY <1>3, <2>1, <2>2 DEF OpenIds
  <1> QED BY <1>2, <1>4, <1>5 DEF ClientsFound

(* ClientsFound, for any number of connections and any width of handle_id: *)
(* an open client is found under its id unless another came with its key,  *)
(* no entry is left of a closed one; an answer goes to the open client of  *)
(* the number of the one last heard of that device, modulo the width, and  *)
(* to no one whose key is not that number's (server.c, dispatcher.c,       *)
(* com_io.c).                                                              *)
THEOREM ClientsAreFound == ServerSpec => []ClientsFound
  <1>1. ServerInv /\ [ServerNext]_serverVars => ServerInv'
    BY ServerStep
  <1>2. ServerInv => ClientsFound
    BY ServerInvImplies
  <1> QED BY <1>1, <1>2, ServerStarts, PTL DEF ServerSpec
=============================================================================
