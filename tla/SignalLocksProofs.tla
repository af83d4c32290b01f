------------------------- MODULE SignalLocksProofs -------------------------
(***************************************************************************)
(* The mutexes of the signal control path exclude, for any number of       *)
(* polling threads and applications and whatever they run when.  What the  *)
(* operations have in common is proved of their lock steps first: each is  *)
(* built of critical sections, with one unlock of the command buffer more. *)
(***************************************************************************)
EXTENDS SignalLocks, SequenceTheorems, FiniteSetTheorems, TLAPS

LockSteps ==
    [op : {"lock", "unlock"}, on : Locks] \cup [op : {"wait", "post"}, on : {"sem"}]

LocksAt(s, i, m) == s[i].op = "lock" /\ s[i].on = m
UnlocksAt(s, i, m) == s[i].op = "unlock" /\ s[i].on = m

\* Every lock of m is followed by an unlock of m, with no other lock between.
Ends(s, m) ==
    \A i \in 1..Len(s) : LocksAt(s, i, m) =>
        \E j \in (i + 1)..Len(s) :
            UnlocksAt(s, j, m) /\ \A k \in (i + 1)..(j - 1) : ~LocksAt(s, k, m)

\* Every unlock of m is preceded by its lock, with no other unlock between.
Begins(s, m) ==
    \A j \in 1..Len(s) : UnlocksAt(s, j, m) =>
        \E i \in 1..(j - 1) :
            LocksAt(s, i, m) /\ \A k \in (i + 1)..(j - 1) : ~UnlocksAt(s, k, m)

\* The mutexes that each unlock has a lock of its own for.
Exclusive == Locks \ {"buffer"}

\* Lock steps that touch only the mutexes M and leave none of them locked.
Whole(s, M) ==
    /\ s \in Seq(LockSteps)
    /\ \A i \in 1..Len(s) : s[i].on \in M \cup {"sem"}
    /\ \A m \in Locks : Ends(s, m)
    /\ \A m \in Exclusive : Begins(s, m)

-----------------------------------------------------------------------------
LEMMA WholeEmpty == ASSUME NEW M PROVE Whole(<<>>, M)
BY DEF Whole, Ends, Begins

\* One step that locks nothing and unlocks at most the buffer.
LEMMA WholeOne ==
    ASSUME NEW M, NEW x \in LockSteps, x.on \in M \cup {"sem"},
           x.op \in {"wait", "post"} \/ (x.op = "unlock" /\ x.on = "buffer")
    PROVE  Whole(<<x>>, M)
<1>1. <<x>> \in Seq(LockSteps) /\ Len(<<x>>) = 1 /\ <<x>>[1] = x
  OBVIOUS
<1>2. \A m \in Locks : Ends(<<x>>, m)
  BY <1>1 DEF Ends, LocksAt
<1>3. \A m \in Exclusive : Begins(<<x>>, m)
  BY <1>1 DEF Begins, UnlocksAt, Exclusive
<1> QED BY <1>1, <1>2, <1>3 DEF Whole

\* Operations one after the other.
LEMMA WholeConcat ==
    ASSUME NEW M, NEW s, NEW t, Whole(s, M), Whole(t, M)
    PROVE  Whole(s \o t, M)
<1> DEFINE st == s \o t
           a == Len(s)
           b == Len(t)
<1>1. s \in Seq(LockSteps) /\ t \in Seq(LockSteps) /\ a \in Nat /\ b \in Nat
  BY DEF Whole
<1>2. /\ st \in Seq(LockSteps) /\ Len(st) = a + b
      /\ \A i \in 1..a : st[i] = s[i]
      /\ \A i \in 1..b : st[a + i] = t[i]
  BY <1>1, ConcatProperties
<1>3. \A i \in 1..(a + b) : i \in 1..a \/ (i - a \in 1..b /\ i = a + (i - a))
  BY <1>1
<1> HIDE DEF st, a, b
<1>4. \A i \in 1..Len(st) : st[i].on \in M \cup {"sem"}
  <2> SUFFICES ASSUME NEW i \in 1..(a + b) PROVE st[i].on \in M \cup {"sem"}
    BY <1>2
  <2>1. CASE i \in 1..a
    BY <2>1, <1>2 DEF Whole, a
  <2>2. CASE i - a \in 1..b /\ i = a + (i - a)
    <3>1. st[i] = t[i - a]
      BY <2>2, <1>2
    <3> QED BY <3>1, <2>2 DEF Whole, b
  <2> QED BY <2>1, <2>2, <1>3
<1>5. ASSUME NEW m \in Locks PROVE Ends(st, m)
  <2> SUFFICES ASSUME NEW i \in 1..(a + b), LocksAt(st, i, m)
               PROVE  \E j \in (i + 1)..(a + b) :
                         /\ UnlocksAt(st, j, m)
                         /\ \A k \in (i + 1)..(j - 1) : ~LocksAt(st, k, m)
    BY <1>2 DEF Ends
  <2>1. CASE i \in 1..a
    <3>1. LocksAt(s, i, m)
      BY <2>1, <1>2 DEF LocksAt
    <3>2. PICK j \in (i + 1)..a :
             UnlocksAt(s, j, m) /\ \A k \in (i + 1)..(j - 1) : ~LocksAt(s, k, m)
      BY <2>1, <3>1 DEF Whole, Ends, a
    <3>3. j \in (i + 1)..(a + b) /\ j \in 1..a /\ \A k \in (i + 1)..(j - 1) : k \in 1..a
      BY <2>1, <1>1
    <3> QED BY <3>2, <3>3, <1>2 DEF UnlocksAt, LocksAt
  <2>2. CASE i - a \in 1..b
    <3>1. LocksAt(t, i - a, m)
      BY <2>2, <1>1, <1>2 DEF LocksAt
    <3>2. PICK j \in (i - a + 1)..b :
             UnlocksAt(t, j, m) /\ \A k \in (i - a + 1)..(j - 1) : ~LocksAt(t, k, m)
      BY <2>2, <3>1 DEF Whole, Ends, b
    <3>3. a + j \in (i + 1)..(a + b) /\ j \in 1..b
      BY <2>2, <1>1
    <3>4. ASSUME NEW k \in (i + 1)..((a + j) - 1)
          PROVE  k - a \in (i - a + 1)..(j - 1) /\ k - a \in 1..b /\ k = a + (k - a)
      BY <2>2, <1>1
    <3>5. \A k \in (i + 1)..((a + j) - 1) : ~LocksAt(st, k, m)
      <4> SUFFICES ASSUME NEW k \in (i + 1)..((a + j) - 1) PROVE ~LocksAt(st, k, m)
        OBVIOUS
      <4>1. k - a \in (i - a + 1)..(j - 1) /\ k - a \in 1..b /\ k = a + (k - a)
        BY <3>4
      <4>2. st[k] = t[k - a]
        BY <4>1, <1>2
      <4> QED BY <4>1, <4>2, <3>2 DEF LocksAt
    <3>6. UnlocksAt(st, a + j, m)
      BY <3>2, <3>3, <1>2 DEF UnlocksAt
    <3> QED BY <3>3, <3>5, <3>6
  <2> QED BY <2>1, <2>2, <1>3
<1>6. ASSUME NEW m \in Exclusive PROVE Begins(st, m)
  <2> SUFFICES ASSUME NEW j \in 1..(a + b), UnlocksAt(st, j, m)
               PROVE  \E i \in 1..(j - 1) :
                         /\ LocksAt(st, i, m)
                         /\ \A k \in (i + 1)..(j - 1) : ~UnlocksAt(st, k, m)
    BY <1>2 DEF Begins
  <2>1. CASE j \in 1..a
    <3>1. UnlocksAt(s, j, m)
      BY <2>1, <1>2 DEF UnlocksAt
    <3>2. PICK i \in 1..(j - 1) :
             LocksAt(s, i, m) /\ \A k \in (i + 1)..(j - 1) : ~UnlocksAt(s, k, m)
      BY <2>1, <3>1 DEF Whole, Begins, a
    <3>3. i \in 1..a /\ \A k \in (i + 1)..(j - 1) : k \in 1..a
      BY <2>1, <1>1
    <3> QED BY <3>2, <3>3, <1>2 DEF UnlocksAt, LocksAt
  <2>2. CASE j - a \in 1..b
    <3>1. UnlocksAt(t, j - a, m)
      BY <2>2, <1>1, <1>2 DEF UnlocksAt
    <3>2. PICK i \in 1..(j - a - 1) :
             LocksAt(t, i, m) /\ \A k \in (i + 1)..(j - a - 1) : ~UnlocksAt(t, k, m)
      BY <2>2, <3>1 DEF Whole, Begins, b
    <3>3. a + i \in 1..(j - 1) /\ i \in 1..b
      BY <2>2, <1>1
    <3>4. ASSUME NEW k \in (a + i + 1)..(j - 1)
          PROVE  k - a \in (i + 1)..(j - a - 1) /\ k - a \in 1..b /\ k = a + (k - a)
      BY <2>2, <1>1
    <3>5. \A k \in (a + i + 1)..(j - 1) : ~UnlocksAt(st, k, m)
      BY <3>2, <3>4, <1>2 DEF UnlocksAt
    <3> QED BY <3>2, <3>3, <3>5, <1>2 DEF LocksAt
  <2> QED BY <2>1, <2>2, <1>3
<1> QED BY <1>2, <1>4, <1>5, <1>6 DEF Whole, st

\* A critical section around steps that do not touch its mutex.
LEMMA WholeSection ==
    ASSUME NEW M, NEW n \in Locks, n \notin M, NEW s, Whole(s, M)
    PROVE  Whole(Section(n, s), M \cup {n})
<1> DEFINE a == Len(s)
           z == Section(n, s)
<1>1. s \in Seq(LockSteps) /\ a \in Nat /\ n # "sem"
  BY DEF Whole, Locks
<1>2. /\ Lock(n) \in Seq(LockSteps) /\ Len(Lock(n)) = 1
      /\ Unlock(n) \in Seq(LockSteps) /\ Len(Unlock(n)) = 1
      /\ LocksAt(Lock(n), 1, n) /\ UnlocksAt(Unlock(n), 1, n)
  BY DEF Lock, Unlock, LockSteps, LocksAt, UnlocksAt
<1>3. /\ Lock(n) \o s \in Seq(LockSteps) /\ Len(Lock(n) \o s) = a + 1
      /\ (Lock(n) \o s)[1] = Lock(n)[1]
      /\ \A i \in 1..a : (Lock(n) \o s)[i + 1] = s[i]
  <2>1. /\ Lock(n) \o s \in Seq(LockSteps) /\ Len(Lock(n) \o s) = 1 + a
        /\ \A i \in 1..(1 + a) :
              (Lock(n) \o s)[i] = IF i <= 1 THEN Lock(n)[i] ELSE s[i - 1]
    <3>1. /\ Lock(n) \o s \in Seq(LockSteps) /\ Len(Lock(n) \o s) = Len(Lock(n)) + Len(s)
          /\ \A i \in 1..(Len(Lock(n)) + Len(s)) :
                (Lock(n) \o s)[i] = IF i <= Len(Lock(n)) THEN Lock(n)[i]
                                    ELSE s[i - Len(Lock(n))]
      BY <1>1, <1>2, ConcatProperties
    <3> QED BY <3>1, <1>2
  <2> HIDE DEF a
  <2>2. \A i \in 1..a : (Lock(n) \o s)[i + 1] = s[i]
    <3> SUFFICES ASSUME NEW i \in 1..a PROVE (Lock(n) \o s)[i + 1] = s[i]
      OBVIOUS
    <3>1. i + 1 \in 1..(1 + a) /\ ~(i + 1 <= 1) /\ (i + 1) - 1 = i
      BY <1>1
    <3> QED BY <3>1, <2>1
  <2> QED BY <2>1, <2>2, <1>1
<1>4. /\ z \in Seq(LockSteps) /\ Len(z) = a + 2
      /\ z[1] = Lock(n)[1] /\ z[a + 2] = Unlock(n)[1]
      /\ \A i \in 1..a : z[i + 1] = s[i]
  <2>1. /\ z \in Seq(LockSteps) /\ Len(z) = (a + 1) + 1
        /\ \A i \in 1..((a + 1) + 1) :
              z[i] = IF i <= a + 1 THEN (Lock(n) \o s)[i] ELSE Unlock(n)[i - (a + 1)]
    BY <1>2, <1>3, ConcatProperties DEF Section
  <2> HIDE DEF a, z
  <2>2. (a + 2) - (a + 1) = 1 /\ a + 2 \in 1..((a + 1) + 1) /\ ~(a + 2 <= a + 1)
        /\ 1 \in 1..((a + 1) + 1) /\ 1 <= a + 1 /\ (a + 1) + 1 = a + 2
    BY <1>1
  <2>3. ASSUME NEW i \in 1..a
        PROVE  i + 1 \in 1..((a + 1) + 1) /\ i + 1 <= a + 1
    BY <1>1
  <2> QED BY <2>1, <2>2, <2>3, <1>3
<1> HIDE DEF a, z
\* Every place of z is its lock, its unlock, or a place of s.
<1>5. \A i \in 1..Len(z) :
         \/ i = 1 /\ LocksAt(z, i, n)
         \/ i = a + 2 /\ UnlocksAt(z, i, n)
         \/ i - 1 \in 1..a /\ z[i] = s[i - 1] /\ z[i].on \in M \cup {"sem"}
  <2> SUFFICES ASSUME NEW i \in 1..Len(z)
               PROVE  \/ i = 1 /\ LocksAt(z, i, n)
                      \/ i = a + 2 /\ UnlocksAt(z, i, n)
                      \/ /\ i - 1 \in 1..a /\ z[i] = s[i - 1]
                         /\ z[i].on \in M \cup {"sem"}
    OBVIOUS
  <2>1. i = 1 \/ i = a + 2 \/ (i - 1 \in 1..a /\ i = (i - 1) + 1)
    BY <1>1, <1>4
  <2>2. CASE i - 1 \in 1..a /\ i = (i - 1) + 1
    <3>1. z[i] = s[i - 1]
      BY <2>2, <1>4
    <3> QED BY <3>1, <2>2 DEF Whole, a
  <2> QED BY <2>1, <2>2, <1>2, <1>4 DEF LocksAt, UnlocksAt
<1>6. \A i \in 1..Len(z) : z[i].on \in (M \cup {n}) \cup {"sem"}
  BY <1>5 DEF LocksAt, UnlocksAt
<1>7. ASSUME NEW m \in Locks PROVE Ends(z, m)
  <2> SUFFICES ASSUME NEW i \in 1..(a + 2), LocksAt(z, i, m)
               PROVE  \E j \in (i + 1)..(a + 2) :
                         /\ UnlocksAt(z, j, m)
                         /\ \A k \in (i + 1)..(j - 1) : ~LocksAt(z, k, m)
    BY <1>4 DEF Ends
  <2>1. CASE m = n
    <3>1. i = 1
      BY <2>1, <1>1, <1>4, <1>5 DEF LocksAt, UnlocksAt
    <3>2. \A k \in 2..(a + 1) : ~LocksAt(z, k, n)
      BY <1>1, <1>4, <1>5 DEF LocksAt, UnlocksAt
    <3>3. a + 2 \in (i + 1)..(a + 2) /\ UnlocksAt(z, a + 2, n) /\ (a + 2) - 1 = a + 1
          /\ i + 1 = 2
      BY <3>1, <1>1, <1>4, <1>2 DEF UnlocksAt
    <3> QED BY <2>1, <3>2, <3>3
  <2>2. CASE m # n
    <3>1. i - 1 \in 1..a /\ LocksAt(s, i - 1, m)
      BY <2>2, <1>4, <1>5 DEF LocksAt, UnlocksAt
    <3>2. PICK j \in ((i - 1) + 1)..a :
             UnlocksAt(s, j, m) /\ \A k \in ((i - 1) + 1)..(j - 1) : ~LocksAt(s, k, m)
      BY <3>1 DEF Whole, Ends, a
    <3>3. j + 1 \in (i + 1)..(a + 2) /\ j \in 1..a
      BY <3>1, <1>1
    <3>4. \A k \in (i + 1)..((j + 1) - 1) : ~LocksAt(z, k, m)
      <4> SUFFICES ASSUME NEW k \in (i + 1)..((j + 1) - 1) PROVE ~LocksAt(z, k, m)
        OBVIOUS
      <4>1. /\ k - 1 \in ((i - 1) + 1)..(j - 1) /\ k - 1 \in 1..a
            /\ k = (k - 1) + 1
        BY <3>1, <1>1
      <4>2. z[k] = s[k - 1]
        BY <4>1, <1>4
      <4> QED BY <4>1, <4>2, <3>2 DEF LocksAt
    <3>5. UnlocksAt(z, j + 1, m)
      BY <3>2, <3>3, <1>4 DEF UnlocksAt
    <3> QED BY <3>3, <3>4, <3>5
  <2> QED BY <2>1, <2>2
<1>8. ASSUME NEW m \in Exclusive PROVE Begins(z, m)
  <2> SUFFICES ASSUME NEW j \in 1..(a + 2), UnlocksAt(z, j, m)
               PROVE  \E i \in 1..(j - 1) :
                         /\ LocksAt(z, i, m)
                         /\ \A k \in (i + 1)..(j - 1) : ~UnlocksAt(z, k, m)
    BY <1>4 DEF Begins
  <2>1. CASE m = n
    <3>1. j = a + 2
      BY <2>1, <1>1, <1>4, <1>5 DEF LocksAt, UnlocksAt, Exclusive
    <3>2. \A k \in 2..(a + 1) : ~UnlocksAt(z, k, n)
      BY <1>1, <1>4, <1>5 DEF LocksAt, UnlocksAt
    <3>3. 1 \in 1..(j - 1) /\ LocksAt(z, 1, n) /\ j - 1 = a + 1 /\ 1 + 1 = 2
      BY <3>1, <1>1, <1>4, <1>2 DEF LocksAt
    <3> QED BY <2>1, <3>2, <3>3
  <2>2. CASE m # n
    <3>1. j - 1 \in 1..a /\ UnlocksAt(s, j - 1, m)
      BY <2>2, <1>4, <1>5 DEF LocksAt, UnlocksAt
    <3>2. PICK i \in 1..((j - 1) - 1) :
             LocksAt(s, i, m) /\ \A k \in (i + 1)..((j - 1) - 1) : ~UnlocksAt(s, k, m)
      BY <3>1 DEF Whole, Begins, a
    <3>3. i + 1 \in 1..(j - 1) /\ i \in 1..a
      BY <3>1, <1>1
    <3>4. \A k \in ((i + 1) + 1)..(j - 1) : ~UnlocksAt(z, k, m)
      <4> SUFFICES ASSUME NEW k \in ((i + 1) + 1)..(j - 1) PROVE ~UnlocksAt(z, k, m)
        OBVIOUS
      <4>1. /\ k - 1 \in (i + 1)..((j - 1) - 1) /\ k - 1 \in 1..a
            /\ k = (k - 1) + 1
        BY <3>1, <1>1
      <4>2. z[k] = s[k - 1]
        BY <4>1, <1>4
      <4> QED BY <4>1, <4>2, <3>2 DEF UnlocksAt
    <3>5. LocksAt(z, i + 1, m)
      BY <3>2, <3>3, <1>4 DEF LocksAt
    <3> QED BY <3>3, <3>4, <3>5
  <2> QED BY <2>1, <2>2
<1> QED BY <1>4, <1>6, <1>7, <1>8 DEF Whole, z

\* More mutexes may be allowed than are touched.
LEMMA WholeMore ==
    ASSUME NEW M, NEW N, M \subseteq N, NEW s, Whole(s, M)
    PROVE  Whole(s, N)
BY DEF Whole

-----------------------------------------------------------------------------
(* The operations, in the order of their definitions.                       *)

\* All mutexes but that of the serial exchanges.
Inner == {"buffer", "status", "amount"}

LEMMA GetterWhole == Whole(Field, {"status"}) /\ Whole(Copy, {"status"})
<1>1. Whole(<<>>, {})
  BY WholeEmpty
<1>2. Whole(Section("status", <<>>), {} \cup {"status"})
  BY <1>1, WholeSection DEF Locks
<1>3. Whole(Field, {"status"})
  BY <1>2 DEF Field
<1>4. Whole(Wait, {"status"}) /\ Whole(Post, {"status"})
  <2>1. [op |-> "wait", on |-> "sem"] \in LockSteps
    BY DEF LockSteps
  <2>2. [op |-> "post", on |-> "sem"] \in LockSteps
    BY DEF LockSteps
  <2> QED BY <2>1, <2>2, WholeOne DEF Wait, Post
<1>5. Whole(Wait \o Field, {"status"})
  BY <1>3, <1>4, WholeConcat
<1> QED BY <1>3, <1>4, <1>5, WholeConcat DEF Copy

\* What runs on the buffer outside and inside its critical sections.
LEMMA BufferWhole ==
    /\ Whole(Field, Inner) /\ Whole(Copy, Inner) /\ Whole(BufferSection, Inner)
    /\ Whole(Section("buffer", Field), Inner)
    /\ Whole(Section("buffer", command_buf_send \o Field), Inner)
    /\ Whole(Section("buffer", Section("amount", <<>>)), Inner)
    /\ Whole(Unlock("buffer"), Inner)
<1>1. Whole(Field, Inner) /\ Whole(Copy, Inner)
  BY GetterWhole, WholeMore DEF Inner
<1>2. Whole(BufferSection, Inner)
  <2>1. Whole(Section("buffer", <<>>), {"status"} \cup {"buffer"})
    BY WholeEmpty, WholeSection DEF Locks
  <2> QED BY <2>1, WholeMore DEF BufferSection, Inner
<1>3. Whole(Section("buffer", Field), Inner)
  <2>1. Whole(Section("buffer", Field), {"status"} \cup {"buffer"})
    BY GetterWhole, WholeSection DEF Locks
  <2> QED BY <2>1, WholeMore DEF Inner
<1>4. Whole(Section("buffer", command_buf_send \o Field), Inner)
  <2>1. Whole(Wait, {"status"})
    <3>1. [op |-> "wait", on |-> "sem"] \in LockSteps
      BY DEF LockSteps
    <3> QED BY <3>1, WholeOne DEF Wait
  <2>2. Whole(Copy \o Wait, {"status"})
    BY <2>1, GetterWhole, WholeConcat
  <2>3. Whole(is_in_compensation, {"status"})
    BY GetterWhole, WholeConcat DEF is_in_compensation
  <2>4. Whole(command_buf_send, {"status"})
    BY <2>2, <2>3, WholeConcat DEF command_buf_send
  <2>5. Whole(command_buf_send \o Field, {"status"})
    BY <2>4, GetterWhole, WholeConcat
  <2>6. Whole(Section("buffer", command_buf_send \o Field), {"status"} \cup {"buffer"})
    BY <2>5, WholeSection DEF Locks
  <2> QED BY <2>6, WholeMore DEF Inner
<1>5. Whole(Section("buffer", Section("amount", <<>>)), Inner)
  <2>1. Whole(Section("amount", <<>>), {} \cup {"amount"})
    BY WholeEmpty, WholeSection DEF Locks
  <2>2. Whole(Section("amount", <<>>), {"amount"})
    BY <2>1
  <2>3. Whole(Section("buffer", Section("amount", <<>>)), {"amount"} \cup {"buffer"})
    BY <2>2, WholeSection DEF Locks
  <2> QED BY <2>3, WholeMore DEF Inner
<1>6. Whole(Unlock("buffer"), Inner)
  <2>1. [op |-> "unlock", on |-> "buffer"] \in LockSteps
    BY DEF LockSteps, Locks
  <2> QED BY <2>1, WholeOne DEF Unlock, Inner
<1> QED BY <1>1, <1>2, <1>3, <1>4, <1>5, <1>6

LEMMA InsertsWhole ==
    /\ Whole(command_buf_print, Inner)
    /\ Whole(command_buf_insert_effect_time, Inner)
    /\ Whole(command_buf_insert_adjustment, Inner)
    /\ Whole(command_buf_resume_control, Inner)
    /\ Whole(command_buf_delete_OBU, Inner)
    /\ Whole(command_buf_clear, Inner)
<1>0. Whole(Copy \o BufferSection, Inner)
  BY BufferWhole, WholeConcat
<1>1. Whole(command_buf_print, Inner)
  BY <1>0, WholeEmpty DEF command_buf_print
<1>2. Whole(command_buf_insert_effect_time, Inner)
  BY <1>0, <1>1, WholeConcat DEF command_buf_insert_effect_time
<1>3. Whole(command_buf_insert_adjustment, Inner)
  <2>1. Whole(is_in_compensation, Inner)
    BY BufferWhole, WholeConcat DEF is_in_compensation
  <2>2. Whole(is_in_compensation \o Copy, Inner)
    BY <2>1, BufferWhole, WholeConcat
  <2>3. Whole(is_in_compensation \o Copy \o BufferSection, Inner)
    BY <2>2, BufferWhole, WholeConcat
  <2> QED BY <2>3, <1>2, WholeConcat DEF command_buf_insert_adjustment
<1>4. Whole(command_buf_resume_control, Inner)
  BY <1>2, BufferWhole, WholeConcat DEF command_buf_resume_control
<1>5. Whole(command_buf_delete_OBU, Inner) /\ Whole(command_buf_clear, Inner)
  BY BufferWhole DEF command_buf_delete_OBU, command_buf_clear
<1> QED BY <1>1, <1>2, <1>3, <1>4, <1>5

LEMMA PollsWhole == ASSUME NEW poll \in Polls PROVE Whole(poll, Inner)
<1>1. Whole(Copy \o BufferSection, Inner)
  BY BufferWhole, WholeConcat
<1>2. Whole(Copy \o Section("buffer", Field), Inner)
  BY BufferWhole, WholeConcat
<1>3. Whole(Copy \o BufferSection \o Copy \o command_buf_insert_effect_time
                 \o Section("buffer", Field), Inner)
  <2>1. Whole(Copy \o BufferSection \o Copy, Inner)
    BY <1>1, BufferWhole, WholeConcat
  <2>2. Whole(Copy \o BufferSection \o Copy \o command_buf_insert_effect_time, Inner)
    BY <2>1, InsertsWhole, WholeConcat
  <2> QED BY <2>2, BufferWhole, WholeConcat
<1>4. Whole(Copy \o BufferSection \o Unlock("buffer"), Inner)
  BY <1>1, BufferWhole, WholeConcat
<1>5. Whole(Copy \o Section("buffer", command_buf_send \o Field), Inner)
  BY BufferWhole, WholeConcat
<1> QED BY <1>1, <1>2, <1>3, <1>4, <1>5, BufferWhole DEF Polls

\* Whatever a thread runs leaves no mutex locked, and unlocks no mutex but that
\* of the buffer without having locked it.
LEMMA ScriptsWhole ==
    ASSUME NEW t \in Threads, NEW s \in Scripts(t)
    PROVE  Whole(s, Locks)
<1>1. ASSUME NEW x \in TickScripts PROVE Whole(x, Locks)
  <2>1. PICK queries \in {<<>>, Field \o Field}, poll \in Polls,
             order \in {<<>>, Field} :
          x = Section("uart", queries \o poll \o command_buf_print \o order)
    BY DEF TickScripts
  <2>2. Whole(Field \o Field, Inner)
    BY BufferWhole, WholeConcat
  <2>3. Whole(queries, Inner) /\ Whole(poll, Inner) /\ Whole(order, Inner)
    BY <2>2, PollsWhole, WholeEmpty, BufferWhole
  <2>4. Whole(queries \o poll, Inner)
    BY <2>3, WholeConcat
  <2>5. Whole(queries \o poll \o command_buf_print, Inner)
    BY <2>4, InsertsWhole, WholeConcat
  <2>6. Whole(queries \o poll \o command_buf_print \o order, Inner)
    BY <2>3, <2>5, WholeConcat
  <2>7. Whole(x, Inner \cup {"uart"})
    BY <2>1, <2>6, WholeSection DEF Locks, Inner
  <2> QED BY <2>7, WholeMore DEF Locks, Inner
<1>2. ASSUME NEW x \in RxScripts PROVE Whole(x, Locks)
  <2>1. Whole(Post, {"status"})
    <3>1. [op |-> "post", on |-> "sem"] \in LockSteps
      BY DEF LockSteps
    <3> QED BY <3>1, WholeOne DEF Post
  <2>2. Whole(Field \o Post, {"status"})
    BY <2>1, GetterWhole, WholeConcat
  <2>3. Whole(Section("status", command_buf_clear), {"buffer"} \cup {"status"})
    <3>1. Whole(Section("buffer", <<>>), {} \cup {"buffer"})
      BY WholeEmpty, WholeSection DEF Locks
    <3>2. Whole(command_buf_clear, {"buffer"})
      BY <3>1 DEF command_buf_clear, BufferSection
    <3> QED BY <3>2, WholeSection DEF Locks
  <2>4. x = Field \o Post \/ x = Field \/ x = Section("status", command_buf_clear)
    BY DEF RxScripts, PlanReport
  <2> QED BY <2>2, <2>3, <2>4, GetterWhole, WholeMore DEF Locks
<1>3. ASSUME NEW x \in AppScripts PROVE Whole(x, Locks)
  <2>1. Whole(command_buf_delete_OBU \o command_buf_resume_control, Inner)
    BY InsertsWhole, WholeConcat
  <2>2. Whole(x, Inner)
    BY <2>1, InsertsWhole DEF AppScripts
  <2> QED BY <2>2, WholeMore DEF Locks, Inner
<1> QED BY <1>1, <1>2, <1>3 DEF Scripts

-----------------------------------------------------------------------------
(* What is left of an operation.                                            *)

\* The next step on m is an unlock.
Closes(s, m) ==
    \E j \in 1..Len(s) : UnlocksAt(s, j, m) /\ \A k \in 1..(j - 1) : ~LocksAt(s, k, m)

\* Between two unlocks of m there is a lock of m.
Pairs(s, m) ==
    \A i, j \in 1..Len(s) : (i < j /\ UnlocksAt(s, i, m) /\ UnlocksAt(s, j, m)) =>
        \E k \in (i + 1)..(j - 1) : LocksAt(s, k, m)

\* An operation that has not begun: nothing to unlock before it is locked.
LEMMA BeginsPairs ==
    ASSUME NEW s \in Seq(LockSteps), NEW m, Begins(s, m)
    PROVE  Pairs(s, m) /\ ~Closes(s, m)
<1>1. ASSUME NEW i \in 1..Len(s), NEW j \in 1..Len(s), i < j,
             UnlocksAt(s, i, m), UnlocksAt(s, j, m)
      PROVE  \E k \in (i + 1)..(j - 1) : LocksAt(s, k, m)
  <2>1. PICK k \in 1..(j - 1) :
           LocksAt(s, k, m) /\ \A l \in (k + 1)..(j - 1) : ~UnlocksAt(s, l, m)
    BY <1>1 DEF Begins
  <2>2. k # i
    BY <1>1, <2>1 DEF LocksAt, UnlocksAt
  <2>3. i \notin (k + 1)..(j - 1)
    BY <1>1, <2>1
  <2>4. k \in (i + 1)..(j - 1)
    BY <1>1, <2>2, <2>3
  <2> QED BY <2>1, <2>4
<1>2. ASSUME Closes(s, m) PROVE FALSE
  <2>1. PICK j \in 1..Len(s) :
           UnlocksAt(s, j, m) /\ \A k \in 1..(j - 1) : ~LocksAt(s, k, m)
    BY <1>2 DEF Closes
  <2> QED BY <2>1 DEF Begins
<1> QED BY <1>1, <1>2 DEF Pairs

\* The step after a lock is awaited by its unlock.
LEMMA LockCloses ==
    ASSUME NEW s \in Seq(LockSteps), s # <<>>, NEW m, Ends(s, m), LocksAt(s, 1, m)
    PROVE  Closes(Tail(s), m)
<1>1. Len(s) \in Nat /\ Len(s) > 0 /\ Len(Tail(s)) = Len(s) - 1
      /\ \A i \in 1..(Len(s) - 1) : Tail(s)[i] = s[i + 1]
  OBVIOUS
<1>2. PICK j \in 2..Len(s) :
         UnlocksAt(s, j, m) /\ \A k \in 2..(j - 1) : ~LocksAt(s, k, m)
  BY <1>1 DEF Ends
<1>3. j - 1 \in 1..Len(Tail(s)) /\ UnlocksAt(Tail(s), j - 1, m)
  BY <1>1, <1>2 DEF UnlocksAt
<1>4. ASSUME NEW k \in 1..((j - 1) - 1) PROVE ~LocksAt(Tail(s), k, m)
  <2>1. k + 1 \in 2..(j - 1) /\ k \in 1..(Len(s) - 1)
    BY <1>1, <1>2
  <2> QED BY <2>1, <1>1, <1>2 DEF LocksAt
<1> QED BY <1>3, <1>4 DEF Closes

\* A step on another mutex changes nothing for m.
LEMMA OtherStep ==
    ASSUME NEW s \in Seq(LockSteps), s # <<>>, NEW m,
           ~LocksAt(s, 1, m), ~UnlocksAt(s, 1, m)
    PROVE  Closes(s, m) <=> Closes(Tail(s), m)
<1>1. Len(s) \in Nat /\ Len(s) > 0 /\ Len(Tail(s)) = Len(s) - 1
      /\ \A i \in 1..(Len(s) - 1) : Tail(s)[i] = s[i + 1]
  OBVIOUS
<1>2. ASSUME Closes(s, m) PROVE Closes(Tail(s), m)
  <2>1. PICK j \in 1..Len(s) :
           UnlocksAt(s, j, m) /\ \A k \in 1..(j - 1) : ~LocksAt(s, k, m)
    BY <1>2 DEF Closes
  <2>2. j # 1
    BY <2>1
  <2>3. j - 1 \in 1..Len(Tail(s)) /\ UnlocksAt(Tail(s), j - 1, m)
    BY <1>1, <2>1, <2>2 DEF UnlocksAt
  <2>4. ASSUME NEW k \in 1..((j - 1) - 1) PROVE ~LocksAt(Tail(s), k, m)
    <3>1. k + 1 \in 1..(j - 1) /\ k \in 1..(Len(s) - 1)
      BY <1>1, <2>1
    <3> QED BY <3>1, <1>1, <2>1 DEF LocksAt
  <2> QED BY <2>3, <2>4 DEF Closes
<1>3. ASSUME Closes(Tail(s), m) PROVE Closes(s, m)
  <2>1. PICK j \in 1..(Len(s) - 1) :
           UnlocksAt(Tail(s), j, m) /\ \A k \in 1..(j - 1) : ~LocksAt(Tail(s), k, m)
    BY <1>1, <1>3 DEF Closes
  <2>2. j + 1 \in 1..Len(s) /\ UnlocksAt(s, j + 1, m)
    BY <1>1, <2>1 DEF UnlocksAt
  <2>3. ASSUME NEW k \in 1..((j + 1) - 1) PROVE ~LocksAt(s, k, m)
    <3>1. CASE k = 1
      BY <3>1
    <3>2. CASE k # 1
      <4>1. k - 1 \in 1..(j - 1) /\ k - 1 \in 1..(Len(s) - 1) /\ (k - 1) + 1 = k
        BY <1>1, <2>1, <3>2
      <4>2. Tail(s)[k - 1] = s[k]
        BY <4>1, <1>1
      <4> QED BY <4>1, <4>2, <2>1 DEF LocksAt
    <3> QED BY <3>1, <3>2
  <2> QED BY <2>2, <2>3 DEF Closes
<1> QED BY <1>2, <1>3

\* The two forms of pairing survive a step, and after an unlock of m the next
\* step on m is not another one.
LEMMA PairingKept ==
    ASSUME NEW s \in Seq(LockSteps), s # <<>>, NEW m
    PROVE  /\ Ends(s, m) => Ends(Tail(s), m)
           /\ Pairs(s, m) => Pairs(Tail(s), m)
           /\ Pairs(s, m) /\ UnlocksAt(s, 1, m) => ~Closes(Tail(s), m)
<1>1. Len(s) \in Nat /\ Len(s) > 0 /\ Len(Tail(s)) = Len(s) - 1
      /\ \A i \in 1..(Len(s) - 1) : Tail(s)[i] = s[i + 1]
  OBVIOUS
<1>2. ASSUME Ends(s, m), NEW i \in 1..(Len(s) - 1), LocksAt(Tail(s), i, m)
      PROVE  \E j \in (i + 1)..(Len(s) - 1) :
                /\ UnlocksAt(Tail(s), j, m)
                /\ \A k \in (i + 1)..(j - 1) : ~LocksAt(Tail(s), k, m)
  <2>1. i + 1 \in 1..Len(s) /\ LocksAt(s, i + 1, m)
    BY <1>1, <1>2 DEF LocksAt
  <2>2. PICK j \in ((i + 1) + 1)..Len(s) :
           UnlocksAt(s, j, m) /\ \A k \in ((i + 1) + 1)..(j - 1) : ~LocksAt(s, k, m)
    BY <2>1, <1>2 DEF Ends
  <2>3. j - 1 \in (i + 1)..(Len(s) - 1) /\ j - 1 \in 1..(Len(s) - 1) /\ (j - 1) + 1 = j
    BY <1>1, <2>2
  <2>4. UnlocksAt(Tail(s), j - 1, m)
    BY <1>1, <2>2, <2>3 DEF UnlocksAt
  <2>5. ASSUME NEW k \in (i + 1)..((j - 1) - 1) PROVE ~LocksAt(Tail(s), k, m)
    <3>1. k + 1 \in ((i + 1) + 1)..(j - 1) /\ k \in 1..(Len(s) - 1)
      BY <1>1, <2>2
    <3> QED BY <3>1, <1>1, <2>2 DEF LocksAt
  <2> QED BY <2>3, <2>4, <2>5
<1>3. ASSUME Pairs(s, m), NEW i \in 1..(Len(s) - 1), NEW j \in 1..(Len(s) - 1), i < j,
             UnlocksAt(Tail(s), i, m), UnlocksAt(Tail(s), j, m)
      PROVE  \E k \in (i + 1)..(j - 1) : LocksAt(Tail(s), k, m)
  <2>1. /\ i + 1 \in 1..Len(s) /\ j + 1 \in 1..Len(s) /\ i + 1 < j + 1
        /\ UnlocksAt(s, i + 1, m) /\ UnlocksAt(s, j + 1, m)
    BY <1>1, <1>3 DEF UnlocksAt
  <2>2. PICK k \in ((i + 1) + 1)..((j + 1) - 1) : LocksAt(s, k, m)
    BY <2>1, <1>3 DEF Pairs
  <2>3. k - 1 \in (i + 1)..(j - 1) /\ k - 1 \in 1..(Len(s) - 1) /\ (k - 1) + 1 = k
    BY <1>1, <2>2
  <2> QED BY <2>2, <2>3, <1>1 DEF LocksAt
<1>4. ASSUME Pairs(s, m), UnlocksAt(s, 1, m), Closes(Tail(s), m) PROVE FALSE
  <2>1. PICK j \in 1..(Len(s) - 1) :
           UnlocksAt(Tail(s), j, m) /\ \A k \in 1..(j - 1) : ~LocksAt(Tail(s), k, m)
    BY <1>1, <1>4 DEF Closes
  <2>2. j + 1 \in 1..Len(s) /\ 1 \in 1..Len(s) /\ 1 < j + 1 /\ UnlocksAt(s, j + 1, m)
    BY <1>1, <2>1 DEF UnlocksAt
  <2>3. PICK k \in (1 + 1)..((j + 1) - 1) : LocksAt(s, k, m)
    BY <2>2, <1>4 DEF Pairs
  <2>4. k - 1 \in 1..(j - 1) /\ k - 1 \in 1..(Len(s) - 1) /\ (k - 1) + 1 = k
    BY <1>1, <2>1, <2>3
  <2> QED BY <2>1, <2>3, <2>4, <1>1 DEF LocksAt
<1>5. Ends(s, m) => Ends(Tail(s), m)
  BY <1>1, <1>2 DEF Ends
<1>6. Pairs(s, m) => Pairs(Tail(s), m)
  BY <1>1, <1>3 DEF Pairs
<1> QED BY <1>4, <1>5, <1>6

-----------------------------------------------------------------------------
(* The inductive invariant.                                                 *)

\* A thread holds at most what it is about to unlock; of the mutexes but the
\* buffer's it holds exactly that, and owns it.
ThreadOK(s, held, own, t) ==
    /\ \A m \in Locks : Ends(s, m) /\ (m \in held => Closes(s, m))
    /\ \A m \in Exclusive :
          /\ Pairs(s, m)
          /\ Closes(s, m) => m \in held
          /\ m \in held => own[m] = t

LocksInv ==
    /\ todo \in [Threads -> Seq(LockSteps)]
    /\ owner \in [Locks -> Threads \cup {"none"}]
    /\ inside \in [Threads -> SUBSET Locks]
    /\ \A t \in Threads : ThreadOK(todo[t], inside[t], owner, t)

LEMMA NoThread == "none" \notin Threads
BY LocksAssumption DEF Threads

LEMMA InitLocksInv == Init => LocksInv
<1> SUFFICES ASSUME Init PROVE LocksInv
  OBVIOUS
<1>1. /\ todo \in [Threads -> Seq(LockSteps)]
      /\ owner \in [Locks -> Threads \cup {"none"}]
      /\ inside \in [Threads -> SUBSET Locks]
  BY DEF Init
<1>2. ASSUME NEW t \in Threads PROVE ThreadOK(<<>>, {}, owner, t)
  BY DEF ThreadOK, Ends, Closes, Pairs
<1> QED BY <1>1, <1>2 DEF Init, LocksInv

\* An operation begins.
LEMMA BeginLocksInv ==
    ASSUME LocksInv, NEW t \in Threads, Begin(t)
    PROVE  LocksInv'
<1>1. PICK s \in Scripts(t) : todo' = [todo EXCEPT ![t] = s]
  BY DEF Begin
<1>2. /\ Whole(s, Locks) /\ s \in Seq(LockSteps) /\ todo[t] = <<>>
      /\ owner' = owner /\ inside' = inside
  BY ScriptsWhole DEF Whole, Begin
<1>3. inside[t] = {}
  <2>1. \A m \in Locks : ~Closes(<<>>, m)
    BY DEF Closes
  <2>2. \A m \in Locks : m \notin inside[t]
    BY <1>2, <2>1 DEF LocksInv, ThreadOK
  <2>3. inside[t] \subseteq Locks
    BY DEF LocksInv
  <2> QED BY <2>2, <2>3
<1>4. ThreadOK(s, {}, owner, t)
  <2>1. \A m \in Locks : Ends(s, m)
    BY <1>2 DEF Whole
  <2>2. \A m \in Exclusive : Pairs(s, m) /\ ~Closes(s, m)
    BY <1>2, BeginsPairs DEF Whole
  <2> QED BY <2>1, <2>2 DEF ThreadOK
<1>5. todo' \in [Threads -> Seq(LockSteps)]
  BY <1>1, <1>2 DEF LocksInv
<1>6. ASSUME NEW u \in Threads
      PROVE  ThreadOK(todo'[u], inside'[u], owner', u)
  <2>1. CASE u = t
    <3>1. todo'[u] = s
      BY <2>1, <1>1 DEF LocksInv
    <3> QED BY <3>1, <2>1, <1>2, <1>3, <1>4
  <2>2. CASE u # t
    <3>1. todo'[u] = todo[u]
      BY <2>2, <1>1 DEF LocksInv
    <3> QED BY <3>1, <1>2 DEF LocksInv
  <2> QED BY <2>1, <2>2
<1> QED BY <1>2, <1>5, <1>6 DEF LocksInv

\* What the first step of an operation may be.
LEMMA FirstStep ==
    ASSUME LocksInv, NEW t \in Threads, todo[t] # <<>>
    PROVE  /\ todo[t] \in Seq(LockSteps)
           /\ Head(todo[t]) = todo[t][1] /\ Head(todo[t]) \in LockSteps
           /\ Tail(todo[t]) \in Seq(LockSteps)
           /\ \A m : LocksAt(todo[t], 1, m)
                       <=> Head(todo[t]).op = "lock" /\ Head(todo[t]).on = m
           /\ \A m : UnlocksAt(todo[t], 1, m)
                       <=> Head(todo[t]).op = "unlock" /\ Head(todo[t]).on = m
<1>1. todo[t] \in Seq(LockSteps)
  BY DEF LocksInv
<1>2. Head(todo[t]) = todo[t][1] /\ Head(todo[t]) \in LockSteps
      /\ Tail(todo[t]) \in Seq(LockSteps)
  BY <1>1
<1> QED BY <1>1, <1>2 DEF LocksAt, UnlocksAt

\* What a step of a thread owes to the invariant: its own rest, and that it
\* takes no mutex from another thread.
LEMMA ThreadStep ==
    ASSUME LocksInv, NEW t \in Threads, todo[t] # <<>>, Passes(t),
           owner' \in [Locks -> Threads \cup {"none"}],
           inside' \in [Threads -> SUBSET Locks],
           \A u \in Threads \ {t} : inside'[u] = inside[u],
           ThreadOK(Tail(todo[t]), inside'[t], owner', t),
           \A u \in Threads \ {t}, m \in Exclusive :
               m \in inside[u] => owner'[m] = owner[m]
    PROVE  LocksInv'
<1>1. Tail(todo[t]) \in Seq(LockSteps)
  BY FirstStep
<1>2. todo' = [todo EXCEPT ![t] = Tail(todo[t])]
  BY DEF Passes
<1>3. todo' \in [Threads -> Seq(LockSteps)] /\ todo'[t] = Tail(todo[t])
      /\ \A u \in Threads \ {t} : todo'[u] = todo[u]
  BY <1>1, <1>2 DEF LocksInv
<1>4. ASSUME NEW u \in Threads \ {t}
      PROVE  ThreadOK(todo[u], inside[u], owner', u)
  <2>1. ThreadOK(todo[u], inside[u], owner, u)
    BY DEF LocksInv
  <2> QED BY <2>1 DEF ThreadOK
<1>5. ASSUME NEW u \in Threads
      PROVE  ThreadOK(todo'[u], inside'[u], owner', u)
  <2>1. CASE u = t
    BY <2>1, <1>3
  <2>2. CASE u # t
    BY <2>2, <1>3, <1>4
  <2> QED BY <2>1, <2>2
<1> QED BY <1>3, <1>5 DEF LocksInv

\* The mutexes a step does not touch, or touches without locking or unlocking.
LEMMA UntouchedKept ==
    ASSUME LocksInv, NEW t \in Threads, todo[t] # <<>>, NEW m \in Locks,
           ~LocksAt(todo[t], 1, m), ~UnlocksAt(todo[t], 1, m)
    PROVE  /\ Ends(Tail(todo[t]), m)
           /\ m \in inside[t] => Closes(Tail(todo[t]), m)
           /\ m \in Exclusive =>
                /\ Pairs(Tail(todo[t]), m)
                /\ Closes(Tail(todo[t]), m) => m \in inside[t]
<1>1. ThreadOK(todo[t], inside[t], owner, t) /\ todo[t] \in Seq(LockSteps)
  BY DEF LocksInv
<1> QED BY <1>1, OtherStep, PairingKept DEF ThreadOK

LEMMA AcquireLocksInv ==
    ASSUME LocksInv, NEW t \in Threads, Acquire(t)
    PROVE  LocksInv'
<1> DEFINE n == Head(todo[t]).on
           rest == Tail(todo[t])
<1>1. /\ todo[t] # <<>> /\ Head(todo[t]).op = "lock" /\ Passes(t)
      /\ owner[n] = "none" /\ owner' = [owner EXCEPT ![n] = t]
      /\ inside' = [inside EXCEPT ![t] = @ \cup {n}]
  BY DEF Acquire, At
<1>2. /\ todo[t] \in Seq(LockSteps) /\ n \in Locks
      /\ LocksAt(todo[t], 1, n)
      /\ \A m : m # n => ~LocksAt(todo[t], 1, m) /\ ~UnlocksAt(todo[t], 1, m)
  BY <1>1, FirstStep DEF LockSteps
<1>3. /\ owner' \in [Locks -> Threads \cup {"none"}]
      /\ inside' \in [Threads -> SUBSET Locks]
      /\ inside'[t] = inside[t] \cup {n}
      /\ \A u \in Threads \ {t} : inside'[u] = inside[u]
      /\ owner'[n] = t /\ \A m \in Locks : m # n => owner'[m] = owner[m]
  BY <1>1, <1>2 DEF LocksInv
<1>4. ThreadOK(todo[t], inside[t], owner, t)
  BY DEF LocksInv
<1>5. ASSUME NEW m \in Locks
      PROVE  Ends(rest, m) /\ (m \in inside'[t] => Closes(rest, m))
  <2>1. CASE m = n
    BY <2>1, <1>1, <1>2, <1>4, LockCloses, PairingKept DEF ThreadOK
  <2>2. CASE m # n
    BY <2>2, <1>1, <1>2, <1>3, UntouchedKept
  <2> QED BY <2>1, <2>2
<1>6. ASSUME NEW m \in Exclusive
      PROVE  /\ Pairs(rest, m) /\ (Closes(rest, m) => m \in inside'[t])
             /\ m \in inside'[t] => owner'[m] = t
  <2>0. m \in Locks
    BY DEF Exclusive
  <2>1. CASE m = n
    BY <2>1, <1>1, <1>2, <1>3, <1>4, PairingKept DEF ThreadOK
  <2>2. CASE m # n
    BY <2>0, <2>2, <1>1, <1>2, <1>3, <1>4, UntouchedKept DEF ThreadOK
  <2> QED BY <2>1, <2>2
<1>7. ThreadOK(rest, inside'[t], owner', t)
  BY <1>5, <1>6 DEF ThreadOK
<1>8. \A u \in Threads \ {t}, m \in Exclusive : m \in inside[u] => owner'[m] = owner[m]
  <2> SUFFICES ASSUME NEW u \in Threads \ {t}, NEW m \in Exclusive, m \in inside[u]
               PROVE  owner'[m] = owner[m]
    OBVIOUS
  <2>1. owner[m] = u /\ m \in Locks
    BY DEF LocksInv, ThreadOK, Exclusive
  <2>2. m # n
    BY <2>1, <1>1, NoThread
  <2> QED BY <2>1, <2>2, <1>3
<1> QED BY <1>1, <1>3, <1>7, <1>8, ThreadStep

LEMMA ReleaseLocksInv ==
    ASSUME LocksInv, NEW t \in Threads, Release(t)
    PROVE  LocksInv'
<1> DEFINE n == Head(todo[t]).on
           rest == Tail(todo[t])
<1>1. /\ todo[t] # <<>> /\ Head(todo[t]).op = "unlock" /\ Passes(t)
      /\ owner' = owner \/ owner' = [owner EXCEPT ![n] = "none"]
      /\ inside' = [inside EXCEPT ![t] = @ \ {n}]
  BY DEF Release, At
<1>2. /\ todo[t] \in Seq(LockSteps) /\ n \in Locks
      /\ UnlocksAt(todo[t], 1, n)
      /\ \A m : m # n => ~LocksAt(todo[t], 1, m) /\ ~UnlocksAt(todo[t], 1, m)
      /\ ~LocksAt(todo[t], 1, n)
  BY <1>1, FirstStep DEF LockSteps
<1>3. /\ owner' \in [Locks -> Threads \cup {"none"}]
      /\ inside' \in [Threads -> SUBSET Locks]
      /\ inside'[t] = inside[t] \ {n}
      /\ \A u \in Threads \ {t} : inside'[u] = inside[u]
      /\ \A m \in Locks : m # n => owner'[m] = owner[m]
  BY <1>1, <1>2 DEF LocksInv
<1>4. ThreadOK(todo[t], inside[t], owner, t)
  BY DEF LocksInv
<1>5. ASSUME NEW m \in Locks
      PROVE  Ends(rest, m) /\ (m \in inside'[t] => Closes(rest, m))
  <2>1. CASE m = n
    BY <2>1, <1>1, <1>2, <1>3, <1>4, PairingKept DEF ThreadOK
  <2>2. CASE m # n
    BY <2>2, <1>1, <1>2, <1>3, UntouchedKept
  <2> QED BY <2>1, <2>2
<1>6. ASSUME NEW m \in Exclusive
      PROVE  /\ Pairs(rest, m) /\ (Closes(rest, m) => m \in inside'[t])
             /\ m \in inside'[t] => owner'[m] = t
  <2>0. m \in Locks
    BY DEF Exclusive
  <2>1. CASE m = n
    BY <2>1, <1>1, <1>2, <1>3, <1>4, PairingKept DEF ThreadOK
  <2>2. CASE m # n
    BY <2>0, <2>2, <1>1, <1>2, <1>3, <1>4, UntouchedKept DEF ThreadOK
  <2> QED BY <2>1, <2>2
<1>7. ThreadOK(rest, inside'[t], owner', t)
  BY <1>5, <1>6 DEF ThreadOK
\* Only its owner unlocks an exclusive mutex.
<1>8. \A u \in Threads \ {t}, m \in Exclusive : m \in inside[u] => owner'[m] = owner[m]
  <2> SUFFICES ASSUME NEW u \in Threads \ {t}, NEW m \in Exclusive, m \in inside[u]
               PROVE  owner'[m] = owner[m]
    OBVIOUS
  <2>1. owner[m] = u /\ m \in Locks
    BY DEF LocksInv, ThreadOK, Exclusive
  <2>2. m # n
    <3>1. SUFFICES ASSUME m = n PROVE FALSE
      OBVIOUS
    <3>2. Len(todo[t]) \in Nat /\ Len(todo[t]) > 0
      BY <1>1, <1>2
    <3>3. Closes(todo[t], n)
      BY <3>2, <1>2 DEF Closes
    <3>4. owner[n] = t
      BY <3>1, <3>3, <1>4 DEF ThreadOK
    <3> QED BY <3>1, <3>4, <2>1
  <2> QED BY <2>1, <2>2, <1>3
<1> QED BY <1>1, <1>3, <1>7, <1>8, ThreadStep

\* Steps on the semaphore leave the mutexes alone.
LEMMA SemaphoreLocksInv ==
    ASSUME LocksInv, NEW t \in Threads, TimedWait(t) \/ PostIfZero(t)
    PROVE  LocksInv'
<1>1. /\ todo[t] # <<>> /\ Head(todo[t]).op \in {"wait", "post"} /\ Passes(t)
      /\ owner' = owner /\ inside' = inside
  BY DEF TimedWait, PostIfZero, At
<1>2. \A m \in Locks : ~LocksAt(todo[t], 1, m) /\ ~UnlocksAt(todo[t], 1, m)
  BY <1>1, FirstStep
<1>3. ThreadOK(Tail(todo[t]), inside[t], owner, t)
  <2>1. ThreadOK(todo[t], inside[t], owner, t)
    BY DEF LocksInv
  <2>2. \A m \in Exclusive : m \in Locks
    BY DEF Exclusive
  <2> QED BY <2>1, <2>2, <1>1, <1>2, UntouchedKept DEF ThreadOK
<1>4. owner' \in [Locks -> Threads \cup {"none"}] /\ inside' \in [Threads -> SUBSET Locks]
  BY <1>1 DEF LocksInv
<1> QED BY <1>1, <1>3, <1>4, ThreadStep

LEMMA LocksInvHolds == Spec => []LocksInv
<1>1. Init => LocksInv
  BY InitLocksInv
<1>2. LocksInv /\ [Next]_vars => LocksInv'
  <2> SUFFICES ASSUME LocksInv, [Next]_vars PROVE LocksInv'
    OBVIOUS
  <2>1. ASSUME NEW t \in Threads, Begin(t) \/ Step(t) PROVE LocksInv'
    BY <2>1, BeginLocksInv, AcquireLocksInv, ReleaseLocksInv, SemaphoreLocksInv DEF Step
  <2>2. CASE UNCHANGED vars
    BY <2>2 DEF vars, LocksInv
  <2> QED BY <2>1, <2>2 DEF Next
<1> QED BY <1>1, <1>2, PTL DEF Spec

-----------------------------------------------------------------------------
\* No two threads are between lock and unlock of m.
Excludes(m) == \A t, u \in Threads : (m \in inside[t] /\ m \in inside[u]) => t = u

\* The mutexes of the serial exchanges, of the status and of the activation
\* count exclude: a thread that unlocks one has locked it itself.  Of the mutex
\* of the buffer this is not so, check_command_buf_empty unlocks it twice.
THEOREM MutexesExclude == Spec => [](\A m \in Exclusive : Excludes(m))
<1>1. LocksInv => \A m \in Exclusive : Excludes(m)
  BY DEF LocksInv, ThreadOK, Excludes
<1> QED BY <1>1, LocksInvHolds, PTL

\* At most one thread works on the cached signal status, and a thread whose
\* operation is over has every mutex it took behind it, whatever ticks,
\* reports and applications run side by side.
THEOREM StatusIsExclusive == Spec => []StatusExclusive
<1>1. LocksInv => StatusExclusive
  <2> SUFFICES ASSUME LocksInv PROVE StatusExclusive
    OBVIOUS
  <2> DEFINE inStatus == {t \in Threads : "status" \in inside[t]}
  <2>1. inStatus \subseteq {owner["status"]}
    BY DEF LocksInv, ThreadOK, Exclusive, Locks
  <2>2. Cardinality(inStatus) <= 1
    <3>1. IsFiniteSet({owner["status"]}) /\ Cardinality({owner["status"]}) = 1
      BY FS_Singleton
    <3> QED BY <2>1, <3>1, FS_Subset
  <2>3. ASSUME NEW t \in Threads, todo[t] = <<>> PROVE inside[t] = {}
    <3>1. \A m \in Locks : ~Closes(<<>>, m)
      BY DEF Closes
    <3>2. inside[t] \subseteq Locks /\ \A m \in Locks : m \notin inside[t]
      BY <2>3, <3>1 DEF LocksInv, ThreadOK
    <3> QED BY <3>2
  <2> QED BY <2>2, <2>3 DEF StatusExclusive
<1> QED BY <1>1, LocksInvHolds, PTL
=============================================================================
