------------------------- MODULE CommandBufferProofs -------------------------
(***************************************************************************)
(* Theorems about the command buffer, for any plan, any commands and any   *)
(* number of phases and of cycles in the ring: as long as no report lands  *)
(* in the middle of a poll or of an insertion and no compensation is       *)
(* addressed to phases that have passed, every command is sent in the      *)
(* phase instance it was meant for, none outlives it, and a poll drops no  *)
(* other.  The greens that are stored are within the limits of their       *)
(* phases whatever happens.                                                *)
(***************************************************************************)
EXTENDS CommandBuffer, FiniteSetTheorems, SequenceTheorems, TLAPS

-----------------------------------------------------------------------------
(* The invariant.                                                           *)

Hosts == {"none", "bus", "ambulance", "RESUME", "COMPENSATION"}

InLimits(p, effect) == effect + PedGreen(p) \in Plan[p].MinGreen..Plan[p].MaxGreen

SlotRecords ==
    [app : Apps \cup {"comp", "none"}, host : Hosts, target : 0..N, effect : Int,
     adjusted : Int, flag : BOOLEAN, for : Int]

Commands ==
    {c \in [app : Apps \cup {"comp"}, host : Hosts, cycle : Slots, phase : PhaseIDs,
            target : PhaseIDs, effect : Int, for : Int] : InLimits(c.phase, c.effect)}

PollRecords ==
    [at : {"lock", "send", "mark", "finish"}, phase : PhaseIDs, step : {1, 4},
     sec : Nat, inst : Nat]

CompensateRecords ==
    [at : {"compensate"}, phase : PhaseIDs, step : {1, 4}, sec : Nat, inst : Nat,
     todo : Seq(Commands)]

Controllers == [inst : Nat, pos : 1..3, dynamic : BOOLEAN, polled : BOOLEAN]

\* A slot of phase p.
SlotOK(slot, p) ==
    slot \in SlotRecords /\ (slot.app # "none" => InLimits(p, slot.effect))

BufferOK ==
    /\ command_buf \in [Slots -> [PhaseIDs -> SlotRecords]]
    /\ \A c \in Slots, p \in PhaseIDs : SlotOK(command_buf[c][p], p)

TypeInv ==
    /\ BufferOK
    /\ cycle_index \in Slots
    /\ prior \in [cycle : Slots, phase : 0..N, inst : Nat]
    /\ status \in [phase : 0..N, step : {0, 1, 4}, sec : Nat, dynamic : BOOLEAN, inst : Nat]
    /\ tc \in Controllers
    /\ poll \in {IdlePoll} \cup PollRecords \cup CompensateRecords
    /\ ask \in [Apps -> {NoAsk} \cup Commands]
    /\ lock \in {"free", "poll"}
    /\ active \subseteq Apps
    /\ sent \in [for : Int, inst : Nat, effect : Int]
    /\ disturbed \in BOOLEAN
    /\ poll.at # "idle" => prior.phase # 0 /\ status.inst # 0

\* The cycles of the phase instances, from 0.
CycleOf(inst) == (inst - 1) \div N

\* The cached phase and cycle_index are those of the instance reported last,
\* which is the controller's or the one before.
ReportInv ==
    /\ tc.inst - 1 <= status.inst /\ status.inst <= tc.inst /\ tc.inst >= 1
    /\ status.inst = 0 => status.phase = 0 /\ status.step = 0 /\ cycle_index = 0
    /\ status.inst # 0 => /\ status.phase = PhaseOf(status.inst)
                          /\ status.step \in {1, 4}
                          /\ cycle_index = CycleOf(status.inst) % CYCLE_NUM

\* The polling thread last finished with the controller's instance or the one
\* before, with the one of now if it was polled in this position; before the
\* first poll the controller is in its first phase.
PriorInv ==
    /\ tc.inst - 1 <= prior.inst /\ prior.inst <= status.inst
    /\ tc.polled => prior.inst = tc.inst \/ (prior.inst = 0 /\ tc.pos = 1)
    /\ prior.inst = 0 => prior.phase = 0 /\ prior.cycle = 0 /\ poll.at = "idle" /\ tc.inst = 1
    /\ prior.inst # 0 => /\ prior.phase = PhaseOf(prior.inst)
                         /\ prior.cycle = CycleOf(prior.inst) % CYCLE_NUM

\* What a poll copied is still the status, and a green it may send a command in
\* has not ended: the controller is not polled in its next position yet.
PollInv ==
    poll.at # "idle" =>
        /\ poll.inst = status.inst /\ poll.phase = status.phase
        /\ poll.step = status.step /\ poll.sec = status.sec
        /\ (poll.at \in {"lock", "compensate", "send"} /\ poll.step = 1 /\ poll.sec > 1)
              => tc.inst = poll.inst /\ tc.pos \in {1, 2}

\* A command that is on its way into the buffer.
ForMeant(c) == c.for = Meant(c.cycle, c.phase) /\ c.for >= status.inst /\ status.inst >= 1

CommandInv ==
    /\ \A a \in Apps : ask[a] # NoAsk => ForMeant(ask[a])
    /\ poll.at = "compensate" => \A k \in DOMAIN poll.todo : ForMeant(poll.todo[k])

\* The first instance whose commands are in the buffer.
Oldest == IF poll.at \in {"send", "mark", "finish"} THEN poll.inst ELSE prior.inst

\* A command in slot p of cycle c of the ring, no older than instance low and
\* less than a lap ahead of the cycle of instance top.
PlacedIn(slot, c, p, low, top) ==
    slot.app # "none" =>
        /\ slot.for >= low /\ slot.for >= 1 /\ top >= 1
        /\ PhaseOf(slot.for) = p /\ CycleOf(slot.for) % CYCLE_NUM = c
        /\ CycleOf(slot.for) < CycleOf(top) + CYCLE_NUM

PlaceInv ==
    \A c \in Slots, p \in PhaseIDs : PlacedIn(command_buf[c][p], c, p, Oldest, status.inst)

OrderInv == PriorInv /\ PollInv /\ CommandInv /\ PlaceInv /\ SentForItsPhase

\* The inductive invariant.
BufferInv == TypeInv /\ ReportInv /\ (~disturbed => OrderInv)

-----------------------------------------------------------------------------
(* Counting modulo a number.                                                *)

\* Quotient and remainder.
LEMMA DivMod ==
    ASSUME NEW M \in Nat \ {0}, NEW a \in Nat
    PROVE  /\ a % M \in 0..(M - 1) /\ a \div M \in Int
           /\ a = M * (a \div M) + (a % M)
OBVIOUS

\* A positive multiple of M is at least M.
LEMMA PositiveMultiple ==
    ASSUME NEW M \in Nat \ {0}, NEW d \in Int, d > 0
    PROVE  M * d >= M
OBVIOUS

\* Numbers less than M apart differ modulo M.
LEMMA ModDistinct ==
    ASSUME NEW M \in Nat \ {0}, NEW a \in Nat, NEW b \in Nat, a < b, b - a < M
    PROVE  a % M # b % M
<1> DEFINE p == a \div M
           q == b \div M
<1> SUFFICES ASSUME a % M = b % M PROVE FALSE
  OBVIOUS
<1>1. p \in Int /\ q \in Int /\ b - a = M * q - M * p
  BY DivMod
<1> HIDE DEF p, q
<1>2. b - a = M * (q - p)
  BY <1>1
<1>3. q - p > 0
  <2>1. CASE q - p <= 0
    <3>1. M * (p - q) >= 0
      BY <1>1, <2>1
    <3> QED BY <1>1, <1>2, <3>1
  <2> QED BY <2>1, <1>1
<1>4. M * (q - p) >= M
  BY <1>1, <1>3, PositiveMultiple
<1> QED BY <1>2, <1>4

\* The remainder is the only one.
LEMMA ModUnique ==
    ASSUME NEW M \in Nat \ {0}, NEW q \in Int, NEW r \in 0..(M - 1), M * q + r \in Nat
    PROVE  (M * q + r) % M = r
<1> DEFINE x == M * q + r
           p == x \div M
           s == x % M
<1>1. s \in 0..(M - 1) /\ p \in Int /\ x = M * p + s
  BY DivMod
<1>2. M * q \in Int /\ M * p \in Int /\ M * q - M * p = s - r
  BY <1>1
<1> HIDE DEF x, p, s
<1>3. M * (q - p) = s - r /\ M * (p - q) = r - s
  BY <1>1, <1>2
<1>4. ~(q - p > 0)
  BY <1>1, <1>3, PositiveMultiple
<1>5. ~(p - q > 0)
  BY <1>1, <1>3, PositiveMultiple
<1>6. p = q
  BY <1>1, <1>4, <1>5
<1>7. s = r
  BY <1>1, <1>2, <1>6
<1> QED BY <1>7 DEF x, s


\* Numbers that agree modulo M and are less than M apart are the same.
LEMMA RingUnique ==
    ASSUME NEW M \in Nat \ {0}, NEW a \in Nat, NEW b \in Nat,
           a % M = b % M, a <= b, b < a + M
    PROVE  a = b
<1>1. CASE a < b
  <2>1. b - a < M
    OBVIOUS
  <2> QED BY <1>1, <2>1, ModDistinct
<1> QED BY <1>1

\* Places further on in the ring.
LEMMA RingAdd ==
    ASSUME NEW M \in Nat \ {0}, NEW a \in Nat, NEW c \in 0..(M - 1)
    PROVE  ((a % M) + c) % M = (a + c) % M
<1> DEFINE r == a % M
           q == a \div M
<1>1. r \in 0..(M - 1) /\ q \in Int /\ a = M * q + r
  BY DivMod
<1> HIDE DEF r, q
<1>2. CASE r + c < M
  <2>1. a + c = M * q + (r + c) /\ r + c \in 0..(M - 1) /\ r + c = M * 0 + (r + c)
    BY <1>1, <1>2
  <2>2. (M * q + (r + c)) % M = r + c
    BY <1>1, <2>1, ModUnique
  <2>3. (M * 0 + (r + c)) % M = r + c
    BY <1>1, <2>1, ModUnique
  <2> QED BY <2>1, <2>2, <2>3 DEF r
<1>3. CASE r + c >= M
  <2> DEFINE e == q + 1
             d == (r + c) - M
  <2>1. a + c = M * e + d /\ e \in Int /\ d \in 0..(M - 1) /\ M * e + d \in Nat
    BY <1>1, <1>3
  <2>2. r + c = M * 1 + d
    BY <1>1, <1>3
  <2> HIDE DEF e, d
  <2>3. (M * e + d) % M = d
    BY <2>1, ModUnique
  <2>4. (M * 1 + d) % M = d
    BY <1>1, <2>1, <2>2, ModUnique
  <2> QED BY <2>1, <2>2, <2>3, <2>4 DEF r
<1> QED BY <1>1, <1>2, <1>3

-----------------------------------------------------------------------------
(* The plan, and phase instances.                                           *)

\* What the assumptions say of the plan and of the ring.
LEMMA PlanFacts ==
    /\ N \in Nat \ {0, 1} /\ CYCLE_NUM \in Nat \ {0, 1, 2}
    /\ PhaseIDs = 1..N /\ Slots = 0..(CYCLE_NUM - 1) /\ 0 \in Slots
    /\ \A p \in PhaseIDs :
          /\ Plan[p].PreGreen \in Nat /\ Plan[p].PreTimeCompensated \in Int
          /\ Plan[p].MinGreen \in Nat /\ Plan[p].MaxGreen \in Nat
          /\ PedGreen(p) \in Nat /\ Plan[p].MinGreen <= Plan[p].MaxGreen
<1>1. N \in Nat /\ N >= 2 /\ CYCLE_NUM \in Nat /\ CYCLE_NUM >= 3
  BY BufferAssumption DEF N
<1>2. ASSUME NEW p \in PhaseIDs
      PROVE  /\ Plan[p].PreGreen \in Nat /\ Plan[p].PreTimeCompensated \in Int
             /\ Plan[p].MinGreen \in Nat /\ Plan[p].MaxGreen \in Nat
             /\ PedGreen(p) \in Nat /\ Plan[p].MinGreen <= Plan[p].MaxGreen
  <2>1. Plan[p] \in [PreGreen : Nat, PreTimeCompensated : Int, MinGreen : Nat,
                     MaxGreen : Nat, PedGreenFlash : Nat, PedRed : Nat,
                     Yellow : Nat, AllRed : Nat]
    <3> DEFINE R == [PreGreen : Nat, PreTimeCompensated : Int, MinGreen : Nat,
                     MaxGreen : Nat, PedGreenFlash : Nat, PedRed : Nat,
                     Yellow : Nat, AllRed : Nat]
    <3>1. Plan \in Seq(R) /\ p \in 1..Len(Plan)
      BY BufferAssumption DEF PhaseIDs, N
    <3> HIDE DEF R
    <3>2. Plan[p] \in R
      BY <3>1, ElementOfSeq
    <3> QED BY <3>2 DEF R
  <2>2. Plan[p].MinGreen <= Plan[p].MaxGreen
    BY BufferAssumption DEF PhaseIDs, N
  <2> QED BY <2>1, <2>2 DEF PedGreen
<1> QED BY <1>1, <1>2 DEF PhaseIDs, Slots

\* An instance is a phase of a cycle.
LEMMA InstanceParts ==
    ASSUME NEW i \in Nat \ {0}
    PROVE  /\ CycleOf(i) \in Nat /\ PhaseOf(i) \in PhaseIDs
           /\ i = N * CycleOf(i) + PhaseOf(i)
<1> DEFINE a == i - 1
           q == a \div N
           r == a % N
<1>1. a \in Nat /\ i = a + 1
  OBVIOUS
<1>2. r \in 0..(N - 1) /\ q \in Int /\ a = N * q + r
  BY <1>1, PlanFacts, DivMod
<1>3. CycleOf(i) = q /\ PhaseOf(i) = r + 1
  BY DEF CycleOf, PhaseOf
<1> HIDE DEF a, q, r
<1>4. q >= 0
  <2>1. CASE q <= -1
    <3>1. N * (-q) >= N
      BY <1>2, <2>1, PlanFacts, PositiveMultiple
    <3>2. N * q <= -N
      BY <1>2, <3>1, PlanFacts
    <3> QED BY <1>1, <1>2, <3>2, PlanFacts
  <2> QED BY <2>1, <1>2
<1>5. i = N * q + (r + 1) /\ r + 1 \in 1..N
  BY <1>1, <1>2, PlanFacts
<1> QED BY <1>2, <1>3, <1>4, <1>5, PlanFacts

\* ... of one cycle, and one phase.
LEMMA InstanceUnique ==
    ASSUME NEW k \in Nat, NEW p \in PhaseIDs
    PROVE  /\ N * k + p \in Nat \ {0}
           /\ CycleOf(N * k + p) = k /\ PhaseOf(N * k + p) = p
<1> DEFINE i == N * k + p
           m == N * k
           c == CycleOf(i)
           f == PhaseOf(i)
<1>1. m \in Nat /\ p \in 1..N
  BY PlanFacts
<1>2. i \in Nat \ {0}
  BY <1>1
<1>3. c \in Nat /\ f \in 1..N /\ i = N * c + f
  BY <1>2, PlanFacts, InstanceParts
<1> HIDE DEF i, m, c, f
<1>4. N * k \in Int /\ N * c \in Int /\ N * k - N * c = f - p
  BY <1>1, <1>3, PlanFacts DEF i, m
<1>5. N * (k - c) = f - p /\ N * (c - k) = p - f
  BY <1>3, <1>4, PlanFacts
<1>6. ~(k - c > 0)
  BY <1>1, <1>3, <1>5, PlanFacts, PositiveMultiple
<1>7. ~(c - k > 0)
  BY <1>1, <1>3, <1>5, PlanFacts, PositiveMultiple
<1>8. k = c
  BY <1>3, <1>6, <1>7
<1>9. p = f
  BY <1>1, <1>3, <1>4, <1>8
<1> QED BY <1>2, <1>8, <1>9 DEF i, c, f

\* The first instance is the first phase of cycle 0.
LEMMA FirstInstance == CycleOf(1) = 0 /\ PhaseOf(1) = 1 /\ 0 % CYCLE_NUM = 0
<1>1. 1 = N * 0 + 1 /\ 1 \in PhaseIDs
  BY PlanFacts
<1>2. CycleOf(N * 0 + 1) = 0 /\ PhaseOf(N * 0 + 1) = 1
  BY <1>1, InstanceUnique
<1>3. (CYCLE_NUM * 0 + 0) % CYCLE_NUM = 0
  BY PlanFacts, ModUnique
<1> QED BY <1>1, <1>2, <1>3, PlanFacts

\* The next instance is the next phase, and a new cycle after the last.
LEMMA NextInstance ==
    ASSUME NEW i \in Nat \ {0}
    PROVE  \/ /\ PhaseOf(i) < N /\ PhaseOf(i + 1) = PhaseOf(i) + 1
              /\ CycleOf(i + 1) = CycleOf(i)
           \/ /\ PhaseOf(i) = N /\ PhaseOf(i + 1) = 1
              /\ CycleOf(i + 1) = CycleOf(i) + 1
<1> DEFINE c == CycleOf(i)
           f == PhaseOf(i)
           e == c + 1
<1>1. c \in Nat /\ f \in 1..N /\ i = N * c + f
  BY PlanFacts, InstanceParts
<1> HIDE DEF c, f
<1>2. CASE f < N
  <2>1. i + 1 = N * c + (f + 1) /\ f + 1 \in PhaseIDs
    BY <1>1, <1>2, PlanFacts
  <2>2. CycleOf(N * c + (f + 1)) = c /\ PhaseOf(N * c + (f + 1)) = f + 1
    BY <1>1, <2>1, InstanceUnique
  <2> QED BY <1>2, <2>1, <2>2 DEF c, f
<1>3. CASE f = N
  <2>1. i + 1 = N * e + 1 /\ 1 \in PhaseIDs /\ e \in Nat
    BY <1>1, <1>3, PlanFacts
  <2> HIDE DEF e
  <2>2. CycleOf(N * e + 1) = e /\ PhaseOf(N * e + 1) = 1
    BY <2>1, InstanceUnique
  <2>3. f = N /\ PhaseOf(i + 1) = 1 /\ CycleOf(i + 1) = c + 1
    BY <1>3, <2>1, <2>2 DEF e
  <2> QED BY <2>3 DEF c, f
<1> QED BY <1>1, <1>2, <1>3, PlanFacts

\* A later instance is in the same cycle or in a later one.
LEMMA LaterCycle ==
    ASSUME NEW i \in Nat \ {0}, NEW j \in Nat \ {0}, i <= j
    PROVE  CycleOf(i) <= CycleOf(j)
<1> DEFINE c == CycleOf(i)
           d == CycleOf(j)
           f == PhaseOf(i)
           g == PhaseOf(j)
<1>1. c \in Nat /\ f \in 1..N /\ i = N * c + f /\ d \in Nat /\ g \in 1..N /\ j = N * d + g
  BY PlanFacts, InstanceParts
<1> HIDE DEF c, d, f, g
<1>2. N * c \in Int /\ N * d \in Int /\ N * c - N * d <= g - f
  BY <1>1, PlanFacts
<1>3. N * (c - d) = N * c - N * d
  BY <1>1, PlanFacts
<1>4. ~(c - d > 0)
  BY <1>1, <1>2, <1>3, PlanFacts, PositiveMultiple
<1> QED BY <1>1, <1>4 DEF c, d

\* Instances of one phase and one place of the ring, less than a lap apart.
LEMMA SamePlace ==
    ASSUME NEW i \in Nat \ {0}, NEW j \in Nat \ {0}, i <= j,
           PhaseOf(i) = PhaseOf(j), CycleOf(i) % CYCLE_NUM = CycleOf(j) % CYCLE_NUM,
           CycleOf(j) < CycleOf(i) + CYCLE_NUM
    PROVE  i = j
<1>1. /\ CycleOf(i) \in Nat /\ i = N * CycleOf(i) + PhaseOf(i)
      /\ CycleOf(j) \in Nat /\ j = N * CycleOf(j) + PhaseOf(j)
  BY InstanceParts
<1>2. CycleOf(i) <= CycleOf(j)
  BY LaterCycle
<1>3. CycleOf(i) = CycleOf(j)
  BY <1>1, <1>2, PlanFacts, RingUnique
<1> QED BY <1>1, <1>3

-----------------------------------------------------------------------------
(* What an insertion and the two clearings do to the buffer.                *)

\* The greens that insertions store are in the limits of their phase.
LEMMA BoundedInLimits ==
    ASSUME NEW p \in PhaseIDs, NEW effect \in Int
    PROVE  Bounded(p, effect) \in Int /\ InLimits(p, Bounded(p, effect))
<1> DEFINE g == PedGreen(p)
           lo == Plan[p].MinGreen
           hi == Plan[p].MaxGreen
           low == IF effect + g < lo THEN lo - g ELSE effect
           b == IF low + g > hi THEN hi - g ELSE low
<1>1. g \in Nat /\ lo \in Nat /\ hi \in Nat /\ lo <= hi
  BY PlanFacts
<1>2. Bounded(p, effect) = b
  BY DEF Bounded
<1>3. InLimits(p, b) <=> b + g \in lo..hi
  BY DEF InLimits
<1> HIDE DEF g, lo, hi
<1>4. low \in Int /\ low + g >= lo
  BY <1>1
<1> HIDE DEF low
<1>5. b \in Int /\ b + g \in lo..hi
  BY <1>1, <1>4
<1> QED BY <1>2, <1>3, <1>5

\* An offered command is refused, or it is in the slot.
LEMMA OfferedSlot ==
    ASSUME NEW p \in PhaseIDs, NEW slot, SlotOK(slot, p), NEW c \in Commands, c.phase = p
    PROVE  /\ SlotOK(Offered(slot, c), p)
           /\ \/ Offered(slot, c) = slot
              \/ Offered(slot, c).app # "none" /\ Offered(slot, c).for = c.for
<1> DEFINE v == Verdict(slot, c)
           o == [slot EXCEPT
                   !.app = IF v = "all" THEN c.app ELSE @,
                   !.host = IF v = "effect" THEN @ ELSE c.host,
                   !.effect = c.effect,
                   !.target = c.target,
                   !.flag = FALSE,
                   !.adjusted = IF slot.app = "none" /\ @ = 0
                                THEN Plan[c.phase].PreTimeCompensated ELSE @,
                   !.for = c.for]
<1>1. slot.app = "none" => v = "all"
  BY DEF Verdict
<1>2. Offered(slot, c) = IF v = "refused" THEN slot ELSE o
  BY DEF Offered
<1> HIDE DEF v
<1>3. /\ slot \in SlotRecords /\ c.app \in Apps \cup {"comp"} /\ c.host \in Hosts
      /\ c.effect \in Int /\ c.target \in 0..N /\ c.for \in Int
      /\ InLimits(p, c.effect) /\ Plan[c.phase].PreTimeCompensated \in Int
  BY PlanFacts DEF Commands, SlotOK
<1>4. /\ o \in SlotRecords /\ o.effect = c.effect /\ o.for = c.for
      /\ o.app = IF v = "all" THEN c.app ELSE slot.app
  BY <1>3 DEF SlotRecords
<1> HIDE DEF o
<1>5. o.app # "none"
  BY <1>1, <1>3, <1>4 DEF Apps
<1> QED BY <1>2, <1>3, <1>4, <1>5 DEF SlotOK

Buffers == [Slots -> [PhaseIDs -> SlotRecords]]

Put(b, k, q, x) == [b EXCEPT ![k][q] = x]

\* One slot of the ring is written.
LEMMA PutSlot ==
    ASSUME NEW b \in Buffers, NEW k \in Slots, NEW q \in PhaseIDs, NEW x \in SlotRecords
    PROVE  /\ Put(b, k, q, x) \in Buffers /\ Put(b, k, q, x)[k][q] = x
           /\ \A c \in Slots, p \in PhaseIDs :
                 (c # k \/ p # q) => Put(b, k, q, x)[c][p] = b[c][p]
<1> DEFINE n == Put(b, k, q, x)
<1>1. n = [b EXCEPT ![k] = [b[k] EXCEPT ![q] = x]]
  BY DEF Put
<1> DEFINE row == [b[k] EXCEPT ![q] = x]
<1>2. /\ row \in [PhaseIDs -> SlotRecords] /\ row[q] = x
      /\ \A p \in PhaseIDs : p # q => row[p] = b[k][p]
  BY DEF Buffers
<1> HIDE DEF row, n
<1>3. /\ n \in Buffers /\ n[k] = row
      /\ \A c \in Slots : c # k => n[c] = b[c]
  BY <1>1, <1>2 DEF Buffers, row
<1> QED BY <1>2, <1>3 DEF n

\* An insertion writes the slot of its command, or leaves the buffer.
LEMMA Inserted ==
    ASSUME BufferOK, cycle_index \in Slots, NEW cmd \in Commands, InsertCommand(cmd)
    PROVE  /\ BufferOK'
           /\ \A c \in Slots, p \in PhaseIDs :
                 \/ command_buf'[c][p] = command_buf[c][p]
                 \/ /\ command_buf'[c][p].app # "none"
                    /\ command_buf'[c][p].for = cmd.for /\ p = cmd.phase
                    /\ c = (cycle_index + cmd.cycle) % CYCLE_NUM
<1> DEFINE k == (cycle_index + cmd.cycle) % CYCLE_NUM
           q == cmd.phase
           x == Offered(command_buf[k][q], cmd)
<1>1. q \in PhaseIDs /\ cmd.cycle \in Slots
  BY DEF Commands
<1>2. k \in Slots
  <2>1. cycle_index + cmd.cycle \in Nat
    BY <1>1, PlanFacts
  <2> QED BY <2>1, PlanFacts, DivMod
<1>3. SlotOK(command_buf[k][q], q)
  BY <1>1, <1>2 DEF BufferOK
<1>4. /\ SlotOK(x, q)
      /\ x = command_buf[k][q] \/ (x.app # "none" /\ x.for = cmd.for)
  BY <1>1, <1>3, OfferedSlot
<1>5. command_buf' = Put(command_buf, k, q, x)
  BY DEF InsertCommand, Put
<1> HIDE DEF k, q, x
<1>6. /\ command_buf' \in Buffers /\ command_buf'[k][q] = x
      /\ \A c \in Slots, p \in PhaseIDs :
            (c # k \/ p # q) => command_buf'[c][p] = command_buf[c][p]
  BY <1>1, <1>2, <1>4, <1>5, PutSlot DEF BufferOK, Buffers, SlotOK
<1>7. BufferOK'
  BY <1>4, <1>6 DEF BufferOK, Buffers
<1>8. ASSUME NEW c \in Slots, NEW p \in PhaseIDs
      PROVE  \/ command_buf'[c][p] = command_buf[c][p]
             \/ /\ command_buf'[c][p].app # "none"
                /\ command_buf'[c][p].for = cmd.for /\ p = q /\ c = k
  BY <1>4, <1>6
<1> QED BY <1>7, <1>8 DEF k, q

\* The empty slot is a slot.
LEMMA EmptySlot == Empty \in SlotRecords /\ Empty.app = "none" /\ \A p \in PhaseIDs : SlotOK(Empty, p)
BY PlanFacts DEF Empty, SlotRecords, SlotOK, Hosts

\* The slot of the phase that has ended is empty; in the others the commands
\* stay, and only the adjusted time of the running phase is new.
LEMMA Cleared ==
    ASSUME BufferOK, cycle_index \in Slots, prior.cycle \in Slots, prior.phase \in PhaseIDs,
           poll.phase \in PhaseIDs, poll.sec \in Nat, ClearPrior
    PROVE  /\ BufferOK'
           /\ \A c \in Slots, p \in PhaseIDs :
                 /\ command_buf'[c][p].app # "none" =>
                       /\ command_buf[c][p].app # "none"
                       /\ command_buf'[c][p].for = command_buf[c][p].for
                       /\ c # prior.cycle \/ p # prior.phase
                 /\ (c # prior.cycle \/ p # prior.phase) =>
                       command_buf'[c][p].app = command_buf[c][p].app
<1> DEFINE a == prior.cycle
           f == prior.phase
           k == cycle_index
           q == poll.phase
           mid == Put(command_buf, a, f, Empty)
           x == [mid[k][q] EXCEPT !.adjusted = poll.sec]
<1>1. a \in Slots /\ f \in PhaseIDs /\ k \in Slots /\ q \in PhaseIDs /\ command_buf \in Buffers
  BY DEF BufferOK, Buffers
<1>2. command_buf' = Put(mid, k, q, x)
  BY DEF ClearPrior, Put
<1> HIDE DEF mid
<1>3. /\ mid \in Buffers /\ mid[a][f] = Empty
      /\ \A c \in Slots, p \in PhaseIDs : (c # a \/ p # f) => mid[c][p] = command_buf[c][p]
  <2> HIDE DEF a, f
  <2> QED BY <1>1, EmptySlot, PutSlot DEF mid
<1>4. mid[k][q] \in SlotRecords
  BY <1>1, <1>3 DEF Buffers
<1>5. /\ x \in SlotRecords /\ x.app = mid[k][q].app /\ x.for = mid[k][q].for
      /\ x.effect = mid[k][q].effect
  BY <1>4 DEF SlotRecords
<1> HIDE DEF a, f, k, q, x
<1>6. /\ command_buf' \in Buffers /\ command_buf'[k][q] = x
      /\ \A c \in Slots, p \in PhaseIDs : (c # k \/ p # q) => command_buf'[c][p] = mid[c][p]
  <2>1. k \in Slots /\ q \in PhaseIDs /\ mid \in Buffers /\ x \in SlotRecords
    BY <1>1, <1>3, <1>5
  <2> DEFINE n == Put(mid, k, q, x)
  <2>2. /\ n \in Buffers /\ n[k][q] = x
        /\ \A c \in Slots, p \in PhaseIDs : (c # k \/ p # q) => n[c][p] = mid[c][p]
    BY <2>1, PutSlot
  <2>3. command_buf' = n
    BY <1>2
  <2> HIDE DEF n
  <2> QED BY <2>2, <2>3
<1>7. ASSUME NEW c \in Slots, NEW p \in PhaseIDs
      PROVE  /\ command_buf'[c][p] \in SlotRecords
             /\ command_buf'[c][p].app = mid[c][p].app
             /\ command_buf'[c][p].for = mid[c][p].for
             /\ command_buf'[c][p].effect = mid[c][p].effect
  BY <1>5, <1>6 DEF Buffers
<1>8. ASSUME NEW c \in Slots, NEW p \in PhaseIDs
      PROVE  SlotOK(mid[c][p], p)
  BY <1>3, EmptySlot DEF BufferOK
<1>9. BufferOK'
  BY <1>6, <1>7, <1>8 DEF BufferOK, Buffers, SlotOK
<1>10. ASSUME NEW c \in Slots, NEW p \in PhaseIDs
       PROVE  /\ command_buf'[c][p].app # "none" =>
                    /\ command_buf[c][p].app # "none"
                    /\ command_buf'[c][p].for = command_buf[c][p].for
                    /\ c # a \/ p # f
              /\ (c # a \/ p # f) => command_buf'[c][p].app = command_buf[c][p].app
  BY <1>3, <1>7, EmptySlot
<1> QED BY <1>9, <1>10 DEF a, f

-----------------------------------------------------------------------------
(* Commands and their places.                                               *)

\* The instance that is meant and its place round the ring.
LEMMA MeantPlace ==
    ASSUME TypeInv, ReportInv, status.inst >= 1, NEW c \in Slots, NEW p \in PhaseIDs
    PROVE  /\ Meant(c, p) \in Nat \ {0} /\ PhaseOf(Meant(c, p)) = p
           /\ CycleOf(Meant(c, p)) = CycleOf(status.inst) + c
           /\ CycleOf(Meant(c, p)) % CYCLE_NUM = (cycle_index + c) % CYCLE_NUM
<1> DEFINE k == CycleOf(status.inst)
           j == k + c
<1>1. /\ status.inst \in Nat \ {0} /\ status.phase = PhaseOf(status.inst)
      /\ cycle_index = k % CYCLE_NUM
  BY DEF TypeInv, ReportInv
<1>2. k \in Nat /\ status.phase \in 1..N /\ status.inst = N * k + status.phase
  BY <1>1, InstanceParts, PlanFacts
<1> HIDE DEF k
<1>3. j \in Nat /\ c \in 0..(CYCLE_NUM - 1) /\ p \in 1..N
  BY <1>2, PlanFacts
<1>4. N * k \in Nat /\ c * N = N * c /\ N * c \in Nat
  BY <1>2, <1>3, PlanFacts
<1>5. N * j = N * k + N * c
  BY <1>2, <1>3, PlanFacts
<1>6. Meant(c, p) = N * j + p
  BY <1>2, <1>3, <1>4, <1>5 DEF Meant
<1>7. j % CYCLE_NUM = (cycle_index + c) % CYCLE_NUM
  BY <1>1, <1>2, <1>3, PlanFacts, RingAdd
<1> HIDE DEF j
<1>8. N * j + p \in Nat \ {0} /\ CycleOf(N * j + p) = j /\ PhaseOf(N * j + p) = p
  BY <1>3, InstanceUnique
<1> QED BY <1>6, <1>7, <1>8 DEF j, k

\* What is inserted while the report stays is in its place.
LEMMA InsertedPlace ==
    ASSUME BufferInv, ~disturbed, NEW cmd \in Commands, ForMeant(cmd), InsertCommand(cmd),
           status' = status, Oldest' = Oldest
    PROVE  BufferOK' /\ PlaceInv'
<1>1. /\ BufferOK' /\ cmd.cycle \in Slots /\ cmd.phase \in PhaseIDs
      /\ \A c \in Slots, p \in PhaseIDs :
            \/ command_buf'[c][p] = command_buf[c][p]
            \/ /\ command_buf'[c][p].app # "none"
               /\ command_buf'[c][p].for = cmd.for /\ p = cmd.phase
               /\ c = (cycle_index + cmd.cycle) % CYCLE_NUM
  BY Inserted DEF BufferInv, TypeInv, Commands
<1>2. Oldest <= status.inst /\ Oldest \in Nat /\ status.inst \in Nat
  <2>1. CASE poll.at \in {"send", "mark", "finish"}
    BY <2>1 DEF BufferInv, OrderInv, PollInv, TypeInv, Oldest
  <2>2. CASE poll.at \notin {"send", "mark", "finish"}
    BY <2>2 DEF BufferInv, OrderInv, PriorInv, TypeInv, Oldest
  <2> QED BY <2>1, <2>2
<1>3. /\ cmd.for = Meant(cmd.cycle, cmd.phase) /\ cmd.for >= status.inst /\ status.inst >= 1
      /\ cmd.for \in Nat \ {0} /\ PhaseOf(cmd.for) = cmd.phase
      /\ CycleOf(cmd.for) = CycleOf(status.inst) + cmd.cycle
      /\ CycleOf(cmd.for) % CYCLE_NUM = (cycle_index + cmd.cycle) % CYCLE_NUM
  BY <1>1, MeantPlace DEF BufferInv, ForMeant
<1>4. CycleOf(cmd.for) < CycleOf(status.inst) + CYCLE_NUM
  <2>1. status.inst \in Nat \ {0}
    BY <1>2, <1>3
  <2>2. CycleOf(status.inst) \in Nat
    BY <2>1, InstanceParts
  <2>3. cmd.cycle \in 0..(CYCLE_NUM - 1)
    BY <1>1, PlanFacts
  <2> QED BY <1>3, <2>2, <2>3, PlanFacts
<1>5. cmd.for >= Oldest /\ cmd.for >= 1
  BY <1>2, <1>3
<1>6. ASSUME NEW c \in Slots, NEW p \in PhaseIDs
      PROVE  PlacedIn(command_buf'[c][p], c, p, Oldest, status.inst)
  <2>1. CASE command_buf'[c][p] = command_buf[c][p]
    BY <2>1 DEF BufferInv, OrderInv, PlaceInv
  <2>2. CASE /\ command_buf'[c][p].app # "none"
             /\ command_buf'[c][p].for = cmd.for /\ p = cmd.phase
             /\ c = (cycle_index + cmd.cycle) % CYCLE_NUM
    BY <2>2, <1>3, <1>4, <1>5 DEF PlacedIn
  <2> QED BY <2>1, <2>2, <1>1
<1> QED BY <1>1, <1>6 DEF PlaceInv

\* The three kinds of poll records, by where the poll is.
LEMMA PollShape ==
    ASSUME TypeInv
    PROVE  /\ poll.at = "idle" => poll = IdlePoll
           /\ poll.at \in {"lock", "send", "mark", "finish"} => poll \in PollRecords
           /\ poll.at = "compensate" => poll \in CompensateRecords
           /\ poll.at \in {"idle", "lock", "send", "mark", "finish", "compensate"}
BY DEF TypeInv, IdlePoll, PollRecords, CompensateRecords

-----------------------------------------------------------------------------
(* The initial state and the steps of the environment.                      *)

\* The invariant at the start, and when the controller moves or reports.
LEMMA InitBufferInv == Init => BufferInv
<1> SUFFICES ASSUME Init PROVE BufferInv
  OBVIOUS
<1> USE DEF Init
<1>1. BufferOK
  BY EmptySlot DEF BufferOK
<1>2. TypeInv
  <2>1. cycle_index \in Slots /\ prior \in [cycle : Slots, phase : 0..N, inst : Nat]
    BY PlanFacts
  <2>2. status \in [phase : 0..N, step : {0, 1, 4}, sec : Nat, dynamic : BOOLEAN, inst : Nat]
    BY PlanFacts
  <2>3. tc \in Controllers
    BY DEF Controllers
  <2>4. sent \in [for : Int, inst : Nat, effect : Int] /\ lock \in {"free", "poll"}
    OBVIOUS
  <2>5. disturbed \in BOOLEAN /\ poll \in {IdlePoll} /\ active \subseteq Apps
    BY Zenon
  <2>6. ask \in [Apps -> {NoAsk} \cup Commands]
    OBVIOUS
  <2>7. poll.at = "idle"
    BY DEF IdlePoll
  <2> QED BY <1>1, <2>1, <2>2, <2>3, <2>4, <2>5, <2>6, <2>7 DEF TypeInv
<1>3. ReportInv
  BY DEF ReportInv
<1>4. PriorInv /\ PollInv /\ CommandInv /\ SentForItsPhase
  BY DEF PriorInv, PollInv, IdlePoll, CommandInv, SentForItsPhase
<1>5. PlaceInv
  BY EmptySlot DEF PlaceInv, PlacedIn
<1> QED BY <1>2, <1>3, <1>4, <1>5 DEF BufferInv, OrderInv

LEMMA AdvanceInv == ASSUME BufferInv, Advance PROVE BufferInv'
<1>1. /\ tc \in Controllers /\ tc.polled
      /\ tc.inst = status.inst
      /\ status.step = StepAt(Positions[tc.pos])
      /\ status.sec = SecAt(Positions[tc.pos], PhaseOf(tc.inst))
  BY DEF Advance, StatusIsCurrent, BufferInv, TypeInv
<1>2. /\ tc' \in Controllers /\ ~tc'.polled
      /\ \/ tc'.inst = tc.inst /\ tc.pos < 3 /\ tc'.pos = tc.pos + 1
         \/ tc'.inst = tc.inst + 1 /\ tc.pos = 3 /\ tc'.pos = 1
  <2>1. Len(Positions) = 3
    BY DEF Positions
  <2> DEFINE no == FALSE
  <2>4. no \in BOOLEAN /\ ~no
    BY Zenon
  <2>2. CASE tc.pos < Len(Positions) /\ tc' = [tc EXCEPT !.pos = @ + 1, !.polled = FALSE]
    <3>1. tc.pos \in 1..3 /\ tc.pos < 3 /\ tc.pos + 1 \in 1..3
      BY <2>1, <2>2, <1>1 DEF Controllers
    <3>2. tc' = [tc EXCEPT !.pos = tc.pos + 1, !.polled = no]
      BY <2>2, Zenon
    <3> DEFINE q == tc.pos + 1
    <3> HIDE DEF no, q
    <3>3. q \in 1..3 /\ no \in BOOLEAN /\ tc \in Controllers
      BY <3>1, <2>4, <1>1 DEF q
    <3>4. tc' = [tc EXCEPT !.pos = q, !.polled = no]
      BY <3>2 DEF q
    <3>5. tc' \in Controllers /\ tc'.inst = tc.inst /\ tc'.pos = q /\ tc'.polled = no
      BY <3>3, <3>4 DEF Controllers
    <3>6. ~tc'.polled
      BY <2>4, <3>5, Zenon
    <3> QED BY <3>1, <3>5, <3>6, Zenon DEF q
  <2>3. CASE tc.pos = Len(Positions) /\ tc' = [tc EXCEPT !.inst = @ + 1, !.pos = 1, !.polled = FALSE]
    <3>1. tc.pos = 3 /\ tc.inst \in Nat /\ tc.inst + 1 \in Nat /\ 1 \in 1..3
      BY <2>1, <2>3, <1>1 DEF Controllers
    <3>2. tc' = [tc EXCEPT !.inst = tc.inst + 1, !.pos = 1, !.polled = no]
      BY <2>3, Zenon
    <3> DEFINE j == tc.inst + 1
    <3> HIDE DEF no, j
    <3>3. j \in Nat /\ 1 \in 1..3 /\ no \in BOOLEAN /\ tc \in Controllers
      BY <3>1, <2>4, <1>1 DEF j
    <3>4. tc' = [tc EXCEPT !.inst = j, !.pos = 1, !.polled = no]
      BY <3>2 DEF j
    <3>5. tc' \in Controllers /\ tc'.inst = j /\ tc'.pos = 1 /\ tc'.polled = no
      BY <3>3, <3>4 DEF Controllers
    <3>6. ~tc'.polled
      BY <2>4, <3>5, Zenon
    <3> QED BY <3>1, <3>5, <3>6, Zenon DEF j
  <2> QED BY <2>2, <2>3 DEF Advance
<1>3. TypeInv'
  BY <1>2 DEF Advance, BufferInv, TypeInv, BufferOK
<1>4. ReportInv'
  BY <1>1, <1>2 DEF Advance, BufferInv, TypeInv, ReportInv
<1>5. ASSUME ~disturbed PROVE PriorInv'
  BY <1>1, <1>2, <1>5 DEF Advance, BufferInv, OrderInv, PriorInv, TypeInv
<1>6. ASSUME ~disturbed PROVE PollInv'
  <2>1. PollInv
    BY <1>6 DEF BufferInv, OrderInv
  <2>2. ASSUME poll.at \in {"lock", "compensate", "send"}, poll.step = 1, poll.sec > 1
        PROVE  tc'.inst = tc.inst /\ tc'.pos = 2
    <3>1. tc.pos \in {1, 2} /\ status.sec > 1
      BY <2>1, <2>2 DEF PollInv
    <3>2. tc.pos # 2
      BY <3>1, <1>1 DEF SecAt, Positions
    <3> QED BY <3>1, <3>2, <1>2
  <2> QED BY <2>1, <2>2 DEF PollInv, Advance
<1>7. ASSUME ~disturbed PROVE CommandInv' /\ PlaceInv' /\ SentForItsPhase'
  BY <1>7 DEF Advance, BufferInv, OrderInv, CommandInv, ForMeant, Meant, PlaceInv, Oldest,
              SentForItsPhase
<1> QED BY <1>3, <1>4, <1>5, <1>6, <1>7 DEF Advance, BufferInv, OrderInv

LEMMA ReportBufferInv == ASSUME BufferInv, packet_5FCC PROVE BufferInv'
<1> DEFINE f == PhaseOf(tc.inst)
<1>1. /\ tc \in Controllers
      /\ tc.inst \in Nat \ {0} /\ status.inst \in Nat /\ cycle_index \in Slots
      /\ status.inst \in {tc.inst - 1, tc.inst}
  BY DEF BufferInv, TypeInv, ReportInv, Controllers
<1>2. f \in PhaseIDs
  BY <1>1, InstanceParts
<1>3. /\ status'.phase = f /\ status'.inst = tc.inst
      /\ status' \in [phase : 0..N, step : {0, 1, 4}, sec : Nat, dynamic : BOOLEAN, inst : Nat]
      /\ status'.step \in {1, 4}
  <2>1. status' = [phase |-> f, step |-> StepAt(Positions[tc.pos]),
                   sec |-> SecAt(Positions[tc.pos], f),
                   dynamic |-> tc.dynamic, inst |-> tc.inst]
    BY DEF packet_5FCC
  <2>2. StepAt(Positions[tc.pos]) \in {1, 4} /\ SecAt(Positions[tc.pos], f) \in Nat
    BY <1>2, PlanFacts DEF StepAt, SecAt
  <2>3. ASSUME NEW s \in {1, 4}, NEW sec \in Nat, NEW d \in BOOLEAN, NEW i \in Nat
        PROVE  [phase |-> f, step |-> s, sec |-> sec, dynamic |-> d, inst |-> i] \in
                    [phase : 0..N, step : {0, 1, 4}, sec : Nat, dynamic : BOOLEAN, inst : Nat]
    BY <1>2, PlanFacts
  <2>4. tc.dynamic \in BOOLEAN /\ tc.inst \in Nat
    BY <1>1 DEF Controllers
  <2> HIDE DEF f
  <2> QED BY <2>1, <2>2, <2>3, <2>4
<1>4. cycle_index' = CycleOf(tc.inst) % CYCLE_NUM
  <2>1. cycle_index' = IF f < status.phase THEN (cycle_index + 1) % CYCLE_NUM ELSE cycle_index
    BY DEF packet_5FCC
  <2>2. CASE status.inst = tc.inst
    BY <2>1, <2>2, <1>1, <1>2, PlanFacts DEF BufferInv, ReportInv
  <2>3. CASE status.inst = 0
    BY <2>1, <2>3, <1>1, <1>2, PlanFacts, FirstInstance DEF BufferInv, ReportInv
  <2>4. CASE status.inst # 0 /\ tc.inst = status.inst + 1
    <3> DEFINE i == status.inst
    <3>1. /\ i \in Nat \ {0} /\ status.phase = PhaseOf(i)
          /\ cycle_index = CycleOf(i) % CYCLE_NUM
      BY <1>1, <2>4 DEF BufferInv, ReportInv
    <3>2. CycleOf(i) \in Nat /\ PhaseOf(i) \in 1..N
      BY <3>1, InstanceParts, PlanFacts
    <3>3. (cycle_index + 1) % CYCLE_NUM = (CycleOf(i) + 1) % CYCLE_NUM
      <4>1. CYCLE_NUM \in Nat \ {0} /\ 1 \in 0..(CYCLE_NUM - 1)
        BY PlanFacts
      <4>2. ((CycleOf(i) % CYCLE_NUM) + 1) % CYCLE_NUM = (CycleOf(i) + 1) % CYCLE_NUM
        BY <3>2, <4>1, RingAdd
      <4> QED BY <3>1, <4>2
    <3>4. \/ PhaseOf(i) < N /\ f = PhaseOf(i) + 1 /\ CycleOf(tc.inst) = CycleOf(i)
          \/ PhaseOf(i) = N /\ f = 1 /\ CycleOf(tc.inst) = CycleOf(i) + 1
      BY <3>1, <2>4, NextInstance
    <3> HIDE DEF f
    <3>5. CASE PhaseOf(i) < N /\ f = PhaseOf(i) + 1 /\ CycleOf(tc.inst) = CycleOf(i)
      <4>1. ~(f < status.phase)
        BY <3>1, <3>2, <3>5, PlanFacts
      <4> QED BY <2>1, <3>1, <3>5, <4>1
    <3>6. CASE PhaseOf(i) = N /\ f = 1 /\ CycleOf(tc.inst) = CycleOf(i) + 1
      <4>1. f < status.phase
        BY <3>1, <3>6, PlanFacts
      <4> QED BY <2>1, <3>3, <3>6, <4>1
    <3> QED BY <3>4, <3>5, <3>6
  <2> QED BY <2>2, <2>3, <2>4, <1>1
<1>5. cycle_index' \in Slots
  BY <1>1, <1>4, InstanceParts, PlanFacts, DivMod
<1> HIDE DEF f
<1>6. TypeInv'
  <2>1. disturbed' \in BOOLEAN
    BY DEF packet_5FCC
  <2>2. status'.inst # 0
    BY <1>1, <1>3
  <2>3. UNCHANGED <<command_buf, prior, tc, poll, ask, lock, active, sent>>
    BY DEF packet_5FCC
  <2> QED BY <1>3, <1>5, <2>1, <2>2, <2>3 DEF BufferInv, TypeInv, BufferOK
<1>7. ReportInv'
  BY <1>1, <1>3, <1>4 DEF packet_5FCC, f, ReportInv
<1>8. ASSUME ~disturbed' PROVE OrderInv'
  <2>1. ~disturbed /\ poll.at = "idle" /\ \A a \in Apps : ask[a] = NoAsk
    BY <1>8 DEF packet_5FCC, NothingAsked, BufferInv, TypeInv
  <2>2. PriorInv' /\ PollInv' /\ CommandInv' /\ SentForItsPhase'
    BY <2>1, <1>1, <1>3 DEF packet_5FCC, BufferInv, OrderInv, PriorInv, PollInv, CommandInv,
                            SentForItsPhase, TypeInv
  <2>3. ASSUME NEW c \in Slots, NEW p \in PhaseIDs,
               PlacedIn(command_buf[c][p], c, p, prior.inst, status.inst),
               command_buf[c][p].for \in Int
        PROVE  PlacedIn(command_buf[c][p], c, p, prior.inst, tc.inst)
    <3>1. CASE command_buf[c][p].app = "none"
      BY <3>1 DEF PlacedIn
    <3>2. CASE command_buf[c][p].app # "none"
      <4>1. status.inst >= 1 /\ command_buf[c][p].for \in Nat \ {0}
        BY <2>3, <3>2 DEF PlacedIn
      <4>2. CycleOf(status.inst) <= CycleOf(tc.inst)
        BY <4>1, <1>1, LaterCycle
      <4>3. CycleOf(status.inst) \in Nat /\ CycleOf(tc.inst) \in Nat
        <5>1. status.inst \in Nat \ {0}
          BY <4>1, <1>1
        <5> QED BY <5>1, <1>1, InstanceParts
      <4>4. CycleOf(command_buf[c][p].for) \in Nat
        BY <4>1, InstanceParts
      <4>5. CycleOf(command_buf[c][p].for) < CycleOf(status.inst) + CYCLE_NUM
        BY <2>3, <3>2 DEF PlacedIn
      <4>6. CycleOf(command_buf[c][p].for) < CycleOf(tc.inst) + CYCLE_NUM
        BY <4>2, <4>3, <4>4, <4>5, PlanFacts
      <4> QED BY <2>3, <3>2, <4>6, <1>1 DEF PlacedIn
    <3> QED BY <3>1, <3>2
  <2>4. ASSUME NEW c \in Slots, NEW p \in PhaseIDs
        PROVE  PlacedIn(command_buf[c][p], c, p, prior.inst, tc.inst)
    <3>1. PlacedIn(command_buf[c][p], c, p, prior.inst, status.inst)
      BY <2>1 DEF BufferInv, OrderInv, PlaceInv, Oldest
    <3>2. command_buf[c][p].for \in Int
      BY DEF BufferInv, TypeInv, BufferOK, SlotRecords
    <3> QED BY <3>1, <3>2, <2>3
  <2>5. PlaceInv'
    BY <2>1, <2>4, <1>3 DEF packet_5FCC, PlaceInv, Oldest
  <2> QED BY <2>2, <2>5 DEF OrderInv
<1> QED BY <1>6, <1>7, <1>8 DEF BufferInv

-----------------------------------------------------------------------------
(* The steps of the polling thread.                                         *)

\* Undisturbed, the polling thread is at most one instance behind.
LEMMA PriorFacts ==
    ASSUME BufferInv, ~disturbed, poll.at # "idle"
    PROVE  /\ poll.inst = status.inst /\ poll.phase = status.phase
           /\ status.inst \in Nat \ {0} /\ prior.inst \in Nat \ {0}
           /\ prior.inst \in {status.inst - 1, status.inst}
           /\ status.phase = PhaseOf(status.inst) /\ prior.phase = PhaseOf(prior.inst)
           /\ cycle_index = CycleOf(status.inst) % CYCLE_NUM
           /\ prior.cycle = CycleOf(prior.inst) % CYCLE_NUM
           /\ CycleOf(status.inst) \in Nat /\ CycleOf(prior.inst) \in Nat
<1>1. /\ poll.inst = status.inst /\ poll.phase = status.phase
      /\ status.inst \in Nat \ {0} /\ prior.inst \in Nat \ {0}
      /\ prior.inst \in {status.inst - 1, status.inst}
  BY DEF BufferInv, TypeInv, ReportInv, OrderInv, PriorInv, PollInv, Controllers
<1>2. /\ status.phase = PhaseOf(status.inst) /\ prior.phase = PhaseOf(prior.inst)
      /\ cycle_index = CycleOf(status.inst) % CYCLE_NUM
      /\ prior.cycle = CycleOf(prior.inst) % CYCLE_NUM
  BY <1>1 DEF BufferInv, ReportInv, OrderInv, PriorInv
<1>3. CycleOf(status.inst) \in Nat /\ CycleOf(prior.inst) \in Nat
  BY <1>1, InstanceParts
<1> QED BY <1>1, <1>2, <1>3

\* While the buffer's commands and the report stay, they are in their places
\* as long as the oldest instance does.
LEMMA SameCommands ==
    ASSUME PlaceInv, status' = status, Oldest' = Oldest,
           \A c \in Slots, p \in PhaseIDs :
              command_buf'[c][p].app # "none" =>
                 /\ command_buf[c][p].app # "none"
                 /\ command_buf'[c][p].for = command_buf[c][p].for
    PROVE  PlaceInv'
BY DEF PlaceInv, PlacedIn

\* Each step of the polling thread keeps the invariant.
LEMMA PollStartInv == ASSUME BufferInv, PollStart PROVE BufferInv'
<1>1. /\ poll.at = "idle" /\ status.phase # 0 /\ status.inst = tc.inst
      /\ status.inst \in Nat \ {0} /\ status.step \in {1, 4} /\ status.sec \in Nat
      /\ status.phase \in 1..N /\ prior \in [cycle : Slots, phase : 0..N, inst : Nat]
  BY DEF PollStart, StatusIsCurrent, BufferInv, TypeInv, ReportInv
<1>2. ReportInv'
  BY DEF PollStart, BufferInv, ReportInv
<1>3. CASE prior.phase = 0
  <2>1. /\ prior'.phase = status.phase /\ prior'.inst = status.inst
        /\ prior'.cycle = prior.cycle /\ poll' = poll
        /\ prior' \in [cycle : Slots, phase : 0..N, inst : Nat]
    <3>1. /\ prior' = [prior EXCEPT !.phase = status.phase, !.inst = status.inst]
          /\ poll' = poll
      BY <1>3, Zenon DEF PollStart
    <3>2. status.phase \in 0..N /\ status.inst \in Nat
      BY <1>1, PlanFacts
    <3> QED BY <1>1, <3>1, <3>2
  <2>2. TypeInv'
    BY <1>1, <2>1 DEF PollStart, BufferInv, TypeInv, BufferOK
  <2>3. ASSUME ~disturbed PROVE OrderInv'
    <3>1. prior.inst = 0
      <4>1. SUFFICES ASSUME prior.inst # 0 PROVE FALSE
        OBVIOUS
      <4>2. prior.inst \in Nat \ {0} /\ prior.phase = PhaseOf(prior.inst)
        BY <1>1, <2>3, <4>1 DEF BufferInv, OrderInv, PriorInv
      <4>3. PhaseOf(prior.inst) \in PhaseIDs
        BY <4>2, InstanceParts
      <4> QED BY <1>3, <4>2, <4>3, PlanFacts
    <3>2. prior.cycle = 0 /\ tc.inst = 1 /\ status.inst = 1
      BY <1>1, <2>3, <3>1 DEF BufferInv, OrderInv, PriorInv
    <3>3. PriorInv'
      <4>1. status.phase = PhaseOf(1)
        BY <3>2 DEF BufferInv, ReportInv
      <4> QED BY <2>1, <3>2, <4>1, FirstInstance DEF PollStart, PriorInv
    <3>4. PollInv' /\ CommandInv' /\ SentForItsPhase'
      BY <1>1, <2>1, <2>3 DEF PollStart, BufferInv, OrderInv, PollInv, CommandInv, ForMeant,
                              Meant, SentForItsPhase
    <3>5. PlaceInv'
      BY <1>1, <2>1, <2>3, <3>1, <3>2
         DEF PollStart, BufferInv, OrderInv, PlaceInv, PlacedIn, Oldest
    <3> QED BY <3>3, <3>4, <3>5 DEF OrderInv
  <2> QED BY <1>2, <2>2, <2>3 DEF PollStart, BufferInv
<1>4. CASE prior.phase # 0
  <2>1. /\ poll' = [at |-> "lock", phase |-> status.phase, step |-> status.step,
                    sec |-> status.sec, inst |-> status.inst]
        /\ prior' = prior
    BY <1>4 DEF PollStart
  <2>2. poll' \in PollRecords
    BY <1>1, <2>1, PlanFacts DEF PollRecords
  <2>3. TypeInv'
    BY <1>1, <1>4, <2>1, <2>2 DEF PollStart, BufferInv, TypeInv, BufferOK
  <2>4. ASSUME ~disturbed PROVE OrderInv'
    <3>1. PriorInv'
      BY <1>4, <2>1, <2>4 DEF PollStart, BufferInv, OrderInv, PriorInv
    <3>2. PollInv'
      <4>1. status.step = 1 => tc.pos \in {1, 2}
        BY DEF PollStart, StatusIsCurrent, StepAt, Positions, BufferInv, TypeInv, Controllers
      <4> QED BY <1>1, <2>1, <4>1 DEF PollStart, PollInv
    <3>3. CommandInv' /\ SentForItsPhase'
      BY <1>1, <2>1, <2>4 DEF PollStart, BufferInv, OrderInv, CommandInv, ForMeant,
                              Meant, SentForItsPhase
    <3>4. Oldest' = Oldest
      BY <1>1, <2>1 DEF Oldest
    <3>5. PlaceInv'
      BY <2>4, <3>4 DEF PollStart, BufferInv, OrderInv, PlaceInv
    <3> QED BY <3>1, <3>2, <3>3, <3>5 DEF OrderInv
  <2> QED BY <1>2, <2>3, <2>4 DEF PollStart, BufferInv
<1> QED BY <1>3, <1>4

\* The slots a clearing writes are slots of the buffer.
LEMMA BeforeClearing ==
    ASSUME BufferInv, poll.at \in {"lock", "compensate"}
    PROVE  /\ poll.phase \in PhaseIDs /\ poll.sec \in Nat /\ prior.cycle \in Slots
           /\ prior.phase \in PhaseIDs /\ cycle_index \in Slots /\ BufferOK
<1>1. poll.phase \in PhaseIDs /\ poll.sec \in Nat
  BY PollShape DEF BufferInv, PollRecords, CompensateRecords
<1> QED BY <1>1, PlanFacts DEF BufferInv, TypeInv

\* What is left after the clearing is of the running instance, or later.
LEMMA ClearedPlace ==
    ASSUME BufferInv, ~disturbed, poll.at \in {"lock", "compensate"}, ClearPrior,
           status' = status, poll'.at = "send", poll'.inst = poll.inst
    PROVE  PlaceInv'
<1>1. /\ poll.phase \in PhaseIDs /\ poll.sec \in Nat /\ prior.cycle \in Slots
      /\ prior.phase \in PhaseIDs /\ cycle_index \in Slots /\ BufferOK
  BY BeforeClearing
<1>2. \A c \in Slots, p \in PhaseIDs :
         command_buf'[c][p].app # "none" =>
             /\ command_buf[c][p].app # "none"
             /\ command_buf'[c][p].for = command_buf[c][p].for
             /\ c # prior.cycle \/ p # prior.phase
  BY <1>1, Cleared
<1>3. /\ poll.inst = status.inst /\ status.inst \in Nat \ {0} /\ prior.inst \in Nat \ {0}
      /\ prior.inst \in {status.inst - 1, status.inst}
      /\ prior.phase = PhaseOf(prior.inst) /\ prior.cycle = CycleOf(prior.inst) % CYCLE_NUM
  BY PriorFacts
<1>4. Oldest = prior.inst /\ Oldest' = poll.inst
  BY DEF Oldest
<1>5. ASSUME NEW c \in Slots, NEW p \in PhaseIDs, command_buf'[c][p].app # "none"
      PROVE  PlacedIn(command_buf'[c][p], c, p, poll.inst, status.inst)
  <2> DEFINE for == command_buf[c][p].for
  <2>1. /\ command_buf'[c][p].for = for /\ command_buf[c][p].app # "none"
        /\ c # prior.cycle \/ p # prior.phase
    BY <1>2, <1>5
  <2>2. /\ for >= prior.inst /\ for >= 1 /\ status.inst >= 1
        /\ PhaseOf(for) = p /\ CycleOf(for) % CYCLE_NUM = c
        /\ CycleOf(for) < CycleOf(status.inst) + CYCLE_NUM
    BY <1>4, <2>1 DEF BufferInv, OrderInv, PlaceInv, PlacedIn
  <2>3. for \in Int
    BY <1>1 DEF BufferOK, SlotRecords
  <2>4. for # prior.inst
    BY <1>3, <2>1, <2>2
  <2> HIDE DEF for
  <2>5. for >= poll.inst
    BY <1>3, <2>2, <2>3, <2>4
  <2> QED BY <2>1, <2>2, <2>5 DEF PlacedIn
<1>6. ASSUME NEW c \in Slots, NEW p \in PhaseIDs
      PROVE  PlacedIn(command_buf'[c][p], c, p, poll.inst, status.inst)
  BY <1>5 DEF PlacedIn
<1> QED BY <1>4, <1>6 DEF PlaceInv

LEMMA PollLockInv == ASSUME BufferInv, PollLock PROVE BufferInv'
<1>1. /\ poll.at = "lock" /\ poll \in PollRecords /\ poll.phase \in PhaseIDs
      /\ prior.phase \in PhaseIDs /\ prior.cycle \in Slots /\ cycle_index \in Slots
      /\ poll.sec \in Nat /\ BufferOK
  <2>1. poll.at = "lock" /\ poll \in PollRecords
    BY PollShape DEF PollLock, BufferInv
  <2> QED BY <2>1, PlanFacts DEF PollRecords, BufferInv, TypeInv
<1>2. /\ poll' \in PollRecords /\ poll'.at = "send" /\ poll'.phase = poll.phase
      /\ poll'.step = poll.step /\ poll'.sec = poll.sec /\ poll'.inst = poll.inst
  BY <1>1 DEF PollLock, PollRecords
<1>3. BufferOK'
  <2>1. CASE Crossing
    BY <1>1, <2>1, Cleared DEF PollLock
  <2>2. CASE ~Crossing
    BY <1>1, <2>2 DEF PollLock, BufferOK
  <2> QED BY <2>1, <2>2
<1>4. TypeInv'
  BY <1>1, <1>2, <1>3 DEF PollLock, BufferInv, TypeInv
<1>5. ReportInv'
  BY DEF PollLock, BufferInv, ReportInv
<1>6. ASSUME ~disturbed PROVE OrderInv'
  <2>1. PriorInv' /\ PollInv' /\ CommandInv' /\ SentForItsPhase'
    <3>1. PriorInv'
      BY <1>1, <1>2, <1>6 DEF PollLock, BufferInv, OrderInv, PriorInv
    <3>2. PollInv'
      BY <1>1, <1>2, <1>6 DEF PollLock, BufferInv, OrderInv, PollInv
    <3>3. CommandInv' /\ SentForItsPhase'
      BY <1>2, <1>6 DEF PollLock, BufferInv, OrderInv, CommandInv, ForMeant, Meant,
                        SentForItsPhase
    <3> QED BY <3>1, <3>2, <3>3
  <2>2. PlaceInv'
    <3>1. CASE Crossing
      BY <1>1, <1>2, <1>6, <3>1, ClearedPlace DEF PollLock
    <3>2. CASE ~Crossing
      <4>1. prior.inst = poll.inst
        <5>1. /\ poll.inst = status.inst /\ poll.phase = status.phase
              /\ status.inst \in Nat \ {0} /\ prior.inst \in Nat \ {0}
              /\ prior.inst \in {status.inst - 1, status.inst}
              /\ status.phase = PhaseOf(status.inst) /\ prior.phase = PhaseOf(prior.inst)
          BY <1>1, <1>6, PriorFacts
        <5>2. CASE prior.inst = status.inst - 1
          <6>1. status.inst = prior.inst + 1
            BY <5>1, <5>2
          <6>2. PhaseOf(prior.inst) \in 1..N
            BY <5>1, InstanceParts, PlanFacts
          <6>3. PhaseOf(prior.inst + 1) # PhaseOf(prior.inst)
            <7> DEFINE i == prior.inst
            <7>1. i \in Nat \ {0} /\ PhaseOf(i) \in 1..N
              BY <5>1, <6>2
            <7> HIDE DEF i
            <7>2. PhaseOf(i + 1) = PhaseOf(i) + 1 \/ (PhaseOf(i) = N /\ PhaseOf(i + 1) = 1)
              BY <7>1, NextInstance
            <7>3. PhaseOf(i + 1) # PhaseOf(i)
              BY <7>1, <7>2, PlanFacts
            <7> QED BY <7>3 DEF i
          <6> QED BY <3>2, <5>1, <6>1, <6>3 DEF Crossing
        <5> QED BY <5>1, <5>2
      <4>2. Oldest' = Oldest /\ command_buf' = command_buf /\ status' = status
        BY <1>1, <1>2, <3>2, <4>1 DEF PollLock, Oldest
      <4> QED BY <1>6, <4>2 DEF BufferInv, OrderInv, PlaceInv
    <3> QED BY <3>1, <3>2
  <2> QED BY <2>1, <2>2 DEF OrderInv
<1> QED BY <1>4, <1>5, <1>6 DEF PollLock, BufferInv

\* The commands a compensation gives are commands for phases of the plan, and
\* meant for the instances they are addressed to.
LEMMA CompensationTyped ==
    ASSUME TypeInv, status.inst # 0, ReportInv,
           NEW given \in [PhaseIDs -> Compensations \cup {0}]
    PROVE  /\ CompensationCommands(given) \in Seq(Commands)
           /\ \A k \in DOMAIN CompensationCommands(given) :
                 LET c == CompensationCommands(given)[k] IN c.for = Meant(c.cycle, c.phase)
<1> DEFINE s == [plan |-> Plan, SubPhaseID |-> status.phase, StepID |-> status.step,
                 StepSec |-> status.sec]
           first == FirstPhase(s, given)
           wanted == {k \in PhasesOf(s) :
                         \/ 0 < 1 - 1
                         \/ \E j \in k..Count(s) : given[Visit(s, first, j)] # 0}
           n == Cardinality(wanted)
           R == [cycle : Slots, phase : PhaseIDs, effect : Int]
           commands == [k \in 1..n |->
                [cycle  |-> VisitCycle(s, first, 0, k),
                 phase  |-> Visit(s, first, k),
                 effect |-> s.plan[Visit(s, first, k)].PreGreen + given[Visit(s, first, k)]]]
<1>1. Count(s) = N /\ PhasesOf(s) = 1..N /\ s.plan = Plan /\ s.SubPhaseID = status.phase
  BY DEF Count, PhasesOf, N
<1>2. status.phase \in 1..N
  BY InstanceParts, PlanFacts DEF TypeInv, ReportInv
<1>3. CommandsOf(s, given, 0, 1) = commands
  BY DEF CommandsOf
<1>4. n \in Nat
  <2>1. wanted \subseteq 1..N
    BY <1>1
  <2>2. IsFiniteSet(1..N)
    BY PlanFacts, FS_Interval
  <2>3. IsFiniteSet(wanted)
    BY <2>1, <2>2, FS_Subset
  <2> HIDE DEF wanted
  <2> QED BY <2>3, FS_CardinalityType
<1>5. first \in 1..N
  <2>1. first = status.phase \/ first = (status.phase % N) + 1
    BY <1>1 DEF FirstPhase
  <2> HIDE DEF first
  <2>2. status.phase % N \in 0..(N - 1)
    <3> DEFINE f == status.phase
    <3>1. f \in Nat /\ N \in Nat \ {0}
      BY <1>2, PlanFacts
    <3> HIDE DEF f
    <3>2. f % N \in 0..(N - 1)
      BY <3>1, DivMod
    <3> QED BY <3>2 DEF f
  <2> QED BY <1>2, <2>1, <2>2, PlanFacts
<1> HIDE DEF n, wanted, first
<1>6. ASSUME NEW k \in 1..n
      PROVE  VisitCycle(s, first, 0, k) \in Slots /\ Visit(s, first, k) \in PhaseIDs
  <2>1. VisitCycle(s, first, 0, k) \in {0 % CYCLE_NUM, 1 % CYCLE_NUM}
    BY DEF VisitCycle
  <2>2. 0 % CYCLE_NUM \in Slots /\ 1 % CYCLE_NUM \in Slots
    BY PlanFacts, DivMod
  <2>3. Visit(s, first, k) = (((first + k) - 2) % N) + 1
    BY <1>1, <1>4, <1>5, PlanFacts DEF Visit
  <2> DEFINE a == (first + k) - 2
  <2>4. a \in Nat
    BY <1>4, <1>5, PlanFacts
  <2> HIDE DEF a
  <2>5. a % N \in 0..(N - 1)
    BY <2>4, PlanFacts, DivMod
  <2>6. (a % N) + 1 \in PhaseIDs
    BY <2>5, PlanFacts
  <2> QED BY <2>1, <2>2, <2>3, <2>6 DEF a
<1>7. ASSUME NEW k \in 1..n
      PROVE  commands[k] \in R
  <2> DEFINE v == Visit(s, first, k)
             w == VisitCycle(s, first, 0, k)
  <2>1. commands[k] = [cycle |-> w, phase |-> v, effect |-> Plan[v].PreGreen + given[v]]
    BY <1>1
  <2>2. w \in Slots /\ v \in PhaseIDs
    BY <1>6
  <2> HIDE DEF v, w, commands
  <2>3. given[v] \in Int /\ Plan[v].PreGreen \in Nat
    <3>1. Compensations \cup {0} \subseteq Int
      BY BufferAssumption
    <3>2. given[v] \in Compensations \cup {0}
      BY <2>2
    <3>3. Plan[v].PreGreen \in Nat
      BY <2>2, PlanFacts
    <3> QED BY <3>1, <3>2, <3>3
  <2> QED BY <2>1, <2>2, <2>3
<1>8. commands \in [1..n -> R] /\ Len(commands) = n
  <2>1. commands \in [1..n -> R]
    BY <1>7
  <2> HIDE DEF commands, R
  <2>2. commands \in Seq(R)
    BY <1>4, <2>1, SeqDef
  <2> QED BY <1>4, <2>1, <2>2, LenProperties
<1> HIDE DEF commands, s
<1> DEFINE todo == [k \in 1..n |->
            [app |-> "comp", host |-> "COMPENSATION", cycle |-> commands[k].cycle,
             phase |-> commands[k].phase, target |-> commands[k].phase,
             effect |-> Bounded(commands[k].phase, commands[k].effect),
             for |-> status.inst - status.phase + commands[k].cycle * N
                         + commands[k].phase]]
<1>9. CompensationCommands(given) = todo
  BY <1>3, <1>8 DEF CompensationCommands, s
<1>10. ASSUME NEW k \in 1..n
       PROVE  todo[k] \in Commands /\ todo[k].for = Meant(todo[k].cycle, todo[k].phase)
  <2> DEFINE v == commands[k].phase
             w == commands[k].cycle
             e == Bounded(v, commands[k].effect)
             m == Meant(w, v)
  <2>1. v \in PhaseIDs /\ w \in Slots /\ commands[k].effect \in Int
    BY <1>8
  <2>2. e \in Int /\ InLimits(v, e)
    BY <2>1, BoundedInLimits
  <2>3. m \in Int
    <3>1. status.inst \in Int /\ status.phase \in Int
      BY <1>2, PlanFacts DEF TypeInv
    <3>2. v \in Int /\ w \in Int /\ N \in Int
      BY <2>1, PlanFacts
    <3>3. m = status.inst - status.phase + w * N + v
      BY DEF Meant
    <3> HIDE DEF v, w, m
    <3>4. w * N \in Int
      BY <3>2
    <3> QED BY <3>1, <3>2, <3>3, <3>4
  <2>4. todo[k] = [app |-> "comp", host |-> "COMPENSATION", cycle |-> w, phase |-> v,
                   target |-> v, effect |-> e, for |-> m]
    BY DEF Meant
  <2> HIDE DEF todo, v, w, e, m
  <2>5. todo[k] \in Commands
    BY <2>1, <2>2, <2>3, <2>4 DEF Commands, Hosts
  <2>6. todo[k].for = m /\ todo[k].cycle = w /\ todo[k].phase = v
    BY <2>4
  <2> QED BY <2>5, <2>6 DEF m
<1>11. todo \in [1..n -> Commands] /\ DOMAIN todo = 1..n
  BY <1>10
<1> HIDE DEF todo
<1>12. todo \in Seq(Commands)
  BY <1>4, <1>11, SeqDef
<1> QED BY <1>9, <1>10, <1>11, <1>12

LEMMA PollResumeInv == ASSUME BufferInv, PollResume PROVE BufferInv'
<1>1. PICK given \in [PhaseIDs -> Compensations \cup {0}] :
         poll' = [at |-> "compensate", phase |-> poll.phase, step |-> poll.step,
                  sec |-> poll.sec, inst |-> poll.inst,
                  todo |-> CompensationCommands(given)]
  BY DEF PollResume
<1>2. /\ poll.at = "lock" /\ poll.phase \in PhaseIDs /\ poll.step \in {1, 4}
      /\ poll.sec \in Nat /\ poll.inst \in Nat /\ status.inst # 0 /\ prior.phase # 0
  <2>1. poll.at = "lock" /\ poll \in PollRecords
    BY PollShape DEF PollResume, BufferInv
  <2> QED BY <2>1 DEF PollRecords, BufferInv, TypeInv
<1> DEFINE todo == CompensationCommands(given)
<1>3. /\ todo \in Seq(Commands)
      /\ \A k \in DOMAIN todo : todo[k].for = Meant(todo[k].cycle, todo[k].phase)
  BY <1>2, CompensationTyped DEF BufferInv
<1> HIDE DEF todo
<1>4. /\ poll'.at = "compensate" /\ poll'.phase = poll.phase /\ poll'.step = poll.step
      /\ poll'.sec = poll.sec /\ poll'.inst = poll.inst /\ poll'.todo = todo
      /\ poll' \in CompensateRecords
  BY <1>1, <1>2, <1>3 DEF todo, CompensateRecords
<1>5. /\ UNCHANGED <<command_buf, cycle_index, prior, status, tc, ask, lock, active, sent>>
      /\ disturbed' \in BOOLEAN
      /\ disturbed' = (disturbed \/ \E k \in DOMAIN poll'.todo : poll'.todo[k].for < poll.inst)
  BY DEF PollResume
<1>6. TypeInv'
  BY <1>2, <1>4, <1>5 DEF BufferInv, TypeInv, BufferOK
<1>7. ReportInv'
  BY <1>5 DEF BufferInv, ReportInv
<1>8. ASSUME ~disturbed' PROVE OrderInv'
  <2>1. ~disturbed /\ \A k \in DOMAIN todo : ~(todo[k].for < poll.inst)
    BY <1>4, <1>5, <1>8
  <2>2. poll.inst = status.inst /\ status.inst \in Nat \ {0}
    BY <1>2, <2>1, PriorFacts
  <2>3. ASSUME NEW k \in DOMAIN todo
        PROVE  todo[k].for >= status.inst
    <3>1. todo[k] \in Commands
      BY <1>3, <2>3
    <3>2. todo[k].for \in Int
      BY <3>1 DEF Commands
    <3> QED BY <2>1, <2>2, <3>2
  <2>4. PriorInv' /\ PollInv'
    BY <1>2, <1>4, <1>5, <2>1 DEF BufferInv, OrderInv, PriorInv, PollInv
  <2>5. CommandInv'
    BY <1>3, <1>4, <1>5, <2>1, <2>2, <2>3 DEF BufferInv, OrderInv, CommandInv, ForMeant, Meant
  <2>6. PlaceInv' /\ SentForItsPhase'
    BY <1>2, <1>4, <1>5, <2>1 DEF BufferInv, OrderInv, PlaceInv, Oldest, SentForItsPhase
  <2> QED BY <2>4, <2>5, <2>6 DEF OrderInv
<1> QED BY <1>6, <1>7, <1>8 DEF BufferInv

LEMMA CompensateInv == ASSUME BufferInv, Compensate PROVE BufferInv'
<1> DEFINE todo == poll.todo
           first == Head(todo)
           rest == Tail(todo)
<1>1. /\ poll.at = "compensate" /\ poll \in CompensateRecords /\ todo # <<>>
      /\ poll' = [poll EXCEPT !.todo = rest] /\ InsertCommand(first)
      /\ UNCHANGED <<cycle_index, prior, status, tc, ask, lock, active, sent, disturbed>>
  BY PollShape DEF Compensate, BufferInv
<1>2. todo \in Seq(Commands)
  BY <1>1 DEF CompensateRecords
<1>3. /\ first \in Commands /\ rest \in Seq(Commands)
      /\ 1 \in DOMAIN todo /\ first = todo[1]
      /\ \A k \in DOMAIN rest : k + 1 \in DOMAIN todo /\ rest[k] = todo[k + 1]
  <2> DEFINE C == Commands
  <2>1. todo \in Seq(C) /\ todo # <<>>
    BY <1>1, <1>2
  <2> HIDE DEF todo, C
  <2>2. /\ first \in C /\ rest \in Seq(C)
        /\ 1 \in DOMAIN todo /\ first = todo[1]
        /\ \A k \in DOMAIN rest : k + 1 \in DOMAIN todo /\ rest[k] = todo[k + 1]
    BY <2>1
  <2> QED BY <2>2 DEF C
<1>4. /\ poll'.at = "compensate" /\ poll'.phase = poll.phase /\ poll'.step = poll.step
      /\ poll'.sec = poll.sec /\ poll'.inst = poll.inst /\ poll'.todo = rest
      /\ poll' \in CompensateRecords
  <2> HIDE DEF rest
  <2> QED BY <1>1, <1>3 DEF CompensateRecords
<1> HIDE DEF todo, first, rest
<1>5. BufferOK'
  BY <1>1, <1>3, Inserted DEF BufferInv, TypeInv
<1>6. TypeInv'
  BY <1>1, <1>4, <1>5 DEF BufferInv, TypeInv
<1>7. ReportInv'
  BY <1>1 DEF BufferInv, ReportInv
<1>8. ASSUME ~disturbed PROVE OrderInv'
  <2>1. \A k \in DOMAIN todo : ForMeant(todo[k])
    BY <1>1, <1>8 DEF BufferInv, OrderInv, CommandInv, todo
  <2>2. Oldest' = Oldest
    BY <1>1, <1>4 DEF Oldest
  <2>3. PlaceInv'
    BY <1>1, <1>3, <1>8, <2>1, <2>2, InsertedPlace
  <2>4. PriorInv' /\ PollInv' /\ SentForItsPhase'
    BY <1>1, <1>4, <1>8 DEF BufferInv, OrderInv, PriorInv, PollInv, SentForItsPhase
  <2>5. CommandInv'
    BY <1>1, <1>3, <1>4, <1>8, <2>1 DEF BufferInv, OrderInv, CommandInv, ForMeant, Meant
  <2> QED BY <2>3, <2>4, <2>5 DEF OrderInv
<1> QED BY <1>1, <1>6, <1>7, <1>8 DEF BufferInv

LEMMA PollRelockInv == ASSUME BufferInv, PollRelock PROVE BufferInv'
<1>1. /\ poll.at = "compensate" /\ poll \in CompensateRecords /\ ClearPrior
      /\ poll' = [at |-> "send", phase |-> poll.phase, step |-> poll.step,
                  sec |-> poll.sec, inst |-> poll.inst]
      /\ UNCHANGED <<cycle_index, prior, status, tc, ask, active, sent, disturbed>>
      /\ lock' = "poll"
  BY PollShape DEF PollRelock, BufferInv
<1>2. /\ poll.phase \in PhaseIDs /\ poll.sec \in Nat /\ poll.step \in {1, 4}
      /\ poll.inst \in Nat /\ prior.phase \in PhaseIDs /\ prior.cycle \in Slots
      /\ cycle_index \in Slots /\ BufferOK
  BY <1>1, PlanFacts DEF CompensateRecords, BufferInv, TypeInv
<1>3. /\ poll'.at = "send" /\ poll'.phase = poll.phase /\ poll'.step = poll.step
      /\ poll'.sec = poll.sec /\ poll'.inst = poll.inst /\ poll' \in PollRecords
  BY <1>1, <1>2 DEF PollRecords
<1>4. BufferOK'
  BY <1>1, <1>2, Cleared
<1>5. TypeInv'
  BY <1>1, <1>3, <1>4 DEF BufferInv, TypeInv
<1>6. ReportInv'
  BY <1>1 DEF BufferInv, ReportInv
<1>7. ASSUME ~disturbed PROVE OrderInv'
  <2>1. PlaceInv'
    BY <1>1, <1>3, <1>7, ClearedPlace
  <2>2. PriorInv' /\ PollInv'
    BY <1>1, <1>3, <1>7 DEF BufferInv, OrderInv, PriorInv, PollInv
  <2>3. CommandInv' /\ SentForItsPhase'
    BY <1>1, <1>3, <1>7 DEF BufferInv, OrderInv, CommandInv, ForMeant, Meant, SentForItsPhase
  <2> QED BY <2>1, <2>2, <2>3 DEF OrderInv
<1> QED BY <1>1, <1>5, <1>6, <1>7 DEF BufferInv

\* The controller while the polling thread writes to it.
LEMMA ControllerKept ==
    ASSUME TypeInv, tc' \in Controllers, tc'.inst = tc.inst, tc'.pos = tc.pos,
           tc'.polled = tc.polled, UNCHANGED <<cycle_index, status>>
    PROVE  /\ ReportInv => ReportInv'
           /\ (PriorInv /\ prior' = prior /\ poll.at # "idle") => PriorInv'
           /\ (/\ PollInv /\ poll.at # "idle" /\ poll'.at \in {"mark", "finish"}
               /\ poll'.inst = poll.inst /\ poll'.phase = poll.phase
               /\ poll'.step = poll.step /\ poll'.sec = poll.sec) => PollInv'
BY DEF ReportInv, PriorInv, PollInv

\* A step from sending or marking on, that keeps the report and every command.
LEMMA LaterPollStep ==
    ASSUME BufferInv, poll.at \in {"send", "mark"}, tc' \in Controllers,
           tc'.inst = tc.inst, tc'.pos = tc.pos, tc'.polled = tc.polled,
           UNCHANGED <<cycle_index, prior, status, ask, active, disturbed>>,
           lock' \in {"free", "poll"}, BufferOK',
           \A c \in Slots, p \in PhaseIDs :
              /\ command_buf'[c][p].app = command_buf[c][p].app
              /\ command_buf'[c][p].for = command_buf[c][p].for,
           sent' \in [for : Int, inst : Nat, effect : Int],
           ~disturbed => SentForItsPhase',
           NEW at \in {"mark", "finish"}, poll' = [poll EXCEPT !.at = at]
    PROVE  BufferInv'
<1>1. /\ poll'.at = at /\ poll'.phase = poll.phase /\ poll'.step = poll.step
      /\ poll'.sec = poll.sec /\ poll'.inst = poll.inst /\ poll' \in PollRecords
  BY PollShape DEF BufferInv, PollRecords
<1>2. TypeInv'
  BY <1>1 DEF BufferInv, TypeInv
<1>3. ReportInv'
  BY ControllerKept DEF BufferInv
<1>4. ASSUME ~disturbed PROVE OrderInv'
  <2>1. PriorInv' /\ PollInv'
    BY <1>1, <1>4, ControllerKept DEF BufferInv, OrderInv
  <2>2. Oldest' = Oldest
    BY <1>1 DEF Oldest
  <2>3. PlaceInv'
    BY <1>4, <2>2, SameCommands DEF BufferInv, OrderInv
  <2>4. CommandInv'
    BY <1>1, <1>4 DEF BufferInv, OrderInv, CommandInv, ForMeant, Meant
  <2> QED BY <1>4, <2>1, <2>3, <2>4 DEF OrderInv
<1> QED BY <1>2, <1>3, <1>4 DEF BufferInv

LEMMA PollStep4Inv == ASSUME BufferInv, PollStep4 PROVE BufferInv'
<1> DEFINE d == tc.dynamic /\ ~(BufferEmpty /\ pretimeflag)
<1>1. /\ poll.at = "send" /\ tc' = [tc EXCEPT !.dynamic = d]
      /\ UNCHANGED <<command_buf, cycle_index, prior, status, ask, active, sent, disturbed>>
      /\ lock' = (IF BufferEmpty THEN lock ELSE "free")
      /\ poll' = [poll EXCEPT !.at = "finish"]
  BY Zenon DEF PollStep4
<1>2. d \in BOOLEAN /\ tc \in Controllers
  BY DEF BufferInv, TypeInv
<1> HIDE DEF d
<1>3. /\ tc' \in Controllers /\ tc'.inst = tc.inst /\ tc'.pos = tc.pos
      /\ tc'.polled = tc.polled
  BY <1>1, <1>2 DEF Controllers
<1>4. lock' \in {"free", "poll"}
  BY <1>1 DEF BufferInv, TypeInv
<1>5. BufferOK' /\ (~disturbed => SentForItsPhase')
  BY <1>1 DEF BufferInv, TypeInv, BufferOK, OrderInv, SentForItsPhase
<1>6. sent' \in [for : Int, inst : Nat, effect : Int]
  BY <1>1 DEF BufferInv, TypeInv
<1>7. \A c \in Slots, p \in PhaseIDs :
         /\ command_buf'[c][p].app = command_buf[c][p].app
         /\ command_buf'[c][p].for = command_buf[c][p].for
  BY <1>1
<1> QED BY <1>1, <1>3, <1>4, <1>5, <1>6, <1>7, LaterPollStep

LEMMA PollIdleInv == ASSUME BufferInv, PollIdle PROVE BufferInv'
<1>1. /\ poll.at = "send" /\ poll' = [poll EXCEPT !.at = "finish"]
      /\ UNCHANGED <<command_buf, cycle_index, prior, status, tc, ask, lock, active, sent,
                     disturbed>>
  BY DEF PollIdle
<1>2. /\ tc' \in Controllers /\ tc'.inst = tc.inst /\ tc'.pos = tc.pos
      /\ tc'.polled = tc.polled
  BY <1>1 DEF BufferInv, TypeInv
<1>3. lock' \in {"free", "poll"} /\ sent' \in [for : Int, inst : Nat, effect : Int]
  BY <1>1 DEF BufferInv, TypeInv
<1>4. BufferOK' /\ (~disturbed => SentForItsPhase')
  BY <1>1 DEF BufferInv, TypeInv, BufferOK, OrderInv, SentForItsPhase
<1>5. \A c \in Slots, p \in PhaseIDs :
         /\ command_buf'[c][p].app = command_buf[c][p].app
         /\ command_buf'[c][p].for = command_buf[c][p].for
  BY <1>1
<1> QED BY <1>1, <1>2, <1>3, <1>4, <1>5, LaterPollStep

\* The command in the slot of the running phase is meant for it.
LEMMA SlotIsCurrent ==
    ASSUME BufferInv, ~disturbed, poll.at = "send",
           Ready(command_buf[cycle_index][poll.phase])
    PROVE  command_buf[cycle_index][poll.phase].for = tc.inst
<1> DEFINE slot == command_buf[cycle_index][poll.phase]
           for == slot.for
<1>1. /\ poll.inst = status.inst /\ poll.phase = status.phase
      /\ status.inst \in Nat \ {0} /\ status.phase = PhaseOf(status.inst)
      /\ cycle_index = CycleOf(status.inst) % CYCLE_NUM
  BY PriorFacts
<1>2. poll.phase \in PhaseIDs /\ cycle_index \in Slots
  BY PollShape DEF BufferInv, TypeInv, PollRecords
<1>3. slot.app # "none" /\ poll.step = 1 /\ poll.sec > 1
  BY DEF Ready
<1>4. tc.inst = poll.inst
  BY <1>3 DEF BufferInv, OrderInv, PollInv
<1>5. /\ for >= poll.inst /\ for >= 1
      /\ PhaseOf(for) = poll.phase /\ CycleOf(for) % CYCLE_NUM = cycle_index
      /\ CycleOf(for) < CycleOf(status.inst) + CYCLE_NUM
  <2>1. PlacedIn(slot, cycle_index, poll.phase, Oldest, status.inst)
    BY <1>2 DEF BufferInv, OrderInv, PlaceInv
  <2>2. Oldest = poll.inst
    BY DEF Oldest
  <2> HIDE DEF slot
  <2> QED BY <1>3, <2>1, <2>2 DEF PlacedIn
<1>6. for \in Int
  BY <1>2 DEF BufferInv, TypeInv, BufferOK, SlotRecords
<1> HIDE DEF for
<1>7. status.inst = for
  BY <1>1, <1>5, <1>6, SamePlace
<1> QED BY <1>1, <1>4, <1>7 DEF for

LEMMA PollSendInv == ASSUME BufferInv, PollSend PROVE BufferInv'
<1> DEFINE slot == command_buf[cycle_index][poll.phase]
           yes == TRUE
<1>1. /\ poll.at = "send" /\ poll' = [poll EXCEPT !.at = "mark"] /\ Ready(slot)
      /\ UNCHANGED <<command_buf, cycle_index, prior, status, ask, lock, active, disturbed>>
  BY DEF PollSend
<1>2. \/ tc' = tc /\ sent' = sent
      \/ /\ tc' = [tc EXCEPT !.dynamic = yes]
         /\ sent' = [for |-> slot.for, inst |-> tc.inst, effect |-> slot.effect]
  BY Zenon DEF PollSend, Send
<1>3. yes \in BOOLEAN /\ tc \in Controllers
  BY DEF BufferInv, TypeInv
<1> HIDE DEF yes
<1>4. poll.phase \in PhaseIDs /\ cycle_index \in Slots
  BY <1>1, PollShape DEF BufferInv, TypeInv, PollRecords
<1>5. slot.for \in Int /\ slot.effect \in Int /\ tc.inst \in Nat
  BY <1>3, <1>4 DEF BufferInv, TypeInv, BufferOK, SlotRecords, Controllers
<1>6. ~disturbed => slot.for = tc.inst
  BY <1>1, SlotIsCurrent
<1> HIDE DEF slot
<1>7. /\ tc' \in Controllers /\ tc'.inst = tc.inst /\ tc'.pos = tc.pos
      /\ tc'.polled = tc.polled
  BY <1>2, <1>3 DEF Controllers
<1>8. /\ sent' \in [for : Int, inst : Nat, effect : Int]
      /\ ~disturbed => SentForItsPhase'
  BY <1>2, <1>5, <1>6 DEF BufferInv, TypeInv, OrderInv, SentForItsPhase
<1>9. lock' \in {"free", "poll"} /\ BufferOK'
  BY <1>1 DEF BufferInv, TypeInv, BufferOK
<1>10. \A c \in Slots, p \in PhaseIDs :
          /\ command_buf'[c][p].app = command_buf[c][p].app
          /\ command_buf'[c][p].for = command_buf[c][p].for
  BY <1>1
<1> QED BY <1>1, <1>7, <1>8, <1>9, <1>10, LaterPollStep

\* The command that was sent is marked in its slot.
LEMMA MarkedSlots ==
    ASSUME BufferInv, PollMark
    PROVE  /\ BufferOK'
           /\ \A c \in Slots, p \in PhaseIDs :
                 /\ command_buf'[c][p].app = command_buf[c][p].app
                 /\ command_buf'[c][p].for = command_buf[c][p].for
<1> DEFINE k == cycle_index
           q == poll.phase
           old == command_buf[k][q]
           yes == TRUE
           x == [[old EXCEPT !.flag = yes] EXCEPT !.adjusted = old.effect]
<1>1. poll.at = "mark"
  BY DEF PollMark
<1>2. k \in Slots /\ q \in PhaseIDs /\ command_buf \in Buffers
  BY <1>1, PollShape DEF BufferInv, TypeInv, PollRecords, BufferOK, Buffers
<1>3. command_buf' = Put(command_buf, k, q, x)
  <2>1. command_buf' = [command_buf EXCEPT
            ![k][q].flag = TRUE,
            ![k][q].adjusted = old.effect]
    BY DEF PollMark
  <2> QED BY <1>2, <2>1 DEF Put, Buffers
<1>4. old \in SlotRecords /\ yes \in BOOLEAN
  BY <1>2 DEF Buffers
<1> HIDE DEF yes, old
<1>5. x \in SlotRecords /\ x.app = old.app /\ x.for = old.for /\ x.effect = old.effect
  BY <1>4 DEF SlotRecords
<1> HIDE DEF x, k, q
<1>6. /\ Put(command_buf, k, q, x) \in Buffers /\ Put(command_buf, k, q, x)[k][q] = x
      /\ \A c \in Slots, p \in PhaseIDs :
            (c # k \/ p # q) => Put(command_buf, k, q, x)[c][p] = command_buf[c][p]
  BY <1>2, <1>5, PutSlot
<1>7. ASSUME NEW c \in Slots, NEW p \in PhaseIDs
      PROVE  /\ command_buf'[c][p] \in SlotRecords
             /\ command_buf'[c][p].app = command_buf[c][p].app
             /\ command_buf'[c][p].for = command_buf[c][p].for
             /\ command_buf'[c][p].effect = command_buf[c][p].effect
  <2>1. CASE c = k /\ p = q
    BY <1>3, <1>5, <1>6, <2>1 DEF old
  <2>2. CASE c # k \/ p # q
    BY <1>2, <1>3, <1>6, <2>2 DEF Buffers
  <2> QED BY <2>1, <2>2
<1>8. BufferOK'
  <2>1. command_buf' \in Buffers
    BY <1>3, <1>6
  <2>2. ASSUME NEW c \in Slots, NEW p \in PhaseIDs
        PROVE  SlotOK(command_buf'[c][p], p)
    <3>1. SlotOK(command_buf[c][p], p)
      BY DEF BufferInv, TypeInv, BufferOK
    <3> QED BY <1>7, <3>1 DEF SlotOK
  <2> QED BY <2>1, <2>2 DEF BufferOK, Buffers
<1> QED BY <1>7, <1>8

LEMMA PollMarkInv == ASSUME BufferInv, PollMark PROVE BufferInv'
<1>1. /\ poll.at = "mark" /\ poll' = [poll EXCEPT !.at = "finish"]
      /\ UNCHANGED <<cycle_index, prior, status, tc, ask, lock, active, sent, disturbed>>
  BY DEF PollMark
<1>2. /\ tc' \in Controllers /\ tc'.inst = tc.inst /\ tc'.pos = tc.pos
      /\ tc'.polled = tc.polled
  BY <1>1 DEF BufferInv, TypeInv
<1>3. lock' \in {"free", "poll"} /\ sent' \in [for : Int, inst : Nat, effect : Int]
  BY <1>1 DEF BufferInv, TypeInv
<1>4. ~disturbed => SentForItsPhase'
  BY <1>1 DEF BufferInv, OrderInv, SentForItsPhase
<1> QED BY <1>1, <1>2, <1>3, <1>4, MarkedSlots, LaterPollStep

LEMMA PollFinishInv == ASSUME BufferInv, PollFinish PROVE BufferInv'
<1> DEFINE l == tc.polled \/ PolledCurrent
<1>1. /\ poll.at = "finish" /\ poll' = IdlePoll /\ lock' = "free"
      /\ prior' = [cycle |-> cycle_index, phase |-> poll.phase, inst |-> poll.inst]
      /\ tc' = [tc EXCEPT !.polled = l]
      /\ UNCHANGED <<command_buf, cycle_index, status, ask, active, sent, disturbed>>
  BY Zenon DEF PollFinish
<1>2. /\ poll.phase \in PhaseIDs /\ poll.inst \in Nat /\ cycle_index \in Slots
      /\ tc \in Controllers /\ l \in BOOLEAN /\ status.inst # 0
  BY <1>1, PollShape DEF BufferInv, TypeInv, PollRecords
<1>3. PolledCurrent => poll.inst = tc.inst
  BY DEF PolledCurrent
<1>4. l => tc.polled \/ poll.inst = tc.inst
  BY <1>3, Zenon
<1> HIDE DEF l
<1>5. /\ tc' \in Controllers /\ tc'.inst = tc.inst /\ tc'.pos = tc.pos /\ tc'.polled = l
  BY <1>1, <1>2 DEF Controllers
<1>6. poll'.at = "idle"
  BY <1>1 DEF IdlePoll
<1>7. prior' \in [cycle : Slots, phase : 0..N, inst : Nat]
  BY <1>1, <1>2, PlanFacts
<1>8. TypeInv'
  BY <1>1, <1>5, <1>6, <1>7 DEF BufferInv, TypeInv, BufferOK
<1>9. ReportInv'
  BY <1>1, <1>5 DEF BufferInv, ReportInv
<1>10. ASSUME ~disturbed PROVE OrderInv'
  <2>1. /\ poll.inst = status.inst /\ poll.phase = status.phase
        /\ status.inst \in Nat \ {0} /\ prior.inst \in Nat \ {0}
        /\ prior.inst \in {status.inst - 1, status.inst}
        /\ status.phase = PhaseOf(status.inst)
        /\ cycle_index = CycleOf(status.inst) % CYCLE_NUM
    BY <1>1, <1>10, PriorFacts
  <2>2. /\ prior'.inst = status.inst /\ prior'.phase = status.phase
        /\ prior'.cycle = cycle_index
    BY <1>1, <2>1
  <2>3. tc.inst - 1 <= status.inst /\ status.inst <= tc.inst /\ tc.inst \in Nat
    BY <1>2 DEF BufferInv, ReportInv, Controllers
  <2>4. tc.polled => prior.inst = tc.inst
    BY <1>10, <2>1 DEF BufferInv, OrderInv, PriorInv
  <2>5. l => status.inst = tc.inst
    BY <1>4, <2>1, <2>3, <2>4
  <2>6. PriorInv'
    BY <1>1, <1>5, <2>1, <2>2, <2>3, <2>5 DEF PriorInv
  <2>7. PollInv' /\ CommandInv' /\ SentForItsPhase'
    BY <1>1, <1>6, <1>10
       DEF BufferInv, OrderInv, PollInv, CommandInv, ForMeant, Meant, SentForItsPhase
  <2>8. Oldest' = Oldest
    BY <1>1, <1>6, <2>1, <2>2 DEF Oldest
  <2>9. PlaceInv'
    BY <1>1, <1>10, <2>8 DEF BufferInv, OrderInv, PlaceInv
  <2> QED BY <2>6, <2>7, <2>9 DEF OrderInv
<1> QED BY <1>1, <1>8, <1>9, <1>10 DEF BufferInv

-----------------------------------------------------------------------------
(* The steps of the applications.                                           *)

\* A command for a phase of the plan is asked for.
LEMMA Asked ==
    ASSUME BufferInv, status.phase # 0, NEW a \in Apps, NEW cmd \in Commands,
           ~disturbed => ForMeant(cmd), ask' = [ask EXCEPT ![a] = cmd],
           UNCHANGED <<cycle_index, prior, status, tc, poll, lock, sent, disturbed>>,
           active' \subseteq Apps, BufferOK',
           \A c \in Slots, p \in PhaseIDs :
              command_buf'[c][p].app # "none" =>
                 /\ command_buf[c][p].app # "none"
                 /\ command_buf'[c][p].for = command_buf[c][p].for
    PROVE  BufferInv'
<1>1. /\ ask' \in [Apps -> {NoAsk} \cup Commands]
      /\ ask'[a] = cmd /\ \A b \in Apps : b # a => ask'[b] = ask[b]
  BY DEF BufferInv, TypeInv
<1>2. TypeInv'
  BY <1>1 DEF BufferInv, TypeInv
<1>3. ReportInv'
  BY DEF BufferInv, ReportInv
<1>4. ASSUME ~disturbed PROVE OrderInv'
  <2>1. PriorInv' /\ PollInv' /\ SentForItsPhase'
    BY <1>4 DEF BufferInv, OrderInv, PriorInv, PollInv, SentForItsPhase
  <2>2. CommandInv'
    <3>1. \A b \in Apps : ask'[b] # NoAsk => ForMeant(ask'[b])
      BY <1>1, <1>4 DEF BufferInv, OrderInv, CommandInv
    <3> QED BY <1>4, <3>1 DEF BufferInv, OrderInv, CommandInv, ForMeant, Meant
  <2>3. Oldest' = Oldest
    BY DEF Oldest
  <2>4. PlaceInv'
    BY <1>4, <2>3, SameCommands DEF BufferInv, OrderInv
  <2> QED BY <2>1, <2>2, <2>4 DEF OrderInv
<1> QED BY <1>2, <1>3, <1>4 DEF BufferInv

\* The instance meant, for the commands of the applications.
LEMMA MeantTyped ==
    ASSUME TypeInv, status.phase # 0, NEW c \in Slots, NEW p \in PhaseIDs
    PROVE  Meant(c, p) \in Int
<1>1. /\ status.inst \in Int /\ status.phase \in Int /\ N \in Int /\ c \in Int /\ p \in Int
  BY PlanFacts DEF TypeInv
<1>2. c * N \in Int
  BY <1>1
<1>3. Meant(c, p) = status.inst - status.phase + c * N + p
  BY DEF Meant
<1> HIDE DEF Meant
<1> QED BY <1>1, <1>2, <1>3

\* A command with a bounded green is a command.
LEMMA Typed ==
    ASSUME NEW app \in Apps \cup {"comp"}, NEW host \in Hosts, NEW c \in Slots,
           NEW p \in PhaseIDs, NEW target \in PhaseIDs, NEW effect \in Int, NEW for \in Int
    PROVE  [app |-> app, host |-> host, cycle |-> c, phase |-> p, target |-> target,
            effect |-> Bounded(p, effect), for |-> for] \in Commands
<1> DEFINE e == Bounded(p, effect)
<1>1. e \in Int /\ InLimits(p, e)
  BY BoundedInLimits
<1> HIDE DEF e
<1>2. [app |-> app, host |-> host, cycle |-> c, phase |-> p, target |-> target,
       effect |-> e, for |-> for] \in Commands
  BY <1>1 DEF Commands
<1> QED BY <1>2 DEF e

\* A command of an application for the instance it means.
LEMMA AsksInv ==
    ASSUME BufferInv, status.phase # 0, NEW a \in Apps, NEW c \in Slots, NEW p \in PhaseIDs,
           NEW target \in PhaseIDs, NEW effect \in Int, Meant(c, p) >= status.inst,
           Asks(a, Command(a, c, p, target, effect))
    PROVE  BufferInv'
<1> DEFINE cmd == Command(a, c, p, target, effect)
           host == Host(a)
           m == Meant(c, p)
<1>1. m \in Int /\ host \in Hosts /\ a \in Apps \cup {"comp"}
  BY MeantTyped DEF BufferInv, Host, Hosts
<1>2. cmd = [app |-> a, host |-> host, cycle |-> c, phase |-> p, target |-> target,
             effect |-> Bounded(p, effect), for |-> m]
  BY DEF Command
<1>3. m >= status.inst
  OBVIOUS
<1> HIDE DEF host, m
<1>4. cmd \in Commands
  <2> HIDE DEF cmd
  <2> QED BY <1>1, <1>2, Typed
<1>5. cmd.for = m /\ cmd.cycle = c /\ cmd.phase = p
  BY <1>2
<1>6. status.inst >= 1
  BY DEF BufferInv, TypeInv, ReportInv
<1>7. /\ ask' = [ask EXCEPT ![a] = cmd]
      /\ UNCHANGED <<command_buf, cycle_index, prior, status, tc, poll, lock, sent, disturbed>>
      /\ active' = active \cup {a}
  BY DEF Asks
<1> HIDE DEF cmd
<1>8. ForMeant(cmd)
  BY <1>3, <1>5, <1>6 DEF ForMeant, m
<1>9. BufferOK' /\ active' \subseteq Apps
  BY <1>7 DEF BufferInv, TypeInv, BufferOK
<1>10. \A d \in Slots, r \in PhaseIDs :
          command_buf'[d][r].app # "none" =>
             /\ command_buf[d][r].app # "none"
             /\ command_buf'[d][r].for = command_buf[d][r].for
  BY <1>7
<1> QED BY <1>4, <1>7, <1>8, <1>9, <1>10, Asked

\* Each step of the applications keeps the invariant.
LEMMA AskEffectInv ==
    ASSUME BufferInv, NEW c \in Ahead, NEW p \in PhaseIDs, NEW target \in PhaseIDs,
           NEW effect \in Effects, AskEffect(c, p, target, effect)
    PROVE  BufferInv'
<1>1. c \in Slots /\ effect \in Int /\ "EVSP" \in Apps
  BY PlanFacts, BufferAssumption DEF Apps
<1>2. status.phase # 0 /\ Meant(c, p) >= status.inst
  BY DEF AskEffect
<1>3. Asks("EVSP", Command("EVSP", c, p, target, effect))
  BY DEF AskEffect
<1> QED BY <1>1, <1>2, <1>3, AsksInv

LEMMA AskAdjustmentInv ==
    ASSUME BufferInv, NEW c \in Ahead, NEW p \in PhaseIDs, NEW target \in PhaseIDs,
           NEW adjustment \in Adjustments, AskAdjustment(c, p, target, adjustment)
    PROVE  BufferInv'
<1> DEFINE k == (cycle_index + c) % CYCLE_NUM
           slot == command_buf[k][p]
           green == IF slot.adjusted = 0 THEN Plan[p].PreTimeCompensated ELSE slot.adjusted
           wanted == green + adjustment
           limited == IF wanted < Plan[p].MinGreen THEN Plan[p].MinGreen
                      ELSE IF wanted > Plan[p].MaxGreen THEN Plan[p].MaxGreen
                      ELSE wanted
<1>1. c \in Slots /\ adjustment \in Int /\ "TSP" \in Apps
  BY PlanFacts, BufferAssumption DEF Apps
<1>2. k \in Slots
  <2>1. cycle_index + c \in Nat
    BY <1>1, PlanFacts DEF BufferInv, TypeInv
  <2> QED BY <2>1, PlanFacts, DivMod
<1>3. status.phase # 0 /\ Meant(c, p) >= status.inst
  BY DEF AskAdjustment
<1>4. Asks("TSP", Command("TSP", c, p, target, limited))
  BY DEF AskAdjustment
<1> HIDE DEF k
<1>5. slot.adjusted \in Int
  BY <1>2 DEF BufferInv, TypeInv, BufferOK, SlotRecords
<1> HIDE DEF slot
<1>6. limited \in Int
  <2>1. /\ Plan[p].MinGreen \in Int /\ Plan[p].MaxGreen \in Int
        /\ Plan[p].PreTimeCompensated \in Int
    BY PlanFacts
  <2>2. green \in Int
    BY <1>5, <2>1
  <2> HIDE DEF green
  <2>3. wanted \in Int
    BY <1>1, <2>2
  <2> HIDE DEF wanted
  <2> QED BY <2>1, <2>3
<1> HIDE DEF limited
<1> QED BY <1>1, <1>3, <1>4, <1>6, AsksInv

LEMMA LeaveInv == ASSUME BufferInv, NEW a \in Apps, Leave(a) PROVE BufferInv'
<1> DEFINE f == status.phase
           cmd == [app |-> "comp", host |-> "RESUME", cycle |-> 0, phase |-> f,
                   target |-> f, effect |-> Bounded(f, Plan[f].PreGreen),
                   for |-> status.inst]
<1>1. /\ f # 0 /\ ask' = [ask EXCEPT ![a] = cmd]
      /\ UNCHANGED <<cycle_index, prior, status, tc, poll, lock, sent, disturbed>>
      /\ active' = active \ {a}
      /\ command_buf' = [c \in Slots |-> [p \in PhaseIDs |->
            IF command_buf[c][p].host = Host(a) THEN Empty ELSE command_buf[c][p]]]
  BY DEF Leave
<1>2. /\ f \in PhaseIDs /\ status.inst \in Nat \ {0} /\ Plan[f].PreGreen \in Int /\ 0 \in Slots
  <2>1. f \in PhaseIDs /\ status.inst \in Nat \ {0}
    BY <1>1, PlanFacts DEF BufferInv, TypeInv, ReportInv
  <2> HIDE DEF f
  <2> QED BY <2>1, PlanFacts
<1>3. cmd.for = status.inst /\ cmd.cycle = 0 /\ cmd.phase = f
  OBVIOUS
<1>4. cmd \in Commands
  <2>1. /\ "comp" \in Apps \cup {"comp"} /\ "RESUME" \in Hosts /\ status.inst \in Int
    BY <1>2 DEF Hosts
  <2> HIDE DEF f
  <2> QED BY <1>2, <2>1, Typed
<1> HIDE DEF cmd
<1>5. ForMeant(cmd)
  <2>1. Meant(0, f) = status.inst
    BY <1>2, PlanFacts DEF Meant
  <2> QED BY <1>2, <1>3, <2>1 DEF ForMeant
<1>6. ASSUME NEW c \in Slots, NEW p \in PhaseIDs
      PROVE  /\ SlotOK(command_buf'[c][p], p) /\ command_buf'[c][p] \in SlotRecords
             /\ command_buf'[c][p].app # "none" =>
                   /\ command_buf[c][p].app # "none"
                   /\ command_buf'[c][p].for = command_buf[c][p].for
  <2>1. command_buf'[c][p] \in {Empty, command_buf[c][p]}
    BY <1>1
  <2>2. SlotOK(command_buf[c][p], p) /\ SlotOK(Empty, p)
    BY EmptySlot DEF BufferInv, TypeInv, BufferOK
  <2> QED BY <2>1, <2>2, EmptySlot DEF SlotOK
<1>7. BufferOK'
  <2>1. command_buf' \in [Slots -> [PhaseIDs -> SlotRecords]]
    BY <1>1, EmptySlot DEF BufferInv, TypeInv, BufferOK
  <2> QED BY <1>6, <2>1 DEF BufferOK
<1>8. active' \subseteq Apps /\ status.phase # 0
  BY <1>1 DEF BufferInv, TypeInv
<1> QED BY <1>1, <1>4, <1>5, <1>6, <1>7, <1>8, Asked

LEMMA InsertAskedInv == ASSUME BufferInv, NEW a \in Apps, InsertAsked(a) PROVE BufferInv'
<1> DEFINE cmd == ask[a]
<1>1. /\ cmd # NoAsk /\ InsertCommand(cmd) /\ ask' = [ask EXCEPT ![a] = NoAsk]
      /\ UNCHANGED <<cycle_index, prior, status, tc, poll, lock, active, sent, disturbed>>
  BY DEF InsertAsked
<1>2. cmd \in Commands
  BY <1>1 DEF BufferInv, TypeInv
<1>3. BufferOK'
  <2> HIDE DEF cmd
  <2> QED BY <1>1, <1>2, Inserted DEF BufferInv, TypeInv
<1>4. /\ ask' \in [Apps -> {NoAsk} \cup Commands]
      /\ \A b \in Apps : ask'[b] # NoAsk => ask'[b] = ask[b]
  <2>1. ask \in [Apps -> {NoAsk} \cup Commands]
    BY DEF BufferInv, TypeInv
  <2> QED BY <1>1, <2>1
<1>5. TypeInv'
  BY <1>1, <1>3, <1>4 DEF BufferInv, TypeInv
<1>6. ReportInv'
  BY <1>1 DEF BufferInv, ReportInv
<1>7. ASSUME ~disturbed PROVE OrderInv'
  <2>1. ForMeant(cmd)
    BY <1>1, <1>7 DEF BufferInv, OrderInv, CommandInv
  <2>2. Oldest' = Oldest
    BY <1>1 DEF Oldest
  <2>3. PlaceInv'
    <3> HIDE DEF cmd
    <3> QED BY <1>1, <1>2, <1>7, <2>1, <2>2, InsertedPlace
  <2>4. PriorInv' /\ PollInv' /\ SentForItsPhase'
    BY <1>1, <1>7 DEF BufferInv, OrderInv, PriorInv, PollInv, SentForItsPhase
  <2>5. CommandInv'
    BY <1>1, <1>4, <1>7 DEF BufferInv, OrderInv, CommandInv, ForMeant, Meant
  <2> QED BY <2>3, <2>4, <2>5 DEF OrderInv
<1> QED BY <1>1, <1>5, <1>6, <1>7 DEF BufferInv

LEMMA ClearInv == ASSUME BufferInv, command_buf_clear PROVE BufferInv'
<1>1. /\ command_buf' = [c \in Slots |-> [p \in PhaseIDs |-> Empty]]
      /\ UNCHANGED <<cycle_index, prior, status, tc, poll, ask, lock, active, sent, disturbed>>
  BY DEF command_buf_clear
<1>2. BufferOK' /\ \A c \in Slots, p \in PhaseIDs : command_buf'[c][p].app = "none"
  BY <1>1, EmptySlot DEF BufferOK
<1>3. TypeInv'
  BY <1>1, <1>2 DEF BufferInv, TypeInv
<1>4. ReportInv'
  BY <1>1 DEF BufferInv, ReportInv
<1>5. ASSUME ~disturbed PROVE OrderInv'
  <2>1. PriorInv' /\ PollInv' /\ CommandInv' /\ SentForItsPhase'
    BY <1>1, <1>5 DEF BufferInv, OrderInv, PriorInv, PollInv, CommandInv, ForMeant, Meant,
                      SentForItsPhase
  <2>2. PlaceInv'
    BY <1>2 DEF PlaceInv, PlacedIn
  <2> QED BY <2>1, <2>2 DEF OrderInv
<1> QED BY <1>1, <1>3, <1>4, <1>5 DEF BufferInv

-----------------------------------------------------------------------------
(* The theorems.                                                            *)

\* Every step keeps the invariant.
LEMMA NextBufferInv == ASSUME BufferInv, [Next]_vars PROVE BufferInv'
<1>1. CASE UNCHANGED vars
  BY <1>1 DEF vars, BufferInv, TypeInv, BufferOK, ReportInv, OrderInv, PriorInv, PollInv,
              CommandInv, ForMeant, Meant, PlaceInv, Oldest, SentForItsPhase
<1>2. CASE Advance
  BY <1>2, AdvanceInv
<1>3. CASE packet_5FCC
  BY <1>3, ReportBufferInv
<1>4. CASE PollStep
  BY <1>4, PollStartInv, PollLockInv, PollResumeInv, CompensateInv, PollRelockInv,
     PollStep4Inv, PollSendInv, PollIdleInv, PollMarkInv, PollFinishInv DEF PollStep
<1>5. CASE AppStep
  <2>1. ASSUME NEW c \in Ahead, NEW p \in PhaseIDs, NEW target \in PhaseIDs,
               NEW effect \in Effects, AskEffect(c, p, target, effect)
        PROVE  BufferInv'
    BY <2>1, AskEffectInv
  <2>2. ASSUME NEW c \in Ahead, NEW p \in PhaseIDs, NEW target \in PhaseIDs,
               NEW adjustment \in Adjustments, AskAdjustment(c, p, target, adjustment)
        PROVE  BufferInv'
    BY <2>2, AskAdjustmentInv
  <2>3. ASSUME NEW a \in Apps, Leave(a) PROVE BufferInv'
    BY <2>3, LeaveInv
  <2> QED BY <1>5, <2>1, <2>2, <2>3 DEF AppStep
<1>6. CASE \E a \in Apps : InsertAsked(a)
  BY <1>6, InsertAskedInv
<1>7. CASE command_buf_clear
  BY <1>7, ClearInv
<1> QED BY <1>1, <1>2, <1>3, <1>4, <1>5, <1>6, <1>7 DEF Next

\* The inductive invariant of the command buffer: the report and the polling
\* thread are at most one phase instance behind the controller, a poll works on
\* the status it copied, and every stored command is at the place round the ring
\* of the instance it was meant for.
THEOREM BufferInvHolds == Spec => []BufferInv
<1>1. Init => BufferInv
  BY InitBufferInv
<1>2. BufferInv /\ [Next]_vars => BufferInv'
  BY NextBufferInv
<1> QED BY <1>1, <1>2, PTL DEF Spec

\* The invariant gives the property.
LEMMA InPhase == ASSUME BufferInv PROVE CommandsInPhase
<1>1. TypeOK
  <2>1. ASSUME NEW c \in Slots, NEW p \in PhaseIDs
        PROVE  /\ command_buf[c][p].app \in Apps \cup {"comp", "none"}
               /\ command_buf[c][p].app # "none" =>
                     command_buf[c][p].effect + PedGreen(p) \in
                        Plan[p].MinGreen..Plan[p].MaxGreen
    BY DEF BufferInv, TypeInv, BufferOK, SlotOK, SlotRecords, InLimits
  <2> QED BY <2>1, PlanFacts DEF BufferInv, TypeInv, TypeOK
<1>2. ASSUME ~disturbed PROVE NothingStale /\ SentForItsPhase
  <2>1. ASSUME NEW c \in Slots, NEW p \in PhaseIDs, command_buf[c][p].app # "none"
        PROVE  command_buf[c][p].for >= prior.inst
    <3> DEFINE for == command_buf[c][p].for
    <3>1. for >= Oldest
      BY <1>2, <2>1 DEF BufferInv, OrderInv, PlaceInv, PlacedIn
    <3>2. for \in Int /\ prior.inst \in Nat
      BY DEF BufferInv, TypeInv, BufferOK, SlotRecords
    <3>3. CASE poll.at \in {"send", "mark", "finish"}
      <4>1. prior.inst <= status.inst /\ poll.inst = status.inst /\ status.inst \in Nat
        BY <1>2, <3>3 DEF BufferInv, OrderInv, PriorInv, PollInv, TypeInv
      <4>2. Oldest = poll.inst
        BY <3>3 DEF Oldest
      <4> HIDE DEF for
      <4>3. for >= prior.inst
        BY <3>1, <3>2, <4>1, <4>2
      <4> QED BY <4>3 DEF for
    <3>4. CASE poll.at \notin {"send", "mark", "finish"}
      BY <3>1, <3>4 DEF Oldest
    <3> QED BY <3>3, <3>4
  <2>2. SentForItsPhase
    BY <1>2 DEF BufferInv, OrderInv
  <2> QED BY <2>1, <2>2 DEF NothingStale, AllSlots
<1> QED BY <1>1, <1>2 DEF CommandsInPhase

\* Unless a report lands in the middle of a poll or of an insertion, or a
\* compensation is addressed to phases that have passed, no command outlives the
\* phase instance it was meant for and each is sent in that instance: the slots
\* are found by command_buf_polling and the insertions with the cycle_index of
\* the instance meant.  The stored greens are within the limits of their phases
\* in any case.
THEOREM CommandsStayInPhase == Spec => []CommandsInPhase
<1>1. BufferInv => CommandsInPhase
  BY InPhase
<1> QED BY <1>1, BufferInvHolds, PTL

\* What the clearing of a poll drops.
LEMMA ClearedAreOver ==
    ASSUME BufferInv, ~disturbed, poll.at \in {"lock", "compensate"}, ClearPrior,
           NEW c \in Slots, NEW p \in PhaseIDs,
           command_buf[c][p].app # "none", command_buf'[c][p].app = "none"
    PROVE  command_buf[c][p].for \in {prior.inst, prior.inst + CYCLE_NUM * N}
<1> DEFINE for == command_buf[c][p].for
           b == CycleOf(prior.inst)
           d == CycleOf(for)
           t == CycleOf(status.inst)
<1>1. /\ poll.phase \in PhaseIDs /\ poll.sec \in Nat /\ prior.cycle \in Slots
      /\ prior.phase \in PhaseIDs /\ cycle_index \in Slots /\ BufferOK
  BY BeforeClearing
<1>2. c = prior.cycle /\ p = prior.phase
  BY <1>1, Cleared
<1>3. /\ status.inst \in Nat \ {0} /\ prior.inst \in Nat \ {0}
      /\ prior.inst \in {status.inst - 1, status.inst}
      /\ p = PhaseOf(prior.inst) /\ c = b % CYCLE_NUM /\ t \in Nat /\ b \in Nat
  BY <1>2, PriorFacts
<1>4. /\ for >= prior.inst /\ for >= 1 /\ PhaseOf(for) = p /\ d % CYCLE_NUM = c
      /\ d < t + CYCLE_NUM
  BY DEF BufferInv, OrderInv, PlaceInv, PlacedIn, Oldest
<1>5. for \in Nat \ {0}
  <2>1. for \in Int
    BY <1>1 DEF BufferOK, SlotRecords
  <2> HIDE DEF for
  <2> QED BY <1>4, <2>1
<1>6. t <= b + 1
  <2>1. CASE prior.inst = status.inst
    BY <1>3, <2>1
  <2>2. CASE prior.inst = status.inst - 1
    <3> DEFINE i == prior.inst
    <3>1. i \in Nat \ {0} /\ status.inst = i + 1 /\ CycleOf(i) \in Nat
      BY <1>3, <2>2
    <3>2. CycleOf(i + 1) = CycleOf(i) \/ CycleOf(i + 1) = CycleOf(i) + 1
      <4> HIDE DEF i
      <4> QED BY <3>1, NextInstance
    <3>3. b = CycleOf(i) /\ t = CycleOf(i + 1) /\ b \in Nat
      BY <3>1
    <3> HIDE DEF b, t, i
    <3>4. t = b \/ t = b + 1
      BY <3>2, <3>3
    <3> QED BY <3>3, <3>4
  <2> QED BY <1>3, <2>1, <2>2
<1>7. b <= d /\ d \in Nat
  <2>1. d \in Nat
    BY <1>5, InstanceParts
  <2>2. b <= d
    BY <1>3, <1>4, <1>5, LaterCycle
  <2> QED BY <2>1, <2>2
<1>8. /\ prior.inst = N * b + p /\ for = N * d + p
  BY <1>3, <1>4, <1>5, InstanceParts
<1> HIDE DEF for, b, d, t
<1>9. CASE d < b + CYCLE_NUM
  <2>1. b % CYCLE_NUM = d % CYCLE_NUM
    BY <1>3, <1>4
  <2>2. b = d
    BY <1>3, <1>7, <1>9, <2>1, PlanFacts, RingUnique
  <2> QED BY <1>8, <2>2 DEF for
<1>10. CASE d >= b + CYCLE_NUM
  <2>1. d = b + CYCLE_NUM
    BY <1>3, <1>4, <1>6, <1>7, <1>10, PlanFacts
  <2>2. N * d = N * b + CYCLE_NUM * N
    BY <1>3, <2>1, PlanFacts
  <2>3. N * b \in Int /\ CYCLE_NUM * N \in Int /\ p \in Int
    BY <1>1, <1>2, <1>3, PlanFacts
  <2>4. for = prior.inst + CYCLE_NUM * N
    BY <1>8, <2>2, <2>3
  <2> QED BY <2>4 DEF for
<1> QED BY <1>3, <1>7, <1>9, <1>10, PlanFacts

\* Each poll that removes a command removes one that is over.
LEMMA PollKeeps == ASSUME BufferInv, [Next]_vars PROVE PollKeepsFuture
<1> SUFFICES ASSUME poll' # poll, ~disturbed, NEW c \in Slots, NEW p \in PhaseIDs,
                    command_buf[c][p].app # "none", command_buf'[c][p].app = "none"
             PROVE  command_buf[c][p].for \in {prior.inst, prior.inst + CYCLE_NUM * N}
  BY Zenon DEF PollKeepsFuture
<1>1. PollStep
  BY DEF Next, vars, Advance, packet_5FCC, AppStep, AskEffect, AskAdjustment, Asks, Leave,
         InsertAsked, command_buf_clear
<1>2. CASE PollLock
  <2>1. Crossing
    BY <1>2 DEF PollLock
  <2> QED BY <1>2, <2>1, ClearedAreOver DEF PollLock
<1>3. CASE PollRelock
  BY <1>3, ClearedAreOver DEF PollRelock
<1>4. CASE Compensate
  <2> DEFINE todo == poll.todo
             C == Commands
  <2>1. todo \in Seq(C) /\ todo # <<>> /\ InsertCommand(Head(todo))
    BY <1>4, PollShape DEF Compensate, BufferInv, CompensateRecords
  <2>2. Head(todo) \in C
    <3> HIDE DEF todo, C
    <3> QED BY <2>1
  <2> HIDE DEF todo
  <2>3. \/ command_buf'[c][p] = command_buf[c][p]
        \/ command_buf'[c][p].app # "none"
    BY <2>1, <2>2, Inserted DEF BufferInv, TypeInv
  <2> QED BY <2>3
<1>5. CASE PollMark
  BY <1>5, MarkedSlots
<1>6. CASE command_buf' = command_buf
  BY <1>6
<1> QED BY <1>1, <1>2, <1>3, <1>4, <1>5, <1>6
        DEF PollStep, PollStart, PollResume, PollStep4, PollSend, PollIdle, PollFinish

\* Undisturbed, a poll takes no other command out of the buffer than those of
\* the phase instance that has ended, or one a whole lap of the ring later,
\* which has the same slot: command_buf_polling clears one slot and no more.
THEOREM FutureIsKept == Spec => FutureKept
<1>1. BufferInv /\ [Next]_vars => PollKeepsFuture
  BY PollKeeps
<1>2. [][PollKeepsFuture]_vars <=> FutureKept
  BY DEF FutureKept
<1> QED BY <1>1, <1>2, BufferInvHolds, PTL DEF Spec
=============================================================================
