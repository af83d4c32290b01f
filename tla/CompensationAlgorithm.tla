----------------------- MODULE CompensationAlgorithm -----------------------
(***************************************************************************)
(* The computations of src/traffic_compensation.c: by how many seconds the *)
(* next cycle is off its base point, how they are split over cycles and    *)
(* phases, and which slots of the command buffer the commands go to.       *)
(*                                                                         *)
(* Weights are exact fractions num/den here; the code computes them in     *)
(* float, where a product that is a whole number may round up to the next. *)
(***************************************************************************)
EXTENDS Integers, FiniteSetsExt, SequencesExt

CONSTANT CYCLE_NUM      \* cycles the command buffer holds

ASSUME CycleAssumption == CYCLE_NUM \in Nat \ {0}

Count(s) == Len(s.plan)
PhasesOf(s) == 1..Count(s)

Ceiling(a, b) == (a + b - 1) \div b
Smaller(a, b) == IF a < b THEN a ELSE b
Larger(a, b)  == IF a > b THEN a ELSE b

\* C division and remainder truncate toward zero.
CDiv(a, b) == IF a >= 0 THEN a \div b ELSE -((-a) \div b)
CRem(a, b) == a - b * CDiv(a, b)

SumOver(S, f(_)) == MapThenSumSet(f, S)

-----------------------------------------------------------------------------
(* The total.                                                               *)

\* StepArr: steps 2..5 of a phase.
StepArr(p) == <<p.PedGreenFlash, p.PedRed, p.Yellow, p.AllRed>>

PhaseLength(p) == p.PreGreen + p.PedGreenFlash + p.PedRed + p.Yellow + p.AllRed

\* Seconds from now until this cycle ends: the phases after the current one,
\* the steps after the current one, and what is left of the current step.
RemainingCycle(s) ==
      SumOver((s.SubPhaseID + 1)..Count(s), LAMBDA i : PhaseLength(s.plan[i]))
     + SumOver(s.StepID..4, LAMBDA i : StepArr(s.plan[s.SubPhaseID])[i])
     + s.StepSec

\* get_nearly_segment: the segment of the day now is in (start in seconds).
SegmentStart(s) ==
    LET later == {i \in 2..Len(s.segments) : s.now < s.segments[i]} IN
    IF later = {} THEN s.segments[Len(s.segments)]
    ELSE s.segments[(CHOOSE i \in later : \A j \in later : i <= j) - 1]

\* get_total_compensation_second_with_status chooses the base point.
BasePoint(s) == IF s.baseline = "segment" THEN SegmentStart(s) ELSE 0

\* secInDay: where the next cycle will start, counted from the base point.
NextCycleStart(s) ==
    s.now - BasePoint(s) - s.Offset + s.tcTimeOffest + RemainingCycle(s)

\* get_alignment_compensation_time.
AlignmentTime(s) ==
    LET compTime == CRem(NextCycleStart(s), s.CycleTime) IN
    IF compTime < s.CycleTime \div 2 THEN -compTime ELSE s.CycleTime - compTime

\* get_cycle_compensation_time: cycles 1, 2, ... take a share of what is left,
\* cycle 0 takes the rest.
SplitShares(t, n) ==
    LET share[i \in 1..n] ==
            IF i = 1 THEN [given |-> 0, rest |-> t]
            ELSE LET g == CDiv(share[i - 1].rest, n)
                 IN  [given |-> g, rest |-> share[i - 1].rest - g]
    IN  [i \in 0..(n - 1) |-> IF i = 0 THEN share[n].rest ELSE share[i + 1].given]

-----------------------------------------------------------------------------
(* The allocation.                                                          *)

Clamp(p, seconds) ==
    IF seconds < p.MinGreen THEN p.MinGreen
    ELSE IF seconds > p.MaxGreen THEN p.MaxGreen ELSE seconds

\* The rounded up share of t by weight, at most what remains.
Offer(w, t, rest, i) ==
    IF t > 0 THEN Smaller(Ceiling(t * w.num[i], w.den), rest)
             ELSE Larger(-Ceiling(-t * w.num[i], w.den), rest)

\* What phase i, already given some seconds, can take of an offer.
Taken(p, given, offer) == Clamp(p, p.PreGreen + given + offer) - p.PreGreen - given

\* Faulty variant: what was offered is deducted, not what was taken.
TurnDeductsOffer(s, w, t, acc, i) ==
    LET offer == Offer(w, t, acc.rest, i) IN
    [rest |-> acc.rest - offer,
     comp |-> [acc.comp EXCEPT ![i] = @ + Taken(s.plan[i], @, offer)]]

Turn(s, w, t, acc, i) ==
    LET takes == Taken(s.plan[i], acc.comp[i], Offer(w, t, acc.rest, i)) IN
    [rest |-> acc.rest - takes, comp |-> [acc.comp EXCEPT ![i] = @ + takes]]

\* allocate_compensation_by_weight: the phases take their turns until nothing
\* remains.
AllocateByWeight(s, w, t, given) ==
    FoldLeft(LAMBDA acc, i : IF acc.rest = 0 THEN acc ELSE Turn(s, w, t, acc, i),
             [rest |-> t, comp |-> given], [i \in PhasesOf(s) |-> i])

\* The bubble sort of allocate_remaining_time: longest green first, ties in
\* phase order.
LongestFirst(s) ==
    SetToSortSeq(PhasesOf(s),
        LAMBDA a, b : \/ s.plan[a].PreGreen > s.plan[b].PreGreen
                      \/ s.plan[a].PreGreen = s.plan[b].PreGreen /\ a < b)

Only(s, phase) ==
    [num |-> [i \in PhasesOf(s) |-> IF i = phase THEN 1 ELSE 0], den |-> 1]

\* allocate_remaining_time: all of the rest to one phase after the other.
AllocateRemaining(s, acc) ==
    FoldLeft(LAMBDA a, phase : IF a.rest = 0 THEN a
                               ELSE AllocateByWeight(s, Only(s, phase), a.rest, a.comp),
             acc, LongestFirst(s))

NoCompensation(s) == [i \in PhasesOf(s) |-> 0]

AllocateCycle(s, w, t) ==
    AllocateRemaining(s, AllocateByWeight(s, w, t, NoCompensation(s)))

\* Method 3: the longest green is the arterial, the next longest the branch,
\* found in one pass over the phases.
MainRoads(s) ==
    LET turn(r, i) ==
            IF i = 1 THEN r
            ELSE IF s.plan[i].PreGreen > s.plan[r.arterial].PreGreen
                 THEN [arterial |-> i, branch |-> r.arterial]
            ELSE IF r.branch = 0 \/ s.plan[i].PreGreen > s.plan[r.branch].PreGreen
                 THEN [r EXCEPT !.branch = i]
            ELSE r
    IN  FoldLeft(turn, [arterial |-> 1, branch |-> 0], [i \in PhasesOf(s) |-> i])

MethodWeight(s, m, adjusted, configured, t) ==
    CASE m = 1 -> [num |-> [i \in PhasesOf(s) |-> IF i \in adjusted THEN 1 ELSE 0],
                   den |-> Larger(1, Cardinality(adjusted))]
      [] m = 2 -> [num |-> configured, den |-> 100]
      [] m = 3 /\ t < 0 -> Only(s, MainRoads(s).branch)
      [] m = 3 /\ t > 0 -> Only(s, MainRoads(s).arterial)
      [] m = 3 /\ t = 0 -> Only(s, 0)

-----------------------------------------------------------------------------
(* The commands.                                                            *)

\* insert_compensation_command starts at the next phase when the running one
\* is past its green or has no room.
Skips(s, given) ==
    LET p == s.plan[s.SubPhaseID]
        seconds == s.StepSec - given[s.SubPhaseID]
    IN  s.StepID # 1 \/ seconds < p.MinGreen \/ seconds > p.MaxGreen

FirstPhase(s, given) ==
    IF Skips(s, given) THEN (s.SubPhaseID % Count(s)) + 1 ELSE s.SubPhaseID

\* The k-th phase visited from first, and the buffer cycle of that visit.
Visit(s, first, k) == ((first + k - 2) % Count(s)) + 1

VisitCycle(s, first, c, k) ==
    (c + (IF first + k - 1 > Count(s) THEN 1 ELSE 0)) % CYCLE_NUM

\* In the last cycle a phase without compensation gets a command only if a
\* later one has some.
CommandsOf(s, given, c, n) ==
    LET first == FirstPhase(s, given)
        wanted == {k \in PhasesOf(s) :
                      \/ c < n - 1
                      \/ \E j \in k..Count(s) : given[Visit(s, first, j)] # 0}
    IN  [k \in 1..Cardinality(wanted) |->
            [cycle  |-> VisitCycle(s, first, c, k),
             phase  |-> Visit(s, first, k),
             effect |-> s.plan[Visit(s, first, k)].PreGreen + given[Visit(s, first, k)]]]

=============================================================================
