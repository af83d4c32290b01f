---------------------------- MODULE Compensation ----------------------------
(***************************************************************************)
(* Returning to the coordinated plan after an application has stretched or *)
(* cut greens: start_compensation of src/traffic_compensation.c.  It works *)
(* out by how many seconds the start of the next cycle is off its base     *)
(* point, splits them over the next cycles, allocates each share to phases *)
(* within their green limits, and inserts one command per phase into the   *)
(* command buffer.                                                         *)
(***************************************************************************)
EXTENDS CompensationAlgorithm

CONSTANTS
    Statuses,       \* signal states compensation may start from
    Weights,        \* the configured phase_weight, percent per phase
    CycleNumbers,   \* config.traffic_compensation_cycle_number
    Methods         \* config.traffic_compensation_method

\* Two phases at least (method 3 has no branch otherwise), a cycle time, and
\* planned greens within the limits of the plan.
CompensationAssumption ==
    /\ CycleNumbers \subseteq 1..CYCLE_NUM
    /\ Methods \subseteq 0..3
    /\ \A s \in Statuses :
         /\ Len(s.plan) >= 2
         /\ s.CycleTime > 0
         /\ s.SubPhaseID \in 1..Len(s.plan) /\ s.StepID \in 1..5
         /\ \A i \in 1..Len(s.plan) :
              s.plan[i].PreGreen \in s.plan[i].MinGreen..s.plan[i].MaxGreen

VARIABLES
    stage,          \* where start_compensation is
    status,         \* the copy of the signal status it works on
    buffer,         \* compensation_buffer: the phases that were adjusted
    method,         \* the configured method
    number,         \* Comp_cyclenum
    total,          \* total_compensation_time
    split,          \* cycle_compensations
    weight,         \* phase_weight, as [num, den]
    cycle,          \* the cycle being allocated
    comp,           \* subphase_compensation_time of that cycle
    left,           \* history: per cycle, what no phase could take
    commands        \* the commands inserted, in order

vars == <<stage, status, buffer, method, number, total, split, weight, cycle,
          comp, left, commands>>

-----------------------------------------------------------------------------
Init ==
    /\ stage = "idle"
    /\ status \in Statuses
    /\ buffer \in SUBSET PhasesOf(status)
    /\ method = 0 /\ number = 1 /\ total = 0
    /\ split = [i \in {0} |-> 0]
    /\ weight = Only(status, 0)
    /\ cycle = 0
    /\ comp = NoCompensation(status)
    /\ left = <<>>
    /\ commands = <<>>

\* start_compensation with method 0 leaves compensation to the controller.
Start0 ==
    /\ stage = "idle"
    /\ 0 \in Methods
    /\ buffer' = {}
    /\ stage' = "done"
    /\ UNCHANGED <<status, method, number, total, split, weight, cycle, comp,
                   left, commands>>

\* Methods 1 to 3: the status is copied, the total computed and split, the
\* weights chosen.
Start(m, n, configured) ==
    /\ stage = "idle"
    /\ m # 0
    /\ method' = m
    /\ number' = n
    /\ total' = AlignmentTime(status)
    /\ split' = SplitShares(total', n)
    /\ weight' = MethodWeight(status, m, buffer, configured, total')
    /\ stage' = "allocate"
    /\ UNCHANGED <<status, buffer, cycle, comp, left, commands>>

\* The loop of implement_compensation_by_weight: allocate one cycle ...
Allocate ==
    /\ stage = "allocate"
    /\ LET result == AllocateCycle(status, weight, split[cycle]) IN
       /\ comp' = result.comp
       /\ left' = Append(left, result.rest)
    /\ stage' = "insert"
    /\ UNCHANGED <<status, buffer, method, number, total, split, weight, cycle,
                   commands>>

\* ... and insert its commands; after the last cycle compensation_buffer_clear.
Insert ==
    /\ stage = "insert"
    /\ commands' = commands \o CommandsOf(status, comp, cycle, number)
    /\ cycle' = cycle + 1
    /\ stage' = IF cycle' = number THEN "done" ELSE "allocate"
    /\ buffer' = IF cycle' = number THEN {} ELSE buffer
    /\ UNCHANGED <<status, method, number, total, split, weight, comp, left>>

Next ==
    \/ Start0
    \/ \E m \in Methods, n \in CycleNumbers, w \in Weights : Start(m, n, w)
    \/ Allocate
    \/ Insert

Spec == Init /\ [][Next]_vars

-----------------------------------------------------------------------------
(* Properties.                                                              *)

Started == stage \in {"allocate", "insert"} \/ (stage = "done" /\ method # 0)

\* Every variable of a compensation keeps its type.
TypeOK ==
    /\ stage \in {"idle", "allocate", "insert", "done"}
    /\ status \in Statuses
    /\ buffer \subseteq PhasesOf(status)
    /\ method \in 0..3
    /\ number \in 1..CYCLE_NUM
    /\ split \in [0..(number - 1) -> Int]
    /\ cycle \in 0..number
    /\ comp \in [PhasesOf(status) -> Int]
    /\ \A i \in 1..Len(commands) :
         commands[i].cycle \in 0..(CYCLE_NUM - 1) /\ commands[i].effect \in Nat

\* Moving the next cycle's start by the total puts it on the base point's
\* grid, before and after the base point, whatever step is running.
AlignsNextCycle ==
    Started => (NextCycleStart(status) + total) % status.CycleTime = 0

\* No second is lost or invented: the shares of the cycles add up to the total,
\* and each share is what its phases take plus what none could take.
NothingLost ==
    Started =>
        /\ SumOver(0..(number - 1), LAMBDA i : split[i]) = total
        /\ stage = "insert" =>
             SumOver(PhasesOf(status), LAMBDA i : comp[i]) + Last(left) = split[cycle]

\* Every command's green is within the limits of its phase.
GreenInBounds ==
    \A i \in 1..Len(commands) :
        LET p == status.plan[commands[i].phase]
        IN  commands[i].effect \in p.MinGreen..p.MaxGreen

\* Seconds are left over only when every phase is at its limit.
LeftoverOnlyWhenSaturated ==
    (stage = "insert" /\ Last(left) # 0) =>
        \A i \in PhasesOf(status) :
            status.plan[i].PreGreen + comp[i] =
                IF split[cycle] > 0 THEN status.plan[i].MaxGreen
                                    ELSE status.plan[i].MinGreen

\* "Lengthen the arterial, shorten the branch" (method 3): another phase is
\* touched only when the one meant is at its limit.
MainRoadFirst ==
    (stage = "insert" /\ method = 3) =>
        \A i \in PhasesOf(status) :
            LET meant == LongestFirst(status)[IF total > 0 THEN 1 ELSE 2]
                p == status.plan[meant]
            IN  (i # meant /\ comp[i] # 0) =>
                    p.PreGreen + comp[meant] \in {p.MinGreen, p.MaxGreen}

\* What makes an allocation right: every second accounted for, every green in
\* its limits, and the phases taken in the order the method gives.
AllocationCorrect ==
    /\ TypeOK /\ NothingLost /\ GreenInBounds
    /\ LeftoverOnlyWhenSaturated /\ MainRoadFirst

=============================================================================
