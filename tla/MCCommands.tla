----------------------------- MODULE MCCommands -----------------------------
(***************************************************************************)
(* What is commanded, in three models side by side: one compensation; the  *)
(* command buffer with reports between polls and insertions; and the       *)
(* command buffer with reports in the middle of them.                      *)
(***************************************************************************)
EXTENDS CommandBuffer

VARIABLES
    model,      \* which of the three this behaviour is of
    stage, copied, buffer, method, number, total, split, weight, cycle, comp,
    left, commands

-----------------------------------------------------------------------------
(* Compensation: two plans, the start of the day and the hours after a      *)
(* segment change, each step of a cycle, offsets on both sides of zero.     *)

Phase(pre, min, max) ==
    [PreGreen |-> pre, MinGreen |-> min, MaxGreen |-> max,
     PedGreenFlash |-> 2, PedRed |-> 1, Yellow |-> 1, AllRed |-> 1]

TwoPhases   == <<Phase(10, 8, 13), Phase(6, 4, 9)>>
ThreePhases == <<Phase(6, 5, 8), Phase(9, 6, 12), Phase(7, 6, 8)>>

StatusOf(plan, phase, step, sec, now, offset, base) ==
    [plan |-> plan, SubPhaseID |-> phase, StepID |-> step, StepSec |-> sec,
     CycleTime |-> SumOver(1..Len(plan), LAMBDA i : PhaseLength(plan[i])),
     Offset |-> offset, tcTimeOffest |-> 1, now |-> now,
     segments |-> <<10, 100>>, baseline |-> base]

MCStatuses ==
    {StatusOf(plan, phase, step, sec, now, offset, base) :
        plan \in {TwoPhases, ThreePhases}, phase \in {1, 2}, step \in {1, 3},
        sec \in {1, 7}, now \in {0, 104}, offset \in {0, 23},
        base \in {"midnight", "segment"}}

MCWeights == {[i \in 1..3 |-> IF i = 1 THEN 30 ELSE 35],
              [i \in 1..3 |-> IF i = 2 THEN 80 ELSE 0]}

C == INSTANCE Compensation WITH
        status <- copied, Statuses <- MCStatuses, Weights <- MCWeights,
        CycleNumbers <- {1, 2, 3}, Methods <- 0..3

-----------------------------------------------------------------------------
(* The buffer: two phases and the code's three cycles, so that seven        *)
(* instances take every slot round the ring once.                           *)

BufferPhase(pedred) ==
    [PreGreen |-> 4, PreTimeCompensated |-> 4 - pedred, MinGreen |-> 2,
     MaxGreen |-> 7, PedGreenFlash |-> 1, PedRed |-> pedred, Yellow |-> 1,
     AllRed |-> 1]

MCPlan == <<BufferPhase(0), BufferPhase(1)>>
MCAdjustments == {-1, 2}

I == INSTANCE CommandBuffer WITH
        Plan <- MCPlan, Effects <- {5},
        Adjustments <- {2}, Ahead <- {0}, Compensations <- {1},
        MaxInstance <- 3, MaxInserts <- 1, Interrupts <- {"poll", "insert"},
        PedSend <- FALSE

ASSUME MCCommandsAssumption == C!CompensationAssumption /\ I!BufferAssumption

-----------------------------------------------------------------------------
compensationVars == <<stage, copied, buffer, method, number, total, split,
                      weight, cycle, comp, left, commands>>
mcVars == <<compensationVars, vars, model>>

\* An arbitrary compensation stands by while the buffer is at work.
MCInit ==
    /\ model \in {"compensation", "buffer", "interrupted"}
    /\ C!Init /\ Init
    /\ model # "compensation" =>
          /\ copied = CHOOSE s \in MCStatuses : TRUE
          /\ buffer = {}

MCNext ==
    \/ model = "compensation" /\ C!Next /\ UNCHANGED <<vars, model>>
    \/ model = "buffer" /\ Next /\ UNCHANGED <<compensationVars, model>>
    \/ model = "interrupted" /\ I!Next /\ UNCHANGED <<compensationVars, model>>

MCSpec == MCInit /\ [][MCNext]_mcVars

\* A compensation brings the next cycle into step with the baseline, and the
\* seconds given to the phases are those asked for, within every phase's limits
\* (AlignsNextCycle and AllocationCorrect of Compensation).
CompensationRight == C!AlignsNextCycle /\ C!AllocationCorrect
=============================================================================
