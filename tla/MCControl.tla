----------------------------- MODULE MCControl -----------------------------
(***************************************************************************)
(* What must eventually happen on the signal control path, in three models *)
(* side by side: the locks of its threads, the status cache, and the       *)
(* command buffer.                                                         *)
(***************************************************************************)
EXTENDS SignalLocks

VARIABLES
    model,      \* which of the three this behaviour is of
    signal_status, cached_cycle, guarenteed_cmd_set, flag_switch2nextStep,
    ticks, timer, line, controller, heard,
    command_buf, cycle_index, prior, status, tc, poll, ask, lock, pretimeflag,
    compensation_buffer, active, ped_countdown, inserts, sent, disturbed

-----------------------------------------------------------------------------
(* The cache: plans that differ in everything it tells apart, the second    *)
(* with a pedestrian red, and a controller that may compensate by itself.   *)

TwoPlans == [p \in {1, 2} |-> IF p = 1
             THEN [order |-> 1, green |-> 30, flash |-> 5, pedred |-> 0]
             ELSE [order |-> 2, green |-> 40, flash |-> 8, pedred |-> 2]]

S == INSTANCE SignalStatus WITH
        cycle_index <- cached_cycle, tc <- controller,
        Plans <- TwoPlans, Extras <- {0, 3}, PhaseCount <- 2, CYCLE_NUM <- 1,
        FxxTicks <- 0, ClockTicks <- 2, Lossy <- FALSE, Spontaneous <- FALSE,
        MaxChanges <- 1, MaxLine <- 3

-----------------------------------------------------------------------------
(* The buffer: the running cycle and one vehicle.                           *)

BufferPhase(pedred) ==
    [PreGreen |-> 4, PreTimeCompensated |-> 4 - pedred, MinGreen |-> 2,
     MaxGreen |-> 7, PedGreenFlash |-> 1, PedRed |-> pedred, Yellow |-> 1,
     AllRed |-> 1]

B == INSTANCE CommandBuffer WITH
        CYCLE_NUM <- 3, Plan <- <<BufferPhase(0), BufferPhase(1)>>,
        Effects <- {1, 5}, Adjustments <- {-1, 2}, Ahead <- {0},
        Compensations <- {1}, MaxInstance <- 3, MaxInserts <- 1,
        Interrupts <- {}, PedSend <- TRUE

ASSUME MCControlAssumption == S!StatusAssumption /\ B!BufferAssumption

-----------------------------------------------------------------------------
cacheVars == <<signal_status, cached_cycle, guarenteed_cmd_set,
               flag_switch2nextStep, ticks, timer, line, controller, heard>>
bufferVars == <<command_buf, cycle_index, prior, status, tc, poll, ask, lock,
                pretimeflag, compensation_buffer, active, ped_countdown,
                inserts, sent, disturbed>>
mcVars == <<vars, cacheVars, bufferVars, model>>

MCInit ==
    /\ model \in {"locks", "cache", "buffer"}
    /\ Init /\ S!Init /\ B!Init
    /\ model # "cache" => controller.plan = 1

MCNext ==
    \/ model = "locks" /\ Next /\ UNCHANGED <<cacheVars, bufferVars, model>>
    \/ model = "cache" /\ S!Next /\ UNCHANGED <<vars, bufferVars, model>>
    \/ model = "buffer" /\ B!Next /\ UNCHANGED <<vars, cacheVars, model>>

\* The fairness of each component.
MCSpec ==
    /\ MCInit /\ [][MCNext]_mcVars
    /\ \A t \in Threads : SF_vars(model = "locks" /\ Step(t))
    /\ WF_cacheVars(model = "cache" /\ S!TimerStep)
    /\ WF_cacheVars(model = "cache" /\ S!Handler)
    /\ WF_bufferVars(model = "buffer" /\ B!PollStep)
    /\ WF_bufferVars(model = "buffer" /\ B!packet_5FCC)
    /\ WF_bufferVars(model = "buffer" /\ B!Advance)
    /\ \A a \in B!Apps : WF_bufferVars(model = "buffer" /\ B!InsertAsked(a))

\* Once the controller keeps its plan, the cache ends up with all of it, and a
\* controller with a wild countdown is freed; a stored RESUME starts compensation
\* (EventuallyCurrent and StuckIsFreed of SignalStatus, ResumeIsTakenUp of
\* CommandBuffer).
ControlCatchesUp ==
    /\ model = "cache" => S!EventuallyCurrent /\ S!StuckIsFreed
    /\ B!ResumeIsTakenUp
=============================================================================
