---------------------------- MODULE SignalStatus ----------------------------
(***************************************************************************)
(* The cached status of the signal controller                              *)
(* (src/traffic_signal_status_updating.c), the queries that keep it fresh  *)
(* (timer_event_handler, src/timer_event.c) and the reports that change it *)
(* (recv_info, src/traffic_signal_packet_rx.c).                            *)
(*                                                                         *)
(* The serial line is a queue of reports.  A query is answered with the    *)
(* controller's state when it is sent; what the answer waits for on the    *)
(* way out and back is its time in the queue.  Every handler loops over    *)
(* the sub-phases and treats them alike, so one green stands for all.      *)
(***************************************************************************)
EXTENDS Integers, Sequences, FiniteSets

CONSTANTS
    Plans,          \* plan number -> its phase order, green, flash and pedred
    Extras,         \* seconds the controller may add to a green by itself
    PhaseCount,
    CYCLE_NUM,
    FxxTicks,       \* ticks between two rounds of plan queries, less two
    ClockTicks,     \* ticks after which the time is asked for again
    Lossy,          \* reports may be lost or fail their checksum
    Spontaneous,    \* the controller sends 5F0C by itself
    MaxChanges,     \* bound on the changes of plan
    MaxLine         \* bound on the reports under way

StatusAssumption ==
    /\ DOMAIN Plans \subseteq Nat \ {0}
    /\ Extras \subseteq Int /\ 0 \in Extras
    /\ PhaseCount \in Nat \ {0, 1} /\ CYCLE_NUM \in Nat \ {0}
    /\ FxxTicks \in Nat /\ ClockTicks \in Nat \ {0}
    /\ Lossy \in BOOLEAN /\ Spontaneous \in BOOLEAN

VARIABLES
    signal_status,  \* the cached fields
    cycle_index,
    guarenteed_cmd_set,
    flag_switch2nextStep,
    ticks,          \* _5fcc_count and _5fxx_count
    timer,          \* where the timer thread is in its tick
    line,           \* external: reports under way
    tc,             \* external: the controller
    heard           \* history: the cycle of the controller last heard of

vars == <<signal_status, cycle_index, guarenteed_cmd_set, flag_switch2nextStep,
          ticks, timer, line, tc, heard>>

PlanIDs == DOMAIN Plans

Init ==
    /\ signal_status = [PlanID |-> 0, PhaseOrder |-> 0, Green |-> 0, flash |-> 0,
                        pedred |-> 0, PreGreen |-> 0, PreTimeCompensated |-> 0,
                        SubPhaseID |-> 0, StepID |-> 0, table |-> 0]
    /\ cycle_index = 0
    /\ guarenteed_cmd_set = [_0F42 |-> 0, _5F43 |-> 0, _5F46 |-> 0]
    /\ flag_switch2nextStep = FALSE
    /\ ticks = [fcc |-> 0, fxx |-> 0]
    /\ timer = "idle"
    /\ line = <<>>
    /\ tc \in [plan : PlanIDs, extra : {0}, phase : {1}, step : {1}, cycle : {0},
               stuck : {FALSE}, asked : {FALSE}, told : {FALSE}, changes : {0}]
    /\ heard = 0

-----------------------------------------------------------------------------
(* External: the controller.                                                *)

\* A phase is long enough to be asked about in step 1 before it goes on; a
\* stuck controller waits for the forced switch.
Proceed ==
    /\ tc.asked /\ ~tc.stuck
    /\ tc' = IF tc.step = 1 THEN [tc EXCEPT !.step = 5]
             ELSE [tc EXCEPT !.step = 1, !.asked = FALSE, !.told = FALSE,
                             !.phase = (@ % PhaseCount) + 1,
                             !.cycle = IF tc.phase = PhaseCount
                                       THEN (@ + 1) % CYCLE_NUM ELSE @]
    /\ UNCHANGED <<signal_status, cycle_index, guarenteed_cmd_set,
                   flag_switch2nextStep, ticks, timer, line, heard>>

\* The countdown of step 1 goes wild (655xx seconds).
GetStuck ==
    /\ tc.step = 1 /\ ~tc.stuck
    /\ tc.changes < MaxChanges
    /\ tc' = [tc EXCEPT !.stuck = TRUE, !.changes = @ + 1]
    /\ UNCHANGED <<signal_status, cycle_index, guarenteed_cmd_set,
                   flag_switch2nextStep, ticks, timer, line, heard>>

\* Another plan of the day, or compensation by the controller itself.
ChangePlan ==
    /\ tc.changes < MaxChanges
    /\ \E plan \in PlanIDs, extra \in Extras :
          /\ <<plan, extra>> # <<tc.plan, tc.extra>>
          /\ tc' = [tc EXCEPT !.plan = plan, !.extra = extra, !.changes = @ + 1]
    /\ UNCHANGED <<signal_status, cycle_index, guarenteed_cmd_set,
                   flag_switch2nextStep, ticks, timer, line, heard>>

Position == [phase |-> tc.phase, step |-> tc.step, wild |-> tc.stuck,
             cycle |-> tc.cycle]

\* A new phase is reported once.
Report5F0C ==
    /\ Spontaneous /\ ~tc.told
    /\ Len(line) < MaxLine
    /\ line' = Append(line, [kind |-> "5F0C", at |-> Position])
    /\ tc' = [tc EXCEPT !.told = TRUE]
    /\ UNCHANGED <<signal_status, cycle_index, guarenteed_cmd_set,
                   flag_switch2nextStep, ticks, timer, heard>>

Lose ==
    /\ Lossy
    /\ line # <<>>
    /\ line' = Tail(line)
    /\ UNCHANGED <<signal_status, cycle_index, guarenteed_cmd_set,
                   flag_switch2nextStep, ticks, timer, tc, heard>>

\* The answers of the controller; a plan it does not have is not answered.
Answer5FC8 == <<[kind |-> "5FC8", plan |-> tc.plan, extra |-> tc.extra]>>
AnswerFor(kind, plan) ==
    IF plan \in PlanIDs THEN <<[kind |-> kind, plan |-> plan]>> ELSE <<>>
OrderedPlans(order) == {p \in PlanIDs : Plans[p].order = order}
Answer5FC3(order) ==
    IF OrderedPlans(order) # {} THEN <<[kind |-> "5FC3", order |-> order]>> ELSE <<>>

-----------------------------------------------------------------------------
(* timer_event_handler, the tick of the command buffer polling.  Each query *)
(* reads the cached plan number or phase order for itself.                  *)

DueFcc == ticks.fcc > 0

DueFxx == ticks.fxx > FxxTicks

\* 5F4C every second tick, then 5F48 and 5F45 in a round of plan queries.
Tick ==
    /\ timer = "idle"
    /\ LET sent == (IF DueFcc THEN <<[kind |-> "5FCC", at |-> Position]>> ELSE <<>>)
                   \o (IF DueFxx THEN Answer5FC8 \o AnswerFor("5FC5", signal_status.PlanID)
                       ELSE <<>>)
       IN  /\ Len(line) + Len(sent) <= MaxLine
           /\ line' = line \o sent
    /\ tc' = [tc EXCEPT !.asked = @ \/ (DueFcc /\ tc.step = 1)]
    /\ timer' = IF DueFxx THEN "5F44" ELSE "switch"
    /\ ticks' = [fcc |-> IF DueFcc THEN 0 ELSE ticks.fcc + 1,
                 fxx |-> IF DueFxx THEN 0 ELSE ticks.fxx + 1]
    /\ UNCHANGED <<signal_status, cycle_index, guarenteed_cmd_set,
                   flag_switch2nextStep, heard>>

tsc_5F44 ==
    /\ timer = "5F44"
    /\ LET sent == AnswerFor("5FC4", signal_status.PlanID) IN
       /\ Len(line) + Len(sent) <= MaxLine
       /\ line' = line \o sent
    /\ timer' = "switch"
    /\ UNCHANGED <<signal_status, cycle_index, guarenteed_cmd_set,
                   flag_switch2nextStep, ticks, tc, heard>>

\* A wild countdown: dynamic control and a switch to the next step, waiting
\* for the acknowledgements; then the flag is cleared.
SwitchNextStep ==
    /\ timer = "switch"
    /\ tc' = IF flag_switch2nextStep
             THEN [tc EXCEPT !.stuck = FALSE] ELSE tc
    /\ timer' = IF flag_switch2nextStep THEN "clear" ELSE "rest"
    /\ UNCHANGED <<signal_status, cycle_index, guarenteed_cmd_set,
                   flag_switch2nextStep, ticks, line, heard>>

ClearFlag ==
    /\ timer = "clear"
    /\ flag_switch2nextStep' = FALSE
    /\ timer' = "rest"
    /\ UNCHANGED <<signal_status, cycle_index, guarenteed_cmd_set, ticks, line,
                   tc, heard>>

\* The guaranteed queries are repeated until they are answered.
AskGuaranteed ==
    /\ timer = "rest"
    /\ LET g == guarenteed_cmd_set
           sent == (IF g._0F42 = 0 THEN <<[kind |-> "0FC2"]>> ELSE <<>>)
                   \o (IF g._5F46 = 0 THEN <<[kind |-> "5FC6"]>> ELSE <<>>)
                   \o (IF g._5F43 = 0 THEN Answer5FC3(signal_status.PhaseOrder) ELSE <<>>)
       IN  /\ Len(line) + Len(sent) <= MaxLine
           /\ line' = line \o sent
           /\ guarenteed_cmd_set' =
                [g EXCEPT !._0F42 = IF @ = 0 THEN 0 ELSE (@ + 1) % ClockTicks]
    /\ timer' = "idle"
    /\ UNCHANGED <<signal_status, cycle_index, flag_switch2nextStep, ticks, tc, heard>>

-----------------------------------------------------------------------------
(* recv_info: one report, in its handler under mutex_signal_status.         *)

Receive(kind) ==
    /\ line # <<>>
    /\ Head(line).kind = kind
    /\ line' = Tail(line)
    /\ UNCHANGED <<ticks, timer, tc>>

NoteCountdown(at) ==
    flag_switch2nextStep' = (flag_switch2nextStep \/ (at.wild /\ at.step = 1))

\* update_cycle_index when the phase number falls.
CycleAfter(phase) ==
    IF phase < signal_status.SubPhaseID
    THEN (cycle_index + 1) % CYCLE_NUM ELSE cycle_index

packet_5FCC ==
    /\ Receive("5FCC")
    /\ LET at == Head(line).at IN
       /\ IF at.phase # 0 /\ at.step # 5
          THEN /\ cycle_index' = CycleAfter(at.phase)
               /\ signal_status' = [signal_status EXCEPT !.SubPhaseID = at.phase,
                                                         !.StepID = at.step]
               /\ heard' = at.cycle
          ELSE /\ signal_status' = [signal_status EXCEPT !.StepID = at.step]
               /\ UNCHANGED <<cycle_index, heard>>
       /\ NoteCountdown(at)
    /\ UNCHANGED guarenteed_cmd_set

packet_5F0C ==
    /\ Receive("5F0C")
    /\ LET at == Head(line).at IN
       /\ signal_status' = [signal_status EXCEPT !.SubPhaseID = at.phase,
                                                 !.StepID = at.step]
       /\ heard' = at.cycle
    /\ UNCHANGED <<cycle_index, guarenteed_cmd_set, flag_switch2nextStep>>

\* Faulty variant: the signal table is not asked for again.
NewOrderForgets(order) == UNCHANGED guarenteed_cmd_set

\* Another phase order: the command buffer is cleared and the signal table has
\* to be asked for again.
NewOrder(order) ==
    guarenteed_cmd_set' =
        IF signal_status.PhaseOrder # order
        THEN [guarenteed_cmd_set EXCEPT !._5F43 = 0] ELSE guarenteed_cmd_set

packet_5FC8 ==
    /\ Receive("5FC8")
    /\ LET p == Head(line)
           green == Plans[p.plan].green + p.extra
       IN  /\ NewOrder(Plans[p.plan].order)
           /\ signal_status' = [signal_status EXCEPT
                !.PlanID = p.plan,
                !.PhaseOrder = Plans[p.plan].order,
                !.Green = green,
                !.PreTimeCompensated = green - signal_status.flash - signal_status.pedred]
    /\ UNCHANGED <<cycle_index, flag_switch2nextStep, heard>>

packet_5FC5 ==
    /\ Receive("5FC5")
    /\ LET plan == Plans[Head(line).plan] IN
       /\ NewOrder(plan.order)
       /\ signal_status' = [signal_status EXCEPT !.PhaseOrder = plan.order,
                                                 !.Green = plan.green]
    /\ UNCHANGED <<cycle_index, flag_switch2nextStep, heard>>

packet_5FC4 ==
    /\ Receive("5FC4")
    /\ LET plan == Plans[Head(line).plan] IN
       signal_status' = [signal_status EXCEPT
            !.flash = plan.flash,
            !.pedred = plan.pedred,
            !.PreGreen = signal_status.Green - plan.flash]
    /\ UNCHANGED <<cycle_index, guarenteed_cmd_set, flag_switch2nextStep, heard>>

\* Faulty variant: any table will do.
TableAnyOrder(order) == TRUE

TableIsCurrent(order) == order = signal_status.PhaseOrder

\* The table is stored whatever order it is for.
packet_5FC3 ==
    /\ Receive("5FC3")
    /\ LET order == Head(line).order IN
       /\ signal_status' = [signal_status EXCEPT !.table = order]
       /\ guarenteed_cmd_set' = IF TableIsCurrent(order)
                                THEN [guarenteed_cmd_set EXCEPT !._5F43 = 1]
                                ELSE guarenteed_cmd_set
    /\ UNCHANGED <<cycle_index, flag_switch2nextStep, heard>>

Answered(count) == IF count = 0 THEN count + 1 ELSE count

packet_5FC6 ==
    /\ Receive("5FC6")
    /\ guarenteed_cmd_set' = [guarenteed_cmd_set EXCEPT !._5F46 = Answered(@)]
    /\ UNCHANGED <<signal_status, cycle_index, flag_switch2nextStep, heard>>

packet_0FC2 ==
    /\ Receive("0FC2")
    /\ guarenteed_cmd_set' = [guarenteed_cmd_set EXCEPT !._0F42 = Answered(@)]
    /\ UNCHANGED <<signal_status, cycle_index, flag_switch2nextStep, heard>>

-----------------------------------------------------------------------------
TimerStep == Tick \/ tsc_5F44 \/ SwitchNextStep \/ ClearFlag \/ AskGuaranteed

Handler ==
    \/ packet_5FCC \/ packet_5F0C \/ packet_5FC8 \/ packet_5FC5 \/ packet_5FC4
    \/ packet_5FC3 \/ packet_5FC6 \/ packet_0FC2

Next ==
    \/ Proceed \/ GetStuck \/ ChangePlan \/ Report5F0C \/ Lose
    \/ TimerStep
    \/ Handler

\* The timer keeps firing and the receiving thread keeps reading.
Spec == Init /\ [][Next]_vars /\ WF_vars(TimerStep) /\ WF_vars(Handler)

-----------------------------------------------------------------------------
(* Properties.                                                              *)

\* The counts stay in their ranges and the cached phase is one of the plan's.
TypeOK ==
    /\ cycle_index \in 0..(CYCLE_NUM - 1)
    /\ guarenteed_cmd_set \in [_0F42 : 0..(ClockTicks - 1), _5F43 : 0..1, _5F46 : 0..1]
    /\ ticks \in [fcc : 0..1, fxx : 0..(FxxTicks + 1)]
    /\ signal_status.PlanID \in PlanIDs \cup {0}
    /\ signal_status.SubPhaseID \in 0..PhaseCount
    /\ Len(line) <= MaxLine

\* cycle_index follows the cycles of the controller: it counts every cycle
\* whose phase the cache shows (update_cycle_index), as long as phases are
\* learnt from 5FCC reports only and none is missed.
CycleCounted == TypeOK /\ (~Lossy /\ ~Spontaneous => cycle_index = heard)

\* Once the signal table is noted as received, the line is quiet and the phase
\* order is the cached plan's, the table is the one of that phase order.
SettledTableMatches ==
    (/\ line = <<>>
     /\ guarenteed_cmd_set._5F43 = 1
     /\ signal_status.PlanID # 0
     /\ signal_status.PhaseOrder = Plans[signal_status.PlanID].order)
        => signal_status.table = signal_status.PhaseOrder

\* A controller with a wild countdown is switched on to the next step.
StuckIsFreed == tc.stuck ~> ~tc.stuck

\* When the controller keeps its plan, the whole cache ends up with it: number,
\* order, table, green and pedestrian times.
CacheIsCurrent ==
    LET plan == Plans[tc.plan] IN
    /\ signal_status.PlanID = tc.plan
    /\ signal_status.PhaseOrder = plan.order
    /\ signal_status.table = plan.order
    /\ signal_status.PreGreen = plan.green - plan.flash
    /\ signal_status.PreTimeCompensated = plan.green + tc.extra - plan.flash - plan.pedred

EventuallyCurrent == <>[]CacheIsCurrent

=============================================================================
