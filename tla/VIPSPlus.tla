------------------------------ MODULE VIPSPlus ------------------------------
(***************************************************************************)
(* The VIPS+ pedestrian signal controller: the one-second timer handler of *)
(* application/PEDESTRIAN/src/PEDESTRIAN_plus.c, one Tick per invocation.  *)
(* What a tick reads from outside (the cached phase and step of the signal *)
(* controller, and the camera matrix) is an input of the action, so every  *)
(* property below holds whatever the cameras and the signal controller do. *)
(*                                                                         *)
(* Durations: the code keeps seconds in doubles whose fractions are        *)
(* multiples of 0.05.  They are kept here in hundredths of a second, which *)
(* is exact for them; the stage timers count whole seconds.                *)
(***************************************************************************)
EXTENDS Integers

CONSTANTS
    G,          \* #define G:  nominal pedestrian green, seconds
    GF,         \* #define GF: nominal pedestrian flashing green, seconds
    Y,          \* #define Y:  yellow, seconds
    R,          \* #define R:  red, seconds
    PT,         \* #define PT: total seconds of the phase
    Counts      \* the waiting counts the cameras may report

ASSUME TimingAssumption ==
    /\ G \in Nat \ {0} /\ GF \in Nat \ {0} /\ Y \in Nat \ {0}
    /\ R \in Nat /\ R >= 2
    /\ PT \in Nat
    /\ Counts \subseteq Nat

VARIABLES
    CS,                 \* CS_plus, the current stage
    direction_flag,     \* direction_flag_plus: 0 North/South, 1 East/West
    timer,              \* stage_timers_plus[1..6], seconds
    UR,                 \* UR_plus, hundredths
    dynamic_G,          \* dynamic_G_plus, hundredths
    dynamic_GF,         \* dynamic_GF_plus, hundredths
    time_flag,          \* time_flag_plus: init_variable_plus has run
    is_synchronized,    \* static of the handler
    ready_to_send,      \* static of the handler
    switched            \* the last tick sent tsc_switch (and its companions)

ctlVars == <<CS, direction_flag, timer, UR, dynamic_G, dynamic_GF>>
vars == <<ctlVars, time_flag, is_synchronized, ready_to_send, switched>>

Stages == 1..6
Phases == 0..4
Steps  == 0..5

\* The limits that init_variable_plus computes.
LG  == (G + GF) * 20
LGF == (G + GF) * 40
LR  == 200
ER  == PT * 10
InitialUR == 100 * (G + GF + R) - LG - LGF

\* The early start of the pedestrian green lasts at most this many seconds.
EarlyStart == 5

\* Stage 1 splits G + GF by the number of people seen waiting.
FlowGF(waiting) ==
    (G + GF) * (IF waiting <= 5 THEN 50 ELSE IF waiting <= 30 THEN 65 ELSE 75)

FlowG(waiting) == 100 * (G + GF) - FlowGF(waiting)

\* What one run of the control algorithm reads from the matrix: whether
\* somebody is in columns 1..3, whether somebody is in columns 1..10 (which is
\* also PIC_plus > 0), and waiting_count.
Views == [near : BOOLEAN, onRoad : BOOLEAN, waiting : Counts]

-----------------------------------------------------------------------------
(* runPedestrianSignalControl_plus, one operator per case of its switch.    *)
(* d is the direction in force when the case is entered.                    *)

\* The stage timer of s is incremented first thing in every case.
Elapsed(s) == timer[s] + 1

Stage1(d, view) ==
    LET t == Elapsed(1) IN
    /\ timer' = [timer EXCEPT ![1] = t]
    /\ dynamic_GF' = IF t = 1 THEN FlowGF(view.waiting) ELSE dynamic_GF
    /\ dynamic_G'  = IF t = 1 THEN FlowG(view.waiting)  ELSE dynamic_G
    /\ CS' = IF t >= EarlyStart \/ (t = 1 /\ view.waiting = 0) THEN 2 ELSE 1
    /\ direction_flag' = d
    /\ UNCHANGED UR

\* Faulty variant: a green with nobody near ends without its minimum.
Stage2NoMinimum(view) ==
    LET t == Elapsed(2) IN
    /\ timer' = [timer EXCEPT ![2] = t]
    /\ UR' = IF 100 * t > LG THEN UR - 100 ELSE UR
    /\ CS' = IF ~view.near \/ 100 * t >= dynamic_G THEN 3 ELSE 2
    /\ UNCHANGED <<direction_flag, dynamic_G, dynamic_GF>>

Stage2(view) ==
    LET t == Elapsed(2) IN
    /\ timer' = [timer EXCEPT ![2] = t]
    /\ UR' = IF 100 * t > LG THEN UR - 100 ELSE UR
    /\ CS' = IF 100 * t >= LG /\ (~view.near \/ 100 * t >= dynamic_G)
             THEN 3 ELSE 2
    /\ UNCHANGED <<direction_flag, dynamic_G, dynamic_GF>>

\* Faulty variant: extended flashing green is not taken from UR_plus.
Stage3NoDebit(view) ==
    LET t == Elapsed(3) IN
    /\ timer' = [timer EXCEPT ![3] = t]
    /\ CS' = IF 100 * t >= LGF /\ (~view.onRoad \/ 100 * t >= dynamic_GF)
             THEN 4 ELSE 3
    /\ UNCHANGED <<direction_flag, UR, dynamic_G, dynamic_GF>>

Stage3(view) ==
    LET t == Elapsed(3) IN
    /\ timer' = [timer EXCEPT ![3] = t]
    /\ UR' = IF 100 * t > LGF THEN UR - 100 ELSE UR
    /\ CS' = IF 100 * t >= LGF /\ (~view.onRoad \/ 100 * t >= dynamic_GF)
             THEN 4 ELSE 3
    /\ UNCHANGED <<direction_flag, dynamic_G, dynamic_GF>>

\* Faulty variant: the yellow is skipped.
Stage4SkipsYellow ==
    LET t == Elapsed(4) IN
    /\ timer' = [timer EXCEPT ![4] = t]
    /\ CS' = IF 100 * t >= UR THEN 6 ELSE 4
    /\ UNCHANGED <<direction_flag, UR, dynamic_G, dynamic_GF>>

Stage4 ==
    LET t == Elapsed(4) IN
    /\ timer' = [timer EXCEPT ![4] = t]
    /\ CS' = IF 100 * t >= UR THEN 5 ELSE 4
    /\ UNCHANGED <<direction_flag, UR, dynamic_G, dynamic_GF>>

Stage5 ==
    LET t == Elapsed(5) IN
    /\ timer' = [timer EXCEPT ![5] = t]
    /\ CS' = IF t >= Y THEN 6 ELSE 5
    /\ UNCHANGED <<direction_flag, UR, dynamic_G, dynamic_GF>>

\* Faulty variants: the direction is counted up instead of flipped; the
\* direction is left alone.
SwitchDirectionCounts ==
    /\ direction_flag' = direction_flag + 1
    /\ timer' = [s \in Stages |-> 0]
    /\ UR' = InitialUR
    /\ CS' = 1
    /\ UNCHANGED <<dynamic_G, dynamic_GF>>

SwitchDirectionKeeps ==
    /\ timer' = [s \in Stages |-> 0]
    /\ UR' = InitialUR
    /\ CS' = 1
    /\ UNCHANGED <<direction_flag, dynamic_G, dynamic_GF>>

\* The label SWITCH_DIRECTION.
SwitchDirection ==
    /\ direction_flag' = 1 - direction_flag
    /\ timer' = [s \in Stages |-> 0]
    /\ UR' = InitialUR
    /\ CS' = 1
    /\ UNCHANGED <<dynamic_G, dynamic_GF>>

\* All red is over: nobody on the road, or the extension is used up.
AllRedOver(view) ==
    /\ 100 * Elapsed(6) >= LR
    /\ ~view.onRoad \/ 100 * Elapsed(6) >= LR + ER

Stage6(view) ==
    \/ /\ AllRedOver(view)
       /\ SwitchDirection
    \/ /\ ~AllRedOver(view)
       /\ timer' = [timer EXCEPT ![6] = Elapsed(6)]
       /\ UNCHANGED <<CS, direction_flag, UR, dynamic_G, dynamic_GF>>

Control(view) ==
    \/ CS = 1 /\ Stage1(direction_flag, view)
    \/ CS = 2 /\ Stage2(view)
    \/ CS = 3 /\ Stage3(view)
    \/ CS = 4 /\ Stage4
    \/ CS = 5 /\ Stage5
    \/ CS = 6 /\ Stage6(view)

-----------------------------------------------------------------------------
(* pedestrian_plus_timer_handler.                                           *)

Init ==
    /\ CS = 2
    /\ direction_flag = 0
    /\ timer = [s \in Stages |-> 0]
    /\ UR = 0
    /\ dynamic_G = 0
    /\ dynamic_GF = 0
    /\ time_flag = FALSE
    /\ is_synchronized = FALSE
    /\ ready_to_send = FALSE
    /\ switched = FALSE

\* The all-red step that precedes an early pedestrian start.
ReadyStatus(phase, step) == phase \in {2, 4} /\ step = 5

\* The early pedestrian start itself: the only place to synchronize at.
StartStatus(phase, step) == phase \in {1, 3} /\ step = 1

\* While not synchronized the handler drives the controller forward by hand,
\* except in the first step and in the early-start phases.
DriveStatus(phase, step) ==
    ~ReadyStatus(phase, step) /\ phase \notin {1, 3} /\ step # 1

Align(phase, step) ==
    /\ ready_to_send' = (ready_to_send \/ ReadyStatus(phase, step))
    /\ switched' = DriveStatus(phase, step)
    /\ UNCHANGED is_synchronized

\* init_variable_plus, under time_flag_plus in the first tick.
init_variable ==
    /\ CS' = 1
    /\ direction_flag' = 0
    /\ timer' = [s \in Stages |-> 0]
    /\ UR' = InitialUR
    /\ dynamic_G' = 100 * G
    /\ dynamic_GF' = 100 * GF

FirstTick(phase, step) ==
    /\ ~time_flag
    /\ time_flag' = TRUE
    /\ Align(phase, step)
    /\ init_variable

AlignTick(phase, step) ==
    /\ time_flag
    /\ ~is_synchronized
    /\ ~(StartStatus(phase, step) /\ ready_to_send)
    /\ Align(phase, step)
    /\ UNCHANGED <<ctlVars, time_flag>>

\* Faulty variant: only a later stage switches, not the return to stage 1.
SwitchOnAdvance(stage) == switched' = (CS' > stage)

\* A control run that changes the stage switches the controller's step.
SwitchOnChange(stage) == switched' = (CS' # stage)

\* Synchronizing and the first control run are one tick.
SynchronizeTick(phase, step, view) ==
    /\ time_flag
    /\ ~is_synchronized
    /\ StartStatus(phase, step)
    /\ ready_to_send
    /\ is_synchronized' = TRUE
    /\ ready_to_send' = FALSE
    /\ Stage1(IF phase = 1 THEN 0 ELSE 1, view)
    /\ SwitchOnChange(1)
    /\ UNCHANGED time_flag

ControlTick(view) ==
    /\ time_flag
    /\ is_synchronized
    /\ Control(view)
    /\ SwitchOnChange(CS)
    /\ UNCHANGED <<time_flag, is_synchronized, ready_to_send>>

Next ==
    \/ \E phase \in Phases, step \in Steps :
          FirstTick(phase, step) \/ AlignTick(phase, step)
    \/ \E phase \in Phases, step \in Steps, view \in Views :
          SynchronizeTick(phase, step, view)
    \/ \E view \in Views : ControlTick(view)

\* The POSIX timer fires every second as long as the process lives.
Spec == Init /\ [][Next]_vars /\ WF_vars(Next)

-----------------------------------------------------------------------------
(* Properties.                                                              *)

\* Every variable of the controller keeps its type.
TypeOK ==
    /\ CS \in Stages
    /\ direction_flag \in {0, 1}
    /\ timer \in [Stages -> Nat]
    /\ UR \in Int
    /\ dynamic_G \in Nat
    /\ dynamic_GF \in Nat
    /\ time_flag \in BOOLEAN
    /\ is_synchronized \in BOOLEAN
    /\ ready_to_send \in BOOLEAN
    /\ switched \in BOOLEAN

VehicleGreen == timer[2] + timer[3] + timer[4]

\* The pedestrian algorithm never moves the vehicle signal's budget: whatever
\* the cameras report, by the time the vehicle yellow starts stages 2, 3 and 4
\* (vehicle green) have lasted G + GF + R seconds, or one second less (the
\* truncation of the fractional limits).  This is what the seconds taken from
\* UR_plus for each second of extended green are for.
VehicleGreenBudget ==
    CS \in {5, 6} => VehicleGreen \in (G + GF + R - 1)..(G + GF + R)

\* No pedestrian green and no flashing green is ever cut below its minimum or
\* stretched past the share that stage 1 gave it, so the crossing time promised
\* when the phase began is kept in every later stage.
PedestrianGreenKept ==
    CS \in 4..6 =>
        /\ 100 * timer[2] >= LG  /\ 100 * (timer[2] - 1) < dynamic_G
        /\ 100 * timer[3] >= LGF /\ 100 * (timer[3] - 1) < dynamic_GF

\* All red is never extended past its limit, however many people are seen.
AllRedBounded == 100 * (timer[6] - 1) < LR + ER

\* The direction changes only out of stage 6 and after a complete service:
\* minimum green, minimum flashing green, a positive pedestrian red, the whole
\* yellow and the minimum all red of the phase that ends.
DirectionChangesAfterService ==
    [][ (is_synchronized /\ direction_flag' # direction_flag) =>
            /\ 100 * timer[2] >= LG
            /\ 100 * timer[3] >= LGF
            /\ timer[4] >= 1
            /\ timer[5] >= Y
            /\ 100 * (timer[6] + 1) >= LR ]_vars

\* A synchronized controller serves both directions again and again.
BothDirectionsServed ==
    /\ is_synchronized ~> (direction_flag = 0 /\ CS = 2)
    /\ is_synchronized ~> (direction_flag = 1 /\ CS = 2)
-----------------------------------------------------------------------------
(* The inductive invariant behind the theorems of VIPSProofs.               *)

\* Seconds of a stage that lie past the limit L (hundredths).
Overtime(t, L) == IF 100 * t > L THEN t - (L \div 100) ELSE 0

\* Nothing has been timed before synchronization, nothing ahead of the stage.
TimersInOrder ==
    /\ ~time_flag => ~is_synchronized /\ CS = 2
    /\ ~is_synchronized => \A s \in Stages : timer[s] = 0
    /\ (time_flag /\ ~is_synchronized) => CS = 1
    /\ \A s \in Stages : s > CS => timer[s] = 0

\* UR_plus has lost exactly the overtime of stages 2 and 3.
URTracksOvertime ==
    time_flag => UR = InitialUR - 100 * Overtime(timer[2], LG)
                                - 100 * Overtime(timer[3], LGF)

\* The shares chosen in stage 1 add up and exceed the minima.
SharesChosen ==
    is_synchronized =>
        /\ dynamic_G + dynamic_GF = 100 * (G + GF)
        /\ dynamic_G >= LG
        /\ dynamic_GF >= LGF

\* The running stage is within its limit; each earlier one ended within it.
StageLimits ==
    is_synchronized =>
        /\ CS = 2 => 100 * timer[2] < dynamic_G
        /\ CS > 2 => 100 * timer[2] >= LG /\ 100 * (timer[2] - 1) < dynamic_G
        /\ CS = 3 => 100 * timer[3] < dynamic_GF
        /\ CS > 3 => 100 * timer[3] >= LGF /\ 100 * (timer[3] - 1) < dynamic_GF
        /\ CS = 4 => timer[4] = 0 \/ 100 * timer[4] < UR
        /\ CS > 4 => /\ timer[4] >= 1
                     /\ 100 * timer[4] >= UR
                     /\ timer[4] = 1 \/ 100 * (timer[4] - 1) < UR
        /\ CS = 6 => timer[5] >= Y
        /\ 100 * (timer[6] - 1) < LR + ER

IInv == TypeOK /\ TimersInOrder /\ URTracksOvertime /\ SharesChosen /\ StageLimits

=============================================================================
