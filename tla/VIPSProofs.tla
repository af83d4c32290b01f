----------------------------- MODULE VIPSProofs -----------------------------
(***************************************************************************)
(* Theorems about VIPS+, for every choice of the signal timings.  First    *)
(* the stage machine of VIPSPlus: the vehicle green budget, the pedestrian *)
(* green limits and the order in which a phase is served.  Then the camera *)
(* matrix of VIPSCameras, for every set of cameras and of packets: while   *)
(* the mutex is free the matrix is what the last packets say, and the      *)
(* timer handler that reads it without the mutex errs only about cameras   *)
(* whose packet came meanwhile.  Last VIPSLink, the handler and the signal *)
(* controller at the other end of the serial line: on every line the two   *)
(* are apart by exactly what was lost, late or moved by the plan.          *)
(***************************************************************************)
EXTENDS VIPSCameras, VIPSLink, FiniteSetTheorems, SequenceTheorems, TLAPS

-----------------------------------------------------------------------------
(* The stage machine.                                                       *)

\* The limits computed by init_variable_plus are natural numbers.
LEMMA LimitsAreNat ==
    /\ LG \in Nat /\ LGF \in Nat /\ ER \in Nat /\ LR \in Nat
    /\ InitialUR \in Int
    /\ LG > 0 /\ LGF > 0
BY TimingAssumption DEF LG, LGF, ER, LR, InitialUR

\* The split of G + GF chosen in stage 1 is made of two natural numbers, adds
\* up, and never goes below the minimum green and the minimum flashing green.
LEMMA FlowShares ==
    ASSUME NEW w \in Nat
    PROVE  /\ FlowGF(w) \in Nat /\ FlowG(w) \in Nat
           /\ FlowG(w) + FlowGF(w) = 100 * (G + GF)
           /\ FlowG(w) >= LG
           /\ FlowGF(w) >= LGF
<1>1. CASE w <= 5
  BY <1>1, TimingAssumption DEF FlowG, FlowGF, LG, LGF
<1>2. CASE ~(w <= 5) /\ w <= 30
  BY <1>2, TimingAssumption DEF FlowG, FlowGF, LG, LGF
<1>3. CASE ~(w <= 5) /\ ~(w <= 30)
  BY <1>3, TimingAssumption DEF FlowG, FlowGF, LG, LGF
<1> QED BY <1>1, <1>2, <1>3

\* One more second of a stage adds one second of overtime exactly when the
\* code takes one from UR_plus.
LEMMA OvertimeStep ==
    ASSUME NEW t \in Nat, NEW L \in Nat
    PROVE  /\ Overtime(t, L) \in Int
           /\ Overtime(t + 1, L) = IF 100 * (t + 1) > L
                                   THEN Overtime(t, L) + 1
                                   ELSE Overtime(t, L)
           /\ Overtime(0, L) = 0
BY DEF Overtime

-----------------------------------------------------------------------------
LEMMA InitIInv == Init => IInv
<1> SUFFICES ASSUME Init PROVE IInv
  OBVIOUS
<1>1. /\ time_flag \in BOOLEAN /\ is_synchronized \in BOOLEAN
      /\ ready_to_send \in BOOLEAN /\ switched \in BOOLEAN
  BY DEF Init
<1>2. TypeOK
  BY <1>1 DEF Init, TypeOK, Stages
<1> QED BY <1>2 DEF Init, IInv, TimersInOrder, URTracksOvertime,
                    SharesChosen, StageLimits

\* Ticks before synchronization start from, and leave, untouched timers.
LEMMA AlignTypes ==
    ASSUME NEW phase \in Phases, NEW step \in Steps, Align(phase, step)
    PROVE  ready_to_send' \in BOOLEAN /\ switched' \in BOOLEAN
BY DEF Align, DriveStatus, ReadyStatus

LEMMA AlignPreservesIInv ==
    ASSUME IInv, NEW phase \in Phases, NEW step \in Steps,
           FirstTick(phase, step) \/ AlignTick(phase, step)
    PROVE  IInv'
<1>1. CASE FirstTick(phase, step)
  <2>1. timer' = [s \in Stages |-> 0] /\ UR' = InitialUR /\ CS' = 1
    BY <1>1 DEF FirstTick, init_variable
  <2>2. ~is_synchronized'
    BY <1>1 DEF FirstTick, Align, IInv, TimersInOrder
  <2>3. TypeOK'
    <3>1. ready_to_send' \in BOOLEAN /\ switched' \in BOOLEAN
      BY <1>1, AlignTypes DEF FirstTick
    <3> QED BY <1>1, <2>1, <2>2, <3>1, TimingAssumption, LimitsAreNat
            DEF FirstTick, init_variable, Align, IInv, TypeOK, Stages
  <2>4. URTracksOvertime'
    BY <2>1, LimitsAreNat, OvertimeStep DEF URTracksOvertime, Stages
  <2>5. time_flag'
    BY <1>1 DEF FirstTick
  <2> QED BY <2>1, <2>2, <2>3, <2>4, <2>5
      DEF IInv, TimersInOrder, SharesChosen, StageLimits, Stages
<1>2. CASE AlignTick(phase, step)
  <2>1. ready_to_send' \in BOOLEAN /\ switched' \in BOOLEAN
    BY <1>2, AlignTypes DEF AlignTick
  <2> QED BY <1>2, <2>1 DEF AlignTick, Align, ctlVars, IInv, TypeOK, TimersInOrder,
              URTracksOvertime, SharesChosen, StageLimits
<1> QED BY <1>1, <1>2

\* Stage 1, entered by synchronization or by the running controller.
LEMMA Stage1PreservesIInv ==
    ASSUME IInv, time_flag, CS = 1, NEW d \in {0, 1}, NEW view \in Views,
           is_synchronized \/ timer[1] = 0,
           Stage1(d, view), time_flag', is_synchronized',
           ready_to_send' \in BOOLEAN, switched' \in BOOLEAN
    PROVE  IInv'
<1> DEFINE t == timer[1] + 1
<1>1. timer \in [Stages -> Nat] /\ t \in Nat \ {0}
  BY DEF IInv, TypeOK, Stages
<1>2. timer' = [timer EXCEPT ![1] = t] /\ UR' = UR /\ direction_flag' = d
  BY DEF Stage1, Elapsed
<1>3. /\ timer' \in [Stages -> Nat]
      /\ \A s \in Stages : s > 1 => timer'[s] = 0
      /\ timer[2] = 0 /\ timer[3] = 0
  BY <1>1, <1>2 DEF IInv, TimersInOrder, Stages
<1>4. view.waiting \in Nat
  BY TimingAssumption DEF Views
<1>5. CS' \in {1, 2}
  BY DEF Stage1
<1>6. /\ dynamic_G' \in Nat /\ dynamic_GF' \in Nat
      /\ dynamic_G' + dynamic_GF' = 100 * (G + GF)
      /\ dynamic_G' >= LG /\ dynamic_GF' >= LGF
  <2>1. CASE t = 1
    BY <2>1, <1>4, FlowShares DEF Stage1, Elapsed
  <2>2. CASE t # 1
    <3>1. is_synchronized
      BY <2>2, <1>1
    <3> QED BY <3>1, <2>2 DEF Stage1, Elapsed, IInv, SharesChosen, TypeOK
  <2> QED BY <2>1, <2>2
<1>7. TypeOK'
  BY <1>2, <1>3, <1>5, <1>6 DEF IInv, TypeOK, Stages
<1>8. TimersInOrder'
  BY <1>3, <1>5 DEF TimersInOrder, Stages
<1>9. URTracksOvertime'
  BY <1>2, <1>3, <1>1 DEF IInv, URTracksOvertime, Stages
<1>10. SharesChosen'
  BY <1>6 DEF SharesChosen
<1>11. StageLimits'
  BY <1>3, <1>5, <1>6, LimitsAreNat DEF StageLimits, Stages
<1> QED BY <1>7, <1>8, <1>9, <1>10, <1>11 DEF IInv

\* The other stages only run in a synchronized controller; the tick keeps the
\* three flags of the handler.
LEMMA ControlPreservesIInv ==
    ASSUME IInv, time_flag, is_synchronized, NEW view \in Views,
           Control(view), SwitchOnChange(CS),
           UNCHANGED <<time_flag, is_synchronized, ready_to_send>>
    PROVE  IInv'
<1> USE DEF Stages
<1>1. /\ switched' \in BOOLEAN /\ ready_to_send' \in BOOLEAN
      /\ time_flag' \in BOOLEAN /\ is_synchronized' \in BOOLEAN
      /\ time_flag' /\ is_synchronized'
  BY DEF SwitchOnChange, IInv, TypeOK
<1>2. /\ timer \in [Stages -> Nat] /\ UR \in Int /\ direction_flag \in {0, 1}
      /\ dynamic_G \in Nat /\ dynamic_GF \in Nat
  BY DEF IInv, TypeOK
<1>3. /\ \A s \in Stages : s > CS => timer[s] = 0
      /\ UR = InitialUR - 100 * Overtime(timer[2], LG)
                        - 100 * Overtime(timer[3], LGF)
      /\ dynamic_G >= LG /\ dynamic_GF >= LGF
  BY DEF IInv, TimersInOrder, URTracksOvertime, SharesChosen
<1>4. CASE CS = 1 /\ Stage1(direction_flag, view)
  BY <1>1, <1>2, <1>4, Stage1PreservesIInv
<1>5. CASE CS = 2 /\ Stage2(view)
  <2> DEFINE t == timer[2] + 1
  <2>1. /\ t \in Nat /\ timer' = [timer EXCEPT ![2] = t]
        /\ timer' \in [Stages -> Nat] /\ timer'[2] = t
        /\ \A s \in Stages : s # 2 => timer'[s] = timer[s]
    BY <1>2, <1>5 DEF Stage2, Elapsed
  <2>2. /\ UR' = IF 100 * t > LG THEN UR - 100 ELSE UR
        /\ CS' = IF 100 * t >= LG /\ (~view.near \/ 100 * t >= dynamic_G)
                 THEN 3 ELSE 2
        /\ UNCHANGED <<direction_flag, dynamic_G, dynamic_GF>>
    BY <1>5 DEF Stage2, Elapsed
  <2>3. TypeOK'
    BY <1>1, <1>2, <2>1, <2>2 DEF TypeOK
  <2>4. TimersInOrder'
    BY <1>1, <1>3, <1>5, <2>1, <2>2 DEF TimersInOrder
  <2>5. URTracksOvertime'
    <3>1. /\ Overtime(timer[2], LG) \in Int
          /\ Overtime(timer[3], LGF) \in Int
          /\ Overtime(t, LG) = IF 100 * t > LG
                               THEN Overtime(timer[2], LG) + 1
                               ELSE Overtime(timer[2], LG)
      <4>1. timer[2] \in Nat /\ timer[3] \in Nat
        BY <1>2
      <4> QED BY <4>1, LimitsAreNat, OvertimeStep
    <3>2. timer'[2] = t /\ timer'[3] = timer[3]
      BY <2>1
    <3>3. UR' = InitialUR - 100 * Overtime(timer'[2], LG)
                          - 100 * Overtime(timer'[3], LGF)
      BY <1>3, <2>2, <3>1, <3>2, LimitsAreNat
    <3> QED BY <3>3 DEF URTracksOvertime
  <2>6. SharesChosen'
    BY <2>2 DEF IInv, SharesChosen
  <2>7. StageLimits'
    BY <1>2, <1>3, <1>5, <2>1, <2>2, LimitsAreNat DEF IInv, StageLimits
  <2> QED BY <2>3, <2>4, <2>5, <2>6, <2>7 DEF IInv
<1>6. CASE CS = 3 /\ Stage3(view)
  <2> DEFINE t == timer[3] + 1
  <2>1. /\ t \in Nat /\ timer' = [timer EXCEPT ![3] = t]
        /\ timer' \in [Stages -> Nat] /\ timer'[3] = t
        /\ \A s \in Stages : s # 3 => timer'[s] = timer[s]
    BY <1>2, <1>6 DEF Stage3, Elapsed
  <2>2. /\ UR' = IF 100 * t > LGF THEN UR - 100 ELSE UR
        /\ CS' = IF 100 * t >= LGF /\ (~view.onRoad \/ 100 * t >= dynamic_GF)
                 THEN 4 ELSE 3
        /\ UNCHANGED <<direction_flag, dynamic_G, dynamic_GF>>
    BY <1>6 DEF Stage3, Elapsed
  <2>3. TypeOK'
    BY <1>1, <1>2, <2>1, <2>2 DEF TypeOK
  <2>4. TimersInOrder'
    BY <1>1, <1>3, <1>6, <2>1, <2>2 DEF TimersInOrder
  <2>5. URTracksOvertime'
    <3>1. /\ Overtime(timer[3], LGF) \in Int
          /\ Overtime(timer[2], LG) \in Int
          /\ Overtime(t, LGF) = IF 100 * t > LGF
                               THEN Overtime(timer[3], LGF) + 1
                               ELSE Overtime(timer[3], LGF)
      <4>1. timer[2] \in Nat /\ timer[3] \in Nat
        BY <1>2
      <4> QED BY <4>1, LimitsAreNat, OvertimeStep
    <3>2. timer'[3] = t /\ timer'[2] = timer[2]
      BY <2>1
    <3>3. UR' = InitialUR - 100 * Overtime(timer'[2], LG)
                          - 100 * Overtime(timer'[3], LGF)
      BY <1>3, <2>2, <3>1, <3>2, LimitsAreNat
    <3> QED BY <3>3 DEF URTracksOvertime
  <2>6. SharesChosen'
    BY <2>2 DEF IInv, SharesChosen
  <2>7. StageLimits'
    BY <1>2, <1>3, <1>6, <2>1, <2>2, LimitsAreNat DEF IInv, StageLimits
  <2> QED BY <2>3, <2>4, <2>5, <2>6, <2>7 DEF IInv
<1>7. CASE CS = 4 /\ Stage4
  <2> DEFINE t == timer[4] + 1
  <2>1. /\ t \in Nat /\ timer' \in [Stages -> Nat] /\ timer'[4] = t
        /\ \A s \in Stages : s # 4 => timer'[s] = timer[s]
        /\ CS' = IF 100 * t >= UR THEN 5 ELSE 4
        /\ UNCHANGED <<direction_flag, UR, dynamic_G, dynamic_GF>>
    BY <1>2, <1>7 DEF Stage4, Elapsed
  <2>2. TypeOK' /\ TimersInOrder'
    BY <1>1, <1>2, <1>3, <1>7, <2>1 DEF TypeOK, TimersInOrder
  <2>3. URTracksOvertime' /\ SharesChosen'
    BY <1>3, <2>1 DEF IInv, URTracksOvertime, SharesChosen
  <2>4. StageLimits'
    BY <1>2, <1>7, <2>1 DEF IInv, StageLimits
  <2> QED BY <2>2, <2>3, <2>4 DEF IInv
<1>8. CASE CS = 5 /\ Stage5
  <2> DEFINE t == timer[5] + 1
  <2>1. /\ t \in Nat /\ timer' \in [Stages -> Nat] /\ timer'[5] = t
        /\ \A s \in Stages : s # 5 => timer'[s] = timer[s]
        /\ CS' = IF t >= Y THEN 6 ELSE 5
        /\ UNCHANGED <<direction_flag, UR, dynamic_G, dynamic_GF>>
    BY <1>2, <1>8 DEF Stage5, Elapsed
  <2>2. TypeOK' /\ TimersInOrder'
    BY <1>1, <1>2, <1>3, <1>8, <2>1 DEF TypeOK, TimersInOrder
  <2>3. URTracksOvertime' /\ SharesChosen'
    BY <1>3, <2>1 DEF IInv, URTracksOvertime, SharesChosen
  <2>4. StageLimits'
    BY <1>2, <1>8, <2>1, TimingAssumption DEF IInv, StageLimits
  <2> QED BY <2>2, <2>3, <2>4 DEF IInv
<1>9. CASE CS = 6 /\ Stage6(view)
  <2>1. CASE SwitchDirection
    <3>1. /\ timer' = [s \in Stages |-> 0] /\ UR' = InitialUR /\ CS' = 1
          /\ direction_flag' \in {0, 1}
          /\ UNCHANGED <<dynamic_G, dynamic_GF>>
      BY <1>2, <2>1 DEF SwitchDirection
    <3>2. TypeOK' /\ TimersInOrder'
      BY <1>1, <1>2, <3>1, LimitsAreNat DEF TypeOK, TimersInOrder
    <3>3. URTracksOvertime' /\ SharesChosen'
      BY <3>1, LimitsAreNat, OvertimeStep
         DEF IInv, URTracksOvertime, SharesChosen
    <3>4. StageLimits'
      BY <3>1, LimitsAreNat DEF StageLimits
    <3> QED BY <3>2, <3>3, <3>4 DEF IInv
  <2>2. CASE ~AllRedOver(view) /\ ~SwitchDirection
    <3> DEFINE t == timer[6] + 1
    <3>1. /\ t \in Nat /\ timer' \in [Stages -> Nat] /\ timer'[6] = t
          /\ \A s \in Stages : s # 6 => timer'[s] = timer[s]
          /\ UNCHANGED <<CS, direction_flag, UR, dynamic_G, dynamic_GF>>
          /\ 100 * t < LR + ER
      BY <1>2, <1>9, <2>2, LimitsAreNat DEF Stage6, AllRedOver, Elapsed
    <3>2. TypeOK' /\ TimersInOrder'
      BY <1>1, <1>2, <1>9, <3>1 DEF TypeOK, TimersInOrder
    <3>3. URTracksOvertime' /\ SharesChosen'
      BY <1>3, <3>1 DEF IInv, URTracksOvertime, SharesChosen
    <3>4. StageLimits'
      BY <1>2, <1>9, <3>1, LimitsAreNat DEF IInv, StageLimits
    <3> QED BY <3>2, <3>3, <3>4 DEF IInv
  <2> QED BY <1>9, <2>1, <2>2 DEF Stage6
<1> QED BY <1>4, <1>5, <1>6, <1>7, <1>8, <1>9 DEF Control

LEMMA NextPreservesIInv == IInv /\ [Next]_vars => IInv'
<1> SUFFICES ASSUME IInv, [Next]_vars PROVE IInv'
  OBVIOUS
<1>1. ASSUME NEW phase \in Phases, NEW step \in Steps,
             FirstTick(phase, step) \/ AlignTick(phase, step)
      PROVE  IInv'
  BY <1>1, AlignPreservesIInv
<1>2. ASSUME NEW phase \in Phases, NEW step \in Steps, NEW view \in Views,
             SynchronizeTick(phase, step, view)
      PROVE  IInv'
  <2> DEFINE d == IF phase = 1 THEN 0 ELSE 1
  <2>1. /\ time_flag /\ CS = 1 /\ timer[1] = 0 /\ d \in {0, 1}
        /\ Stage1(d, view) /\ time_flag' /\ is_synchronized'
    BY <1>2 DEF SynchronizeTick, IInv, TimersInOrder, Stages
  <2>2. ready_to_send' \in BOOLEAN /\ switched' \in BOOLEAN
    BY <1>2 DEF SynchronizeTick, SwitchOnChange
  <2> QED BY <2>1, <2>2, Stage1PreservesIInv
<1>3. ASSUME NEW view \in Views, ControlTick(view)
      PROVE  IInv'
  BY <1>3, ControlPreservesIInv DEF ControlTick
<1>4. CASE UNCHANGED vars
  BY <1>4 DEF vars, ctlVars, IInv, TypeOK, TimersInOrder, URTracksOvertime,
              SharesChosen, StageLimits
<1> QED BY <1>1, <1>2, <1>3, <1>4 DEF Next

-----------------------------------------------------------------------------
\* The invariant holds in every reachable state of the controller.
LEMMA Invariance == Spec => []IInv
BY InitIInv, NextPreservesIInv, PTL DEF Spec

\* Type correctness of the controller's state.
THEOREM TypeCorrect == Spec => []TypeOK
<1>1. IInv => TypeOK
  BY DEF IInv
<1> QED BY <1>1, Invariance, PTL

\* UR_plus after stages 2 and 3: their overtime, up to the fractions of the
\* limits, has been taken from the pedestrian red.
LEMMA OvertimeValue ==
    ASSUME NEW t \in Nat, NEW L \in Nat, 100 * t >= L
    PROVE  /\ Overtime(t, L) \in Int
           /\ 100 * t - L <= 100 * Overtime(t, L)
           /\ 100 * Overtime(t, L) <= 100 * t - L + 99
BY DEF Overtime

LEMMA BudgetFromIInv == IInv => VehicleGreenBudget
<1> SUFFICES ASSUME IInv, CS \in {5, 6}
             PROVE  VehicleGreen \in (G + GF + R - 1)..(G + GF + R)
  BY DEF VehicleGreenBudget
<1> DEFINE t2 == timer[2]
           t3 == timer[3]
           t4 == timer[4]
           o2 == Overtime(timer[2], LG)
           o3 == Overtime(timer[3], LGF)
<1>1. /\ t2 \in Nat /\ t3 \in Nat /\ t4 \in Nat
      /\ time_flag /\ is_synchronized
      /\ dynamic_G \in Nat /\ dynamic_GF \in Nat /\ UR \in Int
  <2>1. time_flag /\ is_synchronized
    BY DEF IInv, TypeOK, TimersInOrder
  <2> QED BY <2>1 DEF IInv, TypeOK, Stages
<1>2. /\ 100 * t2 >= LG  /\ 100 * (t2 - 1) < dynamic_G
      /\ 100 * t3 >= LGF /\ 100 * (t3 - 1) < dynamic_GF
      /\ t4 >= 1 /\ 100 * t4 >= UR
      /\ t4 = 1 \/ 100 * (t4 - 1) < UR
  BY <1>1 DEF IInv, StageLimits
<1>3. dynamic_G + dynamic_GF = 100 * (G + GF)
  BY <1>1 DEF IInv, SharesChosen
<1>4. /\ o2 \in Int /\ 100 * t2 - LG  <= 100 * o2 /\ 100 * o2 <= 100 * t2 - LG + 99
      /\ o3 \in Int /\ 100 * t3 - LGF <= 100 * o3 /\ 100 * o3 <= 100 * t3 - LGF + 99
  BY <1>1, <1>2, LimitsAreNat, OvertimeValue
<1>5. UR = 100 * (G + GF + R) - LG - LGF - 100 * o2 - 100 * o3
  BY <1>1 DEF IInv, URTracksOvertime, InitialUR
<1>6. t2 + t3 + t4 >= G + GF + R - 1
  BY <1>1, <1>2, <1>4, <1>5, LimitsAreNat, TimingAssumption
<1>7. t2 + t3 + t4 <= G + GF + R
  BY <1>1, <1>2, <1>3, <1>4, <1>5, LimitsAreNat, TimingAssumption
<1> QED BY <1>1, <1>6, <1>7, TimingAssumption DEF VehicleGreen

\* Whatever the cameras and the signal controller report, and for every choice
\* of the timing constants with a red of two seconds or more, the vehicle green
\* of each phase lasts G + GF + R seconds or one second less.
THEOREM VehicleGreenIsFixed == Spec => []VehicleGreenBudget
BY Invariance, BudgetFromIInv, PTL

\* Pedestrian green and flashing green end within the limits of their phase.
THEOREM PedestrianGreenIsKept == Spec => []PedestrianGreenKept
<1>1. IInv => PedestrianGreenKept
  <2> SUFFICES ASSUME IInv, CS \in 4..6
               PROVE  /\ 100 * timer[2] >= LG  /\ 100 * (timer[2] - 1) < dynamic_G
                      /\ 100 * timer[3] >= LGF /\ 100 * (timer[3] - 1) < dynamic_GF
    BY DEF PedestrianGreenKept
  <2>1. is_synchronized
    BY DEF IInv, TypeOK, TimersInOrder
  <2> QED BY <2>1 DEF IInv, StageLimits
<1> QED BY <1>1, Invariance, PTL

\* All red, extended or not, ends within LR + ER.
THEOREM AllRedIsBounded == Spec => []AllRedBounded
<1>1. IInv => AllRedBounded
  <2> SUFFICES ASSUME IInv PROVE 100 * (timer[6] - 1) < LR + ER
    BY DEF AllRedBounded
  <2>1. CASE is_synchronized
    BY <2>1 DEF IInv, StageLimits
  <2>2. CASE ~is_synchronized
    BY <2>2, LimitsAreNat DEF IInv, TimersInOrder, Stages
  <2> QED BY <2>1, <2>2
<1> QED BY <1>1, Invariance, PTL

\* The direction changes only after a complete service of the ending phase.
THEOREM ServiceBeforeDirectionChange == Spec => DirectionChangesAfterService
<1> DEFINE Served == /\ 100 * timer[2] >= LG
                     /\ 100 * timer[3] >= LGF
                     /\ timer[4] >= 1
                     /\ timer[5] >= Y
                     /\ 100 * (timer[6] + 1) >= LR
           Step == (is_synchronized /\ direction_flag' # direction_flag) => Served
<1>1. IInv /\ [Next]_vars => [Step]_vars
  <2> SUFFICES ASSUME IInv, Next, is_synchronized,
                      direction_flag' # direction_flag
               PROVE  Served
    OBVIOUS
  <2>1. time_flag
    BY DEF IInv, TypeOK, TimersInOrder
  <2>2. PICK view \in Views : ControlTick(view)
    BY <2>1 DEF Next, FirstTick, AlignTick, SynchronizeTick
  <2>3. CS = 6 /\ Stage6(view)
    BY <2>2 DEF ControlTick, Control, Stage1, Stage2, Stage3, Stage4, Stage5
  <2>4. AllRedOver(view)
    BY <2>3 DEF Stage6
  <2>5. 100 * (timer[6] + 1) >= LR
    BY <2>4 DEF AllRedOver, Elapsed
  <2> QED BY <2>3, <2>5 DEF IInv, StageLimits
<1> QED BY <1>1, Invariance, PTL DEF Spec, DirectionChangesAfterService

-----------------------------------------------------------------------------
(* The camera matrix.                                                       *)

(* The inductive invariant.                                                 *)

\* The marks of the first k entries of a packet.
MarksUpTo(k, camera, packet, r, c) == {i \in Marks(camera, packet, r, c) : i <= k}

CamTypes ==
    /\ matrix \in [Rows -> [Cols -> 0..MaxCount]]
    /\ waiting_area \in [Cameras -> 0..MaxCount]
    /\ age \in [Cameras -> 0..StaleAfter]
    /\ last \in [Cameras -> Packets \cup {<<>>}]
    /\ cleared \in BOOLEAN
    /\ torn \subseteq Cameras
    /\ seen \in [near : BOOLEAN, onRoad : BOOLEAN, waiting : Nat]

\* How many entries of the packet have been installed.
Installed == Len(last[rx.camera]) - Len(rx.pending)

\* The holder of the mutex is at some entry of the packet it installs, and the
\* second row is zeroed before the first entry is looked at.
RxTypes ==
    \/ rx = Idle
    \/ /\ rx \in [camera : Cameras, toZero : Seq(Rows), pending : Seq(Detections)]
       /\ Len(rx.pending) <= Len(last[rx.camera])
       /\ \A i \in 1..Len(rx.pending) :
             rx.pending[i] = last[rx.camera][Installed + i]
       /\ \/ rx.toZero = <<>>
          \/ /\ rx.toZero = <<CameraRow(rx.camera) + 1>>
             /\ Len(rx.pending) = Len(last[rx.camera])

\* The rows of a camera whose packet is not being installed show all of it.
OthersWhole ==
    \A camera \in Cameras \ {rx.camera}, c \in Cols : \A r \in CameraRows(camera) :
        matrix[r][c] = Cardinality(Marks(camera, last[camera], r, c))

\* The rows of the other one show the entries installed so far.
RefillSoFar ==
    rx.camera \in Cameras =>
        /\ waiting_area[rx.camera] <= Installed
        /\ \A c \in Cols : \A r \in CameraRows(rx.camera) :
              \/ rx.toZero = <<r>>
              \/ matrix[r][c] = Cardinality(
                    MarksUpTo(Installed, rx.camera, last[rx.camera], r, c))

\* Of the rows read so far every second one was counted, at one cell each.
SeenBounded ==
    \/ handler = <<"idle">>
    \/ \E r \in Rows : /\ handler = <<"read", r>>
                       /\ seen.waiting <= MaxCount * (r \div 2)
    \/ handler = <<"decide">> /\ seen.waiting <= 4 * MaxCount

CInv == CamTypes /\ RxTypes /\ OthersWhole /\ RefillSoFar /\ SeenBounded

-----------------------------------------------------------------------------
(* The rows of the cameras and the cells of a packet.                       *)

\* Every camera has two rows of the matrix, and no row has two cameras.
LEMMA RowsOfCameras ==
    /\ \A camera \in Cameras :
          /\ CameraRow(camera) \in Rows /\ CameraRow(camera) + 1 \in Rows
          /\ CameraRows(camera) \subseteq Rows
    /\ \A a, b \in Cameras : a # b => CameraRows(a) \cap CameraRows(b) = {}
    /\ 0 \notin Cameras
<1>1. Cameras \subseteq 3..6
  BY CamerasAssumption
<1> QED BY <1>1 DEF CameraRows, CameraRow, Rows

\* A detection on the crossing belongs in a cell of its camera's rows.
LEMMA CellOfDetection ==
    ASSUME NEW camera \in Cameras, NEW p, OnCrossing(p)
    PROVE  RowOf(camera, p) \in CameraRows(camera) /\ Location(p) \in Cols
<1>1. CameraRow(camera) \in Int
  BY RowsOfCameras DEF Rows
<1> QED BY <1>1 DEF OnCrossing, RowOf, CameraRows

\* A zeroed row is a row of the matrix.
LEMMA ZeroRowType ==
    ZeroRow \in [Cols -> 0..MaxCount] /\ \A c \in Cols : ZeroRow[c] = 0
BY CamerasAssumption DEF ZeroRow

\* What a camera last sent is a list of at most MaxCount detections.
LEMMA LastIsPacket ==
    ASSUME CamTypes, NEW camera \in Cameras
    PROVE  /\ last[camera] \in Seq(Detections)
           /\ Len(last[camera]) \in 0..MaxCount
<1>1. last[camera] \in Packets \cup {<<>>}
  BY DEF CamTypes
<1>2. \A packet \in Packets : packet \in Seq(Detections) /\ Len(packet) <= MaxCount
  BY CamerasAssumption
<1>3. MaxCount \in Nat
  BY CamerasAssumption
<1>4. CASE last[camera] \in Packets
  <2>1. last[camera] \in Seq(Detections) /\ Len(last[camera]) <= MaxCount
    BY <1>2, <1>4
  <2>2. Len(last[camera]) \in Nat
    BY <2>1
  <2> QED BY <2>1, <2>2, <1>3
<1>5. CASE last[camera] = <<>>
  BY <1>5, <1>3
<1> QED BY <1>1, <1>4, <1>5

\* The marks of no entry, of all entries, and how many there can be.
LEMMA MarksBounds ==
    ASSUME NEW packet, Len(packet) \in Nat, NEW k \in 0..Len(packet),
           NEW camera, NEW r, NEW c
    PROVE  /\ IsFiniteSet(MarksUpTo(k, camera, packet, r, c))
           /\ Cardinality(MarksUpTo(k, camera, packet, r, c)) \in 0..k
           /\ MarksUpTo(0, camera, packet, r, c) = {}
           /\ MarksUpTo(Len(packet), camera, packet, r, c)
                 = Marks(camera, packet, r, c)
<1> DEFINE M == MarksUpTo(k, camera, packet, r, c)
<1>1. M \in SUBSET (1..k)
  BY DEF MarksUpTo, Marks
<1>2. IsFiniteSet(1..k) /\ Cardinality(1..k) = k
  BY FS_Interval
<1>3. IsFiniteSet(M) /\ Cardinality(M) <= k
  BY <1>1, <1>2, FS_Subset
<1>4. Cardinality(M) \in Nat
  BY <1>3, FS_CardinalityType
<1>5. Cardinality(M) \in 0..k
  BY <1>3, <1>4
<1>6. /\ MarksUpTo(0, camera, packet, r, c) = {}
      /\ MarksUpTo(Len(packet), camera, packet, r, c) = Marks(camera, packet, r, c)
  BY DEF MarksUpTo, Marks
<1> QED BY <1>3, <1>5, <1>6

\* One more entry adds one mark to the cell it belongs in and to no other.
LEMMA MarksNext ==
    ASSUME NEW packet, Len(packet) \in Nat, NEW k \in 0..(Len(packet) - 1),
           NEW camera, NEW r, NEW c
    PROVE  Cardinality(MarksUpTo(k + 1, camera, packet, r, c)) =
              IF /\ OnCrossing(packet[k + 1])
                 /\ RowOf(camera, packet[k + 1]) = r
                 /\ Location(packet[k + 1]) = c
              THEN Cardinality(MarksUpTo(k, camera, packet, r, c)) + 1
              ELSE Cardinality(MarksUpTo(k, camera, packet, r, c))
<1> DEFINE Here == /\ OnCrossing(packet[k + 1])
                   /\ RowOf(camera, packet[k + 1]) = r
                   /\ Location(packet[k + 1]) = c
           M(j) == MarksUpTo(j, camera, packet, r, c)
<1>1. IsFiniteSet(M(k)) /\ Cardinality(M(k)) \in Nat
  BY MarksBounds
<1>2. k + 1 \in 1..Len(packet) /\ k + 1 \notin M(k)
  BY DEF MarksUpTo
<1>3. CASE Here
  <2>1. M(k + 1) = M(k) \cup {k + 1}
    <3>1. k + 1 \in M(k + 1)
      BY <1>2, <1>3 DEF MarksUpTo, Marks
    <3>2. \A i : i \in M(k + 1) <=> i \in M(k) \/ i = k + 1
      BY <3>1, <1>2 DEF MarksUpTo, Marks
    <3> QED BY <3>2
  <2> QED BY <2>1, <1>1, <1>2, <1>3, FS_AddElement
<1>4. CASE ~Here
  <2>1. k + 1 \notin Marks(camera, packet, r, c)
    BY <1>4 DEF Marks
  <2>2. M(k + 1) = M(k)
    BY <2>1 DEF MarksUpTo, Marks
  <2> QED BY <2>2, <1>4
<1> QED BY <1>3, <1>4

-----------------------------------------------------------------------------
(* What a step on one camera's rows leaves of the others.                   *)

\* A step that changes only the rows and the last packet of the camera whose
\* packet is being installed keeps the rows of the other cameras.
LEMMA OthersKept ==
    ASSUME OthersWhole, NEW here \in Cameras,
           rx.camera = here \/ rx.camera = 0, rx'.camera = here,
           \A r \in Rows \ CameraRows(here) : matrix'[r] = matrix[r],
           \A camera \in Cameras \ {here} : last'[camera] = last[camera]
    PROVE  OthersWhole'
<1> SUFFICES ASSUME NEW camera \in Cameras \ {here}, NEW c \in Cols,
                    NEW r \in CameraRows(camera)
             PROVE  matrix'[r][c] = Cardinality(Marks(camera, last'[camera], r, c))
  BY DEF OthersWhole
<1>1. r \in Rows \ CameraRows(here)
  BY RowsOfCameras
<1>2. camera # rx.camera
  BY RowsOfCameras
<1>3. matrix[r][c] = Cardinality(Marks(camera, last[camera], r, c))
  BY <1>2 DEF OthersWhole
<1> QED BY <1>1, <1>3

-----------------------------------------------------------------------------
LEMMA InitCInv == CInit => CInv
<1> SUFFICES ASSUME CInit PROVE CInv
  OBVIOUS
<1> USE DEF CInit, CameraInit
<1>0. MaxCount \in Nat
  BY CamerasAssumption
<1>1. CamTypes
  BY <1>0 DEF CamTypes, ZeroRow, Nothing, StaleAfter
<1>2. RxTypes
  BY DEF RxTypes
<1>3. OthersWhole
  <2> SUFFICES ASSUME NEW camera \in Cameras, NEW c \in Cols,
                      NEW r \in CameraRows(camera)
               PROVE  matrix[r][c] = Cardinality(Marks(camera, last[camera], r, c))
    BY DEF OthersWhole
  <2>1. r \in Rows
    BY RowsOfCameras
  <2>2. last[camera] = <<>>
    OBVIOUS
  <2>3. Marks(camera, <<>>, r, c) = {}
    BY DEF Marks
  <2> QED BY <2>1, <2>2, <2>3, FS_EmptySet DEF ZeroRow
<1>4. RefillSoFar
  BY RowsOfCameras DEF RefillSoFar, Idle
<1>5. SeenBounded
  BY DEF SeenBounded
<1> QED BY <1>1, <1>2, <1>3, <1>4, <1>5 DEF CInv

\* A packet is taken in: its rows start again from nothing.
LEMMA BeginRxCInv ==
    ASSUME CInv, NEW camera \in Cameras, NEW packet \in Packets,
           BeginRx(camera, packet)
    PROVE  CInv'
<1> USE DEF BeginRx
<1>0. /\ CamTypes /\ OthersWhole /\ SeenBounded /\ rx = Idle /\ MaxCount \in Nat
      /\ packet \in Seq(Detections) /\ Len(packet) \in Nat
  BY CamerasAssumption DEF CInv
<1>1. CamTypes'
  <2>1. matrix' \in [Rows -> [Cols -> 0..MaxCount]]
    BY <1>0, ZeroRowType DEF CamTypes
  <2>2. waiting_area' \in [Cameras -> 0..MaxCount]
    BY <1>0 DEF CamTypes
  <2>3. age' \in [Cameras -> 0..StaleAfter]
    BY <1>0 DEF CamTypes, StaleAfter
  <2>4. last' \in [Cameras -> Packets \cup {<<>>}]
    BY <1>0 DEF CamTypes
  <2>5. cleared' \in BOOLEAN /\ torn' \subseteq Cameras
    BY <1>0 DEF NoteClear, CamTypes
  <2> QED BY <1>0, <2>1, <2>2, <2>3, <2>4, <2>5 DEF CamTypes
<1>2. /\ rx'.camera = camera /\ rx'.pending = packet
      /\ rx'.toZero = <<CameraRow(camera) + 1>> /\ last'[camera] = packet
      /\ waiting_area'[camera] = 0
  BY <1>0 DEF CamTypes
<1>3. RxTypes'
  <2>1. rx' \in [camera : Cameras, toZero : Seq(Rows), pending : Seq(Detections)]
    BY <1>0, RowsOfCameras
  <2>2. Installed' = 0
    BY <1>0, <1>2 DEF Installed
  <2>3. \A i \in 1..Len(packet) : packet[i] = packet[Installed' + i]
    BY <2>2, <1>0
  <2> QED BY <2>1, <2>3, <1>2, <1>0 DEF RxTypes
<1>4. OthersWhole'
  <2>1. rx.camera = 0
    BY <1>0 DEF Idle
  <2>2. \A r \in Rows \ CameraRows(camera) : matrix'[r] = matrix[r]
    BY <1>0 DEF CamTypes, CameraRows
  <2>3. \A other \in Cameras \ {camera} : last'[other] = last[other]
    BY <1>0 DEF CamTypes
  <2> QED BY <1>0, <1>2, <2>1, <2>2, <2>3, OthersKept
<1>5. RefillSoFar'
  <2>1. Installed' = 0
    BY <1>0, <1>2 DEF Installed
  <2>2. ASSUME NEW c \in Cols, NEW r \in CameraRows(camera)
        PROVE  \/ rx'.toZero = <<r>>
               \/ matrix'[r][c] = Cardinality(MarksUpTo(0, camera, packet, r, c))
    <3>1. CASE r = CameraRow(camera) + 1
      BY <3>1, <1>2
    <3>2. CASE r = CameraRow(camera)
      <4>1. matrix'[r][c] = 0
        BY <3>2, <1>0, RowsOfCameras DEF CamTypes, ZeroRow
      <4> QED BY <4>1, <1>0, MarksBounds, FS_EmptySet
    <3> QED BY <3>1, <3>2 DEF CameraRows
  <2> QED BY <2>1, <2>2, <1>2 DEF RefillSoFar
<1>6. SeenBounded'
  BY <1>0 DEF SeenBounded
<1> QED BY <1>1, <1>3, <1>4, <1>5, <1>6 DEF CInv

\* While a packet is being installed its camera is one of the cameras.
LEMMA RxBusy ==
    ASSUME CInv, rx # Idle
    PROVE  /\ rx.camera \in Cameras
           /\ rx \in [camera : Cameras, toZero : Seq(Rows), pending : Seq(Detections)]
           /\ Len(rx.pending) \in 0..Len(last[rx.camera])
           /\ Installed \in 0..Len(last[rx.camera])
           /\ last[rx.camera] \in Seq(Detections)
           /\ Len(last[rx.camera]) \in 0..MaxCount
<1>1. /\ rx \in [camera : Cameras, toZero : Seq(Rows), pending : Seq(Detections)]
      /\ Len(rx.pending) <= Len(last[rx.camera])
  BY DEF CInv, RxTypes
<1>2. rx.camera \in Cameras /\ Len(rx.pending) \in Nat
  BY <1>1
<1>3. last[rx.camera] \in Seq(Detections) /\ Len(last[rx.camera]) \in 0..MaxCount
  BY <1>2, LastIsPacket DEF CInv
<1> QED BY <1>1, <1>2, <1>3 DEF Installed

\* The second row is zeroed.
LEMMA ZeroRxCInv == ASSUME CInv, ZeroRx PROVE CInv'
<1> USE DEF ZeroRx
<1> DEFINE here == rx.camera
<1>0. /\ CamTypes /\ OthersWhole /\ SeenBounded /\ RefillSoFar /\ RxTypes
      /\ rx # Idle
  BY DEF CInv, Idle
<1>1. /\ here \in Cameras
      /\ rx \in [camera : Cameras, toZero : Seq(Rows), pending : Seq(Detections)]
      /\ last[here] \in Seq(Detections) /\ Len(last[here]) \in Nat
  BY <1>0, RxBusy
<1>2. rx.toZero = <<CameraRow(here) + 1>> /\ Len(rx.pending) = Len(last[here])
  BY <1>0 DEF RxTypes
<1>3. /\ matrix' = [matrix EXCEPT ![CameraRow(here) + 1] = ZeroRow]
      /\ rx'.toZero = <<>> /\ rx'.camera = here /\ rx'.pending = rx.pending
      /\ last' = last
  BY <1>1, <1>2
<1>4. CamTypes'
  BY <1>0, <1>3, ZeroRowType DEF CamTypes
<1>5. RxTypes'
  <2>1. rx' \in [camera : Cameras, toZero : Seq(Rows), pending : Seq(Detections)]
    <3>1. rx' = [rx EXCEPT !.toZero = <<>>]
      BY <1>2
    <3> QED BY <3>1, <1>1
  <2>2. \A i \in 1..Len(rx.pending) :
           rx.pending[i] = last[here][Installed + i]
    BY <1>0 DEF RxTypes
  <2>3. Installed' = Installed
    BY <1>3 DEF Installed
  <2> QED BY <2>1, <2>2, <2>3, <1>2, <1>3, <1>1 DEF RxTypes
<1>6. OthersWhole'
  <2>1. \A r \in Rows \ CameraRows(here) : matrix'[r] = matrix[r]
    BY <1>0, <1>3 DEF CamTypes, CameraRows
  <2> QED BY <1>0, <1>1, <1>3, <2>1, OthersKept
<1>7. RefillSoFar'
  <2>1. Installed = 0 /\ Installed' = 0
    BY <1>1, <1>2, <1>3 DEF Installed
  <2>2. waiting_area'[here] <= 0
    BY <1>0, <1>1, <2>1 DEF RefillSoFar
  <2>3. ASSUME NEW c \in Cols, NEW r \in CameraRows(here)
        PROVE  matrix'[r][c] = Cardinality(MarksUpTo(0, here, last[here], r, c))
    <3>1. CASE r = CameraRow(here) + 1
      <4>1. matrix'[r][c] = 0
        BY <3>1, <1>0, <1>1, <1>3, RowsOfCameras, ZeroRowType DEF CamTypes
      <4>2. MarksUpTo(0, here, last[here], r, c) = {}
        BY DEF MarksUpTo, Marks
      <4> QED BY <4>1, <4>2, FS_EmptySet
    <3>2. CASE r = CameraRow(here)
      <4>0. CameraRow(here) \in Rows
        BY <1>1, RowsOfCameras
      <4>1. CameraRow(here) \in Int
        BY <4>0 DEF Rows
      <4>2. matrix'[r] = matrix[r]
        BY <3>2, <4>1, <1>0, <1>1, <1>3, RowsOfCameras DEF CamTypes
      <4>3. rx.toZero # <<r>>
        BY <4>1, <3>2, <1>2
      <4> QED BY <4>2, <4>3, <1>0, <1>1, <2>1 DEF RefillSoFar
    <3> QED BY <3>1, <3>2 DEF CameraRows
  <2> QED BY <2>1, <2>2, <2>3, <1>3 DEF RefillSoFar
<1>8. SeenBounded'
  BY <1>0 DEF SeenBounded
<1> QED BY <1>4, <1>5, <1>6, <1>7, <1>8 DEF CInv

\* One entry is installed: the cell it belongs in counts one more.
LEMMA InstallRxCInv == ASSUME CInv, InstallRx PROVE CInv'
<1> DEFINE here == rx.camera
           k == Installed
           p == Head(rx.pending)
<1>0. /\ CamTypes /\ OthersWhole /\ SeenBounded /\ RefillSoFar /\ RxTypes
      /\ rx # Idle /\ rx.toZero = <<>> /\ rx.pending # <<>> /\ MaxCount \in Nat
  BY CamerasAssumption DEF CInv, Idle, InstallRx
<1>1. /\ here \in Cameras
      /\ rx \in [camera : Cameras, toZero : Seq(Rows), pending : Seq(Detections)]
      /\ last[here] \in Seq(Detections)
      /\ Len(last[here]) \in 0..MaxCount
      /\ k \in 0..Len(last[here])
  BY <1>0, RxBusy
<1>2. /\ Len(rx.pending) \in Nat /\ Len(rx.pending) > 0
      /\ Len(Tail(rx.pending)) = Len(rx.pending) - 1
      /\ Tail(rx.pending) \in Seq(Detections)
      /\ \A i \in 1..(Len(rx.pending) - 1) : Tail(rx.pending)[i] = rx.pending[i + 1]
      /\ p = rx.pending[1]
  BY <1>0, <1>1
<1>3. /\ rx'.camera = here /\ rx'.toZero = <<>> /\ rx'.pending = Tail(rx.pending)
      /\ last' = last
      /\ rx' \in [camera : Cameras, toZero : Seq(Rows), pending : Seq(Detections)]
  BY <1>0, <1>1, <1>2 DEF InstallRx
<1>4. \A i \in 1..Len(rx.pending) : rx.pending[i] = last[here][k + i]
  BY <1>0 DEF RxTypes
<1>5. p = last[here][k + 1] /\ k \in 0..(Len(last[here]) - 1) /\ Installed' = k + 1
  BY <1>1, <1>2, <1>3, <1>4 DEF Installed
<1>6. \A r \in CameraRows(here), c \in Cols :
         matrix[r][c] = Cardinality(MarksUpTo(k, here, last[here], r, c))
  BY <1>0, <1>1 DEF RefillSoFar
<1>7. \A r \in CameraRows(here), c \in Cols :
         matrix[r][c] \in 0..k /\ matrix[r][c] + 1 \in 0..MaxCount
  <2> SUFFICES ASSUME NEW r \in CameraRows(here), NEW c \in Cols
               PROVE  matrix[r][c] \in 0..k /\ matrix[r][c] + 1 \in 0..MaxCount
    OBVIOUS
  <2>1. Len(last[here]) \in Nat /\ k \in Nat /\ k + 1 <= MaxCount
    BY <1>0, <1>1, <1>5
  <2> HIDE DEF k, here
  <2>2. Cardinality(MarksUpTo(k, here, last[here], r, c)) \in 0..k
    BY <2>1, <1>1, MarksBounds
  <2>3. matrix[r][c] \in 0..k
    BY <2>2, <1>6
  <2> QED BY <2>1, <2>3, <1>0
<1>8. /\ matrix' \in [Rows -> [Cols -> 0..MaxCount]]
      /\ \A r \in Rows \ CameraRows(here) : matrix'[r] = matrix[r]
      /\ \A r \in Rows, c \in Cols :
           matrix'[r][c] = IF OnCrossing(p) /\ RowOf(here, p) = r /\ Location(p) = c
                           THEN matrix[r][c] + 1 ELSE matrix[r][c]
  <2>1. CASE OnCrossing(p)
    <3>1. /\ RowOf(here, p) \in CameraRows(here) /\ RowOf(here, p) \in Rows
          /\ Location(p) \in Cols
      BY <2>1, <1>1, CellOfDetection, RowsOfCameras
    <3>2. matrix' = [matrix EXCEPT ![RowOf(here, p)][Location(p)] = @ + 1]
      BY <2>1 DEF InstallRx
    <3>3. matrix' \in [Rows -> [Cols -> 0..MaxCount]]
      BY <3>1, <3>2, <1>7, <1>0 DEF CamTypes
    <3>4. \A r \in Rows \ CameraRows(here) : matrix'[r] = matrix[r]
      BY <3>1, <3>2, <1>0 DEF CamTypes
    <3>5. \A r \in Rows, c \in Cols :
             matrix'[r][c] = IF RowOf(here, p) = r /\ Location(p) = c
                             THEN matrix[r][c] + 1 ELSE matrix[r][c]
      BY <3>1, <3>2, <1>0 DEF CamTypes
    <3> QED BY <3>3, <3>4, <3>5, <2>1
  <2>2. CASE ~OnCrossing(p)
    BY <2>2, <1>0 DEF InstallRx, CamTypes
  <2> QED BY <2>1, <2>2
<1>9. /\ waiting_area' \in [Cameras -> 0..MaxCount]
      /\ waiting_area'[here] <= k + 1
  <2>1. waiting_area[here] \in Nat /\ waiting_area[here] <= k
    BY <1>0, <1>1 DEF RefillSoFar, CamTypes
  <2>2. \/ waiting_area' = [waiting_area EXCEPT ![here] = waiting_area[here]]
        \/ waiting_area' = [waiting_area EXCEPT ![here] = waiting_area[here] + 1]
    BY DEF InstallRx
  <2>3. k + 1 <= MaxCount /\ k \in Nat
    BY <1>0, <1>1, <1>5
  <2>4. waiting_area \in [Cameras -> 0..MaxCount]
    BY <1>0 DEF CamTypes
  <2>5. waiting_area[here] \in 0..MaxCount /\ waiting_area[here] + 1 \in 0..MaxCount
    BY <2>1, <2>3, <1>0
  <2> HIDE DEF k, here
  <2> QED BY <2>1, <2>2, <2>3, <2>4, <2>5, <1>1
<1>10. CamTypes'
  BY <1>0, <1>8, <1>9 DEF CamTypes, InstallRx
<1>11. RxTypes'
  <2>1. Len(rx'.pending) = Len(rx.pending) - 1
    BY <1>2, <1>3
  <2>2. ASSUME NEW i \in 1..Len(rx'.pending)
        PROVE  rx'.pending[i] = last'[here][Installed' + i]
    <3>1. i \in 1..(Len(rx.pending) - 1) /\ i + 1 \in 1..Len(rx.pending)
      BY <2>1, <1>2
    <3>2. rx'.pending[i] = last[here][k + (i + 1)]
      BY <3>1, <1>2, <1>3, <1>4
    <3>3. Installed' + i = k + (i + 1)
      BY <1>5, <3>1
    <3> QED BY <3>2, <3>3, <1>3
  <2>3. Len(rx'.pending) <= Len(last'[here])
    BY <2>1, <1>1, <1>2, <1>3 DEF Installed
  <2> QED BY <2>2, <2>3, <1>3 DEF RxTypes
<1>12. OthersWhole'
  BY <1>0, <1>1, <1>3, <1>8, OthersKept
<1>13. RefillSoFar'
  <2>1. ASSUME NEW c \in Cols, NEW r \in CameraRows(here)
        PROVE  matrix'[r][c] = Cardinality(MarksUpTo(k + 1, here, last[here], r, c))
    <3>1. r \in Rows
      BY <1>1, RowsOfCameras
    <3>2. Len(last[here]) \in Nat
      BY <1>1
    <3>3. matrix[r][c] = Cardinality(MarksUpTo(k, here, last[here], r, c))
      BY <1>6
    <3> HIDE DEF k, here, p
    <3>4. Cardinality(MarksUpTo(k + 1, here, last[here], r, c)) =
             IF OnCrossing(p) /\ RowOf(here, p) = r /\ Location(p) = c
             THEN Cardinality(MarksUpTo(k, here, last[here], r, c)) + 1
             ELSE Cardinality(MarksUpTo(k, here, last[here], r, c))
      BY <3>2, <1>5, MarksNext
    <3> QED BY <3>1, <3>3, <3>4, <1>8
  <2> QED BY <2>1, <1>3, <1>5, <1>9 DEF RefillSoFar
<1>14. SeenBounded'
  BY <1>0 DEF SeenBounded, InstallRx
<1> QED BY <1>10, <1>11, <1>12, <1>13, <1>14 DEF CInv

\* The mutex is released: every camera's rows are whole again.
LEMMA EndRxCInv == ASSUME CInv, EndRx PROVE CInv'
<1> USE DEF EndRx
<1> DEFINE here == rx.camera
<1>0. /\ CamTypes /\ OthersWhole /\ SeenBounded /\ RefillSoFar /\ rx # Idle
  BY DEF CInv
<1>1. here \in Cameras /\ Len(last[here]) \in Nat
  BY <1>0, RxBusy
<1>2. Installed = Len(last[here])
  BY <1>1 DEF Installed
<1>3. CamTypes' /\ SeenBounded'
  BY <1>0 DEF CamTypes, SeenBounded
<1>4. RxTypes'
  BY DEF RxTypes
<1>5. OthersWhole'
  <2> SUFFICES ASSUME NEW camera \in Cameras, NEW c \in Cols,
                      NEW r \in CameraRows(camera)
               PROVE  matrix[r][c] = Cardinality(Marks(camera, last[camera], r, c))
    BY DEF OthersWhole
  <2>1. CASE camera = here
    <3>1. matrix[r][c] = Cardinality(MarksUpTo(Len(last[here]), here, last[here], r, c))
      BY <2>1, <1>0, <1>1, <1>2 DEF RefillSoFar
    <3> QED BY <3>1, <2>1, <1>1, MarksBounds
  <2>2. CASE camera # here
    BY <2>2, <1>0 DEF OthersWhole
  <2> QED BY <2>1, <2>2
<1>6. RefillSoFar'
  BY RowsOfCameras DEF RefillSoFar, Idle
<1> QED BY <1>3, <1>4, <1>5, <1>6 DEF CInv

\* The watchdog empties the rows of silent cameras, which then said nothing.
LEMMA WatchdogCInv == ASSUME CInv, Watchdog PROVE CInv'
<1> DEFINE gone == {camera \in Cameras : Silent(camera) \/ ~time_flag}
<1>0. /\ CamTypes /\ OthersWhole /\ rx = Idle /\ rx' = rx /\ MaxCount \in Nat
  BY CamerasAssumption DEF CInv, Watchdog
<1>1. /\ matrix' = [r \in Rows |->
             IF \E camera \in gone : r \in CameraRows(camera) THEN ZeroRow
             ELSE matrix[r]]
      /\ waiting_area' = [camera \in Cameras |->
             IF camera \in gone THEN 0 ELSE waiting_area[camera]]
      /\ last' = [camera \in Cameras |->
             IF camera \in gone THEN <<>> ELSE last[camera]]
      /\ age' = [camera \in Cameras |->
             IF age[camera] < StaleAfter THEN age[camera] + 1 ELSE age[camera]]
      /\ cleared' \in BOOLEAN /\ torn' = {} /\ seen' = Nothing /\ handler' = <<"read", 0>>
  BY DEF Watchdog, TrulyOnRoad
<1> HIDE DEF gone
<1>2. CamTypes'
  BY <1>0, <1>1, ZeroRowType DEF CamTypes, StaleAfter, Nothing
<1>3. RxTypes' /\ RefillSoFar'
  BY <1>0, RowsOfCameras DEF RxTypes, RefillSoFar, Idle
<1>4. OthersWhole'
  <2> SUFFICES ASSUME NEW camera \in Cameras, NEW c \in Cols,
                      NEW r \in CameraRows(camera)
               PROVE  matrix'[r][c] = Cardinality(Marks(camera, last'[camera], r, c))
    BY DEF OthersWhole
  <2>1. r \in Rows /\ \A other \in Cameras : r \in CameraRows(other) => other = camera
    BY RowsOfCameras
  <2>2. CASE camera \in gone
    <3>1. matrix'[r][c] = 0 /\ last'[camera] = <<>>
      BY <2>1, <2>2, <1>1, ZeroRowType
    <3>2. Marks(camera, <<>>, r, c) = {}
      BY DEF Marks
    <3> QED BY <3>1, <3>2, FS_EmptySet
  <2>3. CASE camera \notin gone
    <3>1. gone \subseteq Cameras
      BY DEF gone
    <3>2. matrix'[r][c] = matrix[r][c] /\ last'[camera] = last[camera]
      BY <2>1, <2>3, <3>1, <1>1
    <3>3. camera # rx.camera
      BY <1>0, RowsOfCameras DEF Idle
    <3> QED BY <3>2, <3>3, <1>0 DEF OthersWhole
  <2> QED BY <2>2, <2>3
<1>5. SeenBounded'
  <2>1. seen'.waiting = 0 /\ 0 \in Rows /\ 0 \div 2 = 0
    BY <1>1 DEF Nothing, Rows
  <2> QED BY <2>1, <1>0, <1>1 DEF SeenBounded
<1> QED BY <1>2, <1>3, <1>4, <1>5 DEF CInv

\* A row is read: it adds one of its cells at most, every second row.
LEMMA ReadRowCInv == ASSUME CInv, ReadRow PROVE CInv'
<1>0. /\ CamTypes /\ OthersWhole /\ RefillSoFar /\ RxTypes /\ SeenBounded
      /\ MaxCount \in Nat
  BY CamerasAssumption DEF CInv
<1>1. PICK r \in Rows : /\ handler = <<"read", r>>
                        /\ seen.waiting <= MaxCount * (r \div 2)
  BY <1>0 DEF ReadRow, SeenBounded
<1>2. /\ UNCHANGED <<matrix, waiting_area, age, rx, last, cleared, torn>>
      /\ seen' = [near    |-> seen.near \/ \E c \in 1..3 : matrix[r][c] > 0,
                  onRoad  |-> seen.onRoad \/ \E c \in 1..10 : matrix[r][c] > 0,
                  waiting |-> seen.waiting + (IF r % 2 = 1 THEN matrix[r][0] ELSE 0)]
      /\ handler' = IF r + 1 \in Rows THEN <<"read", r + 1>> ELSE <<"decide">>
  BY <1>1 DEF ReadRow
<1>3. matrix[r][0] \in 0..MaxCount /\ seen.waiting \in Nat
      /\ seen.near \in BOOLEAN /\ seen.onRoad \in BOOLEAN
  BY <1>0 DEF CamTypes, Cols, cols
<1>4. /\ seen'.waiting \in Nat
      /\ seen'.waiting <= MaxCount * (r \div 2) + (IF r % 2 = 1 THEN MaxCount ELSE 0)
  <2>1. seen'.waiting = seen.waiting + (IF r % 2 = 1 THEN matrix[r][0] ELSE 0)
    BY <1>2
  <2>2. MaxCount * (r \div 2) \in Int
    BY <1>0 DEF Rows
  <2> QED BY <2>1, <2>2, <1>0, <1>1, <1>3
<1>5. MaxCount * (r \div 2) + (IF r % 2 = 1 THEN MaxCount ELSE 0)
        = MaxCount * ((r + 1) \div 2)
  <2>1. r \in {0, 1, 2, 3, 4, 5, 6, 7}
    BY DEF Rows
  <2> QED BY <2>1, <1>0
<1>6. seen' \in [near : BOOLEAN, onRoad : BOOLEAN, waiting : Nat]
  <2> DEFINE near == seen.near \/ \E c \in 1..3 : matrix[r][c] > 0
             onRoad == seen.onRoad \/ \E c \in 1..10 : matrix[r][c] > 0
  <2>1. near \in BOOLEAN /\ onRoad \in BOOLEAN
    BY Zenon
  <2>2. seen' = [near |-> near, onRoad |-> onRoad, waiting |-> seen'.waiting]
    BY <1>2, Zenon
  <2> HIDE DEF near, onRoad
  <2> QED BY <2>1, <2>2, <1>4
<1>7. CamTypes'
  BY <1>0, <1>2, <1>6 DEF CamTypes
<1>8. RxTypes' /\ OthersWhole' /\ RefillSoFar'
  BY <1>0, <1>2 DEF RxTypes, OthersWhole, RefillSoFar, Installed
<1>9. SeenBounded'
  <2>1. CASE r + 1 \in Rows
    BY <2>1, <1>2, <1>4, <1>5 DEF SeenBounded
  <2>2. CASE r + 1 \notin Rows
    <3>1. r = 7
      BY <2>2 DEF Rows
    <3>2. MaxCount * ((r + 1) \div 2) = 4 * MaxCount
      BY <3>1, <1>0
    <3> QED BY <2>2, <3>2, <1>2, <1>4, <1>5 DEF SeenBounded
  <2> QED BY <2>1, <2>2
<1> QED BY <1>7, <1>8, <1>9 DEF CInv

\* The rest of the handler touches nothing the cameras share.
LEMMA DecideCInv ==
    ASSUME CInv, NEW phase \in Phases, NEW step \in Steps, Decide(phase, step)
    PROVE  CInv'
<1>1. CamTypes'
  BY DEF CInv, CamTypes, Decide
<1>2. RxTypes' /\ OthersWhole' /\ RefillSoFar'
  BY DEF CInv, RxTypes, OthersWhole, RefillSoFar, Installed, Decide
<1>3. SeenBounded'
  BY DEF SeenBounded, Decide
<1> QED BY <1>1, <1>2, <1>3 DEF CInv

\* Every step keeps the invariant, one lemma for each action.
LEMMA NextCInv == ASSUME CInv, [CNext]_allVars PROVE CInv'
<1>1. ASSUME NEW camera \in Cameras, NEW packet \in Packets, BeginRx(camera, packet)
      PROVE  CInv'
  BY <1>1, BeginRxCInv
<1>2. CASE RxStep
  BY <1>2, ZeroRxCInv, InstallRxCInv, EndRxCInv DEF RxStep
<1>3. CASE HandlerStep
  BY <1>3, WatchdogCInv, ReadRowCInv, DecideCInv DEF HandlerStep
<1>4. CASE UNCHANGED allVars
  <2>1. UNCHANGED camVars
    BY <1>4 DEF allVars
  <2>2. CamTypes' /\ SeenBounded'
    BY <2>1 DEF camVars, CInv, CamTypes, SeenBounded
  <2>3. RxTypes' /\ OthersWhole'
    BY <2>1 DEF camVars, CInv, RxTypes, Installed, OthersWhole
  <2>4. RefillSoFar'
    BY <2>1 DEF camVars, CInv, RefillSoFar, Installed
  <2> QED BY <2>2, <2>3, <2>4 DEF CInv
<1> QED BY <1>1, <1>2, <1>3, <1>4 DEF CNext

\* The inductive invariant holds in every reachable state.
LEMMA CInvHolds == CSpec => []CInv
<1>1. CInit => CInv
  BY InitCInv
<1>2. CInv /\ [CNext]_allVars => CInv'
  BY NextCInv
<1> QED BY <1>1, <1>2, PTL DEF CSpec

-----------------------------------------------------------------------------
\* While no packet is being installed, every cell of the matrix counts exactly
\* the detections of the last packet of its camera that fall in that cell: no
\* interleaving of packet handlers and watchdog under matrix_mutex_plus loses,
\* duplicates or mixes entries, and nothing ever counts more than one packet.
THEOREM MatrixIsLastPackets == CSpec => []MatrixShowsLastPackets
<1>1. CInv => MatrixShowsLastPackets
  <2> SUFFICES ASSUME CInv PROVE MatrixShowsLastPackets
    OBVIOUS
  <2>1. rx.camera \in Cameras \cup {0}
    <3>1. CASE rx = Idle
      BY <3>1 DEF Idle
    <3>2. CASE rx # Idle
      BY <3>2, RxBusy
    <3> QED BY <3>1, <3>2
  <2>2. handler \in {<<"idle">>, <<"decide">>} \cup {<<"read", r>> : r \in Rows}
    BY DEF CInv, SeenBounded
  <2>3. CameraTypeOK
    BY <2>1, <2>2 DEF CInv, CamTypes, CameraTypeOK
  <2>4. ASSUME rx = Idle, NEW camera \in Cameras, NEW c \in Cols,
               NEW r \in CameraRows(camera)
        PROVE  matrix[r][c] = Cardinality(Marks(camera, last[camera], r, c))
    <3>1. camera # rx.camera
      BY <2>4, RowsOfCameras DEF Idle
    <3> QED BY <3>1 DEF CInv, OthersWhole
  <2> QED BY <2>3, <2>4 DEF MatrixShowsLastPackets
<1> QED BY <1>1, CInvHolds, PTL

\* What a tick decides on is a view VIPSPlus allows.
LEMMA SeenIsView == ASSUME CInv, handler = <<"decide">> PROVE seen \in Views
<1>1. /\ seen \in [near : BOOLEAN, onRoad : BOOLEAN, waiting : Nat]
      /\ seen.waiting <= 4 * MaxCount
  BY DEF CInv, CamTypes, SeenBounded
<1>2. seen.waiting \in Counts
  BY <1>1, CamerasAssumption
<1> QED BY <1>1, <1>2 DEF Views

\* Every step of the handler and its cameras is a step of the controller, or
\* leaves it alone.
LEMMA StepIsControllerStep == ASSUME CInv, [CNext]_allVars PROVE [Next]_vars
<1>1. ASSUME NEW phase \in Phases, NEW step \in Steps, Decide(phase, step)
      PROVE  Next
  <2>1. handler = <<"decide">> /\ seen \in Views
    BY <1>1, SeenIsView DEF Decide
  <2> QED BY <1>1, <2>1 DEF Decide, Next
<1>2. ASSUME NEW camera \in Cameras, NEW packet \in Packets, BeginRx(camera, packet)
      PROVE  UNCHANGED vars
  BY <1>2 DEF BeginRx
<1>3. CASE RxStep
  BY <1>3 DEF RxStep, ZeroRx, InstallRx, EndRx
<1>4. CASE Watchdog \/ ReadRow
  BY <1>4 DEF Watchdog, ReadRow
<1>5. CASE UNCHANGED allVars
  BY <1>5 DEF allVars
<1> QED BY <1>1, <1>2, <1>3, <1>4, <1>5 DEF CNext, HandlerStep

\* The vehicle green that VehicleGreenIsFixed derives for the stage machine alone is
\* kept by the handler that is fed by racing cameras.
THEOREM VehicleGreenWithCameras == CSpec => []VehicleGreenBudget
<1>1. CSpec => Init /\ [][Next]_vars
  <2>1. CInit => Init
    BY DEF CInit
  <2>2. CInv /\ [CNext]_allVars => [Next]_vars
    BY StepIsControllerStep
  <2> QED BY <2>1, <2>2, CInvHolds, PTL DEF CSpec
<1>2. Init /\ [][Next]_vars => []IInv
  BY InitIInv, NextPreservesIInv, PTL
<1> QED BY <1>1, <1>2, BudgetFromIInv, PTL

-----------------------------------------------------------------------------
(* What the reading without the mutex can get wrong.                        *)

\* The rows read so far.
RowsRead == IF handler[1] = "read" THEN handler[2] ELSE 8

\* ShowsIn, and the waiting count, of the rows below k.
ShowsBelow(k, camera, cs) ==
    \E r \in CameraRows(camera), c \in cs : r < k /\ Marks(camera, last[camera], r, c) # {}
WaitingBelow(k, camera, which) ==
    IF camera \in which /\ CameraRow(camera) + 1 < k THEN ShownWaiting(camera) ELSE 0
AllBelow(k, which) == WaitingBelow(k, 3, which) + WaitingBelow(k, 4, which)
                      + WaitingBelow(k, 5, which) + WaitingBelow(k, 6, which)

\* What has been seen in the rows below k is right about untorn cameras.
SeesRight(k) ==
    /\ \A camera \in Cameras \ torn :
          /\ ShowsBelow(k, camera, NearCols) => seen.near
          /\ ShowsBelow(k, camera, RoadCols) => seen.onRoad
    /\ seen.near => \E camera \in Cameras :
                       camera \in torn \/ ShowsBelow(k, camera, NearCols)
    /\ seen.onRoad => \E camera \in Cameras :
                         camera \in torn \/ ShowsBelow(k, camera, RoadCols)
    /\ seen.waiting >= AllBelow(k, Cameras \ torn)
    /\ torn = {} => seen.waiting = AllBelow(k, Cameras)

\* The rows of cameras that are not connected stay empty.
UnusedRows ==
    \A r \in Rows : (\A camera \in Cameras : r \notin CameraRows(camera)) => matrix[r] = ZeroRow

\* The inductive invariant: while the handler reads, a packet that is being
\* installed is one that arrived since the reading began.
SInv ==
    /\ UnusedRows
    /\ handler # <<"idle">> => rx.camera \in torn \cup {0} /\ SeesRight(RowsRead)

\* The waiting people a camera's last packet shows are so many.
LEMMA ShownType ==
    ASSUME CInv, NEW camera \in Cameras
    PROVE  /\ ShownWaiting(camera) \in Nat
           /\ \A r, c : /\ IsFiniteSet(Marks(camera, last[camera], r, c))
                        /\ Cardinality(Marks(camera, last[camera], r, c)) \in Nat
<1>1. Len(last[camera]) \in Nat
  BY LastIsPacket DEF CInv
<1>2. ASSUME NEW r, NEW c
      PROVE  /\ IsFiniteSet(Marks(camera, last[camera], r, c))
             /\ Cardinality(Marks(camera, last[camera], r, c)) \in Nat
  <2>1. Len(last[camera]) \in 0..Len(last[camera])
    BY <1>1
  <2> QED BY <1>1, <2>1, MarksBounds
<1> QED BY <1>2 DEF ShownWaiting

\* The counts below k are natural numbers, none below the first row, all of
\* them below the eighth.
LEMMA BelowType ==
    ASSUME CInv, NEW k \in 0..8, NEW which \in SUBSET Cameras
    PROVE  /\ \A camera : WaitingBelow(k, camera, which) \in Nat
           /\ AllBelow(k, which) \in Nat
           /\ AllBelow(0, which) = 0
           /\ AllBelow(8, which) = AllWaiting(which)
<1>1. \A camera \in which : ShownWaiting(camera) \in Nat /\ camera \in 3..6
  BY ShownType, CamerasAssumption
<1>2. \A camera : WaitingBelow(k, camera, which) \in Nat
  BY <1>1 DEF WaitingBelow
<1>3. \A camera \in 3..6 : /\ WaitingBelow(0, camera, which) = 0
                           /\ WaitingBelow(8, camera, which) = WaitingAt(camera, which)
  BY <1>1 DEF WaitingBelow, WaitingAt, CameraRow
<1>4. 3 \in 3..6 /\ 4 \in 3..6 /\ 5 \in 3..6 /\ 6 \in 3..6
  OBVIOUS
<1>5. AllBelow(k, which) \in Nat
  BY <1>2 DEF AllBelow
<1>6. AllBelow(0, which) = 0 /\ AllBelow(8, which) = AllWaiting(which)
  BY <1>3, <1>4 DEF AllBelow, AllWaiting
<1> QED BY <1>2, <1>5, <1>6

\* The camera whose rows include r.
CameraOf(r) == 3 + (r \div 2)

\* A row belongs to the camera counted off by pairs of rows; the odd one of
\* each pair holds the waiting.
LEMMA RowOfCamera ==
    ASSUME NEW r \in Rows
    PROVE  /\ CameraOf(r) \in 3..6
           /\ r \in CameraRows(CameraOf(r))
           /\ \A camera \in 3..6 : r \in CameraRows(camera) => camera = CameraOf(r)
           /\ r % 2 = 1 => CameraRow(CameraOf(r)) + 1 = r
           /\ r % 2 = 0 => CameraRow(CameraOf(r)) = r
<1>1. r \in {0, 1, 2, 3, 4, 5, 6, 7}
  BY DEF Rows
<1> QED BY <1>1 DEF CameraOf, CameraRows, CameraRow

\* One more row adds the waiting of its camera if it is the odd one.
LEMMA BelowNext ==
    ASSUME CInv, NEW r \in Rows, NEW which \in SUBSET Cameras
    PROVE  AllBelow(r + 1, which) = AllBelow(r, which)
              + (IF r % 2 = 1 /\ CameraOf(r) \in which THEN ShownWaiting(CameraOf(r)) ELSE 0)
<1>1. r \in 0..7 /\ r \in 0..8 /\ r + 1 \in 0..8
  BY DEF Rows
<1>2. /\ \A camera : WaitingBelow(r, camera, which) \in Nat
      /\ \A camera : WaitingBelow(r + 1, camera, which) \in Nat
  BY <1>1, BelowType
<1>3. \A camera \in which : ShownWaiting(camera) \in Nat
  BY ShownType
<1>4. \A camera \in 3..6 : WaitingBelow(r + 1, camera, which) =
         WaitingBelow(r, camera, which) +
            (IF r % 2 = 1 /\ camera = CameraOf(r) /\ CameraOf(r) \in which
             THEN ShownWaiting(CameraOf(r)) ELSE 0)
  <2> SUFFICES ASSUME NEW camera \in 3..6
               PROVE  WaitingBelow(r + 1, camera, which) =
         WaitingBelow(r, camera, which) +
            (IF r % 2 = 1 /\ camera = CameraOf(r) /\ CameraOf(r) \in which
             THEN ShownWaiting(CameraOf(r)) ELSE 0)
    OBVIOUS
  <2>1. CASE camera = CameraOf(r) /\ r % 2 = 1
    BY <2>1, <1>1, <1>3, RowOfCamera DEF WaitingBelow
  <2>2. CASE ~(camera = CameraOf(r) /\ r % 2 = 1)
    <3>1. CameraRow(camera) + 1 # r
      BY <1>1, <2>2 DEF CameraRow, CameraOf
    <3>2. CameraRow(camera) + 1 < r + 1 <=> CameraRow(camera) + 1 < r
      BY <1>1, <3>1 DEF CameraRow
    <3>3. WaitingBelow(r + 1, camera, which) = WaitingBelow(r, camera, which)
      BY <3>2 DEF WaitingBelow
    <3> QED BY <3>3, <2>2, <1>2
  <2> QED BY <2>1, <2>2
<1>5. CameraOf(r) \in 3..6 /\ 3 \in 3..6 /\ 4 \in 3..6 /\ 5 \in 3..6 /\ 6 \in 3..6
  BY RowOfCamera
<1> DEFINE add == IF r % 2 = 1 /\ CameraOf(r) \in which THEN ShownWaiting(CameraOf(r)) ELSE 0
<1>6. add \in Nat
  BY <1>3
<1>7. \A camera \in 3..6 : WaitingBelow(r + 1, camera, which) =
         WaitingBelow(r, camera, which) + (IF camera = CameraOf(r) THEN add ELSE 0)
  BY <1>4, <1>2
<1> HIDE DEF add
<1>8. AllBelow(r + 1, which) = AllBelow(r, which) + add
  BY <1>2, <1>5, <1>6, <1>7 DEF AllBelow
<1> QED BY <1>8 DEF add

\* A packet that arrives makes its camera's rows torn and leaves the others.
LEMMA BeginRxSInv ==
    ASSUME CInv, SInv, NEW camera \in Cameras, NEW packet \in Packets,
           BeginRx(camera, packet)
    PROVE  SInv'
<1>1. /\ matrix' = [matrix EXCEPT ![CameraRow(camera)] = ZeroRow]
      /\ last' = [last EXCEPT ![camera] = packet]
      /\ torn' = torn \cup {camera} /\ handler' = handler /\ seen' = seen
      /\ rx' = [camera |-> camera, toZero |-> <<CameraRow(camera) + 1>>, pending |-> packet]
      /\ matrix \in [Rows -> [Cols -> 0..MaxCount]] /\ torn \subseteq Cameras
      /\ last \in [Cameras -> Packets \cup {<<>>}]
      /\ seen \in [near : BOOLEAN, onRoad : BOOLEAN, waiting : Nat]
  BY DEF BeginRx, CInv, CamTypes
<1>2. UnusedRows'
  BY <1>1, RowsOfCameras DEF SInv, UnusedRows, CameraRows
<1>3. rx'.camera \in torn'
  BY <1>1
<1>4. \A other \in Cameras \ torn' : last'[other] = last[other] /\ other \in Cameras \ torn
  BY <1>1
<1>5. ASSUME handler # <<"idle">> PROVE SeesRight(RowsRead)'
  <2> PICK k : k = RowsRead
    OBVIOUS
  <2>1. SeesRight(k) /\ RowsRead' = k /\ k \in 0..8
    <3>1. k \in 0..8
      BY <1>5 DEF CInv, SeenBounded, RowsRead, Rows
    <3> QED BY <3>1, <1>1, <1>5 DEF SInv, RowsRead
  <2>2. \A other \in Cameras \ torn' : \A cs :
           ShowsBelow(k, other, cs)' <=> ShowsBelow(k, other, cs)
    BY <1>4 DEF ShowsBelow
  <2>3. \A other \in Cameras \ torn' : ShownWaiting(other)' = ShownWaiting(other)
    BY <1>4 DEF ShownWaiting
  <2>4. CInv'
    BY BeginRxCInv
  <2>5. \A other : /\ WaitingBelow(k, other, Cameras \ torn') <= WaitingBelow(k, other, Cameras \ torn)
                   /\ WaitingBelow(k, other, Cameras \ torn') \in Nat
                   /\ WaitingBelow(k, other, Cameras \ torn) \in Nat
    <3>1. \A other \in Cameras : ShownWaiting(other) \in Nat
      BY ShownType
    <3> QED BY <3>1, <1>4 DEF WaitingBelow
  <2>6. \A other : WaitingBelow(k, other, Cameras \ torn)' = WaitingBelow(k, other, Cameras \ torn')
    BY <2>3 DEF WaitingBelow
  <2>7. AllBelow(k, Cameras \ torn)' = AllBelow(k, Cameras \ torn')
    BY <2>6 DEF AllBelow
  <2>8. AllBelow(k, Cameras \ torn') <= AllBelow(k, Cameras \ torn) /\ AllBelow(k, Cameras \ torn') \in Nat
        /\ AllBelow(k, Cameras \ torn) \in Nat
    BY <2>5 DEF AllBelow
  <2>9. seen'.waiting >= AllBelow(k, Cameras \ torn')
    <3>1. seen.waiting >= AllBelow(k, Cameras \ torn) /\ seen.waiting \in Nat
      BY <2>1, <1>1 DEF SeesRight
    <3> QED BY <3>1, <2>8, <1>1
  <2>10. torn' # {}
    BY <1>1
  <2>11. \A other \in Cameras \ torn' :
          /\ ShowsBelow(k, other, NearCols)' => seen'.near
          /\ ShowsBelow(k, other, RoadCols)' => seen'.onRoad
    BY <1>1, <1>4, <2>1, <2>2 DEF SeesRight
  <2>12. \E other \in Cameras : other \in torn'
    BY <1>1
  <2>13. SeesRight(k)'
    BY <2>7, <2>9, <2>10, <2>11, <2>12 DEF SeesRight
  <2> QED BY <2>1, <2>13
<1> QED BY <1>1, <1>2, <1>3, <1>5 DEF SInv

\* Nothing the reading is judged by changes.
LEMMA SightStays ==
    ASSUME SInv, UNCHANGED <<handler, seen, last, torn>>,
           handler # <<"idle">> => rx'.camera \in torn \cup {0}, UnusedRows'
    PROVE  SInv'
<1>1. SeesRight(RowsRead) => SeesRight(RowsRead)'
  BY DEF SeesRight, RowsRead, ShowsBelow, AllBelow, WaitingBelow, ShownWaiting
<1> QED BY <1>1 DEF SInv

\* The holder of the mutex stays among the torn rows.
LEMMA RxStepSInv == ASSUME CInv, SInv, RxStep PROVE SInv'
<1>1. rx # Idle /\ UNCHANGED <<handler, seen, last, torn>>
      /\ matrix \in [Rows -> [Cols -> 0..MaxCount]]
  BY DEF RxStep, ZeroRx, InstallRx, EndRx, CInv, CamTypes, Idle
<1>2. rx.camera \in Cameras
  BY <1>1, RxBusy
<1>3. rx'.camera \in {rx.camera, 0}
  <2>1. rx \in [camera : Cameras, toZero : Seq(Rows), pending : Seq(Detections)]
    BY <1>1, RxBusy
  <2> QED BY <2>1 DEF RxStep, ZeroRx, InstallRx, EndRx, Idle
<1>4. \A r \in Rows \ CameraRows(rx.camera) : matrix'[r] = matrix[r]
  <2>1. CASE ZeroRx
    <3>1. Head(rx.toZero) = CameraRow(rx.camera) + 1
      BY <2>1, <1>1 DEF CInv, RxTypes, ZeroRx
    <3> QED BY <2>1, <3>1, <1>1 DEF ZeroRx, CameraRows
  <2>2. CASE InstallRx
    BY <2>2, <1>1, <1>2, CellOfDetection DEF InstallRx
  <2>3. CASE EndRx
    BY <2>3 DEF EndRx
  <2> QED BY <2>1, <2>2, <2>3 DEF RxStep
<1>5. UnusedRows'
  BY <1>2, <1>4 DEF SInv, UnusedRows
<1>6. handler # <<"idle">> => rx'.camera \in torn \cup {0}
  BY <1>2, <1>3, RowsOfCameras DEF SInv
<1> QED BY <1>1, <1>5, <1>6, SightStays

\* The watchdog runs with the mutex free, so a reading begins untorn.
LEMMA WatchdogSInv == ASSUME CInv, SInv, Watchdog PROVE SInv'
<1>1. /\ rx' = Idle /\ torn' = {} /\ seen' = Nothing /\ handler' = <<"read", 0>>
      /\ \A r \in Rows : matrix'[r] = ZeroRow \/ matrix'[r] = matrix[r]
  BY DEF Watchdog
<1>2. UnusedRows'
  BY <1>1 DEF SInv, UnusedRows
<1>3. RowsRead' = 0
  BY <1>1 DEF RowsRead
<1>4. \A camera \in Cameras : \A cs : ~ShowsBelow(0, camera, cs)'
  BY RowsOfCameras DEF ShowsBelow, Rows
<1>5. AllBelow(0, Cameras)' = 0
  <2>1. CInv'
    BY WatchdogCInv
  <2>2. \A camera \in Cameras : CameraRow(camera) \in Nat
    BY RowsOfCameras DEF Rows
  <2>3. \A camera : WaitingBelow(0, camera, Cameras)' = 0
    BY <2>2 DEF WaitingBelow
  <2> QED BY <2>3 DEF AllBelow
<1>6. /\ seen'.near = FALSE /\ seen'.onRoad = FALSE /\ seen'.waiting = 0
      /\ Cameras \ torn' = Cameras
  BY <1>1 DEF Nothing
<1>7. SeesRight(0)'
  BY <1>1, <1>4, <1>5, <1>6 DEF SeesRight
<1> QED BY <1>1, <1>2, <1>3, <1>7 DEF SInv, Idle

\* An untorn row is read as its camera's last packet says.
LEMMA ReadRowSInv == ASSUME CInv, SInv, ReadRow PROVE SInv'
<1>1. PICK r \in Rows : handler = <<"read", r>>
  BY DEF ReadRow, CInv, SeenBounded
<1>2. /\ UNCHANGED <<matrix, rx, last, torn>>
      /\ seen' = [near    |-> seen.near \/ \E c \in 1..3 : matrix[r][c] > 0,
                  onRoad  |-> seen.onRoad \/ \E c \in 1..10 : matrix[r][c] > 0,
                  waiting |-> seen.waiting + (IF r % 2 = 1 THEN matrix[r][0] ELSE 0)]
      /\ handler' = IF r + 1 \in Rows THEN <<"read", r + 1>> ELSE <<"decide">>
      /\ matrix \in [Rows -> [Cols -> 0..MaxCount]] /\ torn \subseteq Cameras
      /\ seen \in [near : BOOLEAN, onRoad : BOOLEAN, waiting : Nat] /\ MaxCount \in Nat
  BY <1>1, CamerasAssumption DEF ReadRow, CInv, CamTypes
<1>3. RowsRead = r /\ RowsRead' = r + 1 /\ r \in 0..7
  BY <1>1, <1>2 DEF RowsRead, Rows
<1>4. SeesRight(r) /\ rx.camera \in torn \cup {0} /\ UnusedRows
  BY <1>1, <1>3 DEF SInv
<1> PICK o : o = CameraOf(r)
  OBVIOUS
<1>5. /\ o \in 3..6 /\ r \in CameraRows(o)
      /\ \A camera \in 3..6 : r \in CameraRows(camera) => camera = o
  BY RowOfCamera
<1>6. ASSUME o \in Cameras \ torn, NEW c \in Cols
      PROVE  /\ matrix[r][c] = Cardinality(Marks(o, last[o], r, c))
             /\ matrix[r][c] > 0 <=> Marks(o, last[o], r, c) # {}
  <2>1. o # rx.camera
    BY <1>4, <1>6, RowsOfCameras
  <2>2. matrix[r][c] = Cardinality(Marks(o, last[o], r, c))
    BY <2>1, <1>5, <1>6 DEF CInv, OthersWhole
  <2>3. IsFiniteSet(Marks(o, last[o], r, c)) /\ Cardinality(Marks(o, last[o], r, c)) \in Nat
    BY <1>6, ShownType
  <2> QED BY <2>2, <2>3, FS_EmptySet
<1>7. ASSUME o \notin Cameras, NEW c \in Cols PROVE matrix[r][c] = 0
  BY <1>4, <1>5, <1>7, CamerasAssumption DEF UnusedRows, ZeroRow
<1>8. ASSUME NEW camera \in Cameras, NEW cs
      PROVE  /\ ShowsBelow(r, camera, cs) => ShowsBelow(r + 1, camera, cs)
             /\ ShowsBelow(r + 1, camera, cs) =>
                   \/ ShowsBelow(r, camera, cs)
                   \/ camera = o /\ \E c \in cs : Marks(o, last[o], r, c) # {}
             /\ (camera = o /\ \E c \in cs : Marks(o, last[o], r, c) # {}) =>
                   ShowsBelow(r + 1, camera, cs)
  <2>1. CameraRows(camera) \subseteq Rows /\ camera \in 3..6
    BY RowsOfCameras, CamerasAssumption
  <2>2. \A q \in CameraRows(camera) : q < r + 1 <=> q < r \/ q = r
    BY <2>1, <1>3 DEF Rows
  <2>3. r < r + 1
    BY <1>3
  <2> QED BY <2>1, <2>2, <2>3, <1>5 DEF ShowsBelow
<1>9. NearCols \subseteq Cols /\ RoadCols \subseteq Cols /\ NearCols = 1..3 /\ RoadCols = 1..10 /\ 0 \in Cols
  BY DEF NearCols, RoadCols, Cols, cols
<1>10. seen'.near = (seen.near \/ \E c \in NearCols : matrix[r][c] > 0)
       /\ seen'.onRoad = (seen.onRoad \/ \E c \in RoadCols : matrix[r][c] > 0)
  BY <1>2, <1>9, Zenon
<1>11. seen'.waiting = seen.waiting + (IF r % 2 = 1 THEN matrix[r][0] ELSE 0)
  BY <1>2
<1> DEFINE SomeIn(cs) == \E c \in cs : matrix[r][c] > 0
<1>12. ASSUME NEW cs \in SUBSET Cols, NEW before \in BOOLEAN, NEW after \in BOOLEAN,
              after <=> before \/ SomeIn(cs),
              \A camera \in Cameras \ torn : ShowsBelow(r, camera, cs) => before,
              before => \E camera \in Cameras : camera \in torn \/ ShowsBelow(r, camera, cs)
       PROVE  /\ \A camera \in Cameras \ torn : ShowsBelow(r + 1, camera, cs) => after
              /\ after => \E camera \in Cameras : camera \in torn \/ ShowsBelow(r + 1, camera, cs)
  <2>1. ASSUME NEW camera \in Cameras \ torn, ShowsBelow(r + 1, camera, cs) PROVE after
    <3>1. CASE ShowsBelow(r, camera, cs)
      BY <3>1, <1>12
    <3>2. CASE camera = o /\ \E c \in cs : Marks(o, last[o], r, c) # {}
      BY <3>2, <1>6, <1>12
    <3> QED BY <3>1, <3>2, <2>1, <1>8
  <2>2. ASSUME after PROVE \E camera \in Cameras : camera \in torn \/ ShowsBelow(r + 1, camera, cs)
    <3>1. CASE before
      BY <3>1, <1>8, <1>12
    <3>2. CASE SomeIn(cs)
      <4>1. PICK c \in cs : matrix[r][c] > 0
        BY <3>2
      <4>2. o \in Cameras
        BY <4>1, <1>7, <1>12
      <4>3. CASE o \in torn
        BY <4>2, <4>3
      <4>4. CASE o \notin torn
        <5>1. Marks(o, last[o], r, c) # {}
          BY <4>1, <4>2, <4>4, <1>6, <1>12
        <5> QED BY <5>1, <4>2, <1>8
      <4> QED BY <4>3, <4>4
    <3> QED BY <3>1, <3>2, <2>2, <1>12
  <2> QED BY <2>1, <2>2
<1>13. /\ \A camera \in Cameras \ torn : ShowsBelow(r + 1, camera, NearCols) => seen'.near
       /\ seen'.near => \E camera \in Cameras : camera \in torn \/ ShowsBelow(r + 1, camera, NearCols)
  <2>1. seen.near \in BOOLEAN /\ seen'.near \in BOOLEAN
    BY <1>2, <1>10, Zenon
  <2>2. seen'.near <=> seen.near \/ SomeIn(NearCols)
    BY <1>10
  <2>3. /\ \A camera \in Cameras \ torn : ShowsBelow(r, camera, NearCols) => seen.near
        /\ seen.near => \E camera \in Cameras : camera \in torn \/ ShowsBelow(r, camera, NearCols)
    BY <1>4 DEF SeesRight
  <2> HIDE DEF SomeIn
  <2> QED BY <2>1, <2>2, <2>3, <1>9, <1>12
<1>14. /\ \A camera \in Cameras \ torn : ShowsBelow(r + 1, camera, RoadCols) => seen'.onRoad
       /\ seen'.onRoad => \E camera \in Cameras : camera \in torn \/ ShowsBelow(r + 1, camera, RoadCols)
  <2>1. seen.onRoad \in BOOLEAN /\ seen'.onRoad \in BOOLEAN
    BY <1>2, <1>10, Zenon
  <2>2. seen'.onRoad <=> seen.onRoad \/ SomeIn(RoadCols)
    BY <1>10
  <2>3. /\ \A camera \in Cameras \ torn : ShowsBelow(r, camera, RoadCols) => seen.onRoad
        /\ seen.onRoad => \E camera \in Cameras : camera \in torn \/ ShowsBelow(r, camera, RoadCols)
    BY <1>4 DEF SeesRight
  <2> HIDE DEF SomeIn
  <2> QED BY <2>1, <2>2, <2>3, <1>9, <1>12
<1>15. matrix[r][0] \in Nat /\ seen.waiting \in Nat
  BY <1>2, <1>9
<1>16. r % 2 = 1 /\ o \in Cameras \ torn => matrix[r][0] = ShownWaiting(o)
  BY <1>6, <1>9, RowOfCamera DEF ShownWaiting
<1>17. seen'.waiting >= AllBelow(r + 1, Cameras \ torn)
  <2> PICK w : w = Cameras \ torn
    OBVIOUS
  <2>1. AllBelow(r + 1, w) = AllBelow(r, w)
             + (IF r % 2 = 1 /\ o \in w THEN ShownWaiting(o) ELSE 0)
    BY BelowNext
  <2>2. seen.waiting >= AllBelow(r, w) /\ AllBelow(r, w) \in Nat
    BY <1>3, <1>4, BelowType DEF SeesRight
  <2>3. CASE r % 2 = 1 /\ o \in w
    BY <2>1, <2>2, <2>3, <1>11, <1>15, <1>16
  <2>4. CASE ~(r % 2 = 1 /\ o \in w)
    BY <2>1, <2>2, <2>4, <1>11, <1>15
  <2> QED BY <2>3, <2>4
<1>18. torn = {} => seen'.waiting = AllBelow(r + 1, Cameras)
  <2> SUFFICES ASSUME torn = {} PROVE seen'.waiting = AllBelow(r + 1, Cameras)
    OBVIOUS
  <2>1. AllBelow(r + 1, Cameras) = AllBelow(r, Cameras)
             + (IF r % 2 = 1 /\ o \in Cameras THEN ShownWaiting(o) ELSE 0)
    BY BelowNext
  <2>2. seen.waiting = AllBelow(r, Cameras) /\ AllBelow(r, Cameras) \in Nat
    BY <1>3, <1>4, BelowType DEF SeesRight
  <2>3. CASE r % 2 = 1 /\ o \in Cameras
    BY <2>1, <2>2, <2>3, <1>11, <1>15, <1>16
  <2>4. CASE r % 2 = 1 /\ o \notin Cameras
    <3>1. matrix[r][0] = 0
      BY <2>4, <1>7, <1>9
    <3> QED BY <3>1, <2>1, <2>2, <2>4, <1>11, <1>15
  <2>5. CASE r % 2 # 1
    BY <2>1, <2>2, <2>5, <1>11, <1>15
  <2> QED BY <2>3, <2>4, <2>5
<1>19. \A k, camera, cs : ShowsBelow(k, camera, cs)' <=> ShowsBelow(k, camera, cs)
  BY <1>2 DEF ShowsBelow
<1>20. \A k : /\ AllBelow(k, Cameras)' = AllBelow(k, Cameras)
              /\ AllBelow(k, Cameras \ torn)' = AllBelow(k, Cameras \ torn)
  BY <1>2 DEF AllBelow, WaitingBelow, ShownWaiting
<1>21. SeesRight(r + 1)'
  <2>1. /\ \A camera \in Cameras \ torn' :
             /\ ShowsBelow(r + 1, camera, NearCols)' => seen'.near
             /\ ShowsBelow(r + 1, camera, RoadCols)' => seen'.onRoad
        /\ seen'.near => \E camera \in Cameras :
             camera \in torn' \/ ShowsBelow(r + 1, camera, NearCols)'
        /\ seen'.onRoad => \E camera \in Cameras :
             camera \in torn' \/ ShowsBelow(r + 1, camera, RoadCols)'
    BY <1>2, <1>13, <1>14, <1>19
  <2>2. /\ seen'.waiting >= AllBelow(r + 1, Cameras \ torn)'
        /\ torn' = {} => seen'.waiting = AllBelow(r + 1, Cameras)'
    BY <1>2, <1>17, <1>18, <1>20
  <2> QED BY <2>1, <2>2 DEF SeesRight
<1>22. UnusedRows'
  BY <1>2, <1>4 DEF UnusedRows
<1> QED BY <1>2, <1>3, <1>4, <1>21, <1>22 DEF SInv

\* Every step keeps the invariant.
LEMMA NextSInv == ASSUME CInv, SInv, [CNext]_allVars PROVE SInv'
<1>1. ASSUME NEW camera \in Cameras, NEW packet \in Packets, BeginRx(camera, packet)
      PROVE  SInv'
  BY <1>1, BeginRxSInv
<1>2. CASE RxStep
  BY <1>2, RxStepSInv
<1>3. CASE Watchdog \/ ReadRow
  BY <1>3, WatchdogSInv, ReadRowSInv
<1>4. ASSUME NEW phase \in Phases, NEW step \in Steps, Decide(phase, step) PROVE SInv'
  BY <1>4 DEF Decide, SInv, UnusedRows
<1>5. CASE UNCHANGED allVars
  <2>1. UNCHANGED <<matrix, rx, handler, seen, last, torn>>
    BY <1>5 DEF allVars, camVars
  <2> QED BY <2>1, SightStays DEF SInv, UnusedRows
<1> QED BY <1>1, <1>2, <1>3, <1>4, <1>5 DEF CNext, HandlerStep

\* For all cameras, packets and timings, and every way in which packet handlers
\* can run between the reads of a tick: what the tick acts on is what the
\* untorn cameras last reported, and it sees nobody beyond those and the torn.
THEOREM ReadingsAreReal == CSpec => []OnlyTornRowsMislead
<1>1. CInit => SInv
  BY RowsOfCameras DEF CInit, CameraInit, SInv, UnusedRows
<1>2. CInv /\ SInv /\ [CNext]_allVars => SInv'
  BY NextSInv
<1>3. CInv /\ SInv => OnlyTornRowsMislead
  <2> SUFFICES ASSUME CInv, SInv, handler = <<"decide">> PROVE OnlyTornRowsMislead
    BY DEF OnlyTornRowsMislead
  <2>1. SeesRight(8)
    BY DEF SInv, RowsRead
  <2>2. ASSUME NEW camera \in Cameras, NEW cs
        PROVE  ShowsBelow(8, camera, cs) <=> ShowsIn(camera, cs)
    BY RowsOfCameras DEF ShowsBelow, ShowsIn, Rows
  <2>3. /\ AllBelow(8, Cameras \ torn) = AllWaiting(Cameras \ torn)
        /\ AllBelow(8, Cameras) = AllWaiting(Cameras)
    BY BelowType
  <2> QED BY <2>1, <2>2, <2>3 DEF SeesRight, OnlyTornRowsMislead
<1> QED BY <1>1, <1>2, <1>3, CInvHolds, PTL DEF CSpec

-----------------------------------------------------------------------------
(* The signal controller at the other end of the serial line.               *)

\* The steps of the signal plan, one by one.
LEMMA CycleIs ==
    /\ Len(Cycle) = 12
    /\ Cycle[1] = <<1, 1>> /\ Cycle[2] = <<2, 1>> /\ Cycle[3] = <<2, 2>>
    /\ Cycle[4] = <<2, 3>> /\ Cycle[5] = <<2, 4>> /\ Cycle[6] = <<2, 5>>
    /\ Cycle[7] = <<3, 1>> /\ Cycle[8] = <<4, 1>> /\ Cycle[9] = <<4, 2>>
    /\ Cycle[10] = <<4, 3>> /\ Cycle[11] = <<4, 4>> /\ Cycle[12] = <<4, 5>>
BY DEF Cycle

\* The signal controller stands at one of these twelve steps.
LEMMA PlacesAre ==
    /\ \A s \in Places : s \in {<<1,1>>, <<2,1>>, <<2,2>>, <<2,3>>, <<2,4>>, <<2,5>>,
                                <<3,1>>, <<4,1>>, <<4,2>>, <<4,3>>, <<4,4>>, <<4,5>>}
    /\ \A i \in 1..12 : Cycle[i] \in Places
<1>1. Places = {Cycle[i] : i \in 1..12}
  BY CycleIs DEF Places
<1>2. ASSUME NEW i \in 1..12
      PROVE  Cycle[i] \in {<<1,1>>, <<2,1>>, <<2,2>>, <<2,3>>, <<2,4>>, <<2,5>>,
                           <<3,1>>, <<4,1>>, <<4,2>>, <<4,3>>, <<4,4>>, <<4,5>>}
  <2>1. i \in {1, 2, 3, 4, 5, 6, 7, 8, 9, 10, 11, 12}
    OBVIOUS
  <2> QED BY <2>1, CycleIs, Zenon
<1> QED BY <1>1, <1>2

\* No step occurs twice in a cycle.
LEMMA CycleOnce ==
    ASSUME NEW i \in 1..12, NEW j \in 1..12, Cycle[i] = Cycle[j] PROVE i = j
BY CycleIs

\* A step is found in its place of the cycle, and the step after it is the
\* next one, round the end.
LEMMA AfterNext ==
    ASSUME NEW i \in 1..12
    PROVE  Slot(Cycle[i]) = i /\ After(Cycle[i]) = Cycle[(i % 12) + 1]
<1>1. Len(Cycle) = 12
  BY CycleIs
<1> DEFINE P(k) == k \in 1..12 /\ Cycle[k] = Cycle[i]
<1>2. P(CHOOSE k : P(k))
  <2>1. P(i)
    OBVIOUS
  <2> QED BY <2>1
<1>3. (CHOOSE k \in 1..12 : Cycle[k] = Cycle[i]) = i
  BY CycleOnce
<1> QED BY <1>1, <1>3 DEF After, Slot

\* What the signal plan moves to from every step.
LEMMA AfterIs ==
    /\ After(<<1,1>>) = <<2,1>> /\ After(<<2,1>>) = <<2,2>>
    /\ After(<<2,2>>) = <<2,3>> /\ After(<<2,3>>) = <<2,4>>
    /\ After(<<2,4>>) = <<2,5>> /\ After(<<2,5>>) = <<3,1>>
    /\ After(<<3,1>>) = <<4,1>> /\ After(<<4,1>>) = <<4,2>>
    /\ After(<<4,2>>) = <<4,3>> /\ After(<<4,3>>) = <<4,4>>
    /\ After(<<4,4>>) = <<4,5>> /\ After(<<4,5>>) = <<1,1>>
<1>1. ASSUME NEW i \in 1..11 PROVE After(Cycle[i]) = Cycle[i + 1]
  BY AfterNext
<1>2. After(Cycle[12]) = Cycle[1]
  BY AfterNext
<1>3. /\ After(Cycle[1]) = Cycle[2] /\ After(Cycle[2]) = Cycle[3] /\ After(Cycle[3]) = Cycle[4]
      /\ After(Cycle[4]) = Cycle[5] /\ After(Cycle[5]) = Cycle[6] /\ After(Cycle[6]) = Cycle[7]
      /\ After(Cycle[7]) = Cycle[8] /\ After(Cycle[8]) = Cycle[9] /\ After(Cycle[9]) = Cycle[10]
      /\ After(Cycle[10]) = Cycle[11] /\ After(Cycle[11]) = Cycle[12]
  BY <1>1
<1> QED BY <1>2, <1>3, CycleIs, Zenon

\* The signal plan always moves, and to a step of the plan.
LEMMA AfterPlace ==
    ASSUME NEW s \in Places
    PROVE  After(s) \in Places /\ After(s) # s
<1>1. \A i \in 1..12 : (i % 12) + 1 \in 1..12 /\ (i % 12) + 1 # i
  OBVIOUS
<1>2. PICK i \in 1..12 : s = Cycle[i]
  BY CycleIs DEF Places
<1>3. After(s) = Cycle[(i % 12) + 1] /\ (i % 12) + 1 \in 1..12 /\ (i % 12) + 1 # i
  BY <1>1, <1>2, AfterNext
<1> QED BY <1>2, <1>3, PlacesAre, CycleOnce

\* The all-red steps, after which an early pedestrian start follows; the early
\* starts, where the handler synchronizes; where the controller can stand when
\* the next report is made.
Reds == {<<2, 5>>, <<4, 5>>}
Starts == {<<1, 1>>, <<3, 1>>}
Near(s) == {s, After(s), After(After(s))}

\* What the cache shows after reports up to one of place s: the phase is not
\* taken from a report of step 5, and may then still be the initial 0.
Agrees(c, s) ==
    \/ c = <<0, 0>>
    \/ /\ c[2] = s[2]
       /\ IF s[2] = 5 THEN c[1] \in {0, s[1]} ELSE c[1] = s[1]

\* A step of the plan is a pair of a phase 1..4 and a step 1..5.
LEMMA PlaceParts ==
    ASSUME NEW s \in Places PROVE s = <<s[1], s[2]>> /\ s[1] \in 1..4 /\ s[2] \in 1..5
BY PlacesAre

\* From an all-red step only itself and the two steps after it, none of them
\* all red, can be reported next; from an early start no all-red step can.
LEMMA RedsStarts ==
    /\ \A s \in Reds : s \in Places /\ After(s) \in Starts /\ s[2] = 5 /\ s[1] \in {2, 4}
    /\ \A s \in Starts : s \in Places /\ s[2] = 1 /\ s[1] \in {1, 3}
    /\ \A s \in Starts : Near(s) \cap Reds = {}
    /\ \A s \in Reds : Near(s) \cap Reds = {s}
<1>1. Reds \subseteq Places /\ Starts \subseteq Places
  BY CycleIs, PlacesAre DEF Reds, Starts
<1>2. \A s \in Reds : After(s) \in Starts /\ s[2] = 5 /\ s[1] \in {2, 4}
  BY AfterIs DEF Reds, Starts
<1>3. \A s \in Starts : Near(s) \cap Reds = {}
  BY AfterIs DEF Reds, Starts, Near
<1>4. ASSUME NEW s \in Reds PROVE Near(s) \cap Reds = {s}
  <2>1. After(s) \in Starts /\ After(After(s)) \in {<<2,1>>, <<4,1>>}
    BY AfterIs DEF Reds, Starts
  <2>2. After(s)[2] # 5 /\ After(After(s))[2] # 5
    BY <2>1 DEF Starts
  <2>3. \A x \in Reds : x[2] = 5
    BY DEF Reds
  <2> QED BY <2>2, <2>3 DEF Near
<1>5. \A s \in Starts : s[2] = 1 /\ s[1] \in {1, 3}
  BY DEF Starts
<1> QED BY <1>1, <1>2, <1>3, <1>4, <1>5

\* The cache after packet_5FCC has applied report r.
Updated(c, r) == << IF r[1] # 0 /\ r[2] # 5 THEN r[1] ELSE c[1], r[2] >>

\* An all-red step is reported after an earlier step of the same phase.
LEMMA NearRed ==
    ASSUME NEW g \in Places, NEW s \in Near(g), s[2] = 5, g # s
    PROVE  g[2] # 5 /\ g[1] = s[1]
BY PlacesAre, AfterIs DEF Near

\* A cache that agrees with one report agrees with the next one once it is
\* applied, although packet_5FCC drops the phase of an all-red report.
LEMMA UpdateAgrees ==
    ASSUME NEW c \in Phases \X Steps, NEW g \in Places, Agrees(c, g), NEW s \in Near(g)
    PROVE  Agrees(Updated(c, s), s) /\ Updated(c, s) \in Phases \X Steps
<1>1. s \in Places
  BY AfterPlace DEF Near
<1>2. s[1] \in 1..4 /\ s[2] \in 1..5 /\ g[1] \in 1..4 /\ g[2] \in 1..5
  BY <1>1, PlaceParts
<1>3. c[1] \in 0..4 /\ c[2] \in 0..5
  BY DEF Phases, Steps
<1>4. Updated(c, s) \in Phases \X Steps
  BY <1>2, <1>3 DEF Updated, Phases, Steps
<1>5. CASE s[2] # 5
  <2>1. Updated(c, s) = <<s[1], s[2]>>
    BY <1>2, <1>5 DEF Updated
  <2>2. Updated(c, s)[1] = s[1] /\ Updated(c, s)[2] = s[2]
    BY <2>1
  <2> QED BY <2>2, <1>4, <1>5 DEF Agrees
<1>6. CASE s[2] = 5
  <2>1. c[1] \in {0, s[1]}
    <3>1. CASE c = <<0, 0>>
      BY <3>1
    <3>2. CASE c # <<0, 0>> /\ g = s
      BY <3>2, <1>6 DEF Agrees
    <3>3. CASE c # <<0, 0>> /\ g # s
      BY <3>3, <1>6, NearRed DEF Agrees
    <3> QED BY <3>1, <3>2, <3>3
  <2>2. Updated(c, s) = <<c[1], s[2]>>
    BY <1>6 DEF Updated
  <2>3. Updated(c, s)[1] = c[1] /\ Updated(c, s)[2] = s[2]
    BY <2>2
  <2> QED BY <2>1, <2>3, <1>4, <1>6 DEF Agrees
<1> QED BY <1>4, <1>5, <1>6

\* The stages of VIPS+ follow the steps of the signal plan, the change of
\* direction included.
LEMMA PlaceAfter ==
    ASSUME NEW d \in {0, 1}
    PROVE  /\ \A s \in 1..5 : Place(s + 1, d) = After(Place(s, d))
           /\ Place(1, 1 - d) = After(Place(6, d))
           /\ \A s \in 1..6 : Place(s, d) \in Places
<1>1. CASE d = 0
  <2>1. /\ Place(1, 0) = <<1, 1>> /\ Place(2, 0) = <<2, 1>> /\ Place(3, 0) = <<2, 2>>
        /\ Place(4, 0) = <<2, 3>> /\ Place(5, 0) = <<2, 4>> /\ Place(6, 0) = <<2, 5>>
        /\ Place(1, 1) = <<3, 1>>
    BY DEF Place
  <2>2. 1..5 = {1, 2, 3, 4, 5} /\ 1..6 = {1, 2, 3, 4, 5, 6}
    OBVIOUS
  <2>3. \A s \in 1..5 : Place(s + 1, 0) = After(Place(s, 0))
    BY <2>1, <2>2, AfterIs
  <2>4. \A s \in 1..6 : Place(s, 0) \in Places
    BY <2>1, <2>2, CycleIs, PlacesAre
  <2> QED BY <1>1, <2>1, <2>3, <2>4, AfterIs
<1>2. CASE d = 1
  <2>1. /\ Place(1, 1) = <<3, 1>> /\ Place(2, 1) = <<4, 1>> /\ Place(3, 1) = <<4, 2>>
        /\ Place(4, 1) = <<4, 3>> /\ Place(5, 1) = <<4, 4>> /\ Place(6, 1) = <<4, 5>>
        /\ Place(1, 0) = <<1, 1>>
    BY DEF Place
  <2>2. 1..5 = {1, 2, 3, 4, 5} /\ 1..6 = {1, 2, 3, 4, 5, 6}
    OBVIOUS
  <2>3. \A s \in 1..5 : Place(s + 1, 1) = After(Place(s, 1))
    BY <2>1, <2>2, AfterIs
  <2>4. \A s \in 1..6 : Place(s, 1) \in Places
    BY <2>1, <2>2, CycleIs, PlacesAre
  <2> QED BY <1>2, <2>1, <2>3, <2>4, AfterIs
<1> QED BY <1>1, <1>2

\* A control run that changes the stage moves the place by one step of the
\* signal plan, and no other control run changes the direction.
LEMMA ControlMoves ==
    ASSUME IInv, NEW view \in Views, Control(view)
    PROVE  /\ CS' = CS => direction_flag' = direction_flag
           /\ CS' # CS => Place(CS', direction_flag') = After(Place(CS, direction_flag))
<1> USE DEF Stages
<1>1. CS \in 1..6 /\ direction_flag \in {0, 1}
  BY DEF IInv, TypeOK
<1>2. CASE CS = 1 /\ Stage1(direction_flag, view)
  BY <1>1, <1>2, PlaceAfter DEF Stage1
<1>3. CASE CS = 2 /\ Stage2(view)
  BY <1>1, <1>3, PlaceAfter DEF Stage2
<1>4. CASE CS = 3 /\ Stage3(view)
  BY <1>1, <1>4, PlaceAfter DEF Stage3
<1>5. CASE CS = 4 /\ Stage4
  BY <1>1, <1>5, PlaceAfter DEF Stage4
<1>6. CASE CS = 5 /\ Stage5
  BY <1>1, <1>6, PlaceAfter DEF Stage5
<1>7. CASE CS = 6 /\ Stage6(view)
  BY <1>1, <1>7, PlaceAfter DEF Stage6, SwitchDirection
<1> QED BY <1>2, <1>3, <1>4, <1>5, <1>6, <1>7 DEF Control

\* The reports on the way: each follows the one before, the first one g; the
\* place the last of them was made at.
Chain(g, reports) ==
    /\ reports # <<>> => reports[1] \in Near(g)
    /\ \A i \in 1..Len(reports) - 1 : reports[i + 1] \in Near(reports[i])
Freshest(g, reports) == IF reports = <<>> THEN g ELSE reports[Len(reports)]

\* What may be on the way to the signal controller: queries, the rest of a
\* switch (W), a whole switch (S); a 1 or a 2 counts the queries.
Q1 == <<"query">>
Q2 == <<"query", "query">>
W1 == <<"switch", "query">>
W2 == <<"switch", "query", "query">>
S1 == <<"strategy", "switch", "query">>
S2 == <<"strategy", "switch", "query", "query">>

\* A switch has been obeyed and its own query is still on the way.
Obeyed == down = Q2 \/ (down = Q1 /\ ~polled)

\* Which packets are on the way when: a periodic query comes last, nothing is
\* reported while a switch is on its way, and the handler that has read the
\* phase runs with an empty line.
DownRight ==
    /\ down \in {<<>>, Q1, Q2, W1, W2, S1, S2}
    /\ down \in {Q2, W2, S2} => polled
    /\ down \in {W1, S1} => ~polled
    /\ down \in {W1, W2, S1, S2} \/ Obeyed => up = <<>>
    /\ down \in {W1, W2} => dynamic
    /\ obs # NoObs => polled /\ down = <<>> /\ up = <<>> /\ obs = cache[1]

\* The signal controller is no further than the step after f, the last place
\* reported, and has only just got there; an obeyed switch adds one step.
Tracked(f) ==
    IF Obeyed
    THEN dwell = 0 /\ tc \in {After(f), After(After(f))}
    ELSE tc = f \/ (tc = After(f) /\ dwell <= IF polled /\ down = <<>> THEN 0 ELSE 1)

\* Once ready_to_send is set no switch is sent, and the reports on the way
\* are of the all-red step or of the early start just entered after it.
ReadyAt(g) ==
    /\ down \in {<<>>, Q1} /\ ~Obeyed
    /\ cache = g
    /\ g \in Reds \cup Starts
    /\ \A i \in 1..Len(up) : up[i] \in Reds \cup Starts
    /\ Freshest(g, up) \in Starts => tc = Freshest(g, up) /\ dwell <= 1

\* The cache was filled by a report of g, and the controller is tracked from
\* the reports that followed.
Follows(g) ==
    /\ Agrees(cache, g) /\ Chain(g, up)
    /\ Tracked(Freshest(g, up))
    /\ ready_to_send => ReadyAt(g)

\* Before synchronization some place explains the cache and the line.
Unsynchronized == ~is_synchronized => \E g \in Places : Follows(g)

\* A switch is on its way.
Switching == down \in {W1, W2, S1, S2}

\* The types of the link's variables while nothing has gone wrong.
LinkTyped ==
    /\ tc \in Places /\ dwell \in 0..MinDwell /\ dynamic \in BOOLEAN
    /\ polled \in BOOLEAN
    /\ up \in Seq(Places) /\ Len(up) <= MaxLine /\ Len(down) <= MaxLine
    /\ cache \in Phases \X Steps /\ obs \in Phases \cup {NoObs}
    /\ faults = 0

\* What holds as long as nothing has been lost, late or overtaken.
LInv ==
    /\ IInv /\ LinkTyped
    /\ ~time_flag => ~ready_to_send
    /\ DownRight /\ Unsynchronized

\* What can be reported next is a step of the plan.
LEMMA NearPlaces == ASSUME NEW g \in Places PROVE Near(g) \subseteq Places
BY AfterPlace DEF Near

\* A report made at a step near the last one prolongs the chain.
LEMMA ChainAppend ==
    ASSUME NEW g \in Places, NEW u \in Seq(Places), Chain(g, u), NEW s \in Near(Freshest(g, u))
    PROVE  /\ Append(u, s) \in Seq(Places) /\ Chain(g, Append(u, s))
           /\ Freshest(g, Append(u, s)) = s /\ Len(Append(u, s)) = Len(u) + 1
           /\ \A i \in 1..Len(u) : Append(u, s)[i] = u[i]
           /\ Append(u, s)[Len(u) + 1] = s
<1>1. s \in Places
  <2>1. Freshest(g, u) \in Places
    BY DEF Freshest
  <2> QED BY <2>1, NearPlaces
<1> DEFINE v == Append(u, s)
<1>2. /\ v \in Seq(Places) /\ Len(v) = Len(u) + 1 /\ Len(u) \in Nat
      /\ \A i \in 1..Len(u) : v[i] = u[i]
      /\ v[Len(u) + 1] = s
  BY <1>1
<1>3. v # <<>>
  BY <1>2
<1> HIDE DEF v
<1>4. v[1] \in Near(g)
  <2>1. CASE u = <<>>
    BY <2>1, <1>2 DEF Freshest
  <2>2. CASE u # <<>>
    <3>1. Len(u) >= 1
      BY <2>2
    <3> QED BY <3>1, <2>2, <1>2 DEF Chain
  <2> QED BY <2>1, <2>2
<1>5. ASSUME NEW i \in 1..Len(v) - 1 PROVE v[i + 1] \in Near(v[i])
  <2>1. CASE i < Len(u)
    <3>1. i \in 1..Len(u) - 1 /\ i \in 1..Len(u) /\ i + 1 \in 1..Len(u)
      BY <2>1, <1>2
    <3> QED BY <3>1, <1>2 DEF Chain
  <2>2. CASE i = Len(u)
    <3>1. u # <<>> /\ i \in 1..Len(u)
      BY <2>2
    <3> QED BY <3>1, <2>2, <1>2 DEF Freshest
  <2>3. i <= Len(u)
    BY <1>2
  <2> QED BY <2>1, <2>2, <2>3, <1>2
<1>6. Chain(g, v)
  BY <1>4, <1>5 DEF Chain
<1>7. Freshest(g, v) = s
  BY <1>2, <1>3 DEF Freshest
<1> QED BY <1>2, <1>6, <1>7 DEF v

\* Applying the first report makes it the start of the chain.
LEMMA ChainTail ==
    ASSUME NEW g \in Places, NEW u \in Seq(Places), Chain(g, u), u # <<>>
    PROVE  /\ Head(u) \in Near(g) /\ Head(u) \in Places
           /\ Tail(u) \in Seq(Places) /\ Len(Tail(u)) = Len(u) - 1
           /\ \A i \in 1..Len(Tail(u)) : i + 1 \in 1..Len(u) /\ Tail(u)[i] = u[i + 1]
           /\ Chain(Head(u), Tail(u))
           /\ Freshest(Head(u), Tail(u)) = Freshest(g, u)
<1> DEFINE v == Tail(u)
<1>1. /\ Head(u) = u[1] /\ u[1] \in Places /\ Len(u) \in Nat \ {0}
      /\ v \in Seq(Places) /\ Len(v) = Len(u) - 1
      /\ \A i \in 1..Len(v) : v[i] = u[i + 1]
  OBVIOUS
<1>2. v = <<>> <=> Len(u) = 1
  BY <1>1
<1> HIDE DEF v
<1>3. \A i \in 1..Len(v) : i + 1 \in 1..Len(u)
  BY <1>1
<1>4. u[1] \in Near(g)
  BY DEF Chain
<1>5. Chain(u[1], v)
  <2>1. ASSUME v # <<>> PROVE v[1] \in Near(u[1])
    <3>1. 1 \in 1..Len(u) - 1 /\ 1 \in 1..Len(v)
      BY <2>1, <1>1, <1>2
    <3>2. v[1] = u[1 + 1]
      BY <3>1, <1>1
    <3> QED BY <3>1, <3>2 DEF Chain
  <2>2. ASSUME NEW i \in 1..Len(v) - 1 PROVE v[i + 1] \in Near(v[i])
    <3>1. i + 1 \in 1..Len(u) - 1 /\ i \in 1..Len(v) /\ i + 1 \in 1..Len(v)
      BY <1>1
    <3>2. v[i] = u[i + 1] /\ v[i + 1] = u[(i + 1) + 1]
      BY <3>1, <1>1
    <3> QED BY <3>1, <3>2 DEF Chain
  <2> QED BY <2>1, <2>2 DEF Chain
<1>6. Freshest(u[1], v) = Freshest(g, u)
  <2>1. CASE v = <<>>
    BY <2>1, <1>2 DEF Freshest
  <2>2. CASE v # <<>>
    <3>1. Len(v) \in 1..Len(v) /\ Len(v) + 1 = Len(u)
      BY <2>2, <1>1, <1>2
    <3> QED BY <3>1, <2>2, <1>1 DEF Freshest
  <2> QED BY <2>1, <2>2
<1> QED BY <1>1, <1>3, <1>4, <1>5, <1>6 DEF v

\* Heads, tails and extensions of the short sequences of packets.
LEMMA ShortSequences ==
    ASSUME NEW q, NEW w, NEW s
    PROVE  /\ Head(<<q>>) = q /\ Tail(<<q>>) = <<>> /\ Head(<<q, q>>) = q /\ Tail(<<q, q>>) = <<q>>
           /\ Head(<<w, q>>) = w /\ Tail(<<w, q>>) = <<q>>
           /\ Head(<<w, q, q>>) = w /\ Tail(<<w, q, q>>) = <<q, q>>
           /\ Head(<<s, w, q>>) = s /\ Tail(<<s, w, q>>) = <<w, q>>
           /\ Head(<<s, w, q, q>>) = s /\ Tail(<<s, w, q, q>>) = <<w, q, q>>
           /\ Append(<<>>, q) = <<q>> /\ Append(<<q>>, q) = <<q, q>>
           /\ Append(<<w, q>>, q) = <<w, q, q>> /\ Append(<<s, w, q>>, q) = <<s, w, q, q>>
           /\ <<>> \o <<s, w, q>> = <<s, w, q>>
<1>1. Head(<<q>>) = q /\ Tail(<<q>>) = <<>> /\ Head(<<q, q>>) = q /\ Tail(<<q, q>>) = <<q>>
  OBVIOUS
<1>2. Head(<<w, q>>) = w /\ Tail(<<w, q>>) = <<q>>
  OBVIOUS
<1>3. Head(<<w, q, q>>) = w /\ Tail(<<w, q, q>>) = <<q, q>>
  OBVIOUS
<1>4. Head(<<s, w, q>>) = s /\ Tail(<<s, w, q>>) = <<w, q>>
  OBVIOUS
<1>5. Head(<<s, w, q, q>>) = s /\ Tail(<<s, w, q, q>>) = <<w, q, q>>
  OBVIOUS
<1>6. Append(<<>>, q) = <<q>> /\ Append(<<q>>, q) = <<q, q>>
  <2> DEFINE S == {q}
  <2>1. <<>> \in Seq(S) /\ <<q>> \in Seq(S) /\ <<q, q>> \in Seq(S)
    OBVIOUS
  <2>2. /\ Append(<<>>, q) \in Seq(S) /\ Len(Append(<<>>, q)) = 1
        /\ \A i \in 1..1 : Append(<<>>, q)[i] = <<q>>[i]
    BY <2>1
  <2>3. /\ Append(<<q>>, q) \in Seq(S) /\ Len(Append(<<q>>, q)) = 2
        /\ \A i \in 1..2 : Append(<<q>>, q)[i] = <<q, q>>[i]
    BY <2>1
  <2>4. Len(<<q>>) = 1 /\ Len(<<q, q>>) = 2
    OBVIOUS
  <2> HIDE DEF S
  <2>5. Append(<<>>, q) = <<q>>
    BY <2>1, <2>2, <2>4, SeqEqual
  <2>6. Append(<<q>>, q) = <<q, q>>
    BY <2>1, <2>3, <2>4, SeqEqual
  <2> QED BY <2>5, <2>6
<1>7. Append(<<w, q>>, q) = <<w, q, q>> /\ Append(<<s, w, q>>, q) = <<s, w, q, q>>
  <2> DEFINE S == {q, w, s}
  <2>1. /\ <<w, q>> \in Seq(S) /\ <<s, w, q>> \in Seq(S)
        /\ <<w, q, q>> \in Seq(S) /\ <<s, w, q, q>> \in Seq(S)
    OBVIOUS
  <2>2. /\ Append(<<w, q>>, q) \in Seq(S) /\ Len(Append(<<w, q>>, q)) = 3
        /\ \A i \in 1..3 : Append(<<w, q>>, q)[i] = <<w, q, q>>[i]
    BY <2>1
  <2>3. /\ Append(<<s, w, q>>, q) \in Seq(S) /\ Len(Append(<<s, w, q>>, q)) = 4
        /\ \A i \in 1..4 : Append(<<s, w, q>>, q)[i] = <<s, w, q, q>>[i]
    BY <2>1
  <2>4. Len(<<w, q, q>>) = 3 /\ Len(<<s, w, q, q>>) = 4
    OBVIOUS
  <2> HIDE DEF S
  <2>5. Append(<<w, q>>, q) = <<w, q, q>>
    BY <2>1, <2>2, <2>4, SeqEqual
  <2>6. Append(<<s, w, q>>, q) = <<s, w, q, q>>
    BY <2>1, <2>3, <2>4, SeqEqual
  <2> QED BY <2>5, <2>6
<1>8. <<>> \o <<s, w, q>> = <<s, w, q>>
  <2>1. <<s, w, q>> \in Seq({q, w, s})
    OBVIOUS
  <2> QED BY <2>1, ConcatEmptySeq
<1> QED BY <1>1, <1>2, <1>3, <1>4, <1>5, <1>6, <1>7, <1>8

\* How the packets on the way change when one is sent or obeyed.
LEMMA DownShapes ==
    /\ Head(Q1) = "query" /\ Tail(Q1) = <<>> /\ Head(Q2) = "query" /\ Tail(Q2) = Q1
    /\ Head(W1) = "switch" /\ Tail(W1) = Q1 /\ Head(W2) = "switch" /\ Tail(W2) = Q2
    /\ Head(S1) = "strategy" /\ Tail(S1) = W1 /\ Head(S2) = "strategy" /\ Tail(S2) = W2
    /\ Append(<<>>, "query") = Q1 /\ Append(Q1, "query") = Q2
    /\ Append(W1, "query") = W2 /\ Append(S1, "query") = S2
    /\ <<>> \o SwitchPackets = S1
<1> DEFINE q == "query"
           w == "switch"
           s == "strategy"
<1> HIDE DEF q, w, s
<1>1. /\ Head(<<q>>) = q /\ Tail(<<q>>) = <<>> /\ Head(<<q, q>>) = q /\ Tail(<<q, q>>) = <<q>>
      /\ Head(<<w, q>>) = w /\ Tail(<<w, q>>) = <<q>>
      /\ Head(<<w, q, q>>) = w /\ Tail(<<w, q, q>>) = <<q, q>>
      /\ Head(<<s, w, q>>) = s /\ Tail(<<s, w, q>>) = <<w, q>>
      /\ Head(<<s, w, q, q>>) = s /\ Tail(<<s, w, q, q>>) = <<w, q, q>>
      /\ Append(<<>>, q) = <<q>> /\ Append(<<q>>, q) = <<q, q>>
      /\ Append(<<w, q>>, q) = <<w, q, q>> /\ Append(<<s, w, q>>, q) = <<s, w, q, q>>
      /\ <<>> \o <<s, w, q>> = <<s, w, q>>
  BY ShortSequences
<1> QED BY <1>1, Zenon DEF q, w, s, Q1, Q2, W1, W2, S1, S2, SwitchPackets

\* The seven contents of the line differ; their lengths.
LEMMA ShapesDiffer ==
    /\ Len(<<>>) = 0 /\ Len(Q1) = 1 /\ Len(Q2) = 2 /\ Len(W1) = 2 /\ Len(W2) = 3
    /\ Len(S1) = 3 /\ Len(S2) = 4
    /\ <<>> # Q1 /\ <<>> # Q2 /\ <<>> # W1 /\ <<>> # W2 /\ <<>> # S1 /\ <<>> # S2
    /\ Q1 # Q2 /\ Q1 # W1 /\ Q1 # W2 /\ Q1 # S1 /\ Q1 # S2
    /\ Q2 # W1 /\ Q2 # W2 /\ Q2 # S1 /\ Q2 # S2
    /\ W1 # W2 /\ W1 # S1 /\ W1 # S2 /\ W2 # S1 /\ W2 # S2 /\ S1 # S2
<1>1. /\ Len(<<>>) = 0 /\ Len(Q1) = 1 /\ Len(Q2) = 2 /\ Len(W1) = 2 /\ Len(W2) = 3
      /\ Len(S1) = 3 /\ Len(S2) = 4
  BY DEF Q1, Q2, W1, W2, S1, S2
<1>2. Q2 # W1 /\ W2 # S1
  <2>1. "query" # "switch" /\ "switch" # "strategy"
    OBVIOUS
  <2> QED BY <2>1, DownShapes
<1>3. 0 # 1 /\ 0 # 2 /\ 0 # 3 /\ 0 # 4 /\ 1 # 2 /\ 1 # 3 /\ 1 # 4 /\ 2 # 3 /\ 2 # 4 /\ 3 # 4
  OBVIOUS
<1>4. <<>> # Q1 /\ <<>> # Q2 /\ <<>> # W1 /\ <<>> # W2 /\ <<>> # S1 /\ <<>> # S2
  BY <1>1, <1>3, Zenon
<1>5. /\ Q1 # Q2 /\ Q1 # W1 /\ Q1 # W2 /\ Q1 # S1 /\ Q1 # S2
      /\ Q2 # W2 /\ Q2 # S1 /\ Q2 # S2
      /\ W1 # W2 /\ W1 # S1 /\ W1 # S2 /\ W2 # S2 /\ S1 # S2
  BY <1>1, <1>3, Zenon
<1> QED BY <1>1, <1>2, <1>4, <1>5, Zenon

\* The handler starts unsynchronized, with an empty line.
LEMMA InitLInv == ASSUME LInit PROVE LInv
<1>1. IInv
  BY InitIInv DEF LInit
<1>2. tc \in Places /\ down = <<>> /\ up = <<>> /\ cache = <<0, 0>> /\ dwell = 0
  BY DEF LInit
<1>3. LinkTyped
  <2>1. /\ up \in Seq(Places) /\ Len(up) = 0 /\ Len(down) = 0
        /\ cache \in Phases \X Steps /\ dwell \in 0..MinDwell /\ 0 <= MaxLine
    BY <1>2, LinkAssumption DEF Phases, Steps
  <2>2. Len(up) <= MaxLine /\ Len(down) <= MaxLine
    BY <2>1
  <2> QED BY <1>2, <2>1, <2>2 DEF LInit, LinkTyped
<1>4. DownRight
  BY <1>2, ShapesDiffer DEF LInit, DownRight, Obeyed
<1>5. ~Obeyed
  BY <1>2, ShapesDiffer DEF Obeyed
<1>6. Follows(tc)
  <2>1. Agrees(cache, tc)
    BY <1>2 DEF Agrees
  <2>2. Chain(tc, up)
    BY <1>2 DEF Chain
  <2>3. Freshest(tc, up) = tc
    BY <1>2 DEF Freshest
  <2>4. ~ready_to_send
    BY DEF LInit, Init
  <2> QED BY <2>1, <2>2, <2>3, <2>4, <1>5 DEF Follows, Tracked
<1> QED BY <1>1, <1>2, <1>3, <1>4, <1>6 DEF LInv, Unsynchronized, LInit, Init

\* Nothing of the algorithm changes: its invariant and its place stay.
LEMMA AlgorithmStays ==
    ASSUME LInv, UNCHANGED vars
    PROVE  /\ IInv'
           /\ (~time_flag => ~ready_to_send)'
           /\ Place(CS, direction_flag)' = Place(CS, direction_flag)
           /\ is_synchronized' = is_synchronized /\ ready_to_send' = ready_to_send
<1>1. IInv'
  BY NextPreservesIInv DEF LInv
<1> QED BY <1>1 DEF LInv, vars, ctlVars, Place

\* Unless late, the phase is read when no report is on its way.
LEMMA ReadPhaseLInv == ASSUME LInv, ReadPhase, faults' = 0 PROVE LInv'
<1>1. /\ UNCHANGED <<vars, tc, dwell, dynamic, down, up, cache, polled, faults>>
      /\ obs' = cache[1] /\ polled /\ down = <<>> /\ up = <<>>
  BY DEF ReadPhase, Notes, LInv, LinkTyped
<1>2. cache[1] \in Phases
  BY DEF LInv, LinkTyped
<1>3. LinkTyped'
  BY <1>1, <1>2 DEF LInv, LinkTyped
<1>4. DownRight'
  BY <1>1, <1>2 DEF LInv, DownRight, Obeyed
<1>5. Unsynchronized'
  BY <1>1, AlgorithmStays DEF LInv, Unsynchronized, Follows, Tracked, ReadyAt, Obeyed
<1> QED BY <1>1, <1>3, <1>4, <1>5, AlgorithmStays DEF LInv

\* The periodic query goes behind whatever is on the line.
LEMMA PollLInv == ASSUME LInv, Poll, faults' = 0 PROVE LInv'
<1>1. /\ UNCHANGED <<vars, tc, dwell, dynamic, up, cache, obs, faults>>
      /\ ~polled /\ obs = NoObs /\ Len(down) < MaxLine
      /\ down' = Append(down, "query") /\ polled' = TRUE
  BY DEF Poll, Notes, LInv, LinkTyped
<1>2. down \in {<<>>, Q1, W1, S1}
  BY <1>1 DEF LInv, DownRight
<1>3. /\ down = <<>> => down' = Q1
      /\ down = Q1 => down' = Q2
      /\ down = W1 => down' = W2
      /\ down = S1 => down' = S2
  BY <1>1, DownShapes
<1>4. down' \in {Q1, Q2, W2, S2} /\ Len(down') = Len(down) + 1 /\ Len(down) \in Nat
  <2>1. CASE down = <<>>
    BY <2>1, <1>3, ShapesDiffer
  <2>2. CASE down = Q1
    BY <2>2, <1>3, ShapesDiffer
  <2>3. CASE down = W1
    BY <2>3, <1>3, ShapesDiffer
  <2>4. CASE down = S1
    BY <2>4, <1>3, ShapesDiffer
  <2> QED BY <2>1, <2>2, <2>3, <2>4, <1>2
<1>5. Obeyed' <=> Obeyed
  BY <1>1, <1>2, <1>3, ShapesDiffer DEF Obeyed
<1>6. Switching' <=> Switching
  BY <1>1, <1>2, <1>3, ShapesDiffer DEF Switching
<1>7. LinkTyped'
  BY <1>1, <1>4, LinkAssumption DEF LInv, LinkTyped
<1>8. DownRight'
  <2>1. (down \in {W1, W2} => dynamic)'
    BY <1>1, <1>2, <1>3, ShapesDiffer DEF LInv, DownRight
  <2>2. (down \in {W1, W2, S1, S2} \/ Obeyed => up = <<>>)'
    BY <1>1, <1>2, <1>3, <1>5, <1>6, ShapesDiffer DEF LInv, DownRight, Switching
  <2> QED BY <1>1, <1>4, <2>1, <2>2, ShapesDiffer DEF DownRight
<1>9. Unsynchronized'
  <2> SUFFICES ASSUME ~is_synchronized' PROVE \E g \in Places : Follows(g)'
    BY DEF Unsynchronized
  <2>1. PICK g \in Places : Follows(g)
    BY <1>1, AlgorithmStays DEF LInv, Unsynchronized
  <2>2. Freshest(g, up)' = Freshest(g, up)
    BY <1>1
  <2>3. Tracked(Freshest(g, up))'
    BY <1>1, <1>4, <1>5, <2>1, <2>2, ShapesDiffer DEF Follows, Tracked
  <2>4. (ready_to_send => ReadyAt(g))'
    <3>1. ready_to_send' = ready_to_send
      BY <1>1, AlgorithmStays
    <3>2. ASSUME ready_to_send PROVE ReadyAt(g)
      BY <2>1, <3>2 DEF Follows
    <3>3. ASSUME ReadyAt(g) PROVE ReadyAt(g)'
      <4>1. down = <<>>
        BY <1>1, <3>3 DEF ReadyAt, Obeyed
      <4>2. down' = Q1
        BY <4>1, <1>3
      <4> QED BY <1>1, <1>5, <2>2, <3>3, <4>2 DEF ReadyAt
    <3> QED BY <3>1, <3>2, <3>3
  <2> QED BY <1>1, <2>1, <2>3, <2>4 DEF Follows
<1> QED BY <1>7, <1>8, <1>9, <1>1, AlgorithmStays DEF LInv

\* packet_5FCC moves the place the cache stands for to that of the report.
LEMMA PacketLInv == ASSUME LInv, packet_5FCC, faults' = 0 PROVE LInv'
<1>1. /\ UNCHANGED <<vars, tc, dwell, dynamic, down, obs, polled, faults>>
      /\ up # <<>> /\ up' = Tail(up) /\ up \in Seq(Places) /\ Len(up) <= MaxLine
      /\ cache' = Updated(cache, Head(up)) /\ cache \in Phases \X Steps
  BY DEF packet_5FCC, Updated, LInv, LinkTyped
<1>2. down \in {<<>>, Q1} /\ ~Obeyed /\ obs = NoObs
  <2>1. DownRight
    BY DEF LInv
  <2>2. /\ down \in {<<>>, Q1, Q2, W1, W2, S1, S2}
        /\ down \notin {W1, W2, S1, S2} /\ ~Obeyed /\ obs = NoObs
    BY <2>1, <1>1, Zenon DEF DownRight
  <2> QED BY <2>2, ShapesDiffer DEF Obeyed
<1>3. /\ Head(up) \in Places /\ Tail(up) \in Seq(Places) /\ Len(Tail(up)) = Len(up) - 1
      /\ Len(up) \in Nat
  BY <1>1
<1>4. Updated(cache, Head(up)) \in Phases \X Steps
  <2>1. Head(up)[1] \in 1..4 /\ Head(up)[2] \in 1..5
    BY <1>3, PlaceParts
  <2> QED BY <2>1, <1>1 DEF Updated, Phases, Steps
<1>5. LinkTyped'
  BY <1>1, <1>3, <1>4, LinkAssumption DEF LInv, LinkTyped
<1>6. ~Obeyed' /\ (Switching' <=> Switching) /\ ~Switching
  BY <1>1, <1>2, ShapesDiffer DEF Obeyed, Switching
<1>7. DownRight'
  BY <1>1, <1>2, <1>6, ShapesDiffer DEF LInv, DownRight, Switching
<1>8. Unsynchronized'
  <2> SUFFICES ASSUME ~is_synchronized' PROVE \E g \in Places : Follows(g)'
    BY DEF Unsynchronized
  <2>1. PICK g \in Places : Follows(g)
    BY <1>1, AlgorithmStays DEF LInv, Unsynchronized
  <2> PICK r : r = Head(up)
    OBVIOUS
  <2>2. /\ r \in Near(g) /\ r \in Places /\ Chain(r, Tail(up))
        /\ Freshest(r, Tail(up)) = Freshest(g, up)
        /\ \A i \in 1..Len(Tail(up)) : i + 1 \in 1..Len(up) /\ Tail(up)[i] = up[i + 1]
    BY <1>1, <2>1, ChainTail DEF Follows
  <2>3. Agrees(cache, r)'
    BY <1>1, <2>1, <2>2, UpdateAgrees DEF Follows
  <2>4. Freshest(r, up') = Freshest(g, up)
    BY <1>1, <2>2
  <2> PICK f : f = Freshest(g, up)
    OBVIOUS
  <2>5. Tracked(f)'
    BY <1>1, <2>1, <1>2, <1>6 DEF Follows, Tracked
  <2>6. ASSUME ready_to_send PROVE ReadyAt(r)'
    <3>1. ReadyAt(g) /\ r = up[1] /\ 1 \in 1..Len(up)
      BY <2>1, <2>6, <1>1, <1>3 DEF Follows
    <3>2. r \in Reds \cup Starts /\ g \in Reds \cup Starts /\ cache = g
      BY <3>1 DEF ReadyAt
    <3>3. cache' = r
      <4>1. CASE r \in Starts
        <5>1. r = <<r[1], r[2]>> /\ r[1] # 0 /\ r[2] # 5
          BY <4>1, RedsStarts, PlaceParts
        <5>2. Updated(cache, r) = <<r[1], r[2]>>
          BY <5>1 DEF Updated
        <5> QED BY <5>1, <5>2, <1>1
      <4>2. CASE r \in Reds
        <5>1. g \in Reds
          BY <4>2, <2>2, <3>2, RedsStarts
        <5>2. r = g
          BY <5>1, <4>2, <2>2, RedsStarts
        <5>3. r[2] = 5 /\ r = <<r[1], r[2]>>
          BY <4>2, RedsStarts, PlaceParts
        <5>4. Updated(cache, r) = <<cache[1], r[2]>>
          BY <5>3 DEF Updated
        <5> QED BY <5>2, <5>3, <5>4, <3>2, <1>1
      <4> QED BY <4>1, <4>2, <3>2
    <3>4. \A i \in 1..Len(up') : up'[i] \in Reds \cup Starts
      BY <1>1, <2>2, <3>1 DEF ReadyAt
    <3>5. Freshest(r, up') \in Starts => tc' = Freshest(r, up') /\ dwell' <= 1
      BY <1>1, <2>4, <3>1 DEF ReadyAt
    <3> QED BY <3>2, <3>3, <3>4, <3>5, <1>1, <1>2, <1>6 DEF ReadyAt
  <2>7. Follows(r)'
    <3>1. ready_to_send' = ready_to_send
      BY <1>1, AlgorithmStays
    <3>2. Tracked(Freshest(r, up))'
      BY <2>4, <2>5
    <3>3. Chain(r, up)'
      BY <1>1, <2>2
    <3> QED BY <2>3, <2>6, <3>1, <3>2, <3>3 DEF Follows
  <2> QED BY <2>2, <2>7
<1> QED BY <1>5, <1>7, <1>8, <1>1, AlgorithmStays DEF LInv

\* The plan moves at the earliest two ticks after the last report's step was
\* entered, so never from a step the reports have not caught up with.
LEMMA PlanLInv == ASSUME LInv, PlanMovesOn, faults' = 0 PROVE LInv'
<1>1. /\ UNCHANGED <<vars, dynamic, down, up, cache, obs, polled, faults>>
      /\ dwell >= 2 /\ tc' = After(tc) /\ dwell' = 0
      /\ tc \in Places /\ dwell \in Nat
  BY LinkAssumption DEF PlanMovesOn, Notes, LInv, LinkTyped
<1>2. LinkTyped'
  BY <1>1, AfterPlace, LinkAssumption DEF LInv, LinkTyped
<1>3. (Obeyed' <=> Obeyed) /\ (Switching' <=> Switching)
  BY <1>1 DEF Obeyed, Switching
<1>4. DownRight'
  BY <1>1, <1>3 DEF LInv, DownRight
<1>5. Unsynchronized'
  <2> SUFFICES ASSUME ~is_synchronized' PROVE \E g \in Places : Follows(g)'
    BY DEF Unsynchronized
  <2>1. PICK g \in Places : Follows(g)
    BY <1>1, AlgorithmStays DEF LInv, Unsynchronized
  <2>2. Freshest(g, up') = Freshest(g, up)
    BY <1>1
  <2>3. ~Obeyed /\ tc = Freshest(g, up)
    BY <1>1, <2>1 DEF Follows, Tracked
  <2>4. Tracked(Freshest(g, up))'
    BY <1>1, <1>3, <2>2, <2>3 DEF Tracked
  <2>5. (ready_to_send => ReadyAt(g))'
    <3>1. ready_to_send' = ready_to_send
      BY <1>1, AlgorithmStays
    <3>2. ASSUME ready_to_send PROVE ReadyAt(g) /\ Freshest(g, up) \notin Starts
      BY <2>1, <3>2, <1>1 DEF Follows, ReadyAt
    <3>3. ASSUME ReadyAt(g), Freshest(g, up) \notin Starts PROVE ReadyAt(g)'
      BY <1>1, <1>3, <2>2, <3>3 DEF ReadyAt
    <3> QED BY <3>1, <3>2, <3>3
  <2>6. Follows(g)'
    BY <1>1, <2>1, <2>2, <2>4, <2>5 DEF Follows
  <2> QED BY <2>6
<1> QED BY <1>2, <1>4, <1>5, <1>1, AlgorithmStays DEF LInv

\* Obey, packet by packet: the strategy lets the switch be obeyed.
LEMMA StrategyLInv ==
    ASSUME LInv, Obey, faults' = 0, down \in {S1, S2} PROVE LInv'
<1>1. Head(down) = "strategy" /\ down' \in {W1, W2} /\ (down = S1 <=> down' = W1)
  BY DownShapes, ShapesDiffer DEF Obey
<1>2. /\ UNCHANGED <<vars, tc, dwell, up, cache, obs, polled, faults>>
      /\ dynamic' = TRUE
  BY <1>1 DEF Obey
<1>3. (down' = W1 => down = S1) /\ (down' = W2 => down = S2)
  BY <1>1, ShapesDiffer
<1>4. Len(down') <= MaxLine
  <2>1. Len(down) <= MaxLine /\ MaxLine \in Nat
    BY LinkAssumption DEF LInv, LinkTyped
  <2>2. CASE down' = W1
    <3>1. Len(down') = 2 /\ Len(down) = 3
      BY <2>2, <1>3, ShapesDiffer, Zenon
    <3> QED BY <2>1, <3>1
  <2>3. CASE down' = W2
    <3>1. Len(down') = 3 /\ Len(down) = 4
      BY <2>3, <1>3, ShapesDiffer, Zenon
    <3> QED BY <2>1, <3>1
  <2> QED BY <2>2, <2>3, <1>1
<1>5. LinkTyped'
  BY <1>2, <1>4 DEF LInv, LinkTyped
<1>6. ~Obeyed /\ ~Obeyed' /\ Switching /\ Switching' /\ down # <<>> /\ down' # <<>>
  BY <1>1, ShapesDiffer DEF Obeyed, Switching
<1>7. DownRight'
  BY <1>1, <1>2, <1>3, <1>6, ShapesDiffer DEF LInv, DownRight
<1>8. Unsynchronized'
  <2> SUFFICES ASSUME ~is_synchronized' PROVE \E g \in Places : Follows(g)'
    BY DEF Unsynchronized
  <2>1. PICK g \in Places : Follows(g)
    BY <1>2, AlgorithmStays DEF LInv, Unsynchronized
  <2>2. Freshest(g, up') = Freshest(g, up)
    BY <1>2
  <2>3. ~ready_to_send
    BY <2>1, ShapesDiffer DEF Follows, ReadyAt
  <2>4. Tracked(Freshest(g, up))'
    BY <1>2, <1>6, <2>1, <2>2 DEF Follows, Tracked
  <2> QED BY <1>2, <2>1, <2>2, <2>3, <2>4, AlgorithmStays DEF Follows
<1> QED BY <1>5, <1>7, <1>8, <1>2, AlgorithmStays DEF LInv

\* The switch makes the step the stage, or the alignment, has already made.
LEMMA SwitchLInv ==
    ASSUME LInv, Obey, faults' = 0, down \in {W1, W2} PROVE LInv'
<1>1. Head(down) = "switch" /\ down' \in {Q1, Q2} /\ (down' = Q1 => down = W1) /\ (down' = Q2 => down = W2)
  BY DownShapes, ShapesDiffer DEF Obey
<1>2. dynamic /\ up = <<>> /\ tc \in Places /\ After(tc) # tc /\ After(tc) \in Places
  BY AfterPlace, ShapesDiffer DEF LInv, DownRight, LinkTyped
<1>3. /\ UNCHANGED <<vars, dynamic, up, cache, obs, polled, faults>>
      /\ tc' = After(tc) /\ dwell' = 0
  BY <1>1, <1>2 DEF Obey
<1>4. Len(down') <= MaxLine
  <2>1. Len(down) <= MaxLine /\ MaxLine \in Nat
    BY LinkAssumption DEF LInv, LinkTyped
  <2>2. CASE down' = Q1
    <3>1. Len(down') = 1 /\ Len(down) = 2
      BY <2>2, <1>1, ShapesDiffer, Zenon
    <3> QED BY <2>1, <3>1
  <2>3. CASE down' = Q2
    <3>1. Len(down') = 2 /\ Len(down) = 3
      BY <2>3, <1>1, ShapesDiffer, Zenon
    <3> QED BY <2>1, <3>1
  <2> QED BY <2>2, <2>3, <1>1
<1>5. LinkTyped'
  BY <1>2, <1>3, <1>4, LinkAssumption DEF LInv, LinkTyped
<1>6. ~Obeyed /\ Obeyed' /\ Switching /\ ~Switching'
  BY <1>1, <1>3, ShapesDiffer DEF Obeyed, Switching, LInv, DownRight
<1>7. DownRight'
  BY <1>1, <1>2, <1>3, <1>6, ShapesDiffer DEF LInv, DownRight
<1>8. Unsynchronized'
  <2> SUFFICES ASSUME ~is_synchronized' PROVE \E g \in Places : Follows(g)'
    BY DEF Unsynchronized
  <2>1. PICK g \in Places : Follows(g)
    BY <1>3, AlgorithmStays DEF LInv, Unsynchronized
  <2>2. Freshest(g, up') = Freshest(g, up)
    BY <1>3
  <2>3. ~ready_to_send
    BY <2>1, ShapesDiffer DEF Follows, ReadyAt
  <2>4. tc = Freshest(g, up) \/ tc = After(Freshest(g, up))
    BY <1>6, <2>1 DEF Follows, Tracked
  <2>5. Tracked(Freshest(g, up))'
    BY <1>3, <1>6, <2>4, <2>2 DEF Tracked
  <2> QED BY <1>3, <2>1, <2>2, <2>3, <2>5, AlgorithmStays DEF Follows
<1> QED BY <1>5, <1>7, <1>8, <1>3, AlgorithmStays DEF LInv

\* A query is answered with the step the controller is at.
LEMMA QueryLInv ==
    ASSUME LInv, Obey, faults' = 0, down \in {Q1, Q2} PROVE LInv'
<1>1. Head(down) = "query" /\ down' \in {<<>>, Q1} /\ (down' = <<>> => down = Q1) /\ (down' = Q1 => down = Q2)
  BY DownShapes, ShapesDiffer DEF Obey
<1>2. /\ UNCHANGED <<vars, tc, dwell, dynamic, cache, obs, polled, faults>>
      /\ up' = Append(up, tc) /\ Len(up) < MaxLine
      /\ tc \in Places /\ up \in Seq(Places) /\ dwell \in Nat
  BY <1>1, LinkAssumption DEF Obey, LInv, LinkTyped
<1>3. obs = NoObs /\ (down = Q2 => polled) /\ ~Obeyed' /\ ~Switching /\ ~Switching'
  BY <1>1, <1>2, ShapesDiffer DEF LInv, DownRight, Obeyed, Switching
<1>4. Len(down') <= MaxLine
  <2>1. Len(down) <= MaxLine /\ MaxLine \in Nat
    BY LinkAssumption DEF LInv, LinkTyped
  <2>2. CASE down' = <<>>
    <3>1. Len(down') = 0 /\ Len(down) = 1
      BY <2>2, <1>1, ShapesDiffer, Zenon
    <3> QED BY <2>1, <3>1
  <2>3. CASE down' = Q1
    <3>1. Len(down') = 1 /\ Len(down) = 2
      BY <2>3, <1>1, ShapesDiffer, Zenon
    <3> QED BY <2>1, <3>1
  <2> QED BY <2>2, <2>3, <1>1
<1>5. up' \in Seq(Places) /\ Len(up') = Len(up) + 1 /\ Len(up) \in Nat
  BY <1>2
<1>6. LinkTyped'
  BY <1>2, <1>4, <1>5, LinkAssumption DEF LInv, LinkTyped
<1>7. DownRight'
  BY <1>1, <1>2, <1>3, ShapesDiffer DEF DownRight, Switching
<1>8. Unsynchronized'
  <2> SUFFICES ASSUME ~is_synchronized' PROVE \E g \in Places : Follows(g)'
    BY DEF Unsynchronized
  <2>1. PICK g \in Places : Follows(g)
    BY <1>2, AlgorithmStays DEF LInv, Unsynchronized
  <2> DEFINE f == Freshest(g, up)
  <2>2. tc \in Near(f)
    BY <2>1 DEF Follows, Tracked, Near
  <2>3. /\ Chain(g, up') /\ Freshest(g, up') = tc
        /\ \A i \in 1..Len(up) : up'[i] = up[i]
        /\ up'[Len(up) + 1] = tc
    BY <1>2, <2>1, <2>2, ChainAppend DEF Follows
  <2>4. Tracked(tc)'
    BY <1>2, <1>3 DEF Tracked
  <2>5. ASSUME ready_to_send PROVE ReadyAt(g)'
    <3>1. ReadyAt(g) /\ ~Obeyed
      BY <2>1, <2>5 DEF Follows, ReadyAt
    <3>2. f \in Reds \cup Starts
      <4>1. CASE up = <<>>
        BY <4>1, <3>1 DEF ReadyAt, Freshest
      <4>2. CASE up # <<>>
        <5>1. Len(up) \in 1..Len(up)
          BY <4>2, <1>2
        <5> QED BY <5>1, <4>2, <3>1 DEF ReadyAt, Freshest
      <4> QED BY <4>1, <4>2
    <3>3. tc \in Reds \cup Starts /\ (tc \in Starts => dwell <= 1)
      <4>1. CASE f \in Starts
        BY <4>1, <3>1 DEF ReadyAt
      <4>2. CASE f \in Reds
        <5>1. tc = f \/ (tc = After(f) /\ dwell <= 1)
          BY <2>1, <3>1, <1>2 DEF Follows, Tracked
        <5>2. After(f) \in Starts
          BY <4>2, RedsStarts
        <5>3. f \notin Starts
          BY <4>2, RedsStarts
        <5> QED BY <5>1, <5>2, <5>3, <4>2
      <4> QED BY <4>1, <4>2, <3>2
    <3>4. \A i \in 1..Len(up') : up'[i] \in Reds \cup Starts
      BY <1>5, <2>3, <3>1, <3>3 DEF ReadyAt
    <3> QED BY <3>1, <3>3, <3>4, <2>3, <1>1, <1>2, <1>3 DEF ReadyAt
  <2>6. Follows(g)'
    <3>1. ready_to_send' = ready_to_send
      BY <1>2, AlgorithmStays
    <3> QED BY <1>2, <2>1, <2>3, <2>4, <2>5, <3>1 DEF Follows
  <2> QED BY <2>6
<1> QED BY <1>6, <1>7, <1>8, <1>2, AlgorithmStays DEF LInv

\* A cache that shows the all-red step shows the very place reported.
LEMMA ReadyPlace ==
    ASSUME NEW g \in Places, Agrees(cache, g), cache \in Phases \X Steps,
           ReadyStatus(cache[1], cache[2])
    PROVE  cache = g /\ g \in Reds
<1>1. cache[1] \in {2, 4} /\ cache[2] = 5 /\ cache = <<cache[1], cache[2]>>
  BY DEF ReadyStatus
<1>2. cache # <<0, 0>>
  BY <1>1
<1>3. g[2] = 5 /\ cache[1] = g[1]
  BY <1>1, <1>2 DEF Agrees
<1>4. g = <<g[1], g[2]>>
  BY PlaceParts
<1>5. cache = g
  BY <1>1, <1>3, <1>4
<1>6. g = <<2, 5>> \/ g = <<4, 5>>
  BY <1>1, <1>3, <1>4
<1> QED BY <1>5, <1>6 DEF Reds

\* The handler tells early starts and all-red steps apart, and the direction
\* it synchronizes to is that of the early start.
LEMMA StartPlace ==
    /\ \A g \in Starts : StartStatus(g[1], g[2])
    /\ \A g \in Reds : ReadyStatus(g[1], g[2]) /\ g \notin Starts
    /\ \A g \in Places : StartStatus(g[1], g[2]) =>
           Place(1, IF g[1] = 1 THEN 0 ELSE 1) = g
<1>1. \A g \in Starts : StartStatus(g[1], g[2])
  BY RedsStarts DEF StartStatus
<1>2. \A g \in Reds : ReadyStatus(g[1], g[2]) /\ g \notin Starts
  BY RedsStarts DEF ReadyStatus
<1>3. ASSUME NEW g \in Places, StartStatus(g[1], g[2])
      PROVE  Place(1, IF g[1] = 1 THEN 0 ELSE 1) = g
  <2>1. g = <<g[1], g[2]>> /\ g[1] \in {1, 3} /\ g[2] = 1
    BY <1>3, PlaceParts DEF StartStatus
  <2>2. CASE g[1] = 1
    <3>1. g = <<1, 1>> /\ Place(1, 0) = <<1, 1>>
      BY <2>1, <2>2 DEF Place
    <3> QED BY <3>1, <2>2
  <2>3. CASE g[1] = 3
    <3>1. g = <<3, 1>> /\ Place(1, 1) = <<3, 1>>
      BY <2>1, <2>3 DEF Place
    <3> QED BY <3>1, <2>3
  <2> QED BY <2>1, <2>2, <2>3
<1> QED BY <1>1, <1>2, <1>3

\* The second half of a handler run is a tick of the stage machine, with a
\* line that is empty and a cache that has not changed since its first half.
LEMMA DecideIsStep ==
    ASSUME NEW step, NEW view \in Views, LInv, step = cache[2], LDecide(step, view)
    PROVE  /\ Next /\ time_flag'
           /\ obs = cache[1] /\ polled /\ down = <<>> /\ up = <<>>
<1>1. obs = cache[1] /\ polled /\ down = <<>> /\ up = <<>>
  BY DEF LDecide, LInv, DownRight
<1>2. obs \in Phases /\ step \in Steps
  BY <1>1 DEF LInv, LinkTyped
<1>3. Next
  BY <1>2 DEF LDecide, Next
<1>4. time_flag'
  BY DEF LDecide, FirstTick, AlignTick, SynchronizeTick, ControlTick
<1> QED BY <1>1, <1>3, <1>4

\* A tick before synchronization drives the controller from a step it knows.
LEMMA DecideLInv ==
    ASSUME LInv, NEW view \in Views, LDecide(cache[2], view) PROVE LInv'
<1>1. /\ Next /\ time_flag'
      /\ obs = cache[1] /\ polled /\ down = <<>> /\ up = <<>>
  BY DecideIsStep
<1>2. /\ UNCHANGED <<tc, dynamic, up, cache, faults>>
      /\ obs' = NoObs /\ polled' = FALSE
      /\ dwell' = IF dwell < MinDwell THEN dwell + 1 ELSE dwell
      /\ switched' => down' = S1
      /\ ~switched' => down' = <<>>
      /\ 3 <= MaxLine
  <2>1. 3 <= MaxLine
    BY <1>1, LinkAssumption DEF LDecide
  <2>2. <<>> \o SwitchPackets = S1
    BY DownShapes
  <2> QED BY <1>1, <2>1, <2>2 DEF LDecide
<1>3. dwell \in 0..MinDwell /\ dwell' \in 0..MinDwell /\ (dwell = 0 => dwell' <= 1) /\ MinDwell \in Nat
  BY <1>2, LinkAssumption DEF LInv, LinkTyped
<1>4. /\ down' \in {<<>>, S1} /\ ~Obeyed /\ ~Obeyed' /\ ~Switching
      /\ (switched' => Switching') /\ (~switched' => ~Switching')
  BY <1>1, <1>2, ShapesDiffer DEF Obeyed, Switching
<1>5. LinkTyped'
  <2>1. Len(down') <= MaxLine
    <3>1. Len(down') = 0 \/ Len(down') = 3
      BY <1>4, ShapesDiffer
    <3>2. 3 <= MaxLine /\ 0 <= MaxLine
      BY <1>2, LinkAssumption
    <3> QED BY <3>1, <3>2, Zenon
  <2> QED BY <1>2, <1>3, <2>1 DEF LInv, LinkTyped
<1>6. DownRight'
  BY <1>1, <1>2, <1>4, ShapesDiffer DEF DownRight
<1>7. IInv'
  BY <1>1, NextPreservesIInv DEF LInv
<1>8. ASSUME ~is_synchronized, Align(cache[1], cache[2]),
             ready_to_send => ~StartStatus(cache[1], cache[2])
      PROVE  Unsynchronized'
  <2>1. PICK g \in Places : Follows(g)
    BY <1>8 DEF LInv, Unsynchronized
  <2>2. Freshest(g, up) = g /\ (Freshest(g, up))' = g
    BY <1>1, <1>2 DEF Freshest
  <2>3. tc = g \/ (tc = After(g) /\ dwell = 0)
    BY <1>1, <1>3, <1>4, <2>1, <2>2 DEF Follows, Tracked
  <2>4. Tracked(g)'
    BY <1>2, <1>3, <1>4, <2>3 DEF Tracked
  <2>5. ASSUME ready_to_send' PROVE ReadyAt(g)'
    <3>1. cache = g /\ g \in Reds
      <4>1. CASE ready_to_send
        <5>1. cache = g /\ g \in Reds \cup Starts
          <6>1. ReadyAt(g)
            BY <4>1, <2>1 DEF Follows
          <6> QED BY <6>1 DEF ReadyAt
        <5>2. ASSUME g \in Starts PROVE FALSE
          <6>1. StartStatus(cache[1], cache[2])
            <7>1. StartStatus(g[1], g[2])
              BY <5>2, StartPlace
            <7> QED BY <7>1, <5>1
          <6> QED BY <6>1, <4>1, <1>8
        <5> QED BY <5>1, <5>2
      <4>2. CASE ~ready_to_send
        <5>1. ReadyStatus(cache[1], cache[2])
          BY <4>2, <2>5, <1>8 DEF Align
        <5> QED BY <5>1, <2>1, ReadyPlace DEF Follows, LInv, LinkTyped
      <4> QED BY <4>1, <4>2
    <3>2. ~switched'
      BY <3>1, <1>8, StartPlace DEF Align, DriveStatus
    <3>3. down' = <<>> /\ g \notin Starts
      BY <3>1, <3>2, <1>2, StartPlace
    <3>4. \A i \in 1..Len(up') : up'[i] \in Reds \cup Starts
      BY <1>1, <1>2
    <3> QED BY <3>1, <3>3, <3>4, <2>2, <1>2, <1>4 DEF ReadyAt
  <2>6. Follows(g)'
    <3>1. Agrees(cache, g)' /\ Chain(g, up)'
      BY <1>2, <2>1 DEF Follows
    <3> QED BY <2>2, <2>4, <2>5, <3>1 DEF Follows
  <2> QED BY <2>6 DEF Unsynchronized
<1>9. CASE FirstTick(cache[1], cache[2])
  <2>1. ~is_synchronized /\ ~ready_to_send
    BY <1>9 DEF FirstTick, LInv, IInv, TimersInOrder
  <2> QED BY <2>1, <1>8, <1>9, <1>1, <1>5, <1>6, <1>7 DEF FirstTick, LInv
<1>10. CASE AlignTick(cache[1], cache[2])
  BY <1>8, <1>10, <1>1, <1>5, <1>6, <1>7 DEF AlignTick, LInv
<1>11. CASE SynchronizeTick(cache[1], cache[2], view)
  <2>1. is_synchronized' /\ ~ready_to_send'
    BY <1>11 DEF SynchronizeTick
  <2> QED BY <2>1, <1>1, <1>5, <1>6, <1>7 DEF LInv, Unsynchronized
<1>12. CASE ControlTick(view)
  <2>1. is_synchronized' /\ time_flag'
    BY <1>12 DEF ControlTick
  <2> QED BY <2>1, <1>1, <1>5, <1>6, <1>7 DEF LInv, Unsynchronized
<1> QED BY <1>1, <1>9, <1>10, <1>11, <1>12 DEF LDecide

\* A step that leaves everything alone.
LEMMA StutterLInv == ASSUME LInv, UNCHANGED linkedVars PROVE LInv'
<1>1. UNCHANGED <<vars, tc, dwell, dynamic, down, up, cache, obs, polled, faults>>
  BY DEF linkedVars, linkVars
<1>2. LinkTyped' /\ DownRight'
  BY <1>1 DEF LInv, LinkTyped, DownRight, Obeyed
<1>3. Unsynchronized'
  BY <1>1, AlgorithmStays DEF LInv, Unsynchronized, Follows, Tracked, ReadyAt, Obeyed
<1> QED BY <1>1, <1>2, <1>3, AlgorithmStays DEF LInv

\* Every step that is not itself irregular keeps the invariant.
LEMMA NextLInv ==
    ASSUME LInv, [LNext]_linkedVars, faults' = 0 PROVE LInv'
<1>1. CASE LHandlerStep
  BY <1>1, ReadPhaseLInv, DecideLInv DEF LHandlerStep
<1>2. CASE Poll
  BY <1>2, PollLInv
<1>3. CASE packet_5FCC
  BY <1>3, PacketLInv
<1>4. CASE Lose
  BY <1>4 DEF Lose, Notes, LInv, LinkTyped
<1>5. CASE Obey
  <2>1. down \in {Q1, Q2, W1, W2, S1, S2}
    BY <1>5 DEF Obey, LInv, DownRight
  <2> QED BY <2>1, <1>5, StrategyLInv, SwitchLInv, QueryLInv
<1>6. CASE PlanMovesOn
  BY <1>6, PlanLInv
<1>7. CASE UNCHANGED linkedVars
  BY <1>7, StutterLInv
<1> QED BY <1>1, <1>2, <1>3, <1>4, <1>5, <1>6, <1>7 DEF LNext

\* The contents of the line are sequences of packets.
LEMMA ShapesTyped ==
    \A q \in {<<>>, Q1, Q2, W1, W2, S1, S2} : q \in Seq({"strategy", "switch", "query"})
<1> DEFINE q == "query"
           w == "switch"
           s == "strategy"
<1> HIDE DEF q, w, s
<1>1. /\ <<>> \in Seq({s, w, q}) /\ <<q>> \in Seq({s, w, q}) /\ <<q, q>> \in Seq({s, w, q})
      /\ <<w, q>> \in Seq({s, w, q}) /\ <<w, q, q>> \in Seq({s, w, q})
      /\ <<s, w, q>> \in Seq({s, w, q}) /\ <<s, w, q, q>> \in Seq({s, w, q})
  OBVIOUS
<1> QED BY <1>1, Zenon DEF q, w, s, Q1, Q2, W1, W2, S1, S2

-----------------------------------------------------------------------------
(* The account of the gap, on every line.                                   *)

\* The places and the number of the packets p in a sequence.
Where(p, d) == {i \in 1..Len(d) : d[i] = p}
Count(p, d) == Cardinality(Where(p, d))

\* There are finitely many.
LEMMA CountType ==
    ASSUME NEW p, NEW d, Len(d) \in Nat
    PROVE  IsFiniteSet(Where(p, d)) /\ Count(p, d) \in Nat
<1>1. IsFiniteSet(1..Len(d))
  BY FS_Interval
<1>2. IsFiniteSet(Where(p, d))
  BY <1>1, FS_Subset DEF Where
<1> QED BY <1>2, FS_CardinalityType DEF Count

\* The head that is taken away is counted no more.
LEMMA CountTail ==
    ASSUME NEW p, NEW X, NEW d \in Seq(X), d # <<>>
    PROVE  Count(p, d) = Count(p, Tail(d)) + (IF Head(d) = p THEN 1 ELSE 0)
<1>1. /\ Len(d) \in Nat \ {0} /\ Len(Tail(d)) = Len(d) - 1 /\ Head(d) = d[1]
      /\ \A i \in 1..Len(Tail(d)) : Tail(d)[i] = d[i + 1]
  OBVIOUS
<1> DEFINE T == Where(p, Tail(d))
           D == Where(p, d)
           f == [i \in T |-> i + 1]
<1>2. IsFiniteSet(T) /\ IsFiniteSet(D) /\ Cardinality(T) \in Nat /\ Cardinality(D) \in Nat
  BY <1>1, CountType DEF Count
<1>3. \A i \in T : i \in Nat \ {0} /\ i + 1 \in D \ {1}
  BY <1>1 DEF Where
<1>4. \A j \in D \ {1} : j - 1 \in T /\ (j - 1) + 1 = j
  BY <1>1 DEF Where
<1>5. f \in Bijection(T, D \ {1})
  <2>1. f \in [T -> D \ {1}]
    BY <1>3
  <2>2. \A a, b \in T : f[a] = f[b] => a = b
    BY <1>3
  <2>3. \A j \in D \ {1} : \E i \in T : f[i] = j
    BY <1>4
  <2> QED BY <2>1, <2>2, <2>3 DEF Bijection, Injection, Surjection, IsInjective
<1>6. Cardinality(D \ {1}) = Cardinality(T)
  BY <1>2, <1>5, FS_Bijection DEF ExistsBijection
<1>7. Cardinality(D \ {1}) = IF 1 \in D THEN Cardinality(D) - 1 ELSE Cardinality(D)
  BY <1>2, FS_RemoveElement
<1>8. 1 \in D <=> Head(d) = p
  BY <1>1 DEF Where
<1> HIDE DEF T, D
<1>9. Cardinality(D) = Cardinality(T) + (IF Head(d) = p THEN 1 ELSE 0)
  BY <1>2, <1>6, <1>7, <1>8
<1> QED BY <1>9 DEF Count, D, T

\* Another packet at the end is not counted.
LEMMA CountAppend ==
    ASSUME NEW p, NEW X, NEW d \in Seq(X), NEW x \in X, x # p
    PROVE  Count(p, Append(d, x)) = Count(p, d)
<1>1. /\ Len(d) \in Nat /\ Len(Append(d, x)) = Len(d) + 1
      /\ \A i \in 1..Len(d) : Append(d, x)[i] = d[i]
      /\ Append(d, x)[Len(d) + 1] = x
  OBVIOUS
<1>2. Where(p, Append(d, x)) = Where(p, d)
  BY <1>1 DEF Where
<1> QED BY <1>2 DEF Count

\* A whole switch at the end counts once.
LEMMA CountThree ==
    ASSUME NEW p, NEW X, NEW d \in Seq(X), NEW x \in X, NEW y \in X, p \in X, x # p, y # p
    PROVE  /\ Count(p, d \o <<x, p, y>>) = Count(p, d) + 1
           /\ d \o <<x, p, y>> \in Seq(X) /\ Len(d \o <<x, p, y>>) = Len(d) + 3
<1> DEFINE e == d \o <<x, p, y>>
<1>0. <<x, p, y>> \in Seq(X) /\ Len(<<x, p, y>>) = 3
  OBVIOUS
<1>1. /\ Len(d) \in Nat /\ e \in Seq(X) /\ Len(e) = Len(d) + 3
      /\ \A i \in 1..Len(d) : e[i] = d[i]
      /\ e[Len(d) + 1] = x /\ e[Len(d) + 2] = p /\ e[Len(d) + 3] = y
  BY <1>0
<1> HIDE DEF e
<1>2. Where(p, e) = Where(p, d) \cup {Len(d) + 2}
  BY <1>1 DEF Where
<1>3. Len(d) + 2 \notin Where(p, d)
  BY <1>1 DEF Where
<1>4. IsFiniteSet(Where(p, d))
  BY <1>1, CountType
<1>5. Count(p, e) = Count(p, d) + 1
  BY <1>2, <1>3, <1>4, FS_AddElement DEF Count
<1> QED BY <1>1, <1>5 DEF e

\* The packets of the link.
LinkPackets == {"strategy", "switch", "query"}

\* Pending counts the switches on the way: it loses one with each switch taken
\* off the line, gains one with each one sent, and ignores the queries.
LEMMA PendingIs ==
    ASSUME down \in Seq(LinkPackets)
    PROVE  /\ Pending \in Nat
           /\ down # <<>> =>
                Count("switch", Tail(down)) = Pending - (IF Head(down) = "switch" THEN 1 ELSE 0)
           /\ Count("switch", Append(down, "query")) = Pending
           /\ Append(down, "query") \in Seq(LinkPackets)
           /\ Count("switch", down \o SwitchPackets) = Pending + 1
           /\ down \o SwitchPackets \in Seq(LinkPackets)
           /\ Len(down \o SwitchPackets) = Len(down) + 3
           /\ Len(Append(down, "query")) = Len(down) + 1
           /\ Pending' = Count("switch", down')
<1>1. Pending = Count("switch", down) /\ Pending' = Count("switch", down')
  BY DEF Pending, Count, Where
<1>2. Len(down) \in Nat
  OBVIOUS
<1>3. Pending \in Nat
  BY <1>1, <1>2, CountType
<1> DEFINE q == "query"
           w == "switch"
           s == "strategy"
<1>4. q # w /\ s # w /\ q \in LinkPackets /\ w \in LinkPackets /\ s \in LinkPackets
  BY DEF LinkPackets
<1>5. SwitchPackets = <<s, w, q>>
  BY DEF SwitchPackets
<1> HIDE DEF q, w, s
<1>6. down # <<>> => Count(w, down) = Count(w, Tail(down)) + (IF Head(down) = w THEN 1 ELSE 0)
  BY CountTail
<1>7. down # <<>> => Count(w, Tail(down)) \in Nat
  <2>1. down # <<>> => Len(Tail(down)) \in Nat
    OBVIOUS
  <2> QED BY <2>1, CountType
<1>8. down # <<>> => Count(w, Tail(down)) = Count(w, down) - (IF Head(down) = w THEN 1 ELSE 0)
  BY <1>6, <1>7
<1>9. /\ Count(w, Append(down, q)) = Count(w, down)
      /\ Append(down, q) \in Seq(LinkPackets) /\ Len(Append(down, q)) = Len(down) + 1
  BY <1>4, CountAppend
<1>10. /\ Count(w, down \o <<s, w, q>>) = Count(w, down) + 1
       /\ down \o <<s, w, q>> \in Seq(LinkPackets)
       /\ Len(down \o <<s, w, q>>) = Len(down) + 3
  BY <1>4, CountThree
<1>11. w = "switch" /\ q = "query"
  BY DEF w, q
<1> QED BY <1>1, <1>3, <1>5, <1>8, <1>9, <1>10, <1>11, Zenon

\* Every place of the stages and of the controller has a slot, and moving on
\* moves the slot by one, round the cycle.
LEMMA Slots ==
    ASSUME NEW s \in Places
    PROVE  /\ Slot(s) \in 1..12
           /\ Slot(After(s)) = Slot(s) + 1 \/ Slot(After(s)) = Slot(s) - 11
<1>1. PICK i \in 1..12 : s = Cycle[i]
  BY CycleIs DEF Places
<1>2. Slot(s) = i /\ After(s) = Cycle[(i % 12) + 1] /\ (i % 12) + 1 \in 1..12
  BY <1>1, AfterNext
<1>3. Slot(After(s)) = (i % 12) + 1
  BY <1>2, AfterNext
<1>4. (i % 12) + 1 = i + 1 \/ (i % 12) + 1 = i - 11
  OBVIOUS
<1> QED BY <1>2, <1>3, <1>4

\* Counting round the cycle.
LEMMA Round ==
    ASSUME NEW x \in Int
    PROVE  /\ x % 12 \in 0..11
           /\ (x + 12) % 12 = x % 12 /\ (x - 12) % 12 = x % 12
           /\ (x + 1) % 12 = ((x % 12) + 1) % 12
           /\ (x - 11) % 12 = ((x % 12) + 1) % 12
           /\ (x - 1) % 12 = ((x % 12) + 11) % 12
           /\ (x + 11) % 12 = ((x % 12) + 11) % 12
OBVIOUS

\* The difference that Ahead takes round the cycle.
Gap(s, t, n) == Slot(s) - Slot(t) - n

\* The inductive invariant of every line.
Accounted ==
    IF is_synchronized THEN Gap(Place(CS, direction_flag), tc, Pending) % 12 = drift
                       ELSE drift = 0
WInv ==
    /\ IInv /\ LinkTypeOK
    /\ faults = 0 => LInv
    /\ Accounted

\* The place of the stage is a step of the plan.
LEMMA StagePlace ==
    ASSUME NEW c \in Stages, NEW d \in {0, 1} PROVE Place(c, d) \in Places
BY PlaceAfter DEF Stages

\* How the gap changes when one of its parts does.
LEMMA GapMoves ==
    ASSUME NEW s \in Places, NEW t \in Places, NEW n \in Nat
    PROVE  /\ Gap(s, t, n) \in Int
           /\ Gap(s, t, n) % 12 \in 0..11
           /\ Gap(s, t, n - 1) % 12 = ((Gap(s, t, n) % 12) + 1) % 12
           /\ Gap(s, After(t), n - 1) % 12 = Gap(s, t, n) % 12
           /\ Gap(s, After(t), n) % 12 = ((Gap(s, t, n) % 12) + 11) % 12
           /\ Gap(After(s), t, n + 1) % 12 = Gap(s, t, n) % 12
           /\ Gap(t, t, 0) % 12 = 0
           /\ Gap(After(t), t, 1) % 12 = 0
<1>1. /\ Slot(s) \in 1..12 /\ Slot(t) \in 1..12
      /\ Slot(After(s)) = Slot(s) + 1 \/ Slot(After(s)) = Slot(s) - 11
      /\ Slot(After(t)) = Slot(t) + 1 \/ Slot(After(t)) = Slot(t) - 11
  BY Slots
<1> PICK a : a = Slot(s)
  OBVIOUS
<1> PICK b : b = Slot(t)
  OBVIOUS
<1> PICK x : x = a - b - n
  OBVIOUS
<1>2. x \in Int /\ Gap(s, t, n) = x
  BY <1>1 DEF Gap
<1>3. Gap(s, t, n - 1) = x + 1
  BY <1>1 DEF Gap
<1>4. Gap(s, After(t), n - 1) = x \/ Gap(s, After(t), n - 1) = x + 12
  BY <1>1 DEF Gap
<1>5. Gap(s, After(t), n) = x - 1 \/ Gap(s, After(t), n) = x + 11
  BY <1>1 DEF Gap
<1>6. Gap(After(s), t, n + 1) = x \/ Gap(After(s), t, n + 1) = x - 12
  BY <1>1 DEF Gap
<1>7. Gap(t, t, 0) = 0 /\ (Gap(After(t), t, 1) = 0 \/ Gap(After(t), t, 1) = -12)
  BY <1>1 DEF Gap
<1>8. 0 % 12 = 0 /\ (-12) % 12 = 0
  OBVIOUS
<1> QED BY <1>2, <1>3, <1>4, <1>5, <1>6, <1>7, <1>8, Round

\* Every step keeps the types, whatever the line does.
LEMMA TypesKept ==
    ASSUME WInv, [LNext]_linkedVars PROVE IInv' /\ LinkTypeOK' /\ (is_synchronized => is_synchronized')
<1> USE LinkAssumption DEF LinkPackets
<1>1. /\ TypeOK /\ tc \in Places /\ dwell \in 0..MinDwell /\ dynamic \in BOOLEAN
      /\ polled \in BOOLEAN /\ down \in Seq(LinkPackets) /\ Len(down) <= MaxLine
      /\ up \in Seq(Places) /\ Len(up) <= MaxLine /\ cache \in Phases \X Steps
      /\ obs \in Phases \cup {NoObs} /\ faults \in 0..MaxFaults /\ drift \in 0..11 /\ IInv
  BY CycleIs DEF WInv, LinkTypeOK
<1>2. Len(Cycle) = 12 /\ After(tc) \in Places
  BY <1>1, CycleIs, AfterPlace
<1>3. \A odd \in BOOLEAN : Notes(odd) => faults' \in 0..MaxFaults
  BY <1>1 DEF Notes
<1>4. \A n \in Nat : Strays(n) => drift' \in 0..11
  <2> SUFFICES ASSUME NEW n \in Nat, Strays(n) PROVE drift' \in 0..11
    OBVIOUS
  <2>1. (drift + n) % 12 \in 0..11
    BY <1>1, Round
  <2> QED BY <2>1, <1>1, <1>2 DEF Strays
<1>5. ASSUME UNCHANGED vars PROVE IInv' /\ TypeOK' /\ (is_synchronized => is_synchronized')
  BY <1>1, <1>5, NextPreservesIInv DEF IInv, vars
<1>6. CASE ReadPhase
  <2>1. UNCHANGED vars
    BY <1>6 DEF ReadPhase
  <2>2. faults' \in 0..MaxFaults
    BY <1>3, <1>6 DEF ReadPhase
  <2>3. LinkTypeOK'
    BY <1>1, <1>2, <1>5, <1>6, <2>1, <2>2 DEF ReadPhase, LinkTypeOK
  <2> QED BY <1>5, <2>1, <2>3
<1>7. ASSUME NEW view \in Views, LDecide(cache[2], view)
      PROVE  IInv' /\ LinkTypeOK' /\ (is_synchronized => is_synchronized')
  <2>1. obs \in Phases /\ cache[2] \in Steps
    BY <1>1, <1>7 DEF LDecide
  <2>2. Next
    BY <2>1, <1>7 DEF LDecide, Next
  <2>3. IInv'
    BY <2>2, <1>1, NextPreservesIInv
  <2>4. is_synchronized => is_synchronized'
    BY <1>1, <1>7 DEF LDecide, FirstTick, AlignTick, Align, SynchronizeTick, ControlTick, IInv, TimersInOrder
  <2>5. down' \in Seq(LinkPackets) /\ Len(down') <= MaxLine
    <3>1. /\ Len(down) + 3 <= MaxLine
          /\ down' = IF switched' THEN down \o SwitchPackets ELSE down
      BY <1>7 DEF LDecide
    <3>2. down \o SwitchPackets \in Seq(LinkPackets)
      BY <1>1, PendingIs
    <3>4. Len(down \o SwitchPackets) = Len(down) + 3
      BY <1>1, PendingIs
    <3>5. CASE switched'
      BY <3>1, <3>2, <3>4, <3>5
    <3>6. CASE ~switched'
      BY <3>1, <3>6, <1>1
    <3> QED BY <3>5, <3>6
  <2>6. drift' \in 0..11
    <3>1. Ahead' \in 0..11
      <4>1. Place(CS', direction_flag') \in Places /\ tc' \in Places
        <5>1. CS' \in Stages /\ direction_flag' \in {0, 1}
          BY <2>3 DEF IInv, TypeOK
        <5> QED BY <5>1, <1>1, <1>7, StagePlace DEF LDecide
      <4>2. Pending' \in Nat
        <5>1. Len(down') \in Nat
          BY <2>5
        <5>2. Pending' = Count("switch", down')
          BY <1>1, PendingIs
        <5> QED BY <5>1, <5>2, CountType
      <4>3. Slot(Place(CS', direction_flag')) \in 1..12 /\ Slot(tc') \in 1..12
        BY <4>1, Slots
      <4>4. Slot(Place(CS', direction_flag')) - Slot(tc') - Pending' \in Int
        BY <4>2, <4>3
      <4>5. Ahead' = (Slot(Place(CS', direction_flag')) - Slot(tc') - Pending') % 12
        BY <1>2 DEF Ahead
      <4> QED BY <4>4, <4>5, Round
    <3> QED BY <3>1, <1>1, <1>7 DEF LDecide
  <2>7. dwell' \in 0..MinDwell
    BY <1>1, <1>7 DEF LDecide
  <2>8. LinkTypeOK'
    <3>1. TypeOK'
      BY <2>3 DEF IInv
    <3>2. UNCHANGED <<tc, dynamic, up, cache, faults>> /\ obs' = NoObs /\ polled' = FALSE
      BY <1>7 DEF LDecide
    <3>3. 0..(Len(Cycle)' - 1) = 0..11
      BY CycleIs
    <3> QED BY <1>1, <2>5, <2>6, <2>7, <3>1, <3>2, <3>3 DEF LinkTypeOK
  <2> QED BY <2>3, <2>4, <2>8
<1>8. CASE Poll
  <2>1. UNCHANGED vars
    BY <1>8 DEF Poll
  <2>2. faults' \in 0..MaxFaults
    BY <1>1, <1>3, <1>8 DEF Poll
  <2>3. down' \in Seq(LinkPackets) /\ Len(down') <= MaxLine
    <3>1. Append(down, "query") \in Seq(LinkPackets) /\ Len(Append(down, "query")) = Len(down) + 1
      BY <1>1, PendingIs
    <3> QED BY <3>1, <1>1, <1>8 DEF Poll
  <2>4. LinkTypeOK'
    BY <1>1, <1>2, <1>5, <1>8, <2>1, <2>2, <2>3 DEF Poll, LinkTypeOK
  <2> QED BY <1>5, <2>1, <2>4
<1>9. CASE packet_5FCC
  <2>1. UNCHANGED vars
    BY <1>9 DEF packet_5FCC
  <2>2. /\ Head(up) \in Places /\ Tail(up) \in Seq(Places) /\ Len(Tail(up)) = Len(up) - 1
    BY <1>1, <1>9 DEF packet_5FCC
  <2>3. Head(up)[1] \in 1..4 /\ Head(up)[2] \in 1..5
    BY <2>2, PlaceParts
  <2>4. cache' \in Phases \X Steps
    BY <1>1, <1>9, <2>3 DEF packet_5FCC, Phases, Steps
  <2>5. LinkTypeOK'
    BY <1>1, <1>2, <1>5, <1>9, <2>1, <2>2, <2>4 DEF packet_5FCC, LinkTypeOK
  <2> QED BY <1>5, <2>1, <2>5
<1>10. CASE Lose
  <2>1. UNCHANGED vars
    BY <1>10 DEF Lose
  <2>2. Tail(down) \in Seq(LinkPackets) /\ Len(Tail(down)) = Len(down) - 1
    BY <1>1, <1>10 DEF Lose
  <2>3. faults' \in 0..MaxFaults
    BY <1>3, <1>10 DEF Lose
  <2>4. drift' \in 0..11
    BY <1>4, <1>10 DEF Lose
  <2>5. LinkTypeOK'
    BY <1>1, <1>2, <1>5, <1>10, <2>1, <2>2, <2>3, <2>4 DEF Lose, LinkTypeOK
  <2> QED BY <1>5, <2>1, <2>5
<1>11. CASE Obey
  <2>1. UNCHANGED vars
    BY <1>11 DEF Obey
  <2>2. Tail(down) \in Seq(LinkPackets) /\ Len(Tail(down)) = Len(down) - 1
    BY <1>1, <1>11 DEF Obey
  <2>3. tc' \in Places /\ dwell' \in 0..MinDwell /\ dynamic' \in BOOLEAN
    BY <1>1, <1>2, <1>11 DEF Obey
  <2>4. up' \in Seq(Places) /\ Len(up') <= MaxLine
    BY <1>1, <1>11 DEF Obey
  <2>5. drift' \in 0..11
    BY <1>4, <1>11 DEF Obey
  <2>6. LinkTypeOK'
    BY <1>1, <1>2, <1>5, <1>11, <2>1, <2>2, <2>3, <2>4, <2>5 DEF Obey, LinkTypeOK
  <2> QED BY <1>5, <2>1, <2>6
<1>12. CASE PlanMovesOn
  <2>1. UNCHANGED vars
    BY <1>12 DEF PlanMovesOn
  <2>2. faults' \in 0..MaxFaults
    BY <1>1, <1>12 DEF PlanMovesOn, Notes
  <2>3. drift' \in 0..11
    BY <1>2, <1>4, <1>12 DEF PlanMovesOn
  <2>4. LinkTypeOK'
    BY <1>1, <1>2, <1>5, <1>12, <2>1, <2>2, <2>3 DEF PlanMovesOn, LinkTypeOK
  <2> QED BY <1>5, <2>1, <2>4
<1>13. CASE UNCHANGED linkedVars
  <2>1. UNCHANGED vars /\ UNCHANGED <<tc, dwell, dynamic, down, up, cache, obs, polled, faults, drift>>
    BY <1>13 DEF linkedVars, linkVars
  <2>2. LinkTypeOK'
    BY <1>1, <1>2, <1>5, <2>1 DEF LinkTypeOK
  <2> QED BY <1>5, <2>1, <2>2
<1> QED BY <1>6, <1>7, <1>8, <1>9, <1>10, <1>11, <1>12, <1>13 DEF LNext, LHandlerStep

\* A tick that synchronizes while nothing has gone wrong finds the controller
\* at the early start that the cache shows, and an empty line.
LEMMA SynchronizesRight ==
    ASSUME LInv, NEW view \in Views, LDecide(cache[2], view),
           SynchronizeTick(obs, cache[2], view)
    PROVE  /\ down = <<>> /\ obs = cache[1]
           /\ Place(1, IF cache[1] = 1 THEN 0 ELSE 1) = tc
<1>1. obs = cache[1] /\ polled /\ down = <<>> /\ up = <<>>
  BY DecideIsStep
<1>2. ~is_synchronized /\ ready_to_send /\ StartStatus(cache[1], cache[2])
  BY <1>1 DEF SynchronizeTick
<1>3. PICK g \in Places : Follows(g)
  BY <1>2 DEF LInv, Unsynchronized
<1>4. ReadyAt(g) /\ Freshest(g, up) = g /\ cache = g
  BY <1>1, <1>2, <1>3 DEF Follows, Freshest, ReadyAt
<1>5. g \in Starts
  BY <1>2, <1>4 DEF ReadyAt, StartStatus, Reds
<1>6. tc = g
  BY <1>4, <1>5 DEF ReadyAt
<1> QED BY <1>1, <1>2, <1>4, <1>5, <1>6, StartPlace

\* The handler's ticks keep the account: a stage that changes sends a switch,
\* and the gap it synchronizes with is none, or what the drift then takes up.
LEMMA DecideAccounted ==
    ASSUME WInv, IInv', LinkTypeOK', NEW view \in Views, LDecide(cache[2], view)
    PROVE  Accounted'
<1> DEFINE s == Place(CS, direction_flag)
<1>0. /\ is_synchronized \in BOOLEAN /\ is_synchronized' \in BOOLEAN
      /\ CS \in Stages /\ direction_flag \in {0, 1}
      /\ CS' \in Stages /\ direction_flag' \in {0, 1}
  BY DEF WInv, IInv, TypeOK
<1>1. /\ s \in Places /\ s' \in Places /\ tc \in Places /\ tc' = tc
      /\ down \in Seq(LinkPackets) /\ Pending \in Nat
  <2>1. s \in Places /\ s' \in Places
    BY <1>0, StagePlace
  <2>2. tc \in Places /\ tc' = tc /\ down \in Seq(LinkPackets)
    BY DEF WInv, LinkTypeOK, LDecide, LinkPackets
  <2> QED BY <2>1, <2>2, PendingIs
<1>2. /\ switched' => Pending' = Pending + 1
      /\ ~switched' => Pending' = Pending
  <2>1. Pending' = Count("switch", down') /\ Count("switch", down) = Pending
    BY <1>1, PendingIs DEF Pending, Count, Where
  <2>2. Count("switch", down \o SwitchPackets) = Pending + 1
    BY <1>1, PendingIs
  <2> QED BY <2>1, <2>2 DEF LDecide
<1>3. CASE is_synchronized
  <2>2. ControlTick(view)
    BY <1>3 DEF LDecide, FirstTick, AlignTick, SynchronizeTick, WInv, IInv, TimersInOrder
  <2>1. drift' = drift
    <3>1. is_synchronized'
      BY <1>3, <2>2 DEF ControlTick
    <3>2. ~(is_synchronized' # is_synchronized)
      BY <1>0, <1>3, <3>1
    <3> QED BY <3>2 DEF LDecide
  <2>3. Control(view) /\ switched' = (CS' # CS)
    BY <2>2 DEF ControlTick, SwitchOnChange
  <2>4. /\ CS' = CS => s' = s
        /\ CS' # CS => s' = After(s)
    BY <2>3, ControlMoves DEF WInv, Place
  <2>5. Gap(s, tc, Pending) % 12 = drift /\ is_synchronized'
    BY <1>3, <2>2 DEF WInv, Accounted, ControlTick
  <2>6. CASE CS' = CS
    <3>1. s' = s /\ Pending' = Pending
      BY <2>3, <2>4, <2>6, <1>2
    <3> QED BY <3>1, <2>1, <2>5, <1>1 DEF Accounted
  <2>7. CASE CS' # CS
    <3>1. s' = After(s) /\ Pending' = Pending + 1
      <4>1. switched'
        BY <2>3, <2>7
      <4> QED BY <4>1, <2>4, <2>7, <1>2
    <3>2. Gap(After(s), tc, Pending + 1) % 12 = Gap(s, tc, Pending) % 12
      BY <1>1, GapMoves
    <3> QED BY <3>1, <3>2, <2>1, <2>5, <1>1 DEF Accounted
  <2> QED BY <2>6, <2>7
<1>4. CASE ~is_synchronized /\ is_synchronized' /\ faults > 0
  <2>1. drift' = Ahead'
    BY <1>0, <1>4 DEF LDecide
  <2>2. Ahead' = Gap(s', tc', Pending') % 12
    BY CycleIs DEF Ahead, Gap
  <2> QED BY <1>4, <2>1, <2>2 DEF Accounted
<1>5. CASE ~is_synchronized /\ is_synchronized' /\ ~(faults > 0)
  <2>1. faults = 0 /\ LInv
    BY <1>5 DEF WInv, LinkTypeOK
  <2>2. SynchronizeTick(obs, cache[2], view)
    BY <1>5 DEF LDecide, FirstTick, AlignTick, Align, ControlTick
  <2> DEFINE d == IF cache[1] = 1 THEN 0 ELSE 1
  <2>3. down = <<>> /\ obs = cache[1] /\ Place(1, d) = tc
    BY <2>1, <2>2, SynchronizesRight
  <2>4. Stage1(d, view) /\ switched' = (CS' # 1)
    BY <2>2, <2>3 DEF SynchronizeTick, SwitchOnChange
  <2>5. direction_flag' = d /\ (CS' = 1 \/ CS' = 2) /\ d \in {0, 1}
    BY <2>4 DEF Stage1
  <2>6. Place(1 + 1, d) = After(Place(1, d))
    BY <2>5, PlaceAfter
  <2>7. Pending = 0
    <3>1. Pending = Cardinality({})
      BY <2>3 DEF Pending
    <3> QED BY <3>1, FS_EmptySet
  <2>8. drift = 0 /\ drift' = 0
    <3>1. drift = 0
      BY <1>5, <2>1 DEF WInv, Accounted
    <3> QED BY <3>1, <1>5 DEF LDecide
  <2> HIDE DEF d
  <2>9. CASE CS' = 1
    <3>1. s' = tc /\ Pending' = 0
      <4>1. ~switched' /\ s' = Place(1, d)
        BY <2>4, <2>5, <2>9
      <4> QED BY <4>1, <1>2, <2>3, <2>7
    <3>2. Gap(tc, tc, 0) % 12 = 0
      BY <1>1, GapMoves
    <3> QED BY <3>1, <3>2, <2>8, <1>1 DEF Accounted
  <2>10. CASE CS' = 2
    <3>1. s' = After(tc) /\ Pending' = 1
      <4>1. CS' # 1 /\ s' = Place(1 + 1, d)
        BY <2>5, <2>10
      <4>2. switched'
        BY <4>1, <2>4
      <4> QED BY <4>1, <4>2, <1>2, <2>3, <2>6, <2>7
    <3>2. Gap(After(tc), tc, 1) % 12 = 0
      BY <1>1, GapMoves
    <3> QED BY <3>1, <3>2, <2>8, <1>1 DEF Accounted
  <2> QED BY <2>5, <2>9, <2>10
<1>6. CASE ~is_synchronized /\ ~is_synchronized'
  BY <1>0, <1>6 DEF LDecide, WInv, Accounted
<1> QED BY <1>3, <1>4, <1>5, <1>6


\* What an account needs of a step that is not the handler's: the drift moves
\* with the gap, round the cycle.
LEMMA GapKeptOrMoved ==
    ASSUME WInv, UNCHANGED vars, tc' \in Places, Pending' \in Nat, NEW n \in Nat, Strays(n),
           Gap(Place(CS, direction_flag), tc', Pending') % 12
               = ((Gap(Place(CS, direction_flag), tc, Pending) % 12) + n) % 12
    PROVE  Accounted'
<1>1. UNCHANGED <<CS, direction_flag, is_synchronized>>
  BY DEF vars, ctlVars
<1>2. Place(CS, direction_flag)' = Place(CS, direction_flag)
  BY <1>1 DEF Place
<1>3. drift' = IF is_synchronized THEN (drift + n) % 12 ELSE drift
  BY CycleIs DEF Strays
<1> QED BY <1>1, <1>2, <1>3 DEF WInv, Accounted, Gap

\* Adding nothing round the cycle changes nothing.
LEMMA RoundZero == ASSUME NEW x \in 0..11 PROVE (x + 0) % 12 = x
OBVIOUS

\* A step that moves neither the stage, the controller nor the switches on
\* their way leaves the account as it is.
LEMMA AccountStays ==
    ASSUME WInv, UNCHANGED vars, tc' = tc, Pending' = Pending, drift' = drift
    PROVE  Accounted'
<1>1. UNCHANGED <<CS, direction_flag, is_synchronized>>
  BY DEF vars, ctlVars
<1>2. Place(CS, direction_flag)' = Place(CS, direction_flag)
  BY <1>1 DEF Place
<1> QED BY <1>1, <1>2 DEF WInv, Accounted, Gap

\* Every step keeps the account.
LEMMA AccountKept ==
    ASSUME WInv, [LNext]_linkedVars, IInv', LinkTypeOK' PROVE Accounted'
<1> DEFINE s == Place(CS, direction_flag)
           g == Gap(s, tc, Pending) % 12
<1>1. /\ s \in Places /\ tc \in Places /\ Pending \in Nat /\ down \in Seq(LinkPackets)
      /\ Pending' = Count("switch", down') /\ Pending = Count("switch", down)
  <2>1. tc \in Places /\ down \in Seq(LinkPackets) /\ CS \in Stages /\ direction_flag \in {0, 1}
    BY DEF WInv, IInv, TypeOK, LinkTypeOK, LinkPackets
  <2>2. Pending = Count("switch", down)
    BY DEF Pending, Count, Where
  <2> QED BY <2>1, <2>2, StagePlace, PendingIs
<1>2. g \in 0..11
  BY <1>1, GapMoves
<1>3. down # <<>> => Count("switch", Tail(down))
                        = Pending - (IF Head(down) = "switch" THEN 1 ELSE 0)
  BY <1>1, PendingIs
<1>4. tc' \in Places /\ Pending' \in Nat
  <2>1. tc' \in Places /\ down' \in Seq(LinkPackets)
    BY DEF LinkTypeOK, LinkPackets
  <2>2. Len(down') \in Nat
    BY <2>1
  <2> QED BY <2>1, <2>2, <1>1, CountType
<1>5. CASE ReadPhase \/ packet_5FCC
  <2>1. UNCHANGED vars /\ tc' = tc /\ down' = down /\ drift' = drift
    BY <1>5 DEF ReadPhase, packet_5FCC
  <2>2. Pending' = Pending
    BY <1>1, <2>1
  <2> QED BY <2>1, <2>2, AccountStays
<1>6. CASE Poll
  <2>1. UNCHANGED vars /\ tc' = tc /\ down' = Append(down, "query") /\ drift' = drift
    BY <1>6 DEF Poll
  <2>2. Pending' = Pending
    BY <1>1, <2>1, PendingIs
  <2> QED BY <2>1, <2>2, AccountStays
<1>7. CASE Lose
  <2> DEFINE n == IF Head(down) = "switch" THEN 1 ELSE 0
  <2>1. UNCHANGED vars /\ tc' = tc /\ down # <<>> /\ down' = Tail(down) /\ Strays(n)
    BY <1>7 DEF Lose
  <2>2. Pending' = Pending - n
    BY <1>1, <1>3, <2>1
  <2>3. Gap(s, tc, Pending - n) % 12 = (g + n) % 12
    <3>1. CASE Head(down) = "switch"
      BY <3>1, <1>1, GapMoves
    <3>2. CASE Head(down) # "switch"
      <4>1. Pending - n = Pending /\ n = 0
        BY <3>2, <1>1
      <4> QED BY <4>1, <1>2, RoundZero
    <3> QED BY <3>1, <3>2
  <2>4. n \in Nat
    OBVIOUS
  <2> HIDE DEF n
  <2> QED BY <1>4, <2>1, <2>2, <2>3, <2>4, GapKeptOrMoved
<1>8. CASE Obey
  <2>1. UNCHANGED vars /\ down # <<>> /\ down' = Tail(down)
    BY <1>8 DEF Obey
  <2>2. CASE Head(down) = "switch" /\ dynamic
    <3>1. tc' = After(tc) /\ Strays(0)
      BY <1>8, <2>2 DEF Obey
    <3>2. Pending' = Pending - 1
      BY <1>1, <1>3, <2>1, <2>2
    <3>3. Gap(s, After(tc), Pending - 1) % 12 = (g + 0) % 12
      BY <1>1, <1>2, GapMoves, RoundZero
    <3> QED BY <1>4, <2>1, <3>1, <3>2, <3>3, GapKeptOrMoved
  <2>3. CASE Head(down) = "switch" /\ ~dynamic
    <3>1. tc' = tc /\ Strays(1)
      BY <1>8, <2>3 DEF Obey
    <3>2. Pending' = Pending - 1
      BY <1>1, <1>3, <2>1, <2>3
    <3>3. Gap(s, tc, Pending - 1) % 12 = (g + 1) % 12
      BY <1>1, GapMoves
    <3> QED BY <1>4, <2>1, <3>1, <3>2, <3>3, GapKeptOrMoved
  <2>4. CASE Head(down) # "switch"
    <3>1. tc' = tc /\ Strays(0)
      BY <1>8, <2>4 DEF Obey
    <3>2. Pending' = Pending
      BY <1>1, <1>3, <2>1, <2>4
    <3>3. g = (g + 0) % 12
      BY <1>2, RoundZero
    <3> QED BY <1>4, <2>1, <3>1, <3>2, <3>3, GapKeptOrMoved
  <2> QED BY <2>2, <2>3, <2>4
<1>9. CASE PlanMovesOn
  <2>1. UNCHANGED vars /\ tc' = After(tc) /\ down' = down /\ Strays(11)
    BY <1>9, CycleIs DEF PlanMovesOn
  <2>2. Pending' = Pending
    BY <1>1, <2>1
  <2>3. Gap(s, After(tc), Pending) % 12 = (g + 11) % 12
    BY <1>1, GapMoves
  <2> QED BY <1>4, <2>1, <2>2, <2>3, GapKeptOrMoved
<1>10. CASE LHandlerStep
  <2>1. CASE ReadPhase
    BY <2>1, <1>5
  <2>2. ASSUME NEW view \in Views, LDecide(cache[2], view) PROVE Accounted'
    BY <2>2, DecideAccounted
  <2> QED BY <1>10, <2>1, <2>2 DEF LHandlerStep
<1>11. CASE UNCHANGED linkedVars
  <2>1. UNCHANGED vars /\ tc' = tc /\ down' = down /\ drift' = drift
    BY <1>11 DEF linkedVars, linkVars
  <2>2. Pending' = Pending
    BY <1>1, <2>1
  <2> QED BY <2>1, <2>2, AccountStays
<1> QED BY <1>5, <1>6, <1>7, <1>8, <1>9, <1>10, <1>11 DEF LNext

\* The history of irregularities never gets shorter.
LEMMA FaultsGrow ==
    ASSUME faults \in Nat, [LNext]_linkedVars, faults' = 0 PROVE faults = 0
<1>1. \A odd \in BOOLEAN : Notes(odd) => faults = 0
  BY DEF Notes
<1>2. CASE faults' = faults
  BY <1>2
<1>3. CASE ReadPhase
  BY <1>1, <1>3 DEF ReadPhase
<1>4. CASE Poll
  BY <1>4 DEF Poll, Notes
<1>5. CASE Lose
  BY <1>1, <1>5 DEF Lose
<1>6. CASE PlanMovesOn
  BY <1>6 DEF PlanMovesOn, Notes
<1> QED BY <1>2, <1>3, <1>4, <1>5, <1>6
     DEF LNext, LHandlerStep, LDecide, packet_5FCC, Obey, linkedVars, linkVars

\* The algorithm's CS follows the signal controller's phase and step on every
\* line and under every plan: never apart by more or less than the switches on
\* their way and what was lost, ignored, moved by the plan or, when something
\* had gone wrong before, already wrong at the synchronization.
THEOREM AlgorithmStaysAligned == LSpec => []Aligned
<1>1. LInit => WInv
  <2> SUFFICES ASSUME LInit PROVE WInv
    OBVIOUS
  <2>1. LInv
    BY InitLInv
  <2>2. Init /\ ~is_synchronized /\ drift = 0
    BY DEF LInit, Init
  <2>3. <<>> \in Seq({"strategy", "switch", "query"}) /\ <<>> \in Seq(Places) /\ Len(<<>>) = 0
    OBVIOUS
  <2>4. Len(Cycle) = 12
    BY CycleIs
  <2>5. <<0, 0>> \in Phases \X Steps
    BY DEF Phases, Steps
  <2>6. LinkTypeOK
    <3>1. /\ down \in Seq({"strategy", "switch", "query"}) /\ Len(down) <= MaxLine
          /\ up \in Seq(Places) /\ Len(up) <= MaxLine
      BY <2>3, LinkAssumption DEF LInit
    <3>2. TypeOK /\ tc \in Places /\ cache \in Phases \X Steps
      BY <2>1, <2>5 DEF LInit, LInv, IInv
    <3>3. dwell \in 0..MinDwell /\ faults \in 0..MaxFaults /\ drift \in 0..(Len(Cycle) - 1)
      BY <2>4, LinkAssumption DEF LInit
    <3>4. obs \in Phases \cup {NoObs} /\ dynamic \in BOOLEAN /\ polled \in BOOLEAN
      BY DEF LInit
    <3> QED BY <3>1, <3>2, <3>3, <3>4 DEF LinkTypeOK
  <2> QED BY <2>1, <2>2, <2>6 DEF WInv, Accounted, LInv
<1>2. WInv /\ [LNext]_linkedVars => WInv'
  <2> SUFFICES ASSUME WInv, [LNext]_linkedVars PROVE WInv'
    OBVIOUS
  <2>1. IInv' /\ LinkTypeOK'
    BY TypesKept
  <2>2. Accounted'
    BY <2>1, AccountKept
  <2>3. ASSUME faults' = 0 PROVE LInv'
    <3>1. faults = 0
      BY <2>3, FaultsGrow DEF WInv, LinkTypeOK
    <3> QED BY <2>3, <3>1, NextLInv DEF WInv
  <2> QED BY <2>1, <2>2, <2>3 DEF WInv
<1>3. WInv => Aligned
  BY CycleIs DEF WInv, Accounted, Aligned, Ahead, Gap
<1> QED BY <1>1, <1>2, <1>3, PTL DEF LSpec

=============================================================================
