-------------------------- MODULE EVSPOptimization ---------------------------
(***************************************************************************)
(* What is asked of the signal for emergency vehicles (src/application/    *)
(* EVSP/src/EVSP_subphase_threshold.c) and shown on the message signs      *)
(* (VMS_activate in EVSP.c).  Per vehicle, the green of the current phase  *)
(* is adjusted so that the vehicle meets green: a vehicle of the main road *)
(* by quick rotation, one of a side road by spreading the difference over  *)
(* the phases up to its own.  Of what several vehicles ask, one effect     *)
(* time is made.                                                           *)
(*                                                                         *)
(* Times are whole seconds; the arrival time (distance over speed, minus a *)
(* buffer) is an input.  The plan table of the touching areas lists every  *)
(* phase of the plan.  A behaviour takes one input through one decision.   *)
(***************************************************************************)
EXTENDS Integers, Sequences, SequencesExt

CONSTANTS
    Statuses,      \* states of the signal controller
    Arrivals,      \* expected arrival times
    Groups         \* sequences of pairs <<target phase, arrival>>: vehicles activated together

EVSPOptimizationAssumption ==
    /\ Arrivals \subseteq Int
    /\ \A s \in Statuses :
          /\ Len(s.plan) \in 2..7
          /\ s.SubPhaseID \in 1..Len(s.plan)

VARIABLE ask       \* one question and its answer

vars == <<ask>>

-----------------------------------------------------------------------------
Sum(seq) == FoldLeft(+, 0, seq)
CeilDiv(a, b) == -((-a) \div b)
THESHOLD_BUFFER == 5

(* The shortest time the other phases of the cycle take, and Tbf.          *)
EVSP_extend_formula(target, s, Tbf) ==
    Tbf + Sum([i \in DOMAIN s.plan |->
                 IF i = target THEN 0
                 ELSE s.plan[i].MinGreen + s.plan[i].Yellow + s.plan[i].AllRed])

get_subphase_threshold(target, arrival, s) ==
    arrival - EVSP_extend_formula(target, s, THESHOLD_BUFFER)

(* What is left of the current phase, and the length of a phase to come.   *)
CurrentLeft(s) ==
    LET p == s.plan[s.SubPhaseID]
    IN s.StepSec + p.PedGreenFlash + p.PedRed + p.Yellow + p.AllRed

PhaseTime(p) == p.Green + p.Yellow + p.AllRed

(* The target has the longest green of all.                                *)
IsMain(target, s) ==
    \A i \in DOMAIN s.plan : i # target => s.plan[target].Green > s.plan[i].Green

After(i, n, s) == ((i - 1 + n) % Len(s.plan)) + 1

(* The phase n changes from now: when it starts and how long it takes.     *)
Start(n, s) ==
    IF n = 0 THEN 0
    ELSE CurrentLeft(s) + Sum([k \in 1..(n - 1) |-> PhaseTime(s.plan[After(s.SubPhaseID, k, s)])])

Length(n, s) == IF n = 0 THEN CurrentLeft(s) ELSE PhaseTime(s.plan[After(s.SubPhaseID, n, s)])

(* BeforeMtargetSubPhase: changes up to the target phase that ends after   *)
(* the threshold; the search gives up at 10.                               *)
BeforeTarget(target, threshold, s) ==
    LET fits == {n \in 0..9 : /\ After(s.SubPhaseID, n, s) = target
                              /\ threshold <= Start(n, s) + Length(n, s)}
    IN IF fits = {} THEN 10 ELSE CHOOSE n \in fits : \A m \in fits : n <= m

(* What the phases between now and the target cannot give is taken from    *)
(* the current one.                                                        *)
Missing(n, share, s) ==
    Sum([j \in 1..(n - 1) |->
           LET p == s.plan[After(s.SubPhaseID, j, s)]
           IN IF p.PreGreen - p.MinGreen < share THEN share - (p.PreGreen - p.MinGreen) ELSE 0])

\* Mutant: what the other phases cannot give is not taken from anywhere.
ShortenedAlone(n, arrival, pretime, s) ==
    LET share == CeilDiv(Start(n, s) - arrival, n)
        adjusted == pretime - share
    IN IF adjusted < 0 THEN 0 ELSE adjusted

Shortened(n, arrival, pretime, s) ==
    LET share == CeilDiv(Start(n, s) - arrival, n)
        adjusted == pretime - share - Missing(n, share, s)
    IN IF adjusted < 0 THEN 0 ELSE adjusted

(* Long time smooth control                                                *)
Smooth(target, arrival, s) ==
    LET pretime == s.plan[s.SubPhaseID].PreGreen
        n == BeforeTarget(target, get_subphase_threshold(target, arrival, s), s)
        end == Start(n, s) + Length(n, s)
    IN CASE n >= 10 -> -1
         [] n = 0 -> pretime + EVSP_extend_formula(target, s, 20)
         [] n \in 1..9 /\ arrival < Start(n, s) -> Shortened(n, arrival, pretime, s)
         [] n \in 1..9 /\ end < arrival -> pretime + CeilDiv(arrival - end, n)
         [] OTHER -> pretime

(* Short time quick control                                                *)
Quick(target, arrival, s) ==
    LET pretime == s.plan[s.SubPhaseID].PreGreen IN
    CASE CurrentLeft(s) < get_subphase_threshold(target, arrival, s) -> pretime
      [] OTHER -> IF target = s.SubPhaseID
                  THEN pretime + EVSP_extend_formula(target, s, 20) ELSE 0

(* -1: nothing is asked.  Only step 1 can be adjusted.                     *)
EVSP_optimization(target, arrival, s) ==
    IF s.StepID # 1 THEN -1
    ELSE IF IsMain(target, s) THEN Quick(target, arrival, s) ELSE Smooth(target, arrival, s)

(* The activation thread's command: an extension comes before a shortening.*)
EffectTime(group, s) ==
    LET asked == {EVSP_optimization(group[i][1], group[i][2], s) : i \in DOMAIN group}
        longest == CHOOSE a \in asked : \A b \in asked : b <= a
        wanted == asked \ {-1}
        shortest == CHOOSE a \in wanted : \A b \in wanted : a <= b
    IN IF longest = -1 THEN -1
       ELSE IF s.plan[s.SubPhaseID].PreGreen >= longest THEN shortest ELSE longest

-----------------------------------------------------------------------------
(* VMS_activate: the signs 0 to 3 show programs that name the directions   *)
(* clockwise from the vehicle's; the VMS have their first and their second *)
(* two the other way round.                                                *)
Quarter(d) ==
    CASE d \in {7, 0} -> 0
      [] d \in {1, 2} -> 1
      [] d \in {3, 4} -> 2
      [] d \in {5, 6} -> 3

Base(vehicle) ==
    CASE vehicle = "ambulance" -> 245
      [] vehicle = "fire truck" -> 235
      [] vehicle = "police car" -> 225

CMSPrograms(vehicle, d) ==
    CASE Quarter(d) = 0 -> <<Base(vehicle), Base(vehicle) + 1, Base(vehicle) + 2, Base(vehicle) + 3>>
      [] Quarter(d) = 1 -> <<Base(vehicle) + 3, Base(vehicle), Base(vehicle) + 1, Base(vehicle) + 2>>
      [] Quarter(d) = 2 -> <<Base(vehicle) + 2, Base(vehicle) + 3, Base(vehicle), Base(vehicle) + 1>>
      [] Quarter(d) = 3 -> <<Base(vehicle) + 1, Base(vehicle) + 2, Base(vehicle) + 3, Base(vehicle)>>

VMSPrograms(d) ==
    LET ambulance == CMSPrograms("ambulance", d)
    IN <<ambulance[2], ambulance[1], ambulance[4], ambulance[3]>>

-----------------------------------------------------------------------------
Init ==
    \/ \E s \in Statuses, a \in Arrivals : \E t \in DOMAIN s.plan :
          ask = [kind |-> "one", s |-> s, target |-> t, arrival |-> a, answer |-> -2]
    \/ \E s \in Statuses, g \in Groups :
          ask = [kind |-> "group", s |-> s, group |-> g, answer |-> -2]
    \/ \E d \in 0..7, v \in {"ambulance", "fire truck", "police car"} :
          ask = [kind |-> "sign", direction |-> d, vehicle |-> v, cms |-> << >>, vms |-> << >>]

Decide ==
    /\ ask.kind \in {"one", "group"} /\ ask.answer = -2
    /\ ask' = [ask EXCEPT !.answer = IF ask.kind = "one"
                                     THEN EVSP_optimization(ask.target, ask.arrival, ask.s)
                                     ELSE EffectTime(ask.group, ask.s)]

VMS_activate ==
    /\ ask.kind = "sign" /\ ask.cms = << >>
    /\ ask' = [ask EXCEPT !.cms = CMSPrograms(ask.vehicle, ask.direction),
                          !.vms = VMSPrograms(ask.direction)]

Next == Decide \/ VMS_activate

-----------------------------------------------------------------------------
Answered == ask.kind = "one" /\ ask.answer >= 0
Now == ask.s.plan[ask.s.SubPhaseID]
Before == BeforeTarget(ask.target, get_subphase_threshold(ask.target, ask.arrival, ask.s), ask.s)

\* What is asked is a number of seconds, or nothing at all outside of step 1 and
\* when the search for the vehicle's phase gave up.
SecondsAsked ==
    ask.kind = "one" /\ ask.answer = -1 =>
        ask.s.StepID # 1 \/ (~IsMain(ask.target, ask.s) /\ Before = 10)

\* The green a vehicle is about to use is never cut: while the current phase is the
\* vehicle's and does not end too early for it, more green is asked.
OwnGreenKept ==
    Answered /\ ask.target = ask.s.SubPhaseID
    /\ get_subphase_threshold(ask.target, ask.arrival, ask.s) <= CurrentLeft(ask.s) =>
        ask.answer > Now.PreGreen

(* How much earlier the target starts when the current phase is cut to the *)
(* answer and each phase up to the target gives its share if it can.       *)
Gained ==
    LET share == CeilDiv(Start(Before, ask.s) - ask.arrival, Before) IN
    Now.PreGreen - ask.answer
    + Sum([j \in 1..(Before - 1) |->
             LET p == ask.s.plan[After(ask.s.SubPhaseID, j, ask.s)]
             IN IF p.PreGreen - p.MinGreen < share THEN p.PreGreen - p.MinGreen ELSE share])

\* Smooth control meets the vehicle: unless the current green is cut to nothing, the
\* shares of all phases together bring the vehicle's green forward to its arrival,
\* and a vehicle that is late finds the phase prolonged up to its arrival.
SmoothMeetsArrival ==
    Answered /\ ~IsMain(ask.target, ask.s) /\ Before \in 1..9 =>
        /\ ask.arrival < Start(Before, ask.s) /\ ask.answer > 0 =>
              Start(Before, ask.s) - Gained <= ask.arrival
        /\ ask.arrival > Start(Before, ask.s) + Length(Before, ask.s) =>
              Start(Before, ask.s) + Length(Before, ask.s)
                 + Before * (ask.answer - Now.PreGreen) >= ask.arrival

\* Of several vehicles, one that needs more green gets it whatever the others ask.
ExtensionFirst ==
    ask.kind = "group" /\ ask.answer # -2 =>
        \A i \in DOMAIN ask.group :
            LET one == EVSP_optimization(ask.group[i][1], ask.group[i][2], ask.s)
            IN /\ one > Now.PreGreen => ask.answer >= one
               /\ one # -1 => ask.answer # -1

\* The signs show the vehicle's own four programs, and a vehicle a quarter further
\* round is announced one sign further round.
SignsTurn ==
    ask.kind = "sign" /\ ask.cms # << >> =>
        /\ {ask.cms[i] : i \in 1..4} = Base(ask.vehicle)..(Base(ask.vehicle) + 3)
        /\ CMSPrograms(ask.vehicle, (ask.direction + 2) % 8)
              = <<ask.cms[4], ask.cms[1], ask.cms[2], ask.cms[3]>>
        /\ {ask.vms[i] : i \in 1..4} = 245..248

GreenForVehicles ==
    SecondsAsked /\ OwnGreenKept /\ SmoothMeetsArrival /\ ExtensionFirst /\ SignsTurn
=============================================================================
