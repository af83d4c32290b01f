------------------------------ MODULE VIPSLink ------------------------------
(***************************************************************************)
(* The VIPS+ controller and the traffic signal controller it drives over   *)
(* the serial line: the handler sends 5F10 (strategy), 5F1C (switch to the *)
(* next step) and 5F4C (query), never waits for an answer, and learns the  *)
(* controller's phase and step only through the cache that packet_5FCC     *)
(* fills.  The signal controller and the line are external: they are       *)
(* modelled from the packets the code exchanges with them.                 *)
(***************************************************************************)
EXTENDS VIPSPlus, Sequences, FiniteSets

CONSTANTS
    MaxFaults,  \* bound on the irregularities of the line and of the plan:
                \* packets lost, ticks and polls that overtake an exchange,
                \* steps of the plan too short to be reported
    MinDwell,   \* ticks a step lasts at least when the plan moves it
    MaxLine     \* bound on the packets in flight in either direction

ASSUME LinkAssumption ==
    MaxFaults \in Nat /\ MinDwell \in Nat /\ MaxLine \in Nat

VARIABLES
    tc,         \* phase and step of the signal controller
    dwell,      \* ticks it has been there, up to MinDwell
    dynamic,    \* it accepts 5F1C
    down,       \* packets on the way to it
    up,         \* its 5FCC reports on the way back
    cache,      \* signal_status.SubPhaseID and StepID
    obs,        \* the phase the running handler has read; NoObs when idle
    polled,     \* a periodic 5F4C was sent since the last tick
    faults,     \* history: irregularities so far
    drift       \* history: steps of the plan by which the algorithm has come
                \* to run ahead of the controller, round the plan's cycle

linkVars == <<tc, dwell, dynamic, down, up, cache, obs, polled, faults, drift>>
linkedVars == <<vars, linkVars>>

NoObs == 9

\* The steps of the signal plan in order: early pedestrian start, then five
\* steps, for each of the two directions.
Cycle == << <<1,1>>, <<2,1>>, <<2,2>>, <<2,3>>, <<2,4>>, <<2,5>>,
            <<3,1>>, <<4,1>>, <<4,2>>, <<4,3>>, <<4,4>>, <<4,5>> >>

Places == {Cycle[i] : i \in 1..Len(Cycle)}

Slot(place) == CHOOSE i \in 1..Len(Cycle) : Cycle[i] = place

After(place) == Cycle[(Slot(place) % Len(Cycle)) + 1]

\* Where the signal controller is when VIPS+ is in stage s of direction d.
Place(s, d) == IF s = 1 THEN <<2 * d + 1, 1>> ELSE <<2 * d + 2, s - 1>>

\* The switches that are still on their way to the signal controller.
Pending == Cardinality({i \in 1..Len(down) : down[i] = "switch"})

\* The steps by which the algorithm will be ahead of the signal controller
\* once those have been obeyed.
Ahead == (Slot(Place(CS, direction_flag)) - Slot(tc) - Pending) % Len(Cycle)

LInit ==
    /\ Init
    /\ tc \in Places
    /\ dwell = 0
    /\ dynamic = FALSE
    /\ down = <<>>
    /\ up = <<>>
    /\ cache = <<0, 0>>
    /\ obs = NoObs
    /\ polled = FALSE
    /\ faults = 0
    /\ drift = 0

\* Keep the two history variables: the step is irregular if "odd", and takes a
\* synchronized algorithm n steps further ahead of the controller.
Notes(odd) ==
    /\ odd => faults < MaxFaults
    /\ faults' = IF odd THEN faults + 1 ELSE faults
Strays(n) == drift' = IF is_synchronized THEN (drift + n) % Len(Cycle) ELSE drift

-----------------------------------------------------------------------------
\* The handler reads the phase and the step through two getters, each of
\* which locks on its own: a report may be applied in between.
ReadPhase ==
    /\ obs = NoObs
    /\ obs' = cache[1]
    /\ Notes(~(polled /\ down = <<>> /\ up = <<>>))
    /\ UNCHANGED <<vars, tc, dwell, dynamic, down, up, cache, polled, drift>>

\* The three packets of a switch, in the order the handler writes them.
SwitchPackets == << "strategy", "switch", "query" >>

LDecide(step, view) ==
    /\ obs # NoObs
    /\ Len(down) + 3 <= MaxLine
    /\ \/ FirstTick(obs, step)
       \/ AlignTick(obs, step)
       \/ SynchronizeTick(obs, step, view)
       \/ ControlTick(view)
    /\ down' = IF switched' THEN down \o SwitchPackets ELSE down
    /\ obs' = NoObs
    /\ dwell' = IF dwell < MinDwell THEN dwell + 1 ELSE dwell
    /\ polled' = FALSE
    /\ UNCHANGED <<tc, dynamic, up, cache, faults>>
    /\ drift' = IF is_synchronized' # is_synchronized /\ faults > 0
                THEN Ahead' ELSE drift

\* The polling timer's own 5F4C.
Poll ==
    /\ Len(down) < MaxLine
    /\ down' = Append(down, "query")
    /\ polled' = TRUE
    /\ Notes(polled \/ obs # NoObs)
    /\ UNCHANGED <<vars, tc, dwell, dynamic, up, cache, obs, drift>>

\* Faulty variant: a report of step 5 is dropped altogether.
packet_5FCC_NoStep5 ==
    /\ up # <<>>
    /\ cache' = IF Head(up)[2] # 5 THEN Head(up) ELSE cache
    /\ up' = Tail(up)
    /\ UNCHANGED <<vars, tc, dwell, dynamic, down, obs, polled, faults, drift>>

\* packet_5FCC: a report with phase 0 or step 5 leaves the cached phase alone.
packet_5FCC ==
    /\ up # <<>>
    /\ LET report == Head(up) IN
       cache' = << IF report[1] # 0 /\ report[2] # 5 THEN report[1] ELSE cache[1],
                   report[2] >>
    /\ up' = Tail(up)
    /\ UNCHANGED <<vars, tc, dwell, dynamic, down, obs, polled, faults, drift>>

-----------------------------------------------------------------------------
(* External: the line and the signal controller.                            *)

Lose ==
    /\ down # <<>>
    /\ down' = Tail(down)
    /\ Notes(TRUE)
    /\ Strays(IF Head(down) = "switch" THEN 1 ELSE 0)
    /\ UNCHANGED <<vars, tc, dwell, dynamic, up, cache, obs, polled>>

Obey ==
    /\ down # <<>>
    /\ LET packet == Head(down) IN
       /\ dynamic' = (dynamic \/ packet = "strategy")
       /\ tc' = IF packet = "switch" /\ dynamic THEN After(tc) ELSE tc
       /\ dwell' = IF tc' # tc THEN 0 ELSE dwell
       /\ packet = "query" => Len(up) < MaxLine
       /\ up' = IF packet = "query" THEN Append(up, tc) ELSE up
       /\ Strays(IF packet = "switch" /\ ~dynamic THEN 1 ELSE 0)
    /\ down' = Tail(down)
    /\ UNCHANGED <<vars, cache, obs, polled, faults>>

\* The plan's own move, which takes a step back from what the algorithm is ahead.
PlanMovesOn ==
    /\ dwell >= MinDwell
    /\ tc' = After(tc)
    /\ dwell' = 0
    /\ Notes(dwell < 2)
    /\ Strays(Len(Cycle) - 1)
    /\ UNCHANGED <<vars, dynamic, down, up, cache, obs, polled>>

LHandlerStep == ReadPhase \/ \E view \in Views : LDecide(cache[2], view)

LNext ==
    \/ LHandlerStep
    \/ Poll
    \/ packet_5FCC
    \/ Lose
    \/ Obey
    \/ PlanMovesOn

LSpec == LInit /\ [][LNext]_linkedVars

-----------------------------------------------------------------------------
(* Properties.                                                              *)

\* Every variable of the link keeps its type.
LinkTypeOK ==
    /\ TypeOK
    /\ tc \in Places
    /\ dwell \in 0..MinDwell
    /\ dynamic \in BOOLEAN /\ polled \in BOOLEAN
    /\ down \in Seq({"strategy", "switch", "query"}) /\ Len(down) <= MaxLine
    /\ up \in Seq(Places) /\ Len(up) <= MaxLine
    /\ cache \in Phases \X Steps
    /\ obs \in Phases \cup {NoObs}
    /\ faults \in 0..MaxFaults
    /\ drift \in 0..(Len(Cycle) - 1)

\* "The algorithm's CS is aligned with the phase and step of the signal
\* controller", on every line and under every plan: a synchronized algorithm is
\* ahead of the controller by exactly the switches on their way and its drift.
\* The drift is 0 when nothing had been lost, late or overtaken up to the
\* synchronization (otherwise the gap it synchronized with); after it, late
\* reports change nothing, each switch lost or ignored adds one step for good,
\* each move of the plan takes one away, and nothing else realigns the two.
Aligned ==
    /\ LinkTypeOK
    /\ is_synchronized => Ahead = drift

\* The controller does get to synchronize, from every step of the signal plan.
EventuallySynchronized == <>is_synchronized

=============================================================================
