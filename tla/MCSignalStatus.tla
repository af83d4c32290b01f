--------------------------- MODULE MCSignalStatus ---------------------------
(***************************************************************************)
(* What is kept of the signal controller and of its silence, in models     *)
(* side by side.  Two of the status cache, over the same variables: a line *)
(* that delivers every answer, with the code's three buffer cycles; and a  *)
(* line that loses reports to a controller that also reports its phases by *)
(* itself.  One of the error bits with their watchdogs.                    *)
(***************************************************************************)
EXTENDS ErrorStatus, Integers, Sequences

VARIABLES
    model,      \* which of them this behaviour is of
    signal_status, cycle_index, guarenteed_cmd_set, flag_switch2nextStep, ticks,
    status_timer, line, tc, heard

\* Two plans that differ in everything the cache tells apart.
TwoPlans == [p \in {1, 2} |-> IF p = 1
             THEN [order |-> 1, green |-> 30, flash |-> 5, pedred |-> 0]
             ELSE [order |-> 2, green |-> 40, flash |-> 8, pedred |-> 0]]

Polled == INSTANCE SignalStatus WITH
    timer <- status_timer,
    Plans <- TwoPlans, Extras <- {0}, PhaseCount <- 2, CYCLE_NUM <- 3,
    FxxTicks <- 1, ClockTicks <- 3, Lossy <- FALSE, Spontaneous <- FALSE,
    MaxChanges <- 1, MaxLine <- 4

Noisy == INSTANCE SignalStatus WITH
    timer <- status_timer,
    Plans <- TwoPlans, Extras <- {0}, PhaseCount <- 2, CYCLE_NUM <- 1,
    FxxTicks <- 0, ClockTicks <- 2, Lossy <- TRUE, Spontaneous <- TRUE,
    MaxChanges <- 1, MaxLine <- 3

ASSUME MCStatusAssumption ==
    /\ ErrorStatusAssumption
    /\ Polled!StatusAssumption /\ Noisy!StatusAssumption

statusVars == <<signal_status, cycle_index, guarenteed_cmd_set,
                flag_switch2nextStep, ticks, status_timer, line, tc, heard>>
mcVars == <<vars, statusVars, model>>

MCInit == model \in {"polled", "noisy", "errors"} /\ Init /\ Polled!Init

\* A behaviour of one model leaves the others alone.
MCNext ==
    \/ model = "polled" /\ Polled!Next /\ UNCHANGED <<vars, model>>
    \/ model = "noisy" /\ Noisy!Next /\ UNCHANGED <<vars, model>>
    \/ model = "errors" /\ Next /\ UNCHANGED <<statusVars, model>>

MCSpec == MCInit /\ [][MCNext]_mcVars

\* The cached cycle is the controller's, and a table that was noted as received
\* is the right one once things settle, losses or not (CycleCounted and
\* SettledTableMatches of SignalStatus).
CacheRight ==
    /\ model = "polled" => Polled!CycleCounted /\ Polled!SettledTableMatches
    /\ model = "noisy" => Noisy!CycleCounted /\ Noisy!SettledTableMatches
=============================================================================
