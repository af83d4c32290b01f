----------------------------- MODULE ErrorStatus -----------------------------
(***************************************************************************)
(* The error bits of the roadside unit and their watchdogs                 *)
(* (src/src/error_status.c).  Every thread sets and clears its bit under   *)
(* mutex_error_status.  Two one-shot timers watch the DSRC unit and the    *)
(* signal controller: a heartbeat or a 5FCC rearms its timer, and the      *)
(* thread an expired timer starts sets the bit; the controller's thread    *)
(* then sleeps and ends the program, which a supervisor starts again.      *)
(*                                                                         *)
(* An expired timer's thread may run late, behind a rearming, so setting   *)
(* the bit is a step of its own.  A handler gets through its two calls     *)
(* within a tick.                                                          *)
(***************************************************************************)
EXTENDS Naturals, TLAPS

CONSTANTS
    DsrcLimit,    \* ticks the DSRC unit may be silent (10 s)
    TscLimit,     \* ticks without 5FCC (60 s)
    KillDelay,    \* ticks set_tsc_5fcc_error sleeps (5 s)
    PlainBits     \* bits nobody watches: VMS, DISK, MEMORY, TC_655XX,
                  \* phase weights of the cloud

ErrorStatusAssumption ==
    /\ {DsrcLimit, TscLimit, KillDelay} \subseteq Nat \ {0}
    /\ PlainBits \intersect {"DSRC", "TCFAIL"} = {}

Watched == {"DSRC", "TCFAIL"}
Bits == Watched \union PlainBits

VARIABLES
    error_status,   \* the bits that are set
    timer,          \* watched bit -> ticks its timer has left, 0: disarmed
    late,           \* the watched bits whose timer's thread has not run yet
    handler,        \* the watched bits whose handler is between its two calls
    killers,        \* set_tsc_5fcc_error: ticks its threads have left to sleep
    silent,         \* history: ticks since each watched part was heard, capped
    accused,        \* history: silent["TCFAIL"] when its timer expired
    alive           \* does the program run?

vars == <<error_status, timer, late, handler, killers, silent, accused, alive>>

Limit == [b \in Watched |-> IF b = "DSRC" THEN DsrcLimit ELSE TscLimit]

(* dsrc_error_detect_init and tc_5fcc_error_detect_init                    *)
Init ==
    /\ error_status = {}
    /\ timer = Limit
    /\ late = {}
    /\ handler = {}
    /\ killers = {}
    /\ silent = [b \in Watched |-> 0]
    /\ accused = TscLimit
    /\ alive = TRUE

-----------------------------------------------------------------------------
(* The setters and clearers of the bits nobody watches: log, memory, VMS,  *)
(* the controller's 655xx seconds, the cloud's phase weights.              *)
SetBit(b) ==
    /\ error_status' = error_status \union {b}
    /\ UNCHANGED <<timer, late, handler, killers, silent, accused, alive>>

ClearBit(b) ==
    /\ error_status' = error_status \ {b}
    /\ UNCHANGED <<timer, late, handler, killers, silent, accused, alive>>

(* A heartbeat of the DSRC unit: rearm, then clear.                        *)
Is_Heartbeat ==
    /\ "DSRC" \notin handler
    /\ timer' = [timer EXCEPT !["DSRC"] = DsrcLimit]
    /\ silent' = [silent EXCEPT !["DSRC"] = 0]
    /\ handler' = handler \union {"DSRC"}
    /\ UNCHANGED <<error_status, late, killers, accused, alive>>

clear_dsrc_error ==
    /\ "DSRC" \in handler
    /\ error_status' = error_status \ {"DSRC"}
    /\ handler' = handler \ {"DSRC"}
    /\ UNCHANGED <<timer, late, killers, silent, accused, alive>>

\* Mutant: a 5FCC clears the bit and leaves the timer as it is.
Rearm5FCCNot ==
    /\ "TCFAIL" \in handler
    /\ silent' = [silent EXCEPT !["TCFAIL"] = 0]
    /\ handler' = handler \ {"TCFAIL"}
    /\ UNCHANGED <<error_status, timer, late, killers, accused, alive>>

(* A 5FCC or 5F0C of the controller: clear, then rearm.                    *)
clear_tsc_5fcc_error ==
    /\ "TCFAIL" \notin handler
    /\ error_status' = error_status \ {"TCFAIL"}
    /\ handler' = handler \union {"TCFAIL"}
    /\ UNCHANGED <<timer, late, killers, silent, accused, alive>>

Rearm5FCC ==
    /\ "TCFAIL" \in handler
    /\ timer' = [timer EXCEPT !["TCFAIL"] = TscLimit]
    /\ silent' = [silent EXCEPT !["TCFAIL"] = 0]
    /\ handler' = handler \ {"TCFAIL"}
    /\ UNCHANGED <<error_status, late, killers, accused, alive>>

(* The threads of expired timers.                                          *)
set_dsrc_error ==
    /\ "DSRC" \in late
    /\ late' = late \ {"DSRC"}
    /\ error_status' = error_status \union {"DSRC"}
    /\ UNCHANGED <<timer, handler, killers, silent, accused, alive>>

set_tsc_5fcc_error ==
    /\ "TCFAIL" \in late
    /\ late' = late \ {"TCFAIL"}
    /\ error_status' = error_status \union {"TCFAIL"}
    /\ killers' = killers \union {KillDelay}
    /\ UNCHANGED <<timer, handler, silent, accused, alive>>

(* kill(getpid(), SIGINT) after the sleep, whatever came meanwhile.        *)
KillSelf ==
    /\ 0 \in killers
    /\ alive' = FALSE
    /\ UNCHANGED <<error_status, timer, late, handler, killers, silent, accused>>

(* A tick of the clock.  Timers that run out start their threads.          *)
Tick ==
    LET left == [b \in Watched |-> IF timer[b] = 0 THEN 0 ELSE timer[b] - 1]
        expired == {b \in Watched : timer[b] = 1}
        heard == [b \in Watched |-> IF silent[b] = Limit[b] THEN Limit[b] ELSE silent[b] + 1]
    IN
    /\ handler = {}
    /\ 0 \notin killers
    /\ timer' = left
    /\ late' = late \union expired
    /\ silent' = heard
    /\ accused' = IF "TCFAIL" \in expired THEN heard["TCFAIL"] ELSE accused
    /\ killers' = {k - 1 : k \in killers}
    /\ UNCHANGED <<error_status, handler, alive>>

Watchdogs == clear_dsrc_error \/ Rearm5FCC \/ set_dsrc_error \/ set_tsc_5fcc_error \/ KillSelf

Next ==
    /\ alive
    /\ \/ \E b \in PlainBits : SetBit(b) \/ ClearBit(b)
       \/ Is_Heartbeat
       \/ clear_tsc_5fcc_error
       \/ Watchdogs
       \/ Tick

Spec == Init /\ [][Next]_vars

-----------------------------------------------------------------------------
TypeOK ==
    /\ error_status \subseteq Bits
    /\ timer \in [Watched -> 0..(DsrcLimit + TscLimit)]
    /\ late \subseteq Watched /\ handler \subseteq Watched
    /\ killers \subseteq 0..KillDelay
    /\ silent \in [Watched -> 0..(DsrcLimit + TscLimit)]
    /\ accused \in 0..TscLimit
    /\ alive \in BOOLEAN

\* The program ends itself only for a controller that was silent for the whole
\* limit, although clearing the bit and rearming are two calls that a timer's
\* thread may come between (clear_tsc_5fcc_error, set_tsc_5fcc_error).
EndsOnlyAfterSilence == accused = TscLimit

\* The watch on the controller is never lost: its timer is armed or expired
\* and about to be noticed, or the program is about to end.
WatchNeverLost ==
    timer["TCFAIL"] > 0 \/ "TCFAIL" \in late \/ killers # {}

\* What the reports say of a silent part: once the DSRC unit was silent for the
\* limit, its bit is set, as soon as the timer's thread has run.
SilenceShown ==
    silent["DSRC"] = DsrcLimit /\ "DSRC" \notin late => "DSRC" \in error_status

ErrorsTold == TypeOK /\ EndsOnlyAfterSilence /\ WatchNeverLost /\ SilenceShown

\* A controller that falls silent for good is answered by a restart: the last
\* 5FCC may have been handled anywhere between the expiry of the timer and the
\* end of the program (set_tsc_5fcc_error).
SilentTscEndsProgram == <>[](handler = {} /\ silent["TCFAIL"] > 0) => <>~alive

-----------------------------------------------------------------------------
(* For every limit and delay: the error bits and their watchdogs tell what  *)
(* is silent, and the program ends itself for nothing less than a           *)
(* controller that was silent for the whole limit.                          *)

(* An armed timer has left what the silence has not used up: arming it and *)
(* hearing its part are one step.                                          *)
TimersMeasure == \A b \in Watched : silent[b] + timer[b] = Limit[b]

(* A heartbeat whose handler is not through has just been heard.           *)
HandledIsHeard == "DSRC" \in handler => silent["DSRC"] = 0

(* The inductive invariant.  What the bits tell depends on the timers, and *)
(* that a clearing never hides a silence on the handler's two steps being  *)
(* within a tick.                                                          *)
ErrorInv == ErrorsTold /\ TimersMeasure /\ HandledIsHeard

-----------------------------------------------------------------------------
(* The limits of the two watched parts are their constants.                *)
LEMMA LimitValues ==
    ASSUME ErrorStatusAssumption
    PROVE  /\ Limit["DSRC"] = DsrcLimit /\ Limit["TCFAIL"] = TscLimit
           /\ DsrcLimit \in Nat \ {0} /\ TscLimit \in Nat \ {0} /\ KillDelay \in Nat \ {0}
  BY DEF ErrorStatusAssumption, Limit, Watched

(* Two watchdogs that have just been armed.                                *)
LEMMA ErrorInit == ErrorStatusAssumption /\ Init => ErrorInv
  <1> SUFFICES ASSUME ErrorStatusAssumption, Init PROVE ErrorInv
      OBVIOUS
  <1> USE LimitValues
  <1>1. TypeOK
    BY DEF Init, TypeOK, Limit, Watched, Bits
  <1>2. EndsOnlyAfterSilence /\ WatchNeverLost /\ SilenceShown
    BY DEF Init, EndsOnlyAfterSilence, WatchNeverLost, SilenceShown, Watched
  <1>3. TimersMeasure /\ HandledIsHeard
    BY DEF Init, TimersMeasure, HandledIsHeard, Watched, Limit
  <1> QED BY <1>1, <1>2, <1>3 DEF ErrorInv, ErrorsTold

(* Bits that nobody watches leave the watched ones alone.                  *)
LEMMA PlainStep ==
    ASSUME ErrorStatusAssumption, ErrorInv, NEW b \in PlainBits, SetBit(b) \/ ClearBit(b)
    PROVE  ErrorInv'
  BY DEF ErrorStatusAssumption, ErrorInv, ErrorsTold, TypeOK, EndsOnlyAfterSilence, WatchNeverLost,
         SilenceShown, TimersMeasure, HandledIsHeard, SetBit, ClearBit, Bits, Watched

(* Handlers and the threads of expired timers.                             *)
LEMMA HandlerStep ==
    ASSUME ErrorStatusAssumption, ErrorInv, Is_Heartbeat \/ clear_tsc_5fcc_error \/ Watchdogs
    PROVE  ErrorInv'
  <1> USE LimitValues DEF ErrorInv, ErrorsTold, TypeOK, EndsOnlyAfterSilence, WatchNeverLost,
          SilenceShown, TimersMeasure, HandledIsHeard, Watched
  <1>1. CASE Is_Heartbeat
    BY <1>1 DEF Is_Heartbeat, Limit
  <1>2. CASE clear_tsc_5fcc_error
    BY <1>2 DEF clear_tsc_5fcc_error
  <1>3. CASE clear_dsrc_error
    BY <1>3 DEF clear_dsrc_error
  <1>4. CASE Rearm5FCC
    BY <1>4 DEF Rearm5FCC, Limit
  <1>5. CASE set_dsrc_error
    BY <1>5 DEF set_dsrc_error, Bits
  <1>6. CASE set_tsc_5fcc_error
    <2>1. TypeOK'
      <3>1. KillDelay \in 0..KillDelay
        OBVIOUS
      <3>2. killers' \subseteq 0..KillDelay
        BY <1>6, <3>1 DEF set_tsc_5fcc_error
      <3>3. error_status' \subseteq Bits /\ late' \subseteq Watched
        BY <1>6 DEF set_tsc_5fcc_error, Bits
      <3> QED BY <1>6, <3>2, <3>3 DEF set_tsc_5fcc_error
    <2>2. WatchNeverLost'
      BY <1>6 DEF set_tsc_5fcc_error
    <2>3. SilenceShown' /\ EndsOnlyAfterSilence' /\ TimersMeasure' /\ HandledIsHeard'
      BY <1>6 DEF set_tsc_5fcc_error
    <2> QED BY <2>1, <2>2, <2>3
  <1>7. CASE KillSelf
    BY <1>7 DEF KillSelf
  <1> QED BY <1>1, <1>2, <1>3, <1>4, <1>5, <1>6, <1>7 DEF Watchdogs

(* A tick: a timer that runs out has measured its whole limit.             *)
LEMMA TickStep ==
    ASSUME ErrorStatusAssumption, ErrorInv, Tick
    PROVE  ErrorInv'
  <1> USE LimitValues DEF ErrorInv, ErrorsTold, TypeOK, Watched
  <1>1. ASSUME NEW b \in Watched
        PROVE  /\ timer'[b] = (IF timer[b] = 0 THEN 0 ELSE timer[b] - 1)
               /\ silent'[b] = (IF silent[b] = Limit[b] THEN Limit[b] ELSE silent[b] + 1)
               /\ timer[b] \in Nat /\ silent[b] \in Nat /\ Limit[b] \in Nat \ {0}
               /\ silent[b] + timer[b] = Limit[b]
    BY <1>1 DEF Tick, Limit, TimersMeasure
  <1>2. TimersMeasure'
    BY <1>1 DEF TimersMeasure, Limit
  <1>3. TypeOK'
    <2>1. timer' \in [Watched -> 0..(DsrcLimit + TscLimit)]
      BY DEF Tick
    <2>2. silent' \in [Watched -> 0..(DsrcLimit + TscLimit)]
      <3>1. \A b \in Watched : silent'[b] \in 0..(DsrcLimit + TscLimit)
        BY <1>1 DEF Limit
      <3> QED BY <3>1 DEF Tick
    <2>3. killers' \subseteq 0..KillDelay
      BY DEF Tick
    <2>4. accused' \in 0..TscLimit
      BY <1>1 DEF Tick
    <2> QED BY <2>1, <2>2, <2>3, <2>4 DEF Tick
  <1>4. EndsOnlyAfterSilence'
    <2>1. CASE timer["TCFAIL"] = 1
      BY <1>1, <2>1 DEF Tick, EndsOnlyAfterSilence
    <2>2. CASE timer["TCFAIL"] # 1
      BY <2>2 DEF Tick, EndsOnlyAfterSilence
    <2> QED BY <2>1, <2>2
  <1>5. WatchNeverLost'
    <2>1. CASE killers # {}
      <3>1. PICK k \in killers : TRUE
        BY <2>1
      <3>2. k - 1 \in killers'
        BY <3>1 DEF Tick
      <3> QED BY <3>2 DEF WatchNeverLost
    <2>2. CASE "TCFAIL" \in late
      BY <2>2 DEF Tick, WatchNeverLost
    <2>3. CASE timer["TCFAIL"] > 0
      <3>1. "TCFAIL" \in late' \/ timer'["TCFAIL"] > 0
        BY <1>1, <2>3 DEF Tick
      <3> QED BY <3>1 DEF WatchNeverLost
    <2> QED BY <2>1, <2>2, <2>3 DEF WatchNeverLost
  <1>6. SilenceShown'
    BY <1>1 DEF Tick, SilenceShown
  <1>7. HandledIsHeard'
    BY DEF Tick, HandledIsHeard
  <1> QED BY <1>2, <1>3, <1>4, <1>5, <1>6, <1>7

-----------------------------------------------------------------------------
(* Error bits tell what is silent, the watch on the controller is never    *)
(* lost, and the program ends itself only for a controller that was silent *)
(* for the whole limit, although clearing and rearming are two calls that  *)
(* a late timer's thread may come between (clear_tsc_5fcc_error,           *)
(* set_tsc_5fcc_error).                                                    *)
THEOREM ErrorsAreTold == ASSUME ErrorStatusAssumption PROVE Spec => []ErrorsTold
  <1>1. Init => ErrorInv
    BY ErrorInit
  <1>2. ErrorInv /\ [Next]_vars => ErrorInv'
    <2> SUFFICES ASSUME ErrorInv, [Next]_vars PROVE ErrorInv'
        OBVIOUS
    <2>1. CASE Next
      BY <2>1, PlainStep, HandlerStep, TickStep DEF Next
    <2>2. CASE UNCHANGED vars
      BY <2>2 DEF vars, ErrorInv, ErrorsTold, TypeOK, EndsOnlyAfterSilence, WatchNeverLost,
                  SilenceShown, TimersMeasure, HandledIsHeard
    <2> QED BY <2>1, <2>2
  <1>3. ErrorInv => ErrorsTold
    BY DEF ErrorInv
  <1> QED BY <1>1, <1>2, <1>3, PTL DEF Spec
==============================================================================
