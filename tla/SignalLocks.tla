---------------------------- MODULE SignalLocks ----------------------------
(***************************************************************************)
(* The locks of the signal control path: what the polling tick             *)
(* (src/timer_event.c, src/traffic_signal_command_buffer.c), the receiving *)
(* thread (src/traffic_signal_status_updating.c) and an application        *)
(* acquire and release, and in which order.  Each operation is the         *)
(* sequence of its lock steps; what happens between them is the subject of *)
(* CommandBuffer and SignalStatus.                                         *)
(***************************************************************************)
EXTENDS Integers, Sequences, FiniteSets

CONSTANTS
    Ticks,          \* threads of the polling timer; each expiry starts one
    Applications,   \* threads that run application callbacks
    OrderChanges,   \* TRUE: a report may bring another phase order
    LogBuffer       \* config.log_command_buffer

ASSUME LocksAssumption ==
    /\ {"rx", "none"} \cap (Ticks \cup Applications) = {}
    /\ Ticks \cap Applications = {}
    /\ OrderChanges \in BOOLEAN /\ LogBuffer \in BOOLEAN

Threads == Ticks \cup Applications \cup {"rx"}

\* mutex_uart_comple_protect, mutex_command_buf, mutex_signal_status,
\* mutex_activate_amount
Locks == {"uart", "buffer", "status", "amount"}

VARIABLES
    todo,       \* the lock steps each thread still has to take
    owner,      \* the thread a mutex is locked by, or "none"
    inside,     \* per thread, the mutexes it believes to hold
    sem         \* sem_signal_status

vars == <<todo, owner, inside, sem>>

-----------------------------------------------------------------------------
(* The operations as sequences of lock steps.                               *)

Lock(m) == <<[op |-> "lock", on |-> m]>>
Unlock(m) == <<[op |-> "unlock", on |-> m]>>
Wait == <<[op |-> "wait", on |-> "sem"]>>
Post == <<[op |-> "post", on |-> "sem"]>>

\* What runs between locking and unlocking m.
Section(m, steps) == Lock(m) \o steps \o Unlock(m)

\* A getter or setter of one field.
Field == Section("status", <<>>)

\* get_traffic_signal_status
Copy == Wait \o Field \o Post

\* A critical section of the command buffer that takes no other mutex.
BufferSection == Section("buffer", <<>>)

command_buf_print == IF LogBuffer THEN Copy \o BufferSection ELSE <<>>

command_buf_insert_effect_time == Copy \o BufferSection \o command_buf_print

is_in_compensation == Copy \o Field

command_buf_insert_adjustment ==
    is_in_compensation \o Copy \o BufferSection \o command_buf_insert_effect_time

command_buf_resume_control == Copy \o command_buf_insert_effect_time

command_buf_delete_OBU == Section("buffer", Section("amount", <<>>))

command_buf_clear == BufferSection

\* command_buf_send waits a second time, with no post of its own.
command_buf_send == Copy \o Wait \o is_in_compensation

\* The ways through command_buf_polling: no status to compare with yet,
\* nothing to do, a new phase, a new phase after a RESUME, step 4 with commands left (check_command_buf_empty
\* unlocks), and a command to send.
Polls ==
    { Copy,
      Copy \o BufferSection,
      Copy \o Section("buffer", Field),
      Copy \o BufferSection \o Copy \o command_buf_insert_effect_time
           \o Section("buffer", Field),
      Copy \o BufferSection \o Unlock("buffer"),
      Copy \o Section("buffer", command_buf_send \o Field) }

\* The tick: the queries that need a plan number, the poll, the query of the
\* phase order.
TickScripts ==
    {Section("uart", queries \o poll \o command_buf_print \o order) :
        queries \in {<<>>, Field \o Field}, poll \in Polls, order \in {<<>>, Field}}

\* Faulty variant: a report that is ignored leaves the mutex locked.
PlanReportLeaves == {Field, Lock("status")}

\* packet_5FC8 and packet_5FC5; another phase order clears the buffer.
PlanReport ==
    {Field} \cup (IF OrderChanges
                  THEN {Section("status", command_buf_clear)} ELSE {})

RxScripts == {Field \o Post, Field} \cup PlanReport

AppScripts ==
    {command_buf_insert_effect_time, command_buf_insert_adjustment,
     command_buf_delete_OBU \o command_buf_resume_control, command_buf_clear}

Scripts(t) == IF t \in Ticks THEN TickScripts
              ELSE IF t = "rx" THEN RxScripts ELSE AppScripts

-----------------------------------------------------------------------------
Init ==
    /\ todo = [t \in Threads |-> <<>>]
    /\ owner = [m \in Locks |-> "none"]
    /\ inside = [t \in Threads |-> {}]
    /\ sem = 1

Begin(t) ==
    /\ todo[t] = <<>>
    /\ \E s \in Scripts(t) : todo' = [todo EXCEPT ![t] = s]
    /\ UNCHANGED <<owner, inside, sem>>

\* The next lock step of t.
At(t, op) == todo[t] # <<>> /\ Head(todo[t]).op = op
Passes(t) == todo' = [todo EXCEPT ![t] = Tail(@)]

Acquire(t) ==
    /\ At(t, "lock")
    /\ LET m == Head(todo[t]).on IN
       /\ owner[m] = "none"
       /\ owner' = [owner EXCEPT ![m] = t]
       /\ inside' = [inside EXCEPT ![t] = @ \cup {m}]
    /\ Passes(t)
    /\ UNCHANGED sem

\* Faulty variant: mutex_activate_amount is not released.
ReleaseKeeps(t) ==
    /\ At(t, "unlock")
    /\ LET m == Head(todo[t]).on IN
       /\ owner' = IF m = "amount" THEN owner ELSE [owner EXCEPT ![m] = "none"]
       /\ inside' = [inside EXCEPT ![t] = @ \ {m}]
    /\ Passes(t)
    /\ UNCHANGED sem

\* Unlocking a default mutex that another thread holds is undefined; it
\* unlocks it or leaves it alone.
Release(t) ==
    /\ At(t, "unlock")
    /\ LET m == Head(todo[t]).on IN
       /\ owner' \in IF owner[m] \in {t, "none"}
                     THEN {[owner EXCEPT ![m] = "none"]}
                     ELSE {owner, [owner EXCEPT ![m] = "none"]}
       /\ inside' = [inside EXCEPT ![t] = @ \ {m}]
    /\ Passes(t)
    /\ UNCHANGED sem

\* sem_timedwait: with the semaphore at 0 the wait ends after a second.
TimedWait(t) ==
    /\ At(t, "wait")
    /\ sem' = IF sem > 0 THEN sem - 1 ELSE 0
    /\ Passes(t)
    /\ UNCHANGED <<owner, inside>>

\* sem_post if sem_getvalue gives 0.
PostIfZero(t) ==
    /\ At(t, "post")
    /\ sem' = IF sem = 0 THEN 1 ELSE sem
    /\ Passes(t)
    /\ UNCHANGED <<owner, inside>>

Step(t) == Acquire(t) \/ Release(t) \/ TimedWait(t) \/ PostIfZero(t)

Next == \E t \in Threads : Begin(t) \/ Step(t)

\* A thread that can go on again and again does: critical sections are short
\* against the period of the timer.
Spec == Init /\ [][Next]_vars /\ \A t \in Threads : SF_vars(Step(t))

-----------------------------------------------------------------------------
(* Properties.                                                              *)

\* The status mutex keeps two threads from the cached status, and a thread
\* that has ended holds nothing.
StatusExclusive ==
    /\ Cardinality({t \in Threads : "status" \in inside[t]}) <= 1
    /\ \A t \in Threads : todo[t] = <<>> => inside[t] = {}

\* Whatever the threads do, an operation that has begun ends: no ring of
\* threads waits for each other's mutexes.
EveryOperationEnds == \A t \in Threads : (todo[t] # <<>>) ~> (todo[t] = <<>>)

\* What the comment at set_timer says: the timer polls at its interval, so
\* every tick comes to its end.
EveryTickEnds == \A t \in Ticks : (todo[t] # <<>>) ~> (todo[t] = <<>>)

=============================================================================
