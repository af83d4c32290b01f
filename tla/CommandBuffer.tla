--------------------------- MODULE CommandBuffer ---------------------------
(***************************************************************************)
(* The traffic signal command buffer (src/traffic_signal_command_buffer.c) *)
(* with the three threads that meet in it: applications insert commands    *)
(* for this and the coming cycles, the polling timer sends the command of  *)
(* the running phase and clears the slot of the phase that ended, and the  *)
(* receiving thread moves the cached phase and cycle_index when a 5FCC     *)
(* report arrives.  Compensation is started by the polling thread after a  *)
(* RESUME command and inserts its commands through the same door.          *)
(*                                                                         *)
(* The ghost fields inst and for count phase instances from the start:     *)
(* which instance a status is about, and which one a command was meant for.*)
(***************************************************************************)
EXTENDS CompensationAlgorithm

CONSTANTS
    Plan,           \* signal_status.plan
    Effects,        \* the effect times EVSP asks for
    Adjustments,    \* the adjustments TSP asks for
    Ahead,          \* the cycles ahead that applications address
    Compensations,  \* what compensation may add to a green; {} for method 0
    MaxInstance,    \* bound on the phase instances of a run
    MaxInserts,     \* bound on the commands the applications insert
    Interrupts,     \* what a report may arrive in the middle of: "poll", "insert"
    PedSend         \* config.ped_countdown_send # 0

\* The code has three cycles.
ASSUME BufferAssumption ==
    /\ CYCLE_NUM \in Nat /\ CYCLE_NUM >= 3
    /\ Plan \in Seq([PreGreen : Nat, PreTimeCompensated : Int, MinGreen : Nat,
                     MaxGreen : Nat, PedGreenFlash : Nat, PedRed : Nat,
                     Yellow : Nat, AllRed : Nat])
    /\ Len(Plan) >= 2
    /\ \A p \in 1..Len(Plan) : Plan[p].MinGreen <= Plan[p].MaxGreen
    /\ Effects \subseteq Nat /\ Adjustments \subseteq Int \ {0}
    /\ Compensations \subseteq Int /\ Ahead \subseteq 0..(CYCLE_NUM - 1)
    /\ Interrupts \subseteq {"poll", "insert"} /\ PedSend \in BOOLEAN
    /\ MaxInstance \in Nat /\ MaxInserts \in Nat

N == Len(Plan)
PhaseIDs == 1..N
Slots == 0..(CYCLE_NUM - 1)

Apps == {"TSP", "EVSP"}
Host(a) == IF a = "TSP" THEN "bus" ELSE "ambulance"
Priority(a) == CASE a = "EVSP" -> 1 [] a = "TSP" -> 2 [] OTHER -> 99

VARIABLES
    command_buf,        \* by cycle and phase
    cycle_index,
    prior,              \* prior_cycle_index and prior_SubPhaseID
    status,             \* the cached signal status
    tc,                 \* external: where the signal controller is
    poll,               \* the polling thread
    ask,                \* per application, the command it is inserting
    lock,               \* holder of mutex_command_buf
    pretimeflag,
    compensation_buffer,
    active,             \* applications with a vehicle; activate_amount counts them
    ped_countdown,
    inserts,            \* commands inserted by applications so far
    sent,               \* history: the last command sent and where the
                        \* controller was then
    disturbed           \* history: a report has landed in the middle of a poll
                        \* or of an insertion, or a compensation has been
                        \* addressed to phases that had passed

vars == <<command_buf, cycle_index, prior, status, tc, poll, ask, lock,
          pretimeflag, compensation_buffer, active, ped_countdown,
          inserts, sent, disturbed>>

\* A cleared tsc_command_object_t.  app "comp" is id 99, shared by RESUME and
\* COMPENSATION.
Empty == [app |-> "none", host |-> "none", target |-> 0, effect |-> 0,
          adjusted |-> 0, flag |-> FALSE, for |-> 0]

NoAsk == [host |-> "none"]
IdlePoll == [at |-> "idle"]

PhaseOf(inst) == ((inst - 1) % N) + 1

\* Steps of a phase that matter here: the running green, its last second, and
\* step 4.
Positions == <<"green", "last", "step4">>
StepAt(pos) == IF pos = "step4" THEN 4 ELSE 1
SecAt(pos, phase) == IF pos = "green" THEN Plan[phase].PreGreen ELSE 1

-----------------------------------------------------------------------------
(* command_buf_insert_effect_time.                                          *)

PedGreen(p) == Plan[p].PedGreenFlash + Plan[p].PedRed

\* Green with its pedestrian part is kept between the limits of the plan.
Bounded(p, effect) ==
    LET low == IF effect + PedGreen(p) < Plan[p].MinGreen
               THEN Plan[p].MinGreen - PedGreen(p) ELSE effect
    IN  IF low + PedGreen(p) > Plan[p].MaxGreen
        THEN Plan[p].MaxGreen - PedGreen(p) ELSE low

Distance(a, b) == IF a > b THEN a - b ELSE b - a

\* Which fields of the slot a command replaces.
Verdict(slot, c) ==
    IF slot.app = "none" THEN "all"
    ELSE IF slot.host = "COMPENSATION" /\ c.host = "COMPENSATION" THEN "effect"
    ELSE IF slot.host = "RESUME" THEN "all"
    ELSE IF c.host = "RESUME"
         THEN IF slot.app = c.app THEN "host" ELSE "refused"
    ELSE IF slot.host = c.host /\ slot.app = c.app THEN "effect"
    ELSE IF slot.target = c.target
         THEN IF Distance(slot.effect, Plan[c.phase].PreTimeCompensated)
                    <= Distance(c.effect, Plan[c.phase].PreTimeCompensated)
              THEN "all" ELSE "refused"
    ELSE IF Priority(slot.app) > Priority(c.app) THEN "all" ELSE "refused"

\* The slot after the command was offered to it.
Offered(slot, c) ==
    LET v == Verdict(slot, c) IN
    IF v = "refused" THEN slot
    ELSE [slot EXCEPT
            !.app = IF v = "all" THEN c.app ELSE @,
            !.host = IF v = "effect" THEN @ ELSE c.host,
            !.effect = c.effect,
            !.target = c.target,
            !.flag = FALSE,
            !.adjusted = IF slot.app = "none" /\ @ = 0
                         THEN Plan[c.phase].PreTimeCompensated ELSE @,
            !.for = c.for]

\* Faulty variant: every command goes to the running cycle.
InsertNow(c) ==
    /\ lock = "free"
    /\ command_buf' = [command_buf EXCEPT ![cycle_index][c.phase] = Offered(@, c)]

\* The critical section: the slot is found with cycle_index as it is now.
InsertCommand(c) ==
    /\ lock = "free"
    /\ command_buf' = [command_buf EXCEPT
          ![(cycle_index + c.cycle) % CYCLE_NUM][c.phase] = Offered(@, c)]

-----------------------------------------------------------------------------
Init ==
    /\ command_buf = [c \in Slots |-> [p \in PhaseIDs |-> Empty]]
    /\ cycle_index = 0
    /\ prior = [cycle |-> 0, phase |-> 0, inst |-> 0]
    /\ status = [phase |-> 0, step |-> 0, sec |-> 0, dynamic |-> FALSE, inst |-> 0]
    /\ tc = [inst |-> 1, pos |-> 1, dynamic |-> FALSE, polled |-> TRUE]
    /\ poll = IdlePoll
    /\ ask = [a \in Apps |-> NoAsk]
    /\ lock = "free"
    /\ pretimeflag = TRUE
    /\ compensation_buffer = {}
    /\ active = {}
    /\ ped_countdown = TRUE
    /\ inserts = 0
    /\ sent = [for |-> 0, inst |-> 0, effect |-> 0]
    /\ disturbed = FALSE

NothingAsked == \A a \in Apps : ask[a] = NoAsk

Interruptible ==
    /\ poll.at = "idle" \/ "poll" \in Interrupts
    /\ NothingAsked \/ "insert" \in Interrupts

StatusIsCurrent ==
    /\ status.inst = tc.inst
    /\ status.step = StepAt(Positions[tc.pos])
    /\ status.sec = SecAt(Positions[tc.pos], PhaseOf(tc.inst))

\* External: the signal controller moves on, slowly enough to be reported and
\* polled in every position.
Advance ==
    /\ StatusIsCurrent /\ tc.polled
    /\ \/ tc.pos < Len(Positions) /\ tc' = [tc EXCEPT !.pos = @ + 1, !.polled = FALSE]
       \/ /\ tc.pos = Len(Positions) /\ tc.inst < MaxInstance
          /\ tc' = [tc EXCEPT !.inst = @ + 1, !.pos = 1, !.polled = FALSE]
    /\ UNCHANGED <<command_buf, cycle_index, prior, status, poll, ask, lock,
                   pretimeflag, compensation_buffer, active,
                   ped_countdown, inserts, sent, disturbed>>

\* packet_5FCC with update_cycle_index: a smaller phase starts a new cycle.
packet_5FCC ==
    /\ ~StatusIsCurrent \/ status.dynamic # tc.dynamic
    /\ Interruptible
    /\ LET phase == PhaseOf(tc.inst) IN
       /\ cycle_index' = IF phase < status.phase
                         THEN (cycle_index + 1) % CYCLE_NUM ELSE cycle_index
       /\ status' = [phase |-> phase, step |-> StepAt(Positions[tc.pos]),
                     sec |-> SecAt(Positions[tc.pos], phase),
                     dynamic |-> tc.dynamic, inst |-> tc.inst]
    /\ disturbed' = (disturbed \/ poll.at # "idle" \/ ~NothingAsked)
    /\ UNCHANGED <<command_buf, prior, tc, poll, ask, lock, pretimeflag,
                   compensation_buffer, active, ped_countdown,
                   inserts, sent>>

-----------------------------------------------------------------------------
(* command_buf_polling.                                                     *)

\* The status is copied under its own mutex, before mutex_command_buf; the
\* first poll only notes the phase.
PollStart ==
    /\ poll.at = "idle"
    /\ status.phase # 0
    /\ StatusIsCurrent
    /\ \/ /\ prior.phase = 0
          /\ prior' = [prior EXCEPT !.phase = status.phase, !.inst = status.inst]
          /\ UNCHANGED poll
       \/ /\ prior.phase # 0
          /\ poll' = [at |-> "lock", phase |-> status.phase, step |-> status.step,
                      sec |-> status.sec, inst |-> status.inst]
          /\ UNCHANGED prior
    /\ UNCHANGED <<command_buf, cycle_index, status, tc, ask, lock, pretimeflag,
                   compensation_buffer, active, ped_countdown,
                   inserts, sent, disturbed>>

Crossing == prior.phase # poll.phase

PriorSlot == command_buf[prior.cycle][prior.phase]

\* Faulty variant: the slot is found with the new cycle_index.
ClearInNewCycle ==
    command_buf' = [command_buf EXCEPT
        ![cycle_index][prior.phase] = Empty,
        ![cycle_index][poll.phase].adjusted = poll.sec]

\* The slot of the phase that ended is cleared; the new one's adjusted time is
\* what is left of the step.
ClearPrior ==
    command_buf' = [command_buf EXCEPT
        ![prior.cycle][prior.phase] = Empty,
        ![cycle_index][poll.phase].adjusted = poll.sec]

PollLock ==
    /\ poll.at = "lock"
    /\ lock = "free"
    /\ ~(Crossing /\ PriorSlot.host = "RESUME")
    /\ IF Crossing THEN ClearPrior ELSE UNCHANGED command_buf
    /\ lock' = "poll"
    /\ poll' = [poll EXCEPT !.at = "send"]
    /\ UNCHANGED <<cycle_index, prior, status, tc, ask, pretimeflag,
                   compensation_buffer, active, ped_countdown,
                   inserts, sent, disturbed>>

\* After a RESUME the mutex is released again and start_compensation works on
\* a fresh copy of the status.
CompensationCommands(given) ==
    LET s == [plan |-> Plan, SubPhaseID |-> status.phase, StepID |-> status.step,
              StepSec |-> status.sec]
        commands == CommandsOf(s, given, 0, 1)
    IN  [k \in 1..Len(commands) |->
            [app |-> "comp", host |-> "COMPENSATION", cycle |-> commands[k].cycle,
             phase |-> commands[k].phase, target |-> commands[k].phase,
             effect |-> Bounded(commands[k].phase, commands[k].effect),
             for |-> status.inst - status.phase + commands[k].cycle * N
                         + commands[k].phase]]

PollResume ==
    /\ poll.at = "lock"
    /\ lock = "free"
    /\ Crossing /\ PriorSlot.host = "RESUME"
    /\ \E given \in [PhaseIDs -> Compensations \cup {0}] :
          poll' = [at |-> "compensate", phase |-> poll.phase, step |-> poll.step,
                   sec |-> poll.sec, inst |-> poll.inst,
                   todo |-> CompensationCommands(given)]
    /\ disturbed' = (disturbed \/ \E k \in DOMAIN poll'.todo : poll'.todo[k].for < poll.inst)
    /\ UNCHANGED <<command_buf, cycle_index, prior, status, tc, ask, lock,
                   pretimeflag, compensation_buffer, active,
                   ped_countdown, inserts, sent>>

Compensate ==
    /\ poll.at = "compensate"
    /\ poll.todo # <<>>
    /\ InsertCommand(Head(poll.todo))
    /\ poll' = [poll EXCEPT !.todo = Tail(@)]
    /\ UNCHANGED <<cycle_index, prior, status, tc, ask, lock, pretimeflag,
                   compensation_buffer, active, ped_countdown,
                   inserts, sent, disturbed>>

PollRelock ==
    /\ poll.at = "compensate"
    /\ poll.todo = <<>>
    /\ lock = "free"
    /\ ClearPrior
    /\ compensation_buffer' = {}
    /\ lock' = "poll"
    /\ poll' = [at |-> "send", phase |-> poll.phase, step |-> poll.step,
                sec |-> poll.sec, inst |-> poll.inst]
    /\ UNCHANGED <<cycle_index, prior, status, tc, ask, pretimeflag,
                   active, ped_countdown, inserts, sent, disturbed>>

BufferEmpty == \A c \in Slots, p \in PhaseIDs : command_buf[c][p].app = "none"

\* Step 4: back to pretime once the buffer is empty; a buffer that is not
\* empty releases the mutex.
PollStep4 ==
    /\ poll.at = "send"
    /\ poll.step = 4
    /\ pretimeflag' = (pretimeflag /\ ~BufferEmpty)
    /\ tc' = [tc EXCEPT !.dynamic = @ /\ ~(BufferEmpty /\ pretimeflag)]
    /\ lock' = IF BufferEmpty THEN lock ELSE "free"
    /\ poll' = [poll EXCEPT !.at = "finish"]
    /\ UNCHANGED <<command_buf, cycle_index, prior, status, ask,
                   compensation_buffer, active, ped_countdown,
                   inserts, sent, disturbed>>

Ready(slot) ==
    /\ slot.app # "none" /\ ~slot.flag
    /\ poll.step = 1 /\ poll.sec > 1 /\ ~Crossing

\* is_in_compensation: under dynamic control a command of id 99 anywhere in
\* the buffer; otherwise the controller may be compensating by itself.
InCompensation ==
    IF status.dynamic
    THEN {\E c \in Slots, p \in PhaseIDs : command_buf[c][p].app = "comp"}
    ELSE BOOLEAN

\* command_buf_send, with the mutex held: nothing goes out for TSP while
\* compensating.  The pedestrian countdown goes off while vehicles are active
\* and comes back with the first command after the last one left.
Send(slot) ==
    /\ tc' = [tc EXCEPT !.dynamic = TRUE]
    /\ sent' = [for |-> slot.for, inst |-> tc.inst, effect |-> slot.effect]
    /\ LET off == ped_countdown /\ active # {}
           after == IF off THEN ~PedSend ELSE ped_countdown
       IN  ped_countdown' = (after \/ active = {})
    /\ compensation_buffer' = IF slot.host = "COMPENSATION" THEN compensation_buffer
                              ELSE compensation_buffer \cup {poll.phase}

PollSend ==
    /\ poll.at = "send"
    /\ poll.step # 4
    /\ LET slot == command_buf[cycle_index][poll.phase] IN
       /\ Ready(slot)
       /\ \E compensating \in InCompensation :
             IF slot.app = "TSP" /\ compensating
             THEN UNCHANGED <<tc, sent, ped_countdown, compensation_buffer>>
             ELSE Send(slot)
    /\ pretimeflag' = TRUE
    /\ poll' = [poll EXCEPT !.at = "mark"]
    /\ UNCHANGED <<command_buf, cycle_index, prior, status, ask, lock, active,
                   inserts, disturbed>>

PollIdle ==
    /\ poll.at = "send"
    /\ poll.step # 4
    /\ ~Ready(command_buf[cycle_index][poll.phase])
    /\ pretimeflag' = TRUE
    /\ poll' = [poll EXCEPT !.at = "finish"]
    /\ UNCHANGED <<command_buf, cycle_index, prior, status, tc, ask, lock,
                   compensation_buffer, active, ped_countdown,
                   inserts, sent, disturbed>>

\* After the send, which waited for acknowledgements, cycle_index is read anew.
PollMark ==
    /\ poll.at = "mark"
    /\ command_buf' = [command_buf EXCEPT
          ![cycle_index][poll.phase].flag = TRUE,
          ![cycle_index][poll.phase].adjusted = command_buf[cycle_index][poll.phase].effect]
    /\ poll' = [poll EXCEPT !.at = "finish"]
    /\ UNCHANGED <<cycle_index, prior, status, tc, ask, lock, pretimeflag,
                   compensation_buffer, active, ped_countdown,
                   inserts, sent, disturbed>>

PolledCurrent ==
    /\ poll.inst = tc.inst
    /\ poll.step = StepAt(Positions[tc.pos])
    /\ poll.sec = SecAt(Positions[tc.pos], PhaseOf(tc.inst))

PollFinish ==
    /\ poll.at = "finish"
    /\ prior' = [cycle |-> cycle_index, phase |-> poll.phase, inst |-> poll.inst]
    /\ lock' = "free"
    /\ tc' = [tc EXCEPT !.polled = @ \/ PolledCurrent]
    /\ poll' = IdlePoll
    /\ UNCHANGED <<command_buf, cycle_index, status, ask, pretimeflag,
                   compensation_buffer, active, ped_countdown,
                   inserts, sent, disturbed>>

-----------------------------------------------------------------------------
(* The applications.                                                        *)

\* The instance an application means by phase p of the cycle c ahead.
Meant(c, p) == status.inst - status.phase + c * N + p

Command(a, c, p, target, effect) ==
    [app |-> a, host |-> Host(a), cycle |-> c, phase |-> p, target |-> target,
     effect |-> Bounded(p, effect), for |-> Meant(c, p)]

Asks(a, command) ==
    /\ ask[a] = NoAsk
    /\ inserts < MaxInserts
    /\ ask' = [ask EXCEPT ![a] = command]
    /\ inserts' = inserts + 1
    /\ active' = active \cup {a}
    /\ UNCHANGED <<command_buf, cycle_index, prior, status, tc, poll, lock,
                   pretimeflag, compensation_buffer, ped_countdown, sent, disturbed>>

\* EVSP asks for an effect time for the running or a coming phase.
AskEffect(c, p, target, effect) ==
    /\ status.phase # 0
    /\ Meant(c, p) >= status.inst
    /\ Asks("EVSP", Command("EVSP", c, p, target, effect))

\* command_buf_insert_adjustment: TSP adjusts what the slot says the green is,
\* read under the mutex, which is released before the insertion.
AskAdjustment(c, p, target, adjustment) ==
    /\ status.phase # 0
    /\ Meant(c, p) >= status.inst
    /\ FALSE \in InCompensation
    /\ lock = "free"
    /\ LET slot == command_buf[(cycle_index + c) % CYCLE_NUM][p]
           green == IF slot.adjusted = 0 THEN Plan[p].PreTimeCompensated
                    ELSE slot.adjusted
           wanted == green + adjustment
           limited == IF wanted < Plan[p].MinGreen THEN Plan[p].MinGreen
                      ELSE IF wanted > Plan[p].MaxGreen THEN Plan[p].MaxGreen
                      ELSE wanted
       IN  Asks("TSP", Command("TSP", c, p, target, limited))

InsertAsked(a) ==
    /\ ask[a] # NoAsk
    /\ InsertCommand(ask[a])
    /\ ask' = [ask EXCEPT ![a] = NoAsk]
    /\ UNCHANGED <<cycle_index, prior, status, tc, poll, lock, pretimeflag,
                   compensation_buffer, active, ped_countdown,
                   inserts, sent, disturbed>>

\* A new phase order in a 5FC8 or 5FC5 report, or a stopped application.
command_buf_clear ==
    /\ lock = "free"
    /\ ~BufferEmpty
    /\ command_buf' = [c \in Slots |-> [p \in PhaseIDs |-> Empty]]
    /\ UNCHANGED <<cycle_index, prior, status, tc, poll, ask, lock, pretimeflag,
                   compensation_buffer, active, ped_countdown, inserts, sent, disturbed>>

\* The vehicle of a has passed: command_buf_delete_OBU, then
\* command_buf_resume_control, whose RESUME goes to the phase of the status it
\* copies and is inserted later.
Leave(a) ==
    /\ ask[a] = NoAsk
    /\ lock = "free"
    /\ a \in active
    /\ status.phase # 0
    /\ command_buf' = [c \in Slots |-> [p \in PhaseIDs |->
          IF command_buf[c][p].host = Host(a) THEN Empty ELSE command_buf[c][p]]]
    /\ active' = active \ {a}
    /\ ask' = [ask EXCEPT ![a] =
          [app |-> "comp", host |-> "RESUME", cycle |-> 0, phase |-> status.phase,
           target |-> status.phase,
           effect |-> Bounded(status.phase, Plan[status.phase].PreGreen),
           for |-> status.inst]]
    /\ UNCHANGED <<cycle_index, prior, status, tc, poll, lock, pretimeflag,
                   compensation_buffer, ped_countdown, inserts, sent, disturbed>>

PollStep ==
    \/ PollStart \/ PollLock \/ PollResume \/ Compensate \/ PollRelock
    \/ PollStep4 \/ PollSend \/ PollIdle \/ PollMark \/ PollFinish

AppStep ==
    \/ \E c \in Ahead, p, target \in PhaseIDs, effect \in Effects :
          AskEffect(c, p, target, effect)
    \/ \E c \in Ahead, p, target \in PhaseIDs, adjustment \in Adjustments :
          AskAdjustment(c, p, target, adjustment)
    \/ \E a \in Apps : Leave(a)

Next ==
    \/ Advance
    \/ packet_5FCC
    \/ PollStep
    \/ AppStep
    \/ \E a \in Apps : InsertAsked(a)
    \/ command_buf_clear

\* The timer, the receiving thread and a running insertion go on; the signal
\* controller keeps moving.
Spec ==
    /\ Init /\ [][Next]_vars
    /\ WF_vars(PollStep) /\ WF_vars(packet_5FCC) /\ WF_vars(Advance)
    /\ \A a \in Apps : WF_vars(InsertAsked(a))

-----------------------------------------------------------------------------
(* Properties.                                                              *)

AllSlots == {command_buf[c][p] : c \in Slots, p \in PhaseIDs}

\* Every variable keeps its type, and a stored green is between the limits of
\* its phase.
TypeOK ==
    /\ \A c \in Slots, p \in PhaseIDs :
         LET slot == command_buf[c][p] IN
         /\ slot.app \in Apps \cup {"comp", "none"}
         /\ slot.app # "none" =>
              slot.effect + PedGreen(p) \in Plan[p].MinGreen..Plan[p].MaxGreen
    /\ cycle_index \in Slots
    /\ prior.cycle \in Slots /\ prior.phase \in 0..N
    /\ lock \in {"free", "poll"}
    /\ active \subseteq Apps

\* No command outlives its phase instance: nothing in the buffer was meant for
\* an instance before the one the polling thread saw last.
NothingStale ==
    \A slot \in AllSlots : slot.app # "none" => slot.for >= prior.inst

\* A command reaches the controller in the phase instance it was meant for.
SentForItsPhase == sent.for = sent.inst

\* Unless a report lands in the middle of a poll or of an insertion, or a
\* compensation is addressed to phases that have passed, commands stay with the
\* phase instance they were meant for.  Their greens are in the limits anyway.
CommandsInPhase == TypeOK /\ (~disturbed => NothingStale /\ SentForItsPhase)

\* Polling takes only commands of phases that have ended out of the buffer, or
\* one whose place round the ring is that of the phase that has just ended.
\* Whatever else removes one is a vehicle that leaves.
PollKeepsFuture ==
    (poll' # poll /\ ~disturbed) =>
        \A c \in Slots, p \in PhaseIDs :
            (command_buf[c][p].app # "none" /\ command_buf'[c][p].app = "none")
                => command_buf[c][p].for \in {prior.inst, prior.inst + CYCLE_NUM * N}

FutureKept == [][PollKeepsFuture]_vars

\* After a RESUME the next phase starts compensation: stored RESUMEs do not
\* stay for ever.
ResumeIsTakenUp ==
    LET resuming == \E slot \in AllSlots : slot.host = "RESUME"
    IN  (resuming /\ tc.inst < MaxInstance) ~> ~resuming
=============================================================================
