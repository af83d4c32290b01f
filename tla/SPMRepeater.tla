----------------------------- MODULE SPMRepeater -----------------------------
(***************************************************************************)
(* Answers to the priority requests of vehicles (src/application/SPM/src/  *)
(* SPM.c, SPM_OBU_list.c, SPM_repeater.c).  The dispatcher puts a signal   *)
(* request message (SRM) into a list and starts the repeater thread if     *)
(* none runs; the thread answers all listed requests once per period and   *)
(* ends itself when a round has nothing to say.  The decision to end and   *)
(* the reset of SPM_repeater_thread are under two different mutexes.       *)
(*                                                                         *)
(* A request is its type and whether it names this intersection.  An       *)
(* answer names its vehicle and the status; lanes, times and the numbering *)
(* of the statuses are copied data and left out.  How the priority         *)
(* applications treat a vehicle (special_OBU_list_search_status) is        *)
(* external to this module.                                                *)
(***************************************************************************)
EXTENDS Naturals, Sequences, SequencesExt

CONSTANTS
    Vehicles,      \* OBU names
    Types,         \* the types of request the vehicles send
    MaxRequests,   \* requests in one SRM
    StatusMax,     \* SignalStatusList_MAX_SIZE
    Expiry,        \* seconds an entry is kept without being asked again (20)
    Treatments     \* the states a vehicle can have in the OBU lists

SPMRepeaterAssumption ==
    /\ Types \subseteq {"request", "update", "cancel"}
    /\ Treatments \subseteq {"unknown", "processing", "granted", "rejected"}
    /\ "unknown" \in Treatments
    /\ {MaxRequests, StatusMax, Expiry} \subseteq Nat \ {0}

Requests == [type : Types, ours : BOOLEAN]
SRMs == UNION {[1..n -> Requests] : n \in 0..MaxRequests}
Entries == [vehicle : Vehicles, age : 0..(Expiry + 1), count : 0..MaxRequests,
            requests : [1..(MaxRequests + 1) -> Types \union {"reserved"}]]

VARIABLES
    list,        \* SPM_OBU_list_head, newest vehicle first
    thread,      \* SPM_repeater_thread: is one noted as running?
    repeater,    \* where the thread is
    disp,        \* dispatcher: "idle", or about to call SPM_repeater_start
    round,       \* the statuses the current round has put together
    treated      \* external: vehicle -> its status in the OBU lists

vars == <<list, thread, repeater, disp, round, treated>>

Init ==
    /\ list = << >>
    /\ thread = FALSE
    /\ repeater = "off"
    /\ disp = "idle"
    /\ round = << >>
    /\ treated = [v \in Vehicles |-> "unknown"]

-----------------------------------------------------------------------------
Own(srm) == SelectSeq(srm, LAMBDA r : r.ours)

(* memcpy of the matching requests to the front of the array: what an      *)
(* earlier, longer SRM left behind them stays.                             *)
Stored(old, own) ==
    [i \in DOMAIN old |-> IF i <= Len(own) THEN own[i].type ELSE old[i]]

NewEntry(v) ==
    [vehicle |-> v, age |-> 0, count |-> 0,
     requests |-> [i \in 1..(MaxRequests + 1) |-> "reserved"]]

(* SPM_OBU_obj_insert                                                      *)
Update(e, own) == [e EXCEPT !.age = 0, !.count = Len(own), !.requests = Stored(@, own)]

SPM_OBU_obj_insert(v, own) ==
    LET known == {i \in DOMAIN list : list[i].vehicle = v} IN
    IF known = {}
    THEN <<Update(NewEntry(v), own)>> \o list
    ELSE [i \in DOMAIN list |-> IF i \in known THEN Update(list[i], own) ELSE list[i]]

(* SPM_on_OBU_packet_rx, up to the insertion; a message without a request  *)
(* for this intersection ends here.                                        *)
SPM_on_OBU_packet_rx(v, srm) ==
    /\ disp = "idle"
    /\ IF Own(srm) = << >>
       THEN UNCHANGED <<list, disp>>
       ELSE /\ list' = SPM_OBU_obj_insert(v, Own(srm))
            /\ disp' = "start"
    /\ UNCHANGED <<thread, repeater, round, treated>>

(* SPM_repeater_start: with a thread noted, at most its timer is set to    *)
(* expire at once.                                                         *)
SPM_repeater_start ==
    /\ disp = "start"
    /\ disp' = "idle"
    /\ thread' = TRUE
    /\ repeater' = IF thread THEN repeater ELSE "wait"
    /\ UNCHANGED <<list, round, treated>>

-----------------------------------------------------------------------------
(* The repeater thread.  The loop over requests runs up to and including   *)
(* sigRequest_count.                                                       *)
Answer(status, e, j) ==
    LET kind == e.requests[j]
        state == treated[e.vehicle]
        granted == \E k \in DOMAIN status : status[k].status = "granted"
        answer == CASE kind = "request" -> "requested"
                    [] state = "granted" /\ granted -> "reserviceLocked"
                    [] OTHER -> state
    IN IF kind \in {"reserved", "cancel"} \/ (kind = "update" /\ state = "unknown")
          \/ Len(status) = StatusMax
       THEN status
       ELSE Append(status, [vehicle |-> e.vehicle, status |-> answer])

Answers(status, e) ==
    FoldLeft(LAMBDA s, j : Answer(s, e, j), status, [j \in 1..(e.count + 1) |-> j])

(* Times are kept as the age of an entry: now - time_second.               *)
Expired(e) == e.age > Expiry

(* One vehicle of the list: a full status is followed by a new one, an     *)
(* expired entry is deleted.                                               *)
Visit(acc, e) ==
    LET open == IF acc = << >> \/ Len(Last(acc)) = StatusMax
                THEN Append(acc, << >>) ELSE acc
    IN IF Expired(e) THEN open
       ELSE [open EXCEPT ![Len(open)] = Answers(@, e)]

Statuses(entries) ==
    LET all == FoldLeft(Visit, << >>, entries) IN
    IF all # << >> /\ Last(all) = << >> THEN Front(all) ELSE all

(* A period is over: a round, under SPM_OBU_obj_mutex.                     *)
SPM_repeater ==
    /\ repeater = "wait"
    /\ list' = SelectSeq(list, LAMBDA e : ~Expired(e))
    /\ round' = Statuses(list)
    /\ repeater' = IF round' = << >> THEN "end" ELSE "send"
    /\ UNCHANGED <<thread, disp, treated>>

(* OBU_j2735_tx of every message of the round                              *)
SendRound ==
    /\ repeater = "send"
    /\ round' = << >>
    /\ repeater' = "wait"
    /\ UNCHANGED <<list, thread, disp, treated>>

\* Mutant: the thread ends without resetting SPM_repeater_thread.
SPM_repeater_end_forgets ==
    /\ repeater = "end"
    /\ repeater' = "off"
    /\ UNCHANGED <<list, thread, disp, round, treated>>

(* SPM_repeater_end, under SPM_repeater_run_mutex                          *)
SPM_repeater_end ==
    /\ repeater = "end"
    /\ thread' = FALSE
    /\ repeater' = "off"
    /\ UNCHANGED <<list, disp, round, treated>>

Repeater == SPM_repeater \/ SendRound \/ SPM_repeater_end

(* External: the priority applications and the clock.                      *)
Treat(v, t) ==
    /\ treated' = [treated EXCEPT ![v] = t]
    /\ UNCHANGED <<list, thread, repeater, disp, round>>

Tick ==
    /\ list' = [i \in DOMAIN list |->
                   [list[i] EXCEPT !.age = IF @ > Expiry THEN @ ELSE @ + 1]]
    /\ UNCHANGED <<thread, repeater, disp, round, treated>>

Next ==
    \/ \E v \in Vehicles, srm \in SRMs : SPM_on_OBU_packet_rx(v, srm)
    \/ SPM_repeater_start
    \/ Repeater
    \/ \E v \in Vehicles, t \in Treatments : Treat(v, t)
    \/ Tick

-----------------------------------------------------------------------------
TypeOK ==
    /\ list \in Seq(Entries)
    /\ thread \in BOOLEAN
    /\ repeater \in {"off", "wait", "send", "end"}
    /\ disp \in {"idle", "start"}
    /\ treated \in [Vehicles -> Treatments]

\* A vehicle is listed once, however often and in whatever order it asks.
ListedOnce ==
    \A i, j \in DOMAIN list : list[i].vehicle = list[j].vehicle => i = j

\* The note SPM_repeater_thread and the thread agree, so that there is never a
\* second repeater: what the start and the end of the thread do to it under
\* SPM_repeater_run_mutex.
OneRepeater == thread <=> repeater # "off"

\* No status grants two requests: the second one is locked out, although the
\* treatment of vehicles changes while the round is put together (the loop over
\* k in SPM_repeater).
OneGrant ==
    \A s \in Range(round) : \A j, k \in DOMAIN s :
        s[j].status = "granted" /\ s[k].status = "granted" => j = k

\* No status holds more answers than the message has room for, and only
\* the last one has room left.
FullButLast ==
    \A i \in DOMAIN round :
        /\ Len(round[i]) \in 1..StatusMax
        /\ i < Len(round) => Len(round[i]) = StatusMax

AnswersRight == TypeOK /\ ListedOnce /\ OneRepeater /\ OneGrant /\ FullButLast

Answered(v) ==
    repeater = "send" /\ \E s \in Range(round) : \E k \in DOMAIN s : s[k].vehicle = v

Asks(v) ==
    \E i \in DOMAIN list : list[i].vehicle = v /\ list[i].requests[1] = "request"

\* A vehicle that keeps asking is answered again and again, though a request may
\* meet a thread that has just decided to end and is then left alone until the
\* vehicle asks again (SPM_repeater_start).  Stated for a list that fits into one status.
AskersAnswered ==
    \A v \in Vehicles :
        ([]<>(disp = "start" /\ Asks(v)) /\ <>[]Asks(v)) => []<>Answered(v)
=============================================================================
