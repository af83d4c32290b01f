--------------------------------- MODULE EVSP --------------------------------
(***************************************************************************)
(* Signal priority for emergency vehicles (src/application/EVSP/src: EVSP.c,*)
(* EVSP_OBU_list.c, EVSP_timer_event.c, EVSP_subphase_threshold.c).  Three *)
(* kinds of threads share the lists: the dispatcher, which handles the     *)
(* vehicles' packets; a packet timer and a list timer of every listed      *)
(* vehicle; and the activation thread, which looks at the activated        *)
(* vehicles once a second.  Each list has a mutex, held for one call; a    *)
(* handler keeps its pointer to a vehicle's object across the calls.       *)
(*                                                                         *)
(* Where a packet lies is an input: the touching area it touches under the *)
(* plan in force (EVSP_activate) and whether it lies in a terminating area *)
(* of the vehicle's own touching area (EVSP_terminate).  What is read of   *)
(* the controller (plan, phase, step) may have changed at every reading    *)
(* and is an input too: control_subphaseID is kept as whether a command    *)
(* was inserted, and a reading says whether the phase is still that one.   *)
(* The seconds a command asks for are in EVSPOptimization.  The requests   *)
(* for the message sign and the number of activated vehicles are written   *)
(* here and never read; they belong to MessageSigns and CommandBuffer.     *)
(* An access through a null or a freed pointer ends the program.           *)
(***************************************************************************)
EXTENDS Naturals, Sequences

CONSTANTS
    Vehicles,      \* OBU names
    Areas,         \* touching areas
    PhaseOf,       \* touching area -> its target phase
    Threshold      \* touching_threshold

EVSPAssumption ==
    /\ Threshold \in Nat \ {0}
    /\ DOMAIN PhaseOf = Areas
    /\ \A a \in Areas : PhaseOf[a] \in 1..8
    /\ "none" \notin Vehicles

VARIABLES
    hosts,      \* EVSP_host_OBU_list: name, area, is_activate, touched_amount,
                \* and whether one of its timeout handlers has started
    actives,    \* the list at activate_OBU_head: name, phase, controlled
    noted,      \* activate_OBU.activate_thread # 0
    list_len,   \* activate_OBU.list_len
    thread,     \* where the activation thread is
    old_len,    \* its old_list_len
    disp,       \* the dispatcher: where it is, and with which vehicle
    checks,     \* the phases for which a handler is about to call
                \* EVSP_host_OBU_obj_resume
    owed,       \* history: a command was inserted and control not resumed since
    crashed

vars == <<hosts, actives, noted, list_len, thread, old_len, disp, checks, owed, crashed>>
activation == <<actives, noted, list_len, thread, old_len>>

Idle == [at |-> "idle", vehicle |-> "none"]

Init ==
    /\ hosts = << >> /\ actives = << >>
    /\ noted = FALSE /\ list_len = 0
    /\ thread = "off" /\ old_len = 0
    /\ disp = Idle
    /\ checks = {}
    /\ owed = FALSE
    /\ crashed = FALSE

(* The program ends, and with it all its state.                            *)
Crash ==
    /\ crashed' = TRUE
    /\ hosts' = << >> /\ actives' = << >>
    /\ noted' = FALSE /\ list_len' = 0
    /\ thread' = "off" /\ old_len' = 0
    /\ disp' = Idle
    /\ checks' = {}
    /\ owed' = FALSE

-----------------------------------------------------------------------------
(* The host list.  A vehicle's position in it; 0: not listed.              *)
EVSP_host_OBU_obj_search(v) ==
    LET found == {i \in DOMAIN hosts : hosts[i].name = v}
    IN IF found = {} THEN 0 ELSE CHOOSE i \in found : TRUE

EVSP_host_OBU_obj_new(v, area) ==
    [name |-> v, area |-> area, is_activate |-> 0, touched_amount |-> 0, fired |-> FALSE]

(* Counts that reach the threshold with the next touch are not told apart. *)
EVSP_host_OBU_obj_update(host, is_touching, is_activate) ==
    [host EXCEPT !.touched_amount = IF is_touching /\ @ < Threshold - 1 THEN @ + 1 ELSE @,
                 !.is_activate = IF is_activate = 0 THEN @ ELSE is_activate]

EVSP_host_OBU_obj_insert(v, area, is_activate) ==
    LET i == EVSP_host_OBU_obj_search(v) IN
    IF i = 0
    THEN Append(hosts, EVSP_host_OBU_obj_update(EVSP_host_OBU_obj_new(v, area), TRUE, is_activate))
    ELSE [hosts EXCEPT ![i] = EVSP_host_OBU_obj_update(@, TRUE, is_activate)]

EVSP_host_OBU_obj_delete(v) ==
    LET gone == EVSP_host_OBU_obj_search(v)
    IN [i \in 1..(Len(hosts) - 1) |-> hosts[IF i < gone THEN i ELSE i + 1]]

(* No other listed vehicle wants the phase.                                *)
EVSP_host_OBU_obj_resume(p) == \A i \in DOMAIN hosts : PhaseOf[hosts[i].area] # p

-----------------------------------------------------------------------------
(* EVSP_OBU_activation_timer_start.  The head of the list may have gone    *)
(* while the thread is still noted.                                        *)
StartCrashes == noted /\ actives = << >>

Refused(host) ==
    /\ noted
    /\ \/ actives[1].phase # PhaseOf[host.area]
       \/ \E i \in DOMAIN actives : actives[i].name = host.name

EVSP_OBU_activation_timer_start(host) ==
    LET node == [name |-> host.name, phase |-> PhaseOf[host.area], controlled |-> FALSE] IN
    IF Refused(host) THEN UNCHANGED activation
    ELSE /\ actives' = IF noted THEN Append(actives, node) ELSE <<node>>
         /\ list_len' = list_len + 1
         /\ noted' = TRUE
         /\ thread' = IF noted THEN thread ELSE "wait"
         /\ old_len' = IF noted THEN old_len ELSE 0

(* EVSP_OBU_activation_time_end only tells what to do with the sign, but   *)
(* it takes the mutex of a head that need not be there.                    *)
EndCrashes == actives = << >>

(* The activation thread holds the activation mutex between its two steps. *)
ActivationFree == thread # "optimise"

-----------------------------------------------------------------------------
(* A packet of a vehicle that is not listed: nobody else lists vehicles,   *)
(* so it is one step.  SubPhaseID 0, a plan without a table, no area       *)
(* touched or an area that cools down: nothing happens.  (Whether          *)
(* cooling_time is over is a matter of time, so the cooling list excludes  *)
(* nothing here.)                                                          *)
NewTouches(v, area) ==
    /\ disp = Idle
    /\ EVSP_host_OBU_obj_search(v) = 0
    /\ hosts' = EVSP_host_OBU_obj_insert(v, area, 1)
    /\ UNCHANGED <<activation, disp, checks, owed, crashed>>

(* A packet of a listed vehicle: EVSP_on_OBU_packet_rx up to the search,   *)
(* which updates the object with is_touching still uninitialised.          *)
EVSP_on_OBU_packet_rx(v, garbage) ==
    LET i == EVSP_host_OBU_obj_search(v) IN
    /\ disp = Idle
    /\ i # 0
    /\ hosts' = [hosts EXCEPT ![i] = EVSP_host_OBU_obj_update(@, garbage, 0)]
    /\ disp' = [at |-> "known", vehicle |-> v]
    /\ UNCHANGED <<activation, checks, owed, crashed>>

(* SubPhaseID 0, or no area touched and none terminating: the packet is    *)
(* done with.                                                              *)
PacketDone ==
    /\ disp.at = "known"
    /\ disp' = Idle
    /\ UNCHANGED <<hosts, activation, checks, owed, crashed>>

(* The object of the dispatcher's vehicle, unless a timeout has freed it.  *)
Known(at) == disp.at = at /\ EVSP_host_OBU_obj_search(disp.vehicle) # 0
Host == hosts[EVSP_host_OBU_obj_search(disp.vehicle)]

(* A vehicle touches again: counted, or activated.                         *)
TouchesAgain(area) ==
    LET enough == Host.touched_amount + 1 >= Threshold IN
    /\ Known("known") /\ Host.is_activate = 1
    /\ hosts' = EVSP_host_OBU_obj_insert(disp.vehicle, area, IF enough THEN 2 ELSE 1)
    /\ disp' = IF enough THEN [disp EXCEPT !.at = "activate"] ELSE Idle
    /\ UNCHANGED <<activation, checks, owed, crashed>>

(* An activated vehicle joins the activation, at once or with a later      *)
(* packet.                                                                 *)
Activate ==
    /\ Known("activate") \/ (Known("known") /\ Host.is_activate = 2)
    /\ ActivationFree
    /\ IF StartCrashes THEN Crash
       ELSE /\ EVSP_OBU_activation_timer_start(Host)
            /\ disp' = Idle
            /\ UNCHANGED <<hosts, checks, owed, crashed>>

(* A terminating area.  A timeout handler that has started is left with a  *)
(* freed object and ends the program when it goes on; what others still do *)
(* before that is left out.                                                *)
Terminate ==
    /\ Known("known")
    /\ ActivationFree
    /\ IF EndCrashes \/ Host.fired THEN Crash
       ELSE /\ hosts' = EVSP_host_OBU_obj_delete(disp.vehicle)
            /\ checks' = checks \union {PhaseOf[Host.area]}
            /\ disp' = Idle
            /\ UNCHANGED <<activation, owed, crashed>>

(* The object went while the dispatcher had its pointer.                   *)
DispatcherDangles ==
    /\ disp.at \in {"known", "activate"}
    /\ EVSP_host_OBU_obj_search(disp.vehicle) = 0
    /\ Crash

Dispatcher ==
    \/ PacketDone
    \/ \E a \in Areas : TouchesAgain(a)
    \/ Activate \/ Terminate \/ DispatcherDangles

-----------------------------------------------------------------------------
(* A timer of a listed vehicle runs out and its handler starts.  If the    *)
(* handler of its other timer has started too, one of them will go on with *)
(* an object the other has freed.                                          *)
TimerFires(i) ==
    IF hosts[i].fired THEN Crash
    ELSE /\ hosts' = [hosts EXCEPT ![i].fired = TRUE]
         /\ UNCHANGED <<activation, disp, checks, owed, crashed>>

\* Mutant: a vehicle that is lost is forgotten without resuming control.
TimeoutForgetsResume(i) ==
    /\ hosts[i].fired
    /\ hosts' = EVSP_host_OBU_obj_delete(hosts[i].name)
    /\ UNCHANGED <<activation, disp, checks, owed, crashed>>

(* The packet and the list timeout handler are the same code.              *)
EVSP_host_OBU_timeout_timer_handler(i) ==
    /\ hosts[i].fired
    /\ hosts' = EVSP_host_OBU_obj_delete(hosts[i].name)
    /\ checks' = checks \union {PhaseOf[hosts[i].area]}
    /\ UNCHANGED <<activation, disp, owed, crashed>>

(* Where a vehicle went, by a packet or a timeout: command_buf_resume_control *)
(* if nobody wants its phase.                                              *)
Resume(p) ==
    /\ owed' = (owed /\ ~EVSP_host_OBU_obj_resume(p))
    /\ checks' = checks \ {p}
    /\ UNCHANGED <<hosts, activation, disp, crashed>>

-----------------------------------------------------------------------------
(* EVSP_OBU_activation_timer, a second later: heads that are not listed    *)
(* any more are dropped; without a plan, or after the last one, it ends.   *)
Listed == {hosts[i].name : i \in DOMAIN hosts}

Dropped(n) ==
    /\ \A i \in 1..n : actives[i].name \notin Listed
    /\ n < Len(actives) => actives[n + 1].name \in Listed

EVSP_OBU_activation_timer(plan, same) ==
    /\ thread = "wait"
    /\ IF ~plan
       THEN thread' = "ending" /\ UNCHANGED <<actives, list_len>>
       ELSE \E n \in 0..Len(actives) :
            /\ Dropped(n)
            /\ actives' = SubSeq(actives, n + 1, Len(actives))
            /\ list_len' = list_len - n
            /\ thread' = IF n = Len(actives) THEN "ending"
                         ELSE IF \/ n > 0 \/ list_len' # old_len
                                 \/ ~(actives[n + 1].controlled /\ same) THEN "optimise"
                         ELSE "wait"
    /\ UNCHANGED <<hosts, noted, old_len, disp, checks, owed, crashed>>

(* All activated vehicles are asked (EVSP_optimization, only in step 1): a *)
(* vehicle behind the head that is not listed any more is a null pointer.  *)
Optimise(step1, inserted) ==
    /\ thread = "optimise"
    /\ IF step1 /\ \E i \in DOMAIN actives : actives[i].name \notin Listed THEN Crash
       ELSE /\ actives' = IF step1 /\ inserted
                          THEN [i \in DOMAIN actives |-> [actives[i] EXCEPT !.controlled = TRUE]]
                          ELSE actives
            /\ owed' = (owed \/ (step1 /\ inserted))
            /\ old_len' = list_len
            /\ thread' = "wait"
            /\ UNCHANGED <<hosts, noted, list_len, disp, checks, crashed>>

(* thread_end, which takes the mutex anew                                  *)
ThreadEnds ==
    /\ thread = "ending"
    /\ thread' = "off"
    /\ noted' = FALSE
    /\ list_len' = 0
    /\ old_len' = 0
    /\ UNCHANGED <<hosts, actives, disp, checks, owed, crashed>>

Activation ==
    \/ \E plan, same \in BOOLEAN : EVSP_OBU_activation_timer(plan, same)
    \/ \E step1, inserted \in BOOLEAN : Optimise(step1, inserted)
    \/ ThreadEnds

Next ==
    /\ ~crashed
    /\ \/ \E v \in Vehicles, a \in Areas : NewTouches(v, a)
       \/ \E v \in Vehicles, garbage \in BOOLEAN : EVSP_on_OBU_packet_rx(v, garbage)
       \/ Dispatcher
       \/ \E i \in DOMAIN hosts : TimerFires(i) \/ EVSP_host_OBU_timeout_timer_handler(i)
       \/ \E p \in checks : Resume(p)
       \/ Activation

Spec == Init /\ [][Next]_vars

-----------------------------------------------------------------------------
TypeOK ==
    /\ hosts \in Seq([name : Vehicles, area : Areas, is_activate : 1..2,
                      touched_amount : 0..Threshold, fired : BOOLEAN])
    /\ actives \in Seq([name : Vehicles, phase : 1..8, controlled : BOOLEAN])
    /\ noted \in BOOLEAN /\ owed \in BOOLEAN
    /\ thread \in {"off", "wait", "optimise", "ending"}
    /\ list_len \in Nat

\* Neither list names a vehicle twice, although a timed-out vehicle may come back
\* before the activation thread has noticed that it was gone.
ListedOnce ==
    /\ \A i, j \in DOMAIN hosts : hosts[i].name = hosts[j].name => i = j
    /\ \A i, j \in DOMAIN actives : actives[i].name = actives[j].name => i = j

\* The vehicles served at one time all want the same phase: the thread makes one
\* command out of what all of them ask.
ServedTogether == \A i, j \in DOMAIN actives : actives[i].phase = actives[j].phase

\* activate_thread and list_len agree with the thread and its list, although the
\* thread decides to end under one lock and notes its end under another.
ThreadNoted ==
    /\ noted <=> thread # "off"
    /\ thread \in {"wait", "optimise"} => actives # << >> /\ list_len = Len(actives)

\* A change of the signal for an emergency vehicle is owed a RESUME, and as long as
\* it is owed there is somebody to call it: a listed vehicle or a handler that is
\* about to look, with any order of the terminating packet and the timeouts.
ResumeOwed == owed => hosts # << >> \/ checks # {}

PriorityKept == TypeOK /\ ListedOnce /\ ServedTogether /\ ThreadNoted /\ ResumeOwed

\* Once the last vehicle is gone for good the activation thread comes to its end,
\* however often it was started before (EVSP_OBU_activation_timer, thread_end).
ActivationEnds == <>[](hosts = << >>) => <>[]~noted
=============================================================================
