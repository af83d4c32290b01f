--------------------------- MODULE ApplicationProofs ---------------------------
(***************************************************************************)
(* The applications, for any of them: what the dispatcher, the timers and  *)
(* the activation thread of EVSP (src/application/EVSP/src) leave in the   *)
(* two lists they share; the registry of applications and its callback     *)
(* lists (src/src/application_registration.c), walked without their lock;  *)
(* the links of the proxy for external applications                        *)
(* (src/src/external_app_proxy_server.c), whose descriptors the kernel     *)
(* uses again and whose heartbeat counters wrap; the list of buses of TSP  *)
(* (src/application/TSP/src) and their commands.                           *)
(***************************************************************************)
EXTENDS EVSP, AppRegistry, AppProxy, TSP, SequenceTheorems, WellFoundedInduction, TLAPS

(* Every nonempty set of naturals has a least element, which Min returns.  *)
LEMMA MinOfNats ==
    ASSUME NEW S \in SUBSET Nat, S # {}
    PROVE  Min(S) \in S /\ \A y \in S : Min(S) <= y
  <1> DEFINE less == OpToRel(<, Nat)
  <1>1. IsWellFoundedOn(less, Nat)
    BY NatLessThanWellFounded
  <1>2. less = {ss \in Nat \X Nat : ss[1] < ss[2]}
    BY Zenon DEF OpToRel
  <1> HIDE DEF less
  <1>3. PICK x \in S : \A y \in S : ~(<<y, x>> \in less)
    BY <1>1, WFMin
  <1>4. ASSUME NEW y \in S PROVE x <= y
    <2>1. y \in Nat /\ x \in Nat /\ <<y, x>> \notin less
      BY <1>3
    <2>2. <<y, x>> \in Nat \X Nat
      BY <2>1
    <2>3. ~(y < x)
      BY <1>2, <2>1, <2>2
    <2> QED BY <2>1, <2>3
  <1> QED BY <1>4 DEF Min

-----------------------------------------------------------------------------
(* Emergency vehicles (EVSP).                                              *)

(* A list nobody is noted for has no length.                               *)
LengthNoted == noted \/ list_len = 0

HostRecord == [name : Vehicles, area : Areas, is_activate : 1..2,
               touched_amount : 0..Threshold, fired : BOOLEAN]
ActiveRecord == [name : Vehicles, phase : 1..8, controlled : BOOLEAN]

(* The two lists, each on its own.                                         *)
HostsRight(list) ==
    /\ list \in Seq(HostRecord)
    /\ \A i, j \in DOMAIN list : list[i].name = list[j].name => i = j
ActivesRight(list) ==
    /\ list \in Seq(ActiveRecord)
    /\ \A i, j \in DOMAIN list : list[i].name = list[j].name => i = j
    /\ \A i, j \in DOMAIN list : list[i].phase = list[j].phase

(* The activation's list, its length and its thread.                       *)
ActivationRight ==
    /\ ActivesRight(actives)
    /\ noted \in BOOLEAN
    /\ thread \in {"off", "wait", "optimise", "ending"}
    /\ list_len \in Nat
    /\ ThreadNoted /\ LengthNoted

(* The inductive invariant: PriorityKept by the parts a step disturbs.     *)
(* ThreadNoted counts from list_len, so it needs the length from which the *)
(* next activation starts.                                                 *)
EVSPInv == HostsRight(hosts) /\ ActivationRight /\ owed \in BOOLEAN /\ ResumeOwed

LEMMA InvImplies == EVSPInv => PriorityKept
  BY DEF EVSPInv, PriorityKept, TypeOK, ListedOnce, ServedTogether, HostsRight, ActivesRight,
         ActivationRight, HostRecord, ActiveRecord

-----------------------------------------------------------------------------
(* The search finds the vehicle, or nobody has its name.                   *)
LEMMA SearchFinds ==
    ASSUME HostsRight(hosts), NEW v
    PROVE  /\ EVSP_host_OBU_obj_search(v) = 0 =>
                  \A i \in DOMAIN hosts : hosts[i].name # v
           /\ EVSP_host_OBU_obj_search(v) # 0 =>
                  /\ EVSP_host_OBU_obj_search(v) \in 1..Len(hosts)
                  /\ hosts[EVSP_host_OBU_obj_search(v)].name = v
  <1> DEFINE found == {i \in DOMAIN hosts : hosts[i].name = v}
  <1>1. DOMAIN hosts = 1..Len(hosts) /\ Len(hosts) \in Nat
    BY DEF HostsRight
  <1>2. CASE found = {}
    <2>1. EVSP_host_OBU_obj_search(v) = 0
      BY <1>2 DEF EVSP_host_OBU_obj_search
    <2> QED BY <1>2, <2>1
  <1>3. CASE found # {}
    <2>1. EVSP_host_OBU_obj_search(v) = CHOOSE i \in found : TRUE
      BY <1>3 DEF EVSP_host_OBU_obj_search
    <2>2. EVSP_host_OBU_obj_search(v) \in found
      BY <1>3, <2>1
    <2> QED BY <1>1, <2>2
  <1> QED BY <1>2, <1>3

(* An update keeps an object's type and whose it is.                       *)
LEMMA UpdateKeeps ==
    ASSUME EVSPAssumption, NEW h \in HostRecord, NEW touching \in BOOLEAN, NEW a \in 0..2
    PROVE  /\ EVSP_host_OBU_obj_update(h, touching, a) \in HostRecord
           /\ EVSP_host_OBU_obj_update(h, touching, a).name = h.name
  <1> DEFINE count == IF touching /\ h.touched_amount < Threshold - 1
                      THEN h.touched_amount + 1 ELSE h.touched_amount
             state == IF a = 0 THEN h.is_activate ELSE a
             new == [h EXCEPT !.touched_amount = count, !.is_activate = state]
  <1>1. h.touched_amount \in 0..Threshold /\ h.is_activate \in 1..2 /\ Threshold \in Nat
    BY DEF HostRecord, EVSPAssumption
  <1>2. count \in 0..Threshold /\ state \in 1..2
    BY <1>1
  <1>3. EVSP_host_OBU_obj_update(h, touching, a) = new
    BY Zenon DEF EVSP_host_OBU_obj_update
  <1> HIDE DEF count, state
  <1>4. new \in HostRecord /\ new.name = h.name
    BY <1>2 DEF HostRecord
  <1> QED BY <1>3, <1>4

(* A new object, counted and activated by the packet it comes with: the    *)
(* threshold may be 1.                                                     *)
LEMMA NewObject ==
    ASSUME EVSPAssumption, NEW v \in Vehicles, NEW area \in Areas
    PROVE  LET h == EVSP_host_OBU_obj_update(EVSP_host_OBU_obj_new(v, area), TRUE, 1)
           IN h \in HostRecord /\ h.name = v
  <1> DEFINE old == EVSP_host_OBU_obj_new(v, area)
             count == IF TRUE /\ old.touched_amount < Threshold - 1
                      THEN old.touched_amount + 1 ELSE old.touched_amount
             state == IF 1 = 0 THEN old.is_activate ELSE 1
             new == [old EXCEPT !.touched_amount = count, !.is_activate = state]
  <1>1. EVSP_host_OBU_obj_update(old, TRUE, 1) = new
    BY Zenon DEF EVSP_host_OBU_obj_update
  <1>2. count \in 0..Threshold /\ state \in 1..2
    BY DEF EVSP_host_OBU_obj_new, EVSPAssumption
  <1>3. old \in [name : Vehicles, area : Areas, is_activate : {0},
                 touched_amount : {0}, fired : BOOLEAN] /\ old.name = v
    BY DEF EVSP_host_OBU_obj_new
  <1> HIDE DEF old, count, state
  <1>4. new \in HostRecord /\ new.name = v
    BY <1>2, <1>3 DEF HostRecord
  <1> QED BY <1>1, <1>4 DEF old

(* Updating an object in its place keeps the list.                         *)
LEMMA ReplaceKeeps ==
    ASSUME HostsRight(hosts), NEW i \in DOMAIN hosts, NEW h \in HostRecord,
           h.name = hosts[i].name
    PROVE  HostsRight([hosts EXCEPT ![i] = h]) /\ [hosts EXCEPT ![i] = h] # << >>
  <1> DEFINE new == [hosts EXCEPT ![i] = h]
  <1>1. new \in Seq(HostRecord) /\ Len(new) = Len(hosts) /\ DOMAIN new = DOMAIN hosts
    BY DEF HostsRight
  <1>2. \A j \in DOMAIN hosts : new[j].name = hosts[j].name
    BY DEF HostsRight
  <1>3. new # << >>
    BY <1>1
  <1> QED BY <1>1, <1>2, <1>3 DEF HostsRight

(* Deleting a listed vehicle's object moves those behind it one forward.   *)
LEMMA DeleteKeeps ==
    ASSUME HostsRight(hosts), NEW v, EVSP_host_OBU_obj_search(v) # 0
    PROVE  HostsRight(EVSP_host_OBU_obj_delete(v))
  <1> DEFINE gone == EVSP_host_OBU_obj_search(v)
             from(i) == IF i < gone THEN i ELSE i + 1
             new == [i \in 1..(Len(hosts) - 1) |-> hosts[from(i)]]
  <1>1. gone \in 1..Len(hosts) /\ Len(hosts) \in Nat
    BY SearchFinds DEF HostsRight
  <1>2. \A i \in 1..(Len(hosts) - 1) : from(i) \in 1..Len(hosts)
    BY <1>1
  <1>3. \A i, j \in 1..(Len(hosts) - 1) : from(i) = from(j) => i = j
    BY <1>1
  <1>4. DOMAIN hosts = 1..Len(hosts) /\ \A i \in 1..Len(hosts) : hosts[i] \in HostRecord
    BY DEF HostsRight
  <1> HIDE DEF from, gone
  <1>5. new \in Seq(HostRecord) /\ DOMAIN new = 1..(Len(hosts) - 1)
    BY <1>1, <1>2, <1>4
  <1>6. ASSUME NEW i \in DOMAIN new, NEW j \in DOMAIN new, new[i].name = new[j].name
        PROVE  i = j
    <2>1. hosts[from(i)].name = hosts[from(j)].name
      BY <1>5, <1>6
    <2>2. from(i) \in DOMAIN hosts /\ from(j) \in DOMAIN hosts
      BY <1>2, <1>4, <1>5
    <2>3. from(i) = from(j)
      BY <2>1, <2>2 DEF HostsRight
    <2> QED BY <1>3, <1>5, <2>3
  <1>7. EVSP_host_OBU_obj_delete(v) = new
    BY DEF EVSP_host_OBU_obj_delete, from, gone
  <1> QED BY <1>5, <1>6, <1>7 DEF HostsRight

(* A vehicle is listed behind the others only when it is not yet listed.   *)
LEMMA AppendKeeps ==
    ASSUME HostsRight(hosts), NEW h \in HostRecord,
           EVSP_host_OBU_obj_search(h.name) = 0
    PROVE  HostsRight(Append(hosts, h)) /\ Append(hosts, h) # << >>
  <1>1. \A i \in DOMAIN hosts : hosts[i].name # h.name
    BY SearchFinds
  <1>2. /\ hosts \in Seq(HostRecord) /\ Len(hosts) \in Nat /\ DOMAIN hosts = 1..Len(hosts)
        /\ \A i, j \in DOMAIN hosts : hosts[i].name = hosts[j].name => i = j
    BY DEF HostsRight
  <1> DEFINE new == Append(hosts, h)
  <1>3. /\ new \in Seq(HostRecord) /\ Len(new) = Len(hosts) + 1
        /\ DOMAIN new = 1..(Len(hosts) + 1)
        /\ \A i \in 1..Len(hosts) : new[i] = hosts[i]
        /\ new[Len(hosts) + 1] = h
    BY <1>2
  <1> HIDE DEF new
  <1>4. ASSUME NEW i \in DOMAIN new, NEW j \in DOMAIN new, new[i].name = new[j].name
        PROVE  i = j
    BY <1>1, <1>2, <1>3, <1>4
  <1>5. new # << >>
    BY <1>2, <1>3
  <1> QED BY <1>3, <1>4, <1>5 DEF HostsRight, new

(* Where the list has a vehicle there is one to call the RESUME.           *)
LEMMA FoundNotEmpty ==
    ASSUME HostsRight(hosts), NEW v, EVSP_host_OBU_obj_search(v) # 0
    PROVE  /\ hosts # << >>
           /\ EVSP_host_OBU_obj_search(v) \in DOMAIN hosts
           /\ hosts[EVSP_host_OBU_obj_search(v)] \in HostRecord
  BY SearchFinds DEF HostsRight

(* A step that keeps what the activation shares.                           *)
LEMMA ActivationKept ==
    ASSUME ActivationRight, UNCHANGED activation
    PROVE  ActivationRight'
  BY DEF ActivationRight, activation, ActivesRight, ThreadNoted, LengthNoted

(* Ending the program ends everything.                                     *)
LEMMA CrashStep ==
    ASSUME Crash
    PROVE  EVSPInv'
  <1>1. HostsRight(<< >>) /\ ActivesRight(<< >>)
    BY DEF HostsRight, ActivesRight
  <1> QED BY <1>1 DEF Crash, EVSPInv, ActivationRight, ThreadNoted, ResumeOwed, LengthNoted

-----------------------------------------------------------------------------
(* What arrives, times out or is looked after leaves the activation alone. *)
LEMMA NewTouchesStep ==
    ASSUME EVSPAssumption, EVSPInv, NEW v \in Vehicles, NEW a \in Areas, NewTouches(v, a)
    PROVE  EVSPInv'
  <1> DEFINE h == EVSP_host_OBU_obj_update(EVSP_host_OBU_obj_new(v, a), TRUE, 1)
  <1>1. h \in HostRecord /\ h.name = v
    BY NewObject
  <1>2. hosts' = Append(hosts, h)
    BY DEF NewTouches, EVSP_host_OBU_obj_insert
  <1>3. HostsRight(hosts') /\ hosts' # << >>
    BY <1>1, <1>2, AppendKeeps DEF NewTouches, EVSPInv
  <1>4. ActivationRight'
    BY ActivationKept DEF NewTouches, EVSPInv
  <1> QED BY <1>3, <1>4 DEF NewTouches, ResumeOwed, EVSPInv

(* The object of a listed vehicle is written in its place.                 *)
LEMMA ObjectStep ==
    ASSUME EVSPAssumption, EVSPInv, NEW i \in DOMAIN hosts, NEW h \in HostRecord,
           h.name = hosts[i].name, hosts' = [hosts EXCEPT ![i] = h],
           UNCHANGED <<activation, owed>>
    PROVE  EVSPInv'
  <1>1. HostsRight(hosts') /\ hosts' # << >>
    BY ReplaceKeeps DEF EVSPInv
  <1>2. ActivationRight'
    BY ActivationKept DEF EVSPInv
  <1> QED BY <1>1, <1>2 DEF ResumeOwed, EVSPInv

(* A vehicle goes, and its phase is looked at next.                        *)
LEMMA GoneStep ==
    ASSUME EVSPInv, NEW v, EVSP_host_OBU_obj_search(v) # 0,
           hosts' = EVSP_host_OBU_obj_delete(v), checks' # {}, UNCHANGED <<activation, owed>>
    PROVE  EVSPInv'
  <1>1. HostsRight(hosts')
    BY DeleteKeeps DEF EVSPInv
  <1>2. ActivationRight'
    BY ActivationKept DEF EVSPInv
  <1> QED BY <1>1, <1>2 DEF ResumeOwed, EVSPInv

(* A RESUME is due no more when nobody wants the phase; else somebody is   *)
(* listed.                                                                 *)
LEMMA ResumeStep ==
    ASSUME EVSPInv, NEW p \in checks, Resume(p)
    PROVE  EVSPInv'
  <1>1. HostsRight(hosts') /\ owed' \in BOOLEAN
    BY DEF Resume, EVSPInv
  <1>2. ActivationRight'
    BY ActivationKept DEF Resume, EVSPInv
  <1>3. ResumeOwed'
    <2>1. hosts = << >> => EVSP_host_OBU_obj_resume(p)
      BY DEF EVSP_host_OBU_obj_resume
    <2>2. hosts' = hosts /\ (owed' => ~EVSP_host_OBU_obj_resume(p))
      BY Zenon DEF Resume
    <2> QED BY Zenon, <2>1, <2>2 DEF ResumeOwed
  <1> QED BY <1>1, <1>2, <1>3 DEF EVSPInv

-----------------------------------------------------------------------------
(* The dispatcher, with the vehicle it looks after.                        *)
LEMMA StartStep ==
    ASSUME EVSPAssumption, EVSPInv, NEW h \in HostRecord, ~StartCrashes,
           EVSP_OBU_activation_timer_start(h)
    PROVE  ActivationRight'
  <1> DEFINE node == [name |-> h.name, phase |-> PhaseOf[h.area], controlled |-> FALSE]
  <1>1. node \in ActiveRecord
    BY DEF EVSPAssumption, HostRecord, ActiveRecord
  <1>2. ActivationRight
    BY DEF EVSPInv
  <1>3. CASE Refused(h)
    BY <1>2, <1>3, ActivationKept DEF EVSP_OBU_activation_timer_start
  <1>4. CASE ~Refused(h) /\ ~noted
    <2>1. /\ actives' = <<node>> /\ list_len' = 1 /\ noted' = TRUE /\ thread' = "wait"
      BY <1>2, <1>4 DEF EVSP_OBU_activation_timer_start, ActivationRight, LengthNoted
    <2> HIDE DEF node
    <2>2. ActivesRight(actives') /\ Len(actives') = 1 /\ actives' # << >>
      BY <1>1, <2>1 DEF ActivesRight
    <2> QED BY <2>1, <2>2 DEF ActivationRight, ThreadNoted, LengthNoted
  <1>5. CASE ~Refused(h) /\ noted
    <2>1. /\ actives' = Append(actives, node) /\ list_len' = list_len + 1
          /\ noted' = TRUE /\ thread' = thread
      BY <1>5 DEF EVSP_OBU_activation_timer_start
    <2>2. /\ actives # << >> /\ actives[1].phase = node.phase
          /\ \A i \in DOMAIN actives : actives[i].name # node.name
      BY <1>5 DEF Refused, StartCrashes
    <2>3. /\ actives \in Seq(ActiveRecord) /\ Len(actives) \in Nat
          /\ DOMAIN actives = 1..Len(actives) /\ 1 \in DOMAIN actives
          /\ \A i, j \in DOMAIN actives : actives[i].name = actives[j].name => i = j
          /\ \A i, j \in DOMAIN actives : actives[i].phase = actives[j].phase
      BY <1>2, <2>2 DEF ActivationRight, ActivesRight
    <2> HIDE DEF node
    <2> DEFINE new == Append(actives, node)
    <2>4. /\ new \in Seq(ActiveRecord) /\ Len(new) = Len(actives) + 1
          /\ DOMAIN new = 1..(Len(actives) + 1)
          /\ \A i \in 1..Len(actives) : new[i] = actives[i]
          /\ new[Len(actives) + 1] = node
      BY <1>1, <2>3
    <2> HIDE DEF new
    <2>5. \A i \in DOMAIN new : new[i].phase = node.phase
      BY <2>2, <2>3, <2>4
    <2>6. ASSUME NEW i \in DOMAIN new, NEW j \in DOMAIN new, new[i].name = new[j].name
          PROVE  i = j
      BY <2>2, <2>3, <2>4, <2>6
    <2>7. ActivesRight(actives')
      BY <2>1, <2>4, <2>5, <2>6 DEF ActivesRight, new
    <2>8. actives' # << >> /\ Len(actives') = Len(actives) + 1
      BY <2>1, <2>3, <2>4 DEF new
    <2> QED BY <1>2, <1>5, <2>1, <2>2, <2>7, <2>8
            DEF ActivationRight, ThreadNoted, LengthNoted
  <1> QED BY <1>3, <1>4, <1>5

LEMMA DispatcherStep ==
    ASSUME EVSPAssumption, EVSPInv, Dispatcher
    PROVE  EVSPInv'
  <1> DEFINE found == EVSP_host_OBU_obj_search(disp.vehicle)
  <1>1. HostsRight(hosts)
    BY DEF EVSPInv
  <1>2. CASE PacketDone
    BY <1>2, ActivationKept DEF PacketDone, EVSPInv, ResumeOwed
  <1>3. ASSUME NEW a \in Areas, TouchesAgain(a)
        PROVE  EVSPInv'
    <2> DEFINE state == IF Host.touched_amount + 1 >= Threshold THEN 2 ELSE 1
               h == EVSP_host_OBU_obj_update(hosts[found], TRUE, state)
    <2>1. found # 0 /\ hosts' = [hosts EXCEPT ![found] = h]
      BY Zenon, <1>3 DEF TouchesAgain, Known, EVSP_host_OBU_obj_insert
    <2>2. found \in DOMAIN hosts /\ hosts[found] \in HostRecord
      BY <1>1, <2>1, FoundNotEmpty
    <2>3. state \in 0..2
      OBVIOUS
    <2>4. h \in HostRecord /\ h.name = hosts[found].name
      BY <2>2, <2>3, UpdateKeeps
    <2> QED BY <1>3, <2>1, <2>2, <2>4, ObjectStep DEF TouchesAgain
  <1>4. CASE Activate
    <2>1. CASE StartCrashes
      BY <1>4, <2>1, CrashStep DEF Activate
    <2>2. CASE ~StartCrashes
      <3>1. EVSP_OBU_activation_timer_start(Host) /\ UNCHANGED <<hosts, checks, owed>>
        BY <1>4, <2>2 DEF Activate
      <3>2. found # 0
        BY <1>4 DEF Activate, Known
      <3>3. Host \in HostRecord
        BY <1>1, <3>2, FoundNotEmpty DEF Host
      <3>4. ActivationRight'
        BY <2>2, <3>1, <3>3, StartStep
      <3> QED BY <3>1, <3>4 DEF EVSPInv, ResumeOwed
    <2> QED BY <2>1, <2>2
  <1>5. CASE Terminate
    <2>1. CASE EndCrashes \/ Host.fired
      BY <1>5, <2>1, CrashStep DEF Terminate
    <2>2. CASE ~(EndCrashes \/ Host.fired)
      <3>1. found # 0
        BY <1>5 DEF Terminate, Known
      <3> QED BY <1>5, <2>2, <3>1, GoneStep DEF Terminate
    <2> QED BY <2>1, <2>2
  <1>6. CASE DispatcherDangles
    BY <1>6, CrashStep DEF DispatcherDangles
  <1> QED BY <1>2, <1>3, <1>4, <1>5, <1>6 DEF Dispatcher

-----------------------------------------------------------------------------
(* A packet of a listed vehicle, whatever its uninitialised argument.      *)
LEMMA PacketStep ==
    ASSUME EVSPAssumption, EVSPInv, NEW v \in Vehicles, NEW garbage \in BOOLEAN,
           EVSP_on_OBU_packet_rx(v, garbage)
    PROVE  EVSPInv'
  <1> DEFINE i == EVSP_host_OBU_obj_search(v)
             h == EVSP_host_OBU_obj_update(hosts[i], garbage, 0)
  <1>1. i # 0 /\ hosts' = [hosts EXCEPT ![i] = h]
    BY Zenon DEF EVSP_on_OBU_packet_rx
  <1>2. i \in DOMAIN hosts /\ hosts[i] \in HostRecord
    BY <1>1, FoundNotEmpty DEF EVSPInv
  <1>3. h \in HostRecord /\ h.name = hosts[i].name
    BY <1>2, UpdateKeeps
  <1> QED BY <1>1, <1>2, <1>3, ObjectStep DEF EVSP_on_OBU_packet_rx

(* A timeout handler starts, and goes through.                             *)
LEMMA TimeoutStep ==
    ASSUME EVSPAssumption, EVSPInv, NEW i \in DOMAIN hosts,
           TimerFires(i) \/ EVSP_host_OBU_timeout_timer_handler(i)
    PROVE  EVSPInv'
  <1> DEFINE h == [hosts[i] EXCEPT !.fired = TRUE]
  <1>1. hosts[i] \in HostRecord
    BY DEF EVSPInv, HostsRight
  <1>2. h \in HostRecord /\ h.name = hosts[i].name
    BY <1>1 DEF HostRecord
  <1>3. CASE TimerFires(i) /\ hosts[i].fired
    BY <1>3, CrashStep DEF TimerFires
  <1>4. CASE TimerFires(i) /\ ~hosts[i].fired
    <2>1. hosts' = [hosts EXCEPT ![i] = h] /\ UNCHANGED <<activation, owed>>
      BY Zenon, <1>4 DEF TimerFires
    <2> QED BY <1>2, <2>1, ObjectStep
  <1>5. CASE EVSP_host_OBU_timeout_timer_handler(i)
    <2>1. EVSP_host_OBU_obj_search(hosts[i].name) # 0
      BY SearchFinds DEF EVSPInv
    <2> QED BY <1>5, <2>1, GoneStep DEF EVSP_host_OBU_timeout_timer_handler
  <1> QED BY <1>3, <1>4, <1>5

-----------------------------------------------------------------------------
(* The activation thread: what is left of its list is the end of the list. *)
LEMMA SuffixRight ==
    ASSUME NEW list, ActivesRight(list), NEW n \in 0..Len(list)
    PROVE  /\ ActivesRight(SubSeq(list, n + 1, Len(list)))
           /\ Len(SubSeq(list, n + 1, Len(list))) = Len(list) - n
  <1> DEFINE new == SubSeq(list, n + 1, Len(list))
  <1>1. /\ list \in Seq(ActiveRecord) /\ Len(list) \in Nat /\ DOMAIN list = 1..Len(list)
        /\ \A i, j \in DOMAIN list : list[i].name = list[j].name => i = j
        /\ \A i, j \in DOMAIN list : list[i].phase = list[j].phase
    BY DEF ActivesRight
  <1>2. \A i \in (n + 1)..Len(list) : list[i] \in ActiveRecord
    BY <1>1
  <1> HIDE DEF new
  <1>3. /\ new \in Seq(ActiveRecord)
        /\ Len(new) = IF n + 1 <= Len(list) THEN Len(list) - (n + 1) + 1 ELSE 0
        /\ \A i \in 1..(Len(list) - (n + 1) + 1) : new[i] = list[(n + 1) + i - 1]
    BY <1>1, <1>2, SubSeqProperties DEF new
  <1>4. n \in Int /\ n >= 0 /\ n <= Len(list) /\ Len(list) \in Int
    BY <1>1
  <1>5. Len(new) = Len(list) - n
    BY <1>3, <1>4
  <1>6. DOMAIN new = 1..Len(new)
    BY <1>3
  <1>7. Len(new) = Len(list) - n /\ DOMAIN new = 1..(Len(list) - n)
    BY <1>5, <1>6
  <1>8. ASSUME NEW i \in DOMAIN new
        PROVE  new[i] = list[n + i] /\ n + i \in DOMAIN list /\ i \in Int
    <2>1. i \in Int /\ 1 <= i /\ i <= Len(list) - n
      BY <1>7, <1>4
    <2>2. i \in 1..(Len(list) - (n + 1) + 1) /\ (n + 1) + i - 1 = n + i
      BY <1>4, <2>1
    <2>3. n + i \in 1..Len(list)
      BY <1>4, <2>1
    <2> QED BY <1>1, <1>3, <2>1, <2>2, <2>3
  <1>9. ASSUME NEW i \in DOMAIN new, NEW j \in DOMAIN new
        PROVE  /\ new[i].phase = new[j].phase
               /\ new[i].name = new[j].name => n + i = n + j
    BY <1>1, <1>8
  <1>10. \A i, j \in DOMAIN new : new[i].name = new[j].name => i = j
    BY <1>1, <1>8, <1>9
  <1> QED BY <1>3, <1>7, <1>9, <1>10 DEF ActivesRight, new

(* Marking the vehicles that are served changes neither names nor phases.  *)
LEMMA MarkedRight ==
    ASSUME NEW list, ActivesRight(list)
    PROVE  LET new == [i \in DOMAIN list |-> [list[i] EXCEPT !.controlled = TRUE]]
           IN ActivesRight(new) /\ Len(new) = Len(list)
  <1> DEFINE new == [i \in DOMAIN list |-> [list[i] EXCEPT !.controlled = TRUE]]
  <1>1. /\ list \in Seq(ActiveRecord) /\ Len(list) \in Nat /\ DOMAIN list = 1..Len(list)
        /\ \A i \in DOMAIN list : list[i] \in ActiveRecord
    BY DEF ActivesRight
  <1>2. ASSUME NEW i \in DOMAIN list
        PROVE  new[i] \in ActiveRecord /\ new[i].name = list[i].name /\ new[i].phase = list[i].phase
    BY <1>1 DEF ActiveRecord
  <1>3. DOMAIN new = 1..Len(list)
    BY <1>1
  <1> HIDE DEF new
  <1>4. new \in Seq(ActiveRecord) /\ Len(new) = Len(list)
    <2>1. new = [i \in 1..Len(list) |-> new[i]]
      BY <1>1, Zenon DEF new
    <2> QED BY <1>1, <1>2, <1>3, <2>1
  <1> QED BY <1>1, <1>2, <1>3, <1>4 DEF ActivesRight, new

LEMMA TimerStep ==
    ASSUME EVSPInv, NEW plan \in BOOLEAN, NEW same \in BOOLEAN,
           EVSP_OBU_activation_timer(plan, same)
    PROVE  EVSPInv'
  <1>1. ActivationRight /\ thread = "wait" /\ noted /\ list_len = Len(actives)
    BY DEF EVSPInv, ActivationRight, ThreadNoted, EVSP_OBU_activation_timer
  <1>2. CASE ~plan
    BY <1>1, <1>2 DEF EVSP_OBU_activation_timer, EVSPInv, ActivationRight, ActivesRight,
                      ThreadNoted, LengthNoted, ResumeOwed
  <1>3. CASE plan
    <2>1. PICK n \in 0..Len(actives) :
              /\ actives' = SubSeq(actives, n + 1, Len(actives))
              /\ list_len' = list_len - n
              /\ thread' \in {"ending", "optimise", "wait"}
              /\ n = Len(actives) => thread' = "ending"
      BY <1>3 DEF EVSP_OBU_activation_timer
    <2>2. noted' = noted /\ UNCHANGED <<hosts, checks, owed>>
      BY DEF EVSP_OBU_activation_timer
    <2>3. ActivesRight(actives') /\ Len(actives') = Len(actives) - n
      BY <1>1, <2>1, SuffixRight DEF ActivationRight
    <2>4. Len(actives) \in Nat
      BY <1>1 DEF ActivationRight, ActivesRight
    <2>5. thread' \in {"wait", "optimise"} => actives' # << >>
      <3>1. actives' = << >> => n = Len(actives)
        BY <2>3, <2>4
      <3> QED BY <2>1, <3>1
    <2>6. ActivationRight'
      BY <1>1, <2>1, <2>2, <2>3, <2>4, <2>5 DEF ActivationRight, ThreadNoted, LengthNoted
    <2> QED BY <2>2, <2>6 DEF EVSPInv, ResumeOwed
  <1> QED BY <1>2, <1>3

(* A command is asked for by vehicles that are all still listed.           *)
LEMMA OptimiseStep ==
    ASSUME EVSPInv, NEW step1 \in BOOLEAN, NEW inserted \in BOOLEAN, Optimise(step1, inserted)
    PROVE  EVSPInv'
  <1> DEFINE marked == [i \in DOMAIN actives |-> [actives[i] EXCEPT !.controlled = TRUE]]
  <1>1. CASE step1 /\ \E i \in DOMAIN actives : actives[i].name \notin Listed
    BY <1>1, CrashStep DEF Optimise
  <1>2. CASE ~(step1 /\ \E i \in DOMAIN actives : actives[i].name \notin Listed)
    <2>1. /\ actives' = IF step1 /\ inserted THEN marked ELSE actives
          /\ owed' = (owed \/ (step1 /\ inserted))
          /\ thread' = "wait" /\ UNCHANGED <<hosts, noted, list_len, checks>>
      BY <1>2 DEF Optimise
    <2>2. /\ ActivesRight(actives) /\ actives # << >> /\ noted
          /\ list_len = Len(actives) /\ Len(actives) \in Nat
      BY DEF Optimise, EVSPInv, ActivationRight, ThreadNoted, ActivesRight
    <2>3. ActivesRight(actives') /\ Len(actives') = Len(actives)
      BY <2>1, <2>2, MarkedRight
    <2>4. actives' # << >>
      BY <2>2, <2>3 DEF ActivesRight
    <2>5. ActivationRight'
      BY <2>1, <2>2, <2>3, <2>4 DEF EVSPInv, ActivationRight, ThreadNoted, LengthNoted
    <2>6. step1 /\ inserted => hosts # << >>
      <3>1. 1 \in DOMAIN actives
        BY <2>2 DEF ActivesRight
      <3> QED BY <1>2, <3>1 DEF Listed
    <2> QED BY <2>1, <2>5, <2>6 DEF EVSPInv, ResumeOwed
  <1> QED BY <1>1, <1>2

LEMMA ThreadEndsStep ==
    ASSUME EVSPInv, ThreadEnds
    PROVE  EVSPInv'
  BY DEF ThreadEnds, EVSPInv, ActivationRight, ActivesRight, ThreadNoted, LengthNoted, ResumeOwed

-----------------------------------------------------------------------------
LEMMA EVSPInit ==
    ASSUME Init
    PROVE  EVSPInv
  <1>1. HostsRight(<< >>) /\ ActivesRight(<< >>)
    BY DEF HostsRight, ActivesRight
  <1> QED BY <1>1 DEF Init, EVSPInv, ActivationRight, ThreadNoted, LengthNoted, ResumeOwed

LEMMA EVSPStep == EVSPAssumption /\ EVSPInv /\ [Next]_vars => EVSPInv'
  <1> SUFFICES ASSUME EVSPAssumption, EVSPInv, [Next]_vars PROVE EVSPInv'
      OBVIOUS
  <1>1. ASSUME NEW v \in Vehicles, NEW a \in Areas, NewTouches(v, a) PROVE EVSPInv'
    BY <1>1, NewTouchesStep
  <1>2. ASSUME NEW v \in Vehicles, NEW garbage \in BOOLEAN, EVSP_on_OBU_packet_rx(v, garbage)
        PROVE EVSPInv'
    BY <1>2, PacketStep
  <1>3. CASE Dispatcher
    BY <1>3, DispatcherStep
  <1>4. ASSUME NEW i \in DOMAIN hosts,
               TimerFires(i) \/ EVSP_host_OBU_timeout_timer_handler(i)
        PROVE EVSPInv'
    BY <1>4, TimeoutStep
  <1>5. ASSUME NEW p \in checks, Resume(p) PROVE EVSPInv'
    BY <1>5, ResumeStep
  <1>6. CASE Activation
    BY <1>6, TimerStep, OptimiseStep, ThreadEndsStep DEF Activation
  <1>7. CASE UNCHANGED vars
    <2>1. ActivationRight'
      BY <1>7, ActivationKept DEF vars, activation, EVSPInv
    <2> QED BY <1>7, <2>1 DEF vars, EVSPInv, ResumeOwed
  <1> QED BY <1>1, <1>2, <1>3, <1>4, <1>5, <1>6, <1>7 DEF Next

(* PriorityKept of EVSP.tla: neither list names a vehicle twice, those     *)
(* served at one time want one phase, the activation thread, its note and  *)
(* the length of its list agree (EVSP_OBU_activation_timer_start,          *)
(* thread_end), and a change of the signal that is not taken back yet has  *)
(* a listed vehicle or a handler to take it back (EVSP_host_OBU_obj_resume).*)
THEOREM PriorityIsKept ==
    ASSUME EVSPAssumption
    PROVE  Spec => []PriorityKept
  <1>1. Init => EVSPInv
    BY EVSPInit
  <1>2. EVSPInv /\ [Next]_vars => EVSPInv'
    BY EVSPStep
  <1>3. EVSPInv => PriorityKept
    BY InvImplies
  <1> QED BY <1>1, <1>2, <1>3, PTL DEF Spec

-----------------------------------------------------------------------------
(* The state of the registry, and of a walk.                               *)
Kinds == {"app_id"} \cup Messages
Points == Nodes \cup {ListHead}
WalkStates == {"idle", "test", "set", "call", "step", "done"}
WalkRecord == [pc : WalkStates, at : Points, called : SUBSET Nodes, due : SUBSET Nodes]
Registration == [app : Apps \cup {NoApp}, todo : SUBSET (1..Len(Events))]

RegistryTyped ==
    /\ app_list \in Seq(Apps)
    /\ app_num \in 0..255
    /\ callbacks \in [Range(Events) -> Seq(Nodes)]
    /\ writer \in Registration
    /\ writer = Resting \/ writer.app \in Apps
    /\ handling \in Apps \cup {NoApp}
    /\ walk \in [Walkers -> WalkRecord]

(* A list is sorted by priority, and every node is in it once.             *)
ListRight(list) ==
    /\ \A i, j \in 1..Len(list) : list[i] = list[j] => i = j
    /\ \A i, j \in 1..Len(list) :
          i < j => priority[list[i].app] <= priority[list[j].app]

AppsUnique ==
    \A i, j \in 1..Len(app_list) :
        \/ app_id[app_list[i]] = app_id[app_list[j]]
        \/ app_name[app_list[i]] = app_name[app_list[j]]
        => i = j

(* A list with its head, as a walk sees it.                                *)
Chain(list) == <<ListHead>> \o list

(* A walk that stands at the k-th node of a chain has called what was due  *)
(* up to there, and the node after it before it steps.                     *)
Passed(chain, u, k) ==
    /\ u.at = chain[k]
    /\ \A n \in u.due : \E i \in 1..Len(chain) : chain[i] = n
    /\ \A i \in 1..k : chain[i] \in u.due => chain[i] \in u.called
    /\ u.pc \in {"set", "call", "step"} => k < Len(chain)
    /\ u.pc = "step" /\ chain[k + 1] \in u.due => chain[k + 1] \in u.called
    /\ u.pc = "done" => u.due \subseteq u.called

WalkRight(chain, u) == u.pc = "idle" \/ \E k \in 1..Len(chain) : Passed(chain, u, k)

RegistryInv ==
    /\ RegistryTyped
    /\ AppsUnique
    /\ \A e \in Range(Events) : ListRight(callbacks[e])
    /\ \A w \in Walkers : WalkRight(Chain(callbacks[EventOf[w]]), walk[w])

LEMMA RegistryInvImplies == RegistryInv => CallbacksInOrder
  <1> SUFFICES ASSUME RegistryInv PROVE CallbacksInOrder
    OBVIOUS
  <1>1. RegistryTypeOK
    BY DEF RegistryInv, RegistryTyped, RegistryTypeOK, Registration, WalkRecord, WalkStates
  <1>2. NamesUnique
    <2>1. \A e \in Range(Events) : DOMAIN callbacks[e] = 1..Len(callbacks[e])
      BY DEF RegistryInv, RegistryTyped
    <2> QED BY <2>1 DEF RegistryInv, AppsUnique, NamesUnique, IsInjective, ListRight
  <1>3. PriorityOrder
    BY DEF RegistryInv, ListRight, PriorityOrder
  <1>4. NoneSkipped
    BY DEF RegistryInv, WalkRight, Passed, NoneSkipped
  <1> QED BY <1>1, <1>2, <1>3, <1>4 DEF CallbacksInOrder

-----------------------------------------------------------------------------
(* A node linked in at a place: what was before it stays, the rest moves.  *)
LEMMA InsertEffect ==
    ASSUME NEW S, NEW s \in Seq(S), NEW e \in S, NEW p \in 1..(Len(s) + 1)
    PROVE  LET t == InsertAt(s, p, e)
           IN  /\ t \in Seq(S) /\ Len(t) = Len(s) + 1 /\ t[p] = e
               /\ \A i \in 1..Len(s) : t[IF i < p THEN i ELSE i + 1] = s[i]
               /\ \A i \in 1..Len(t) : t[i] = IF i < p THEN s[i]
                                              ELSE IF i = p THEN e ELSE s[i - 1]
  <1> DEFINE n == Len(s)
             a == SubSeq(s, 1, p - 1)
             b == <<e>>
             c == SubSeq(s, p, n)
             ab == a \o b
             t == ab \o c
  <1>1. n \in Nat /\ p \in 1..(n + 1) /\ \A i \in 1..n : s[i] \in S
    OBVIOUS
  <1>2. /\ a \in Seq(S) /\ Len(a) = p - 1
        /\ \A i \in 1..(p - 1) : a[i] = s[i]
    <2> DEFINE hi == p - 1
    <2>1. 1 \in Int /\ hi \in Int /\ \A i \in 1..hi : s[i] \in S
      BY <1>1
    <2> HIDE DEF n, hi
    <2>2. /\ SubSeq(s, 1, hi) \in Seq(S)
          /\ Len(SubSeq(s, 1, hi)) = IF 1 <= hi THEN hi-1+1 ELSE 0
          /\ \A i \in 1 .. hi-1+1 : SubSeq(s, 1, hi)[i] = s[1+i-1]
      BY <2>1, SubSeqProperties
    <2>3. a = SubSeq(s, 1, hi)
      BY DEF hi
    <2> HIDE DEF a
    <2> QED BY <1>1, <2>2, <2>3 DEF hi
  <1>3. b \in Seq(S) /\ Len(b) = 1 /\ b[1] = e
    OBVIOUS
  <1>4. /\ c \in Seq(S) /\ Len(c) = (n + 1) - p
        /\ \A i \in 1..((n + 1) - p) : c[i] = s[(p + i) - 1]
    <2>1. n \in Int /\ p \in Int /\ \A i \in p..n : s[i] \in S
      BY <1>1
    <2> HIDE DEF n
    <2>2. /\ c \in Seq(S) /\ Len(c) = IF p <= n THEN n-p+1 ELSE 0
          /\ \A i \in 1 .. n-p+1 : c[i] = s[p+i-1]
      BY <2>1, SubSeqProperties
    <2> HIDE DEF c
    <2> QED BY <1>1, <2>2
  <1>5. InsertAt(s, p, e) = t
    BY Zenon DEF InsertAt
  <1> HIDE DEF a, b, c, n
  <1>6. /\ ab \in Seq(S) /\ Len(ab) = Len(a) + Len(b)
        /\ \A i \in 1 .. Len(a) + Len(b) : ab[i] = IF i <= Len(a) THEN a[i] ELSE b[i - Len(a)]
    BY <1>2, <1>3, ConcatProperties, Zenon
  <1>7. ab \in Seq(S) /\ Len(ab) = p /\ ab[p] = e /\ \A i \in 1..(p - 1) : ab[i] = s[i]
    <2> HIDE DEF ab
    <2> QED BY <1>1, <1>2, <1>3, <1>6
  <1> HIDE DEF ab
  <1>8. /\ t \in Seq(S) /\ Len(t) = Len(ab) + Len(c)
        /\ \A i \in 1 .. Len(ab) + Len(c) : t[i] = IF i <= Len(ab) THEN ab[i] ELSE c[i - Len(ab)]
    BY <1>4, <1>7, ConcatProperties, Zenon
  <1> HIDE DEF t
  <1>9. /\ t \in Seq(S) /\ Len(t) = n + 1
        /\ \A i \in 1..(n + 1) : t[i] = IF i <= p THEN ab[i] ELSE c[i - p]
    BY <1>1, <1>4, <1>7, <1>8
  <1>10. \A i \in 1..(n + 1) : t[i] = IF i < p THEN s[i] ELSE IF i = p THEN e ELSE s[i - 1]
    <2> SUFFICES ASSUME NEW i \in 1..(n + 1)
                 PROVE  t[i] = IF i < p THEN s[i] ELSE IF i = p THEN e ELSE s[i - 1]
      OBVIOUS
    <2>1. CASE i <= p
      BY <1>1, <1>7, <1>9, <2>1
    <2>2. CASE i > p
      <3>1. i - p \in 1..((n + 1) - p) /\ (p + (i - p)) - 1 = i - 1
        BY <1>1, <2>2
      <3>2. c[i - p] = s[(p + (i - p)) - 1]
        BY <1>4, <3>1
      <3> QED BY <1>1, <1>9, <2>2, <3>1, <3>2
    <2> QED BY <1>1, <2>1, <2>2
  <1>11. t[p] = e /\ \A i \in 1..n : t[IF i < p THEN i ELSE i + 1] = s[i]
    BY <1>1, <1>10
  <1> QED BY <1>5, <1>9, <1>10, <1>11 DEF n

(* A node is an application's, which has a priority.                       *)
LEMMA NodePriority ==
    ASSUME NEW n \in Nodes
    PROVE  n.app \in Apps /\ priority[n.app] \in Int
  <1>1. Nodes = [app : Apps, choice : Kinds]
    BY DEF Nodes, Kinds
  <1>2. n.app \in Apps
    BY <1>1
  <1> QED BY <1>2, AppRegistryAssumption

(* The place where a node of a priority belongs.                           *)
LEMMA PlaceRight ==
    ASSUME NEW list \in Seq(Nodes), ListRight(list), NEW p \in Int
    PROVE  /\ Place(list, p) \in 1..(Len(list) + 1)
           /\ \A i \in 1..Len(list) : i < Place(list, p) <=> priority[list[i].app] <= p
  <1> DEFINE later == {i \in 1..Len(list) : priority[list[i].app] > p}
  <1>1. Len(list) \in Nat /\ \A i \in 1..Len(list) : priority[list[i].app] \in Int
    <2>1. \A i \in 1..Len(list) : list[i] \in Nodes
      OBVIOUS
    <2> QED BY <2>1, NodePriority
  <1>2. Place(list, p) = IF later = {} THEN Len(list) + 1 ELSE Min(later)
    <2>1. SelectInSeq(list, LAMBDA n : priority[n.app] > p) = IF later # {} THEN Min(later) ELSE 0
      BY Zenon DEF SelectInSeq
    <2>2. later \in SUBSET Nat /\ 0 \notin later
      OBVIOUS
    <2>3. later # {} => Min(later) \in later
      <3> HIDE DEF later
      <3> QED BY <2>2, MinOfNats
    <2> HIDE DEF later
    <2> QED BY <2>1, <2>2, <2>3 DEF Place
  <1>3. CASE later = {}
    BY <1>1, <1>2, <1>3
  <1>4. CASE later # {}
    <2>1. Min(later) \in later /\ \A i \in later : Min(later) <= i
      <3>1. later \in SUBSET Nat
        OBVIOUS
      <3> HIDE DEF later
      <3> QED BY <1>4, <3>1, MinOfNats
    <2> DEFINE m == Min(later)
    <2>2. m \in 1..Len(list) /\ priority[list[m].app] > p
      BY <2>1
    <2>3. \A i \in 1..Len(list) : i < m => priority[list[i].app] <= p
      <3> SUFFICES ASSUME NEW i \in 1..Len(list), i < m, priority[list[i].app] > p
                   PROVE  FALSE
        BY <1>1
      <3>1. i \in later
        OBVIOUS
      <3>2. m <= i /\ m \in Nat
        BY <2>1, <3>1
      <3> HIDE DEF m, later
      <3> QED BY <3>2
    <2> HIDE DEF m, later
    <2>4. \A i \in 1..Len(list) : m < i => priority[list[m].app] <= priority[list[i].app]
      BY <2>2 DEF ListRight
    <2>5. Place(list, p) = m
      BY <1>2, <1>4 DEF m
    <2>6. \A i \in 1..Len(list) : i >= m => priority[list[i].app] > p
      BY <1>1, <2>2, <2>4
    <2> QED BY <1>1, <2>2, <2>3, <2>5, <2>6
  <1> QED BY <1>3, <1>4

(* An inserted node keeps the list right.                                  *)
LEMMA InsertKeeps ==
    ASSUME NEW list \in Seq(Nodes), ListRight(list), NEW n \in Nodes,
           \A i \in 1..Len(list) : list[i] # n
    PROVE  /\ InsertNode(list, n) \in Seq(Nodes)
           /\ ListRight(InsertNode(list, n))
           /\ \E p \in 1..(Len(list) + 1) : InsertNode(list, n) = InsertAt(list, p, n)
  <1> DEFINE p == Place(list, priority[n.app])
             t == InsertNode(list, n)
  <1>1. /\ Len(list) \in Nat /\ priority[n.app] \in Int
        /\ \A i \in 1..Len(list) : priority[list[i].app] \in Int
    <2>1. \A i \in 1..Len(list) : list[i] \in Nodes
      OBVIOUS
    <2> QED BY <2>1, NodePriority
  <1>2. /\ p \in 1..(Len(list) + 1)
        /\ \A i \in 1..Len(list) : i < p <=> priority[list[i].app] <= priority[n.app]
    BY <1>1, PlaceRight
  <1>3. t = InsertAt(list, p, n)
    BY DEF InsertNode
  <1> HIDE DEF p
  <1>4. /\ t \in Seq(Nodes) /\ Len(t) = Len(list) + 1
        /\ \A i \in 1..Len(t) : t[i] = IF i < p THEN list[i] ELSE IF i = p THEN n ELSE list[i - 1]
    BY <1>2, <1>3, InsertEffect
  <1> HIDE DEF t
  <1>5. \A i \in 1..Len(t) : /\ i < p => i \in 1..Len(list)
                             /\ i > p => i - 1 \in 1..Len(list) /\ i - 1 >= p
    BY <1>1, <1>2, <1>4
  <1>6. ASSUME NEW i \in 1..Len(t), NEW j \in 1..Len(t), t[i] = t[j]
        PROVE  i = j
    <2>1. \A k, l \in 1..Len(list) : list[k] = list[l] => k = l
      BY DEF ListRight
    <2>2. \A k \in 1..Len(t) : k # p => t[k] # n
      <3> SUFFICES ASSUME NEW k \in 1..Len(t), k # p PROVE t[k] # n
        OBVIOUS
      <3> DEFINE l == IF k < p THEN k ELSE k - 1
      <3>1. l \in 1..Len(list) /\ t[k] = list[l]
        BY <1>2, <1>4, <1>5
      <3> QED BY <3>1
    <2>3. CASE i = p \/ j = p
      BY <1>2, <1>4, <1>6, <2>2, <2>3
    <2>4. CASE i # p /\ j # p
      <3> DEFINE k == IF i < p THEN i ELSE i - 1
                 l == IF j < p THEN j ELSE j - 1
      <3>1. k \in 1..Len(list) /\ l \in 1..Len(list) /\ t[i] = list[k] /\ t[j] = list[l]
        BY <1>2, <1>4, <1>5, <2>4
      <3>2. k = l
        BY <1>6, <2>1, <3>1
      <3> QED BY <1>2, <1>5, <2>4, <3>2
    <2> QED BY <2>3, <2>4
  <1>7. ASSUME NEW i \in 1..Len(t), NEW j \in 1..Len(t), i < j
        PROVE  priority[t[i].app] <= priority[t[j].app]
    <2>1. \A k, l \in 1..Len(list) : k < l => priority[list[k].app] <= priority[list[l].app]
      BY DEF ListRight
    <2>2. CASE i < p /\ j < p
      BY <1>1, <1>4, <1>5, <1>7, <2>1, <2>2
    <2>3. CASE i < p /\ j = p
      BY <1>1, <1>2, <1>4, <1>5, <2>3
    <2>4. CASE i < p /\ j > p
      <3>1. i \in 1..Len(list) /\ j - 1 \in 1..Len(list) /\ i < j - 1
        BY <1>2, <1>5, <2>4
      <3>2. t[i] = list[i] /\ t[j] = list[j - 1]
        BY <1>2, <1>4, <2>4
      <3> QED BY <2>1, <3>1, <3>2
    <2>5. CASE i = p /\ j > p
      <3>1. j - 1 \in 1..Len(list) /\ ~(j - 1 < p)
        BY <1>2, <1>5, <2>5
      <3>2. t[i] = n /\ t[j] = list[j - 1]
        BY <1>2, <1>4, <2>5
      <3> QED BY <1>1, <1>2, <3>1, <3>2
    <2>6. CASE i > p
      <3>1. i - 1 \in 1..Len(list) /\ j - 1 \in 1..Len(list) /\ i - 1 < j - 1
        BY <1>2, <1>5, <1>7, <2>6
      <3>2. t[i] = list[i - 1] /\ t[j] = list[j - 1]
        BY <1>2, <1>4, <1>7, <2>6
      <3> QED BY <2>1, <3>1, <3>2
    <2> QED BY <1>2, <1>7, <2>2, <2>3, <2>4, <2>5, <2>6
  <1> QED BY <1>2, <1>3, <1>4, <1>6, <1>7 DEF ListRight, t

-----------------------------------------------------------------------------
(* A chain is its head, which is no node, and the nodes of the list.       *)
LEMMA ChainFacts ==
    ASSUME NEW list \in Seq(Nodes)
    PROVE  /\ Chain(list) \in Seq(Points) /\ Len(Chain(list)) = Len(list) + 1
           /\ Chain(list)[1] = ListHead /\ ListHead \notin Nodes
           /\ \A i \in 1..Len(list) : Chain(list)[i + 1] = list[i] /\ list[i] \in Nodes
           /\ ListRight(list) =>
                 \A i, j \in 1..Len(Chain(list)) : Chain(list)[i] = Chain(list)[j] => i = j
  <1> DEFINE head == <<ListHead>>
             c == Chain(list)
  <1>1. head \in Seq(Points) /\ Len(head) = 1 /\ head[1] = ListHead
    BY DEF Points
  <1>2. list \in Seq(Points) /\ Len(list) \in Nat
    BY SeqMonotonic DEF Points
  <1>3. c = head \o list
    BY DEF Chain
  <1> HIDE DEF head, c
  <1>4. /\ c \in Seq(Points) /\ Len(c) = Len(head) + Len(list)
        /\ \A i \in 1 .. Len(head) + Len(list) :
              c[i] = IF i <= Len(head) THEN head[i] ELSE list[i - Len(head)]
    BY <1>1, <1>2, <1>3, ConcatProperties, Zenon
  <1>5. /\ c \in Seq(Points) /\ Len(c) = Len(list) + 1 /\ c[1] = ListHead
        /\ \A i \in 1..Len(list) : c[i + 1] = list[i]
    BY <1>1, <1>2, <1>4
  <1>6. ListHead \notin Nodes
    <2>1. \A n \in Nodes : n.app # NoApp
      BY NodePriority, AppRegistryAssumption
    <2>2. ListHead.app = NoApp
      BY DEF ListHead, Node
    <2> QED BY <2>1, <2>2
  <1>7. \A i \in 1..Len(list) : list[i] \in Nodes
    OBVIOUS
  <1>8. ASSUME ListRight(list), NEW i \in 1..Len(c), NEW j \in 1..Len(c), c[i] = c[j]
        PROVE  i = j
    <2>1. \A k \in 1..Len(c) : k # 1 =>
             k - 1 \in 1..Len(list) /\ c[k] = list[k - 1] /\ c[k] # ListHead
      <3> SUFFICES ASSUME NEW k \in 1..Len(c), k # 1
                   PROVE  k - 1 \in 1..Len(list) /\ c[k] = list[k - 1] /\ c[k] # ListHead
        OBVIOUS
      <3>1. k - 1 \in 1..Len(list) /\ (k - 1) + 1 = k
        BY <1>2, <1>5
      <3>2. c[k] = list[k - 1]
        BY <1>5, <3>1
      <3> QED BY <1>6, <1>7, <3>1, <3>2
    <2>2. CASE i = 1 \/ j = 1
      BY <1>5, <1>8, <2>1, <2>2
    <2>3. CASE i # 1 /\ j # 1
      <3>1. i - 1 = j - 1
        BY <1>8, <2>1, <2>3 DEF ListRight
      <3> QED BY <3>1
    <2> QED BY <2>2, <2>3
  <1> QED BY <1>5, <1>6, <1>7, <1>8 DEF c

(* A walk sees a node linked in anywhere: what it has passed stays passed, *)
(* and the new node is not due.                                            *)
LEMMA WalkSurvives ==
    ASSUME NEW list \in Seq(Nodes), NEW n \in Nodes, \A i \in 1..Len(list) : list[i] # n,
           NEW p \in 1..(Len(list) + 1),
           NEW u \in WalkRecord, WalkRight(Chain(list), u)
    PROVE  WalkRight(Chain(InsertAt(list, p, n)), u)
  <1> DEFINE c == Chain(list)
             l == InsertAt(list, p, n)
             d == Chain(l)
             to(i) == IF i <= p THEN i ELSE i + 1
  <1>1. /\ l \in Seq(Nodes) /\ Len(l) = Len(list) + 1 /\ l[p] = n
        /\ \A i \in 1..Len(list) : l[IF i < p THEN i ELSE i + 1] = list[i]
        /\ Len(list) \in Nat
    BY InsertEffect
  <1> HIDE DEF l
  <1>2. /\ Len(c) = Len(list) + 1 /\ c[1] = ListHead
        /\ \A i \in 1..Len(list) : c[i + 1] = list[i]
        /\ ListHead \notin Nodes
    BY ChainFacts
  <1>3. /\ Len(d) = Len(list) + 2 /\ d[1] = ListHead
        /\ \A i \in 1..(Len(list) + 1) : d[i + 1] = l[i]
    BY <1>1, ChainFacts
  <1> HIDE DEF c, d
  <1>4. d[p + 1] = n
    BY <1>1, <1>3
  <1>5. ASSUME NEW i \in 1..Len(c)
        PROVE  d[to(i)] = c[i] /\ to(i) \in 1..Len(d) /\ to(i) # p + 1
    <2>1. CASE i = 1
      BY <1>1, <1>2, <1>3, <2>1
    <2>2. CASE i # 1
      <3> DEFINE k == i - 1
                 j == IF k < p THEN k ELSE k + 1
      <3>1. k \in 1..Len(list) /\ j \in 1..(Len(list) + 1) /\ k + 1 = i /\ to(i) = j + 1
        BY <1>1, <1>2, <2>2
      <3>2. l[j] = list[k]
        BY <1>1, <3>1
      <3> HIDE DEF k, j
      <3>3. d[j + 1] = l[j] /\ c[k + 1] = list[k]
        BY <1>2, <1>3, <3>1
      <3>4. to(i) \in 1..Len(d) /\ to(i) # p + 1
        BY <1>1, <1>2, <1>3
      <3> QED BY <3>1, <3>2, <3>3, <3>4
    <2> QED BY <2>1, <2>2
  <1>6. ASSUME NEW j \in 1..Len(d), j # p + 1
        PROVE  \E i \in 1..Len(c) : to(i) = j
    <2> DEFINE i == IF j <= p THEN j ELSE j - 1
    <2>1. i \in 1..Len(c) /\ to(i) = j
      BY <1>1, <1>2, <1>3, <1>6
    <2> QED BY <2>1
  <1>7. CASE u.pc = "idle"
    BY <1>7 DEF WalkRight
  <1>8. CASE u.pc # "idle"
    <2>1. PICK k \in 1..Len(c) : Passed(c, u, k)
      BY <1>8 DEF WalkRight, c
    <2>2. n \notin u.due
      <3>1. \A i \in 1..Len(c) : c[i] # n
        <4> SUFFICES ASSUME NEW i \in 1..Len(c) PROVE c[i] # n
          OBVIOUS
        <4>1. CASE i = 1
          BY <1>2, <4>1
        <4>2. CASE i # 1
          <5>1. i - 1 \in 1..Len(list) /\ (i - 1) + 1 = i
            BY <1>1, <1>2, <4>2
          <5> QED BY <1>2, <5>1
        <4> QED BY <4>1, <4>2
      <3> QED BY <2>1, <3>1 DEF Passed
    <2> DEFINE m == to(k)
    <2>3. m \in 1..Len(d) /\ u.at = d[m]
      BY <1>5, <2>1 DEF Passed
    <2>4. \A x \in u.due : \E i \in 1..Len(d) : d[i] = x
      BY <1>5, <2>1 DEF Passed
    <2>5. ASSUME NEW j \in 1..m, d[j] \in u.due PROVE d[j] \in u.called
      <3>1. j \in 1..Len(d) /\ j # p + 1
        BY <1>3, <1>4, <1>1, <2>2, <2>3, <2>5
      <3>2. PICK i \in 1..Len(c) : to(i) = j
        BY <1>6, <3>1
      <3>3. i <= k
        BY <1>1, <1>2, <3>2
      <3> QED BY <1>5, <2>1, <2>5, <3>2, <3>3 DEF Passed
    <2>6. ASSUME k < Len(c)
          PROVE  m < Len(d) /\ (d[m + 1] = n \/ d[m + 1] = c[k + 1])
      <3>1. k + 1 \in 1..Len(c)
        BY <1>1, <1>2, <2>6
      <3>2. m < Len(d)
        BY <1>1, <1>2, <1>3, <2>6
      <3>3. CASE k = p
        BY <1>1, <1>4, <3>2, <3>3
      <3>4. CASE k # p
        <4>1. m + 1 = to(k + 1)
          BY <1>1, <1>2, <3>4
        <4> QED BY <1>5, <3>1, <3>2, <4>1
      <3> QED BY <3>3, <3>4
    <2> HIDE DEF m, to
    <2>7. Passed(d, u, m)
      BY <2>1, <2>2, <2>3, <2>4, <2>5, <2>6 DEF Passed
    <2> QED BY <2>3, <2>7 DEF WalkRight, d, l
  <1> QED BY <1>7, <1>8 DEF d, l

(* Where a walk stands tells whether there is a next node, and which.      *)
LEMMA NextNode ==
    ASSUME RegistryInv, NEW w \in Walkers,
           NEW k \in 1..Len(Chain(callbacks[EventOf[w]])),
           walk[w].at = Chain(callbacks[EventOf[w]])[k]
    PROVE  LET chain == Chain(callbacks[EventOf[w]])
           IN  /\ HasNext(w) <=> k < Len(chain)
               /\ k < Len(chain) => next(w) = chain[k + 1] /\ next(w) \in Nodes
  <1> DEFINE list == callbacks[EventOf[w]]
             c == Chain(list)
             I == {i \in 1..Len(c) : c[i] = walk[w].at}
  <1>1. list \in Seq(Nodes) /\ ListRight(list)
    BY AppRegistryAssumption DEF RegistryInv, RegistryTyped
  <1> HIDE DEF list
  <1>2. /\ Len(c) = Len(list) + 1 /\ Len(list) \in Nat
        /\ \A i \in 1..Len(list) : c[i + 1] = list[i] /\ list[i] \in Nodes
        /\ \A i, j \in 1..Len(c) : c[i] = c[j] => i = j
    BY <1>1, ChainFacts
  <1>3. HasNext(w) <=> walk[w].at # c[Len(c)]
    BY DEF HasNext, Last, Chain, list
  <1>4. next(w) = c[(IF I # {} THEN Min(I) ELSE 0) + 1]
    BY Zenon DEF next, SelectInSeq, Chain, list
  <1>5. k \in 1..Len(c) /\ walk[w].at = c[k]
    BY DEF list
  <1> HIDE DEF c
  <1>6. I = {k} /\ I \in SUBSET Nat
    BY <1>2, <1>5
  <1> HIDE DEF I
  <1>7. Min(I) = k
    BY <1>6, MinOfNats
  <1>8. next(w) = c[k + 1]
    BY <1>4, <1>6, <1>7
  <1>9. HasNext(w) <=> k < Len(c)
    BY <1>2, <1>3, <1>5
  <1>10. k < Len(c) => c[k + 1] \in Nodes
    BY <1>2, <1>5
  <1> QED BY <1>8, <1>9, <1>10 DEF c, list

-----------------------------------------------------------------------------
(* A node is linked into the list of an event.                             *)
LEMMA ListsKept ==
    ASSUME RegistryInv, NEW e \in Range(Events), NEW n \in Nodes,
           \A i \in 1..Len(callbacks[e]) : callbacks[e][i] # n,
           callbacks' = [callbacks EXCEPT ![e] = InsertNode(callbacks[e], n)],
           writer' \in Registration, writer' = Resting \/ writer'.app \in Apps,
           UNCHANGED <<app_list, app_num, handling, walk>>
    PROVE  RegistryInv'
  <1> DEFINE list == callbacks[e]
             new == InsertNode(list, n)
  <1>1. /\ callbacks \in [Range(Events) -> Seq(Nodes)] /\ list \in Seq(Nodes) /\ ListRight(list)
        /\ walk \in [Walkers -> WalkRecord]
    BY DEF RegistryInv, RegistryTyped
  <1>2. /\ new \in Seq(Nodes) /\ ListRight(new)
        /\ \E p \in 1..(Len(list) + 1) : new = InsertAt(list, p, n)
    BY <1>1, InsertKeeps
  <1> HIDE DEF new
  <1>3. /\ callbacks' \in [Range(Events) -> Seq(Nodes)] /\ callbacks'[e] = new
        /\ \A f \in Range(Events) : f # e => callbacks'[f] = callbacks[f]
    BY <1>1, <1>2 DEF new
  <1>4. RegistryTyped'
    BY <1>3 DEF RegistryInv, RegistryTyped
  <1>5. AppsUnique'
    BY DEF RegistryInv, AppsUnique
  <1>6. \A f \in Range(Events) : ListRight(callbacks'[f])
    BY <1>2, <1>3 DEF RegistryInv
  <1>7. ASSUME NEW w \in Walkers PROVE WalkRight(Chain(callbacks'[EventOf[w]]), walk[w])
    <2>1. EventOf[w] \in Range(Events) /\ walk[w] \in WalkRecord
          /\ WalkRight(Chain(callbacks[EventOf[w]]), walk[w])
      BY <1>1, AppRegistryAssumption DEF RegistryInv
    <2>2. CASE EventOf[w] # e
      BY <1>3, <2>1, <2>2
    <2>3. CASE EventOf[w] = e
      <3>1. PICK p \in 1..(Len(list) + 1) : new = InsertAt(list, p, n)
        BY <1>2
      <3>2. WalkRight(Chain(list), walk[w]) /\ \A i \in 1..Len(list) : list[i] # n
        BY <2>1, <2>3
      <3> HIDE DEF list
      <3>3. WalkRight(Chain(InsertAt(list, p, n)), walk[w])
        BY <1>1, <2>1, <3>2, WalkSurvives
      <3> QED BY <1>3, <2>3, <3>1, <3>3
    <2> QED BY <2>2, <2>3
  <1> QED BY <1>4, <1>5, <1>6, <1>7 DEF RegistryInv

LEMMA CallbackKeeps ==
    ASSUME RegistryInv, event_callback_insert
    PROVE  RegistryInv'
  <1> DEFINE i == Min(writer.todo)
             e == Events[i]
             a == writer.app
             n == Node(a, "app_id")
             list == callbacks[e]
  <1>1. /\ writer.todo # {} /\ writer \in Registration
        /\ callbacks \in [Range(Events) -> Seq(Nodes)] /\ walk \in [Walkers -> WalkRecord]
        /\ writer = Resting \/ writer.app \in Apps
        /\ UNCHANGED <<app_list, app_num, handling, walk>>
    BY DEF RegistryInv, RegistryTyped, event_callback_insert
  <1>2. /\ callbacks' = [callbacks EXCEPT ![e] = IF Inserted(list, a) THEN list
                                                 ELSE InsertNode(list, n)]
        /\ writer' = [writer EXCEPT !.todo = writer.todo \ {i}]
    BY Zenon DEF event_callback_insert
  <1>3. writer.todo \subseteq 1..Len(Events) /\ a \in Apps
    BY <1>1 DEF Registration, Resting
  <1>4. i \in 1..Len(Events)
    <2>1. writer.todo \in SUBSET Nat
      BY <1>3
    <2>2. Min(writer.todo) \in writer.todo
      BY <1>1, <2>1, MinOfNats
    <2> QED BY <1>3, <2>2
  <1>5. e \in Range(Events)
    <2> HIDE DEF i
    <2>1. i \in DOMAIN Events
      BY <1>4, AppRegistryAssumption
    <2> QED BY <2>1 DEF Range
  <1>6. writer' \in Registration /\ writer'.app = a
    <2> HIDE DEF i
    <2> QED BY <1>1, <1>2 DEF Registration
  <1> HIDE DEF i
  <1>7. n \in Nodes /\ n.app = a /\ n.choice = "app_id"
    BY <1>3 DEF Node, Nodes
  <1>8. list \in Seq(Nodes) /\ ListRight(list) /\ priority[a] \in Int
    BY <1>1, <1>3, <1>5, AppRegistryAssumption DEF RegistryInv
  <1>9. CASE Inserted(list, a)
    <2>1. callbacks' = callbacks
      BY <1>1, <1>2, <1>5, <1>9
    <2>2. RegistryTyped'
      BY <1>1, <1>3, <1>6, <2>1 DEF RegistryInv, RegistryTyped
    <2>3. AppsUnique'
      BY <1>1 DEF RegistryInv, AppsUnique
    <2> QED BY <1>1, <2>1, <2>2, <2>3 DEF RegistryInv
  <1>10. CASE ~Inserted(list, a)
    <2>1. callbacks' = [callbacks EXCEPT ![e] = InsertNode(list, n)]
      BY <1>2, <1>10
    <2> HIDE DEF n
    <2>2. ASSUME NEW j \in 1..Len(list), list[j] = n PROVE FALSE
      <3>1. priority[list[j].app] <= priority[a]
        BY <1>7, <1>8, <2>2
      <3>2. Place(list, priority[a]) \in 1..(Len(list) + 1) /\ j < Place(list, priority[a])
        BY <1>8, <3>1, PlaceRight
      <3>3. j <= Place(list, priority[a])
        BY <3>2
      <3>4. Inserted(list, a)
        BY <1>7, <2>2, <3>3 DEF Inserted
      <3> QED BY <1>10, <3>4
    <2> HIDE DEF a, e
    <2> QED BY <1>1, <1>3, <1>5, <1>6, <1>7, <2>1, <2>2, ListsKept
  <1> QED BY <1>9, <1>10

LEMMA MessageCallbackKeeps ==
    ASSUME RegistryInv, event_callback_msg_id_insert
    PROVE  RegistryInv'
  <1>1. PICK a \in Apps, m \in Messages : \E f \in Range(Events) :
           /\ Node(a, m) \notin Range(callbacks[f])
           /\ callbacks' = [callbacks EXCEPT ![f] = InsertNode(@, Node(a, m))]
           /\ UNCHANGED <<app_list, app_num, writer, answered, handling, walk>>
    BY Zenon DEF event_callback_msg_id_insert
  <1>2. PICK e \in Range(Events) :
           /\ Node(a, m) \notin Range(callbacks[e])
           /\ callbacks' = [callbacks EXCEPT ![e] = InsertNode(@, Node(a, m))]
           /\ UNCHANGED <<app_list, app_num, writer, answered, handling, walk>>
    BY <1>1
  <1> DEFINE n == Node(a, m)
  <1>3. n \in Nodes
    BY DEF Node, Nodes
  <1>4. DOMAIN callbacks[e] = 1..Len(callbacks[e])
    BY DEF RegistryInv, RegistryTyped
  <1>5. \A i \in 1..Len(callbacks[e]) : callbacks[e][i] # n
    BY <1>2, <1>4 DEF Range
  <1>6. callbacks' = [callbacks EXCEPT ![e] = InsertNode(callbacks[e], n)]
    BY <1>2
  <1> HIDE DEF n
  <1>7. writer' \in Registration /\ (writer' = Resting \/ writer'.app \in Apps)
        /\ UNCHANGED <<app_list, app_num, handling, walk>>
    BY <1>2 DEF RegistryInv, RegistryTyped
  <1> QED BY <1>3, <1>5, <1>6, <1>7, ListsKept

-----------------------------------------------------------------------------
(* Registration up to the first callback, and its end.                     *)
LEMMA RegisterKeeps ==
    ASSUME RegistryInv, NEW a \in Apps, app_register(a)
    PROVE  RegistryInv'
  <1>1. /\ app_list \in Seq(Apps) /\ Len(app_list) \in Nat /\ app_num \in 0..255
        /\ callbacks \in [Range(Events) -> Seq(Nodes)] /\ writer \in Registration
        /\ writer = Resting \/ writer.app \in Apps
        /\ handling \in Apps \cup {NoApp} /\ walk \in [Walkers -> WalkRecord]
        /\ AppsUnique
    BY DEF RegistryInv, RegistryTyped
  <1>2. UNCHANGED <<callbacks, handling, walk>>
    BY DEF app_register
  <1>3. CASE UNCHANGED <<app_list, app_num, writer>>
    <2>1. RegistryTyped' /\ AppsUnique'
      BY <1>2, <1>3 DEF RegistryInv, RegistryTyped, AppsUnique
    <2> QED BY <1>2, <2>1 DEF RegistryInv
  <1>4. CASE /\ ~Duplicate(a)
             /\ app_list' = Append(app_list, a)
             /\ \/ UNCHANGED <<app_num, writer>>
                \/ \E ret \in app_obj_insert(a) :
                      /\ ~(ret < 0) /\ app_num' = Counted(ret)
                      /\ writer' = [app |-> a,
                                    todo |-> {i \in 1..Len(Events) : Events[i] \in wants[a]}]
    <2>1. /\ app_list' \in Seq(Apps) /\ Len(app_list') = Len(app_list) + 1
          /\ app_list'[Len(app_list) + 1] = a
          /\ \A i \in 1..Len(app_list) : app_list'[i] = app_list[i]
      BY <1>1, <1>4
    <2>2. app_num' \in 0..255 /\ writer' \in Registration
          /\ (writer' = Resting \/ writer'.app \in Apps)
      <3>1. CASE UNCHANGED <<app_num, writer>>
        BY <1>1, <3>1
      <3>2. ASSUME NEW ret \in app_obj_insert(a), ~(ret < 0), app_num' = Counted(ret),
                   writer' = [app |-> a,
                              todo |-> {i \in 1..Len(Events) : Events[i] \in wants[a]}]
            PROVE  app_num' \in 0..255 /\ writer' \in Registration /\ writer'.app \in Apps
        <4>1. ret \in Int
          <5>1. CASE app_list = << >>
            BY <3>2, <5>1, AppRegistryAssumption DEF app_obj_insert
          <5>2. CASE app_list # << >>
            <6>1. ret = Len(app_list)
              BY <3>2, <5>2 DEF app_obj_insert
            <6> QED BY <1>1, <6>1
          <5> QED BY <5>1, <5>2
        <4>2. ret + 1 \in Nat
          BY <3>2, <4>1
        <4>3. (ret + 1) % 256 \in 0..255
          BY <4>2
        <4>4. writer' \in Registration /\ writer'.app = a
          BY <3>2 DEF Registration
        <4> QED BY <3>2, <4>3, <4>4 DEF Counted
      <3> QED BY <1>4, <3>1, <3>2
    <2>3. RegistryTyped'
      BY <1>1, <1>2, <2>1, <2>2 DEF RegistryTyped
    <2>4. AppsUnique'
      <3> SUFFICES ASSUME NEW i \in 1..Len(app_list'), NEW j \in 1..Len(app_list'),
                          \/ app_id[app_list'[i]] = app_id[app_list'[j]]
                          \/ app_name[app_list'[i]] = app_name[app_list'[j]]
                   PROVE  i = j
        BY DEF AppsUnique
      <3> DEFINE n == Len(app_list) + 1
      <3>1. \A k \in 1..Len(app_list) : /\ app_id[app_list[k]] # app_id[a]
                                        /\ app_name[app_list[k]] # app_name[a]
        BY <1>4 DEF Duplicate
      <3>2. \A k \in 1..Len(app_list') :
               \/ k \in 1..Len(app_list) /\ app_list'[k] = app_list[k]
               \/ k = n /\ app_list'[k] = a
        BY <1>1, <2>1
      <3> HIDE DEF n
      <3> QED BY <1>1, <3>1, <3>2 DEF AppsUnique
    <2> QED BY <1>2, <2>3, <2>4 DEF RegistryInv
  <1> QED BY <1>3, <1>4, Zenon DEF app_register

LEMMA EndKeeps ==
    ASSUME RegistryInv, RegistrationEnds
    PROVE  RegistryInv'
  <1>1. UNCHANGED <<app_list, app_num, callbacks, handling, walk>> /\ writer' = Resting
    BY DEF RegistrationEnds
  <1>2. Resting \in Registration
    BY DEF Resting, Registration
  <1>3. RegistryTyped' /\ AppsUnique'
    BY <1>1, <1>2 DEF RegistryInv, RegistryTyped, AppsUnique
  <1> QED BY <1>1, <1>3 DEF RegistryInv

-----------------------------------------------------------------------------
(* A walk that goes on, its list left alone.                               *)
LEMMA WalkMoves ==
    ASSUME RegistryInv, NEW w \in Walkers, NEW u \in WalkRecord,
           walk' = [walk EXCEPT ![w] = u],
           WalkRight(Chain(callbacks[EventOf[w]]), u),
           handling' \in Apps \cup {NoApp},
           UNCHANGED <<app_list, app_num, callbacks, writer>>
    PROVE  RegistryInv'
  <1>1. /\ walk' \in [Walkers -> WalkRecord] /\ walk'[w] = u
        /\ \A v \in Walkers : v # w => walk'[v] = walk[v]
    BY DEF RegistryInv, RegistryTyped
  <1>2. RegistryTyped' /\ AppsUnique'
    BY <1>1 DEF RegistryInv, RegistryTyped, AppsUnique
  <1>3. ASSUME NEW v \in Walkers PROVE WalkRight(Chain(callbacks[EventOf[v]]), walk'[v])
    BY <1>1 DEF RegistryInv
  <1> QED BY <1>2, <1>3 DEF RegistryInv

(* The record of a walker in a step.                                      *)
LEMMA WalkerGoesOn ==
    ASSUME NEW u \in WalkRecord, NEW pc \in WalkStates
    PROVE  /\ [u EXCEPT !.pc = pc] \in WalkRecord
           /\ [u EXCEPT !.pc = pc].pc = pc /\ [u EXCEPT !.pc = pc].at = u.at
           /\ [u EXCEPT !.pc = pc].called = u.called /\ [u EXCEPT !.pc = pc].due = u.due
  BY DEF WalkRecord

(* Where the next step leads.                                              *)
LEMMA WalkKeeps ==
    ASSUME RegistryInv, NEW w \in Walkers, Walk(w)
    PROVE  RegistryInv'
  <1> DEFINE list == callbacks[EventOf[w]]
             c == Chain(list)
             u == walk[w]
  <1>1. /\ list \in Seq(Nodes) /\ Len(list) \in Nat /\ ListRight(list) /\ WalkRight(c, u)
        /\ walk \in [Walkers -> WalkRecord]
        /\ u \in WalkRecord /\ handling \in Apps \cup {NoApp}
    BY AppRegistryAssumption DEF RegistryInv, RegistryTyped
  <1>2. /\ c \in Seq(Points) /\ Len(c) = Len(list) + 1 /\ c[1] = ListHead
        /\ ListHead \notin Nodes
        /\ \A i \in 1..Len(list) : c[i + 1] = list[i] /\ list[i] \in Nodes
        /\ \A i, j \in 1..Len(c) : c[i] = c[j] => i = j
    BY <1>1, ChainFacts
  <1>3. u.at \in Points /\ u.called \subseteq Nodes /\ u.due \subseteq Nodes
    BY <1>1 DEF WalkRecord
  <1>4. UNCHANGED <<app_list, app_num, callbacks, writer>>
    BY DEF Walk, WalkBegins, TestNext, SetHandling, Call, Step, WalkEnds
  <1>5. ASSUME NEW k \in 1..Len(c), Passed(c, u, k)
        PROVE  /\ HasNext(w) <=> k < Len(c)
               /\ k < Len(c) => next(w) = c[k + 1] /\ next(w) \in Nodes
    BY <1>5, NextNode DEF Passed
  <1>6. \A pc \in WalkStates : pc = "test" \/ pc = "set" \/ pc = "call" \/ pc = "step"
                               \/ pc = "done" \/ pc = "idle"
    BY DEF WalkStates
  <1>7. CASE WalkBegins(w)
    <2> DEFINE place == "test"
               v == [AtHead EXCEPT !.pc = place, !.due = Range(list)]
    <2>1. walk' = [walk EXCEPT ![w] = v] /\ handling' = handling
      BY <1>7, Zenon DEF WalkBegins
    <2>2. DOMAIN list = 1..Len(list)
      BY <1>1
    <2>3. Range(list) \subseteq Nodes /\ \A n \in Range(list) : \E i \in 1..Len(list) : list[i] = n
      BY <1>2, <2>2 DEF Range
    <2>4. place \in WalkStates /\ place = "test"
      BY DEF WalkStates
    <2> HIDE DEF place, list, c, u
    <2>5. v \in WalkRecord /\ v.at = ListHead /\ v.pc = place /\ v.due = Range(list)
          /\ v.called = {}
      BY <2>3, <2>4 DEF AtHead, WalkRecord, Points
    <2> HIDE DEF v
    <2>6. Passed(c, v, 1) /\ 1 \in 1..Len(c)
      <3>1. \A n \in Range(list) : \E i \in 1..Len(c) : c[i] = n
        <4> SUFFICES ASSUME NEW n \in Range(list) PROVE \E i \in 1..Len(c) : c[i] = n
          OBVIOUS
        <4>1. PICK i \in 1..Len(list) : list[i] = n
          BY <2>3
        <4>2. i + 1 \in 1..Len(c) /\ c[i + 1] = n
          BY <1>1, <1>2, <4>1
        <4> QED BY <4>2
      <3>2. 1 \in 1..Len(c) /\ \A i \in 1..1 : c[i] \notin Range(list)
        BY <1>1, <1>2, <2>3
      <3> QED BY <1>2, <2>4, <2>5, <3>1, <3>2 DEF Passed
    <2>7. WalkRight(c, v)
      BY <2>6 DEF WalkRight
    <2> QED BY <1>1, <1>4, <2>1, <2>5, <2>7, WalkMoves DEF c, list
  <1>8. CASE TestNext(w)
    <2> DEFINE place == IF HasNext(w) THEN "set" ELSE "done"
               v == [u EXCEPT !.pc = place]
    <2>1. walk' = [walk EXCEPT ![w] = v] /\ handling' = handling /\ u.pc = "test"
      BY <1>8, Zenon DEF TestNext
    <2>2. place \in WalkStates /\ (HasNext(w) => place = "set") /\ (~HasNext(w) => place = "done")
      BY DEF WalkStates
    <2>3. PICK k \in 1..Len(c) : Passed(c, u, k)
      BY <1>1, <2>1 DEF WalkRight
    <2>4. HasNext(w) <=> k < Len(c)
      BY <1>5, <2>3
    <2> HIDE DEF place, list, c, u
    <2>5. v \in WalkRecord /\ v.pc = place /\ v.at = u.at /\ v.called = u.called /\ v.due = u.due
      BY <1>1, <2>2, WalkerGoesOn
    <2> HIDE DEF v
    <2>6. ~HasNext(w) => u.due \subseteq u.called
      <3> SUFFICES ASSUME ~HasNext(w), NEW n \in u.due PROVE n \in u.called
        OBVIOUS
      <3>1. k = Len(c)
        BY <1>1, <1>2, <2>3, <2>4
      <3>2. PICK i \in 1..Len(c) : c[i] = n
        BY <2>3 DEF Passed
      <3> QED BY <2>3, <3>1, <3>2 DEF Passed
    <2>7. Passed(c, v, k)
      BY <2>2, <2>3, <2>4, <2>5, <2>6 DEF Passed
    <2>8. WalkRight(c, v)
      BY <2>7 DEF WalkRight
    <2> QED BY <1>1, <1>4, <2>1, <2>5, <2>8, WalkMoves DEF c, list, u
  <1>9. CASE SetHandling(w)
    <2> DEFINE place == "call"
               v == [u EXCEPT !.pc = place]
    <2>1. walk' = [walk EXCEPT ![w] = v] /\ handling' = next(w).app /\ u.pc = "set"
      BY <1>9, Zenon DEF SetHandling
    <2>2. place \in WalkStates /\ place = "call"
      BY DEF WalkStates
    <2>3. PICK k \in 1..Len(c) : Passed(c, u, k)
      BY <1>1, <2>1 DEF WalkRight
    <2>4. k < Len(c)
      BY <2>1, <2>3 DEF Passed
    <2>5. next(w).app \in Apps
      BY <1>5, <2>3, <2>4, NodePriority
    <2> HIDE DEF place, list, c, u
    <2>6. v \in WalkRecord /\ v.pc = place /\ v.at = u.at /\ v.called = u.called /\ v.due = u.due
      BY <1>1, <2>2, WalkerGoesOn
    <2> HIDE DEF v
    <2>7. Passed(c, v, k)
      BY <2>2, <2>3, <2>4, <2>6 DEF Passed
    <2>8. WalkRight(c, v)
      BY <2>7 DEF WalkRight
    <2> QED BY <1>4, <2>1, <2>5, <2>6, <2>8, WalkMoves DEF c, list, u
  <1>10. CASE Call(w)
    <2> DEFINE place == "step"
               called == u.called \cup {next(w)}
               v == [u EXCEPT !.called = called, !.pc = place]
    <2>1. walk' = [walk EXCEPT ![w] = v] /\ handling' = handling /\ u.pc = "call"
      BY <1>10, Zenon DEF Call
    <2>2. place \in WalkStates /\ place = "step"
      BY DEF WalkStates
    <2>3. PICK k \in 1..Len(c) : Passed(c, u, k)
      BY <1>1, <2>1 DEF WalkRight
    <2>4. k < Len(c)
      BY <2>1, <2>3 DEF Passed
    <2>5. next(w) = c[k + 1] /\ next(w) \in Nodes
      BY <1>5, <2>3, <2>4
    <2>6. called \in SUBSET Nodes /\ u.called \subseteq called /\ next(w) \in called
      BY <1>3, <2>5
    <2>10. v = [u EXCEPT !.called = called, !.pc = place]
      OBVIOUS
    <2> HIDE DEF place, list, c, u, called, v
    <2>7. v \in WalkRecord /\ v.pc = place /\ v.at = u.at /\ v.called = called /\ v.due = u.due
      BY <1>1, <2>2, <2>6, <2>10 DEF WalkRecord
    <2>8. Passed(c, v, k)
      BY <2>2, <2>3, <2>4, <2>5, <2>6, <2>7 DEF Passed
    <2>9. WalkRight(c, v)
      BY <2>8 DEF WalkRight
    <2> QED BY <1>1, <1>4, <2>1, <2>7, <2>9, WalkMoves DEF c, list, u
  <1>11. CASE Step(w)
    <2> DEFINE place == "test"
               v == [u EXCEPT !.at = next(w), !.pc = place]
    <2>1. walk' = [walk EXCEPT ![w] = v] /\ handling' = handling /\ u.pc = "step"
      BY <1>11, Zenon DEF Step
    <2>2. place \in WalkStates /\ place = "test"
      BY DEF WalkStates
    <2>3. PICK k \in 1..Len(c) : Passed(c, u, k)
      BY <1>1, <2>1 DEF WalkRight
    <2>4. k < Len(c)
      BY <2>1, <2>3 DEF Passed
    <2>5. next(w) = c[k + 1] /\ next(w) \in Nodes /\ next(w) \in Points
      BY <1>5, <2>3, <2>4 DEF Points
    <2>10. v = [u EXCEPT !.at = next(w), !.pc = place]
      OBVIOUS
    <2> HIDE DEF place, list, c, u, v
    <2>6. v \in WalkRecord /\ v.pc = place /\ v.at = next(w) /\ v.called = u.called
          /\ v.due = u.due
      BY <1>1, <2>2, <2>5, <2>10 DEF WalkRecord
    <2>7. k + 1 \in 1..Len(c) /\ \A i \in 1..(k + 1) : i \in 1..k \/ i = k + 1
      BY <1>1, <1>2, <2>4
    <2>8. Passed(c, v, k + 1)
      <3>1. u.due = v.due /\ c[k + 1] \in u.due => c[k + 1] \in u.called
        BY <2>1, <2>3 DEF Passed
      <3> QED BY <2>2, <2>3, <2>5, <2>6, <2>7, <3>1 DEF Passed
    <2>9. WalkRight(c, v)
      BY <2>7, <2>8 DEF WalkRight
    <2> QED BY <1>1, <1>4, <2>1, <2>6, <2>9, WalkMoves DEF c, list, u
  <1>12. CASE WalkEnds(w)
    <2>1. walk' = [walk EXCEPT ![w] = AtHead] /\ handling' = handling
      BY <1>12 DEF WalkEnds
    <2>2. AtHead \in WalkRecord /\ AtHead.pc = "idle"
      BY DEF AtHead, WalkRecord, WalkStates, Points
    <2>3. WalkRight(c, AtHead)
      BY <2>2 DEF WalkRight
    <2> QED BY <1>1, <1>4, <2>1, <2>2, <2>3, WalkMoves
  <1> QED BY <1>7, <1>8, <1>9, <1>10, <1>11, <1>12 DEF Walk

LEMMA RegistryStarts == RegistryInit => RegistryInv
  <1> SUFFICES ASSUME RegistryInit PROVE RegistryInv
    OBVIOUS
  <1>1. AtHead \in WalkRecord /\ AtHead.pc = "idle" /\ Resting \in Registration
    BY DEF AtHead, WalkRecord, WalkStates, Points, Resting, Registration
  <1>2. RegistryTyped
    BY <1>1 DEF RegistryInit, RegistryTyped
  <1>3. AppsUnique /\ \A e \in Range(Events) : ListRight(callbacks[e])
    BY DEF RegistryInit, AppsUnique, ListRight
  <1>4. \A w \in Walkers : WalkRight(Chain(callbacks[EventOf[w]]), walk[w])
    BY <1>1 DEF RegistryInit, WalkRight
  <1> QED BY <1>2, <1>3, <1>4 DEF RegistryInv

LEMMA RegistryStep == RegistryInv /\ [RegistryNext]_registryVars => RegistryInv'
  <1> SUFFICES ASSUME RegistryInv, [RegistryNext]_registryVars PROVE RegistryInv'
    OBVIOUS
  <1>1. ASSUME NEW i \in 1..Len(Internal), app_register(Internal[i]) PROVE RegistryInv'
    <2>1. Internal[i] \in Apps
      BY AppRegistryAssumption
    <2> QED BY <1>1, <2>1, RegisterKeeps
  <1>2. CASE RegisterInternal
    BY <1>1, <1>2 DEF RegisterInternal
  <1>3. CASE RegisterExternal
    BY <1>3, RegisterKeeps DEF RegisterExternal, Apps
  <1>4. CASE event_callback_insert
    BY <1>4, CallbackKeeps
  <1>5. CASE RegistrationEnds
    BY <1>5, EndKeeps
  <1>6. CASE event_callback_msg_id_insert
    BY <1>6, MessageCallbackKeeps
  <1>7. CASE \E w \in Walkers : Walk(w)
    BY <1>7, WalkKeeps
  <1>8. CASE UNCHANGED registryVars
    BY <1>8 DEF registryVars, RegistryInv, RegistryTyped, AppsUnique
  <1> QED BY <1>2, <1>3, <1>4, <1>5, <1>6, <1>7, <1>8 DEF RegistryNext

(* Whatever applications register, and while threads walk the lists        *)
(* without their lock: names and ids stay unique, the lists sorted and     *)
(* without doubles, and a walk calls every callback that was there when it *)
(* began.                                                                  *)
THEOREM CallbacksStayInOrder == RegistrySpec => []CallbacksInOrder
  <1>1. RegistryInv => CallbacksInOrder
    BY RegistryInvImplies
  <1> QED BY <1>1, RegistryStarts, RegistryStep, PTL DEF RegistrySpec

-----------------------------------------------------------------------------
(* The proxy for external applications.                                    *)

\* Quotient and remainder.
LEMMA DivMod ==
    ASSUME NEW M \in Nat \ {0}, NEW x \in Nat
    PROVE  /\ x % M \in 0..(M - 1) /\ x \div M \in Int
           /\ x = M * (x \div M) + (x % M)
OBVIOUS

\* A positive multiple of M is at least M.
LEMMA PositiveMultiple ==
    ASSUME NEW M \in Nat \ {0}, NEW d \in Int, d > 0
    PROVE  M * d >= M
OBVIOUS

\* Less than two turns: the quotient.
LEMMA TurnsMade ==
    ASSUME NEW M \in Nat \ {0}, NEW x \in Nat, x < M + M
    PROVE  x \div M = IF x < M THEN 0 ELSE 1
<1> DEFINE q == x \div M
           r == x % M
<1>1. r \in 0..(M - 1) /\ q \in Int /\ x = M * q + r
  BY DivMod
<1> HIDE DEF q, r
<1>2. q >= 0
  <2>1. CASE -q > 0
    <3>1. M * (-q) >= M
      BY <2>1, <1>1, PositiveMultiple
    <3>2. M * (-q) = -(M * q)
      BY <1>1
    <3> QED BY <3>1, <3>2, <1>1
  <2> QED BY <2>1, <1>1
<1>3. q <= 1
  <2>1. CASE q - 1 > 0
    <3>1. M * (q - 1) >= M
      BY <2>1, <1>1, PositiveMultiple
    <3>2. M * (q - 1) = (M * q) - M
      BY <1>1
    <3> QED BY <3>1, <3>2, <1>1
  <2> QED BY <2>1, <1>1
<1>4. CASE q = 0
  BY <1>1, <1>4 DEF q
<1>5. CASE q = 1
  BY <1>1, <1>5 DEF q
<1> QED BY <1>1, <1>2, <1>3, <1>4, <1>5

\* Less than two turns modulo the size.
LEMMA Wrap ==
    ASSUME NEW M \in Nat \ {0}, NEW x \in Nat, x < M + M
    PROVE  x % M = IF x < M THEN x ELSE x - M
<1> DEFINE q == x \div M
           r == x % M
<1>1. r \in 0..(M - 1) /\ q \in Int /\ x = M * q + r
  BY DivMod
<1>2. q = IF x < M THEN 0 ELSE 1
  BY TurnsMade
<1> HIDE DEF q, r
<1>3. CASE q = 0
  BY <1>1, <1>2, <1>3 DEF r
<1>4. CASE q = 1
  BY <1>1, <1>2, <1>4 DEF r
<1> QED BY <1>1, <1>2, <1>3, <1>4

-----------------------------------------------------------------------------
Packets == {<< >>, <<"TOP">>, <<"BOT">>, <<"REPORT">>, <<"REQ">>}
LinkRecord == [proc : Procs, in : Packets, answer : {"none", "ok", "refused"},
               up : BOOLEAN, served : BOOLEAN]
EaInfo == [known : BOOLEAN, interact_fd : Fds \cup {0}, notify_fd : Fds \cup {0},
           rc : 0..(RcWidth - 1), pid : Procs \cup {NoProc}]
Places == {"new", "top", "bot", "up", "dead"}
ClientRecord == [pc : Places, interact : Nat, notify : Nat]

ConnectionsTyped ==
    /\ link \in Seq(LinkRecord)
    /\ backlog \in Seq(1..Len(link))
    /\ table \in [Fds -> 0..Len(link)]

ProxyTyped ==
    /\ ConnectionsTyped
    /\ watched \subseteq Fds
    /\ batch \subseteq Fds \cup {TimerFd, ListenFd}
    /\ ListenFd \in batch => backlog # << >>
    /\ apps \in [AppIds -> EaInfo]
    /\ beat \in 0..(RcWidth - 1)
    /\ quiet \in [AppIds -> Nat]
    /\ client \in [Procs -> ClientRecord]
    /\ notify \in [part : 0..2, fd : Fds \cup {0}]

(* The counters of a linked application tell how long it has been quiet.   *)
SilenceCounted ==
    \A a \in AppIds : Linked(a) => quiet[a] = RecordDiff(a) /\ quiet[a] <= Allowed + 1

(* Nobody who waits to be accepted ends before the answer, when clients    *)
(* are calm: where the process is tells which connection waits.            *)
Waits(c, at, i) ==
    /\ c.answer = "none" /\ c.up
    /\ \/ at[c.proc].pc = "top" /\ at[c.proc].interact = i
       \/ at[c.proc].pc = "bot" /\ at[c.proc].notify = i
BacklogWaits ==
    /\ \A j, k \in 1..Len(backlog) : backlog[j] = backlog[k] => j = k
    /\ \A k \in 1..Len(backlog) : Waits(link[backlog[k]], client, backlog[k])

ProxyInv ==
    /\ ProxyTyped /\ SilenceCounted
    /\ calm \in BOOLEAN
    /\ calm => BacklogWaits /\ ChannelsBelong

LEMMA ProxyInvImplies == ProxyInv => LinksRight
  <1> SUFFICES ASSUME ProxyInv PROVE LinksRight
    OBVIOUS
  <1>1. ProxyTypeOK
    BY DEF ProxyInv, ProxyTyped, ConnectionsTyped, ProxyTypeOK, EaInfo
  <1>2. SilenceBounded
    BY DEF ProxyInv, SilenceCounted, SilenceBounded
  <1> QED BY <1>1, <1>2 DEF ProxyInv, LinksRight, SilentAppsUnlinked

LEMMA ProxyStarts == ProxyInit => ProxyInv
  <1> SUFFICES ASSUME ProxyInit PROVE ProxyInv
    OBVIOUS
  <1>1. RcWidth \in Nat /\ 0 \in 0..(RcWidth - 1)
    BY AppProxyAssumption
  <1>2. link = << >> /\ Len(link) = 0 /\ link \in Seq(LinkRecord)
        /\ backlog = << >> /\ backlog \in Seq(1..Len(link)) /\ Len(backlog) = 0
    BY DEF ProxyInit
  <1>3. apps \in [AppIds -> EaInfo] /\ \A a \in AppIds : ~Linked(a) /\ apps[a] = Unlinked
    BY <1>1 DEF ProxyInit, Unlinked, EaInfo, Linked
  <1>4. client \in [Procs -> ClientRecord] /\ notify \in [part : 0..2, fd : Fds \cup {0}]
    BY DEF ProxyInit, ClientRecord, Places, NotForwarding
  <1>5. ProxyTyped
    BY <1>1, <1>2, <1>3, <1>4 DEF ProxyInit, ProxyTyped, ConnectionsTyped
  <1>6. SilenceCounted
    BY <1>3 DEF SilenceCounted
  <1>7. BacklogWaits /\ ChannelsBelong
    BY <1>2, <1>3 DEF BacklogWaits, ChannelsBelong, Unlinked
  <1> QED BY <1>5, <1>6, <1>7 DEF ProxyInv, ProxyInit

-----------------------------------------------------------------------------
(* What a step that leaves the applications alone keeps.                   *)
LEMMA CountsKept ==
    ASSUME SilenceCounted, UNCHANGED <<apps, beat, quiet>>
    PROVE  SilenceCounted'
  BY DEF SilenceCounted, Linked, RecordDiff

LEMMA ChannelsKept ==
    ASSUME ProxyTyped, ChannelsBelong, UNCHANGED <<apps, table>>,
           \A i \in 1..Len(link) : link'[i].proc = link[i].proc
    PROVE  ChannelsBelong'
  <1> SUFFICES ASSUME NEW a \in AppIds,
                      NEW f \in {apps[a].interact_fd, apps[a].notify_fd} \ {0}
               PROVE  /\ table[f] # 0
                      /\ link'[table[f]].proc = apps[a].pid
                      /\ AppsOfFd(f)' = {a}
                      /\ apps[a].interact_fd # apps[a].notify_fd
    BY DEF ChannelsBelong
  <1>1. f \in Fds
    BY DEF ProxyTyped, EaInfo
  <1>2. table[f] \in 0..Len(link) /\ Len(link) \in Nat
    BY <1>1 DEF ProxyTyped, ConnectionsTyped
  <1>3. /\ table[f] # 0 /\ link[table[f]].proc = apps[a].pid
        /\ AppsOfFd(f) = {a} /\ apps[a].interact_fd # apps[a].notify_fd
    BY DEF ChannelsBelong
  <1>4. AppsOfFd(f)' = AppsOfFd(f)
    BY DEF AppsOfFd
  <1> QED BY <1>2, <1>3, <1>4

LEMMA BacklogKept ==
    ASSUME ConnectionsTyped, BacklogWaits, backlog' = backlog,
           \A i \in 1..Len(link) : Waits(link[i], client, i) => Waits(link'[i], client', i)
    PROVE  BacklogWaits'
  <1>1. \A k \in 1..Len(backlog) : backlog[k] \in 1..Len(link)
    BY DEF ConnectionsTyped
  <1> QED BY <1>1 DEF BacklogWaits

-----------------------------------------------------------------------------
(* Client processes.                                                       *)
LEMMA ConnectKeeps ==
    ASSUME ProxyInv, NEW p \in Procs, NEW packet \in {"TOP", "BOT"}, Connect(p, packet),
           NEW c \in ClientRecord, client' = [client EXCEPT ![p] = c],
           \/ packet = "TOP" /\ c.pc = "top" /\ c.interact = Len(link) + 1
           \/ packet = "BOT" /\ c.pc = "bot" /\ c.notify = Len(link) + 1,
           \A i \in 1..Len(link) : Waits(link[i], client, i) => link[i].proc # p,
           UNCHANGED <<calm, table, watched, batch, apps, beat, due, quiet, notify>>
    PROVE  ProxyInv'
  <1> DEFINE new == Connection(p, packet)
             n == Len(link) + 1
             numbers == 1..n
  <1>1. new \in LinkRecord /\ new.proc = p /\ new.answer = "none" /\ new.up = TRUE
    BY DEF Connection, LinkRecord, Packets
  <1>2. link \in Seq(LinkRecord) /\ Len(link) \in Nat /\ backlog \in Seq(1..Len(link))
    BY DEF ProxyInv, ProxyTyped, ConnectionsTyped
  <1>3. link' = Append(link, new) /\ backlog' = Append(backlog, n)
    BY DEF Connect
  <1> HIDE DEF new
  <1>4. /\ link' \in Seq(LinkRecord) /\ Len(link') = n /\ link'[n] = new
        /\ \A i \in 1..Len(link) : link'[i] = link[i]
    BY <1>1, <1>2, <1>3
  <1>5. backlog \in Seq(numbers) /\ n \in numbers
    BY <1>2, SeqMonotonic, 1..Len(link) \subseteq 1..n
  <1>6. /\ backlog' \in Seq(1..n) /\ Len(backlog') = Len(backlog) + 1
        /\ backlog'[Len(backlog) + 1] = n
        /\ \A k \in 1..Len(backlog) : backlog'[k] = backlog[k]
        /\ Len(backlog) \in Nat /\ backlog' # << >>
    <2> HIDE DEF numbers, n
    <2>1. /\ backlog' \in Seq(numbers) /\ Len(backlog') = Len(backlog) + 1
          /\ backlog'[Len(backlog) + 1] = n
          /\ \A k \in 1..Len(backlog) : backlog'[k] = backlog[k]
          /\ Len(backlog) \in Nat /\ backlog' # << >>
      BY <1>3, <1>5
    <2> QED BY <2>1 DEF numbers
  <1> HIDE DEF numbers
  <1>7. table \in [Fds -> 0..n]
    <2>1. table \in [Fds -> 0..Len(link)] /\ 0..Len(link) \subseteq 0..n
      BY <1>2 DEF ProxyInv, ProxyTyped, ConnectionsTyped
    <2> QED BY <2>1
  <1>8. ProxyTyped'
    <2>1. client' \in [Procs -> ClientRecord]
      BY DEF ProxyInv, ProxyTyped
    <2> QED BY <1>4, <1>6, <1>7, <2>1 DEF ProxyInv, ProxyTyped, ConnectionsTyped
  <1>9. SilenceCounted'
    BY CountsKept DEF ProxyInv
  <1>10. ASSUME calm PROVE BacklogWaits'
    <2>1. BacklogWaits
      BY <1>10 DEF ProxyInv
    <2>2. client \in [Procs -> ClientRecord] /\ client'[p] = c
          /\ \A q \in Procs \ {p} : client'[q] = client[q]
      BY DEF ProxyInv, ProxyTyped
    <2>3. ASSUME NEW i \in 1..Len(link), Waits(link[i], client, i)
          PROVE  Waits(link'[i], client', i)
      <3>1. link[i] \in LinkRecord
        BY <1>2, ElementOfSeq
      <3>2. link'[i] = link[i] /\ link[i].proc # p /\ link[i].proc \in Procs
        BY <1>4, <2>3, <3>1 DEF LinkRecord
      <3>3. client'[link[i].proc] = client[link[i].proc]
        BY <2>2, <3>2
      <3> QED BY <2>3, <3>2, <3>3 DEF Waits
    <2>4. Waits(link'[n], client', n)
      BY <1>1, <1>4, <2>2 DEF Waits
    <2>5. \A k \in 1..Len(backlog) :
             backlog[k] \in 1..Len(link) /\ Waits(link[backlog[k]], client, backlog[k])
      BY <1>2, <2>1 DEF BacklogWaits
    <2>6. ASSUME NEW k \in 1..Len(backlog')
          PROVE  Waits(link'[backlog'[k]], client', backlog'[k])
      <3>1. CASE k \in 1..Len(backlog)
        <4>1. backlog'[k] = backlog[k]
          BY <1>6, <3>1
        <4> QED BY <2>3, <2>5, <3>1, <4>1
      <3>2. CASE k = Len(backlog) + 1
        BY <1>6, <2>4, <3>2
      <3> QED BY <1>6, <3>1, <3>2
    <2>7. ASSUME NEW j \in 1..Len(backlog'), NEW k \in 1..Len(backlog'),
                 backlog'[j] = backlog'[k]
          PROVE  j = k
      <3>1. \A l \in 1..Len(backlog) : backlog[l] # n
        BY <1>2, <2>5
      <3>2. \A l, m \in 1..Len(backlog) : backlog[l] = backlog[m] => l = m
        BY <2>1 DEF BacklogWaits
      <3> HIDE DEF n
      <3>3. \A l \in 1..Len(backlog') : l \in 1..Len(backlog) \/ l = Len(backlog) + 1
        BY <1>6
      <3> QED BY <1>6, <2>7, <3>1, <3>2, <3>3
    <2> QED BY <2>6, <2>7 DEF BacklogWaits
  <1>11. ASSUME calm PROVE ChannelsBelong'
    BY <1>4, <1>11, ChannelsKept DEF ProxyInv
  <1> QED BY <1>8, <1>9, <1>10, <1>11 DEF ProxyInv

(* A step that leaves the descriptors and the applications alone, and the  *)
(* waiting clients of a calm behaviour where they are.                     *)
LEMMA QuietStep ==
    ASSUME ProxyInv, link' \in Seq(LinkRecord), Len(link') = Len(link),
           \A i \in 1..Len(link) : link'[i].proc = link[i].proc,
           client' \in [Procs -> ClientRecord],
           calm => \A i \in 1..Len(link) :
                      Waits(link[i], client, i) => Waits(link'[i], client', i),
           batch' \subseteq Fds \cup {TimerFd, ListenFd},
           ListenFd \in batch' => backlog # << >>,
           notify' \in [part : 0..2, fd : Fds \cup {0}],
           UNCHANGED <<calm, backlog, table, watched, apps, beat, quiet>>
    PROVE  ProxyInv'
  <1>1. ProxyTyped'
    BY DEF ProxyInv, ProxyTyped, ConnectionsTyped
  <1>2. SilenceCounted'
    BY CountsKept DEF ProxyInv
  <1>3. calm => BacklogWaits'
    BY BacklogKept DEF ProxyInv, ProxyTyped
  <1>4. calm => ChannelsBelong'
    BY ChannelsKept DEF ProxyInv
  <1> QED BY <1>1, <1>2, <1>3, <1>4 DEF ProxyInv

(* A process that goes on.                                                 *)
LEMMA ClientMoves ==
    ASSUME NEW c \in ClientRecord, NEW place \in Places
    PROVE  [c EXCEPT !.pc = place] \in ClientRecord
  BY DEF ClientRecord

(* Records of connections whose ends are closed.                           *)
LEMMA EndsClosed ==
    ASSUME NEW c \in LinkRecord
    PROVE  LET up == [c EXCEPT !.up = FALSE]
               served == [c EXCEPT !.served = FALSE]
           IN  /\ up \in LinkRecord /\ up.proc = c.proc /\ up.answer = c.answer
               /\ served \in LinkRecord /\ served.proc = c.proc
               /\ served.answer = c.answer /\ served.up = c.up
  <1> DEFINE no == FALSE
             up == [c EXCEPT !.up = no]
             served == [c EXCEPT !.served = no]
  <1>1. no \in BOOLEAN
    OBVIOUS
  <1>2. up = [c EXCEPT !.up = FALSE] /\ served = [c EXCEPT !.served = FALSE]
    BY Zenon
  <1> HIDE DEF no
  <1>3. /\ up \in LinkRecord /\ up.proc = c.proc /\ up.answer = c.answer
        /\ served \in LinkRecord /\ served.proc = c.proc
        /\ served.answer = c.answer /\ served.up = c.up
    BY <1>1 DEF LinkRecord
  <1> QED BY <1>2, <1>3, Zenon

LEMMA EndsKeep ==
    ASSUME ProxyInv, NEW p \in Procs, ProcessEnds(p), calm' = calm,
           calm => \A i \in 1..Len(link) :
                      Waits(link[i], client, i) => link[i].proc # p
    PROVE  ProxyInv'
  <1> DEFINE down(i) == [link[i] EXCEPT !.up = FALSE]
             after(i) == IF link[i].proc = p THEN down(i) ELSE link[i]
  <1>1. link \in Seq(LinkRecord) /\ Len(link) \in Nat /\ DOMAIN link = 1..Len(link)
    BY DEF ProxyInv, ProxyTyped, ConnectionsTyped
  <1>2. \A i \in 1..Len(link) : link[i] \in LinkRecord
    BY <1>1
  <1>3. \A i \in 1..Len(link) : down(i) \in LinkRecord /\ down(i).proc = link[i].proc
    BY <1>2, EndsClosed
  <1>4. link' = [i \in 1..Len(link) |-> after(i)]
    BY <1>1, Zenon DEF ProcessEnds
  <1> HIDE DEF down
  <1>5. \A i \in 1..Len(link) : after(i) \in LinkRecord /\ after(i).proc = link[i].proc
    BY <1>2, <1>3
  <1>6. \A i \in 1..Len(link) : link[i].proc # p => after(i) = link[i]
    OBVIOUS
  <1> HIDE DEF after
  <1>7. /\ link' \in Seq(LinkRecord) /\ Len(link') = Len(link)
        /\ \A i \in 1..Len(link) : link'[i] = after(i)
    BY <1>1, <1>4, <1>5
  <1>8. /\ client' \in [Procs -> ClientRecord]
        /\ \A q \in Procs \ {p} : client'[q] = client[q]
    <2>1. client' = [client EXCEPT ![p].pc = "dead"]
      BY Zenon DEF ProcessEnds
    <2>2. client \in [Procs -> ClientRecord] /\ "dead" \in Places
      BY DEF ProxyInv, ProxyTyped, Places
    <2>3. [client[p] EXCEPT !.pc = "dead"] \in ClientRecord
      BY <2>2, ClientMoves
    <2> DEFINE c == [client[p] EXCEPT !.pc = "dead"]
    <2>4. client' = [client EXCEPT ![p] = c]
      BY <2>1, Zenon
    <2> HIDE DEF c
    <2> QED BY <2>2, <2>3, <2>4 DEF c
  <1>9. ASSUME calm, NEW i \in 1..Len(link), Waits(link[i], client, i)
        PROVE  Waits(link'[i], client', i)
    <2>1. link[i].proc # p /\ link[i].proc \in Procs
      BY <1>2, <1>9 DEF LinkRecord
    <2> QED BY <1>6, <1>7, <1>8, <1>9, <2>1 DEF Waits
  <1>10. /\ UNCHANGED <<calm, backlog, table, watched, apps, beat, quiet>>
         /\ batch' = batch /\ notify' = notify
    BY DEF ProcessEnds
  <1> QED BY <1>5, <1>7, <1>8, <1>9, <1>10, QuietStep DEF ProxyInv, ProxyTyped

(* Taking a packet from a connection, or putting one on it.                *)
LEMMA PacketRecord ==
    ASSUME NEW c \in LinkRecord, NEW in \in Packets
    PROVE  LET d == [c EXCEPT !.in = in]
           IN  d \in LinkRecord /\ d.proc = c.proc /\ d.answer = c.answer /\ d.up = c.up
  BY DEF LinkRecord

LEMMA PacketMoves ==
    ASSUME ProxyInv, NEW k, NEW in \in Packets, link' = [link EXCEPT ![k].in = in]
    PROVE  /\ link' \in Seq(LinkRecord) /\ Len(link') = Len(link)
           /\ \A i \in 1..Len(link) : /\ link'[i].proc = link[i].proc
                                      /\ link'[i].answer = link[i].answer
                                      /\ link'[i].up = link[i].up
  <1> DEFINE d == [link[k] EXCEPT !.in = in]
  <1>1. link \in Seq(LinkRecord) /\ Len(link) \in Nat /\ DOMAIN link = 1..Len(link)
    BY DEF ProxyInv, ProxyTyped, ConnectionsTyped
  <1>2. link' = [link EXCEPT ![k] = d]
    OBVIOUS
  <1>3. CASE k \notin 1..Len(link)
    <2>1. link' = link
      BY <1>1, <1>2, <1>3
    <2> QED BY <1>1, <2>1
  <1>4. CASE k \in 1..Len(link)
    <2>1. link[k] \in LinkRecord
      BY <1>1, <1>4
    <2>2. d \in LinkRecord /\ d.proc = link[k].proc /\ d.answer = link[k].answer
          /\ d.up = link[k].up
      BY <2>1, PacketRecord
    <2> HIDE DEF d
    <2> QED BY <1>1, <1>2, <1>4, <2>2
  <1> QED BY <1>3, <1>4

LEMMA ClientKeeps ==
    ASSUME ProxyInv, NEW p \in Procs, Client(p), calm' = calm
    PROVE  ProxyInv'
  <1>1. /\ client \in [Procs -> ClientRecord] /\ client[p] \in ClientRecord
        /\ Len(link) \in Nat /\ link \in Seq(LinkRecord)
    BY DEF ProxyInv, ProxyTyped, ConnectionsTyped
  <1>2. /\ batch \subseteq Fds \cup {TimerFd, ListenFd}
        /\ ListenFd \in batch => backlog # << >>
        /\ notify \in [part : 0..2, fd : Fds \cup {0}]
    BY DEF ProxyInv, ProxyTyped
  <1>3. CASE ConnectInteract(p)
    <2> DEFINE c == [client[p] EXCEPT !.pc = "top", !.interact = Len(link) + 1]
    <2>1. c \in ClientRecord /\ c.pc = "top" /\ c.interact = Len(link) + 1
      <3> DEFINE place == "top"
                 n == Len(link) + 1
                 d == [client[p] EXCEPT !.pc = place, !.interact = n]
      <3>1. n \in Nat /\ place \in Places
        BY <1>1 DEF Places
      <3>2. c = d
        BY Zenon
      <3> HIDE DEF c, n, place
      <3>3. d \in ClientRecord /\ d.pc = place /\ d.interact = n
        BY <1>1, <3>1 DEF ClientRecord
      <3> QED BY <3>2, <3>3 DEF place, n
    <2>2. client[p].pc = "new" /\ Connect(p, "TOP")
          /\ client' = [client EXCEPT ![p] = c]
          /\ UNCHANGED <<calm, table, watched, batch, apps, beat, due, quiet, notify>>
      BY <1>3, Zenon DEF ConnectInteract
    <2>3. \A i \in 1..Len(link) : Waits(link[i], client, i) => link[i].proc # p
      BY <2>2 DEF Waits
    <2> HIDE DEF c
    <2> QED BY <2>1, <2>2, <2>3, ConnectKeeps
  <1>4. CASE ConnectNotify(p)
    <2> DEFINE c == [client[p] EXCEPT !.pc = "bot", !.notify = Len(link) + 1]
    <2>1. c \in ClientRecord /\ c.pc = "bot" /\ c.notify = Len(link) + 1
      <3> DEFINE place == "bot"
                 n == Len(link) + 1
                 d == [client[p] EXCEPT !.pc = place, !.notify = n]
      <3>1. n \in Nat /\ place \in Places
        BY <1>1 DEF Places
      <3>2. c = d
        BY Zenon
      <3> HIDE DEF c, n, place
      <3>3. d \in ClientRecord /\ d.pc = place /\ d.notify = n
        BY <1>1, <3>1 DEF ClientRecord
      <3> QED BY <3>2, <3>3 DEF place, n
    <2>2. client[p].pc = "top" /\ Connect(p, "BOT")
          /\ link[client[p].interact].answer = "ok"
          /\ client' = [client EXCEPT ![p] = c]
          /\ UNCHANGED <<calm, table, watched, batch, apps, beat, due, quiet, notify>>
      BY <1>4, Zenon DEF ConnectNotify
    <2>3. \A i \in 1..Len(link) : Waits(link[i], client, i) => link[i].proc # p
      BY <2>2 DEF Waits
    <2> HIDE DEF c
    <2> QED BY <2>1, <2>2, <2>3, ConnectKeeps
  <1>5. CASE Registered(p)
    <2>1. client[p].pc = "bot" /\ link[client[p].notify].answer = "ok"
          /\ client' = [client EXCEPT ![p].pc = "up"]
          /\ UNCHANGED <<link, backlog, table, watched, batch, apps, beat, quiet, notify>>
      BY <1>5 DEF Registered
    <2> DEFINE c == [client[p] EXCEPT !.pc = "up"]
    <2>2. /\ client' \in [Procs -> ClientRecord]
          /\ \A q \in Procs \ {p} : client'[q] = client[q]
      <3>1. "up" \in Places
        BY DEF Places
      <3>2. c \in ClientRecord
        BY <1>1, <3>1, ClientMoves
      <3>3. client' = [client EXCEPT ![p] = c]
        BY <2>1, Zenon
      <3> HIDE DEF c
      <3> QED BY <1>1, <3>2, <3>3
    <2>3. ASSUME NEW i \in 1..Len(link), Waits(link[i], client, i)
          PROVE  Waits(link'[i], client', i)
      <3>1. link[i] \in LinkRecord
        BY <1>1
      <3>2. link[i].proc # p /\ link[i].proc \in Procs
        BY <2>1, <2>3, <3>1 DEF Waits, LinkRecord
      <3> QED BY <2>1, <2>2, <2>3, <3>2 DEF Waits
    <2> QED BY <1>1, <1>2, <2>1, <2>2, <2>3, QuietStep
  <1>6. CASE RegistrationRefused(p)
    <2>1. client[p].pc = "bot" /\ link[client[p].notify].answer = "refused" /\ ProcessEnds(p)
      BY <1>6 DEF RegistrationRefused
    <2>2. \A i \in 1..Len(link) : Waits(link[i], client, i) => link[i].proc # p
      BY <2>1 DEF Waits
    <2> QED BY <2>1, <2>2, EndsKeep
  <1>7. CASE SendPacket(p)
    <2> DEFINE k == client[p].interact
    <2>1. PICK packet \in {"REPORT", "REQ"} : link' = [link EXCEPT ![k].in = <<packet>>]
      BY <1>7 DEF SendPacket
    <2>2. <<packet>> \in Packets
      BY DEF Packets
    <2>3. UNCHANGED <<backlog, table, watched, batch, apps, beat, quiet, client, notify>>
      BY <1>7 DEF SendPacket
    <2> DEFINE in == <<packet>>
    <2> HIDE DEF k, in
    <2>4. link' = [link EXCEPT ![k].in = in] /\ in \in Packets
      BY <2>1, <2>2 DEF in
    <2>5. /\ link' \in Seq(LinkRecord) /\ Len(link') = Len(link)
          /\ \A i \in 1..Len(link) : /\ link'[i].proc = link[i].proc
                                     /\ link'[i].answer = link[i].answer
                                     /\ link'[i].up = link[i].up
      BY <2>4, PacketMoves
    <2>6. \A i \in 1..Len(link) :
             Waits(link[i], client, i) => Waits(link'[i], client', i)
      BY <2>3, <2>5 DEF Waits
    <2> QED BY <1>1, <1>2, <2>3, <2>5, <2>6, QuietStep
  <1>8. CASE ProcessCrashes(p)
    <2>1. calm => client[p].pc = "up"
      BY <1>8 DEF ProcessCrashes
    <2>2. calm => \A i \in 1..Len(link) : Waits(link[i], client, i) => link[i].proc # p
      BY <2>1 DEF Waits
    <2> QED BY <1>8, <2>2, EndsKeep DEF ProcessCrashes
  <1> QED BY <1>3, <1>4, <1>5, <1>6, <1>7, <1>8 DEF Client, Register

-----------------------------------------------------------------------------
(* The proxy thread.                                                       *)

\* One more check since the last report: the difference grows by one, wherever
\* the counters are.
LEMMA OneMoreBeat ==
    ASSUME NEW M \in Nat \ {0}, NEW b \in 0..(M - 1), NEW rc \in 0..(M - 1),
           (((b + M) - rc) % M) + 1 < M
    PROVE  ((((b + 1) % M) + M) - rc) % M = (((b + M) - rc) % M) + 1
  <1>1. ((b + M) - rc) \in Nat /\ (b + M) - rc < M + M /\ b + 1 \in Nat /\ b + 1 < M + M
    OBVIOUS
  <1>2. ((b + M) - rc) % M = IF (b + M) - rc < M THEN (b + M) - rc ELSE b - rc
    <2>1. ((b + M) - rc) % M = IF (b + M) - rc < M THEN (b + M) - rc
                               ELSE ((b + M) - rc) - M
      BY <1>1, Wrap
    <2> QED BY <2>1
  <1>3. (b + 1) % M = IF b + 1 < M THEN b + 1 ELSE (b + 1) - M
    BY <1>1, Wrap
  <1> DEFINE q == ((b + M) - rc) % M
             n == (b + 1) % M
  <1>4. n \in 0..(M - 1) /\ q \in Int
    BY <1>1, <1>2, <1>3
  <1>5. q = (IF (b + M) - rc < M THEN (b + M) - rc ELSE b - rc) /\ q + 1 < M
        /\ n = (IF b + 1 < M THEN b + 1 ELSE (b + 1) - M)
    BY <1>2, <1>3
  <1> HIDE DEF q, n
  <1>6. (n + M) - rc \in Nat /\ (n + M) - rc < M + M
    BY <1>4
  <1>7. ((n + M) - rc) % M = IF (n + M) - rc < M THEN (n + M) - rc ELSE ((n + M) - rc) - M
    BY <1>6, Wrap
  <1>8. (IF (n + M) - rc < M THEN (n + M) - rc ELSE ((n + M) - rc) - M) = q + 1
    BY <1>4, <1>5
  <1> QED BY <1>7, <1>8 DEF q, n

\* Nothing has passed since a report that was just taken.
LEMMA NoBeat ==
    ASSUME NEW M \in Nat \ {0}, NEW b \in 0..(M - 1)
    PROVE  ((b + M) - b) % M = 0
  <1>1. (b + M) - b = M /\ M < M + M
    OBVIOUS
  <1> QED BY <1>1, Wrap

LEMMA WidthPositive == RcWidth \in Nat \ {0} /\ Allowed \in Nat /\ Allowed + 1 < RcWidth
  BY AppProxyAssumption

LEMMA FdsFacts == Fds \subseteq Nat /\ 0 \notin Fds /\ ListenFd \notin Fds /\ TimerFd \notin Fds
                  /\ ListenFd # TimerFd
  BY AppProxyAssumption DEF ListenFd, TimerFd

(* Closing the channels of applications.                                   *)
LEMMA UnlinkEffect ==
    ASSUME ProxyInv, NEW as \in SUBSET AppIds, unlink_an_external_app(as)
    PROVE  /\ link' \in Seq(LinkRecord) /\ Len(link') = Len(link)
           /\ \A i \in 1..Len(link) : /\ link'[i].proc = link[i].proc
                                      /\ link'[i].answer = link[i].answer
                                      /\ link'[i].up = link[i].up
           /\ table' \in [Fds -> 0..Len(link)] /\ watched' \subseteq Fds
           /\ apps' \in [AppIds -> EaInfo]
           /\ \A a \in AppIds : /\ apps'[a].rc = apps[a].rc
                                /\ a \notin as => apps'[a] = apps[a]
                                /\ a \in as => /\ apps'[a].interact_fd = 0
                                               /\ apps'[a].notify_fd = 0
           /\ ChannelsBelong => ChannelsBelong'
  <1> DEFINE ToClose(a) == IF apps[a].interact_fd # 0 /\ table[apps[a].interact_fd] = 0
                           THEN {} ELSE {apps[a].interact_fd, apps[a].notify_fd} \ {0}
             fs == UNION {ToClose(a) : a \in as}
             closed(i) == [link[i] EXCEPT !.served = FALSE]
             after(i) == IF \E f \in fs : table[f] = i THEN closed(i) ELSE link[i]
             off(a) == [apps[a] EXCEPT !.interact_fd = 0, !.notify_fd = 0]
  <1>1. /\ link \in Seq(LinkRecord) /\ Len(link) \in Nat /\ DOMAIN link = 1..Len(link)
        /\ table \in [Fds -> 0..Len(link)] /\ watched \subseteq Fds
        /\ apps \in [AppIds -> EaInfo]
    BY DEF ProxyInv, ProxyTyped, ConnectionsTyped
  <1>2. /\ table' = [f \in Fds |-> IF f \in fs THEN 0 ELSE table[f]]
        /\ watched' = watched \ fs
        /\ link' = [i \in 1..Len(link) |-> after(i)]
        /\ apps' = [a \in AppIds |-> IF a \in as THEN off(a) ELSE apps[a]]
    BY <1>1, Zenon DEF unlink_an_external_app, Closed
  <1>3. \A i \in 1..Len(link) : link[i] \in LinkRecord
    BY <1>1
  <1>4. \A i \in 1..Len(link) :
           /\ closed(i) \in LinkRecord /\ closed(i).proc = link[i].proc
           /\ closed(i).answer = link[i].answer /\ closed(i).up = link[i].up
    BY <1>3, EndsClosed
  <1>5. \A a \in AppIds : /\ off(a) \in EaInfo /\ off(a).rc = apps[a].rc
                          /\ off(a).interact_fd = 0 /\ off(a).notify_fd = 0
    <2>1. \A a \in AppIds : apps[a] \in EaInfo
      BY <1>1
    <2> QED BY <2>1 DEF EaInfo
  <1>6. \A b \in as : ToClose(b) \subseteq {apps[b].interact_fd, apps[b].notify_fd} \ {0}
    OBVIOUS
  <1>7. \A f \in fs : \E b \in as : f \in {apps[b].interact_fd, apps[b].notify_fd} \ {0}
    BY <1>6
  <1> HIDE DEF closed, fs, off, ToClose
  <1>8. \A i \in 1..Len(link) :
           /\ after(i) \in LinkRecord /\ after(i).proc = link[i].proc
           /\ after(i).answer = link[i].answer /\ after(i).up = link[i].up
    BY <1>3, <1>4
  <1> HIDE DEF after
  <1>9. /\ link' \in Seq(LinkRecord) /\ Len(link') = Len(link)
        /\ \A i \in 1..Len(link) : link'[i] = after(i)
    BY <1>1, <1>2, <1>8
  <1>10. table' \in [Fds -> 0..Len(link)] /\ watched' \subseteq Fds
    BY <1>1, <1>2
  <1>11. /\ apps' \in [AppIds -> EaInfo]
         /\ \A a \in AppIds : /\ apps'[a].rc = apps[a].rc
                              /\ a \notin as => apps'[a] = apps[a]
                              /\ a \in as => /\ apps'[a].interact_fd = 0
                                             /\ apps'[a].notify_fd = 0
    BY <1>1, <1>2, <1>5
  <1>12. ASSUME ChannelsBelong PROVE ChannelsBelong'
    <2> SUFFICES ASSUME NEW a \in AppIds,
                        NEW f \in {apps'[a].interact_fd, apps'[a].notify_fd} \ {0}
                 PROVE  /\ table'[f] # 0
                        /\ link'[table'[f]].proc = apps'[a].pid
                        /\ AppsOfFd(f)' = {a}
                        /\ apps'[a].interact_fd # apps'[a].notify_fd
      BY DEF ChannelsBelong
    <2>1. a \notin as /\ apps'[a] = apps[a]
      BY <1>11
    <2>2. f \in {apps[a].interact_fd, apps[a].notify_fd} \ {0} /\ f \in Fds
      BY <1>1, <2>1 DEF EaInfo
    <2>3. /\ table[f] # 0 /\ link[table[f]].proc = apps[a].pid
          /\ AppsOfFd(f) = {a} /\ apps[a].interact_fd # apps[a].notify_fd
      BY <1>12, <2>2 DEF ChannelsBelong
    <2>4. f \notin fs
      <3>1. \A b \in as : f \in {apps[b].interact_fd, apps[b].notify_fd} \ {0}
                             => b \in AppsOfFd(f)
        BY DEF AppsOfFd
      <3> QED BY <1>7, <2>1, <2>3, <3>1
    <2>5. table'[f] = table[f] /\ table[f] \in 1..Len(link)
      BY <1>1, <1>2, <2>2, <2>3, <2>4
    <2>6. link'[table'[f]].proc = apps'[a].pid
      BY <1>8, <1>9, <2>1, <2>3, <2>5
    <2>7. AppsOfFd(f)' = {a}
      <3>1. AppsOfFd(f)' = {b \in AppIds : apps'[b].notify_fd = f \/ apps'[b].interact_fd = f}
        BY DEF AppsOfFd
      <3>2. AppsOfFd(f) = {b \in AppIds : apps[b].notify_fd = f \/ apps[b].interact_fd = f}
        BY DEF AppsOfFd
      <3>3. \A b \in AppIds : (apps'[b].notify_fd = f \/ apps'[b].interact_fd = f)
                                 => apps[b].notify_fd = f \/ apps[b].interact_fd = f
        <4> SUFFICES ASSUME NEW b \in AppIds, apps'[b].notify_fd = f \/ apps'[b].interact_fd = f
                     PROVE  apps[b].notify_fd = f \/ apps[b].interact_fd = f
          OBVIOUS
        <4>1. f # 0
          OBVIOUS
        <4>2. b \notin as
          BY <1>11, <4>1
        <4>3. apps'[b] = apps[b]
          BY <1>11, <4>2
        <4> QED BY <4>3
      <3>4. apps'[a].notify_fd = f \/ apps'[a].interact_fd = f
        OBVIOUS
      <3> QED BY <2>3, <3>1, <3>2, <3>3, <3>4
    <2> QED BY <2>1, <2>3, <2>5, <2>6, <2>7
  <1> QED BY <1>8, <1>9, <1>10, <1>11, <1>12

LEMMA CheckKeeps ==
    ASSUME ProxyInv, check_all_external_app_heartbeats, calm' = calm
    PROVE  ProxyInv'
  <1> DEFINE as == {a \in AppIds : Silent(a)}
  <1>1. unlink_an_external_app(as) /\ as \in SUBSET AppIds
    BY DEF check_all_external_app_heartbeats
  <1>2. /\ batch' = batch \ {TimerFd} /\ beat' = NextBeat
        /\ quiet' = [a \in AppIds |-> Min({quiet[a] + 1, Allowed + 2})]
        /\ backlog' = backlog /\ client' = client /\ notify' = notify
    BY DEF check_all_external_app_heartbeats
  <1>3. /\ ConnectionsTyped /\ batch \subseteq Fds \cup {TimerFd, ListenFd}
        /\ beat \in 0..(RcWidth - 1) /\ quiet \in [AppIds -> Nat]
        /\ apps \in [AppIds -> EaInfo] /\ (ListenFd \in batch => backlog # << >>)
        /\ client \in [Procs -> ClientRecord] /\ notify \in [part : 0..2, fd : Fds \cup {0}]
    BY DEF ProxyInv, ProxyTyped
  <1> HIDE DEF as
  <1>4. /\ link' \in Seq(LinkRecord) /\ Len(link') = Len(link)
        /\ \A i \in 1..Len(link) : /\ link'[i].proc = link[i].proc
                                   /\ link'[i].answer = link[i].answer
                                   /\ link'[i].up = link[i].up
        /\ table' \in [Fds -> 0..Len(link)] /\ watched' \subseteq Fds
        /\ apps' \in [AppIds -> EaInfo]
        /\ \A a \in AppIds : /\ apps'[a].rc = apps[a].rc
                             /\ a \notin as => apps'[a] = apps[a]
                             /\ a \in as => /\ apps'[a].interact_fd = 0
                                            /\ apps'[a].notify_fd = 0
        /\ ChannelsBelong => ChannelsBelong'
    BY <1>1, UnlinkEffect
  <1>5. beat' \in 0..(RcWidth - 1)
    <2>1. beat + 1 \in Nat
      BY <1>3, WidthPositive
    <2> QED BY <1>2, <2>1, WidthPositive, DivMod DEF NextBeat
  <1>6. \A a \in AppIds : /\ quiet'[a] \in Nat
                          /\ quiet[a] <= Allowed => quiet'[a] = quiet[a] + 1
    <2> SUFFICES ASSUME NEW a \in AppIds
                 PROVE  /\ quiet'[a] \in Nat
                        /\ quiet[a] <= Allowed => quiet'[a] = quiet[a] + 1
      OBVIOUS
    <2> DEFINE S == {quiet[a] + 1, Allowed + 2}
    <2>1. quiet[a] \in Nat /\ S \in SUBSET Nat /\ S # {} /\ quiet'[a] = Min(S)
      BY <1>2, <1>3, WidthPositive
    <2>2. Min(S) \in S /\ \A y \in S : Min(S) <= y
      <3> HIDE DEF S
      <3> QED BY <2>1, MinOfNats
    <2>3. Min(S) \in {quiet[a] + 1, Allowed + 2} /\ Min(S) <= quiet[a] + 1
      BY <2>2
    <2> HIDE DEF S
    <2> QED BY <2>1, <2>3, WidthPositive
  <1>7. ProxyTyped'
    <2>1. quiet' \in [AppIds -> Nat]
      <3>1. quiet' = [a \in AppIds |-> quiet'[a]]
        BY <1>2
      <3> QED BY <1>6, <3>1
    <2>2. ConnectionsTyped'
      BY <1>2, <1>3, <1>4 DEF ConnectionsTyped
    <2> QED BY <1>2, <1>3, <1>4, <1>5, <2>1, <2>2, FdsFacts DEF ProxyTyped
  <1>8. SilenceCounted'
    <2> SUFFICES ASSUME NEW a \in AppIds, Linked(a)'
                 PROVE  quiet'[a] = RecordDiff(a)' /\ quiet'[a] <= Allowed + 1
      BY DEF SilenceCounted
    <2>1. a \notin as /\ apps'[a] = apps[a]
      BY <1>4 DEF Linked
    <2>2. Linked(a)
      BY <2>1 DEF Linked
    <2>3. quiet[a] = RecordDiff(a) /\ RecordDiff(a) <= Allowed /\ quiet[a] \in Nat
      BY <1>3, <2>1, <2>2, WidthPositive DEF as, Silent, ProxyInv, SilenceCounted
    <2>4. quiet'[a] = quiet[a] + 1 /\ quiet[a] + 1 < RcWidth
      BY <1>6, <2>3, WidthPositive
    <2>5. apps[a].rc \in 0..(RcWidth - 1)
      BY <1>3 DEF EaInfo
    <2> DEFINE rc == apps[a].rc
    <2>6. RecordDiff(a) = ((beat + RcWidth) - rc) % RcWidth
          /\ RecordDiff(a)' = ((((beat + 1) % RcWidth) + RcWidth) - rc) % RcWidth
      BY <1>2, <2>1 DEF RecordDiff, NextBeat
    <2> HIDE DEF rc
    <2>7. rc \in 0..(RcWidth - 1) /\ (((beat + RcWidth) - rc) % RcWidth) + 1 < RcWidth
      BY <2>3, <2>4, <2>5, <2>6 DEF rc
    <2>8. RecordDiff(a)' = RecordDiff(a) + 1
      BY <1>3, <2>6, <2>7, OneMoreBeat, WidthPositive
    <2> QED BY <2>3, <2>4, <2>8, WidthPositive
  <1>9. calm => BacklogWaits'
    <2> SUFFICES ASSUME calm PROVE BacklogWaits'
      OBVIOUS
    <2>1. \A i \in 1..Len(link) : Waits(link[i], client, i) => Waits(link'[i], client', i)
      BY <1>2, <1>4 DEF Waits
    <2> QED BY <1>2, <1>3, <2>1, BacklogKept DEF ProxyInv
  <1> QED BY <1>4, <1>7, <1>8, <1>9 DEF ProxyInv

(* The check unlinks the silent applications and no other.                 *)
LEMMA CheckUnlinksSilent ==
    ASSUME ProxyInv, check_all_external_app_heartbeats,
           NEW a \in AppIds, Linked(a), ~Linked(a)'
    PROVE  quiet[a] > Allowed
  <1> DEFINE as == {b \in AppIds : Silent(b)}
  <1>1. unlink_an_external_app(as) /\ as \in SUBSET AppIds
    BY DEF check_all_external_app_heartbeats
  <1> HIDE DEF as
  <1>2. a \notin as => apps'[a] = apps[a]
    BY <1>1, UnlinkEffect
  <1>3. a \in as
    BY <1>2 DEF Linked
  <1> QED BY <1>3 DEF as, Silent, ProxyInv, SilenceCounted

(* A connection is answered under a free descriptor, if its client is still *)
(* there.                                                                  *)
LEMMA AnswerEffect ==
    ASSUME ProxyInv, NEW f \in Fds, NEW i \in 1..Len(link),
           NEW answer \in {"ok", "refused"}, AnswerAndWatch(f, i, answer)
    PROVE  /\ link' \in Seq(LinkRecord) /\ Len(link') = Len(link)
           /\ \A j \in 1..Len(link) : link'[j].proc = link[j].proc
           /\ \A j \in 1..Len(link) : j # i => link'[j] = link[j]
           /\ table' \in [Fds -> 0..Len(link)] /\ watched' \subseteq Fds
           /\ \A g \in Fds : g # f => table'[g] = table[g]
           /\ link[i].up => table'[f] = i
  <1> DEFINE no == FALSE
             some == answer
             none == << >>
             told == [link[i] EXCEPT !.in = none, !.answer = some]
             left == [link[i] EXCEPT !.in = none, !.served = no]
  <1>1. /\ link \in Seq(LinkRecord) /\ Len(link) \in Nat /\ DOMAIN link = 1..Len(link)
        /\ table \in [Fds -> 0..Len(link)] /\ watched \subseteq Fds /\ i \in 0..Len(link)
    BY DEF ProxyInv, ProxyTyped, ConnectionsTyped
  <1>2. link[i] \in LinkRecord /\ no \in BOOLEAN /\ some \in {"none", "ok", "refused"}
        /\ none \in Packets
    BY <1>1 DEF Packets
  <1>3. IF link[i].up
        THEN /\ link' = [link EXCEPT ![i] = told]
             /\ table' = [table EXCEPT ![f] = i]
             /\ watched' = watched \cup {f}
        ELSE /\ link' = [link EXCEPT ![i] = left]
             /\ UNCHANGED <<table, watched>>
    BY Zenon DEF AnswerAndWatch
  <1> HIDE DEF no, some, none
  <1> DEFINE Answers == {"none", "ok", "refused"}
  <1>4. LinkRecord = [proc : Procs, in : Packets, answer : Answers,
                      up : BOOLEAN, served : BOOLEAN]
        /\ some \in Answers
    BY <1>2 DEF LinkRecord
  <1> HIDE DEF Answers
  <1>5. told \in LinkRecord /\ told.proc = link[i].proc
    BY <1>2, <1>4
  <1>6. left \in LinkRecord /\ left.proc = link[i].proc
    BY <1>2, <1>4
  <1> HIDE DEF told, left
  <1>7. ASSUME NEW c \in LinkRecord, c.proc = link[i].proc, link' = [link EXCEPT ![i] = c]
        PROVE  /\ link' \in Seq(LinkRecord) /\ Len(link') = Len(link)
               /\ \A j \in 1..Len(link) : link'[j].proc = link[j].proc
               /\ \A j \in 1..Len(link) : j # i => link'[j] = link[j]
    BY <1>1, <1>7
  <1>8. CASE link[i].up
    <2>1. /\ link' = [link EXCEPT ![i] = told]
          /\ table' = [table EXCEPT ![f] = i] /\ watched' = watched \cup {f}
      BY <1>3, <1>8
    <2>2. /\ table' \in [Fds -> 0..Len(link)] /\ watched' \subseteq Fds
          /\ \A g \in Fds : g # f => table'[g] = table[g]
          /\ table'[f] = i
      BY <1>1, <2>1
    <2> QED BY <1>5, <1>7, <2>1, <2>2
  <1>9. CASE ~link[i].up
    <2>1. link' = [link EXCEPT ![i] = left] /\ table' = table /\ watched' = watched
      BY <1>3, <1>9
    <2> QED BY <1>1, <1>6, <1>7, <1>9, <2>1
  <1> QED BY <1>8, <1>9

(* A free descriptor belongs to nobody.                                    *)
LEMMA FreeIsUnused ==
    ASSUME ProxyTyped, ChannelsBelong, NEW f \in Fds, table[f] = 0, NEW b \in AppIds
    PROVE  apps[b].interact_fd # f /\ apps[b].notify_fd # f
  <1>1. f # 0
    BY FdsFacts
  <1> QED BY <1>1 DEF ChannelsBelong

(* What other applications hold is theirs when a free descriptor is given  *)
(* to a new connection, and to the application a if it gets any.           *)
LEMMA ChannelsGiven ==
    ASSUME ProxyTyped, ChannelsBelong,
           NEW f \in Fds, table[f] = 0, NEW i \in 1..Len(link), table'[f] = i,
           \A g \in Fds : g # f => table'[g] = table[g],
           \A j \in 1..Len(link) : link'[j].proc = link[j].proc,
           NEW a \in AppIds, NEW e \in EaInfo, apps' = [apps EXCEPT ![a] = e],
           \/ e.interact_fd = f /\ e.notify_fd = 0 /\ e.pid = link[i].proc
           \/ /\ e.notify_fd = f /\ e.interact_fd = apps[a].interact_fd
              /\ e.pid = link[i].proc /\ e.pid = apps[a].pid
    PROVE  ChannelsBelong'
  <1> SUFFICES ASSUME NEW b \in AppIds,
                      NEW g \in {apps'[b].interact_fd, apps'[b].notify_fd} \ {0}
               PROVE  /\ table'[g] # 0
                      /\ link'[table'[g]].proc = apps'[b].pid
                      /\ AppsOfFd(g)' = {b}
                      /\ apps'[b].interact_fd # apps'[b].notify_fd
    BY DEF ChannelsBelong
  <1>1. /\ apps \in [AppIds -> EaInfo] /\ table \in [Fds -> 0..Len(link)] /\ Len(link) \in Nat
        /\ apps'[a] = e /\ \A d \in AppIds \ {a} : apps'[d] = apps[d]
    BY DEF ProxyTyped, ConnectionsTyped
  <1>2. f # 0 /\ 0 \notin Fds
    BY FdsFacts
  <1>3. \A d \in AppIds : apps[d].interact_fd # f /\ apps[d].notify_fd # f
    BY FreeIsUnused
  <1>4. AppsOfFd(g)' = {d \in AppIds : apps'[d].notify_fd = g \/ apps'[d].interact_fd = g}
    BY DEF AppsOfFd
  <1>5. AppsOfFd(g) = {d \in AppIds : apps[d].notify_fd = g \/ apps[d].interact_fd = g}
    BY DEF AppsOfFd
  <1>6. CASE g = f
    <2>1. b = a
      BY <1>1, <1>3, <1>6
    <2>2. \A d \in AppIds : (apps'[d].notify_fd = g \/ apps'[d].interact_fd = g) <=> d = a
      BY <1>1, <1>3, <1>6
    <2>3. AppsOfFd(g)' = {a}
      BY <1>4, <2>2
    <2>4. apps'[b].interact_fd # apps'[b].notify_fd
      BY <1>1, <1>2, <1>3, <2>1
    <2> QED BY <1>1, <1>6, <2>1, <2>3, <2>4
  <1>7. CASE g # f
    <2>1. g \in {apps[b].interact_fd, apps[b].notify_fd} \ {0} /\ g \in Fds
          /\ apps'[b].pid = apps[b].pid
      <3>1. CASE b # a
        BY <1>1, <3>1 DEF EaInfo
      <3>2. CASE b = a
        BY <1>1, <1>7, <3>2 DEF EaInfo
      <3> QED BY <3>1, <3>2
    <2>2. /\ table[g] # 0 /\ link[table[g]].proc = apps[b].pid
          /\ AppsOfFd(g) = {b} /\ apps[b].interact_fd # apps[b].notify_fd
      BY <2>1 DEF ChannelsBelong
    <2>3. table'[g] = table[g] /\ table[g] \in 1..Len(link)
      BY <1>1, <1>7, <2>1, <2>2
    <2>4. \A d \in AppIds : (apps[d].notify_fd = g \/ apps[d].interact_fd = g) <=> d = b
      BY <1>5, <2>2
    <2>5. g # 0
      OBVIOUS
    <2>6. \A d \in AppIds : (apps'[d].notify_fd = g \/ apps'[d].interact_fd = g) <=> d = b
      <3> SUFFICES ASSUME NEW d \in AppIds
                   PROVE  (apps'[d].notify_fd = g \/ apps'[d].interact_fd = g) <=> d = b
        OBVIOUS
      <3>1. CASE d # a
        BY <1>1, <2>4, <3>1
      <3>2. CASE d = a
        <4>1. CASE b = a
          BY <3>2, <4>1
        <4>2. CASE b # a
          BY <1>1, <1>7, <2>4, <2>5, <3>2, <4>2
        <4> QED BY <4>1, <4>2
      <3> QED BY <3>1, <3>2
    <2>7. AppsOfFd(g)' = {b}
      BY <1>4, <2>6
    <2>8. apps'[b].interact_fd # apps'[b].notify_fd
      <3>1. CASE b # a
        BY <1>1, <2>2, <3>1
      <3>2. CASE b = a
        BY <1>1, <1>2, <1>3, <3>2
      <3> QED BY <3>1, <3>2
    <2> QED BY <2>1, <2>2, <2>3, <2>7, <2>8
  <1> QED BY <1>6, <1>7

LEMMA RegistrationKeeps ==
    ASSUME ProxyInv, handle_new_client_registration, calm' = calm
    PROVE  ProxyInv'
  <1> DEFINE i == backlog[1]
             p == link[i].proc
             a == AppOf[p]
             f == Min(FreeFds)
             top == [known |-> TRUE, interact_fd |-> f, notify_fd |-> 0,
                     rc |-> beat, pid |-> p]
             bot == [apps[a] EXCEPT !.notify_fd = f, !.rc = beat]
             numbers == 1..Len(link)
  <1>1. /\ ConnectionsTyped /\ batch \subseteq Fds \cup {TimerFd, ListenFd}
        /\ beat \in 0..(RcWidth - 1) /\ quiet \in [AppIds -> Nat]
        /\ apps \in [AppIds -> EaInfo] /\ (ListenFd \in batch => backlog # << >>)
        /\ client \in [Procs -> ClientRecord] /\ notify \in [part : 0..2, fd : Fds \cup {0}]
    BY DEF ProxyInv, ProxyTyped
  <1>2. /\ link \in Seq(LinkRecord) /\ Len(link) \in Nat /\ backlog \in Seq(numbers)
        /\ table \in [Fds -> 0..Len(link)]
    BY <1>1 DEF ConnectionsTyped
  <1>3. /\ ListenFd \in batch /\ backlog # << >> /\ FreeFds # {}
        /\ batch' = batch \ {ListenFd} /\ backlog' = Tail(backlog)
        /\ UNCHANGED <<beat, client, notify>>
    BY <1>1 DEF handle_new_client_registration
  <1>4. f \in Fds /\ table[f] = 0
    <2>1. FreeFds \in SUBSET Nat
      BY FdsFacts DEF FreeFds
    <2>2. Min(FreeFds) \in FreeFds
      BY <1>3, <2>1, MinOfNats
    <2> QED BY <2>2 DEF FreeFds
  <1>5. /\ Len(backlog) \in Nat /\ Len(backlog) >= 1 /\ Tail(backlog) \in Seq(numbers)
        /\ Len(Tail(backlog)) = Len(backlog) - 1
        /\ \A k \in 1..Len(Tail(backlog)) : Tail(backlog)[k] = backlog[k + 1]
        /\ \A k \in 1..Len(backlog) : backlog[k] \in numbers
        /\ backlog[1] \in numbers
    <2> HIDE DEF numbers, i
    <2>1. Len(backlog) \in Nat /\ Len(backlog) >= 1
      BY <1>2, <1>3
    <2> QED BY <1>2, <1>3, <2>1
  <1>6. i \in 1..Len(link) /\ link[i] \in LinkRecord
    BY <1>2, <1>5
  <1>7. p \in Procs /\ a \in AppIds
    BY <1>6 DEF LinkRecord, AppIds
  <1>8. PICK answer \in {"ok", "refused"} :
           /\ AnswerAndWatch(f, i, answer)
           /\ \/ /\ apps' = [apps EXCEPT ![a] = top]
                 /\ quiet' = [quiet EXCEPT ![a] = 0]
              \/ /\ apps' = [apps EXCEPT ![a] = bot] /\ apps[a].pid = p
                 /\ quiet' = [quiet EXCEPT ![a] = 0]
              \/ UNCHANGED <<apps, quiet>>
    <2>1. \/ /\ apps' = reset_external_app_two_new_sk_fds(a, f, p)
             /\ quiet' = [quiet EXCEPT ![a] = 0]
             /\ AnswerAndWatch(f, i, "ok")
          \/ /\ apps[a].pid = p
             /\ apps' = [apps EXCEPT ![a].notify_fd = f, ![a].rc = beat]
             /\ quiet' = [quiet EXCEPT ![a] = 0]
             /\ AnswerAndWatch(f, i, "ok")
          \/ AnswerAndWatch(f, i, "refused") /\ UNCHANGED <<apps, quiet>>
      BY Zenon DEF handle_new_client_registration
    <2>2. apps' = reset_external_app_two_new_sk_fds(a, f, p) => apps' = [apps EXCEPT ![a] = top]
      BY Zenon DEF reset_external_app_two_new_sk_fds
    <2>3. [apps EXCEPT ![a].notify_fd = f, ![a].rc = beat] = [apps EXCEPT ![a] = bot]
      <3> HIDE DEF a, f
      <3>1. apps[a] \in EaInfo /\ a \in AppIds
        BY <1>1, <1>7
      <3> QED BY <1>1, <3>1 DEF EaInfo
    <2> HIDE DEF top, bot, a, f, i, p
    <2> QED BY <2>1, <2>2, <2>3
  <1>9. top \in EaInfo /\ top.interact_fd = f /\ top.notify_fd = 0 /\ top.rc = beat /\ top.pid = p
    <2> HIDE DEF f, p
    <2> QED BY <1>1, <1>4, <1>7 DEF EaInfo
  <1>10. /\ bot \in EaInfo /\ bot.interact_fd = apps[a].interact_fd /\ bot.notify_fd = f
         /\ bot.rc = beat /\ bot.pid = apps[a].pid
    <2> HIDE DEF f, a
    <2>1. apps[a] \in EaInfo
      BY <1>1, <1>7
    <2> QED BY <1>1, <1>4, <2>1 DEF EaInfo
  <1> HIDE DEF i, f, a, p, top, bot, numbers
  <1>11. /\ link' \in Seq(LinkRecord) /\ Len(link') = Len(link)
         /\ \A j \in 1..Len(link) : link'[j].proc = link[j].proc
         /\ \A j \in 1..Len(link) : j # i => link'[j] = link[j]
         /\ table' \in [Fds -> 0..Len(link)] /\ watched' \subseteq Fds
         /\ \A g \in Fds : g # f => table'[g] = table[g]
         /\ link[i].up => table'[f] = i
    BY <1>4, <1>6, <1>8, AnswerEffect
  <1>12. apps' \in [AppIds -> EaInfo] /\ quiet' \in [AppIds -> Nat]
    <2>1. \A e \in EaInfo : [apps EXCEPT ![a] = e] \in [AppIds -> EaInfo]
      BY <1>1, <1>7
    <2>2. [quiet EXCEPT ![a] = 0] \in [AppIds -> Nat]
      BY <1>1, <1>7
    <2>3. CASE apps' = [apps EXCEPT ![a] = top] /\ quiet' = [quiet EXCEPT ![a] = 0]
      BY <1>9, <2>1, <2>2, <2>3
    <2>4. CASE apps' = [apps EXCEPT ![a] = bot] /\ quiet' = [quiet EXCEPT ![a] = 0]
      BY <1>10, <2>1, <2>2, <2>4
    <2> QED BY <1>1, <1>8, <2>3, <2>4
  <1>13. ProxyTyped'
    <2>1. ConnectionsTyped'
      BY <1>3, <1>5, <1>11 DEF ConnectionsTyped, numbers
    <2> QED BY <1>1, <1>3, <1>11, <1>12, <2>1 DEF ProxyTyped
  <1>14. SilenceCounted'
    <2> SUFFICES ASSUME NEW b \in AppIds, Linked(b)'
                 PROVE  quiet'[b] = RecordDiff(b)' /\ quiet'[b] <= Allowed + 1
      BY DEF SilenceCounted
    <2>1. CASE apps'[b] = apps[b] /\ quiet'[b] = quiet[b]
      <3>1. Linked(b)
        BY <2>1 DEF Linked
      <3>2. RecordDiff(b)' = RecordDiff(b)
        BY <1>3, <2>1 DEF RecordDiff
      <3> QED BY <2>1, <3>1, <3>2 DEF ProxyInv, SilenceCounted
    <2>2. CASE quiet'[b] = 0 /\ apps'[b].rc = beat
      <3>1. RecordDiff(b)' = ((beat + RcWidth) - beat) % RcWidth
        BY <1>3, <2>2 DEF RecordDiff
      <3>2. RecordDiff(b)' = 0
        BY <1>1, <3>1, NoBeat, WidthPositive
      <3> QED BY <2>2, <3>2, WidthPositive
    <2>3. \/ apps'[b] = apps[b] /\ quiet'[b] = quiet[b]
          \/ quiet'[b] = 0 /\ apps'[b].rc = beat
      <3>1. CASE b = a
        BY <1>1, <1>7, <1>8, <1>9, <1>10, <3>1
      <3>2. CASE b # a
        BY <1>1, <1>7, <1>8, <3>2
      <3> QED BY <3>1, <3>2
    <2> QED BY <2>1, <2>2, <2>3
  <1>15. ASSUME calm PROVE BacklogWaits' /\ link[i].up
    <2>1. /\ \A j, k \in 1..Len(backlog) : backlog[j] = backlog[k] => j = k
          /\ \A k \in 1..Len(backlog) : Waits(link[backlog[k]], client, backlog[k])
      BY <1>15 DEF ProxyInv, BacklogWaits
    <2>2. /\ 1 \in 1..Len(backlog) /\ Len(backlog') = Len(backlog) - 1
          /\ \A k \in 1..Len(backlog') : k + 1 \in 1..Len(backlog) /\ k + 1 # 1
          /\ \A k \in 1..Len(backlog') : backlog'[k] = backlog[k + 1]
      BY <1>3, <1>5
    <2>3. link[i].up
      BY <2>1, <2>2 DEF Waits, i
    <2>4. ASSUME NEW k \in 1..Len(backlog')
          PROVE  Waits(link'[backlog'[k]], client', backlog'[k])
      <3>1. backlog[k + 1] # i /\ backlog[k + 1] \in 1..Len(link)
        BY <1>5, <2>1, <2>2 DEF i, numbers
      <3>2. link'[backlog[k + 1]] = link[backlog[k + 1]]
        BY <1>11, <3>1
      <3> QED BY <1>3, <2>1, <2>2, <3>2
    <2>5. ASSUME NEW j \in 1..Len(backlog'), NEW k \in 1..Len(backlog'),
                 backlog'[j] = backlog'[k]
          PROVE  j = k
      <3>1. j + 1 = k + 1
        BY <2>1, <2>2, <2>5
      <3> QED BY <3>1
    <2> QED BY <2>3, <2>4, <2>5 DEF BacklogWaits
  <1>16. ASSUME calm PROVE ChannelsBelong'
    <2>1. ChannelsBelong /\ ProxyTyped /\ table'[f] = i
      BY <1>11, <1>15, <1>16 DEF ProxyInv
    <2>2. CASE apps' = [apps EXCEPT ![a] = top]
      BY <1>4, <1>6, <1>7, <1>9, <1>11, <2>1, <2>2, ChannelsGiven DEF p
    <2>3. CASE apps' = [apps EXCEPT ![a] = bot] /\ apps[a].pid = p
      <3>1. /\ bot.notify_fd = f /\ bot.interact_fd = apps[a].interact_fd
            /\ bot.pid = link[i].proc /\ bot.pid = apps[a].pid
        BY <1>10, <2>3 DEF p
      <3> QED BY <1>4, <1>6, <1>7, <1>10, <1>11, <2>1, <2>3, <3>1, ChannelsGiven
    <2>4. CASE apps' = apps
      <3> SUFFICES ASSUME NEW b \in AppIds,
                          NEW g \in {apps[b].interact_fd, apps[b].notify_fd} \ {0}
                   PROVE  /\ table'[g] # 0
                          /\ link'[table'[g]].proc = apps[b].pid
                          /\ AppsOfFd(g)' = {b}
                          /\ apps[b].interact_fd # apps[b].notify_fd
        BY <2>4 DEF ChannelsBelong
      <3>1. g # f /\ g \in Fds
        BY <1>1, <1>4, <2>1, FreeIsUnused DEF EaInfo
      <3>2. /\ table[g] # 0 /\ link[table[g]].proc = apps[b].pid
            /\ AppsOfFd(g) = {b} /\ apps[b].interact_fd # apps[b].notify_fd
        BY <2>1 DEF ChannelsBelong
      <3>3. table'[g] = table[g] /\ table[g] \in 1..Len(link)
        BY <1>2, <1>11, <3>1, <3>2
      <3>4. AppsOfFd(g)' = AppsOfFd(g)
        BY <2>4 DEF AppsOfFd
      <3> QED BY <1>11, <3>2, <3>3, <3>4
    <2> QED BY <1>8, <2>2, <2>3, <2>4
  <1> QED BY <1>13, <1>14, <1>15, <1>16 DEF ProxyInv

LEMMA PacketKeeps ==
    ASSUME ProxyInv, NEW f \in Fds, batch' = batch \ {f}, PacketReceived(f),
           UNCHANGED <<calm, backlog, beat, due, client, notify>>
    PROVE  ProxyInv'
  <1> DEFINE i == table[f]
             a == AppOf[link[i].proc]
             none == << >>
  <1>1. /\ ConnectionsTyped /\ batch \subseteq Fds \cup {TimerFd, ListenFd}
        /\ beat \in 0..(RcWidth - 1) /\ quiet \in [AppIds -> Nat]
        /\ apps \in [AppIds -> EaInfo] /\ (ListenFd \in batch => backlog # << >>)
        /\ client \in [Procs -> ClientRecord] /\ notify \in [part : 0..2, fd : Fds \cup {0}]
        /\ watched \subseteq Fds
    BY DEF ProxyInv, ProxyTyped
  <1>2. /\ link \in Seq(LinkRecord) /\ Len(link) \in Nat /\ table \in [Fds -> 0..Len(link)]
        /\ backlog \in Seq(1..Len(link))
    BY <1>1 DEF ConnectionsTyped
  <1>3. /\ table[f] # 0 /\ link' = [link EXCEPT ![i].in = none]
        /\ UNCHANGED <<table, watched>>
        /\ \/ apps' = apps /\ quiet' = quiet
           \/ apps' = [apps EXCEPT ![a].rc = beat] /\ quiet' = [quiet EXCEPT ![a] = 0]
    BY DEF PacketReceived
  <1>4. none \in Packets /\ i \in 1..Len(link)
    BY <1>2, <1>3 DEF Packets
  <1>5. a \in AppIds
    <2> HIDE DEF i
    <2>1. link[i] \in LinkRecord
      BY <1>2, <1>4
    <2>2. link[i].proc \in Procs
      BY <2>1 DEF LinkRecord
    <2> QED BY <2>2 DEF AppIds
  <1>6. [apps[a] EXCEPT !.rc = beat] \in EaInfo
        /\ [apps[a] EXCEPT !.rc = beat].rc = beat
        /\ [apps[a] EXCEPT !.rc = beat].interact_fd = apps[a].interact_fd
        /\ [apps[a] EXCEPT !.rc = beat].notify_fd = apps[a].notify_fd
        /\ [apps[a] EXCEPT !.rc = beat].pid = apps[a].pid
    <2> HIDE DEF a
    <2>1. apps[a] \in EaInfo
      BY <1>1, <1>5
    <2> QED BY <1>1, <2>1 DEF EaInfo
  <1> HIDE DEF i, a, none
  <1>7. /\ link' \in Seq(LinkRecord) /\ Len(link') = Len(link)
        /\ \A j \in 1..Len(link) : /\ link'[j].proc = link[j].proc
                                   /\ link'[j].answer = link[j].answer
                                   /\ link'[j].up = link[j].up
    BY <1>3, <1>4, PacketMoves
  <1>8. /\ apps' \in [AppIds -> EaInfo] /\ quiet' \in [AppIds -> Nat]
        /\ \A b \in AppIds : /\ apps'[b].interact_fd = apps[b].interact_fd
                             /\ apps'[b].notify_fd = apps[b].notify_fd
                             /\ apps'[b].pid = apps[b].pid
                             /\ \/ apps'[b] = apps[b] /\ quiet'[b] = quiet[b]
                                \/ apps'[b].rc = beat /\ quiet'[b] = 0
    <2> DEFINE e == [apps[a] EXCEPT !.rc = beat]
    <2>1. CASE apps' = apps /\ quiet' = quiet
      BY <1>1, <2>1
    <2>2. CASE apps' = [apps EXCEPT ![a].rc = beat] /\ quiet' = [quiet EXCEPT ![a] = 0]
      <3>1. apps' = [apps EXCEPT ![a] = e]
        BY <2>2
      <3>2. e \in EaInfo /\ e.rc = beat /\ e.interact_fd = apps[a].interact_fd
            /\ e.notify_fd = apps[a].notify_fd /\ e.pid = apps[a].pid
        BY <1>6
      <3> HIDE DEF e
      <3>3. /\ apps' \in [AppIds -> EaInfo] /\ apps'[a] = e
            /\ \A b \in AppIds \ {a} : apps'[b] = apps[b]
        BY <1>1, <1>5, <3>1, <3>2
      <3>4. /\ quiet' \in [AppIds -> Nat] /\ quiet'[a] = 0
            /\ \A b \in AppIds \ {a} : quiet'[b] = quiet[b]
        BY <1>1, <1>5, <2>2
      <3> QED BY <3>2, <3>3, <3>4
    <2> QED BY <1>3, <2>1, <2>2
  <1>9. ProxyTyped'
    <2>1. ConnectionsTyped'
      BY <1>2, <1>3, <1>7 DEF ConnectionsTyped
    <2>2. beat' = beat /\ client' = client /\ notify' = notify /\ backlog' = backlog
      OBVIOUS
    <2> QED BY <1>1, <1>3, <1>8, <2>1, <2>2 DEF ProxyTyped
  <1>10. SilenceCounted'
    <2> SUFFICES ASSUME NEW b \in AppIds, Linked(b)'
                 PROVE  quiet'[b] = RecordDiff(b)' /\ quiet'[b] <= Allowed + 1
      BY DEF SilenceCounted
    <2>1. Linked(b)
      BY <1>8 DEF Linked
    <2>2. CASE apps'[b] = apps[b] /\ quiet'[b] = quiet[b]
      <3>1. RecordDiff(b)' = RecordDiff(b)
        BY <2>2 DEF RecordDiff
      <3> QED BY <2>1, <2>2, <3>1 DEF ProxyInv, SilenceCounted
    <2>3. CASE quiet'[b] = 0 /\ apps'[b].rc = beat
      <3>1. RecordDiff(b)' = ((beat + RcWidth) - beat) % RcWidth
        BY <2>3 DEF RecordDiff
      <3>2. RecordDiff(b)' = 0
        BY <1>1, <3>1, NoBeat, WidthPositive
      <3> QED BY <2>3, <3>2, WidthPositive
    <2> QED BY <1>8, <2>2, <2>3
  <1>11. ASSUME calm PROVE BacklogWaits'
    <2>1. \A j \in 1..Len(link) : Waits(link[j], client, j) => Waits(link'[j], client', j)
      BY <1>7 DEF Waits
    <2> QED BY <1>1, <1>11, <2>1, BacklogKept DEF ProxyInv
  <1>12. ASSUME calm PROVE ChannelsBelong'
    <2> SUFFICES ASSUME NEW b \in AppIds,
                        NEW g \in {apps[b].interact_fd, apps[b].notify_fd} \ {0}
                 PROVE  /\ table[g] # 0
                        /\ link'[table[g]].proc = apps[b].pid
                        /\ AppsOfFd(g)' = {b}
                        /\ apps[b].interact_fd # apps[b].notify_fd
      BY <1>3, <1>8 DEF ChannelsBelong
    <2>1. /\ table[g] # 0 /\ link[table[g]].proc = apps[b].pid
          /\ AppsOfFd(g) = {b} /\ apps[b].interact_fd # apps[b].notify_fd
      BY <1>12 DEF ProxyInv, ChannelsBelong
    <2>2. g \in Fds
      BY <1>1 DEF EaInfo
    <2>3. table[g] \in 1..Len(link)
      BY <1>2, <2>1, <2>2
    <2>4. AppsOfFd(g)' = AppsOfFd(g)
      BY <1>8 DEF AppsOfFd
    <2> QED BY <1>7, <2>1, <2>3, <2>4
  <1> QED BY <1>9, <1>10, <1>11, <1>12 DEF ProxyInv

(* A connection whose client has closed it.                                *)
LEMMA DisconnectKeeps ==
    ASSUME ProxyInv, NEW f \in Fds, batch' = batch \ {f}, Disconnected(f),
           UNCHANGED <<calm, backlog, beat, due, client, notify>>
    PROVE  ProxyInv'
  <1>1. /\ ConnectionsTyped /\ batch \subseteq Fds \cup {TimerFd, ListenFd}
        /\ beat \in 0..(RcWidth - 1) /\ quiet \in [AppIds -> Nat]
        /\ (ListenFd \in batch => backlog # << >>)
        /\ client \in [Procs -> ClientRecord] /\ notify \in [part : 0..2, fd : Fds \cup {0}]
        /\ link \in Seq(LinkRecord) /\ quiet' = quiet
    BY DEF ProxyInv, ProxyTyped, ConnectionsTyped, Disconnected
  <1>2. CASE UNCHANGED <<link, table, watched, apps>>
    <2>1. /\ batch' \subseteq Fds \cup {TimerFd, ListenFd}
          /\ ListenFd \in batch' => backlog # << >>
      BY <1>1
    <2>2. \A i \in 1..Len(link) : Waits(link[i], client, i) => Waits(link'[i], client', i)
      BY <1>2
    <2> QED BY <1>1, <1>2, <2>1, <2>2, QuietStep
  <1>3. ASSUME NEW a \in AppIds, unlink_an_external_app({a})
        PROVE  ProxyInv'
    <2> DEFINE as == {a}
    <2>1. as \in SUBSET AppIds /\ unlink_an_external_app(as)
      BY <1>3
    <2> HIDE DEF as
    <2>2. /\ link' \in Seq(LinkRecord) /\ Len(link') = Len(link)
          /\ \A i \in 1..Len(link) : /\ link'[i].proc = link[i].proc
                                     /\ link'[i].answer = link[i].answer
                                     /\ link'[i].up = link[i].up
          /\ table' \in [Fds -> 0..Len(link)] /\ watched' \subseteq Fds
          /\ apps' \in [AppIds -> EaInfo]
          /\ \A b \in AppIds : /\ apps'[b].rc = apps[b].rc
                               /\ b \notin as => apps'[b] = apps[b]
                               /\ b \in as => /\ apps'[b].interact_fd = 0
                                              /\ apps'[b].notify_fd = 0
          /\ ChannelsBelong => ChannelsBelong'
      BY <2>1, UnlinkEffect
    <2>3. ProxyTyped'
      <3>1. ConnectionsTyped'
        BY <1>1, <2>2 DEF ConnectionsTyped
      <3>2. beat' = beat /\ client' = client /\ notify' = notify /\ backlog' = backlog
        OBVIOUS
      <3> QED BY <1>1, <2>2, <3>1, <3>2 DEF ProxyTyped
    <2>4. SilenceCounted'
      <3> SUFFICES ASSUME NEW b \in AppIds, Linked(b)'
                   PROVE  quiet'[b] = RecordDiff(b)' /\ quiet'[b] <= Allowed + 1
        BY DEF SilenceCounted
      <3>1. apps'[b] = apps[b]
        BY <2>2 DEF Linked
      <3>2. Linked(b) /\ RecordDiff(b)' = RecordDiff(b)
        BY <3>1 DEF Linked, RecordDiff
      <3> QED BY <1>1, <3>2 DEF ProxyInv, SilenceCounted
    <2>5. ASSUME calm PROVE BacklogWaits'
      <3>1. \A i \in 1..Len(link) : Waits(link[i], client, i) => Waits(link'[i], client', i)
        BY <2>2 DEF Waits
      <3> QED BY <1>1, <2>5, <3>1, BacklogKept DEF ProxyInv
    <2> QED BY <2>2, <2>3, <2>4, <2>5 DEF ProxyInv
  <1>4. ASSUME NEW a \in AppsOfFd(f) PROVE a \in AppIds
    BY DEF AppsOfFd
  <1> QED BY <1>2, <1>3, <1>4 DEF Disconnected

LEMMA EventKeeps ==
    ASSUME ProxyInv, handle_registered_client_packet, calm' = calm
    PROVE  ProxyInv'
  <1>1. PICK f \in batch \ {TimerFd, ListenFd} :
           /\ batch' = batch \ {f}
           /\ ClosedMeanwhile(f) \/ PacketReceived(f) \/ Disconnected(f)
           /\ UNCHANGED <<backlog, beat, due, client, notify>>
    BY DEF handle_registered_client_packet
  <1>2. f \in Fds
    BY DEF ProxyInv, ProxyTyped
  <1>3. CASE ClosedMeanwhile(f)
    <2>1. UNCHANGED <<link, table, watched, apps, quiet>>
      BY <1>3 DEF ClosedMeanwhile
    <2>2. /\ link \in Seq(LinkRecord) /\ client \in [Procs -> ClientRecord]
          /\ notify \in [part : 0..2, fd : Fds \cup {0}]
          /\ batch' \subseteq Fds \cup {TimerFd, ListenFd}
          /\ ListenFd \in batch' => backlog # << >>
      BY <1>1 DEF ProxyInv, ProxyTyped, ConnectionsTyped
    <2>3. \A i \in 1..Len(link) : Waits(link[i], client, i) => Waits(link'[i], client', i)
      BY <1>1, <2>1
    <2> QED BY <1>1, <2>1, <2>2, <2>3, QuietStep
  <1>4. CASE PacketReceived(f)
    BY <1>1, <1>2, <1>4, PacketKeeps
  <1>5. CASE Disconnected(f)
    BY <1>1, <1>2, <1>5, DisconnectKeeps
  <1> QED BY <1>1, <1>3, <1>4, <1>5

(* Waiting, the timer and the forwarding functions disturb nothing; a      *)
(* batch has the listening socket only when a connection waits.            *)
LEMMA OtherStepsKeep ==
    ASSUME ProxyInv, epoll_wait \/ TimerExpires \/ Forward \/ UNCHANGED proxyVars,
           calm' = calm
    PROVE  ProxyInv'
  <1>1. /\ link \in Seq(LinkRecord) /\ client \in [Procs -> ClientRecord]
        /\ notify \in [part : 0..2, fd : Fds \cup {0}] /\ watched \subseteq Fds
        /\ batch \subseteq Fds \cup {TimerFd, ListenFd}
        /\ ListenFd \in batch => backlog # << >>
        /\ apps \in [AppIds -> EaInfo]
    BY DEF ProxyInv, ProxyTyped, ConnectionsTyped
  <1>2. UNCHANGED <<link, backlog, table, watched, apps, beat, quiet, client>>
    BY DEF epoll_wait, TimerExpires, Forward, ForwardBegins, ForwardHeader, ForwardMessage,
           proxyVars
  <1>3. /\ batch' \subseteq Fds \cup {TimerFd, ListenFd}
        /\ ListenFd \in batch' => backlog # << >>
    <2>1. CASE epoll_wait
      <3>1. batch' = Ready
        BY <2>1 DEF epoll_wait
      <3>2. Ready \subseteq Fds \cup {TimerFd, ListenFd}
        BY <1>1 DEF Ready
      <3>3. ListenFd \in Ready => backlog # << >>
        BY <1>1, FdsFacts DEF Ready
      <3> QED BY <3>1, <3>2, <3>3
    <2>2. CASE ~epoll_wait
      <3>1. batch' = batch
        BY <2>2 DEF TimerExpires, Forward, ForwardBegins, ForwardHeader, ForwardMessage,
                    proxyVars
      <3> QED BY <1>1, <3>1
    <2> QED BY <2>1, <2>2
  <1>4. notify' \in [part : 0..2, fd : Fds \cup {0}]
    <2>1. CASE notify' = notify
      BY <1>1, <2>1
    <2>2. CASE ForwardBegins
      <3>1. PICK a \in AppIds : notify' = [part |-> 1, fd |-> apps[a].notify_fd]
        BY <2>2 DEF ForwardBegins
      <3>2. apps[a].notify_fd \in Fds \cup {0}
        BY <1>1 DEF EaInfo
      <3> QED BY <3>1, <3>2
    <2>3. CASE notify' = NotForwarding
      BY <2>3 DEF NotForwarding
    <2>4. CASE notify' = [notify EXCEPT !.part = 2]
      BY <1>1, <2>4
    <2> QED BY <2>1, <2>2, <2>3, <2>4 DEF epoll_wait, TimerExpires, Forward, ForwardHeader,
                                          ForwardMessage, proxyVars
  <1>5. \A i \in 1..Len(link) : Waits(link[i], client, i) => Waits(link'[i], client', i)
    BY <1>2
  <1> QED BY <1>1, <1>2, <1>3, <1>4, <1>5, QuietStep

LEMMA ProxyStep == ProxyInv /\ [ProxyNext]_proxyVars => ProxyInv'
  <1> SUFFICES ASSUME ProxyInv, [ProxyNext]_proxyVars PROVE ProxyInv'
    OBVIOUS
  <1>1. calm' = calm
    BY DEF ProxyNext, proxyVars
  <1>2. CASE \E p \in Procs : Client(p)
    BY <1>1, <1>2, ClientKeeps
  <1>3. CASE check_all_external_app_heartbeats
    BY <1>1, <1>3, CheckKeeps
  <1>4. CASE handle_new_client_registration
    BY <1>1, <1>4, RegistrationKeeps
  <1>5. CASE handle_registered_client_packet
    BY <1>1, <1>5, EventKeeps
  <1>6. CASE epoll_wait \/ TimerExpires \/ Forward \/ UNCHANGED proxyVars
    BY <1>1, <1>6, OtherStepsKeep
  <1> QED BY <1>2, <1>3, <1>4, <1>5, <1>6 DEF ProxyNext, Proxy

LEMMA ProxyInvariant == ProxySpec => []ProxyInv
  BY ProxyStarts, ProxyStep, PTL DEF ProxySpec

(* Whatever the clients do, the heartbeat check leaves no application      *)
(* linked that has been silent for more than the allowed number of checks; *)
(* when they are calm, an application's descriptors are open connections   *)
(* of its own process, although the kernel uses the numbers again.         *)
THEOREM ChannelsAreOwn == ProxySpec => []LinksRight
  BY ProxyInvariant, ProxyInvImplies, PTL

(* The check takes nobody's link who reported within the allowed number of *)
(* checks, although both counters wrap.                                    *)
THEOREM BeatingKept == ProxySpec => BeatingAppsKept
  <1>1. ASSUME ProxyInv, [ProxyNext]_proxyVars, NEW a \in AppIds,
               TimerFd \in batch, TimerFd \notin batch', Linked(a), ~Linked(a)'
        PROVE  quiet[a] > Allowed
    <2>1. check_all_external_app_heartbeats
      <3>1. batch' # batch
        BY <1>1
      <3>2. ~UNCHANGED proxyVars
        BY <3>1 DEF proxyVars
      <3>3. ~epoll_wait
        BY <1>1 DEF epoll_wait
      <3>4. ~handle_new_client_registration
        BY <1>1, FdsFacts DEF handle_new_client_registration
      <3>5. ~handle_registered_client_packet
        BY <1>1 DEF handle_registered_client_packet
      <3>6. ~Forward /\ ~TimerExpires
        BY <3>1 DEF TimerExpires, Forward, ForwardBegins, ForwardHeader, ForwardMessage
      <3>7. \A p \in Procs : ~Client(p)
        BY <3>1 DEF Client, Register, ConnectInteract, ConnectNotify, Registered,
                    RegistrationRefused, ProcessEnds, SendPacket, ProcessCrashes
      <3> QED BY <1>1, <3>2, <3>3, <3>4, <3>5, <3>6, <3>7 DEF ProxyNext, Proxy
    <2> QED BY <1>1, <2>1, CheckUnlinksSilent
  <1>2. ProxyInv /\ [ProxyNext]_proxyVars =>
           [\A a \in AppIds :
              (TimerFd \in batch /\ TimerFd \notin batch' /\ Linked(a) /\ ~Linked(a)')
                  => quiet[a] > Allowed]_proxyVars
    BY <1>1
  <1> QED BY <1>2, ProxyInvariant, PTL DEF ProxySpec, BeatingAppsKept

-----------------------------------------------------------------------------
(* Buses (TSP).                                                            *)

(* The listed buses, each with an object of its own.                       *)
BusRecord == [bus : Buses, target : Targets, id : Nat]
BusesRight(listed, objects) ==
    /\ listed \in Seq(BusRecord)
    /\ \A i \in DOMAIN listed : listed[i].id \in 1..objects
    /\ \A i, j \in DOMAIN listed : listed[i].bus = listed[j].bus => i = j
BusesOf(listed) == {listed[i].bus : i \in DOMAIN listed}

(* What the other variables hold.                                          *)
TransitData ==
    /\ made \in Nat
    /\ holding \in [id : Nat, distance : Nat]
    /\ amount \in 0..MaxObjects
    /\ signal \in [phase : 0..PhaseCount, step : {1, 2}]

(* The inductive invariant.                                                *)
TransitInv == BusesRight(bus_list, made) /\ TransitData /\ CommandsOfListed

(* The constants, as the proofs use them.                                  *)
LEMMA TransitConstants ==
    /\ PhaseCount \in 1..8 /\ MaxObjects \in Nat
    /\ Distances \subseteq Nat /\ Seconds \subseteq Nat /\ Targets \subseteq Nat
  <1>1. PhaseCount \in 1..8 /\ MaxObjects \in Nat
    BY TSPAssumption
  <1>2. Distances \subseteq Nat
    BY TSPAssumption
  <1>3. Seconds \subseteq Nat /\ Targets \subseteq Nat
    BY TSPAssumption
  <1> QED BY <1>1, <1>2, <1>3

-----------------------------------------------------------------------------
(* The first green of the target phase counted forward is in this cycle    *)
(* when the phase is still to come or has just begun, else in the next.    *)
LEMMA FirstCycleRight ==
    ASSUME NEW s \in [phase : 1..PhaseCount, step : {1, 2}], NEW t \in 1..PhaseCount
    PROVE  NextGreen(s, t) = IF t > s.phase \/ (t = s.phase /\ s.step = 1)
                             THEN 0 ELSE 1
  <1> DEFINE n == PhaseCount
             p == s.phase
             ahead == {k \in 0..n : ((p - 1 + k) % n) + 1 = t /\ (k > 0 \/ s.step = 1)}
             first == IF t > p \/ (t = p /\ s.step = 1) THEN t - p ELSE n + t - p
             least == CHOOSE k \in ahead : \A m \in ahead : k <= m
  <1>1. n \in 1..8 /\ p \in 1..n /\ t \in 1..n /\ s.step \in {1, 2}
    BY TransitConstants
  <1>2. NextGreen(s, t) = (p - 1 + least) \div n
    BY DEF NextGreen
  <1> HIDE DEF n, p
  <1>3. ASSUME NEW k \in 0..n
        PROVE  /\ (p - 1 + k) % n = IF p - 1 + k < n THEN p - 1 + k ELSE (p - 1 + k) - n
               /\ (p - 1 + k) \div n = IF p - 1 + k < n THEN 0 ELSE 1
    <2> DEFINE x == p - 1 + k
    <2>1. x \in Nat /\ x < n + n /\ n \in Nat \ {0}
      BY <1>1
    <2> HIDE DEF x
    <2>2. /\ x % n = IF x < n THEN x ELSE x - n
          /\ x \div n = IF x < n THEN 0 ELSE 1
      BY <2>1, Wrap, TurnsMade
    <2> QED BY <1>1, <2>2 DEF x
  <1>4. \A k \in 0..n : k \in ahead => k = t - p \/ k = n + t - p
    BY <1>1, <1>3
  <1>5. first \in ahead
    <2>1. first \in 0..n
      BY <1>1
    <2>2. CASE t > p \/ (t = p /\ s.step = 1)
      BY <1>1, <1>3, <2>1, <2>2
    <2>3. CASE ~(t > p \/ (t = p /\ s.step = 1))
      BY <1>1, <1>3, <2>1, <2>3
    <2> QED BY <2>2, <2>3
  <1>6. \A k \in ahead : first <= k
    BY <1>1, <1>4
  <1>7. least = first
    <2>1. \A k \in ahead : k \in Int
      OBVIOUS
    <2>2. first \in Int
      BY <1>5, <2>1
    <2> HIDE DEF ahead, first
    <2>3. \E k \in ahead : \A m \in ahead : k <= m
      BY <1>5, <1>6
    <2>4. least \in ahead /\ \A m \in ahead : least <= m
      BY <2>3
    <2>5. least <= first /\ first <= least /\ least \in Int
      BY <1>5, <1>6, <2>1, <2>4
    <2> QED BY <2>2, <2>5
  <1>8. (p - 1 + first) \div n = IF t > p \/ (t = p /\ s.step = 1) THEN 0 ELSE 1
    <2>1. first \in 0..n
      BY <1>1
    <2>2. (p - 1 + first) \div n = IF p - 1 + first < n THEN 0 ELSE 1
      BY <1>3, <2>1
    <2> QED BY <1>1, <2>2
  <1> QED BY <1>2, <1>7, <1>8 DEF p

-----------------------------------------------------------------------------
(* The search finds the bus, or nobody has its name.                       *)
LEMMA BusFound ==
    ASSUME BusesRight(bus_list, made), NEW b
    PROVE  /\ TSP_host_OBU_obj_search(b) = 0 => b \notin BusesOf(bus_list)
           /\ TSP_host_OBU_obj_search(b) # 0 =>
                  /\ TSP_host_OBU_obj_search(b) \in 1..Len(bus_list)
                  /\ bus_list[TSP_host_OBU_obj_search(b)].bus = b
  <1> DEFINE found == {i \in DOMAIN bus_list : bus_list[i].bus = b}
  <1>1. DOMAIN bus_list = 1..Len(bus_list) /\ Len(bus_list) \in Nat
    BY DEF BusesRight
  <1>2. CASE found = {}
    <2>1. TSP_host_OBU_obj_search(b) = 0
      BY <1>2 DEF TSP_host_OBU_obj_search
    <2> QED BY <1>2, <2>1 DEF BusesOf
  <1>3. CASE found # {}
    <2>1. TSP_host_OBU_obj_search(b) = CHOOSE i \in found : TRUE
      BY <1>3 DEF TSP_host_OBU_obj_search
    <2>2. TSP_host_OBU_obj_search(b) \in found
      BY <1>3, <2>1
    <2> QED BY <1>1, <2>2
  <1> QED BY <1>2, <1>3

(* Deleting a bus leaves the others, those behind it one place forward.    *)
LEMMA BusLeaves ==
    ASSUME BusesRight(bus_list, made), NEW b
    PROVE  /\ BusesRight(WithoutBus(b), made)
           /\ BusesOf(WithoutBus(b)) = BusesOf(bus_list) \ {b}
  <1> DEFINE gone == TSP_host_OBU_obj_search(b)
             from(i) == IF i < gone THEN i ELSE i + 1
             rest == [i \in 1..(Len(bus_list) - 1) |-> bus_list[from(i)]]
  <1>1. CASE gone = 0
    <2>1. WithoutBus(b) = bus_list
      BY <1>1 DEF WithoutBus
    <2> QED BY <1>1, <2>1, BusFound
  <1>2. CASE gone # 0
    <2>1. /\ gone \in 1..Len(bus_list) /\ Len(bus_list) \in Nat
          /\ bus_list[gone].bus = b
      BY <1>2, BusFound DEF BusesRight
    <2>2. /\ DOMAIN bus_list = 1..Len(bus_list)
          /\ \A i \in 1..Len(bus_list) : /\ bus_list[i] \in BusRecord
                                         /\ bus_list[i].id \in 1..made
      BY DEF BusesRight
    <2>3. WithoutBus(b) = rest
      BY <1>2 DEF WithoutBus
    <2>4. /\ \A i \in 1..(Len(bus_list) - 1) : from(i) \in 1..Len(bus_list)
          /\ \A i \in 1..(Len(bus_list) - 1) : from(i) # gone
          /\ \A i, j \in 1..(Len(bus_list) - 1) : from(i) = from(j) => i = j
          /\ \A k \in 1..Len(bus_list) : k # gone =>
                 \E i \in 1..(Len(bus_list) - 1) : from(i) = k
      <3>1. ASSUME NEW k \in 1..Len(bus_list), k # gone
            PROVE  \E i \in 1..(Len(bus_list) - 1) : from(i) = k
        <4>1. CASE k < gone
          <5>1. k \in 1..(Len(bus_list) - 1) /\ from(k) = k
            BY <2>1, <4>1
          <5> QED BY <5>1
        <4>2. CASE ~(k < gone)
          <5>1. k - 1 \in 1..(Len(bus_list) - 1) /\ from(k - 1) = k
            BY <2>1, <3>1, <4>2
          <5> QED BY <5>1
        <4> QED BY <4>1, <4>2
      <3> QED BY <2>1, <3>1
    <2> HIDE DEF gone, from
    <2>5. rest \in Seq(BusRecord) /\ DOMAIN rest = 1..(Len(bus_list) - 1)
      BY <2>1, <2>2, <2>4
    <2>6. \A i \in DOMAIN rest : rest[i] = bus_list[from(i)] /\ from(i) \in DOMAIN bus_list
      BY <2>2, <2>4, <2>5
    <2> HIDE DEF rest
    <2>7. \A i, j \in DOMAIN bus_list : bus_list[i].bus = bus_list[j].bus => i = j
      BY DEF BusesRight
    <2>8. ASSUME NEW i \in DOMAIN rest, NEW j \in DOMAIN rest, rest[i].bus = rest[j].bus
          PROVE  i = j
      <3>1. from(i) = from(j)
        BY <2>6, <2>7, <2>8
      <3> QED BY <2>4, <2>5, <3>1
    <2>9. BusesRight(rest, made)
      BY <2>2, <2>5, <2>6, <2>8 DEF BusesRight
    <2>10. BusesOf(rest) = BusesOf(bus_list) \ {b}
      <3>1. ASSUME NEW i \in DOMAIN rest
            PROVE  rest[i].bus \in BusesOf(bus_list) \ {b}
        <4>1. from(i) \in DOMAIN bus_list /\ rest[i] = bus_list[from(i)] /\ from(i) # gone
          BY <2>4, <2>5, <2>6
        <4>2. bus_list[from(i)].bus # b
          BY <2>1, <2>2, <2>7, <4>1
        <4> QED BY <4>1, <4>2 DEF BusesOf
      <3>2. ASSUME NEW k \in DOMAIN bus_list, bus_list[k].bus # b
            PROVE  bus_list[k].bus \in BusesOf(rest)
        <4>1. k \in 1..Len(bus_list) /\ k # gone
          BY <2>1, <2>2, <3>2
        <4>2. PICK i \in 1..(Len(bus_list) - 1) : from(i) = k
          BY <2>4, <4>1
        <4> QED BY <2>5, <2>6, <4>2 DEF BusesOf
      <3> QED BY <3>1, <3>2 DEF BusesOf
    <2> QED BY <2>3, <2>9, <2>10 DEF rest
  <1> QED BY <1>1, <1>2

(* The object of an id is one of the list.                                 *)
LEMMA ObjectIsListed ==
    ASSUME BusesRight(bus_list, made), NEW id \in Ids
    PROVE  Object(id) \in BusRecord /\ Object(id).bus \in BusesOf(bus_list)
  <1>1. PICK h \in DOMAIN bus_list : bus_list[h].id = id
    BY DEF Ids
  <1> DEFINE k == CHOOSE i \in DOMAIN bus_list : bus_list[i].id = id
  <1>2. k \in DOMAIN bus_list
    BY <1>1
  <1>3. Object(id) = bus_list[k]
    BY DEF Object
  <1> HIDE DEF k
  <1>4. bus_list[k] \in BusRecord
    BY <1>2 DEF BusesRight
  <1> QED BY <1>2, <1>3, <1>4 DEF BusesOf

(* A new bus goes behind the others.                                       *)
LEMMA BusJoins ==
    ASSUME BusesRight(bus_list, made), made \in Nat, NEW b \in Buses, NEW t \in Targets,
           b \notin BusesOf(bus_list)
    PROVE  LET longer == Append(bus_list, [bus |-> b, target |-> t, id |-> made + 1])
           IN  /\ BusesRight(longer, made + 1)
               /\ BusesOf(longer) = BusesOf(bus_list) \cup {b}
  <1> DEFINE h == [bus |-> b, target |-> t, id |-> made + 1]
             longer == Append(bus_list, h)
             n == Len(bus_list)
  <1>1. h \in BusRecord /\ h.bus = b /\ h.id = made + 1
    BY DEF BusRecord
  <1>2. /\ bus_list \in Seq(BusRecord) /\ n \in Nat /\ DOMAIN bus_list = 1..n
        /\ \A i \in DOMAIN bus_list : bus_list[i].id \in 1..made
        /\ \A i, j \in DOMAIN bus_list : bus_list[i].bus = bus_list[j].bus => i = j
        /\ \A i \in DOMAIN bus_list : bus_list[i].bus # b
    BY DEF BusesRight, BusesOf
  <1> HIDE DEF h
  <1>3. /\ longer \in Seq(BusRecord) /\ DOMAIN longer = 1..(n + 1)
        /\ \A i \in 1..n : longer[i] = bus_list[i]
        /\ longer[n + 1] = h
    BY <1>1, <1>2
  <1> HIDE DEF longer, n
  <1>4. \A i \in DOMAIN longer : longer[i].id \in 1..(made + 1)
    BY <1>1, <1>2, <1>3
  <1>5. ASSUME NEW i \in DOMAIN longer, NEW j \in DOMAIN longer,
               longer[i].bus = longer[j].bus
        PROVE  i = j
    BY <1>1, <1>2, <1>3, <1>5
  <1>6. BusesOf(longer) = BusesOf(bus_list) \cup {b}
    <2>1. \A i \in DOMAIN longer : longer[i].bus \in BusesOf(bus_list) \cup {b}
      BY <1>1, <1>2, <1>3 DEF BusesOf
    <2>2. \A i \in DOMAIN bus_list : bus_list[i].bus \in BusesOf(longer)
      <3>1. \A i \in DOMAIN bus_list : i \in DOMAIN longer /\ longer[i] = bus_list[i]
        BY <1>2, <1>3
      <3> QED BY <3>1 DEF BusesOf
    <2>3. b \in BusesOf(longer)
      <3>1. n + 1 \in DOMAIN longer /\ longer[n + 1].bus = b
        BY <1>1, <1>2, <1>3
      <3> QED BY <3>1 DEF BusesOf
    <2> QED BY <2>1, <2>2, <2>3 DEF BusesOf
  <1> QED BY <1>3, <1>4, <1>5, <1>6 DEF BusesRight, h, longer

-----------------------------------------------------------------------------
(* A lookup under way stays inside the matrix.                             *)
LEMMA LookupFits ==
    ASSUME NEW d \in Nat, NEW p \in 1..8, NEW s \in Nat, NEW t \in Nat
    PROVE  LET i == Index(d, p, s, t)
           IN  /\ i.distance < DISTANCE_NUM /\ i.time < TIME_NUM /\ i.phase < 8
               /\ t \in 1..8 => i.target < 8
  <1>1. d \div 10 \in Int /\ s \div 2 \in Int
    OBVIOUS
  <1>2. /\ AtMost(d \div 10, DISTANCE_NUM - 1) < DISTANCE_NUM
        /\ AtMost(s \div 2, TIME_NUM - 1) < TIME_NUM
    BY <1>1 DEF AtMost, DISTANCE_NUM, TIME_NUM
  <1>3. ASSUME NEW n \in 1..8 PROVE Uint8(n - 1) < 8
    BY DEF Uint8
  <1> QED BY <1>2, <1>3 DEF Index

(* The invariant gives all that the run checks of buses.                   *)
LEMMA TransitInvImplies == TransitInv => BusesServed
  <1> SUFFICES ASSUME TransitInv PROVE BusesServed
    OBVIOUS
  <1>1. /\ BusesRight(bus_list, made) /\ TransitData /\ CommandsOfListed
    BY DEF TransitInv
  <1>2. TransitTyped
    <2>1. \A i \in DOMAIN bus_list : bus_list[i] \in BusRecord /\ bus_list[i].id \in 1..made
      BY <1>1 DEF BusesRight
    <2>2. \A i \in DOMAIN bus_list : bus_list[i].bus \in Buses
      BY <2>1 DEF BusRecord
    <2> QED BY <1>1, <2>1, <2>2 DEF TransitTyped, TransitData
  <1>3. BusesListedOnce
    BY <1>1 DEF BusesListedOnce, BusesRight
  <1>4. FirstSecondAimed
    <2>1. ASSUME signal.phase # 0, NEW t \in 1..PhaseCount
          PROVE  FirstCycle(t) = NextGreen(signal, t)
      <3>1. signal \in [phase : 1..PhaseCount, step : {1, 2}]
        BY <1>1, <2>1, TransitConstants DEF TransitData
      <3> QED BY <3>1, FirstCycleRight DEF FirstCycle
    <2> QED BY <2>1 DEF FirstSecondAimed
  <1>5. LookupInside
    <2>1. ASSUME holding.id \in Ids, signal.phase # 0, NEW s \in Seconds
          PROVE  LET o == Object(holding.id)
                     i == Index(holding.distance, signal.phase, s, o.target)
                 IN  /\ i.distance < DISTANCE_NUM /\ i.time < TIME_NUM /\ i.phase < 8
                     /\ o.target \in 1..8 => i.target < 8
      <3>1. Object(holding.id).target \in Nat
        BY <1>1, <2>1, ObjectIsListed, TransitConstants DEF BusRecord
      <3>2. holding.distance \in Nat /\ signal.phase \in 1..8 /\ s \in Nat
        BY <1>1, <2>1, TransitConstants DEF TransitData
      <3> QED BY <3>1, <3>2, LookupFits
    <2> QED BY <2>1 DEF LookupInside
  <1> QED BY <1>1, <1>2, <1>3, <1>4, <1>5 DEF BusesServed

(* It holds at the start ...                                               *)
LEMMA TransitStarts == TransitInit => TransitInv
  <1> SUFFICES ASSUME TransitInit PROVE TransitInv
    OBVIOUS
  <1>1. bus_list = << >> /\ made = 0 /\ buf = {}
    BY DEF TransitInit
  <1>2. BusesRight(bus_list, made)
    BY <1>1 DEF BusesRight
  <1>3. TransitData
    BY TransitConstants DEF TransitInit, TransitData, NoObject
  <1>4. CommandsOfListed
    BY <1>1 DEF CommandsOfListed
  <1> QED BY <1>2, <1>3, <1>4 DEF TransitInv

(* What a step leaves in the buffer is of listed buses when what it adds   *)
(* is, and no bus leaves the list with commands unless it timed out.       *)
LEMMA CommandsKept ==
    ASSUME CommandsOfListed,
           \A c \in buf' : \/ c \in buf /\ (\/ c.bus \notin BusesOf(bus_list) \cup timedOut
                                            \/ c.bus \in BusesOf(bus_list') \cup timedOut')
                           \/ c.bus \in BusesOf(bus_list') \cup timedOut'
                           \/ c.why \in {"group", "freed"}
    PROVE  CommandsOfListed'
  BY DEF CommandsOfListed, BusesOf, ListedBuses

(* An offer adds one command or none.                                      *)
LEMMA Offered ==
    ASSUME NEW b, NEW why, NEW t, NEW new \in Offer(b, why, t)
    PROVE  \A c \in new : c \in buf \/ (c.bus = b /\ c.why = why)
  <1>1. new = buf \/ new = buf \cup {[bus |-> b, why |-> why]}
    BY DEF Offer
  <1> QED BY <1>1

-----------------------------------------------------------------------------
(* Command 4: the bus is listed, and its first second is its own.          *)
LEMMA RegistrationStep ==
    ASSUME TransitInv, NEW b \in Buses, NEW t \in Targets, TSP_host_OBU_obj_insert(b, t)
    PROVE  TransitInv'
  <1>1. /\ BusesRight(bus_list, made) /\ TransitData /\ CommandsOfListed
        /\ timedOut' = timedOut \ {b} /\ UNCHANGED <<holding, signal>>
        /\ amount' = IF enabled THEN AtMost(amount + 1, MaxObjects) ELSE amount
    BY DEF TransitInv, TSP_host_OBU_obj_insert
  <1>2. amount' \in 0..MaxObjects
    BY <1>1, TransitConstants DEF TransitData, AtMost
  <1>3. CASE b \in ListedBuses
    <2>1. UNCHANGED <<bus_list, made, buf>>
      BY <1>3 DEF TSP_host_OBU_obj_insert
    <2>2. b \in BusesOf(bus_list)
      BY <1>3 DEF ListedBuses, BusesOf
    <2>3. CommandsOfListed'
      BY <1>1, <2>1, <2>2, CommandsKept
    <2> QED BY <1>1, <1>2, <2>1, <2>3 DEF TransitInv, TransitData
  <1>4. CASE b \notin ListedBuses
    <2>1. /\ made' = made + 1
          /\ bus_list' = Append(bus_list, [bus |-> b, target |-> t, id |-> made'])
          /\ \/ buf' = buf
             \/ buf' \in Offer(b, "listed", t)
      BY <1>4 DEF TSP_host_OBU_obj_insert
    <2>2. b \notin BusesOf(bus_list)
      BY <1>4 DEF ListedBuses, BusesOf
    <2>3. made \in Nat
      BY <1>1 DEF TransitData
    <2>4. /\ BusesRight(bus_list', made')
          /\ BusesOf(bus_list') = BusesOf(bus_list) \cup {b}
      BY <1>1, <2>1, <2>2, <2>3, BusJoins
    <2>5. \A c \in buf' : c \in buf \/ c.bus = b
      BY <2>1, Offered
    <2>6. CommandsOfListed'
      BY <1>1, <2>4, <2>5, CommandsKept
    <2>7. TransitData'
      BY <1>1, <1>2, <2>1 DEF TransitData
    <2> QED BY <2>4, <2>6, <2>7 DEF TransitInv
  <1> QED BY <1>3, <1>4

(* Command 5: the bus's commands leave with it.                            *)
LEMMA DeletionStep ==
    ASSUME TransitInv, NEW b \in Buses, TSP_host_OBU_obj_delete(b)
    PROVE  TransitInv'
  <1>1. /\ BusesRight(bus_list, made) /\ TransitData /\ CommandsOfListed
        /\ bus_list' = WithoutBus(b) /\ buf' = {c \in buf : c.bus # b}
        /\ timedOut' = timedOut \ {b} /\ UNCHANGED <<made, holding, signal>>
        /\ amount' = IF amount > 0 THEN amount - 1 ELSE 0
    BY DEF TransitInv, TSP_host_OBU_obj_delete
  <1>2. BusesRight(bus_list', made') /\ BusesOf(bus_list') = BusesOf(bus_list) \ {b}
    BY <1>1, BusLeaves
  <1>3. TransitData'
    BY <1>1, TransitConstants DEF TransitData
  <1>4. CommandsOfListed'
    BY <1>1, <1>2, CommandsKept
  <1> QED BY <1>2, <1>3, <1>4 DEF TransitInv

(* Command 3: what it adds is marked as group control's.                   *)
LEMMA GroupStep ==
    ASSUME TransitInv, NEW b \in Buses, NEW t \in Targets, GroupControl(b, t)
    PROVE  TransitInv'
  <1>1. /\ TransitInv /\ buf' \in Offer(b, "group", t)
        /\ UNCHANGED <<bus_list, made, holding, amount, signal, timedOut>>
    BY DEF GroupControl
  <1>2. \A c \in buf' : c \in buf \/ c.why = "group"
    BY <1>1, Offered
  <1>3. CommandsOfListed'
    BY <1>1, <1>2 DEF TransitInv, CommandsOfListed, ListedBuses
  <1> QED BY <1>1, <1>3 DEF TransitInv, TransitData

(* Enabling, disabling, and the buffer sending: commands only go.          *)
LEMMA CommandsGo ==
    ASSUME TransitInv, buf' \subseteq buf,
           UNCHANGED <<bus_list, made, holding, amount, signal, timedOut>>
    PROVE  TransitInv'
  <1>1. CommandsOfListed'
    BY DEF TransitInv, CommandsOfListed, ListedBuses
  <1> QED BY <1>1 DEF TransitInv, TransitData

-----------------------------------------------------------------------------
(* A position: the search and the lookup.                                  *)
LEMMA PositionStep ==
    ASSUME TransitInv, NEW b \in Buses, NEW d \in Distances, TSP_on_OBU_packet_rx(b, d)
    PROVE  TransitInv'
  <1> DEFINE p == TSP_host_OBU_obj_search(b)
  <1>1. /\ BusesRight(bus_list, made) /\ TransitData /\ CommandsOfListed
        /\ p # 0 /\ holding' = [id |-> bus_list[p].id, distance |-> d]
        /\ UNCHANGED <<bus_list, made, buf, amount, signal, timedOut>>
    BY DEF TransitInv, TSP_on_OBU_packet_rx
  <1>2. bus_list[p] \in BusRecord
    <2>1. p \in 1..Len(bus_list)
      BY <1>1, BusFound
    <2> HIDE DEF p
    <2> QED BY <1>1, <2>1 DEF BusesRight
  <1> HIDE DEF p
  <1>3. holding' \in [id : Nat, distance : Nat]
    BY <1>1, <1>2, TransitConstants DEF BusRecord
  <1> QED BY <1>1, <1>3 DEF TransitInv, TransitData, CommandsOfListed, ListedBuses

(* The lookup offers for the object found, or for a freed one.             *)
LEMMA LookupStep ==
    ASSUME TransitInv, NEW plan, TSP_supermatrix_lookup(plan)
    PROVE  TransitInv'
  <1>1. /\ BusesRight(bus_list, made) /\ TransitData /\ CommandsOfListed
        /\ holding' = NoObject
        /\ UNCHANGED <<bus_list, made, amount, signal, timedOut>>
    BY DEF TransitInv, TSP_supermatrix_lookup
  <1>2. TransitData'
    BY <1>1 DEF TransitData, NoObject
  <1>3. \A c \in buf' : c \in buf \/ c.why = "freed" \/ c.bus \in BusesOf(bus_list)
    <2>1. CASE holding.id \notin Ids
      <3>1. PICK b \in Buses : buf' \in Offer(b, "freed", 1)
        BY <2>1 DEF TSP_supermatrix_lookup
      <3> QED BY <3>1, Offered
    <2>2. CASE holding.id \in Ids
      <3> DEFINE o == Object(holding.id)
      <3>1. buf' = buf \/ buf' \in Offer(o.bus, "listed", o.target)
        BY <2>2 DEF TSP_supermatrix_lookup
      <3>2. o.bus \in BusesOf(bus_list)
        BY <1>1, <2>2, ObjectIsListed
      <3> HIDE DEF o
      <3> QED BY <3>1, <3>2, Offered
    <2> QED BY <2>1, <2>2
  <1>4. CommandsOfListed'
    BY <1>1, <1>3, CommandsKept
  <1> QED BY <1>1, <1>2, <1>4 DEF TransitInv

-----------------------------------------------------------------------------
(* The timeout of a bus, and a handler that finds its object freed.        *)
LEMMA TimedOutBusLeaves ==
    ASSUME TransitInv, NEW b, TimesOut(b), UNCHANGED <<made, holding, buf, amount, signal>>
    PROVE  TransitInv'
  <1>1. /\ BusesRight(bus_list, made) /\ TransitData /\ CommandsOfListed
        /\ bus_list' = WithoutBus(b) /\ timedOut' = timedOut \cup {b}
    BY DEF TransitInv, TimesOut
  <1>2. BusesRight(bus_list', made') /\ BusesOf(bus_list') = BusesOf(bus_list) \ {b}
    BY <1>1, BusLeaves
  <1>3. CommandsOfListed'
    BY <1>1, <1>2, CommandsKept
  <1> QED BY <1>1, <1>2, <1>3 DEF TransitInv, TransitData

(* Its handler deletes by the name in the object, if that is still there.  *)
LEMMA BusTimeoutStep ==
    ASSUME TransitInv, NEW id, TSP_host_OBU_list_timeout_timer_handler(id)
    PROVE  TransitInv'
  <1>1. /\ UNCHANGED <<made, holding, buf, amount, signal>>
        /\ \/ \E b : TimesOut(b)
           \/ UNCHANGED <<bus_list, timedOut>>
    BY DEF TSP_host_OBU_list_timeout_timer_handler
  <1>2. CASE \E b : TimesOut(b)
    BY <1>1, <1>2, TimedOutBusLeaves
  <1>3. CASE UNCHANGED <<bus_list, timedOut>>
    BY <1>1, <1>3, CommandsGo
  <1> QED BY <1>1, <1>2, <1>3

(* The controller moves.                                                   *)
LEMMA BusSignalMoves ==
    ASSUME TransitInv, SignalMoves
    PROVE  TransitInv'
  <1>1. /\ TransitInv /\ UNCHANGED <<bus_list, made, holding, buf, amount, timedOut>>
        /\ signal \in [phase : 0..PhaseCount, step : {1, 2}]
        /\ \/ signal' = [signal EXCEPT !.step = 2]
           \/ signal' = [phase |-> IF signal.phase = PhaseCount THEN 1
                                   ELSE signal.phase + 1, step |-> 1]
           \/ signal' = [phase |-> 0, step |-> 1]
    BY DEF SignalMoves, TransitInv, TransitData
  <1>2. signal' \in [phase : 0..PhaseCount, step : {1, 2}]
    BY <1>1, TransitConstants
  <1>3. CommandsOfListed'
    BY <1>1 DEF TransitInv, CommandsOfListed, ListedBuses
  <1> QED BY <1>1, <1>2, <1>3 DEF TransitInv, TransitData

(* ... and every step keeps it.                                            *)
LEMMA TransitStep == TransitInv /\ [TransitNext]_transitVars => TransitInv'
  <1> SUFFICES ASSUME TransitInv, [TransitNext]_transitVars PROVE TransitInv'
    OBVIOUS
  <1>1. ASSUME NEW b \in Buses, NEW t \in Targets,
               TSP_host_OBU_obj_insert(b, t) \/ GroupControl(b, t)
        PROVE  TransitInv'
    BY <1>1, RegistrationStep, GroupStep
  <1>2. ASSUME NEW b \in Buses, TSP_host_OBU_obj_delete(b) PROVE TransitInv'
    BY <1>2, DeletionStep
  <1>3. ASSUME NEW b \in Buses, BufferSends(b) PROVE TransitInv'
    BY <1>3, CommandsGo DEF BufferSends
  <1>4. CASE Enable \/ Disable
    BY <1>4, CommandsGo DEF Enable, Disable
  <1>5. ASSUME NEW b \in Buses, NEW d \in Distances, TSP_on_OBU_packet_rx(b, d)
        PROVE  TransitInv'
    BY <1>5, PositionStep
  <1>6. ASSUME NEW plan \in Plans, TSP_supermatrix_lookup(plan) PROVE TransitInv'
    BY <1>6, LookupStep
  <1>7. ASSUME NEW id \in 1..MaxObjects, BusTimerFires(id) PROVE TransitInv'
    BY <1>7, CommandsGo DEF BusTimerFires
  <1>8. ASSUME NEW id \in 1..MaxObjects, TSP_host_OBU_list_timeout_timer_handler(id)
        PROVE  TransitInv'
    BY <1>8, BusTimeoutStep
  <1>9. CASE SignalMoves
    BY <1>9, BusSignalMoves
  <1>10. CASE UNCHANGED transitVars
    BY <1>10, CommandsGo DEF transitVars
  <1> QED
    BY <1>1, <1>2, <1>3, <1>4, <1>5, <1>6, <1>7, <1>8, <1>9, <1>10 DEF TransitNext

(* BusesServed: a bus is listed once; what the buffer holds of a bus is of *)
(* a listed one, or of one that timed out, unless it came by group control *)
(* or through a freed object; the first second is aimed at the next green  *)
(* of the target phase, and a lookup stays inside the matrix (TSP.c,       *)
(* TSP_OBU_list.c).                                                        *)
THEOREM BusesAreServed == TransitSpec => []BusesServed
  <1>1. TransitSpec => []TransitInv
    BY TransitStarts, TransitStep, PTL DEF TransitSpec
  <1> QED BY <1>1, TransitInvImplies, PTL
=============================================================================
