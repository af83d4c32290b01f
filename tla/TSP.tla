--------------------------------- MODULE TSP ---------------------------------
(***************************************************************************)
(* Transit signal priority (src/application/TSP).  The cloud registers a   *)
(* bus with the phase it needs; from then on every position of the bus     *)
(* looks up a matrix of adjustments, by distance, phase and seconds left,  *)
(* and offers them to the command buffer.  A bus that is not registered    *)
(* again within the timeout leaves the list.                               *)
(*                                                                         *)
(* The dispatcher handles one packet at a time; a timeout's handler runs   *)
(* in a thread of its own and is given a pointer to the bus's object, so   *)
(* it may find it freed.  Reading a freed object gives the name that was   *)
(* there, or that of an object made since, or no name.                     *)
(***************************************************************************)
EXTENDS Integers, Sequences, SequencesExt, FiniteSets

CONSTANTS
    Buses,
    Targets,      \* target phases the cloud may name
    PhaseCount,   \* SubPhaseCount
    Distances, Seconds,   \* of a position, and the seconds its phase has left
    Directory,    \* files of the matrix directory: [rsu, plan, opens]; plan
                  \* is 0 when the name has no number
    Plans,        \* plan numbers the controller may run
    RSU,          \* this unit's name
    MaxObjects,   \* bound: objects made
    Near          \* tsp_remaining_distance_max

ASSUME TSPAssumption ==
    /\ PhaseCount \in 1..8
    /\ Targets \subseteq 0..255
    /\ Distances \subseteq Nat /\ Seconds \subseteq Nat
    /\ MaxObjects \in Nat

VARIABLES
    bus_list,   \* TSP_host_OBU_list: [bus, target, id]
    made,       \* objects made so far
    firing,     \* ids of the objects whose timeout handler was started
    holding,    \* what the dispatcher found for a position: [id, distance]
    buf,        \* external: the command buffer, [bus, why] of each command
    enabled,    \* dontSend2TC = 0
    amount,     \* activate_amount
    signal,     \* the controller: sub-phase (0: flashing) and step
    timedOut    \* history: buses whose listing timed out

transitVars ==
    <<bus_list, made, firing, holding, buf, enabled, amount, signal, timedOut>>

-----------------------------------------------------------------------------
(* TSP_on_registration: the matrices of this unit, one for each plan, in   *)
(* the order of the directory.  A name without a number keeps the number   *)
(* of the file before it.                                                  *)
TSP_RSU_matrix_insert(r, f) ==
    LET plan == IF f.plan = 0 THEN r.plan ELSE f.plan
    IN  [plan |-> plan,
         loaded |-> IF f.rsu = RSU /\ f.opens /\ plan \notin r.loaded
                    THEN r.loaded \union {plan} ELSE r.loaded]
Loaded == FoldLeft(TSP_RSU_matrix_insert, [plan |-> 0, loaded |-> {}],
                   Directory).loaded

(* TSP_RSU_matrix_search                                                   *)
HasMatrix(plan) == plan \in Loaded

DISTANCE_NUM == 50
TIME_NUM == 100
Uint8(n) == n % 256

AtMost(n, m) == IF n > m THEN m ELSE n

(* The row and the column of a lookup.                                     *)
Index(distance, phase, remaining, target) ==
    [distance |-> AtMost(distance \div 10, DISTANCE_NUM - 1),
     phase |-> Uint8(phase - 1),
     time |-> AtMost(remaining \div 2, TIME_NUM - 1),
     target |-> Uint8(target - 1)]

-----------------------------------------------------------------------------
NoObject == [id |-> 0, distance |-> 0]

TransitInit ==
    /\ bus_list = <<>> /\ made = 0 /\ firing = {} /\ holding = NoObject
    /\ buf = {}
    /\ enabled = FALSE /\ amount = 0
    /\ signal = [phase |-> 1, step |-> 1]
    /\ timedOut = {}

Ids == {bus_list[i].id : i \in DOMAIN bus_list}
ListedBuses == {bus_list[i].bus : i \in DOMAIN bus_list}
Object(id) == bus_list[CHOOSE i \in DOMAIN bus_list : bus_list[i].id = id]

(* The place of the bus's object, 0 for none.                              *)
TSP_host_OBU_obj_search(b) ==
    LET found == {i \in DOMAIN bus_list : bus_list[i].bus = b}
    IN  IF found = {} THEN 0 ELSE CHOOSE i \in found : TRUE

(* The list after the deletion of a bus by its name.                       *)
WithoutBus(b) ==
    LET gone == TSP_host_OBU_obj_search(b)
    IN  IF gone = 0 THEN bus_list
        ELSE [i \in 1..(Len(bus_list) - 1) |->
                 bus_list[IF i < gone THEN i ELSE i + 1]]

(* Adjustments are offered to the buffer, which refuses a target phase     *)
(* that does not exist, and may refuse any other (CommandBuffer).          *)
Offer(b, why, target) ==
    {buf} \union IF target \in 1..8
                 THEN {buf \union {[bus |-> b, why |-> why]}} ELSE {}

(* TSP_host_OBU_obj_first_insert: one second more for the next green of    *)
(* the target phase, in this cycle or in the next.                         *)
FirstCycle(target) ==
    IF target > signal.phase \/ (target = signal.phase /\ signal.step = 1)
    THEN 0 ELSE 1

(* Command 4.  A bus that is listed only gets its timer rearmed, and keeps *)
(* its first target; every registration counts, though.                    *)
TSP_host_OBU_obj_insert(b, target) ==
    /\ holding = NoObject
    /\ IF b \in ListedBuses
       THEN UNCHANGED <<bus_list, made, buf>>
       ELSE /\ made < MaxObjects
            /\ made' = made + 1
            /\ bus_list' = Append(bus_list,
                                  [bus |-> b, target |-> target, id |-> made'])
            /\ IF signal.phase = 0 THEN UNCHANGED buf
               ELSE buf' \in Offer(b, "listed", target)
    /\ amount' = IF enabled THEN AtMost(amount + 1, MaxObjects) ELSE amount
    /\ timedOut' = timedOut \ {b}
    /\ UNCHANGED <<firing, holding, enabled, signal>>

(* Mutant: the bus leaves the list and its commands stay.                  *)
DeleteKeepsCommands(b) ==
    /\ holding = NoObject
    /\ bus_list' = WithoutBus(b)
    /\ amount' = IF amount > 0 THEN amount - 1 ELSE 0
    /\ timedOut' = timedOut \ {b}
    /\ UNCHANGED <<made, firing, holding, buf, enabled, signal>>

(* Command 5: the bus leaves the list, its commands leave the buffer and   *)
(* one vehicle fewer is counted, listed or not.                            *)
TSP_host_OBU_obj_delete(b) ==
    /\ holding = NoObject
    /\ bus_list' = WithoutBus(b)
    /\ buf' = {c \in buf : c.bus # b}
    /\ amount' = IF amount > 0 THEN amount - 1 ELSE 0
    /\ timedOut' = timedOut \ {b}
    /\ UNCHANGED <<made, firing, holding, enabled, signal>>

(* Command 3: adjustments for a bus that need not be listed.               *)
GroupControl(b, target) ==
    /\ holding = NoObject
    /\ buf' \in Offer(b, "group", target)
    /\ UNCHANGED <<bus_list, made, firing, holding, enabled, amount, signal,
                   timedOut>>

(* Command 6: enabling forgets every command, of other applications too.   *)
Enable ==
    /\ holding = NoObject /\ ~enabled
    /\ enabled' = TRUE
    /\ buf' = {}
    /\ UNCHANGED <<bus_list, made, firing, holding, amount, signal, timedOut>>

Disable ==
    /\ holding = NoObject /\ enabled
    /\ enabled' = FALSE
    /\ UNCHANGED <<bus_list, made, firing, holding, buf, amount, signal,
                   timedOut>>

-----------------------------------------------------------------------------
(* A position of a bus: its object is searched, under the list's mutex ... *)
TSP_on_OBU_packet_rx(b, distance) ==
    /\ holding = NoObject
    /\ TSP_host_OBU_obj_search(b) # 0 /\ distance < Near
    /\ holding' = [id |-> bus_list[TSP_host_OBU_obj_search(b)].id,
                    distance |-> distance]
    /\ UNCHANGED <<bus_list, made, firing, buf, enabled, amount, signal,
                   timedOut>>

(* ... and used after it: a timeout in between has freed it.               *)
TSP_supermatrix_lookup(plan) ==
    /\ holding # NoObject
    /\ holding' = NoObject
    /\ IF holding.id \notin Ids
       THEN \E b \in Buses : buf' \in Offer(b, "freed", 1)
       ELSE LET o == Object(holding.id)
            IN  IF signal.phase # 0 /\ HasMatrix(plan)
                THEN buf' \in Offer(o.bus, "listed", o.target)
                ELSE UNCHANGED buf
    /\ UNCHANGED <<bus_list, made, firing, enabled, amount, signal, timedOut>>

(* The timer of a listed bus expires: its handler's thread is started.     *)
BusTimerFires(id) ==
    /\ id \in Ids \ firing
    /\ firing' = firing \union {id}
    /\ UNCHANGED <<bus_list, made, holding, buf, enabled, amount, signal,
                   timedOut>>

TimesOut(b) ==
    /\ bus_list' = WithoutBus(b)
    /\ timedOut' = timedOut \union {b}

(* The handler deletes the bus whose name it finds in the object.  The     *)
(* bus's commands stay in the buffer and amount is not changed.            *)
TSP_host_OBU_list_timeout_timer_handler(id) ==
    /\ id \in firing
    /\ firing' = firing \ {id}
    /\ IF id \in Ids
       THEN TimesOut(Object(id).bus)
       ELSE \/ \E b \in ListedBuses : TimesOut(b)
            \/ UNCHANGED <<bus_list, timedOut>>
    /\ UNCHANGED <<made, holding, buf, enabled, amount, signal>>

(* External: the buffer sends what it holds for a bus.                     *)
BufferSends(b) ==
    /\ \E c \in buf : c.bus = b
    /\ buf' = {c \in buf : c.bus # b}
    /\ UNCHANGED <<bus_list, made, firing, holding, enabled, amount, signal,
                   timedOut>>

(* External: the controller.                                               *)
SignalMoves ==
    /\ signal' \in {[signal EXCEPT !.step = 2],
                    [phase |-> IF signal.phase = PhaseCount THEN 1
                               ELSE signal.phase + 1, step |-> 1],
                    [phase |-> 0, step |-> 1]}
    /\ signal' # signal
    /\ UNCHANGED <<bus_list, made, firing, holding, buf, enabled, amount,
                   timedOut>>

TransitNext ==
    \/ \E b \in Buses, t \in Targets :
           TSP_host_OBU_obj_insert(b, t) \/ GroupControl(b, t)
    \/ \E b \in Buses : TSP_host_OBU_obj_delete(b) \/ BufferSends(b)
    \/ Enable \/ Disable
    \/ \E b \in Buses, d \in Distances : TSP_on_OBU_packet_rx(b, d)
    \/ \E plan \in Plans : TSP_supermatrix_lookup(plan)
    \/ \E id \in 1..MaxObjects :
           BusTimerFires(id) \/ TSP_host_OBU_list_timeout_timer_handler(id)
    \/ SignalMoves

TransitSpec == TransitInit /\ [][TransitNext]_transitVars

-----------------------------------------------------------------------------
TransitTyped ==
    /\ \A i \in DOMAIN bus_list : /\ bus_list[i].bus \in Buses
                                 /\ bus_list[i].id \in 1..made
    /\ amount \in 0..MaxObjects

(* A bus is listed once.                                                   *)
BusesListedOnce ==
    \A i, j \in DOMAIN bus_list : bus_list[i].bus = bus_list[j].bus => i = j

(* The buffer never holds a command of a bus that the cloud has deleted:   *)
(* its bus is listed, or its listing timed out, or the command came by     *)
(* group control or through a freed object.                                *)
CommandsOfListed ==
    \A c \in buf : \/ c.bus \in ListedBuses \union timedOut
                   \/ c.why \in {"group", "freed"}

(* The first second goes to the first green of the target phase that has   *)
(* not begun to end, counting forward through the cycle.                   *)
NextGreen(s, target) ==
    LET ahead == {k \in 0..PhaseCount :
                     /\ ((s.phase - 1 + k) % PhaseCount) + 1 = target
                     /\ k > 0 \/ s.step = 1}
        k == CHOOSE n \in ahead : \A m \in ahead : n <= m
    IN  (s.phase - 1 + k) \div PhaseCount

FirstSecondAimed ==
    signal.phase # 0 =>
        \A t \in 1..PhaseCount : FirstCycle(t) = NextGreen(signal, t)

(* The lookup that is under way stays inside the matrix unless its bus was *)
(* registered with a target phase that no plan has.                        *)
LookupInside ==
    holding.id \in Ids /\ signal.phase # 0 =>
        \A s \in Seconds :
            LET o == Object(holding.id)
                i == Index(holding.distance, signal.phase, s, o.target)
            IN  /\ i.distance < DISTANCE_NUM /\ i.time < TIME_NUM /\ i.phase < 8
                /\ o.target \in 1..8 => i.target < 8

(* Registered buses, their commands and their lookups (TSP_on_cloud_packet *)
(* _rx, TSP_on_OBU_packet_rx and the timeout).                             *)
BusesServed ==
    /\ TransitTyped /\ BusesListedOnce /\ CommandsOfListed
    /\ FirstSecondAimed /\ LookupInside
=============================================================================
