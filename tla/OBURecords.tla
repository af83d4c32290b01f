----------------------------- MODULE OBURecords ------------------------------
(***************************************************************************)
(* The lists of on-board units (src/src/OBU_record_processing.c).  The     *)
(* dispatcher thread turns a basic safety message (BSM) or a signal        *)
(* request (SRM) into a record, puts it into the ring of the vehicle's     *)
(* object and goes on using the object after it has released the list      *)
(* (OBU_packet_rx_event_handler, src/src/com_packet_processing.c).  A      *)
(* timer thread collects the objects whose newest record is too old; the   *)
(* command buffer marks the vehicle whose request it accepted.             *)
(*                                                                         *)
(* A tick is a fixed part of a minute.  The record's speed, heading and    *)
(* position carry no control and are left out; so are log and print.       *)
(***************************************************************************)
EXTENDS Integers, Sequences, SequencesExt

CONSTANTS
    Vehicles,     \* the vehicles heard: [role, id], the id a tuple of bytes
    MsgKinds,     \* which messages they send, of {"BSM", "SRM"}
    Skews,        \* vehicle clock minus RSU clock, in ticks
    Capacity,     \* OBU_RECORD_RING_CAPACITY
    Minute,       \* ticks in a minute
    ExpireTime,   \* OBU_OBJECT_EXPIRE_TIME, 60 s
    HandlerTime,  \* ticks a message is in the dispatcher's hands at most
    MaxMessages,  \* bound on the messages received
    LastArrival,  \* bound: no message arrives after this tick
    MaxClock      \* bound on the clock

Roles == {"ambulance", "bus", "fire", "police", "car"}

OBURecordsAssumption ==
    /\ \A v \in Vehicles : v.role \in Roles /\ v.id \in Seq(Nat)
    /\ MsgKinds \subseteq {"BSM", "SRM"}
    /\ Skews \subseteq Int
    /\ Capacity \in Nat \ {0, 1}
    /\ {Minute, ExpireTime, HandlerTime, MaxMessages, LastArrival, MaxClock} \subseteq Nat
    /\ Minute > 0

VARIABLES
    clock,    \* time()
    lists,    \* special_OBU_list by vehicle type, and the normal list
    disp,     \* where the dispatcher is in OBU_packet_rx_event_handler
    record,   \* the record it fills and inserts
    object,   \* the object it uses after the insertion: its number, or 0
    gc,       \* the collector: the next list to sweep, and current_time
    count     \* messages received so far; numbers messages and objects

vars == <<clock, lists, disp, record, object, gc, count>>

Types == <<"normal", "ambulance", "bus", "fire", "police">>
TypeNames == {Types[i] : i \in 1..Len(Types)}

NoRecord == [name |-> << >>, type |-> "normal", time |-> 0, at |-> 0,
             msg |-> 0]

-----------------------------------------------------------------------------
(* V2R_msgf2OBU_record.  The name is a prefix for the role and the bytes   *)
(* of the id that strncat copies: those before the first zero byte.        *)
OBU_name(v) ==
    LET z == SelectInSeq(v.id, LAMBDA b : b = 0)
    IN  <<v.role>> \o (IF z = 0 THEN v.id ELSE SubSeq(v.id, 1, z - 1))

(* A BSM carries the second within the minute only; the record gets the    *)
(* time of that second in the current minute, or in the minute before.     *)
RecordTime(now, secMark) ==
    LET second == now % Minute
        minute == IF second - secMark > Minute \div 2 THEN now - Minute ELSE now
    IN  minute - second + secMark

(* The classification of a BSM that is none of the four leaves the         *)
(* zeroed record as it is: an empty name, and 0 is VEHICLE_AMBULANCE.      *)
BSMRecord(v, skew) ==
    [name |-> IF v.role = "car" THEN << >> ELSE OBU_name(v),
     type |-> IF v.role = "car" THEN "ambulance" ELSE v.role,
     time |-> RecordTime(clock, (clock + skew) % Minute),
     at   |-> clock, msg |-> count + 1]

(* A signal request names its day, minute and second.                      *)
SRMRecord(v, skew) ==
    [name |-> OBU_name(v), type |-> v.role, time |-> clock + skew,
     at   |-> clock, msg |-> count + 1]

-----------------------------------------------------------------------------
(* The record ring of an object.                                           *)
OBU_record_ring_full(o) == (o.last + 1) % Capacity = o.first

(* The pointer moves on twice, the length once.  seen and heard say which  *)
(* message the object got last and when; the code has no such fields.      *)
OBU_record_ring_push(r, o) ==
    LET last == (((o.last + 1) % Capacity) + 1) % Capacity
    IN  [o EXCEPT !.last = last,
                  !.length = (o.length + 1) % 256,
                  !.ring[last] = [time |-> r.time, msg |-> r.msg],
                  !.seen = r.msg,
                  !.heard = r.at]

OBU_record_ring_pop(o) ==
    [o EXCEPT !.first = (o.first + 1) % Capacity,
              !.length = (o.length + 255) % 256]

OBU_object_new(r) ==
    [id |-> r.msg, name |-> r.name, status |-> "processing",
     first |-> 0, last |-> 0, length |-> 0,
     ring |-> [i \in 0..Capacity - 1 |-> [time |-> 0, msg |-> 0]],
     seen |-> r.msg, heard |-> r.at]

OBU_object_search(list, name) == SelectInSeq(list, LAMBDA o : o.name = name)

RingInsert(r, o) ==
    OBU_record_ring_push(r,
        IF OBU_record_ring_full(o) THEN OBU_record_ring_pop(o) ELSE o)

(* No message yields VEHICLE_NORMAL: this branch of the handler is never   *)
(* taken.  A vehicle keeps its place in the list.                          *)
normal_OBU_record_insert(r, list) ==
    LET i == OBU_object_search(list, r.name)
    IN  IF i = 0 THEN <<RingInsert(r, OBU_object_new(r))>> \o list
        ELSE [list EXCEPT ![i] = RingInsert(r, @)]

(* A vehicle that is known moves to the head of the list.                  *)
special_OBU_record_insert(r, list) ==
    LET i == OBU_object_search(list, r.name)
    IN  IF i = 0 THEN <<OBU_record_ring_push(r, OBU_object_new(r))>> \o list
        ELSE <<RingInsert(r, list[i])>> \o RemoveAt(list, i)

-----------------------------------------------------------------------------
(* OBU_packet_rx_event_handler, in the dispatcher thread: the message is   *)
(* decoded; the record is inserted under the lock of its list; the object  *)
(* is copied and the callbacks run without the lock.                       *)
Decode(r) ==
    /\ disp = "idle"
    /\ count < MaxMessages
    /\ clock <= LastArrival
    /\ record' = r
    /\ count' = count + 1
    /\ disp' = "insert"
    /\ UNCHANGED <<clock, lists, object, gc>>

BasicSafetyMessage ==
    /\ "BSM" \in MsgKinds
    /\ \E v \in Vehicles, skew \in Skews : Decode(BSMRecord(v, skew))

(* A request of another role than these three is refused.                  *)
SignalRequestMessage ==
    /\ "SRM" \in MsgKinds
    /\ \E v \in Vehicles, skew \in Skews :
          /\ v.role \in {"ambulance", "fire", "police"}
          /\ Decode(SRMRecord(v, skew))

Insert ==
    /\ disp = "insert"
    /\ lists' = [lists EXCEPT ![record.type] =
                    IF record.type = "normal"
                    THEN normal_OBU_record_insert(record, @)
                    ELSE special_OBU_record_insert(record, @)]
    /\ LET list == lists'[record.type]
       IN  object' = list[OBU_object_search(list, record.name)].id
    /\ disp' = "use"
    /\ UNCHANGED <<clock, record, gc, count>>

HandlerReturns ==
    /\ disp = "use"
    /\ disp' = "idle"
    /\ object' = 0
    /\ record' = NoRecord
    /\ UNCHANGED <<clock, lists, gc, count>>

-----------------------------------------------------------------------------
(* OBU_object_garbage_collection, in a timer thread: current_time is read  *)
(* once, then list after list is swept under its own lock.                 *)
GarbageCollectionTimer ==
    /\ gc.next = 0
    /\ gc.now < clock
    /\ gc' = [next |-> 1, now |-> clock]
    /\ UNCHANGED <<clock, lists, disp, record, object, count>>

(* Mutant: the age of the oldest record counts.                            *)
ExpiredByOldest(o) == gc.now - o.ring[o.first].time > ExpireTime

Expired(o) == gc.now - o.ring[o.last].time > ExpireTime

OBU_object_garbage_collection ==
    /\ gc.next # 0
    /\ lists' = [lists EXCEPT ![Types[gc.next]] =
                    SelectSeq(@, LAMBDA o : ~Expired(o))]
    /\ gc' = [gc EXCEPT !.next = (gc.next + 1) % (Len(Types) + 1)]
    /\ UNCHANGED <<clock, disp, record, object, count>>

-----------------------------------------------------------------------------
(* command_buf_insert marks the vehicle whose command it accepted.         *)
special_OBU_list_update_status(t, n) ==
    LET i == OBU_object_search(lists[t], n)
    IN  /\ t # "normal"
        /\ i # 0
        /\ lists' = [lists EXCEPT ![t][i].status = "granted"]
        /\ UNCHANGED <<clock, disp, record, object, gc, count>>

CommandAccepted ==
    \E v \in Vehicles :
        special_OBU_list_update_status(BSMRecord(v, 0).type, BSMRecord(v, 0).name)

Tick ==
    /\ clock < MaxClock
    /\ disp = "idle" \/ clock - record.at < HandlerTime
    /\ clock' = clock + 1
    /\ UNCHANGED <<lists, disp, record, object, gc, count>>

Init ==
    /\ clock = 0
    /\ lists = [t \in TypeNames |-> << >>]
    /\ disp = "idle"
    /\ record = NoRecord
    /\ object = 0
    /\ gc = [next |-> 0, now |-> 0]
    /\ count = 0

Dispatcher == Insert \/ HandlerReturns
Collector  == GarbageCollectionTimer \/ OBU_object_garbage_collection

Next == \/ BasicSafetyMessage \/ SignalRequestMessage
        \/ Dispatcher \/ Collector \/ CommandAccepted \/ Tick

Spec == Init /\ [][Next]_vars

-----------------------------------------------------------------------------
Objects(t) == {lists[t][i] : i \in 1..Len(lists[t])}

(* The type invariant: pointers stay within the ring, and the length in    *)
(* its eight bits.                                                         *)
TypeOK ==
    /\ clock \in 0..MaxClock
    /\ count \in 0..MaxMessages
    /\ disp \in {"idle", "insert", "use"}
    /\ object \in 0..MaxMessages
    /\ gc.next \in 0..Len(Types)
    /\ \A t \in TypeNames : \A o \in Objects(t) :
          /\ {o.first, o.last} \subseteq 0..Capacity - 1
          /\ o.length \in 0..255
          /\ DOMAIN o.ring = 0..Capacity - 1
          /\ o.status \in {"processing", "granted"}

(* A special list names each vehicle once and has the vehicle heard last   *)
(* at its head, whatever the collector removed in between.                 *)
LatestFirst ==
    \A t \in TypeNames : \A i, j \in 1..Len(lists[t]) :
        i < j => /\ lists[t][i].seen > lists[t][j].seen
                 /\ lists[t][i].name # lists[t][j].name

(* record[last_record_pointer], which the collector and the applications   *)
(* read, is the record of the message inserted last, although the pointer  *)
(* skips every second place of the ring.                                   *)
NewestRecordAtLast ==
    \A t \in TypeNames : \A o \in Objects(t) : o.ring[o.last].msg = o.seen

(* The object the dispatcher copies and reads after it has released the    *)
(* list has not been freed by the collector.                               *)
NoUseAfterFree ==
    disp = "use" => \E t \in TypeNames : \E o \in Objects(t) : o.id = object

(* A vehicle that was heard within the expiry time keeps its object, and   *)
(* with it the grant of its request.                                       *)
HeardVehiclesKept ==
    [][\A t \in TypeNames : \A o \in Objects(t) :
          \/ clock - o.heard > ExpireTime
          \/ \E p \in Objects(t)' :
                p.id = o.id /\ (o.status = "granted" => p.status = "granted")]_vars

(* What the vehicle lists promise, in one: their types, their order, the   *)
(* place of the newest record, and that no freed object is used.           *)
ListsInOrder == TypeOK /\ LatestFirst /\ NewestRecordAtLast /\ NoUseAfterFree

(* Once no more messages arrive, every object is collected.                *)
SilentVehiclesCollected == <>[](\A t \in TypeNames : lists[t] = << >>)

=============================================================================
