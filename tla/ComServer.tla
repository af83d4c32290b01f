------------------------------ MODULE ComServer ------------------------------
(***************************************************************************)
(* The connections of the communication layer (src/src/server.c): the      *)
(* event loop accepts clients, gives each a com id and an entry in a       *)
(* dictionary, and puts what it reads into the message queue; the          *)
(* dispatcher (src/src/dispatcher.c) keeps the com id of the last message  *)
(* of each device, and com_send (src/src/com_io.c) looks that id up again. *)
(* A timer of the event loop reports the cloud as disconnected.            *)
(*                                                                         *)
(* The queue is the FIFO queue that MsgQueue implements.  A timer may fire *)
(* at any time after its creation.                                         *)
(***************************************************************************)
EXTENDS Naturals, Sequences, FiniteSets

CONSTANTS
    Capacity,        \* places of the message queue
    HandleIds,       \* ids that a message's 8-bit handle_id tells apart: 256
    KeyIds, Radix,   \* ids whose digits fit into the key, 1000, and their base
    FirstId,         \* connections that were served and closed before
    MaxConnections   \* bound: connections that are accepted

ASSUME ComServerAssumption ==
    /\ Capacity \in Nat \ {0} /\ FirstId \in Nat /\ MaxConnections \in Nat
    /\ HandleIds \in Nat \ {0} /\ KeyIds \in Nat /\ Radix \in Nat \ {0}
    /\ FirstId + MaxConnections < Radix * KeyIds

Kinds == {"cloud", "heartbeat", "oslink", "obu", "avi", "ped"}

VARIABLES
    dispatch_com_id,
    clients,           \* the clients that are open: their id and kind
    dict,              \* client_dict: pairs of a key and a client's id
    serving,           \* "poll", or "oslink" inside the heartbeat's accept
    queue, hand,       \* the message queue and the message being handled
    com_id,            \* cloud_com_id, OBU_com_id, ... of dispatcher.c
    heard,             \* the client each of them was taken from
    timers,            \* ids of the pending on_cloud_disconnected events
    next_time_id,      \* time_event_next_id
    cloud_expired_id,
    noticed            \* the dispatcher had a notice since the last close

server == <<dispatch_com_id, clients, dict>>
timing == <<timers, next_time_id, cloud_expired_id>>
serverVars == <<server, serving, queue, hand, com_id, heard, timing, noticed>>

NoMsg == [device |-> "none"]
MQ == INSTANCE MsgFIFO WITH Messages <- {}

IdNames == {"cloud", "OBU", "Heartbeat", "AVI", "Pedestrian"}

(* After init_server: the time event 0 reports that no cloud ever came, 1  *)
(* prints the time.  Later every closed connection has made one more.      *)
ServerInit ==
    /\ dispatch_com_id = FirstId
    /\ clients = {} /\ dict = {}
    /\ serving = "poll"
    /\ queue = << >> /\ hand = NoMsg
    /\ com_id = [n \in IdNames |-> 0]
    /\ heard = [n \in IdNames |-> 0]
    /\ timers = IF FirstId = 0 THEN {0} ELSE {}
    /\ next_time_id = FirstId + 2
    /\ cloud_expired_id = IF FirstId = 0 THEN 0 ELSE FirstId + 1
    /\ noticed = (FirstId > 0)

-----------------------------------------------------------------------------
(* The dictionary's key is the id printed into char str[4]: the first      *)
(* three digits.                                                           *)
Key(id) == IF id < KeyIds THEN id ELSE id \div Radix

(* dict_add refuses a key that is there; nobody looks at the result.       *)
comm_dict_add(c) ==
    IF \E e \in dict : e[1] = Key(c.id) THEN dict
    ELSE dict \cup {<<Key(c.id), c.id>>}

comm_dict_delete(id) == {e \in dict : e[1] # Key(id)}

(* The client com_send finds for an id, 0 for none.                        *)
comm_dict_find(id) ==
    IF \E e \in dict : e[1] = Key(id)
    THEN (CHOOSE e \in dict : e[1] = Key(id))[2]
    ELSE 0

Open(kind) ==
    LET c == [id |-> dispatch_com_id + 1, kind |-> kind]
    IN  /\ dispatch_com_id < FirstId + MaxConnections
        /\ dispatch_com_id' = dispatch_com_id + 1
        /\ clients' = clients \cup {c}
        /\ dict' = comm_dict_add(c)

(* msg_obj_create: the com id becomes the 8-bit handle_id.                 *)
Message(device, id, heartbeat) ==
    [device |-> device, handle |-> id % HandleIds, heartbeat |-> heartbeat,
     from |-> id]

comm_packet_enqueue(device, id, heartbeat) ==
    MQ!Send(Message(device, id, heartbeat))

-----------------------------------------------------------------------------
(* The cloud connects, also while an earlier connection is still open: the *)
(* pending report is deleted by cloud_expired_id, which only the report's  *)
(* own callback ever sets.                                                 *)
conn_accept_TCP_handler ==
    /\ serving = "poll"
    /\ timers' = timers \ {cloud_expired_id}
    /\ Open("cloud")
    /\ UNCHANGED <<serving, queue, hand, com_id, heard, next_time_id,
                   cloud_expired_id, noticed>>

(* A datagram from a new address: a client of its own.  What is enqueued   *)
(* is the client's read buffer, which nothing was received into yet.  A    *)
(* heartbeat's handler goes on to make the client of the link itself.      *)
conn_accept_UDP_handler(kind) ==
    /\ serving = "poll"
    /\ kind \in {"heartbeat", "obu"}
    /\ kind = "heartbeat" => dispatch_com_id + 1 < FirstId + MaxConnections
    /\ Open(kind)
    /\ \E b \in BOOLEAN : comm_packet_enqueue("dsrc", dispatch_com_id', b)
    /\ serving' = IF kind = "heartbeat" THEN "oslink" ELSE "poll"
    /\ UNCHANGED <<com_id, heard, timing, noticed>>

comm_create_OBU_client ==
    /\ serving = "oslink"
    /\ Open("oslink")
    /\ \E b \in BOOLEAN : comm_packet_enqueue("dsrc", dispatch_com_id', b)
    /\ serving' = "poll"
    /\ UNCHANGED <<com_id, heard, timing, noticed>>

conn_accept_device_handler(kind) ==
    /\ serving = "poll"
    /\ kind \in {"avi", "ped"}
    /\ Open(kind)
    /\ UNCHANGED <<serving, queue, hand, com_id, heard, timing, noticed>>

Device(c) ==
    IF c.kind \in {"heartbeat", "oslink", "obu"} THEN "dsrc" ELSE c.kind

(* conn_read_from_client_TCP and the three UDP readers, data received.     *)
conn_read(c) ==
    /\ serving = "poll"
    /\ comm_packet_enqueue(Device(c), c.id, c.kind = "heartbeat")
    /\ UNCHANGED <<server, serving, com_id, heard, timing, noticed>>

(* Mutant: no report is scheduled.                                         *)
CloseSilently(c) ==
    /\ serving = "poll"
    /\ c.kind = "cloud"
    /\ clients' = clients \ {c}
    /\ dict' = comm_dict_delete(c.id)
    /\ noticed' = FALSE
    /\ UNCHANGED <<dispatch_com_id, serving, queue, hand, com_id, heard,
                   timing>>

(* Mutant: the entry in the dictionary is left behind.                     *)
CloseLeavesEntry(c) ==
    /\ serving = "poll"
    /\ c.kind = "cloud"
    /\ clients' = clients \ {c}
    /\ timers' = timers \cup {next_time_id}
    /\ next_time_id' = next_time_id + 1
    /\ noticed' = FALSE
    /\ UNCHANGED <<dispatch_com_id, dict, serving, queue, hand, com_id, heard,
                   cloud_expired_id>>

(* conn_read_from_client_TCP, connection closed.                           *)
conn_close(c) ==
    /\ serving = "poll"
    /\ c.kind = "cloud"
    /\ clients' = clients \ {c}
    /\ dict' = comm_dict_delete(c.id)
    /\ timers' = timers \cup {next_time_id}
    /\ next_time_id' = next_time_id + 1
    /\ noticed' = FALSE
    /\ UNCHANGED <<dispatch_com_id, serving, queue, hand, com_id, heard,
                   cloud_expired_id>>

(* The time event fires and is deleted; its message has no valid device.   *)
on_cloud_disconnected(t) ==
    /\ serving = "poll"
    /\ cloud_expired_id' = t
    /\ timers' = timers \ {t}
    /\ MQ!Send([device |-> "lost", handle |-> 0, heartbeat |-> FALSE,
                from |-> 0])
    /\ UNCHANGED <<server, serving, com_id, heard, next_time_id, noticed>>

EventLoop ==
    \/ conn_accept_TCP_handler
    \/ \E kind \in Kinds : conn_accept_UDP_handler(kind)
                           \/ conn_accept_device_handler(kind)
    \/ comm_create_OBU_client
    \/ \E c \in clients : conn_read(c) \/ conn_close(c)

TimeEvents == \E t \in timers : on_cloud_disconnected(t)

-----------------------------------------------------------------------------
(* The dispatcher.                                                         *)
msg_queue_dequeue ==
    /\ MQ!Receive
    /\ UNCHANGED <<server, serving, com_id, heard, timing, noticed>>

(* Which of the ids a message sets, "none" for none.                       *)
IdOf(msg) ==
    CASE msg.device = "cloud" -> "cloud"
      [] msg.device = "dsrc" /\ msg.heartbeat -> "Heartbeat"
      [] msg.device = "dsrc" /\ ~ msg.heartbeat -> "OBU"
      [] msg.device = "avi" -> "AVI"
      [] msg.device = "ped" -> "Pedestrian"
      [] OTHER -> "none"

dispatcher_handler ==
    /\ MQ!Finish
    /\ LET n == IdOf(hand) IN
         IF n = "none"
         THEN noticed' = TRUE /\ UNCHANGED <<com_id, heard>>
         ELSE /\ com_id' = [com_id EXCEPT ![n] = hand.handle]
              /\ heard' = [heard EXCEPT ![n] = hand.from]
              /\ UNCHANGED noticed
    /\ UNCHANGED <<server, serving, timing>>

Dispatcher == msg_queue_dequeue \/ dispatcher_handler

ServerNext == EventLoop \/ TimeEvents \/ Dispatcher

ServerSpec == ServerInit /\ [][ServerNext]_serverVars

-----------------------------------------------------------------------------
ServerTyped ==
    /\ dispatch_com_id \in FirstId..(FirstId + MaxConnections)
    /\ clients \subseteq [id : 1..(FirstId + MaxConnections), kind : Kinds]
    /\ Len(queue) <= Capacity
    /\ serving \in {"poll", "oslink"}
    /\ com_id \in [IdNames -> 0..(HandleIds - 1)]
    /\ timers \subseteq 0..(next_time_id - 1)
    /\ cloud_expired_id \in 0..(next_time_id - 1)
    /\ noticed \in BOOLEAN

OpenIds == {c.id : c \in clients}

(* Nobody has taken an id's key before or given it back since: all others  *)
(* with its first digits came later and are still there.                   *)
Unrivalled(id) ==
    \A other \in (FirstId + 1)..dispatch_com_id :
        Key(other) = Key(id) => other = id \/ (other > id /\ other \in OpenIds)

(* No two open clients share an id.  No entry of the dictionary is left of *)
(* a closed client, whose client_t is freed, and none has another's key.   *)
(* An open client is found under its own id unless another has its key.    *)
DictMatchesClients ==
    /\ Cardinality(clients) = Cardinality(OpenIds)
    /\ \A e \in dict : \E c \in clients : e = <<Key(c.id), c.id>>
    /\ \A e, f \in dict : e[1] = f[1] => e = f
    /\ \A id \in OpenIds : Unrivalled(id) => comm_dict_find(id) = id

(* cloud_packet_tx and OBU_packet_tx answer the open client, if there is   *)
(* one, whose number is that of the client the dispatcher last heard of    *)
(* that device, modulo the width of handle_id: the client itself while ids *)
(* fit, afterwards another's or nobody's.  It is found if its key is its   *)
(* own; whoever is found is open, and has that key.                        *)
RepliesReachSender ==
    \A n \in {"cloud", "OBU"} :
        LET number == heard[n] % HandleIds
            to == comm_dict_find(com_id[n])
        IN  /\ number \in OpenIds /\ Unrivalled(number) => to = number
            /\ to # 0 => to \in OpenIds /\ Key(to) = Key(number)

(* Clients are found, and replies reach whom they are meant for.           *)
ClientsFound == ServerTyped /\ DictMatchesClients /\ RepliesReachSender

(* A cloud that is gone is reported to the dispatcher unless it comes back.*)
CloudLossNoticed ==
    (~ \E c \in clients : c.kind = "cloud")
        ~> (noticed \/ \E c \in clients : c.kind = "cloud")
==============================================================================
