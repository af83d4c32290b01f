----------------------------- MODULE ClientWrite -----------------------------
(***************************************************************************)
(* How a packet leaves for one client of the communication layer.          *)
(* com_send (src/src/com_io.c), called by the dispatcher, timers and       *)
(* applications, pushes a copy into the client's ring (src/src/buffer.c)   *)
(* and registers the write event; the event loop (src/src/ae_event.c) runs *)
(* the client's write handler (src/src/server.c), which takes one packet   *)
(* out of the ring and takes the event back.  Only the ring has a mutex:   *)
(* ce->mask and the epoll set are changed by every thread.                 *)
(*                                                                         *)
(* The client stays connected and its read event stays registered.         *)
(***************************************************************************)
EXTENDS Naturals, Sequences, FiniteSets

CONSTANTS
    Senders,        \* threads that call com_send
    Packets,        \* bound: packets each of them sends
    ClientRingMax   \* CLIENT_RING_MAX

ASSUME ClientWriteAssumption ==
    /\ IsFiniteSet(Senders)
    /\ Packets \in Nat /\ ClientRingMax \in Nat
    /\ ClientRingMax % 256 > 1

(* buffer_ring_t.max is a u_int8_t.                                        *)
Max == ClientRingMax % 256

VARIABLES
    handle_type,          \* client->handle->type, set when it connects
    record, first, last,  \* the ring
    mutex,                \* who holds the ring's mutex, or "none"
    mask,                 \* ce->mask has AE_WRITABLE
    epoll,                \* the epoll set has EPOLLOUT for the client
    sender,               \* where each sender is in com_send
    made,                 \* packets each sender has made
    loop,                 \* where the event loop is
    out                   \* what was handed to the socket, in order

ring == <<record, first, last>>
vars == <<handle_type, record, first, last, mutex, mask, epoll, sender, made,
          loop, out>>

NoPacket == <<"none", 0>>

Init ==
    /\ handle_type \in {"TCP", "UDP"}
    /\ record = [i \in 0..Max-1 |-> NoPacket]
    /\ first = 0 /\ last = 0
    /\ mutex = "none"
    /\ mask = FALSE /\ epoll = FALSE
    /\ sender = [s \in Senders |-> "idle"]
    /\ made = [s \in Senders |-> 0]
    /\ loop = "poll"
    /\ out = << >>

buff_ring_empty == first = last

(* Mutant: the next slot is not taken modulo the size.                     *)
RingOverfull == last + 1 = first
buff_ring_full == (last + 1) % Max = first

-----------------------------------------------------------------------------
(* com_send                                                                *)
com_send(s) ==
    /\ sender[s] = "idle"
    /\ made[s] < Packets
    /\ made' = [made EXCEPT ![s] = @ + 1]
    /\ sender' = [sender EXCEPT ![s] = "push"]
    /\ UNCHANGED <<handle_type, ring, mutex, mask, epoll, loop, out>>

(* ae_prepare_for_sending repeats buff_ring_push until the ring takes it.  *)
buff_ring_push(s) ==
    /\ sender[s] = "push"
    /\ mutex = "none"
    /\ ~ buff_ring_full
    /\ record' = [record EXCEPT ![last] = <<s, made[s]>>]
    /\ last' = (last + 1) % Max
    /\ sender' = [sender EXCEPT ![s] = "epoll"]
    /\ UNCHANGED <<handle_type, first, mutex, mask, epoll, made, loop, out>>

(* ae_create_comm_event: the epoll set first, then ce->mask.               *)
ae_epoll_add_event(s) ==
    /\ sender[s] = "epoll"
    /\ epoll' = TRUE
    /\ sender' = [sender EXCEPT ![s] = "mask"]
    /\ UNCHANGED <<handle_type, ring, mutex, mask, made, loop, out>>

SetMask(s) ==
    /\ sender[s] = "mask"
    /\ mask' = TRUE
    /\ sender' = [sender EXCEPT ![s] = "idle"]
    /\ UNCHANGED <<handle_type, ring, mutex, epoll, made, loop, out>>

Send(s) ==
    buff_ring_push(s) \/ ae_epoll_add_event(s) \/ SetMask(s)

-----------------------------------------------------------------------------
(* The event loop: an event that epoll_wait reports is only served when    *)
(* ce->mask has it too.                                                    *)
ae_process_events ==
    /\ loop = "poll"
    /\ epoll
    /\ loop' = IF mask THEN "write" ELSE "poll"
    /\ UNCHANGED <<handle_type, ring, mutex, mask, epoll, sender, made, out>>

(* client->handle->send_fn: udp_send, tcp_send: one packet is popped.      *)
send_fn ==
    /\ loop = "write"
    /\ mutex = "none"
    /\ IF buff_ring_empty
       THEN UNCHANGED <<first, out>>
       ELSE /\ out' = Append(out, record[first])
            /\ first' = (first + 1) % Max
    /\ loop' = "check"
    /\ UNCHANGED <<handle_type, record, last, mutex, mask, epoll, sender,
                   made>>

After == IF handle_type = "TCP" THEN "drop" ELSE "poll"

(* The write handlers lock the ring and delete the event if it is empty.   *)
CheckEmpty ==
    /\ loop = "check"
    /\ mutex = "none"
    /\ IF buff_ring_empty
       THEN mutex' = "loop" /\ loop' = "epoll"
       ELSE loop' = After /\ UNCHANGED mutex
    /\ UNCHANGED <<handle_type, ring, mask, epoll, sender, made, out>>

(* ae_delete_comm_event: the epoll set first, then ce->mask.               *)
ae_epoll_del_event ==
    /\ loop \in {"epoll", "drop"}
    /\ epoll' = FALSE
    /\ loop' = IF loop = "epoll" THEN "mask" ELSE "dropmask"
    /\ UNCHANGED <<handle_type, ring, mutex, mask, sender, made, out>>

(* After the mutex is released conn_write_to_client_TCP deletes the event  *)
(* again, whatever the ring holds.                                         *)
ClearMask ==
    /\ loop \in {"mask", "dropmask"}
    /\ mask' = FALSE
    /\ mutex' = "none"
    /\ loop' = IF loop = "mask" THEN After ELSE "poll"
    /\ UNCHANGED <<handle_type, ring, epoll, sender, made, out>>

Loop ==
    \/ ae_process_events \/ send_fn \/ CheckEmpty
    \/ ae_epoll_del_event \/ ClearMask

-----------------------------------------------------------------------------
Next ==
    \/ \E s \in Senders : com_send(s) \/ Send(s)
    \/ Loop

Spec == Init /\ [][Next]_vars

-----------------------------------------------------------------------------
TypeOK ==
    /\ handle_type \in {"TCP", "UDP"}
    /\ record \in [0..Max-1 -> {NoPacket} \cup (Senders \X (1..Packets))]
    /\ first \in 0..Max-1 /\ last \in 0..Max-1
    /\ mutex \in {"none", "loop"}
    /\ mask \in BOOLEAN /\ epoll \in BOOLEAN
    /\ sender \in [Senders -> {"idle", "push", "epoll", "mask"}]
    /\ made \in [Senders -> 0..Packets]
    /\ loop \in {"poll", "write", "check", "epoll", "mask", "drop",
                 "dropmask"}
    /\ Len(out) <= Packets * Cardinality(Senders)

(* The packets the ring holds.                                             *)
Waiting == {record[(first + i) % Max] : i \in 0..((last + Max - first) % Max) - 1}

(* What was handed to the socket and what waits in the ring is what the    *)
(* senders pushed, each packet once, and each sender's packets in order:   *)
(* the ring neither loses, repeats nor overwrites a packet.                *)
RingKeepsPackets ==
    LET pushed(s) == IF sender[s] = "push" THEN made[s] - 1 ELSE made[s]
    IN  /\ \A s \in Senders :
             {p \in Waiting \cup {out[i] : i \in 1..Len(out)} : p[1] = s}
               = {s} \X (1..pushed(s))
        /\ \A i, j \in 1..Len(out) :
             i < j /\ out[i][1] = out[j][1] => out[i][2] < out[j][2]

(* When nobody is inside com_send and the loop is back in epoll_wait, a    *)
(* packet that waits has its write event registered, in the epoll set and  *)
(* in ce->mask: no registration is lost to a concurrent deletion.          *)
NothingForgotten ==
    ( /\ \A s \in Senders : sender[s] = "idle"
      /\ loop = "poll"
      /\ ~ buff_ring_empty ) => epoll /\ mask

(* The ring loses nothing, and a client that is served by the UDP handlers *)
(* loses no registration either.  (conn_write_to_client_TCP does: it takes *)
(* the event back with packets in the ring.)                               *)
PacketsKept ==
    TypeOK /\ RingKeepsPackets /\ (handle_type = "UDP" => NothingForgotten)

(* Every packet a sender makes is handed to the socket, so com_send, which *)
(* spins while the ring is full, returns.  (The packets of a sender leave  *)
(* in order: the last of them says that all have left.)                    *)
EveryPacketSent ==
    <>[](\A s \in Senders : made[s] > 0 =>
            \E i \in 1..Len(out) : out[i] = <<s, made[s]>>)
=============================================================================
