----------------------------- MODULE TcpReceive ------------------------------
(***************************************************************************)
(* How the packets of one TCP peer, the cloud, are cut out of its byte     *)
(* stream: tcp_recv of src/src/ae_handle.c, called by the event loop       *)
(* whenever the socket is readable (src/src/server.c).  A packet begins    *)
(* with its own length in HeaderLen bytes.  Bytes are only positions of    *)
(* the stream: packet i occupies Start(i)+1 .. Start(i)+packets[i].        *)
(***************************************************************************)
EXTENDS Integers, Sequences, FiniteSets, Functions

CONSTANTS
    HeaderLen,   \* sizeof(uint32_t)
    Byte,        \* values of a byte: 256
    BufferLen,   \* HANDLE_MSG_LEN
    Lengths,     \* the lengths of the packets the peer sends
    MaxPackets,  \* bound: how many it sends
    Paced        \* does the peer wait for each packet to be taken, and do
                 \* headers arrive in one piece?

TcpReceiveAssumption ==
    /\ HeaderLen \in Nat \ {0} /\ Byte \in Nat \ {0, 1} /\ MaxPackets \in Nat
    /\ BufferLen \in 0..(Byte ^ HeaderLen - 1)
    /\ \A l \in Lengths : HeaderLen <= l /\ l <= BufferLen
    /\ Paced \in BOOLEAN

VARIABLES
    packets,    \* lengths of the packets the peer has sent
    arrived,    \* bytes of the stream that reached the socket
    read,       \* bytes recv has returned
    hung_up,    \* the peer has closed
    is_pending, expected_msg_len, cur_msg_len,
    base,       \* where in the stream the read buffer begins
    queued,     \* what was enqueued: beginnings and lengths
    open,       \* the client exists
    overrun     \* recv was given room beyond the read buffer, and used it

handle == <<is_pending, expected_msg_len, cur_msg_len, base>>
peer == <<packets, arrived, hung_up>>
vars == <<peer, read, handle, queued, open, overrun>>

Start(i) == SumFunctionOnSet(packets, 1..(i - 1))
Sent == Start(Len(packets) + 1)

Init ==
    /\ packets = << >> /\ arrived = 0 /\ hung_up = FALSE
    /\ read = 0
    /\ is_pending = FALSE /\ expected_msg_len = 0 /\ cur_msg_len = 0
    /\ base = 0
    /\ queued = << >>
    /\ open = TRUE
    /\ overrun = FALSE

-----------------------------------------------------------------------------
(* The peer and the network.                                               *)
PeerSends(l) ==
    /\ ~ hung_up
    /\ Len(packets) < MaxPackets
    /\ Paced => Len(queued) = Len(packets)
    /\ packets' = Append(packets, l)
    /\ UNCHANGED <<arrived, hung_up, read, handle, queued, open, overrun>>

(* Any number of bytes that were sent reaches the socket.                  *)
BytesArrive(n) ==
    /\ n \in (arrived + 1)..Sent
    /\ Paced => \A i \in 1..Len(packets) :
                    n \notin (Start(i) + 1)..(Start(i) + HeaderLen - 1)
    /\ arrived' = n
    /\ UNCHANGED <<packets, hung_up, read, handle, queued, open, overrun>>

PeerCloses ==
    /\ ~ hung_up
    /\ arrived = Sent
    /\ hung_up' = TRUE
    /\ UNCHANGED <<packets, arrived, read, handle, queued, open, overrun>>

-----------------------------------------------------------------------------
(* The socket is readable: bytes wait, or the peer has closed.             *)
Readable == open /\ (arrived > read \/ hung_up)

Least(a, b) == IF a < b THEN a ELSE b

(* The length l, most significant byte first, of which only n bytes are in *)
(* the cleared buffer: the missing ones are 0.                             *)
Seen(l, n) == LET missing == Byte ^ (HeaderLen - n) IN (l \div missing) * missing

(* What the first bytes of the buffer say when n were read.  Away from the *)
(* beginning of a packet they may say anything.                            *)
ae_retrieve_packet_len(n) ==
    LET here == {i \in 1..Len(packets) : Start(i) = read}
    IN  IF n = 0 THEN {0}
        ELSE IF here = {} THEN 0..BufferLen
        ELSE {Seen(packets[i], Least(n, HeaderLen)) : i \in here}

(* Mutant: a longer read counts as the whole packet.                       *)
DoneWhenEnough(expected, cur) ==
    expected # 0 /\ cur <= BufferLen /\ expected <= cur
tcp_recv_is_done(expected, cur) ==
    expected # 0 /\ cur <= BufferLen /\ expected = cur

(* The end of tcp_recv, and conn_read_from_client_TCP: a finished packet   *)
(* is enqueued.                                                            *)
Finish(from) ==
    IF tcp_recv_is_done(expected_msg_len', cur_msg_len')
    THEN /\ is_pending' = FALSE
         /\ queued' = Append(queued, <<from, expected_msg_len'>>)
    ELSE /\ is_pending' = TRUE
         /\ UNCHANGED queued

(* A new packet: as much as the buffer holds is read.                      *)
RecvFirst ==
    LET n == Least(arrived - read, BufferLen)
    IN  /\ Readable /\ ~ is_pending
        /\ base' = read
        /\ cur_msg_len' = n
        /\ expected_msg_len' \in ae_retrieve_packet_len(n)
        /\ read' = read + n
        /\ Finish(read)
        /\ UNCHANGED <<peer, open, overrun>>

(* size_t remain: a difference below zero is a very large number.          *)
Remain ==
    IF cur_msg_len <= expected_msg_len THEN expected_msg_len - cur_msg_len
                                       ELSE arrived - read

(* The rest of a packet is read behind what is there.                      *)
RecvRest ==
    LET n == Least(arrived - read, Remain)
    IN  /\ Readable /\ is_pending
        /\ n > 0
        /\ cur_msg_len' = cur_msg_len + n
        /\ read' = read + n
        /\ overrun' = (overrun \/ cur_msg_len' > BufferLen)
        /\ UNCHANGED <<expected_msg_len, base>>
        /\ Finish(base)
        /\ UNCHANGED <<peer, open>>

(* recv returns 0: HANDLE_ERR, and the client is closed.                   *)
RecvFails ==
    /\ Readable /\ is_pending
    /\ Least(arrived - read, Remain) = 0
    /\ open' = FALSE
    /\ UNCHANGED <<peer, read, handle, queued, overrun>>

tcp_recv == RecvFirst \/ RecvRest \/ RecvFails

Next ==
    \/ \E l \in Lengths : PeerSends(l)
    \/ \E n \in 1..Sent : BytesArrive(n)
    \/ PeerCloses
    \/ tcp_recv

Spec == Init /\ [][Next]_vars

(* TCP delivers what was sent, and the event loop serves its sockets.      *)
Network == \E n \in 1..Sent : BytesArrive(n)
-----------------------------------------------------------------------------
TypeOK ==
    /\ packets \in Seq(Lengths) /\ Len(packets) <= MaxPackets
    /\ arrived \in 0..Sent /\ read \in 0..arrived
    /\ hung_up \in BOOLEAN /\ is_pending \in BOOLEAN /\ open \in BOOLEAN
    /\ overrun \in BOOLEAN
    /\ expected_msg_len \in 0..BufferLen
    /\ cur_msg_len \in Nat /\ base \in 0..read

(* Where the i-th enqueued piece begins if nothing is left out before it.  *)
Tiled(i) == SumFunctionOnSet([j \in 1..Len(queued) |-> queued[j][2]], 1..(i - 1))

(* Whatever the segmentation, and also when packets run into each other,   *)
(* the pieces enqueued are the beginning of the stream, no byte missing,   *)
(* twice or out of order.  As long as those before are packets, the next   *)
(* is the next packet: whole, or, if its header came in two segments, cut  *)
(* off at what the first of them said of its length, which is never so for *)
(* a length of a single byte.  From a peer that waits, and whose headers   *)
(* come in one piece, every packet is whole, and recv never gets more than *)
(* the client's read buffer holds.                                         *)
PacketsIntact ==
    /\ TypeOK
    /\ \A i \in 1..Len(queued) : queued[i][1] = Tiled(i)
    /\ \A i \in 1..Len(queued) :
         (\A j \in 1..(i - 1) : queued[j][2] = packets[j]) =>
             /\ i <= Len(packets)
             /\ \E n \in 1..HeaderLen :
                    /\ queued[i][2] = Seen(packets[i], n)
                    /\ Paced \/ packets[i] < Byte => n = HeaderLen
    /\ Paced => ~ overrun

(* Every packet of a peer that waits is enqueued, in however many segments *)
(* it arrives, while the peer stays; and a peer that closes is closed here *)
(* too, in the middle of a packet or not.                                  *)
EveryPacketTaken ==
    <>[](IF hung_up THEN ~ open ELSE Paced => Len(queued) = Len(packets))
=============================================================================
