---------------------------- MODULE SerialReceive ----------------------------
(***************************************************************************)
(* The thread that cuts the signal controller's byte stream into packets:  *)
(* traffic_signal_packet_rx_handler and the functions it calls             *)
(* (src/src/traffic_signal_packet_rx.c).  Bytes have their real values and *)
(* lengths.                                                                *)
(*                                                                         *)
(* read() of n bytes from the serial port returns n bytes (VTIME is 0 and  *)
(* no read asks for more than VMIN), so a read waits until they are there. *)
(* Only this thread reads, so the reads of one acknowledgement are a step. *)
(*                                                                         *)
(* What the handlers of the reports do is in SignalStatus; here a report   *)
(* is only taken.  The loop's local escape_flag is a value of rx.at.       *)
(***************************************************************************)
EXTENDS SerialPacket, SequencesExt

CONSTANTS
    Messages,     \* what the controller sends: TYPE and INFO
    FirstSEQ,     \* the controller's first sequence number
    MaxSent,      \* bound on its packets
    MaxWire,      \* bound on the bytes under way before it sends another
    MaxFaults,    \* bound on the bytes the line damages
    Losses,       \* may the line lose a byte?
    Flips         \* the bits of a byte it may flip

SerialReceiveAssumption ==
    /\ \A m \in Messages : /\ m.TYPE \in {STX_VAL, ACK_VAL, NAK_VAL}
                           /\ m.INFO \in Seq(0..255)
                           /\ Len(m.INFO) <= MAX_PAYLOAD_LEN
    /\ FirstSEQ \in 0..255 /\ Losses \in BOOLEAN /\ Flips \subseteq {2^i : i \in 0..7}

VARIABLES
    wire,     \* external: bytes under way to the serial port
    sent,     \* external: packets the controller has sent
    faults,   \* bytes damaged so far
    rx,       \* where the thread is, with recv_info's info_len and info_index
    packet,   \* the one packet buffer
    ack_seq,
    replies,  \* acknowledgements written to the controller
    taken,    \* history: INFO of the reports given to their handlers
    overrun   \* history: INFO was written beyond the packet buffer

vars == <<wire, sent, faults, rx, packet, ack_seq, replies, taken, overrun>>

Init ==
    /\ wire = <<>> /\ sent = <<>> /\ faults = 0
    /\ rx = [at |-> "hunt", info_len |-> 0, info_index |-> 0]
    /\ packet = [TYPE |-> 0, SEQ |-> 0, ADDR |-> <<0, 0>>, LEN |-> <<0, 0>>,
                 DLE_2 |-> 0, ETX |-> 0, INFO |-> <<0, 0>>]
    /\ ack_seq = 0
    /\ replies = <<>> /\ taken = <<>>
    /\ overrun = FALSE

-----------------------------------------------------------------------------
(* External: the controller and the line.                                   *)

Framed(m, seq) ==
    LET stx == m.TYPE = STX_VAL
        len == Len(m.INFO) + (IF stx THEN HEADER_LEN ELSE 8)
        p == [TYPE |-> m.TYPE, SEQ |-> seq, ADDR |-> <<ADDR_VAL, ADDR_VAL>>,
              LEN |-> <<len \div 256, len % 256>>,
              DLE_2 |-> IF stx THEN DLE_VAL ELSE 0, ETX |-> IF stx THEN ETX_VAL ELSE 0]
    IN  <<DLE_VAL, p.TYPE, p.SEQ>> \o p.ADDR \o p.LEN \o m.INFO
        \o (IF stx THEN <<DLE_VAL, ETX_VAL>> ELSE <<>>) \o <<check_sum(p, m.INFO)>>

Flip(b, x) == IF (b \div x) % 2 = 1 THEN b - x ELSE b + x

Damaged(bytes) ==
    (IF Losses THEN {RemoveAt(bytes, k) : k \in DOMAIN bytes} ELSE {})
    \cup {ReplaceAt(bytes, k, Flip(bytes[k], x)) : k \in DOMAIN bytes, x \in Flips}

ControllerSends ==
    /\ Len(sent) < MaxSent /\ Len(wire) <= MaxWire
    /\ \E m \in Messages :
         LET seq == (FirstSEQ + Len(sent)) % 256
             bytes == Framed(m, seq)
         IN  /\ sent' = Append(sent, [TYPE |-> m.TYPE, SEQ |-> seq, INFO |-> m.INFO])
             /\ \/ wire' = wire \o bytes /\ UNCHANGED faults
                \/ /\ faults < MaxFaults
                   /\ \E d \in Damaged(bytes) : wire' = wire \o d
                   /\ faults' = faults + 1
    /\ UNCHANGED <<rx, packet, ack_seq, replies, taken, overrun>>

-----------------------------------------------------------------------------
(* The thread.  read(n) takes n bytes off the wire.                         *)

read(n) == Len(wire) >= n /\ wire' = SubSeq(wire, n + 1, Len(wire))

\* What the byte after a DLE announces; anything else ends the escape.
Announced(b) ==
    CASE b = STX_VAL -> "header"
      [] b = ACK_VAL -> "ack"
      [] b = NAK_VAL -> "nak"
      [] OTHER       -> "hunt"

Hunt ==
    /\ rx.at \in {"hunt", "escape"}
    /\ read(1)
    /\ LET b == wire[1]
       IN  /\ rx' = [rx EXCEPT !.at = IF @ = "escape" THEN Announced(b)
                                      ELSE IF b = DLE_VAL THEN "escape" ELSE "hunt"]
           /\ packet' = [packet EXCEPT !.TYPE =
                             IF rx.at = "escape" /\ Announced(b) # "hunt" THEN b ELSE @]
    /\ UNCHANGED <<sent, faults, ack_seq, replies, taken, overrun>>

\* traffic_signal_packet_clean, then five bytes.
read_header ==
    [packet EXCEPT !.DLE_2 = 0, !.ETX = 0, !.SEQ = wire[1],
                   !.ADDR = <<wire[2], wire[3]>>, !.LEN = <<wire[4], wire[5]>>]

\* recv_info: the length is taken from the header as it is, in 16 bits.
recv_info_header ==
    /\ rx.at = "header"
    /\ read(5)
    /\ packet' = read_header
    /\ LET packet_len == 256 * wire[4] + wire[5]
           info_len == (packet_len - HEADER_LEN) % 65536
       IN  rx' = [at |-> IF info_len = 0 THEN "trailer" ELSE "info",
                  info_len |-> info_len, info_index |-> 0]
    /\ UNCHANGED <<sent, faults, ack_seq, replies, taken, overrun>>

Least(a, b) == IF a < b THEN a ELSE b

\* Bytes written into INFO leave those behind them as they were.
Stored(info, index, bytes) ==
    LET end == index + Len(bytes)
        len == IF Len(info) > end THEN Len(info) ELSE Least(end, MAX_PAYLOAD_LEN)
    IN  [i \in 1..len |-> IF i \in (index + 1)..end THEN bytes[i - index] ELSE info[i]]

\* One read of the loop over the info field.  Bytes beyond the buffer fall on
\* whatever the heap holds there: the program may go on or end.
recv_info_chunk ==
    /\ rx.at = "info"
    /\ LET n == Least(rx.info_len - rx.info_index, VMIN_LEN)
           next == rx.info_index + n
       IN  /\ read(n)
           /\ packet' = [packet EXCEPT !.INFO =
                             Stored(@, rx.info_index, SubSeq(wire, 1, n))]
           /\ overrun' = (overrun \/ next > MAX_PAYLOAD_LEN)
           /\ \/ rx' = [rx EXCEPT !.info_index = next,
                                  !.at = IF next = rx.info_len THEN "trailer" ELSE "info"]
              \/ overrun' /\ rx' = [rx EXCEPT !.at = "dead"]
    /\ UNCHANGED <<sent, faults, ack_seq, replies, taken>>

\* Faulty variant: the two bytes of the trailer are swapped.
TrailerSwapped(p) == ~ (p.DLE_2 = ETX_VAL /\ p.ETX = DLE_VAL)

error_length(p) == ~ (p.DLE_2 = DLE_VAL /\ p.ETX = ETX_VAL)

Reply(type, p) == Append(replies, [TYPE |-> type, SEQ |-> p.SEQ])

\* send_nak writes ERR over the first byte of INFO and uses the buffer's
\* other fields for the packet it sends; both replies end the packet.
send_nak(p, ERR) ==
    /\ replies' = Reply(NAK_VAL, p)
    /\ packet' = [p EXCEPT !.TYPE = NAK_VAL, !.ADDR = <<ADDR_VAL, ADDR_VAL>>,
                           !.LEN = <<0, 9>>, !.DLE_2 = 0, !.ETX = 0, !.INFO[1] = ERR]

send_ack(p) ==
    /\ replies' = Reply(ACK_VAL, p)
    /\ packet' = [p EXCEPT !.TYPE = ACK_VAL, !.LEN = <<0, 8>>, !.DLE_2 = 0, !.ETX = 0]

\* The trailer; a packet that does not end there is refused, and its checksum
\* stays on the wire.
recv_info_trailer ==
    /\ rx.at = "trailer"
    /\ read(2)
    /\ LET p == [packet EXCEPT !.DLE_2 = wire[1], !.ETX = wire[2]]
       IN  IF error_length(p)
           THEN /\ send_nak(p, ERR_LENGTH)
                /\ rx' = [rx EXCEPT !.at = "hunt"]
           ELSE /\ packet' = p
                /\ rx' = [rx EXCEPT !.at = "cks"]
                /\ UNCHANGED replies
    /\ UNCHANGED <<sent, faults, ack_seq, taken, overrun>>

\* The reports some handler waits for.
Handled == {<<95, 204>>, <<95, 200>>, <<95, 197>>, <<95, 196>>, <<95, 198>>,
            <<95, 12>>, <<95, 195>>, <<15, 194>>, <<15, 4>>, <<15, 195>>}

IsHandled(info) == <<info[1], info[2]>> \in Handled

Accepted(p, info, cks) == check_sum(p, info) = cks

\* A packet is acknowledged, then given to the handler of its first two bytes.
recv_info_cks ==
    /\ rx.at = "cks"
    /\ read(1)
    /\ LET info == SubSeq(packet.INFO, 1, rx.info_len)
       IN  IF Accepted(packet, info, wire[1])
           THEN /\ send_ack(packet)
                /\ taken' = IF IsHandled(packet.INFO) THEN Append(taken, info) ELSE taken
           ELSE /\ send_nak(packet, ERR_CKS)
                /\ UNCHANGED taken
    /\ rx' = [rx EXCEPT !.at = "hunt"]
    /\ UNCHANGED <<sent, faults, ack_seq, overrun>>

\* A damaged acknowledgement leaves -1, which no sequence number equals.
recv_ack ==
    /\ rx.at = "ack"
    /\ read(6)
    /\ packet' = read_header
    /\ ack_seq' = IF check_sum(packet', <<>>) = wire[6] THEN packet'.SEQ ELSE -1
    /\ rx' = [rx EXCEPT !.at = "hunt"]
    /\ UNCHANGED <<sent, faults, replies, taken, overrun>>

\* A refusal is read and forgotten, whatever its checksum.
recv_nak ==
    /\ rx.at = "nak"
    /\ read(7)
    /\ packet' = [read_header EXCEPT !.INFO[1] = wire[6]]
    /\ rx' = [rx EXCEPT !.at = "hunt"]
    /\ UNCHANGED <<sent, faults, ack_seq, replies, taken, overrun>>

Thread ==
    \/ Hunt
    \/ recv_info_header \/ recv_info_chunk \/ recv_info_trailer \/ recv_info_cks
    \/ recv_ack \/ recv_nak

Next == ControllerSends \/ Thread

Spec == Init /\ [][Next]_vars

-----------------------------------------------------------------------------
TypeOK ==
    /\ wire \in Seq(0..255)
    /\ rx.at \in {"hunt", "escape", "header", "info", "trailer", "cks", "ack", "nak", "dead"}
    /\ rx.info_len \in 0..65535 /\ rx.info_index \in 0..rx.info_len
    /\ packet.TYPE \in 0..255 /\ packet.INFO \in Seq(0..255)
    /\ Len(packet.INFO) <= MAX_PAYLOAD_LEN
    /\ ack_seq \in -1..255
    /\ \A i \in DOMAIN replies : replies[i] \in [TYPE : {ACK_VAL, NAK_VAL}, SEQ : 0..255]
    /\ overrun \in BOOLEAN

\* The reports the controller has sent and some handler waits for.
ReportsSent ==
    LET r == SelectSeq(sent, LAMBDA p : p.TYPE = STX_VAL /\ <<p.INFO[1], p.INFO[2]>> \in Handled)
    IN  [i \in DOMAIN r |-> r[i].INFO]

\* On a good line the handlers are given the controller's reports, each as it
\* was sent, in the order they were sent, none twice.
ReportsInOrder == IsPrefix(taken, ReportsSent)

\* On a good line, whenever the thread has caught up, ack_seq is the number of
\* the controller's last acknowledgement: WAIT_ACK_LOOP can see it.
AckKnown ==
    (wire = <<>> /\ rx.at = "hunt") =>
        LET acks == SelectSeq(sent, LAMBDA p : p.TYPE = ACK_VAL)
        IN  ack_seq = IF acks = <<>> THEN 0 ELSE acks[Len(acks)].SEQ

\* Whatever the line does to one byte, no handler is given a report that the
\* controller did not send.
NothingInvented == \A i \in DOMAIN taken : \E j \in DOMAIN ReportsSent :
                       taken[i] = ReportsSent[j]

\* While the line only flips bits, ack_seq names a packet that was acknowledged, or is still the 0
\* of the program's start, or -1.
AcksReal ==
    ack_seq \in {-1, 0} \cup {sent[i].SEQ : i \in {j \in DOMAIN sent : sent[j].TYPE = ACK_VAL}}

\* While the line only flips bits, a positive reply is only given
\* to a packet that was sent with its number.
RepliesReal ==
    \A i \in DOMAIN replies : replies[i].TYPE = ACK_VAL =>
        \E j \in DOMAIN sent : sent[j].TYPE = STX_VAL /\ sent[j].SEQ = replies[i].SEQ

\* What the thread takes for true is what the controller said: on a good line
\* everything, in order; after a flipped bit nothing more than that; after a lost
\* byte at least no report that was not sent.
ReceivedAsSent ==
    /\ TypeOK
    /\ MaxFaults = 0 => ReportsInOrder /\ AckKnown
    /\ ~Losses => AcksReal /\ RepliesReal
    /\ NothingInvented

\* On a good line every report reaches its handler: when the controller has
\* said all it will say, the handlers have it all.
EveryReportTaken == <>[](taken = ReportsSent)
=============================================================================
