---------------------------- MODULE SerialPacket ----------------------------
(***************************************************************************)
(* Packets between the program and the signal controller: the constants of *)
(* src/include/traffic_signal_packet_rx.h and check_sum of                 *)
(* src/src/traffic_signal_packet_rx.c, with their real values.             *)
(***************************************************************************)
EXTENDS Integers, Sequences, FiniteSets, FiniteSetsExt

DLE_VAL == 170
STX_VAL == 187
ETX_VAL == 204
ACK_VAL == 221
NAK_VAL == 238
ADDR_VAL == 255
HEADER_LEN == 10
MAX_PACKET_LEN == 128
MAX_PAYLOAD_LEN == MAX_PACKET_LEN - HEADER_LEN
VMIN_LEN == 20
ERR_CKS == 1
ERR_LENGTH == 8

\* The exclusive or of some bytes: every bit is the parity of that bit in them.
Xor(bytes) ==
    MapThenSumSet(LAMBDA x : x * (Cardinality({i \in DOMAIN bytes :
                                         (bytes[i] \div x) % 2 = 1}) % 2),
                  {2^i : i \in 0..7})

\* Faulty variant: the info field is left out.
XorOfHeader(p, info) ==
    Xor(<<DLE_VAL, p.TYPE, p.SEQ>> \o p.ADDR \o p.LEN \o <<p.DLE_2, p.ETX>>)

\* The nine bytes of the header, as the buffer holds them, and those of info.
check_sum(p, info) ==
    Xor(<<DLE_VAL, p.TYPE, p.SEQ>> \o p.ADDR \o p.LEN \o <<p.DLE_2, p.ETX>> \o info)

=============================================================================
