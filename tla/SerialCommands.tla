---------------------------- MODULE SerialCommands ----------------------------
(***************************************************************************)
(* What the commands to the signal controller say, byte by byte: the       *)
(* tsc_ functions and TC_packet_tx of src/src/traffic_signal_packet_tx.c,  *)
(* one action each, with the real values; and the make of the controller,  *)
(* which decides how the pedestrian countdown is coded and is corrected by *)
(* the answer to the firmware query (timer_event_handler, recv_info).      *)
(* Threads and acknowledgements are in SerialSend.                         *)
(***************************************************************************)
EXTENDS SerialPacket

CONSTANTS
    SubPhases,     \* sub-phases a green is set for
    EffectTimes,   \* seconds it is set to
    PlanIDs,       \* cached plan numbers and phase orders
    WeekDays,
    Years          \* years of firmware, counted from 1911

SerialCommandsAssumption ==
    SubPhases \cup EffectTimes \cup PlanIDs \cup WeekDays \cup Years \subseteq 0..255

CHENG_LONG == 0
SHAN_ZHU == 1
SHAN_ZHU_M == 2

VARIABLES
    seq_num,
    out,                 \* the packet written last: its INFO as assigned, its bytes
    flag_query_firm_ver,
    manufacturer,        \* config.signal_controller_manufacturer
    maker,               \* external: the controller's make and year
    firm                 \* external: the answer to the firmware query under way

vars == <<seq_num, out, flag_query_firm_ver, manufacturer, maker, firm>>

\* Shan Zhu controllers of year 110 or later behave like the modified make.
IsModified(year) == year >= 110

Init ==
    /\ seq_num = 0
    /\ out = [info |-> <<>>, bytes |-> <<>>]
    /\ flag_query_firm_ver = TRUE
    /\ maker \in [make : {CHENG_LONG, SHAN_ZHU}, year : Years]
    /\ manufacturer \in {maker.make, IF maker.make = SHAN_ZHU /\ IsModified(maker.year)
                                     THEN SHAN_ZHU_M ELSE maker.make}
    /\ firm = "none"

-----------------------------------------------------------------------------
\* The cleared buffer, of which LEN says how much is sent.
Written(info, i) == IF i \in DOMAIN info THEN info[i] ELSE 0

\* The seven bytes of the header, the info field, DLE and ETX, the checksum.
TC_packet_tx(SEQ, packet_len, info) ==
    LET n == packet_len - HEADER_LEN
        field == [i \in 1..n |-> Written(info, i)]
        LEN == <<packet_len \div 256, packet_len % 256>>
        p == [TYPE |-> STX_VAL, SEQ |-> SEQ, ADDR |-> <<ADDR_VAL, ADDR_VAL>>,
              LEN |-> LEN, DLE_2 |-> DLE_VAL, ETX |-> ETX_VAL]
        header == <<DLE_VAL, STX_VAL, SEQ, ADDR_VAL, ADDR_VAL>> \o LEN
                  \o <<DLE_VAL, ETX_VAL>>
    IN  [i \in 1..packet_len |->
            CASE i <= 7              -> header[i]
              [] i \in 8..(7 + n)    -> field[i - 7]
              [] i \in (packet_len - 2)..(packet_len - 1) -> header[i - packet_len + 10]
              [] OTHER               -> check_sum(p, field)]

Send(packet_len, info) ==
    /\ out' = [info |-> info, bytes |-> TC_packet_tx(seq_num, packet_len, info)]
    /\ seq_num' = (seq_num + 1) % 256

Sent(packet_len, info) ==
    /\ Send(packet_len, info)
    /\ UNCHANGED <<flag_query_firm_ver, manufacturer, maker, firm>>

tsc_dynamic == Sent(14, <<95, 16, 21, 120>>)
tsc_pretime == Sent(14, <<95, 16, 32, 0>>)
tsc_switch_strategy == Sent(14, <<95, 16, 22, 0>>)
tsc_switch == Sent(15, <<95, 28, 0, 0, 0>>)

\* Faulty variant: the length is one less.
ExtendCutShort(subphase, step, effect_time) ==
    Sent(14, <<95, 28, subphase, step, IF effect_time = 170 THEN 171 ELSE effect_time>>)

tsc_extend(subphase, step, effect_time) ==
    Sent(15, <<95, 28, subphase, step, IF effect_time = 170 THEN 171 ELSE effect_time>>)

tsc_5F4C == Sent(12, <<95, 76>>)
tsc_5F48 == Sent(12, <<95, 72>>)
tsc_0F42 == Sent(12, <<15, 66>>)
tsc_5F44(plan) == Sent(13, <<95, 68, plan>>)
tsc_5F45(plan) == Sent(13, <<95, 69, plan>>)
tsc_5F43(order) == Sent(13, <<95, 67, order>>)
tsc_5F46(day) == Sent(14, <<95, 70, 255, day>>)

\* The two makes have the last byte the other way round.
Countdown(machine_type, on) ==
    Sent(17, <<95, 25, 0, 1, 255, 255,
               IF on = (machine_type \in {CHENG_LONG, SHAN_ZHU_M}) THEN 254 ELSE 255>>)
tsc_countdown_on == Countdown(manufacturer, TRUE)
tsc_countdown_off == Countdown(manufacturer, FALSE)

\* The flag is cleared when the wait for the acknowledgement ends, however it
\* ended: a query that is lost is not repeated.
tsc_query_firmware_version ==
    /\ flag_query_firm_ver
    /\ Send(12, <<15, 67>>)
    /\ flag_query_firm_ver' = FALSE
    /\ firm' \in {"answer", "none"}
    /\ UNCHANGED <<manufacturer, maker>>

\* recv_info of 0FC3.
packet_0FC3 ==
    /\ firm = "answer"
    /\ firm' = "none"
    /\ manufacturer' = IF IsModified(maker.year) /\ manufacturer = SHAN_ZHU
                       THEN SHAN_ZHU_M ELSE manufacturer
    /\ UNCHANGED <<seq_num, out, flag_query_firm_ver, maker>>

Next ==
    \/ tsc_dynamic \/ tsc_pretime \/ tsc_switch_strategy \/ tsc_switch
    \/ \E s \in SubPhases, t \in EffectTimes : tsc_extend(s, 1, t)
    \/ tsc_5F4C \/ tsc_5F48 \/ tsc_0F42
    \/ \E p \in PlanIDs : tsc_5F44(p) \/ tsc_5F45(p) \/ tsc_5F43(p)
    \/ \E d \in WeekDays : tsc_5F46(d)
    \/ tsc_countdown_on \/ tsc_countdown_off
    \/ tsc_query_firmware_version \/ packet_0FC3

Spec == Init /\ [][Next]_vars

-----------------------------------------------------------------------------
TypeOK ==
    /\ seq_num \in 0..255
    /\ out.info \in Seq(0..255) /\ out.bytes \in Seq(0..255)
    /\ flag_query_firm_ver \in BOOLEAN
    /\ manufacturer \in {CHENG_LONG, SHAN_ZHU, SHAN_ZHU_M}
    /\ firm \in {"none", "answer"}

\* Every packet, read by the rules recv_info applies to the controller's own,
\* is as long as it says, ends and sums up right, and its info field is what
\* the function assigned, no byte more and none less.
WellFormed ==
    LET b == out.bytes
        len == Len(b)
    IN  len > 0 =>
          /\ len = 256 * b[6] + b[7] /\ len <= MAX_PACKET_LEN
          /\ b[len - 2] = DLE_VAL /\ b[len - 1] = ETX_VAL
          /\ Xor(b) = 0
          /\ SubSeq(b, 8, len - 3) = out.info

=============================================================================
