------------------------------ MODULE MCSerial ------------------------------
(***************************************************************************)
(* The serial line to the signal controller, in models side by side: the   *)
(* receiving thread on a good line, on one that flips a bit and on one     *)
(* that loses a byte; the threads that send, five packets with three       *)
(* numbers, so that the numbers turn over; and the bytes of every command. *)
(***************************************************************************)
EXTENDS SerialSend, SerialPacket

VARIABLES
    model,      \* which of them this behaviour is of
    wire, sent, faults, rx, packet, acked, replies, taken, overrun,
    number, out, flag_query_firm_ver, manufacturer, maker, firm

-----------------------------------------------------------------------------
(* A position report and a plan report that contains a DLE STX, as a        *)
(* controller may send them; an unknown report; an acknowledgement; a       *)
(* refusal.  The first number is the one before a DLE.                      *)

Position == [TYPE |-> STX_VAL, INFO |-> <<95, 204, 1, 2>>]
PlanWithEscape == [TYPE |-> STX_VAL, INFO |-> <<95, 200, 170, 187, 0>>]
Unknown == [TYPE |-> STX_VAL, INFO |-> <<15, 128>>]
Ack == [TYPE |-> ACK_VAL, INFO |-> <<>>]
Nak == [TYPE |-> NAK_VAL, INFO |-> <<ERR_CKS>>]

Good == INSTANCE SerialReceive WITH
    ack_seq <- acked,
    Messages <- {Position, PlanWithEscape, Unknown, Ack, Nak}, FirstSEQ <- 169,
    MaxSent <- 4, MaxWire <- 20, MaxFaults <- 0, Losses <- FALSE, Flips <- {}

Flipping == INSTANCE SerialReceive WITH
    ack_seq <- acked,
    Messages <- {Position, PlanWithEscape, Ack}, FirstSEQ <- 169,
    MaxSent <- 3, MaxWire <- 20, MaxFaults <- 1, Losses <- FALSE,
    Flips <- {2^i : i \in 0..7}

\* Enough packets for the longest length that bytes in the wrong place give.
Losing == INSTANCE SerialReceive WITH
    ack_seq <- acked,
    Messages <- {PlanWithEscape}, FirstSEQ <- 169,
    MaxSent <- 11, MaxWire <- 20, MaxFaults <- 1, Losses <- TRUE, Flips <- {}

\* All 256 numbers; effect times around the escaped 170.
C == INSTANCE SerialCommands WITH
        seq_num <- number,
        SubPhases <- {2}, EffectTimes <- {1, 170, 255}, PlanIDs <- {3},
        WeekDays <- {6}, Years <- {109, 110}

ASSUME MCSerialAssumption ==
    /\ Good!SerialReceiveAssumption /\ Flipping!SerialReceiveAssumption
    /\ Losing!SerialReceiveAssumption
    /\ C!SerialCommandsAssumption

-----------------------------------------------------------------------------
receiveVars == <<wire, sent, faults, rx, packet, acked, replies, taken, overrun>>
commandVars == <<number, out, flag_query_firm_ver, manufacturer, maker, firm>>
mcVars == <<receiveVars, vars, commandVars, model>>

MCInit ==
    /\ model \in {"good", "flipping", "losing", "send", "commands"}
    /\ Good!Init /\ Init /\ C!Init
    /\ model # "commands" =>
          maker = [make |-> C!SHAN_ZHU, year |-> 109] /\ manufacturer = C!SHAN_ZHU

Receiving(m, next) == model = m /\ next /\ UNCHANGED <<vars, commandVars, model>>

MCNext ==
    \/ Receiving("good", Good!Next)
    \/ Receiving("flipping", Flipping!Next)
    \/ Receiving("losing", Losing!Next)
    \/ model = "send" /\ Next /\ UNCHANGED <<receiveVars, commandVars, model>>
    \/ model = "commands" /\ C!Next /\ UNCHANGED <<receiveVars, vars, model>>

MCSpec == MCInit /\ [][MCNext]_mcVars

\* No report, acknowledgement or reply is invented, whatever the line does, and
\* on a good line none is missing (ReceivedAsSent of SerialReceive).
ReceivedAsSent ==
    /\ model = "good" => Good!ReceivedAsSent
    /\ model = "flipping" => Flipping!ReceivedAsSent
    /\ model = "losing" => Losing!ReceivedAsSent

\* Every command is a packet by the rules of the receiving side, and says what
\* its function means to say (WellFormed of SerialCommands).
WellFormed == C!WellFormed
=============================================================================
