--------------------------- MODULE MCCommunication ---------------------------
(***************************************************************************)
(* The communication layer, in models side by side: packets to a client,   *)
(* which the UDP or the TCP handlers serve; the connections; packets       *)
(* from a TCP peer, one that streams and one that waits; and the vehicles  *)
(* whose messages come through it.                                         *)
(***************************************************************************)
EXTENDS ClientWrite, ComServer  \* the other models are instances

VARIABLES
    model,      \* which of them this behaviour is of
    packets, arrived, read, hung_up, is_pending, expected_msg_len, cur_msg_len,
    base, queued, open, overrun,
    clock, lists, disp, message, object, gc, count

\* The least packet, one with a short rest, and one that fills the buffer.
Streaming == INSTANCE TcpReceive WITH
        HeaderLen <- 2, Byte <- 4, BufferLen <- 6, Lengths <- {2, 3, 6}, MaxPackets <- 3,
        Paced <- FALSE

Pacing == INSTANCE TcpReceive WITH
        HeaderLen <- 2, Byte <- 4, BufferLen <- 6, Lengths <- {2, 3, 6}, MaxPackets <- 3,
        Paced <- TRUE

Vehicle(r, i) == [role |-> r, id |-> i]

\* Two vehicles of one list and one of another, their clocks in step with
\* the RSU's.
Lists == INSTANCE OBURecords WITH
        record <- message,
        Vehicles <- {Vehicle("ambulance", <<1>>), Vehicle("ambulance", <<2>>),
                     Vehicle("bus", <<1>>)},
        MsgKinds <- {"BSM", "SRM"}, Skews <- {0}, Capacity <- 5, Minute <- 2,
        ExpireTime <- 2, HandlerTime <- 1, MaxMessages <- 3, LastArrival <- 4,
        MaxClock <- 5

ASSUME MCCommunicationAssumption ==
    /\ Streaming!TcpReceiveAssumption /\ Pacing!TcpReceiveAssumption
    /\ Lists!OBURecordsAssumption

-----------------------------------------------------------------------------
writeVars == vars
receiveVars == <<packets, arrived, read, hung_up, is_pending, expected_msg_len,
                 cur_msg_len, base, queued, open, overrun>>
listVars == <<clock, lists, disp, message, object, gc, count>>
mcVars == <<writeVars, serverVars, receiveVars, listVars, model>>

MCInit ==
    /\ model \in {"client", "server", "streaming", "waiting", "vehicles"}
    /\ Init
    /\ model # "client" => handle_type = "UDP"
    /\ ServerInit /\ Streaming!Init /\ Lists!Init

Receiving(m, next) == model = m /\ next /\ UNCHANGED <<writeVars, serverVars, listVars, model>>

MCNext ==
    \/ model = "client" /\ Next /\ UNCHANGED <<serverVars, receiveVars, listVars, model>>
    \/ model = "server" /\ ServerNext /\ UNCHANGED <<writeVars, receiveVars, listVars, model>>
    \/ Receiving("streaming", Streaming!Next)
    \/ Receiving("waiting", Pacing!Next)
    \/ model = "vehicles" /\ Lists!Next /\ UNCHANGED <<writeVars, serverVars, receiveVars, model>>

MCSpec == MCInit /\ [][MCNext]_mcVars

\* A TCP peer's packets come out of its stream whole and in order
\* (PacketsIntact of TcpReceive).
PacketsIntact ==
    /\ model = "streaming" => Streaming!PacketsIntact
    /\ model = "waiting" => Pacing!PacketsIntact

\* The vehicle lists are sorted, hold the newest record where it is read, and
\* no freed object is used; a vehicle heard within the expiry time keeps its
\* object and its grant (ListsInOrder and HeardVehiclesKept of OBURecords).
VehiclesKept ==
    [](model = "vehicles" => Lists!ListsInOrder) /\ Lists!HeardVehiclesKept
=============================================================================
