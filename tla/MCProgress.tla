----------------------------- MODULE MCProgress ------------------------------
(***************************************************************************)
(* What must happen at last, in models side by side: reports on a good     *)
(* serial line, packets to a client served by the UDP handlers, packets    *)
(* from a TCP peer that waits, messages for the dispatcher, the loss of    *)
(* the cloud, of the controller and of vehicles, external applications     *)
(* that end, answers to vehicles, the activation for emergency vehicles    *)
(* and uploads to the message signs.                                       *)
(***************************************************************************)
EXTENDS SerialPacket, TLC

VARIABLES
    model,      \* which of them this behaviour is of
    wire, sent, faults, rx, packet, ack_seq, replies, taken, overrun,
    ring, first, last, mutex, mask, epoll, sender, made, loop, out,
    packets, arrived, read, hung_up, is_pending, expected_msg_len, cur_msg_len,
    base, queued, open, beyond,
    dispatch_com_id, clients, dict, at, queue, hand, com_id, heard, timers,
    next_time_id, cloud_expired_id, noticed,
    clock, lists, disp, record, object, gc, count,
    link, backlog, table, watched, batch, apps, beat, due, quiet, client, notify,
    list, empty, full, lock, com, incoming, taker, message,
    error_status, timer, late, handler, killers, silent, accused, alive,
    requests, thread, repeater, asking, round, treated,
    hosts, actives, noted, list_len, activation, old_len, rx_vehicle, checks,
    owed, crashed,
    pc, locked, job, todo, cnt, database, has, vms_error, readCnt, answered,
    mute, ackers, updates

Position == [TYPE |-> STX_VAL, INFO |-> <<95, 204, 1, 2>>]
PlanWithEscape == [TYPE |-> STX_VAL, INFO |-> <<95, 200, 170, 187, 0>>]
Ack == [TYPE |-> ACK_VAL, INFO |-> <<>>]

Serial == INSTANCE SerialReceive WITH
    Messages <- {Position, PlanWithEscape, Ack}, FirstSEQ <- 169,
    MaxSent <- 4, MaxWire <- 20, MaxFaults <- 0, Losses <- FALSE, Flips <- {}

\* A ring of two places, after the size is cut to eight bits: it is full with
\* one packet.
Write == INSTANCE ClientWrite WITH
    record <- ring,
    Senders <- {"dispatcher", "timer"}, Packets <- 3, ClientRingMax <- 258,
    handle_type <- "UDP"

Tcp == INSTANCE TcpReceive WITH
    overrun <- beyond,
    HeaderLen <- 2, Byte <- 4, BufferLen <- 6, Lengths <- {2, 3, 6}, MaxPackets <- 3,
    Paced <- TRUE

Server == INSTANCE ComServer WITH
    serving <- at, Capacity <- 2, HandleIds <- 256, KeyIds <- 1000, Radix <- 10,
    FirstId <- 0, MaxConnections <- 2

\* One vehicle whose clock is a tick off, one way or the other.
Lists == INSTANCE OBURecords WITH
    Vehicles <- {[role |-> "ambulance", id |-> <<1>>]}, MsgKinds <- {"BSM", "SRM"},
    Skews <- {0 - 1, 1}, Capacity <- 5, Minute <- 3, ExpireTime <- 3,
    HandlerTime <- 1, MaxMessages <- 2, LastArrival <- 1, MaxClock <- 9

Proxy == INSTANCE AppProxy WITH
    calm <- FALSE, Procs <- {"p1", "p2"}, AppOf <- [p1 |-> 1, p2 |-> 1],
    Fds <- {3, 4, 5}, Allowed <- 1, RcWidth <- 3, MaxLinks <- 2, NoProc <- "nobody"

Queue == INSTANCE MsgQueue WITH
    queue <- list, mutex <- lock, packet <- incoming, disp <- taker, hand <- message,
    Messages <- {"m1", "m2", "m3"}, Capacity <- 2, NoMsg <- "none", EarlyPackets <- TRUE

Errors == INSTANCE ErrorStatus WITH
    DsrcLimit <- 2, TscLimit <- 3, KillDelay <- 2, PlainBits <- {}

\* Two vehicles whose requests fit into one status.
Answers == INSTANCE SPMRepeater WITH
    list <- requests, disp <- asking, Vehicles <- {"a", "b"},
    Types <- {"request", "update"}, MaxRequests <- 1, StatusMax <- 4, Expiry <- 1,
    Treatments <- {"unknown"}

Emergency == INSTANCE EVSP WITH
    thread <- activation, disp <- rx_vehicle, Vehicles <- {"a"},
    Areas <- {"west", "north"}, PhaseOf <- [west |-> 1, north |-> 2], Threshold <- 2

Uploads == INSTANCE SignUpload WITH
    heard <- answered, Signs <- <<"n2", "n1">>, OwnSign <- 2 :> "n2",
    CommonPrograms <- {18}, Listed <- {2}, Names <- {"n"}, Threshold <- 2,
    CheckEvery <- 1, MaxUpdates <- 2

ASSUME MCProgressAssumption ==
    /\ Serial!SerialReceiveAssumption /\ Write!ClientWriteAssumption
    /\ Tcp!TcpReceiveAssumption /\ Server!ComServerAssumption
    /\ Lists!OBURecordsAssumption
    /\ Errors!ErrorStatusAssumption /\ Answers!SPMRepeaterAssumption
    /\ Emergency!EVSPAssumption /\ Uploads!SignUploadAssumption

-----------------------------------------------------------------------------
serialVars == <<wire, sent, faults, rx, packet, ack_seq, replies, taken, overrun>>
writeVars == <<ring, first, last, mutex, mask, epoll, sender, made, loop, out>>
tcpVars == <<packets, arrived, read, hung_up, is_pending, expected_msg_len,
             cur_msg_len, base, queued, open, beyond>>
serverVars == <<dispatch_com_id, clients, dict, at, queue, hand, com_id, heard,
                timers, next_time_id, cloud_expired_id, noticed>>
listVars == <<clock, lists, disp, record, object, gc, count>>
proxyVars == <<link, backlog, table, watched, batch, apps, beat, due, quiet, client, notify>>
queueVars == <<list, empty, full, lock, com, incoming, taker, message>>
errorVars == <<error_status, timer, late, handler, killers, silent, accused, alive>>
answerVars == <<requests, thread, repeater, asking, round, treated>>
emergencyVars == <<hosts, actives, noted, list_len, activation, old_len,
                   rx_vehicle, checks, owed, crashed>>
uploadVars == <<pc, locked, job, todo, cnt, database, has, vms_error, readCnt,
                answered, mute, ackers, updates>>
lineVars == <<serialVars, writeVars, tcpVars, queueVars>>
lossVars == <<serverVars, listVars, proxyVars, errorVars>>
serviceVars == <<answerVars, emergencyVars, uploadVars>>
mcVars == <<lineVars, lossVars, serviceVars, model>>

MCInit ==
    /\ model \in {"serial", "write", "tcp", "queue", "server", "vehicles", "proxy",
                  "errors", "answers", "emergency", "uploads"}
    /\ Serial!Init /\ Write!Init /\ Tcp!Init /\ Queue!Init
    /\ Server!ServerInit /\ Lists!Init /\ Proxy!ProxyInit /\ Errors!Init
    /\ Answers!Init /\ Emergency!Init /\ Uploads!Init

\* A behaviour of one model leaves the others alone.
OnLine == UNCHANGED <<lossVars, serviceVars, model>>
InSerial == model = "serial" /\ OnLine /\ UNCHANGED <<writeVars, tcpVars, queueVars>>
InWrite == model = "write" /\ OnLine /\ UNCHANGED <<serialVars, tcpVars, queueVars>>
InTcp == model = "tcp" /\ OnLine /\ UNCHANGED <<serialVars, writeVars, queueVars>>
InQueue == model = "queue" /\ OnLine /\ UNCHANGED <<serialVars, writeVars, tcpVars>>

AtLoss == UNCHANGED <<lineVars, serviceVars, model>>
InServer == model = "server" /\ AtLoss /\ UNCHANGED <<listVars, proxyVars, errorVars>>
InVehicles == model = "vehicles" /\ AtLoss /\ UNCHANGED <<serverVars, proxyVars, errorVars>>
InProxy == model = "proxy" /\ AtLoss /\ UNCHANGED <<serverVars, listVars, errorVars>>
InErrors == model = "errors" /\ AtLoss /\ UNCHANGED <<serverVars, listVars, proxyVars>>

InService == UNCHANGED <<lineVars, lossVars, model>>
InAnswers == model = "answers" /\ InService /\ UNCHANGED <<emergencyVars, uploadVars>>
InEmergency == model = "emergency" /\ InService /\ UNCHANGED <<answerVars, uploadVars>>
InUploads == model = "uploads" /\ InService /\ UNCHANGED <<answerVars, emergencyVars>>

MCNext ==
    \/ InSerial /\ Serial!Next
    \/ InWrite /\ Write!Next
    \/ InTcp /\ Tcp!Next
    \/ InQueue /\ Queue!Next
    \/ InServer /\ Server!ServerNext
    \/ InVehicles /\ Lists!Next
    \/ InProxy /\ Proxy!ProxyNext
    \/ InErrors /\ Errors!Next
    \/ InAnswers /\ Answers!Next
    \/ InEmergency /\ Emergency!Next
    \/ InUploads /\ Uploads!Next

\* Threads run: the one that reads the serial port, the event loop of a client,
\* the dispatcher, the collector, the proxy, the repeater, the activation, the
\* upload, those of expired timers.  The network and the clock go on, and a
\* client process goes on with its registration.  (Steps of different models
\* share a fairness condition: a behaviour has only one of them.)
Running ==
    \/ InSerial /\ Serial!Thread
    \/ InWrite /\ Write!Loop
    \/ InTcp /\ Tcp!tcp_recv
    \/ InQueue /\ Queue!dispatcher_handler
    \/ InServer /\ Server!Dispatcher
    \/ InVehicles /\ Lists!Dispatcher
    \/ InProxy /\ Proxy!Proxy
    \/ InErrors /\ alive /\ Errors!Watchdogs
    \/ InAnswers /\ Answers!Repeater
    \/ InEmergency /\ ~crashed /\ Emergency!Activation
    \/ InUploads /\ Uploads!UpdateThread

Going ==
    \/ InTcp /\ Tcp!Network
    \/ InQueue /\ Queue!msg_queue_enqueue
    \/ InServer /\ Server!comm_create_OBU_client
    \/ InVehicles /\ Lists!Collector
    \/ InProxy /\ Proxy!TimerExpires
    \/ InErrors /\ alive /\ Errors!Tick
    \/ InAnswers /\ Answers!SPM_repeater_start
    \/ InUploads /\ Uploads!SendAck

Ticking ==
    \/ InVehicles /\ Lists!Tick
    \/ InProxy /\ Proxy!Register("p1")

Registering == InProxy /\ Proxy!Register("p2")

\* A sender gets the mutex of the ring, and a time event its turn in the event
\* loop, if they can again and again.
DispatcherSends == InWrite /\ Write!Send("dispatcher")
TimerServed ==
    \/ InWrite /\ Write!Send("timer")
    \/ InServer /\ Server!TimeEvents

MCSpec ==
    /\ MCInit /\ [][MCNext]_mcVars
    /\ WF_mcVars(Running) /\ WF_mcVars(Going)
    /\ WF_mcVars(Ticking) /\ WF_mcVars(Registering)
    /\ SF_mcVars(DispatcherSends) /\ SF_mcVars(TimerServed)

\* Every report on a good line reaches its handler, every packet for a client its
\* socket, every packet of a TCP peer the dispatcher's queue and every message in
\* that queue its handling (EveryReportTaken of SerialReceive, EveryPacketSent of
\* ClientWrite, EveryPacketTaken of TcpReceive, EveryMessageHandled of MsgQueue).
TrafficPasses ==
    /\ Serial!EveryReportTaken /\ Write!EveryPacketSent /\ Tcp!EveryPacketTaken
    /\ model = "queue" => Queue!EveryMessageHandled

\* Who falls silent is noticed: the cloud's loss is reported, vehicles are
\* collected, external applications unlinked, and without the controller the
\* program ends itself (CloudLossNoticed of ComServer, SilentVehiclesCollected of
\* OBURecords, DeadAppsUnlinked of AppProxy, SilentTscEndsProgram of ErrorStatus).
SilenceNoticed ==
    /\ model = "server" => Server!CloudLossNoticed
    /\ Lists!SilentVehiclesCollected
    /\ Proxy!DeadAppsUnlinked
    /\ model = "errors" => Errors!SilentTscEndsProgram

\* What is asked for is done with: a vehicle that keeps asking is answered, the
\* activation for emergency vehicles ends after the last of them, and an upload
\* lets the next one in (AskersAnswered of SPMRepeater, ActivationEnds of EVSP,
\* UpdatesEnd of SignUpload).
RequestsServed ==
    /\ model = "answers" => Answers!AskersAnswered
    /\ model = "emergency" => Emergency!ActivationEnds
    /\ model = "uploads" => Uploads!UpdatesEnd
=============================================================================
