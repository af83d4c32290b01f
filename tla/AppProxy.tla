------------------------------- MODULE AppProxy ------------------------------
(***************************************************************************)
(* The proxy for external applications                                     *)
(* (src/src/external_app_proxy_server.c with                               *)
(* src/src/application_management_helper.c).  A client process connects    *)
(* twice over a unix socket: the interact channel registers the            *)
(* application (REGISTER_TOP), the notify channel completes it             *)
(* (REGISTER_BOT).  The proxy thread waits with epoll for new connections, *)
(* packets, closed connections and the heartbeat timer; the dispatcher     *)
(* forwards events over the notify channel in several sends                *)
(* (src/src/external_app_proxy_callback_msg_forward.c).                    *)
(*                                                                         *)
(* Descriptors are numbers the kernel uses again: an application's fields  *)
(* hold numbers, and which connection a number means is the kernel's       *)
(* table.  Clients and the kernel are external code.                       *)
(***************************************************************************)
EXTENDS Integers, Sequences, FiniteSets, FiniteSetsExt

CONSTANTS
    Procs,        \* client processes
    AppOf,        \* process -> the id of the application it runs
    Fds,          \* descriptors, positive numbers; 0 is "not connected"
    Allowed,      \* HEARTBEAT_MONITOR_ALLOWED_THERSHHOLD
    RcWidth,      \* values of the uint8_t heartbeat counters
    MaxLinks,     \* bound on the connections made
    NoProc        \* no process

AppIds == {AppOf[p] : p \in Procs}

(* unix_listen_fd and check_heartbeat_timer_fd                             *)
ListenFd == 1
TimerFd  == 2

ASSUME AppProxyAssumption ==
    /\ Fds \subseteq Nat \ {0, ListenFd, TimerFd} /\ Fds # {}
    /\ Allowed \in Nat /\ RcWidth \in Nat /\ Allowed + 1 < RcWidth
    /\ MaxLinks \in Nat
    /\ NoProc \notin Procs

VARIABLES
    calm,       \* are the clients calm?  Then a process crashes only when it
                \* has registered, and its successor starts when the proxy
                \* has noticed; this never changes
    link,       \* the connections made: by whom, what it sent that is not
                \* read, the answer, and which ends are open
    backlog,    \* connections that wait to be accepted
    table,      \* kernel: descriptor -> number of its connection, 0 if free
    watched,    \* the descriptors epoll watches
    batch,      \* events the last epoll_wait returned, not yet handled
    apps,       \* the external applications in app_list: ea_info
    beat,       \* proxy_cur_heartbeat
    due,        \* has the heartbeat timer expired?
    quiet,      \* application -> checks since it was last heard
    client,     \* process -> where it is, and its two connections
    notify      \* the dispatcher's forwarding function

proxyVars == <<calm, link, backlog, table, watched, batch, apps, beat, due, quiet, client, notify>>

Unlinked == [known |-> FALSE, interact_fd |-> 0, notify_fd |-> 0, rc |-> 0, pid |-> NoProc]
NotForwarding == [part |-> 0, fd |-> 0]

ProxyInit ==
    /\ calm \in BOOLEAN
    /\ link = << >>
    /\ backlog = << >>
    /\ table = [f \in Fds |-> 0]
    /\ watched = {}
    /\ batch = {}
    /\ apps = [a \in AppIds |-> Unlinked]
    /\ beat = 0
    /\ due = FALSE
    /\ quiet = [a \in AppIds |-> 0]
    /\ client = [p \in Procs |-> [pc |-> "new", interact |-> 0, notify |-> 0]]
    /\ notify = NotForwarding

Linked(a) == apps[a].interact_fd # 0 \/ apps[a].notify_fd # 0

-----------------------------------------------------------------------------
(* Client processes.                                                       *)
Connection(p, packet) ==
    [proc |-> p, in |-> <<packet>>, answer |-> "none", up |-> TRUE, served |-> TRUE]

Connect(p, packet) ==
    /\ Len(link) < MaxLinks
    /\ link' = Append(link, Connection(p, packet))
    /\ backlog' = Append(backlog, Len(link) + 1)

Predecessors(p) == {q \in Procs : AppOf[q] = AppOf[p] /\ q # p}

ConnectInteract(p) ==
    /\ client[p].pc = "new"
    /\ calm => /\ \A q \in Predecessors(p) : client[q].pc \in {"new", "dead"}
               /\ ~Linked(AppOf[p])
    /\ Connect(p, "TOP")
    /\ client' = [client EXCEPT ![p].pc = "top", ![p].interact = Len(link) + 1]
    /\ UNCHANGED <<table, watched, batch, apps, beat, due, quiet, notify>>

ConnectNotify(p) ==
    /\ client[p].pc = "top"
    /\ link[client[p].interact].answer = "ok"
    /\ Connect(p, "BOT")
    /\ client' = [client EXCEPT ![p].pc = "bot", ![p].notify = Len(link) + 1]
    /\ UNCHANGED <<table, watched, batch, apps, beat, due, quiet, notify>>

Registered(p) ==
    /\ client[p].pc = "bot"
    /\ link[client[p].notify].answer = "ok"
    /\ client' = [client EXCEPT ![p].pc = "up"]
    /\ UNCHANGED <<link, backlog, table, watched, batch, apps, beat, due, quiet, notify>>

(* A heartbeat report or a request, over the interact channel.             *)
SendPacket(p) ==
    /\ client[p].pc = "up"
    /\ link[client[p].interact].served
    /\ link[client[p].interact].in = << >>
    /\ \E packet \in {"REPORT", "REQ"} :
          link' = [link EXCEPT ![client[p].interact].in = <<packet>>]
    /\ UNCHANGED <<backlog, table, watched, batch, apps, beat, due, quiet, client, notify>>

(* The process ends, for whatever reason; the kernel closes its ends.      *)
ProcessEnds(p) ==
    /\ client' = [client EXCEPT ![p].pc = "dead"]
    /\ link' = [i \in DOMAIN link |->
                  IF link[i].proc = p THEN [link[i] EXCEPT !.up = FALSE] ELSE link[i]]
    /\ UNCHANGED <<backlog, table, watched, batch, apps, beat, due, quiet, notify>>

ProcessCrashes(p) ==
    /\ client[p].pc \in (IF calm THEN {"up"} ELSE {"top", "bot", "up"})
    /\ ProcessEnds(p)

RegistrationRefused(p) ==
    /\ client[p].pc = "bot"
    /\ link[client[p].notify].answer = "refused"
    /\ ProcessEnds(p)

TimerExpires ==
    /\ ~due
    /\ due' = TRUE
    /\ UNCHANGED <<link, backlog, table, watched, batch, apps, beat, quiet, client, notify>>

-----------------------------------------------------------------------------
(* The proxy thread.  epoll is level-triggered and queues what is still    *)
(* ready again, so a batch has no order the model could rely on.           *)
Readable(f) ==
    LET c == link[table[f]]
    IN  c.in # << >> \/ ~c.up

Ready ==
    {f \in watched : table[f] # 0 /\ Readable(f)}
        \cup (IF backlog # << >> THEN {ListenFd} ELSE {})
        \cup (IF due THEN {TimerFd} ELSE {})

epoll_wait ==
    /\ batch = {}
    /\ Ready # {}
    /\ batch' = Ready
    /\ UNCHANGED <<link, backlog, table, watched, apps, beat, due, quiet, client, notify>>

(* close() of descriptors that are open: epoll forgets them.               *)
Closed(fs) ==
    /\ table' = [f \in Fds |-> IF f \in fs THEN 0 ELSE table[f]]
    /\ watched' = watched \ fs
    /\ link' = [i \in DOMAIN link |->
                  IF \E f \in fs : table[f] = i
                  THEN [link[i] EXCEPT !.served = FALSE] ELSE link[i]]

(* unlink_an_external_app, for each of as: the interact channel is closed, *)
(* then the notify channel, which a failure of the first close skips; both *)
(* fields are cleared in any case.                                         *)
unlink_an_external_app(as) ==
    LET ToClose(a) ==
            LET i == apps[a].interact_fd
                n == apps[a].notify_fd
            IN  IF i # 0 /\ table[i] = 0 THEN {}
                ELSE {i, n} \ {0}
    IN  /\ Closed(UNION {ToClose(a) : a \in as})
        /\ apps' = [a \in AppIds |->
                      IF a \in as THEN [apps[a] EXCEPT !.interact_fd = 0, !.notify_fd = 0]
                      ELSE apps[a]]

(* Mutant: the difference of the counters is not taken modulo their width. *)
RecordDiffSigned(a) == IF beat < apps[a].rc THEN 0 ELSE beat - apps[a].rc

RecordDiff(a) == ((beat + RcWidth) - apps[a].rc) % RcWidth

Silent(a) == Linked(a) /\ RecordDiff(a) > Allowed

NextBeat == (beat + 1) % RcWidth

check_all_external_app_heartbeats ==
    /\ TimerFd \in batch
    /\ batch' = batch \ {TimerFd}
    /\ due' = FALSE
    /\ unlink_an_external_app({a \in AppIds : Silent(a)})
    /\ beat' = NextBeat
    /\ quiet' = [a \in AppIds |-> Min({quiet[a] + 1, Allowed + 2})]
    /\ UNCHANGED <<backlog, client, notify>>

(* accept() takes the lowest free descriptor.                              *)
FreeFds == {f \in Fds : table[f] = 0}

(* Mutant: the heartbeat counter is not set at registration.               *)
reset_two_fds_only(a, f, p) ==
    [apps EXCEPT ![a] = [@ EXCEPT !.known = TRUE, !.interact_fd = f,
                                  !.notify_fd = 0, !.pid = p]]

(* reset_external_app_two_new_sk_fds and what follows it: the old          *)
(* descriptors are overwritten, not closed.                                *)
reset_external_app_two_new_sk_fds(a, f, p) ==
    [apps EXCEPT ![a] = [known |-> TRUE, interact_fd |-> f, notify_fd |-> 0,
                         rc |-> beat, pid |-> p]]

(* Answering fails when the client is gone; then the main loop closes the  *)
(* descriptor, which the application keeps.  An answer that was sent adds  *)
(* it to epoll, a refusal included.                                        *)
AnswerAndWatch(f, i, answer) ==
    IF link[i].up
    THEN /\ link' = [link EXCEPT ![i].in = << >>, ![i].answer = answer]
         /\ table' = [table EXCEPT ![f] = i]
         /\ watched' = watched \cup {f}
    ELSE /\ link' = [link EXCEPT ![i].in = << >>, ![i].served = FALSE]
         /\ UNCHANGED <<table, watched>>

handle_new_client_registration ==
    /\ ListenFd \in batch
    /\ batch' = batch \ {ListenFd}
    /\ FreeFds # {}
    /\ LET i == backlog[1]
           p == link[i].proc
           a == AppOf[p]
           f == Min(FreeFds)
       IN  /\ backlog' = Tail(backlog)
           /\ \/ /\ link[i].in = <<"TOP">>
                 /\ apps' = reset_external_app_two_new_sk_fds(a, f, p)
                 /\ quiet' = [quiet EXCEPT ![a] = 0]
                 /\ AnswerAndWatch(f, i, "ok")
              \/ /\ link[i].in = <<"BOT">>
                 /\ apps[a].pid = p
                 /\ apps' = [apps EXCEPT ![a].notify_fd = f, ![a].rc = beat]
                 /\ quiet' = [quiet EXCEPT ![a] = 0]
                 /\ AnswerAndWatch(f, i, "ok")
              \/ /\ link[i].in = <<"BOT">>
                 /\ apps[a].pid # p
                 /\ AnswerAndWatch(f, i, "refused")
                 /\ UNCHANGED <<apps, quiet>>
    /\ UNCHANGED <<beat, due, client, notify>>

(* get_app_obj_by_unix_socket_fd                                           *)
AppsOfFd(f) ==
    {a \in AppIds : apps[a].notify_fd = f \/ apps[a].interact_fd = f}

(* An event of a descriptor.  recv() may find a descriptor that another    *)
(* event of the batch closed (an error, nothing happens), a packet, the    *)
(* end of the connection, or, when the number was given to a new           *)
(* connection, nothing yet: then the thread waits.                         *)
ClosedMeanwhile(f) ==
    /\ table[f] = 0
    /\ UNCHANGED <<link, table, watched, apps, quiet>>

PacketReceived(f) ==
    /\ table[f] # 0
    /\ LET i == table[f]
           a == AppOf[link[i].proc]
       IN  /\ link[i].in # << >>
           /\ link' = [link EXCEPT ![i].in = << >>]
           /\ apps' = IF link[i].in = <<"REPORT">>
                      THEN [apps EXCEPT ![a].rc = beat] ELSE apps
           /\ quiet' = IF link[i].in = <<"REPORT">>
                       THEN [quiet EXCEPT ![a] = 0] ELSE quiet
    /\ UNCHANGED <<table, watched>>

Disconnected(f) ==
    /\ table[f] # 0
    /\ link[table[f]].in = << >> /\ ~link[table[f]].up
    /\ IF AppsOfFd(f) = {}
       THEN UNCHANGED <<link, table, watched, apps>>
       ELSE \E a \in AppsOfFd(f) : unlink_an_external_app({a})
    /\ UNCHANGED quiet

handle_registered_client_packet ==
    \E f \in batch \ {TimerFd, ListenFd} :
        /\ batch' = batch \ {f}
        /\ ClosedMeanwhile(f) \/ PacketReceived(f) \/ Disconnected(f)
        /\ UNCHANGED <<backlog, beat, due, client, notify>>

-----------------------------------------------------------------------------
(* A forwarding function, in the dispatcher: it reads notify_fd, sends a   *)
(* header, then the parts of the message.  No lock is held.  A send that   *)
(* fails ends it; errno is compared with -EPIPE, so the channels are never *)
(* closed from here.                                                       *)
ForwardBegins ==
    /\ notify.part = 0
    /\ \E a \in AppIds :
          /\ apps[a].notify_fd # 0
          /\ notify' = [part |-> 1, fd |-> apps[a].notify_fd]
    /\ UNCHANGED <<link, backlog, table, watched, batch, apps, beat, due, quiet, client>>

SendFails == table[notify.fd] = 0 \/ ~link[table[notify.fd]].up

ForwardHeader ==
    /\ notify.part = 1
    /\ notify' = IF SendFails THEN NotForwarding
                 ELSE [notify EXCEPT !.part = 2]
    /\ UNCHANGED <<link, backlog, table, watched, batch, apps, beat, due, quiet, client>>

ForwardMessage ==
    /\ notify.part = 2
    /\ notify' = NotForwarding
    /\ UNCHANGED <<link, backlog, table, watched, batch, apps, beat, due, quiet, client>>

Proxy == \/ epoll_wait \/ check_all_external_app_heartbeats
         \/ handle_new_client_registration \/ handle_registered_client_packet

Forward == ForwardBegins \/ ForwardHeader \/ ForwardMessage

Register(p) == ConnectInteract(p) \/ ConnectNotify(p) \/ Registered(p) \/ RegistrationRefused(p)

Client(p) == Register(p) \/ SendPacket(p) \/ ProcessCrashes(p)

ProxyNext ==
    /\ Proxy \/ Forward \/ TimerExpires \/ \E p \in Procs : Client(p)
    /\ UNCHANGED calm

ProxySpec == ProxyInit /\ [][ProxyNext]_proxyVars

-----------------------------------------------------------------------------
(* The type invariant.                                                     *)
ProxyTypeOK ==
    /\ \A f \in Fds : table[f] \in 0..Len(link)
    /\ watched \subseteq Fds
    /\ batch \subseteq Fds \cup {TimerFd, ListenFd}
    /\ \A a \in AppIds : {apps[a].interact_fd, apps[a].notify_fd} \subseteq Fds \cup {0}
    /\ beat \in 0..RcWidth - 1
    /\ \A a \in AppIds : apps[a].rc \in 0..RcWidth - 1
    /\ notify.part \in 0..2

(* An application that is still linked has reported within the allowed     *)
(* number of checks, although the counters wrap: no process that hangs     *)
(* stays linked.                                                           *)
SilenceBounded == \A a \in AppIds : Linked(a) => quiet[a] <= Allowed + 1

(* What the heartbeat monitor promises at every moment: well-typed state,  *)
(* and no silent application.                                              *)
SilentAppsUnlinked == ProxyTypeOK /\ SilenceBounded

(* The check unlinks no application that reported within the allowed       *)
(* number of checks, although the counters wrap.                           *)
BeatingAppsKept ==
    [][\A a \in AppIds :
          (TimerFd \in batch /\ TimerFd \notin batch' /\ Linked(a) /\ ~Linked(a)')
              => quiet[a] > Allowed]_proxyVars

(* The channels of an application are open connections of the process that *)
(* registered it, and no two fields hold the same descriptor (calm clients *)
(* keep it so).                                                            *)
ChannelsBelong ==
    \A a \in AppIds : \A f \in {apps[a].interact_fd, apps[a].notify_fd} \ {0} :
        /\ table[f] # 0
        /\ link[table[f]].proc = apps[a].pid
        /\ AppsOfFd(f) = {a}
        /\ apps[a].interact_fd # apps[a].notify_fd

(* No application that stays silent stays linked, and with calm clients an *)
(* application's descriptors are its own open connections.                 *)
LinksRight == SilentAppsUnlinked /\ (calm => ChannelsBelong)

(* A process that has ended is unlinked at last, and for good.             *)
DeadAppsUnlinked ==
    <>[](\A a \in AppIds :
            (\A p \in Procs : AppOf[p] = a => client[p].pc = "dead") => ~Linked(a))
=============================================================================
