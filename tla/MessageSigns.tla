----------------------------- MODULE MessageSigns ----------------------------
(***************************************************************************)
(* What the message signs of the intersection show (src/src/vms.c).        *)
(* Applications ask for the signs with a priority; while nobody holds      *)
(* them they show the carousel, one program for a green direction and one  *)
(* for the others, which the cloud may change.  Every two seconds          *)
(* control_loop writes one packet with a program for each sign.            *)
(*                                                                         *)
(* The control loop runs in its own thread: it copies the signal status    *)
(* twice, once for the sub-phase and the step and once, in                 *)
(* phase_rtm_connect, for the phase plan, and takes no lock to read        *)
(* app_id, evsp_prog and the carousel.  A carousel update changes one      *)
(* element of the arrays, so that is one step; evsp_prog is rewritten      *)
(* whole, and a packet built meanwhile takes each of its elements as it    *)
(* was, blank, or as it will be.  The loop and the carousel update turn    *)
(* numbers into text in the same buffer, uint8_t_to_char: when they do so  *)
(* at the same time, either may take the other's text, or a mixture.  The  *)
(* packets' sequence numbers and their wording are left out.               *)
(***************************************************************************)
EXTENDS Naturals, FiniteSets, FiniteSetsExt, Sequences

CONSTANTS
    Priority,     \* application -> its priority, smaller is stronger
    Directions,   \* RTM_MAX: the directions of the configuration
    Active,       \* activate_directions: those with a sign
    SignalCount,  \* signals of the phase plan
    Plans,        \* phase plans: [sub-phase -> signals it lets go]
    Programs,     \* programs the cloud may name; 0 is none
    EvspFaces,    \* what EVSP puts on the signs, one per approach
    MaxUpdates    \* bound: carousel updates

Apps == DOMAIN Priority
Carousel == "carousel"     \* CAROUSEL_NUM as app_id
NoPriority == 255          \* CAROUSEL_NUM as request_priority
Blank == 255               \* the program that is black
Garbled == 256             \* a number that is not the one meant
Signals == 1..SignalCount
Lines == {"green", "not_green"}

MessageSignsAssumption ==
    /\ SignalCount \in {2, 4}
    /\ Active \subseteq 1..Directions
    /\ "EVSP" \in Apps /\ Carousel \notin Apps
    /\ \A a \in Apps : Priority[a] \in 0..(NoPriority - 1)
    /\ Plans \subseteq [1..2 -> SUBSET Signals]
    /\ EvspFaces \subseteq [Signals -> Nat]

VARIABLES
    app_id, request_priority,
    asked,         \* history: who has asked since the carousel last ran
    evsp_prog,     \* EVSP's programs
    writing,       \* what VMS_activate is writing over evsp_prog
    vms_config,    \* line -> direction -> program, in memory
    file,          \* the same two lines of vms_config.txt
    filing,        \* carousel_update while it rewrites the file: its
                   \* arguments, and whether a packet was built meanwhile
    garbled,       \* history: lines last written while a packet was built
    program_ids,   \* line -> the programs of the active directions, in order
    updates,       \* carousel updates so far
    signal,        \* the controller: plan, sub-phase, is the step green?
    loop,          \* control_loop: its first copy of the signal, if it is at work
    shown          \* vms_packet_tx: the packet last written

vars == <<app_id, request_priority, asked, evsp_prog, writing, vms_config,
          file, filing, garbled, program_ids, updates, signal, loop, shown>>
requestVars == <<app_id, request_priority, asked>>
carouselVars == <<vms_config, file, filing, garbled, program_ids, updates>>
loopVars == <<loop, shown>>

(* The active directions' programs, packed to the front.                   *)
Packed(config) ==
    LET order == SelectSeq([d \in 1..Directions |-> d], LAMBDA d : d \in Active)
    IN  [l \in Lines |-> [i \in 1..Directions |->
            IF i <= Len(order) THEN config[l][order[i]] ELSE Blank]]

Status == [plan : Plans, sub : 1..2, green : BOOLEAN]

(* vms_handler_init, with the packet that blanks every sign                *)
Init ==
    /\ app_id = Carousel /\ request_priority = NoPriority /\ asked = {}
    /\ evsp_prog = [i \in Signals |-> 0] /\ writing = <<>>
    /\ vms_config = [l \in Lines |-> [d \in 1..Directions |->
                        IF l = "green" THEN 1 ELSE 3]]
    /\ file = vms_config /\ filing = <<>> /\ garbled = {}
    /\ program_ids = Packed(vms_config)
    /\ updates = 0
    /\ signal \in {s \in Status : s.sub = 1 /\ s.green}
    /\ loop = <<>>
    /\ shown = [by |-> "init", progs |-> [i \in Signals |-> Blank]]

-----------------------------------------------------------------------------
(* An application asks for the signs.  Only a stronger one takes over.     *)
Started(a) ==
    /\ asked' = asked \union {a}
    /\ IF Priority[a] < request_priority
       THEN /\ request_priority' = Priority[a]
            /\ app_id' = a
       ELSE UNCHANGED <<app_id, request_priority>>

vms_request_start(a) ==
    /\ a # "EVSP"
    /\ Started(a)
    /\ UNCHANGED <<evsp_prog, writing, signal>>
    /\ UNCHANGED carouselVars
    /\ UNCHANGED loopVars

(* Mutant: whoever ends ends the service of the holder.                    *)
EndsAnyService(a) ==
    /\ app_id' = Carousel
    /\ request_priority' = NoPriority
    /\ asked' = IF app_id = a THEN {} ELSE asked
    /\ UNCHANGED <<evsp_prog, writing, signal>>
    /\ UNCHANGED carouselVars
    /\ UNCHANGED loopVars

(* Only the holder can end its service.                                    *)
vms_request_end(a) ==
    /\ IF app_id = a
       THEN /\ app_id' = Carousel
            /\ request_priority' = NoPriority
            /\ asked' = {}
       ELSE UNCHANGED requestVars
    /\ UNCHANGED <<evsp_prog, writing, signal>>
    /\ UNCHANGED carouselVars
    /\ UNCHANGED loopVars

(* VMS_activate: blanks evsp_prog, fills it for the approach and asks for  *)
(* the signs; the proxy's wrapper of vms_sync_then_start does the same.    *)
VMS_activate(face) ==
    /\ writing = <<>>
    /\ writing' = <<face>>
    /\ UNCHANGED <<evsp_prog, signal>>
    /\ UNCHANGED requestVars
    /\ UNCHANGED carouselVars
    /\ UNCHANGED loopVars

VMS_activated ==
    /\ writing # <<>>
    /\ evsp_prog' = writing[1]
    /\ writing' = <<>>
    /\ Started("EVSP")
    /\ UNCHANGED signal
    /\ UNCHANGED carouselVars
    /\ UNCHANGED loopVars

-----------------------------------------------------------------------------
(* The cloud changes one program of the carousel.  The line of the file is *)
(* rewritten from memory before the arguments are checked: a direction too *)
(* large changes no element of it, any type but green takes the other      *)
(* line, and program 0 is written like any other.                          *)
carousel_update(d, type, p) ==
    /\ filing = <<>>
    /\ updates < MaxUpdates
    /\ updates' = updates + 1
    /\ filing' = <<[d |-> d, type |-> type, p |-> p, raced |-> FALSE]>>
    /\ UNCHANGED <<evsp_prog, writing, signal, vms_config, file, garbled,
                   program_ids>>
    /\ UNCHANGED requestVars
    /\ UNCHANGED loopVars

(* The texts a line of programs may become: when raced, any of its numbers *)
(* may be garbled.                                                         *)
Texts(progs, raced) ==
    {[i \in DOMAIN progs |-> IF i \in bad THEN Garbled ELSE progs[i]] :
        bad \in IF raced THEN SUBSET DOMAIN progs ELSE {{}}}

carousel_updated ==
    /\ filing # <<>>
    /\ LET u == filing[1]
           line == IF u.type = 0 THEN "green" ELSE "not_green"
           accepted == u.d \in 1..Directions /\ u.type \in {0, 1} /\ u.p # 0
           meant == [i \in 1..Directions |->
                        IF i = u.d THEN u.p ELSE vms_config[line][i]]
       IN  /\ \E t \in Texts(meant, u.raced) : file' = [file EXCEPT ![line] = t]
           /\ garbled' = IF u.raced THEN garbled \union {line}
                         ELSE garbled \ {line}
           /\ vms_config' = IF accepted
                            THEN [vms_config EXCEPT ![line][u.d] = u.p]
                            ELSE vms_config
    /\ program_ids' = Packed(vms_config')
    /\ filing' = <<>>
    /\ UNCHANGED <<evsp_prog, writing, signal, updates>>
    /\ UNCHANGED requestVars
    /\ UNCHANGED loopVars

(* The program ends and starts again: vms_config_init reads the file and   *)
(* vms_handler_init forgets every request.                                 *)
Restart ==
    /\ vms_config' = file
    /\ filing' = <<>> /\ garbled' = {}
    /\ program_ids' = Packed(file)
    /\ app_id' = Carousel /\ request_priority' = NoPriority /\ asked' = {}
    /\ evsp_prog' = [i \in Signals |-> 0] /\ writing' = <<>>
    /\ loop' = <<>>
    /\ shown' = [by |-> "init", progs |-> [i \in Signals |-> Blank]]
    /\ UNCHANGED <<file, updates, signal>>

-----------------------------------------------------------------------------
(* The controller moves on: next step or sub-phase, or another plan.       *)
SignalMoves ==
    /\ signal' \in {[signal EXCEPT !.green = ~@],
                    [signal EXCEPT !.sub = 3 - @, !.green = TRUE]}
    /\ UNCHANGED <<evsp_prog, writing>>
    /\ UNCHANGED requestVars
    /\ UNCHANGED carouselVars
    /\ UNCHANGED loopVars

PlanChanges ==
    /\ \E p \in Plans \ {signal.plan} : signal' = [signal EXCEPT !.plan = p]
    /\ UNCHANGED <<evsp_prog, writing>>
    /\ UNCHANGED requestVars
    /\ UNCHANGED carouselVars
    /\ UNCHANGED loopVars

(* control_loop: the first copy of the signal status, used for the         *)
(* sub-phase and the step; vms_packet_tx is begun anew.                    *)
control_loop ==
    /\ loop = <<>>
    /\ loop' = <<signal>>
    /\ shown' = [by |-> "none", progs |-> <<>>]
    /\ UNCHANGED <<evsp_prog, writing, signal>>
    /\ UNCHANGED requestVars
    /\ UNCHANGED carouselVars

(* The signs are wired in pairs: sign i shows the program of its partner.  *)
Partner(i) == CASE i = 1 -> 2 [] i = 2 -> 1 [] i = 3 -> 4 [] OTHER -> 3

(* phase_rtm_connect: may signal i go in the sub-phase, by this plan?      *)
phase_rtm_connect(plan, sub) == {i \in Signals : i \in plan[sub]}

(* The values a racy read of EVSP's program i can give.                    *)
EvspReads(i) ==
    {evsp_prog[i]} \union IF writing = <<>> THEN {}
                          ELSE {Blank, writing[1][i]}

(* The programs of one packet.  Applications other than EVSP have none.    *)
Faces(plan, copy) ==
    LET going == IF copy.green THEN phase_rtm_connect(plan, copy.sub) ELSE {}
        Line(j) == IF j \in going THEN "green" ELSE "not_green"
    IN  CASE app_id = "EVSP" ->
                 {f \in [Signals -> UNION {EvspReads(i) : i \in Signals}] :
                     \A i \in Signals : f[i] \in EvspReads(i)}
          [] app_id = Carousel ->
                 {[i \in Signals |->
                      program_ids[Line(Partner(i))][Partner(i)]]}
          [] OTHER -> {<<>>}

WritePacket ==
    /\ loop # <<>>
    /\ \E f \in Faces(signal.plan, loop[1]) :
           \E t \in Texts(f, filing # <<>>) :
               shown' = [by |-> app_id, progs |-> t]
    /\ filing' = [i \in DOMAIN filing |-> [filing[i] EXCEPT !.raced = TRUE]]
    /\ loop' = <<>>
    /\ UNCHANGED <<evsp_prog, writing, signal>>
    /\ UNCHANGED requestVars
    /\ UNCHANGED <<vms_config, file, garbled, program_ids, updates>>

Next ==
    \/ \E a \in Apps : vms_request_start(a) \/ vms_request_end(a)
    \/ \E face \in EvspFaces : VMS_activate(face)
    \/ VMS_activated
    \/ \E d \in 1..(Directions + 1), type \in 0..2, p \in Programs :
           carousel_update(d, type, p)
    \/ carousel_updated
    \/ Restart
    \/ SignalMoves
    \/ PlanChanges
    \/ control_loop
    \/ WritePacket

Spec == Init /\ [][Next]_vars

-----------------------------------------------------------------------------
TypeOK ==
    /\ app_id \in Apps \union {Carousel}
    /\ \A c \in {vms_config, file} :
           c \in [Lines -> [1..Directions -> Programs \union {1, 3, Garbled}]]
    /\ loop = <<>> \/ loop[1] \in Status

(* Whoever holds the signs is the strongest of all that asked since the    *)
(* carousel last ran: weaker requests and ends of others never move it.    *)
StrongestServed ==
    IF asked = {}
    THEN app_id = Carousel /\ request_priority = NoPriority
    ELSE /\ app_id \in asked
         /\ Priority[app_id] = Min({Priority[a] : a \in asked})
         /\ request_priority = Priority[app_id]

(* The file a restart reads differs from the memory in at most one         *)
(* direction of a line, the one of the last update, which was refused for  *)
(* its program 0 or for its type; a line written while a packet was built  *)
(* is right again after the next update of its kind.                       *)
FileLagsByOne ==
    \A l \in Lines \ garbled :
        LET stray == {d \in 1..Directions : file[l][d] # vms_config[l][d]}
        IN  /\ Cardinality(stray) <= 1
            /\ l = "green" => \A d \in stray : file[l][d] = 0

(* A carousel packet shows every direction's sign, wired crosswise, the    *)
(* green program just when that direction may go in the sub-phase and step *)
(* the loop copied.  The plan is copied after them: when it changed in     *)
(* between, or a carousel update is at work, the packet may be wrong.      *)
CarouselTellsSignal ==
    LET s == loop[1]
    IN  WritePacket /\ app_id = Carousel /\ s.plan = signal.plan
        /\ filing = <<>> =>
            \A j \in Signals :
                shown'.progs[Partner(j)] =
                    program_ids[IF s.green /\ j \in s.plan[s.sub]
                                THEN "green" ELSE "not_green"][j]

(* The holder of the signs, the memory of the carousel, its file and the   *)
(* packets agree (vms_request_start, carousel_update, control_loop).       *)
SignsAgree ==
    /\ [](TypeOK /\ StrongestServed /\ FileLagsByOne)
    /\ [][CarouselTellsSignal]_vars
=============================================================================
