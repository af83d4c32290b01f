# Verification of the roadside unit (VIPS, adaptive traffic signal)

TLA+ modules, TLC configurations and TLAPS proofs for the roadside unit (RSU)
program in `src/`: a C program that reads cameras and vehicles, drives a traffic
signal controller over a serial line, and hosts applications. At this commit `main.c`
registers one of them, VIPS+ (`PEDESTRIAN_PLUS`: pedestrian green adapted to who is
crossing); the others are in the tree with their registration commented out.

Every definition that models code is listed with its lines under `map` in
`PROJECT.json`; that file also holds the runs, the mutants (one faulty variant of
the code for every property that a passing run checks), the findings and the hazards.

Running: `tlc -config <file>.cfg <MC module>` for a run, `tlapm <module>.tla` with
`VIPSProofs`, `CommandBufferProofs`, `SignalLocksProofs`, `SerialSendProofs`, `CommunicationProofs`,
`MsgQueueProofs`, `ApplicationProofs` and `ErrorStatus` for the proofs.

## 1. The system

### Threads

| thread | code | what it does |
|---|---|---|
| main | `src/src/main.c` | reads the configuration, initialises, registers the built-in applications, creates the threads and timers |
| event loop | `server.c`, `ae_event.c`, `ae_handle.c` | accepts clients, reads packets into the message queue, writes the clients' rings, runs its timers |
| dispatcher | `dispatcher.c`, `com_packet_processing.c` | takes messages out of the queue, updates OBU records, calls the applications' callbacks |
| serial receiver | `traffic_signal_packet_rx.c` | cuts the controller's bytes into packets, answers them, updates the status cache |
| polling timer | `timer_event.c` | periodic: queries to the controller, command buffer, countdown lamp, compensation |
| OBU collector | `OBU_record_processing.c` | frees vehicles not heard for a while |
| application timers | e.g. `PEDESTRIAN_plus.c` | VIPS+: one step of the stage machine every second |
| proxy | `external_app_proxy_server.c` | registers applications that are processes of their own, forwards events and requests |

### Parts, state, operations, interactions

* **VIPS+ stage machine** (`PEDESTRIAN_plus.c`). State: stage `CS_plus`, direction,
  the stage timers, the shares of green and overtime, synchronised or not.
  One operation, the timer handler. Reads the camera matrix and the status cache,
  writes 5F10/5F1C/5F4C packets to the serial line directly.
  Correct if the vehicle green keeps its budget whatever the cameras say, if
  pedestrian green and all red keep their limits, and if both directions are served.
* **VIPS+ camera matrix** (same file). State: `matrix_plus`, `waiting_area_plus`,
  last-seen times, `matrix_mutex_plus`. Operations: the camera packet handler
  (dispatcher thread), the watchdog and the reads of the timer handler.
  Correct if a tick sees whole packets.
* **Signal status cache** (`traffic_signal_status_updating.c`). State: phase, step,
  plan, phase order, the greens of every plan, `cycle_index`, under
  `mutex_signal_status`. Operations: one `packet_5Fxx` handler per report. Correct if it
  follows the controller and counts every cycle.
* **Timer events** (`timer_event.c`). State: query counters and flags. One operation,
  the polling tick.
* **Command buffer** (`traffic_signal_command_buffer.c`). State: `CYCLE_NUM` = 3 cycles
  by phase of slots, the prior phase, the pending RESUME, the countdown flags. Operations:
  insert (applications, compensation), poll (tick), delete a vehicle's commands,
  clear. Correct if a command is sent in the phase it is meant for and
  none is lost or left for a later lap.
* **Traffic compensation** (`traffic_compensation.c`). Computes from the status copy and
  the clock how to come back to the coordinated plan, and inserts commands. Correct if
  the sum is right, limits are kept and no second is lost.
* **Serial line** (`traffic_signal_packet_rx.c`, `traffic_signal_packet_tx.c`). State: the
  receiver's place in a packet and its buffer, `seq_num`, `ack_seq`. Operations: the
  reading loop, the `tsc_` commands, the wait for an acknowledgement.
* **Message queue, event loop, connections, rings, framing** (`msg_queue.c`,
  `dispatcher.c`, `server.c`, `ae_*.c`, `com_io.c`, `buffer.c`). State: list and
  semaphores, clients and their com ids, the dictionary, rings, the event masks, the
  TCP buffer. Correct if nothing is lost, reordered or sent to another client, and
  nobody waits for ever.
* **OBU records** (`OBU_record_processing.c`). State: lists by vehicle type, a ring of
  records each. Operations: convert, insert, collect, set request status.
* **Application registry** (`application_registration.c`). State: the application list and
  a callback list per event, by priority. Operations: register, walk.
* **External application proxy** (`external_app_proxy_*.c`,
  `application_management_helper.c`). State: per application two descriptors, a heartbeat
  counter, linked or not. Operations: accept, the two registrations, packets, closed
  connections, heartbeat timer, forwarding of events by other threads.
* **Error status** (`error_status.c`). State: eight bits under one mutex, the timers of the DSRC
  unit and of the controller. Operations: set and clear, a heartbeat, a 5FCC, an expired
  timer's thread. Correct if a bit tells what is silent and the controller's watch is never lost.
* **Signal priority messages** (`SPM_*.c`). State: the list of requests, `SPM_repeater_thread`.
  Operations: a request message (dispatcher), a round and the end of the repeater thread.
  Correct if one thread answers everybody listed, in messages that fit, and one request is granted.
* **Emergency vehicles** (`EVSP_*.c`). State: listed vehicles with two timers each, the activated
  ones, the activation thread; tables of touching and terminating areas. Operations: a packet,
  the timeouts, the thread's second. Correct if the vehicles served agree about the phase, control is resumed after
  the last of them, and the green asked for is there when the vehicle is.
* **Buses** (`TSP*.c`). State: listed buses with a timer, the supermatrix of each plan. Operations:
  cloud commands, a packet (lookup and a command for the buffer), the timeout. Correct if a
  bus's commands leave with it and a lookup stays inside the matrix.
* **Message signs** (`vms.c`). State: who holds the signs, the carousel in memory and in its file,
  the packet loop, the upload thread with its mutex, an error bit. Operations: requests of
  applications, carousel updates and uploads of the cloud, the loop's packets.
  Correct if holder, carousel and packets agree and no upload is lost or endless.
* **Configuration** (`config.c`, written by `TSP.c` and `MMP.c`). State: `config` and `config.txt`.
  Operations: read at the start, change by the cloud, rewrite line by line. Correct if what is
  in force is in force again after a restart, also one in the middle of writing.
* Parts that are not modelled, and why, are in section 8.

### What is hard here

State is shared between threads with few locks and several of them commented out;
the status the program acts on is a cached copy that is up to a report behind; the
serial line loses packets, and most commands wait for nothing; queues, rings and
counters are at their limits only after hours; descriptors, sequence numbers and com
ids are used again. `PROJECT.json` lists each such place under `hazards`, at its line, with
the properties that would catch it going wrong.

## 2. Modules

| module | models | state and actions |
|---|---|---|
| `VIPSPlus` | the stage machine | the handler's variables; `Tick` is one invocation, its inputs (cached phase and step, counts of the cameras) are chosen by `\E` |
| `VIPSCameras` | matrix, packet handler, watchdog | EXTENDS `VIPSPlus`; a tick is `Watchdog`, one `ReadRow` per row, `Decide`; a packet is zeroing and refilling in single stores |
| `VIPSLink` | stage machine, serial line, controller | EXTENDS `VIPSPlus`; controller and line external, `packet_5FCC` between; the histories `faults` and `drift` count what went wrong and by how many steps it set the two apart |
| `CompensationAlgorithm`, `Compensation` | `start_compensation` | operators for the computations; one action per phase of the function |
| `CommandBuffer` | buffer with polling, applications, reports | poll in its atomic steps; ghost fields count phase instances, the history `disturbed` notes a report in the middle of an operation |
| `SignalStatus` | cache, queries, reports | one action per report handler, the tick in its steps; the line is a queue |
| `SignalLocks` | mutexes and semaphores of these three | each operation is the sequence of its lock steps |
| `SerialPacket`, `SerialReceive` | bytes from the controller | one action per read of the loop; real byte values and lengths |
| `SerialSend` | numbers, acknowledgements | one action per step between two shared accesses of a sending thread |
| `SerialCommands` | contents of the commands | one action per `tsc_` function; the firmware query and its answer |
| `MsgFIFO`, `MsgQueue` | message queue | `MsgFIFO` is the abstract queue; `MsgQueue` has one action per semaphore, mutex and list step |
| `ClientWrite` | ring, write event, write handlers | one action per access to ring, mask and epoll set; the client is of either handle type |
| `ComServer` | clients, com ids, dictionary, cloud-loss timer | one action per handler; the queue is the FIFO that `MsgQueue` implements |
| `TcpReceive` | framing of the cloud's stream | `tcp_recv` call by call over every segmentation |
| `OBURecords` | records, rings, lists, collector | dispatcher and collector in the steps between their locks |
| `AppRegistry` | registration and walks | a walk is the sequence of its reads of `current->next` |
| `AppProxy` | external applications | one action per event of the epoll loop; descriptors are numbers that are used again |
| `ErrorStatus` | bits, watchdogs | one action per call of a handler; an expired timer's thread may be late |
| `SPMRepeater` | request list, repeater thread | dispatcher up to the insertion and the start of the thread; the thread in the steps between its locks |
| `EVSP` | host list, timeouts, activation | dispatcher, timeout handlers and thread between their locks; an access through a freed or null pointer is `Crash` |
| `EVSPOptimization` | `EVSP_optimization` | operators for shorten, extend and the sign's program; each input is one step |
| `TouchingArea` | area files and the tests of a point | reading and linking as folds over rows, geometry on integers; one step per file or polygon |
| `TSP` | buses | one action per cloud command, packet, timeout; the buffer's answers are external |
| `MessageSigns` | requests, carousel, packets | loop and carousel in the steps between which the others can come; the shared number buffer is a set of outcomes |
| `SignUpload` | program upload, error bit | one action per attempt; the loop's check of answers beside it |
| `Configuration` | `config_init`, saving, restart | a fold over the file's lines; writing is one action per line, with crashes |
| `VIPSProofs`, `CommandBufferProofs`, `SignalLocksProofs`, `SerialSendProofs`, `CommunicationProofs`, `MsgQueueProofs`, `ApplicationProofs` | | theorems and proofs about the module of that name; `VIPSProofs` is about `VIPSPlus`, `VIPSCameras` and `VIPSLink`, `CommunicationProofs` about `ClientWrite` and `ComServer`, `ApplicationProofs` about `EVSP`, `AppRegistry`, `AppProxy` and `TSP`; those of `ErrorStatus` are at its end |
| `MCVIPSPlus`, `MCVIPSCameras`, `MCCommands`, `MCSignalStatus`, `MCControl`, `MCSerial`, `MCServices`, `MCCommunication`, `MCApplications`, `MCProgress` | | one per run: instances for TLC, side by side |

`VIPSCameras` and `VIPSLink` compose `VIPSPlus` with its surroundings; `VIPSCameras`
uses its actions as they are, so that its safety theorems carry over, and `MsgQueue` implements `MsgFIFO`
(`ImplementsFIFO`). Ghost variables are marked `history` where they are declared;
code outside `src/` (the signal controller, the line, the kernel, client processes)
is marked external and modelled from how the program uses it. Operators called
"Mutant" or "Faulty variant" are the mutants: none is used by a specification.


**Models side by side.** A run asks one question of several components, or of one
component under several constants. Its MC module instantiates each of them with its constants
(`Streaming == INSTANCE TcpReceive WITH ...`), and a variable `model`, chosen in the
initial state, says which of them a behaviour is of: only that one takes steps, the others
stay in an initial state. The state space is the sum of the components', not their product. A
property that needs a model's constants is guarded with `model = "..." =>`; the property itself is stated
in the component's module, under the same name, and the MC module only repeats it. The modules with
theorems about them are extended (`VIPSPlus`, `VIPSCameras`, `CommandBuffer`, `SignalLocks`, `SerialSend`, `ClientWrite`, `MsgQueue`, `ErrorStatus`, `EVSP`): there a run checks the very definition a theorem states. Components that really
interact are composed in a module of their own (`VIPSCameras`, `VIPSLink`,
`CommandBuffer` with reports and controller, `ComServer` with the queue, `SignalLocks`).

Several properties are conjunctions of named parts, to be read in the component's module:
`AllocationCorrect` (nothing lost, limits kept, a remainder only when saturated, main roads first),
`CommandsInPhase` (greens in their limits; nothing stale, sent for its phase), `ReceivedAsSent` (reports in order, acknowledgements
known, nothing invented), `PacketsKept` (ring, registrations), `ClientsFound` (dictionary, replies),
`ListsInOrder` (latest first, newest record, no use after free), `CallbacksInOrder` (unique names,
priority order, none skipped), `SilentAppsUnlinked`, `ErrorsTold`, `AnswersRight`, `PriorityKept`, `BusesServed`,
`UploadsRight`, `SettingsKept`, `AreasFound`, `GreenForVehicles`. Each includes its module's type invariant.
An MC module also joins properties of components it runs side by side under one name:
`CompensationRight`, `CacheRight`, `ControlCatchesUp`, `VehiclesKept`, `LinksRight`, `SignsAgree`, `EmergencyComputed`,
`TrafficPasses`, `SilenceNoticed`, `RequestsServed`; the comment there names the parts and their modules.

## 3. Runs

"pass" runs hold; a "violation" run states what a comment, a log text or a document of the
repository says and shows that the code does otherwise (section 7).

| run | config | | properties | what it shows |
|---|---|---|---|---|
| `vips_plus` | `VIPSPlus.cfg` | pass | `TypeOK`, `VehicleGreenBudget`, `PedestrianGreenKept`, `DirectionChangesAfterService`, `BothDirectionsServed` | The stage machine of VIPS+ with its real timings and every camera view it can be given: budgets and minimum greens hold, a direction changes only after a full service, and both directions are served. |
| `vips_cameras` | `VIPSCameras.cfg` | pass | `MatrixShowsLastPackets`, `OnlyTornRowsMislead`, `Aligned`, `SynchronizesDespiteFaults` | Packet handler and watchdog rewrite the camera matrix under its mutex while the timer handler reads it without: the matrix shows the last packets whenever the mutex is free, and a tick is misled only about cameras whose rows were rewritten while it read. Linked to a signal controller over a line that loses packets and lets answers come late: the algorithm is ahead of the controller by exactly what that line has made of it, and it still gets synchronized. |
| `commands` | `Commands.cfg` | pass | `CompensationRight`, `CommandsInPhase`, `FutureKept` | How the compensation seconds are computed and allocated to phases over every small plan, and how the command buffer keeps, sends and clears commands while reports, polls and two applications interleave. |
| `signal_status` | `SignalStatus.cfg` | pass | `CacheRight`, `ErrorsTold` | The cache of the controller's state behind polling with lost and spontaneous reports: cycles are counted, a table that was noted as current matches the phase order; and the watchdogs of the controller and the DSRC unit tell what is silent. |
| `control` | `Control.cfg` | pass | `StatusExclusive`, `EveryOperationEnds`, `ControlCatchesUp` | The mutexes and the semaphore of the control path as long as the phase order stays, the cache under fair polling, and RESUME commands: every operation ends, the cache becomes current, every RESUME is taken up. |
| `serial` | `Serial.cfg` | pass | `ReceivedAsSent`, `NumbersDistinct`, `WellFormed`, `AcksMeanReceived` | The serial line byte by byte, good, with any one bit flipped and with any one byte lost; threads that number and wait on a lossy line; every command with every sequence number. |
| `services` | `Services.cfg` | pass | `SlotsBalance`, `ImplementsFIFO`, `AnswersRight`, `SignsAgree`, `UploadsRight`, `SettingsKept`, `EmergencyComputed` | What the platform does for its applications: the message queue implements a bounded FIFO queue, requests of vehicles are answered by one thread, the signs show what their holder and the carousel say, uploads are accounted for, settings survive restarts and crashes, and areas and greens for emergency vehicles are computed right. |
| `communication` | `Communication.cfg` | pass | `PacketsKept`, `ClientsFound`, `PacketsIntact`, `VehiclesKept` | The ring and the write events of a client, connections with their ids and dictionary, the framing of a TCP stream under every segmentation, and the lists of vehicles with dispatcher, collector and command buffer. |
| `applications` | `Applications.cfg` | pass | `CallbacksInOrder`, `LinksRight`, `BeatingAppsKept`, `PriorityKept`, `BusesServed` | Registrations during walks over the callbacks; external applications that crash anywhere, and calm ones; emergency vehicles and buses whose packets, timeouts and threads meet in any order. |
| `progress` | `Progress.cfg` | pass | `TrafficPasses`, `SilenceNoticed`, `RequestsServed` | What must happen at last, under fair threads: reports, packets and messages pass; the loss of the cloud, of vehicles, applications and the controller is noticed; askers are answered, the activation and the uploads end. |
| `vips_torn_read` | `VIPSCamerasTornRead.cfg` | violation | `EarlyClearanceIsReal` | A tick that reads the matrix between the zeroing and the refilling of its rows ends all red although somebody is on the crossing. |
| `signal_locks_deadlock` | `ControlDeadlock.cfg` | violation | `EveryTickEnds` | A report of another phase order during a poll: the receiving thread and the polling tick wait for each other's mutex for ever. |

## 4. Bounds

Constants that matter to a computation keep the code's value: the signal timings of
`vips_plus` (G 30, GF 27, Y 2, R 2, PT 65), `CYCLE_NUM` 3, the serial line's bytes and lengths,
the record ring's capacity 5. What is made small, and why it is enough:

* `vips_cameras` uses one-second stages, so that several services of both directions fit; the
  theorems of `VIPSProofs` hold for all timings. Two cameras and one packet with detections of three kinds (one camera and two packets in the violation run):
  rows and cameras are treated alike, and `VIPSProofs` covers any cameras and packets. In the linked model `MaxFaults` 2, so that two packets lost or exchanges overtaken in any
  combination occur before and after the synchronization, `MinDwell` 2 ticks and `MaxLine` 4 packets; the theorem covers every value of the three.
* `CommandBuffer`: two phases, three cycles; `MaxInstance` 7 phase instances go once round the ring
  and beyond. One command of an application (`MaxInserts`), for this or either of the next cycles, beside the RESUME and the
  compensation it leads to. `Interrupts` names the operations
  a report may fall into: none in the model `buffer`, polls and insertions in `interrupted`. `disturbed` becomes true
  with such a report, and with a compensation that is addressed to phases that have passed
  (`traffic_compensation.c:192` adds 1 to the cycle only after the last phase, whatever the phase it starts at); from then on
  only greens and limits are claimed (section 7 says why). `FutureKept` allows for the command that lies a whole lap ahead in the slot a poll clears:
  an application that addresses two cycles ahead between the report of a new cycle and its poll puts it there.
  `CommandBufferProofs` covers every plan, ring, bound and command.
* `Compensation`: two plans, all methods, one to three cycles, clock positions before
  and after the base point and in every step.
* `SignalStatus`: two plans that differ in everything, `MaxChanges` 1, `MaxLine` 3 or 4
  reports under way, the answers of about one round of plan queries, which the code makes 5 seconds apart (`timer_event.c:70`): nothing is claimed
  of a line that holds the answers of two; the counters of ticks are shortened in proportion.
* `SerialReceive`: `MaxSent` three or four packets and one fault anywhere (eleven where the
  thread may run on through later packets); `FirstSEQ` = 169, so that the number 170, the
  escape character, occurs. `SerialSend`: numbers modulo 3 and five packets, so that a full turn happens; `SerialSendProofs`
  covers any modulus and any threads.
* `MsgQueue`: capacity 3 and three messages that come again; `MsgQueueProofs` covers every capacity.
* `ClientWrite`: a ring of two or three places (the code keeps `CLIENT_RING_MAX` in eight bits,
  so 258 and 259 stand for them and the narrowing is part of the model), three packets per sender.
  `CommunicationProofs` covers any senders, packets and size.
* `ComServer`: a queue of two, two or three connections, so that a second client of a kind meets the
  first. `HandleIds` 2, `KeyIds` 3 and `Radix` 3 stand for the code's 256, 1000 and 10: with three connections ids wrap and
  keys clash, which takes 256 and 1000 in the code. `CommunicationProofs` covers every value of them and any number of connections.
  `TcpReceive`: a `Byte` of 4 values for 256, two bytes of header for four, buffer of 6 bytes, packets of 2, 3 and 6, three packets in every segmentation: a packet of 6 is longer than a byte can say,
  so that its header may be read in part.
* `OBURecords`: two lists, three messages, a minute of two or three ticks; objects expire before the clock's bound.
* `ErrorStatus`: limits of 2 and 3 ticks and a sleep of 2, so that the limits differ and a 5FCC fits
  before, at and after each; silence is counted up to the limit. The theorem covers every limit.
* `SPMRepeater`: two vehicles, up to two requests of the kinds update and cancel, a status of two answers, so that
  one message overflows; for liveness one request each and a status that holds them all.
* `EVSP`: two vehicles on two approaches with different phases (for liveness one vehicle), activation at the
  second touch; all orders of packets, timeouts and the thread. `ApplicationProofs` covers any number of vehicles.
  `EVSPOptimization`: plans of two and three phases, shortened and extended, arrivals before, inside and long after the phase.
* `TouchingArea`: files with repeated, refused and dangling rows in two orders of sections; polygons on
  a grid of 9 by 9 with every point of a grid one wider on each side.
* `TSP`: two buses, two commands at most, two plans one of which belongs to another unit, distances on both
  sides of the threshold; targets 0 and 2. `ApplicationProofs` covers any buses and up to eight phases.
* `MessageSigns`: three applications of different priority on two signs while the plan changes;
  one application and two updates for the carousel. `SignUpload`: two signs, two updates, two attempts; the code's
  limits differ only in number.
* `Configuration`: five files an operator may have left (legal, refused half-way, empty), every change by the cloud over
  legal and illegal strategies, cycle numbers and weights, one crash at any line.
* `AppRegistry`: one built-in and two external applications, one of them with a name that is taken;
  two messages, so that an application may have several nodes in a list.
  `AppProxy`: two processes of one application, four connections, counters modulo 3. `ApplicationProofs` covers any of these numbers.

`CHECK_DEADLOCK FALSE` is set where a bound (number of packets, inserts, connections) ends
the run. Otherwise TLC also shows that nothing stops.

## 5. Fairness

Fairness is assumed of threads that the operating system schedules and of timers, and of
nothing the environment may refuse to do.

| run | assumption | why |
|---|---|---|
| `vips_plus` | WF of the tick | an interval timer of one second |
| `vips_cameras` | WF of the packet handler's and of the timer handler's steps; linked: WF of handler, poll, `packet_5FCC`, of the controller obeying and of its own plan moving on | threads holding or waiting for a mutex, packets themselves are not assumed; a signal controller that works; of the line nothing is assumed, losses are bounded by `MaxFaults` |
| `control` | locks: SF per thread. Cache: WF of the tick and of the handlers. Buffer: WF of polling steps, reports, the controller's phases, insertions asked for | a mutex is acquired by one who keeps trying; the tick is periodic; the controller keeps moving |
| `progress` | WF of the receiving thread, of the event loop, `tcp_recv`, both threads of the queue, dispatcher, collector, proxy, threads of expired timers, repeater, activation and upload threads (`Running`, `Going`); WF of the network, the clock, the heartbeat timer, the handler's call of `SPM_repeater_start`, a client's registration (`Going`, `Ticking`, `Registering`); SF of senders and time events (`DispatcherSends`, `TimerServed`) | threads run and timers expire; TCP delivers; the ring's mutex is shared and time events take turns with sockets. Commands an upload runs end, one way or the other. A crash of a client, a packet of a vehicle or a report is never assumed |

In `progress` steps of different models share one fairness condition: a behaviour has
only one model, so each condition is that component's own.

## 6. Proofs

**`VIPSProofs`, the stage machine** - for every choice of the timing constants allowed by
`VIPSPlus`'s assumption and every sequence of inputs: `TypeCorrect`,
`VehicleGreenIsFixed`, `PedestrianGreenIsKept`, `AllRedIsBounded`,
`ServiceBeforeDirectionChange`. `VehicleGreenBudget` is not inductive: what a
stage may still use depends on what the stages before it used. `IInv` adds,
stage by stage, what the timers and shares add up to, which limits the shares computed in
stage 1 keep (lemmas `LimitsAreNat`, `FlowShares`) and how overtime accounts for the
difference (`OvertimeStep`, `OvertimeValue`). The step
is proved per part of the tick: alignment, stage 1, the other stages (one case
each); the theorems follow from `IInv`.

**`MsgQueueProofs`** - for every capacity and every set of messages: `QueueInvariant`,
`SlotsAlwaysBalance`, `CriticalSectionsExclude`, and `QueueImplementsFIFO`, that the
semaphores, the mutex and the list implement the bounded FIFO queue. The balance of the
semaphores is not inductive alone: it needs who holds the mutex (`MutexHeld`),
who has a message in hand (`MessageHeld`) and that nobody passes the semaphore before the
dispatcher has initialised it (`BeforeInit`). The refinement maps an enqueue to the step that
links the message and a dequeue to the one that unlinks it; all else stutters.

**`ErrorStatus`** - for every limit and delay: `ErrorsAreTold`. That no watch is lost and
no silence hidden depends on two facts that `ErrorInv` adds: what a timer has left and what its part has been
silent for make up its limit (`TimersMeasure`), and a heartbeat whose second call is still
to come has just been heard (`HandledIsHeard`). One lemma for the handlers and expired timers, one for the tick.

**`ApplicationProofs`, emergency vehicles** - for any vehicles, areas, phases and threshold: `PriorityIsKept`. `EVSPInv` adds that a
list nobody is noted for has length 0: else the thread's next start counts from a wrong length.
First the lists alone (`SearchFinds`, `ReplaceKeeps`, `DeleteKeeps`, `AppendKeeps`, `SuffixRight`): names stay distinct and phases
equal; then the steps of the dispatcher, the timers and the activation thread. A RESUME stays owed
to somebody because the thread inserts a command only when all it serves are still listed,
and because whoever deletes a vehicle looks for others with its phase afterwards.

**`ApplicationProofs`, the registry** - for any applications, events, walking threads and any value of the uninitialised return
value: `CallbacksStayInOrder`. That a walk without the lock misses nobody is not inductive: the node it
holds says nothing about what it has passed in a chain that grows under it. `RegistryInv` gives every walk a place in the chain
as it is now (`WalkRight`, `Passed`): whatever was due up to that place has been called and whatever is due is still in the chain. An
insertion moves the place by at most one and never removes a node, so each walk keeps its own. Sortedness
and the absence of doubles go along (`ListRight`), as do names and ids (`AppsUnique`).

**`ApplicationProofs`, the proxy** - for any processes, descriptors and width of the heartbeat counters: `ChannelsAreOwn` and `BeatingKept`. `SilenceCounted`
ties the two wrapping counters to the checks an application has been silent for: of a linked application that number is their difference modulo
the width, which is why unlinking by the difference never hits an application that beats. For calm clients, which crash only once registered and
whose successors start when the proxy has noticed, `ChannelsBelong` says whose descriptors each application holds, and `BacklogWaits` that a connection not yet accepted is
one its process still waits on: on this rests that the two channels the proxy puts together are of one process. `calm` is a variable that no step changes:
both kinds of clients are in one run, and what depends on it is claimed under it. The number a descriptor
gets is the least free one; that it exists is proved from the well-foundedness of the naturals (`MinOfNats`).

**`ApplicationProofs`, buses** - for any buses, distances, plans and size of the list: `BusesAreServed`. `TransitInv` keeps the listed buses distinct,
their ids distinct and already given out, and commands with their buses. The rest follows from types by arithmetic: that `FirstCycle`, with its three cases
of phase and step, gives the cycle of the next green of the target phase (`FirstCycleRight`, from `TurnsMade` and `Wrap` on division by the number of phases), and that the
indices of a lookup are inside the matrix for whatever distance and second.

**`VIPSProofs`, the camera matrix** - for every set of cameras and of packets: `MatrixIsLastPackets`, that the matrix is the cameras'
last packets whenever its mutex is free, and `ReadingsAreReal` (`OnlyTornRowsMislead`), that a tick, which reads the matrix row by row without the mutex, is
misled only about cameras whose rows were rewritten while it read (`torn`). `CInv` says of every cell, while a packet is being written, how far the zeroing and the refilling have come and what
is still to be added. `SInv` says of a handler on its way through the rows what it must and what it may have seen of the rows it has read (`SeesRight`), and that a packet being
installed meanwhile is of a torn camera; a row is read right because its camera is either torn or not being written, and then `CInv` gives its cells.
`VehicleGreenWithCameras` carries the green budget over: whatever was read, torn or not, is an input the stage machine may be given. What a torn row can do
is what the violation run `vips_torn_read` shows.

**`VIPSProofs`, the link** - for all timings, camera views and plans, and on every line, whatever it loses or delays: `AlgorithmStaysAligned`.
The comment at `PEDESTRIAN_plus.c:563` says that the algorithm's stage is aligned with the controller; the code only ensures it when nothing goes wrong: it neither waits for an answer nor
repeats a switch, and it synchronizes on a cached report. `Aligned` says exactly what is left of it otherwise: the algorithm is ahead of the controller by the switches
that are on their way (`Pending`) and by `drift`, which takes up the gap it synchronized with if `faults` came before, one step for each switch lost or refused, and minus one for each step the plan
makes by itself. Irregular (`faults`) is a lost packet, a tick or a poll that overtakes the exchange before it, and a step of the plan shorter than two ticks (with these the controller
may have left the early start by the time its report is used).
`WInv` has two halves. `Accounted` is the equation, and its steps are arithmetic round the plan's cycle (`GapMoves`): a switch is sent exactly when the stage changes (`ControlMoves`, `PlaceAfter`), a
switch obeyed or lost leaves `Pending`. The other half, needed at the synchronization, is `LInv`, which holds while `faults` is 0 and makes the gap 0: before synchronization the cache was filled by a report of some place,
every report on its way is of a place at most two steps after the one before (`Chain`), and the controller itself is at the place of the last
one, or has just left it (`Tracked`), or has obeyed a switch whose own query is still on its way. `DownRight` lists the seven contents
the line to the controller can have. The hard part is `ReadyAt`: from the moment `ready_to_send` is set at an all-red step nothing is sent, so only the all-red step
and the early start after it can be reported, and a cache that shows the early start was filled less than two ticks after it was entered.

**`SignalLocksProofs`** - for any number of ticks and applications: `MutexesExclude` and `StatusIsExclusive`. Each operation is
a sequence of lock steps, and the lemmas show that every operation of the code is *whole* for every mutex but the buffer's: each
unlock closes a lock of the same thread (`Closes`, `Pairs`) and at its end none is held. The buffer's mutex is left out because it is not so: a poll
that finds the buffer not empty at step 4 unlocks it twice. `LocksInv` then relates who holds what to the part of its operation a thread still has before it.

**`SerialSendProofs`** - for any threads and any count of numbers: `NumbersAreDistinct`, `AcknowledgedIsReceived`. `SendInv` ties the number of
every packet, on its way, acknowledged or waited for, to which packet of the program it is (`NumberOf`: one less, modulo the count of numbers),
and says that a thread between the reading and the increment of `seq_num` holds the mutex. Two packets less than a turn apart with one number are then the same
(`SameNumberSamePacket`).

**`CommandBufferProofs`** - for any plan, phases and cycles of the ring, and whatever is commanded: `CommandsStayInPhase` and `FutureIsKept`.
`BufferInv` counts phase instances from the start and says where everything is: the report is at most one instance behind the controller and `cycle_index`
is its cycle modulo the ring (`ReportInv`), the polling thread is at most one instance behind that and `prior` is its instance's slot (`PriorInv`),
a poll works on what is still the status (`PollInv`), a command on its way means an instance that is not over (`CommandInv`), and every stored
command lies at the place round the ring of its own instance, not before the oldest one a poll may still look at and less than a lap
after the report (`PlaceInv`). That a slot's command is the running phase's follows because two instances at one place less than a lap apart are
the same (`SamePlace`, from uniqueness of remainders, which the prover needs spelled out). The lemmas on the buffer (`OfferedSlot`, `Inserted`, `Cleared`, `MarkedSlots`) say once what each write does.
All but types and limits is claimed only while `disturbed` is false; with a report in the middle of a poll it is false in the code (section 7).

**`CommunicationProofs`, outgoing packets** - for any senders, any number of packets and any size of the ring: `PacketsAreKept`. `WriteInv` looks at the packets in
the order they were pushed, those handed to the socket and behind them those that wait (`At`, `Total`): they are exactly what the
senders pushed, each sender's in order (`Kept`). A push adds one at the end (`PushAppends`), the event loop's pop moves the boundary and nothing
else (`PopMoves`). `Registered` says for the UDP handlers that a packet that waits has its event in the epoll set and in `ce->mask` or a sender that is about to
put it there, and that the loop takes the event back only while the ring, whose mutex it holds, is empty. Under the TCP handlers that part is false in the code.

**`CommunicationProofs`, connections** - for any capacity of the queue, any number of connections and any width of handle ids and keys:
`ClientsAreFound`. The code cuts a com id twice, to eight bits in `msg_obj_create` (`msg_queue.c:54`) and to three digits in the dictionary's key (`server.c:208`), and `dispatch_com_id`
only grows; so the property does not say that the sender is found but who is: the open client whose id is the sender's cut to the width, which is the sender while ids fit, if its key is its own.
`ServerInv` says that ids are distinct and none is ahead of the counter (`ClientsRight`), that every entry of the dictionary is an open client's under its key, one per key, and that a client whose key nobody
had before or gave back since (`Free`) has its entry (`DictRight`), and that the ids the dispatcher has noted are those it heard, cut (`MessagesRight`). The entry is
the client's because `dict_add` refuses a key that is there (`AddRight`) and a close deletes whatever has its key: that another's close can take a client's entry away is the reason for `Free`.

Only model-checked: of the safety properties `CompensationRight`, `CacheRight`, `ReceivedAsSent`, `WellFormed`, `AnswersRight`, `UploadsRight`,
`SettingsKept`, `EmergencyComputed`, `PacketsIntact`, `SignsAgree` and `VehiclesKept`; all liveness under fairness and ENABLED, which are out of
the prover's reach, as is induction over data, that is what a recursion or a fold computes for every input (the
compensation algorithm, the checksum, the optimisation, the area tables, reading a configuration). The modules with theorems
reach no RECURSIVE operator, which the prover's SMT backend cannot stand. `UploadsRight`, `SignsAgree` and the half of `CacheRight` that counts cycles
need no such induction and are the next to prove; the other half of `CacheRight` rests on how many reports may be under way.

## 7. Findings and observations

Two disagreements between the code and what it says of itself are kept as violation runs.

* **`vips_torn_read`**, `EarlyClearanceIsReal`, `src/application/PEDESTRIAN/src/PEDESTRIAN_plus.c:161`: The timer handler reads matrix_plus without matrix_mutex_plus while a packet handler that holds it has zeroed the rows and not yet refilled them, so all red ends although a pedestrian was on the crossing in every packet; the stage is documented as extended all red ('Stage 6 全紅&延長全紅', src/application/PEDESTRIAN/src/PEDESTRIAN_plus.c:260) and the extension is decided by the detected pedestrians ('PIC_plus = 0; //行人總數', src/application/PEDESTRIAN/src/PEDESTRIAN_plus.c:60).
* **`signal_locks_deadlock`**, `EveryTickEnds`, `src/src/traffic_signal_status_updating.c:99`: packet_5FC8 and packet_5FC5 call command_buf_clear, which locks mutex_command_buf, while they hold mutex_signal_status; command_buf_polling holds mutex_command_buf when set_control_status and command_buf_send lock mutex_signal_status. When a report of another phase order meets a poll that crosses a phase or sends, both threads wait for ever and no later tick gets past mutex_uart_comple_protect, though the timer is set to poll at its interval ('0.5 msec start and interval is 1sec', src/src/traffic_signal_command_buffer.c:68).

The following were met while modelling. They are in the models as the code has them (or, where said, excluded by a constant), and
the properties are stated so that they hold of the code nevertheless; no run is kept for each.

* `src/application/PEDESTRIAN/src/PEDESTRIAN_plus.c:142`: calculateWaiting sums column 0 of the odd matrix rows, walking pedestrians, and ignores waiting_area_plus, so the early start is skipped while people wait; the comment above it says '計算等待區人數' (count the people in the waiting areas, src/application/PEDESTRIAN/src/PEDESTRIAN_plus.c:135) and waiting_area_plus is '獨立的等待區陣列' (src/application/PEDESTRIAN/src/PEDESTRIAN_plus.c:72).
* `src/application/PEDESTRIAN/src/PEDESTRIAN_plus.c:621`: tsc_switch waits for no acknowledgement and is not repeated, and a synchronized handler never compares CS_plus with the reported step again, so one lost 5F1C leaves them apart for good (the drift that `Aligned` adds up); the comment says '演算法CS對齊號控器時相與步階' (the algorithm's CS is aligned with the controller's phase and step, src/application/PEDESTRIAN/src/PEDESTRIAN_plus.c:563).
* `src/application/PEDESTRIAN/src/PEDESTRIAN_plus.c:574`: The handler synchronizes on the cached phase and step, which may be one report behind a controller that has moved on, and never realigns (`Aligned` then holds with the gap it synchronized with); the comment says '演算法CS對齊號控器時相與步階' (src/application/PEDESTRIAN/src/PEDESTRIAN_plus.c:563).
* `src/src/traffic_compensation.c:294`: Each later cycle takes a fraction of what the previous one left, so 9 seconds over 3 cycles become 4, 3, 2; the comment says '平均的分配到每個周期 最後多的秒數加在第一個周期' (equal shares, the odd seconds in the first cycle, src/src/traffic_compensation.c:292).
* `src/src/traffic_compensation.c:127`: secInDay is negative before the base point (an offset right after midnight, or a time before the first segment), the C remainder is then negative and its opposite, up to a cycle less a second, is compensated; the comment says '小於 cycleTime 的 1/2 就用負補償 大於就用正補償' (less than half a cycle uses negative compensation, more uses positive, src/src/traffic_compensation.c:126).
* `src/src/traffic_compensation.c:192`: Skipping the last phase wraps subphase_ptr to the first without advancing cycle_ptr, so the commands go to phases of the current buffer cycle that have passed; the comment says '則到下一個 cycle' (then go to the next cycle, src/src/traffic_compensation.c:188).
* `src/src/traffic_compensation.c:190`: The test uses StepSec minus the compensation where the command adds it (src/src/traffic_compensation.c:210), so a phase with room is skipped and one without is not; the comment says '步階 1 會調整到小於 MinGreen 或超過 MaxGreen 則到下一個 cycle' (if step 1 would be adjusted below MinGreen or above MaxGreen, go to the next cycle, src/src/traffic_compensation.c:188).
* `src/src/traffic_compensation.c:189`: The room test is repeated for every cycle with that cycle's seconds; when cycle 0 skips the running phase and cycle 1 does not, both write its slot of the next cycle and the second command replaces the first; the comment says '把總補償秒數平均分給各個週期' (the total is shared among the cycles, src/src/traffic_compensation.c:284).
* `src/src/traffic_signal_command_buffer.c:380`: cycle_index moves with the 5FCC report, the slot of the ended phase is cleared by a later poll; in between, a command two cycles ahead of the new cycle_index lands in that very slot (the ring has three cycles) and is wiped unsent. The comment says 'the command buffer object of the previous subphase is cleared' (src/src/traffic_signal_command_buffer.c:371).
* `src/src/traffic_signal_command_buffer.c:415`: The polling thread copies the phase at line 340 and reads cycle_index at 384-415 without the status mutex; a report of a new cycle in between makes it store the old phase with the new cycle as 'prior', so the next crossing clears the wrong slot and the ended phase's command stays for the next lap. The comment says the update on 5FCC avoids that subphaseID and cycle index get out of step ('由收到 5FCC 時更新避免 subphaseID 與 cycle index 不同步', src/src/traffic_signal_command_buffer.c:50).
* `src/src/traffic_signal_command_buffer.c:477`: command_buf_delete_OBU zeroes the running phase's slot, so the next insertion (the RESUME) starts adjusted_time at the pretime green though the controller runs the deleted command's green; the comment says 'adjusted_time is the length of time that the "traffic signal controller" is adjusted to.' (src/src/traffic_signal_command_buffer.c:477).
* `src/src/traffic_signal_command_buffer.c:410`: command_buf_send returns without sending a TSP command during compensation, the polling thread flags it all the same, so it is never sent; the comment beside the flag says '已送出TC箱' (sent to the controller, src/src/traffic_signal_command_buffer.c:410).
* `src/src/traffic_signal_command_buffer.c:101`: The log line says 'no cars in activate area, calls countdown enable' (src/src/traffic_signal_command_buffer.c:101), but nothing is called there; the countdown only comes back with the next command that is sent, and stays off when none is.
* `src/src/traffic_signal_status_updating.c:285`: packet_5F0C stores SubPhaseID without update_cycle_index, so the 5FCC that follows sees no smaller phase and the new cycle is not counted; the comment says the cycle index is updated on 5FCC so that it stays in step with the phase ('由收到 5FCC 時更新避免 subphaseID 與 cycle index 不同步', src/src/traffic_signal_command_buffer.c:50).
* `src/src/traffic_signal_status_updating.c:243`: The table is stored before and whatever its order; 5F48 and 5F45 of one round may report two phase orders, two 5F43 queries go out, and the answer for the wrong one arrives after the right one was noted. The comment says '確保查的是現在的 PhaseOrder' (makes sure that it is the current PhaseOrder, src/src/traffic_signal_status_updating.c:242).
* `src/src/traffic_signal_status_updating.c:199`: PreGreen is computed from whatever Green the last 5FC8 or 5FC5 left; when the 5FC5 of a round is lost it is the compensated green of 5FC8, and when the plan number changes between the two queries it is the green of one plan less the flash of another. The comment says '原始步階1' (the original step 1, src/include/typedefine.h:241).
* `src/src/traffic_signal_status_updating.c:110`: PreTimeCompensated is Green less PedGreenFlash and PedRed, PreGreen is Green less PedGreenFlash only, so with a pedestrian red they always differ; the comment says '所以當PreTimeCompensated ！= pregreen就是代表正在補償' (when they differ, it is compensating, src/src/traffic_compensation.c:63).
* `src/src/traffic_signal_packet_rx.c:237`: src/src/traffic_signal_packet_rx.c:267 announces the test for a wrong length ("//長度錯誤？", length error?), but the test is the trailer's, after info_len bytes, taken unchecked from the header, have been stored in a buffer of MAX_PACKET_LEN 128: one byte lost in the header makes the length 0x0E5F and the loop stores the next packets behind the buffer
* `src/src/traffic_signal_packet_rx.c:28`: src/src/traffic_signal_command_buffer.c:61 says "program begin enforce TC to pretime mode." and waits for the acknowledgement, but ack_seq is 0 before any acknowledgement and the first number is 0: the wait ends at once as acknowledged, and the program goes on although the command was lost
* `src/src/timer_event.c:103`: src/src/traffic_signal_packet_rx.c:336 says a Shan Zhu controller of year 110 or later is given the behaviour of the modified make ("若為山竚且年份大於110年度則改為修改過的山竚型號行為(for 行人倒數秒數指令)"), but the query whose answer tells the year is made once and its flag cleared however the wait ended: one lost packet and the countdown is switched the wrong way round from then on
* `src/src/dispatcher.c:25`: The dispatcher thread calls msg_queue_init itself (src/src/dispatcher.c:25) and nothing orders that before the event loop's first msg_queue_enqueue. A caller that is already in sem_wait(full) on the zeroed semaphore is unknown to the one sem_init writes, and may stay asleep although 1024 places are free; the comment there says 'Wait until there's at least one space' (src/src/msg_queue.c:26).
* `src/src/server.c:527`: conn_write_to_client_TCP sends one packet of the ring and then deletes the write event unconditionally, also when a packet was pushed since; that packet waits until another com_send to the same client. The comment above the call says '都送出去了 所以可以清掉這個com event?' (src/src/server.c:524: all of it was sent), and src/src/com_packet_processing.c:217 that the usleep after com_send '可以註解掉' (can be commented out).
* `src/src/ae_handle.c:47`: com_send pushes with 'while (!buff_ring_push(...)) ;'. When a push fills the ring between the loop's pop and its unconditional deletion of the TCP write event, the event is gone with the ring full: the loop never pops again and every com_send to the cloud spins, although the comment says all was sent '都送出去了 所以可以清掉這個com event?' (src/src/server.c:524).
* `src/src/ae_event.c:108`: ae_create_comm_event and ae_delete_comm_event change the epoll set and ce->mask in two unlocked steps from different threads. A sender that registers between the two steps of a deletion leaves EPOLLOUT in the epoll set without AE_WRITABLE in ce->mask: epoll_wait returns at once, the event is not served, and the loop spins, while the comment says 'Without special flags the function sleeps until some comm event triggered' (src/src/ae_event.c:129).
* `src/src/msg_queue.c:54`: msg_obj_create stores the int com_id in the uint8_t handle_id. dispatch_com_id only grows, so from the 256th connection on cloud_com_id names no client or an earlier one, and cloud_packet_tx ('to send packet to cloud', src/src/com_packet_processing.c:153) sends to nobody or to the wrong client.
* `src/src/server.c:330`: conn_accept_TCP_handler means to 'delete cloud expired event' (src/src/server.c:329) but deletes the id in cloud_expired_id, which on_cloud_disconnected sets only when it runs: the event created at src/src/server.c:493 is not the one deleted, and it fires although the cloud is connected again.
* `src/src/server.c:383`: 'Packages which sent from port number **10001** will be regarded as Heartbeat packages' (src/README.md:165), but the handler enqueues the new client's read buffer, into which the datagram was never copied: the dispatcher does not recognise it as a heartbeat, and OBU_com_id becomes the heartbeat's client.
* `src/src/ae_handle.c:195`: The length is taken from the read buffer however many bytes recv returned, the missing ones being the zeros of memset (src/src/ae_handle.c:165). A packet of 259 bytes whose 4-byte header arrives as 3 bytes has length 256; 256 bytes of it are enqueued as a whole packet and its last three begin the next. With a length below 256 the result is 0 and nothing of the connection is ever complete.
* `src/src/OBU_record_processing.c:352`: The minute before is taken when the RSU's second is more than 30 above the message's, that is when the vehicle's clock is already in the next minute; so the record's time is up to two minutes old, and the collector, which is to test 'whether the last record's time exceeds the allowed expiry time' (檢查當前 OBU 對象的最後一次記錄時間是否超過了允許的過期時間, src/src/OBU_record_processing.c:474-475), frees a vehicle heard a moment ago.
* `src/src/OBU_record_processing.c:89`: OBU_record_ring_push advances last_record_pointer twice and length once. The comment '滿了 要先pop再push' (full: pop, then push; src/src/OBU_record_processing.c:221) does not hold: OBU_record_ring_full misses the place every other round, and length grows beyond OBU_RECORD_RING_CAPACITY.
* `src/src/OBU_record_processing.c:343`: The handler has a case '/* normal vehicle */' (src/src/com_packet_processing.c:445), but V2R_msgf2OBU_record never yields VEHICLE_NORMAL: its default case leaves the zeroed record, and 0 is VEHICLE_AMBULANCE. Every car joins the ambulance list under the empty name.
* `src/src/OBU_record_processing.c:325`: strncat copies the four id bytes only up to a zero byte, although 'record and obu object both have the obu id, so that it is known into which object the record goes' (record和obu object都有obu id, src/src/com_packet_processing.c:439): two vehicles can share one object.
* `src/src/traffic_signal_command_buffer.c:314`: 'since now dispatcher, ea_app_proxy, command_buf_send(), all might read/write callback_list, we add a mutex_lock' (src/src/traffic_signal_command_buffer.c:304), but the lock is commented out in the line below. A node linked in between the call and current = current->next is stepped onto, and the callback just called is called again.
* `src/src/com_packet_processing.c:503`: 'all might read/write callback_list, we add a mutex_lock' (src/src/com_packet_processing.c:498), but the lock is commented out. proxy_handling_app_p is one global for the dispatcher and the timer of the command buffer, and current->next is read again for the call: the forwarding callback sends the event to another application.
* `src/src/application_registration.c:206`: 'Return: num: num of app, <0: insert failed' (src/src/application_registration.c:190-191), but on an empty list app_obj_insert jumps to the return without assigning ret: the first application may be refused although it is in the list, its callbacks missing, or app_num be arbitrary.
* `src/src/application_management_helper.c:99`: 'this case should never happend' (src/src/external_app_proxy_server.c:510): reset_external_app_two_new_sk_fds overwrites the descriptors of the process before without closing them, and a refused notify channel is added to epoll as well. When that client closes, no application is found, the descriptor stays open and epoll reports it in every round.
* `src/src/external_app_proxy_callback_msg_forward.c:157`: 'make sure the "send" action of this forward-function "MATCH" the "recv" action of "RECONSTRUCT_MSG_FUNC_OF(on_OBU_packet_rx)"' (src/src/external_app_proxy_callback_msg_forward.c:145-146): notify_fd is read once and used in several sends without mutex_app_list, while the proxy thread closes the descriptor and accept gives the number to another application.
* `src/src/external_app_proxy_server.c:616`: 'each new client will link 2 times to establish 2 channel' (src/src/external_app_proxy_server.c:602): unlinking at one event of the batch closes a descriptor whose own event is still to come; if the listening event between them accepts a client under that number, the proxy thread blocks in recv on the new channel, and the client waits for the answer to its second one.
* `src/src/external_app_proxy_server.c:489`: 'heartbeat record, updated each time app send req to MW' (src/include/typedefine.h:117), but handle_registered_client_packet updates heartbeat_rc for reports only; a request leaves it as it is.

Met in the modules on applications, signs and configuration (in the models as the code has it):

* SPM. A request that meets a repeater which has just decided to end stays unanswered until the vehicle asks
  again (`SPM_repeater.c:215`); `AskersAnswered` is therefore stated for vehicles that keep asking. The loop to
  `j <= sigRequest_count` also answers what an earlier, longer message left behind (`SPM_repeater.c:121`).
* EVSP. A vehicle that reaches its terminating area while nobody is activated uses the list's head, which is then null
  (`EVSP_subphase_threshold.c:434`), as does a start of the activation between the thread's unlock and `thread_end`;
  an activated vehicle behind the head that has gone is looked up and used unchecked. The two timeout handlers and a terminating packet
  may each go on with an object another has freed. All of these are `Crash` in `EVSP`, after which the supervisor starts
  the program anew. `is_touching` is read before it is written (`EVSP.c:414`): the model takes both values.
* EVSP. `command_buf_resume_control` is called when one phase has no vehicle left, although a vehicle of another phase may still be
  served; `onLine` compares with the smaller bound the wrong way round (`EVSP_touching_area.c:670`).
* Message signs. Numbers pass through one global buffer of three threads (`vms.c:43`), so that a packet, the carousel's file and the
  database may show another's number. The carousel's file is written before the update is judged. `VMS_program_update`
  clears the error bit whoever set it, and reports status 0 also after failed uploads.
  A request of equal or lower priority is dropped and not tried again.
* Configuration. `config.txt` is truncated and rewritten in place (`TSP.c:444`); the key `LOG_CLOUD_PACKET_RXA` is written and never read, and
  `TRAFFIC_COMPENSATION_BASELINE`, `CMS_NUMBER` and `PED_COUNTDOWN_SEND` are not written: `SaveSurvives` names what is lost.
  Percentages lose their fractions; the bit for wrong phase weights is set and cleared within one command.
* TSP. A list timeout takes the bus off the list and leaves its commands, and `activate_amount`, as they are; a bus registered again keeps
  its old target and is counted again. Enabling clears the commands of every application.

## 8. What is not modelled

* Byte formats towards cloud, OBUs and cameras and the J2735 codec calls (generated code);
  floating-point geometry of cameras and positions: `VIPSCameras` takes the projected ratio
  in percent, `OBURecords` leaves the position out.
* `threadpool.c` is vendored and its one creation is commented out. `tsc_EVSP_on` and
  `tsc_EVSP_off` have no caller.
* Failing system calls: `malloc`, `epoll_ctl`, a serial port that goes away. A lost byte may
  also make the receiver take two bytes behind an escape character for an acknowledgement
  number; so `AcksReal` and `RepliesReal` are checked for changed bits and
  not for lost bytes, for which `NothingInvented` is.
* Log and container utilities: sequential, and no property depends on them.
* The first version of VIPS and the simulator's test programs, which nothing registers.
* Of EVSP: floating-point distances (which area a packet touches is an input), the cooling list's clock, the contents of its packets.
  Of TSP: the plan reports with their timer and the countdown (commands 0, 1, 2 and 7), which only send what the status
  cache holds, and the restart command. Of the signs: the packets' sequence numbers, image transfer, cryptography and the old signs' socket (CMS).
* TIB, WA, CPS, the broadcast list and the effects of the requests of external applications
  (`external_app_proxy_api_wrapper.c`, whose calls end in operations modelled elsewhere): see the plan.

## 9. Plan

Done, in this order, the controlling path first: VIPS+, its cameras and its link;
compensation and command buffer; status cache and locks; serial line; message queue and
communication layer; OBU records; registry and proxy; proofs of the stage machine and of
the queue; error bits; the repeater of SPM; EVSP with its optimisation and areas; TSP; message signs and
uploads; configuration; proofs of the error bits and of EVSP, of the camera matrix and what is read of it, of the link to the signal controller, of the locks, of the numbers on the serial line, of the command buffer,
of a client's outgoing packets, of the registry, the proxy, TSP and the connections.

Further modules would join the side-by-side runs: an instance in an existing MC module and,
where it says more than the run's properties do, a property.

1. `WarningAgent`: leading vehicles of four directions, warning levels, the copy and clearing
   by the timer.
2. `EVSP` and `TSP` composed with `CommandBuffer` and its priorities.
3. `TIBQueue`, `BroadcastList`: queues of messages by priority.
4. `ProxyRequests`: the return values and locks of the requests of external applications.

Next theorems: `OneRepeater` of `SPMRepeater`; `CycleCounted` of `SignalStatus`; `UploadsRight` and `SignsAgree` of the signs.
