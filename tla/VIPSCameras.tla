---------------------------- MODULE VIPSCameras ----------------------------
(***************************************************************************)
(* The VIPS+ controller fed by its cameras: the shared occupancy matrix,   *)
(* the packet handler that refills it under matrix_mutex_plus, and the     *)
(* timer handler, which takes the mutex for initialisation and for the     *)
(* camera watchdog but then reads the matrix without it.                   *)
(*                                                                         *)
(* A timer tick is several steps: Watchdog (its critical sections), one    *)
(* ReadRow per matrix row (an unprotected read may fall between any two    *)
(* stores of a refill), and Decide, the VIPSPlus tick on what was read.    *)
(* The handler's own variables are touched by nobody else, so deciding in  *)
(* one step after the reads loses no behaviour.                            *)
(***************************************************************************)
EXTENDS VIPSPlus, Sequences, FiniteSets

CONSTANTS
    Cameras,    \* connected cameras, a subset of 3..6
    Packets,    \* pedestrian lists a camera may send
    MaxCount    \* most detections one packet lists

\* One detection: waiting flag, walking direction, and the projection of its
\* position on the crossing, in percent of the crossing's length.
Detections == [waiting : {0, 1}, direction : {0, 1}, ratio : Int]

\* Four cameras, each counted once, are what a reading may add up to.
ASSUME CamerasAssumption ==
    /\ Cameras \subseteq 3..6
    /\ MaxCount \in Nat
    /\ \A packet \in Packets : packet \in Seq(Detections) /\ Len(packet) <= MaxCount
    /\ 0..(4 * MaxCount) \subseteq Counts

VARIABLES
    matrix,         \* matrix_plus[row][col]
    waiting_area,   \* waiting_area_plus, by camera
    age,            \* seconds since last_update_time_plus, by camera
    rx,             \* the packet being installed by the holder of the mutex
    handler,        \* where the timer handler is
    seen,           \* what it has read so far
    last,           \* history: the last packet installed from each camera
    cleared,        \* history: the road was empty at some instant of this tick
    torn            \* history: cameras whose rows were rewritten in this tick

camVars == <<matrix, waiting_area, age, rx, handler, seen, last, cleared, torn>>
allVars == <<vars, camVars>>

cols == 11
Rows == 0..7
Cols == 0..(cols - 1)

\* A camera is given up after this many seconds without a packet.
StaleAfter == 6

Idle == [camera |-> 0, toZero |-> <<>>, pending |-> <<>>]

CameraRow(camera) == (camera - 3) * 2
CameraRows(camera) == {CameraRow(camera), CameraRow(camera) + 1}

-----------------------------------------------------------------------------
(* The cell of the matrix a detection belongs to.                           *)

Ceiling(a, b) == (a + b - 1) \div b

\* ceil(cols * projection_ratio) - 1, mirrored for direction 1.
Location(p) ==
    LET location == Ceiling(cols * p.ratio, 100) - 1 IN
    IF p.direction = 1 /\ cols - location > 0 THEN cols - location ELSE location

RowOf(camera, p) == CameraRow(camera) + (IF p.direction = 1 THEN 0 ELSE 1)

OnCrossing(p) ==
    /\ p.waiting = 0
    /\ p.ratio > 0 /\ p.ratio <= 100
    /\ Location(p) \in Cols

\* The entries of a packet that belong in one cell of a camera's rows.
Marks(camera, packet, r, c) ==
    {i \in 1..Len(packet) : /\ OnCrossing(packet[i])
                            /\ RowOf(camera, packet[i]) = r
                            /\ Location(packet[i]) = c}

\* Somebody is on the crossing in what the cameras last said.
TrulyOnRoad(packets) ==
    \E camera \in Cameras : \E i \in 1..Len(packets[camera]) :
        OnCrossing(packets[camera][i]) /\ Location(packets[camera][i]) # 0

ZeroRow == [c \in Cols |-> 0]
Nothing == [near |-> FALSE, onRoad |-> FALSE, waiting |-> 0]

-----------------------------------------------------------------------------
CameraInit ==
    /\ matrix = [r \in Rows |-> ZeroRow]
    /\ waiting_area = [camera \in Cameras |-> 0]
    /\ age = [camera \in Cameras |-> StaleAfter]
    /\ rx = Idle
    /\ handler = <<"idle">>
    /\ seen = Nothing
    /\ last = [camera \in Cameras |-> <<>>]
    /\ cleared = TRUE
    /\ torn = {}

\* Keeps the history variable through a step that installs packets'.
NoteClear(packets) == cleared' = (cleared \/ ~TrulyOnRoad(packets))

\* PEDESTRIAN_plus_on_pedestrian_packet_rx: take the mutex, zero the camera's
\* first row, the waiting area and the age.
BeginRx(camera, packet) ==
    /\ rx = Idle
    /\ rx' = [camera |-> camera, toZero |-> <<CameraRow(camera) + 1>>,
              pending |-> packet]
    /\ matrix' = [matrix EXCEPT ![CameraRow(camera)] = ZeroRow]
    /\ waiting_area' = [waiting_area EXCEPT ![camera] = 0]
    /\ age' = [age EXCEPT ![camera] = 0]
    /\ last' = [last EXCEPT ![camera] = packet]
    /\ NoteClear(last')
    /\ torn' = torn \cup {camera}
    /\ UNCHANGED <<vars, handler, seen>>

ZeroRx ==
    /\ rx.toZero # <<>>
    /\ matrix' = [matrix EXCEPT ![Head(rx.toZero)] = ZeroRow]
    /\ rx' = [rx EXCEPT !.toZero = Tail(@)]
    /\ UNCHANGED <<vars, waiting_area, age, handler, seen, last, cleared, torn>>

\* One turn of the loop over the pedestrian list.
InstallRx ==
    /\ rx.toZero = <<>> /\ rx.pending # <<>>
    /\ LET p == Head(rx.pending) IN
       /\ matrix' = IF OnCrossing(p)
                    THEN [matrix EXCEPT ![RowOf(rx.camera, p)][Location(p)] = @ + 1]
                    ELSE matrix
       /\ waiting_area' = [waiting_area EXCEPT
                              ![rx.camera] = IF p.waiting = 0 THEN @ ELSE @ + 1]
    /\ rx' = [rx EXCEPT !.pending = Tail(@)]
    /\ UNCHANGED <<vars, age, handler, seen, last, cleared, torn>>

\* Release the mutex.
EndRx ==
    /\ rx # Idle /\ rx.toZero = <<>> /\ rx.pending = <<>>
    /\ rx' = Idle
    /\ UNCHANGED <<vars, matrix, waiting_area, age, handler, seen, last, cleared, torn>>

\* The timer fires; a second has passed for every camera.  The first tick
\* clears the matrix, every tick clears the rows of cameras gone silent.
Silent(camera) == age'[camera] >= StaleAfter

\* Faulty variant: the rows are cleared without the mutex.
WatchdogUnlocked ==
    /\ handler = <<"idle">>
    /\ age' = [camera \in Cameras |->
                 IF age[camera] < StaleAfter THEN age[camera] + 1 ELSE age[camera]]
    /\ matrix' = [r \in Rows |->
          IF \E camera \in Cameras : Silent(camera) /\ r \in CameraRows(camera)
          THEN ZeroRow ELSE matrix[r]]
    /\ last' = [camera \in Cameras |-> IF Silent(camera) THEN <<>> ELSE last[camera]]
    /\ handler' = <<"read", 0>>
    /\ seen' = Nothing
    /\ cleared' = ~TrulyOnRoad(last')
    /\ torn' = {}
    /\ UNCHANGED <<vars, waiting_area, rx>>

Watchdog ==
    /\ handler = <<"idle">>
    /\ rx = Idle
    /\ age' = [camera \in Cameras |->
                 IF age[camera] < StaleAfter THEN age[camera] + 1 ELSE age[camera]]
    /\ LET gone == {camera \in Cameras : Silent(camera) \/ ~time_flag} IN
       /\ matrix' = [r \in Rows |->
             IF \E camera \in gone : r \in CameraRows(camera) THEN ZeroRow
             ELSE matrix[r]]
       /\ waiting_area' = [camera \in Cameras |->
             IF camera \in gone THEN 0 ELSE waiting_area[camera]]
       /\ last' = [camera \in Cameras |->
             IF camera \in gone THEN <<>> ELSE last[camera]]
    /\ handler' = <<"read", 0>>
    /\ seen' = Nothing
    /\ cleared' = ~TrulyOnRoad(last')
    /\ torn' = {}
    /\ UNCHANGED <<vars, rx>>

\* Faulty variant: the search before the ratio starts one column early.
ReadRowEarly ==
    /\ handler[1] = "read"
    /\ LET r == handler[2] IN
       /\ seen' = [near    |-> seen.near \/ \E c \in 0..3 : matrix[r][c] > 0,
                   onRoad  |-> seen.onRoad \/ \E c \in 1..10 : matrix[r][c] > 0,
                   waiting |-> seen.waiting + (IF r % 2 = 1 THEN matrix[r][0] ELSE 0)]
       /\ handler' = IF r + 1 \in Rows THEN <<"read", r + 1>> ELSE <<"decide">>
    /\ UNCHANGED <<vars, matrix, waiting_area, age, rx, last, cleared, torn>>

\* calculateMaxPed_plus, calculateWaiting and is_anyone_before_ratio_plus on
\* one row: no mutex is held.  They are separate passes over the matrix, but a
\* tick acts on the result of one pass only (stage 1 on the waiting count,
\* stages 2 and 3 on the columns, stage 6 on PIC_plus), so one pass is enough.
ReadRow ==
    /\ handler[1] = "read"
    /\ LET r == handler[2] IN
       /\ seen' = [near    |-> seen.near \/ \E c \in 1..3 : matrix[r][c] > 0,
                   onRoad  |-> seen.onRoad \/ \E c \in 1..10 : matrix[r][c] > 0,
                   waiting |-> seen.waiting + (IF r % 2 = 1 THEN matrix[r][0] ELSE 0)]
       /\ handler' = IF r + 1 \in Rows THEN <<"read", r + 1>> ELSE <<"decide">>
    /\ UNCHANGED <<vars, matrix, waiting_area, age, rx, last, cleared, torn>>

\* The rest of the handler, on the phase and step of the signal controller.
Decide(phase, step) ==
    /\ handler = <<"decide">>
    /\ \/ FirstTick(phase, step)
       \/ AlignTick(phase, step)
       \/ SynchronizeTick(phase, step, seen)
       \/ ControlTick(seen)
    /\ handler' = <<"idle">>
    /\ UNCHANGED <<matrix, waiting_area, age, rx, seen, last, cleared, torn>>

CInit == Init /\ CameraInit

HandlerStep ==
    \/ Watchdog
    \/ ReadRow
    \/ \E phase \in Phases, step \in Steps : Decide(phase, step)

RxStep == ZeroRx \/ InstallRx \/ EndRx

CNext ==
    \/ \E camera \in Cameras, packet \in Packets : BeginRx(camera, packet)
    \/ RxStep
    \/ HandlerStep

\* A packet handler that holds the mutex runs on, and so does a timer handler
\* that is past it.
CSpec == /\ CInit /\ [][CNext]_allVars
         /\ WF_allVars(RxStep)
         /\ WF_allVars(HandlerStep)

-----------------------------------------------------------------------------
(* Properties.                                                              *)

\* Every variable of the camera part keeps its type, and no cell or waiting
\* area counts more people than one packet lists: packets never add up.
CameraTypeOK ==
    /\ matrix \in [Rows -> [Cols -> 0..MaxCount]]
    /\ waiting_area \in [Cameras -> 0..MaxCount]
    /\ age \in [Cameras -> 0..StaleAfter]
    /\ rx.camera \in Cameras \cup {0}
    /\ handler \in {<<"idle">>, <<"decide">>} \cup {<<"read", r>> : r \in Rows}
    /\ seen \in [near : BOOLEAN, onRoad : BOOLEAN, waiting : Nat]
    /\ last \in [Cameras -> Packets \cup {<<>>}]
    /\ cleared \in BOOLEAN
    /\ torn \subseteq Cameras

\* The mutex keeps refills whole: whenever no packet is being installed, the
\* rows of each camera are what its last packet says, all of it and once, or
\* zero when the camera has gone silent.
MatrixShowsLastPackets ==
    /\ CameraTypeOK
    /\ rx = Idle =>
          \A camera \in Cameras, c \in Cols : \A r \in CameraRows(camera) :
              matrix[r][c] = Cardinality(Marks(camera, last[camera], r, c))

\* What a camera's last packet says of the crossing: somebody is in one of the
\* columns cs; how many wait to enter it.
ShowsIn(camera, cs) ==
    \E r \in CameraRows(camera), c \in cs : Marks(camera, last[camera], r, c) # {}
ShownWaiting(camera) ==
    Cardinality(Marks(camera, last[camera], CameraRow(camera) + 1, 0))

\* The columns that a tick's reading looks at.
NearCols == 1..3
RoadCols == 1..10

\* The waiting people in the last packets of the given cameras.
WaitingAt(camera, which) == IF camera \in which THEN ShownWaiting(camera) ELSE 0
AllWaiting(which) == WaitingAt(3, which) + WaitingAt(4, which)
                     + WaitingAt(5, which) + WaitingAt(6, which)

\* The reading without the mutex errs only about cameras whose packet arrived
\* while it went on: whatever the others last reported is in what the tick acts
\* on, and it sees nobody whom no such report and no torn row accounts for.
OnlyTornRowsMislead ==
    handler = <<"decide">> =>
        /\ \A camera \in Cameras \ torn :
              /\ ShowsIn(camera, NearCols) => seen.near
              /\ ShowsIn(camera, RoadCols) => seen.onRoad
        /\ seen.near => \E camera \in Cameras :
                           camera \in torn \/ ShowsIn(camera, NearCols)
        /\ seen.onRoad => \E camera \in Cameras :
                             camera \in torn \/ ShowsIn(camera, RoadCols)
        /\ seen.waiting >= AllWaiting(Cameras \ torn)
        /\ torn = {} => seen.waiting = AllWaiting(Cameras)

\* What the design says of all red: it is extended while pedestrians are
\* detected.  All red ends early only if at some instant of the tick the
\* cameras' last packets showed an empty crossing.
EarlyClearanceIsReal ==
    [][ (/\ is_synchronized
         /\ direction_flag' # direction_flag
         /\ 100 * Elapsed(6) < LR + ER) => cleared ]_allVars

=============================================================================
