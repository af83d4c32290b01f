----------------------------- MODULE MCServices ------------------------------
(***************************************************************************)
(* What the applications are given by the platform, in models side by      *)
(* side: the message queue of the dispatcher, answers to priority requests,*)
(* the message signs (requests for them, their carousel, uploads to them), *)
(* the settings and their file, and what is computed for emergency         *)
(* vehicles: areas, greens and sign programs.                              *)
(***************************************************************************)
EXTENDS MsgQueue, Integers, TLC

CONSTANTS m1, m2, m3
MCMessages == {m1, m2, m3}

VARIABLES
    model,      \* which of them this behaviour is of
    list, thread, repeater, asking, round, treated,
    app_id, request_priority, askers, evsp_prog, writing, vms_config, sign_file,
    filing, garbled, program_ids, changes, signal, loop, shown,
    pc, locked, job, todo, cnt, database, has, vms_error, readCnt, heard, mute,
    ackers, updates,
    config, file, saving, running, weight_err, asked, kept, crashes,
    areas, ask

\* Two vehicles with up to two requests; two of them fill a status message.
Answers == INSTANCE SPMRepeater WITH
    disp <- asking, Vehicles <- {"a", "b"}, Types <- {"update", "cancel"},
    MaxRequests <- 2, StatusMax <- 2, Expiry <- 1,
    Treatments <- {"unknown", "granted"}

\* Three applications want the signs while the plan changes; the carousel stays.
Requests == INSTANCE MessageSigns WITH
    asked <- askers, file <- sign_file, updates <- changes,
    Priority <- [EVSP |-> 1, MMP |-> 2, TSP |-> 3], Directions <- 2, Active <- {2},
    SignalCount <- 2, Plans <- {<<{1}, {2}>>, <<{1, 2}, {2}>>}, Programs <- {0, 2},
    EvspFaces <- {<<3, 4>>}, MaxUpdates <- 0

\* The cloud changes the carousel while packets are built.
Carousels == INSTANCE MessageSigns WITH
    asked <- askers, file <- sign_file, updates <- changes,
    Priority <- [EVSP |-> 1], Directions <- 2, Active <- {2},
    SignalCount <- 2, Plans <- {<<{1}, {2}>>}, Programs <- {0, 2},
    EvspFaces <- {}, MaxUpdates <- 2

\* Program 3 has no line in the database, 18 is for both signs.
Uploads == INSTANCE SignUpload WITH
    Signs <- <<"n2", "n1">>, OwnSign <- 2 :> "n2" @@ 3 :> "n1",
    CommonPrograms <- {18}, Listed <- {2, 18}, Names <- {"n", "m"},
    Threshold <- 2, CheckEvery <- 2, MaxUpdates <- 2
\* Lines of a settings file, and files an operator may have left: legal ones,
\* ones that are refused half-way, an empty one.
Word(k, w) == [key |-> k, ok |-> TRUE, word |-> w, nums |-> <<>>]
Nums(k, ns) == [key |-> k, ok |-> TRUE, word |-> "", nums |-> ns]
SettingFiles ==
    {<<Word("RSU_NAME", "S123401"), Nums("RSU_id", <<77>>),
       Word("LOG_CLOUD_PACKET_RX", "no"), Word("LOG_OBU_LIST", "no"),
       Nums("CMS_NUMBER", <<2>>), Nums("PHASE_WEIGHT", <<335, 665>>),
       Nums("TRAFFIC_COMPENSATION_CYCLE_NUMBER", <<3>>)>>,
     <<Nums("RSU_LAT", <<24>>), Word("SIGNAL_STATUS_REPORT_ACTIVE", "yes"),
       Nums("SIGNAL_ADJUST_UPPER_BOUND_PERCENTAGE", <<125>>),
       Nums("RSU_LON", <<-180>>), Nums("TRAFFIC_COMPENSATION_METHOD", <<3>>)>>,
     <<Nums("TRAFFIC_COMPENSATION_METHOD", <<259>>),
       Word("TRAFFIC_COMPENSATION_BASELINE", "DAILY_SEGMENT_BASELINE"),
       Word("PED_COUNTDOWN_SEND", "no"), Nums("PHASE_WEIGHT", <<50, -10>>),
       Nums("RSU_region", <<5>>)>>,
     <<Nums("RSU_region", <<702>>), Word("SIGNAL_CONTROLLER_MANUFACTURER", "cheng_long"),
       [key |-> "RSU_id", ok |-> FALSE, word |-> "", nums |-> <<>>]>>,
     <<>>}

Settings == INSTANCE Configuration WITH
    Files <- SettingFiles, IdOfName <- [S428901 |-> 4289, S123401 |-> 1234],
    LongNames <- {"S42890112345"}, Strategies <- {1, 2, 4}, CycleNumbers <- {0, 1, 2},
    WeightLists <- {<<60, 40>>, <<60, 60>>}, MaxCrashes <- 1

-----------------------------------------------------------------------------
\* Tables of areas: rows that are repeated, refused or refer to nothing, and
\* sections in two orders.
Term(ok, id) == [ok |-> ok, id |-> id]
TermRows == {<<Term(TRUE, 7)>>, <<Term(TRUE, 7), Term(TRUE, 9)>>,
             <<Term(TRUE, 9), Term(TRUE, 9)>>, <<Term(FALSE, 7)>>}
Touch(id, terms) == [ok |-> TRUE, id |-> id, terms |-> terms]
TouchRows == {<< >>} \union {<<Touch(4, t)>> : t \in {<< >>, <<9, 7>>, <<8>>}}
             \union {<<Touch(4, <<7>>), Touch(i, <<9>>)>> : i \in {4, 5}}
PlanRows == {<<[ok |-> TRUE, phase |-> 1, areas |-> a]>> : a \in {<<4>>, <<5, 4>>, <<6>>}}
PlanSection(ids, rows) == [kind |-> "plan", ids |-> ids, rows |-> rows]
Tables ==
    {<<[kind |-> "terminate", rows |-> t], [kind |-> "touching", rows |-> a],
       PlanSection(<<1, 2>>, p)>> : t \in TermRows, a \in TouchRows, p \in PlanRows}
    \union
    {<<PlanSection(<<1>>, p), [kind |-> "touching", rows |-> a], PlanSection(q, p),
       [kind |-> "terminate", rows |-> t], [kind |-> "terminate", rows |-> u]>> :
        t \in TermRows, u \in TermRows, a \in TouchRows, p \in PlanRows,
        q \in {<<1>>, <<3, 2>>}}

\* Rectangles by their corners, with a direction and the areas that end them.
R1 == << <<0, 4>>, <<2, 2>> >>
R2 == << <<1, 3>>, <<4, 0>> >>
Area(r, d, t) == [rect |-> r, dir |-> d, terms |-> t]
AreaLists == {<< >>, <<Area(R1, 0, <<R2>>), Area(R2, 0, <<R1>>)>>}
             \union {<<Area(r, d, t)>> : r \in {R1, R2}, d \in {0, 6}, t \in {<<R1>>, <<R2, R1>>}}
RectFile(plan, s1, s2) ==
    [plan |-> plan, subs |-> <<[phase |-> 1, areas |-> s1], [phase |-> 2, areas |-> s2]>>]

Areas == INSTANCE TouchingArea WITH
    job <- areas, Files <- Tables,
    Rects <- {<<RectFile(1, a, b), RectFile(p, b, <<Area(R1, 0, <<R2>>)>>)>> :
                  a \in AreaLists, b \in AreaLists, p \in {1, 2}},
    Polygons <- {<< <<0, 0>>, <<8, 0>>, <<8, 6>>, <<0, 6>> >>,
                 << <<0, 6>>, <<8, 6>>, <<8, 0>>, <<0, 0>> >>,
                 << <<0, 0>>, <<8, 2>>, <<2, 8>> >>,
                 << <<4, 0>>, <<8, 4>>, <<4, 8>>, <<0, 4>> >>},
    Points <- (-1..9) \X (-1..9)

\* Plans of two and three phases, shortened and extended.
Phase(green, pre) ==
    [Green |-> green, PreGreen |-> pre, MinGreen |-> 5, PedGreenFlash |-> 2,
     PedRed |-> 0, Yellow |-> 1, AllRed |-> 1]
SignalPlans ==
    {<<Phase(a, a), Phase(b, 8)>> : a \in {8, 14}, b \in {8, 10}}
    \union {<<Phase(a, a), Phase(b, 9), Phase(c, 6)>> :
               a \in {8, 14}, b \in {8, 11}, c \in {6, 14}}

Greens == INSTANCE EVSPOptimization WITH
    Statuses <- {[plan |-> p, SubPhaseID |-> c, StepID |-> st, StepSec |-> sec] :
                     p \in SignalPlans, c \in {1, 2}, st \in {1, 3}, sec \in {1, 9}},
    Arrivals <- {-5, 0, 7, 12, 20, 33, 46, 70, 150},
    Groups <- {<< <<t, a>>, <<t, b>> >> : t \in {1, 2}, a \in {0, 20, 46}, b \in {7, 33, 150}}

ASSUME MCServicesAssumption ==
    /\ Answers!SPMRepeaterAssumption
    /\ Requests!MessageSignsAssumption /\ Carousels!MessageSignsAssumption
    /\ Uploads!SignUploadAssumption /\ Settings!ConfigurationAssumption
    /\ Areas!TouchingAreaAssumption /\ Greens!EVSPOptimizationAssumption

-----------------------------------------------------------------------------
answerVars == <<list, thread, repeater, asking, round, treated>>
signVars == <<app_id, request_priority, askers, evsp_prog, writing, vms_config,
              sign_file, filing, garbled, program_ids, changes, signal, loop,
              shown>>
uploadVars == <<pc, locked, job, todo, cnt, database, has, vms_error, readCnt,
                heard, mute, ackers, updates>>
settingVars == <<config, file, saving, running, weight_err, asked, kept, crashes>>
evspVars == <<areas, ask>>
mcVars == <<vars, answerVars, signVars, uploadVars, settingVars,
            evspVars, model>>

\* The variables of a model that does not run.
NoAnswers ==
    /\ list = 0 /\ thread = 0 /\ repeater = 0 /\ asking = 0 /\ round = 0
    /\ treated = 0
NoSigns ==
    /\ app_id = 0 /\ request_priority = 0 /\ askers = 0 /\ evsp_prog = 0
    /\ writing = 0 /\ vms_config = 0 /\ sign_file = 0 /\ filing = 0
    /\ garbled = 0 /\ program_ids = 0 /\ changes = 0 /\ signal = 0
    /\ loop = 0 /\ shown = 0
NoUploads ==
    /\ pc = 0 /\ locked = 0 /\ job = 0 /\ todo = 0 /\ cnt = 0 /\ database = 0
    /\ has = 0 /\ vms_error = 0 /\ readCnt = 0 /\ heard = 0 /\ mute = 0
    /\ ackers = 0 /\ updates = 0
NoSettings ==
    /\ config = 0 /\ file = 0 /\ saving = 0 /\ running = 0 /\ weight_err = 0
    /\ asked = 0 /\ kept = 0 /\ crashes = 0

MCInit ==
    /\ model \in {"queue", "answers", "requests", "carousel", "uploads",
                  "settings", "areas", "greens"}
    /\ Init
    /\ IF model = "answers" THEN Answers!Init ELSE NoAnswers
    /\ CASE model = "requests" -> Requests!Init
         [] model = "carousel" -> Carousels!Init
         [] OTHER -> NoSigns
    /\ IF model = "uploads" THEN Uploads!Init ELSE NoUploads
    /\ IF model = "settings" THEN Settings!Init ELSE NoSettings
    /\ IF model = "areas" THEN Areas!Init ELSE areas = 0
    /\ IF model = "greens" THEN Greens!Init ELSE ask = 0

\* A behaviour of one model leaves the others alone.
MCNext ==
    \/ /\ model = "queue" /\ Next
       /\ UNCHANGED <<answerVars, signVars, uploadVars, settingVars, evspVars, model>>
    \/ /\ model = "answers" /\ Answers!Next
       /\ UNCHANGED <<vars, signVars, uploadVars, settingVars, evspVars, model>>
    \/ /\ model = "requests" /\ Requests!Next
       /\ UNCHANGED <<vars, answerVars, uploadVars, settingVars, evspVars, model>>
    \/ /\ model = "carousel" /\ Carousels!Next
       /\ UNCHANGED <<vars, answerVars, uploadVars, settingVars, evspVars, model>>
    \/ /\ model = "uploads" /\ Uploads!Next
       /\ UNCHANGED <<vars, answerVars, signVars, settingVars, evspVars, model>>
    \/ /\ model = "settings" /\ Settings!Next
       /\ UNCHANGED <<vars, answerVars, signVars, uploadVars, evspVars, model>>
    \/ /\ model = "areas" /\ Areas!Next /\ UNCHANGED ask
       /\ UNCHANGED <<vars, answerVars, signVars, uploadVars, settingVars, model>>
    \/ /\ model = "greens" /\ Greens!Next /\ UNCHANGED areas
       /\ UNCHANGED <<vars, answerVars, signVars, uploadVars, settingVars, model>>

MCSpec == MCInit /\ [][MCNext]_mcVars

\* One thread answers every listed vehicle, in messages that fit, and grants
\* one request at most (AnswersRight of SPMRepeater).
AnswersRight == model = "answers" => Answers!AnswersRight

\* Holder of the signs, memory of the carousel, its file and the packets agree
\* (SignsAgree of MessageSigns).
SignsAgree ==
    /\ [](model = "requests" =>
              Requests!TypeOK /\ Requests!StrongestServed /\ Requests!FileLagsByOne)
    /\ [](model = "carousel" =>
              Carousels!TypeOK /\ Carousels!StrongestServed /\ Carousels!FileLagsByOne)
    /\ [][model = "requests" => Requests!CarouselTellsSignal]_mcVars
    /\ [][model = "carousel" => Carousels!CarouselTellsSignal]_mcVars

\* Uploads to the signs one at a time, every sign accounted for, no error bit
\* without a cause (UploadsRight of SignUpload).
UploadsRight == model = "uploads" => Uploads!UploadsRight

\* Settings survive a restart, and a file that was cut off is safe to read
\* (SettingsKept of Configuration).
SettingsKept == model = "settings" => Settings!SettingsKept

\* Areas are found where they are drawn, and the green asked for reaches the
\* vehicle's phase in time within the bounds (AreasFound of TouchingArea,
\* GreenForVehicles of EVSPOptimization).
EmergencyComputed ==
    /\ model = "areas" => Areas!AreasFound
    /\ model = "greens" => Greens!GreenForVehicles
=============================================================================
