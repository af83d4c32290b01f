---------------------------- MODULE Configuration ----------------------------
(***************************************************************************)
(* The unit's settings (src/src/config.c): read from config.txt over the   *)
(* defaults when the program starts, and written back, whole, when the     *)
(* cloud changes the compensation strategy (command 8 of TSP, command 1 of *)
(* MMP).  The file is truncated and rewritten in place, so a program that  *)
(* ends in between leaves a prefix of it.                                  *)
(*                                                                         *)
(* A line of the file is its key with a word, a number or a list of        *)
(* numbers; ok is FALSE when what follows the key has not its format.      *)
(* Percentages and weights are in tenths.                                  *)
(***************************************************************************)
EXTENDS Integers, Sequences, SequencesExt

CONSTANTS
    Files,       \* the files an operator may have left
    IdOfName,    \* name of the unit -> the number in it
    LongNames,   \* names of more than ten characters
    Strategies, CycleNumbers, WeightLists,   \* what the cloud may send
    MaxCrashes   \* bound: ends of the program

Flags == <<"SIGNAL_STATUS_REPORT_ACTIVE", "SIGNAL_ADJUST_UPPER_BOUND_ACTVE",
           "SIGNAL_ADJUST_LOWER_BOUND_ACTVE">>
Logs == <<"LOG_MIDDLEWARE_TIMER_EVENT", "LOG_APPLICATION_REGISTER_EVENT",
          "LOG_COMMAND_BUFFER", "LOG_SIGNAL_PACKET_RX", "LOG_SIGNAL_PACKET_TX",
          "LOG_SIGNAL_PACKET_INFO", "LOG_CLOUD_PACKET_RX",
          "LOG_CLOUD_PACKET_TX", "LOG_OBU_PACKET_RX", "LOG_OBU_PACKET_TX",
          "LOG_OBU_LIST">>
FlagKeys == ToSet(Flags) \union ToSet(Logs) \union {"PED_COUNTDOWN_SEND"}

Word(k, w) == [key |-> k, ok |-> TRUE, word |-> w, nums |-> <<>>]
Num(k, n) == [key |-> k, ok |-> TRUE, word |-> "", nums |-> <<n>>]
Nums(k, ns) == [key |-> k, ok |-> TRUE, word |-> "", nums |-> ns]
Unreadable(k) == [key |-> k, ok |-> FALSE, word |-> "", nums |-> <<>>]

ConfigurationAssumption ==
    /\ Files \subseteq Seq([key : STRING, ok : BOOLEAN, word : STRING,
                            nums : Seq(Int)])
    /\ \A w \in WeightLists : w \in Seq(0..255)
    /\ Strategies \subseteq 0..255 /\ CycleNumbers \subseteq 0..255

VARIABLES
    config,     \* the settings in memory
    file,       \* config.txt
    saving,     \* the lines still to be written, while it is written
    running,    \* does the program run?
    weight_err, \* CLOUD_PACKET_CHANGE_STRATEGY_2_PHASE_WEIGHT_ERR
    asked,      \* history: the cloud's last change, <<>> before any
    kept,       \* history: the settings of the last complete save, if no
                \* later one was cut off
    crashes

vars == <<config, file, saving, running, weight_err, asked, kept, crashes>>

Default ==
    [name |-> "S428901", id |-> 4289, region |-> 701, lat |-> 23, lon |-> 120,
     manufacturer |-> "shan_zhu",
     on |-> FlagKeys \ {"SIGNAL_STATUS_REPORT_ACTIVE"},
     upper |-> 600, lower |-> 600, method |-> 0, baseline |-> "NOT_SET",
     cycle |-> 1, weight |-> <<0, 0>>, cms |-> 0]

-----------------------------------------------------------------------------
(* config_init, one operator per kind of line.  Each gives the settings    *)
(* after the line and whether reading goes on.                             *)
Accept(c) == [config |-> c, ok |-> TRUE]
Refuse(c) == [config |-> c, ok |-> FALSE]

Uint8(n) == n % 256     \* sscanf with %hhd into a uint8_t

ReadName(c, l) ==
    IF l.ok /\ l.word \notin LongNames
    THEN Accept([c EXCEPT !.name = l.word, !.id = IdOfName[l.word]])
    ELSE Refuse(c)

ReadNumber(c, l) ==
    IF l.ok /\ l.nums[1] \in 0..65535
    THEN Accept(IF l.key = "RSU_id" THEN [c EXCEPT !.id = l.nums[1]]
                ELSE [c EXCEPT !.region = l.nums[1]])
    ELSE Refuse(c)

ReadPosition(c, l) ==
    CASE l.key = "RSU_LAT" /\ l.ok /\ l.nums[1] \in -90..90 ->
             Accept([c EXCEPT !.lat = l.nums[1]])
      [] l.key = "RSU_LON" /\ l.ok /\ l.nums[1] \in -179..180 ->
             Accept([c EXCEPT !.lon = l.nums[1]])
      [] OTHER -> Refuse(c)

ReadManufacturer(c, l) ==
    IF l.ok /\ l.word \in {"cheng_long", "shan_zhu", "shan_zhu_m"}
    THEN Accept([c EXCEPT !.manufacturer = l.word]) ELSE Refuse(c)

ReadBaseline(c, l) ==
    IF l.ok /\ l.word \in {"ZERO_HOUR_ZERO_MIN_BASELINE",
                           "DAILY_SEGMENT_BASELINE"}
    THEN Accept([c EXCEPT !.baseline = l.word]) ELSE Refuse(c)

ReadPercentage(c, l) ==
    IF l.ok /\ l.nums[1] >= 0
    THEN Accept(IF l.key = "SIGNAL_ADJUST_UPPER_BOUND_PERCENTAGE"
                THEN [c EXCEPT !.upper = l.nums[1]]
                ELSE [c EXCEPT !.lower = l.nums[1]])
    ELSE Refuse(c)

\* A uint8_t is never negative: whatever is a number is taken.
ReadCompensation(c, l) ==
    IF ~l.ok THEN Refuse(c)
    ELSE Accept(CASE l.key = "TRAFFIC_COMPENSATION_METHOD" ->
                         [c EXCEPT !.method = Uint8(l.nums[1])]
                  [] l.key = "TRAFFIC_COMPENSATION_CYCLE_NUMBER" ->
                         [c EXCEPT !.cycle = Uint8(l.nums[1])]
                  [] l.key = "CMS_NUMBER" ->
                         [c EXCEPT !.cms = Uint8(l.nums[1])])

\* The weights before a negative one are taken.
ReadWeights(c, l) ==
    LET good == {i \in DOMAIN c.weight : \A j \in 1..i : l.nums[j] >= 0}
    IN  IF ~l.ok THEN Refuse(c)
        ELSE [config |-> [c EXCEPT !.weight = [i \in DOMAIN @ |->
                              IF i \in good THEN l.nums[i] ELSE @[i]]],
              ok |-> good = DOMAIN c.weight]

ReadFlag(c, l) ==
    CASE l.ok /\ l.word = "yes" -> Accept([c EXCEPT !.on = @ \union {l.key}])
      [] l.ok /\ l.word = "no" -> Accept([c EXCEPT !.on = @ \ {l.key}])
      [] OTHER -> Refuse(c)

\* A line of no known key is skipped.
ReadLine(c, l) ==
    CASE l.key = "RSU_NAME" -> ReadName(c, l)
      [] l.key \in {"RSU_id", "RSU_region"} -> ReadNumber(c, l)
      [] l.key \in {"RSU_LAT", "RSU_LON"} -> ReadPosition(c, l)
      [] l.key = "SIGNAL_CONTROLLER_MANUFACTURER" -> ReadManufacturer(c, l)
      [] l.key = "TRAFFIC_COMPENSATION_BASELINE" -> ReadBaseline(c, l)
      [] l.key \in {"SIGNAL_ADJUST_UPPER_BOUND_PERCENTAGE",
                    "SIGNAL_ADJUST_LOWER_BOUND_PERCENTAGE"} ->
             ReadPercentage(c, l)
      [] l.key \in {"TRAFFIC_COMPENSATION_METHOD", "CMS_NUMBER",
                    "TRAFFIC_COMPENSATION_CYCLE_NUMBER"} ->
             ReadCompensation(c, l)
      [] l.key = "PHASE_WEIGHT" -> ReadWeights(c, l)
      [] l.key \in FlagKeys -> ReadFlag(c, l)
      [] OTHER -> Accept(c)

(* Reading stops at the first line that is refused; main goes on with what *)
(* was read.  The loop to feof reads the last line twice, which changes    *)
(* nothing.                                                                *)
config_init(lines) ==
    FoldLeft(LAMBDA r, l : IF r.ok THEN ReadLine(r.config, l) ELSE r,
             Accept(Default), lines).config

-----------------------------------------------------------------------------
(* The lines the program writes.  Percentages and weights lose their       *)
(* fraction (%.0f), every cycle number but 1 becomes 2, and the cloud      *)
(* packet log gets a key that nobody reads.  The baseline, the number of   *)
(* CMS and the pedestrian countdown are not written.                       *)
Whole(t) ==
    LET q == t \div 10
    IN  10 * IF t % 10 > 5 \/ (t % 10 = 5 /\ q % 2 = 1) THEN q + 1 ELSE q

YesNo(c, key) == IF key \in c.on THEN "yes" ELSE "no"
WrittenKey(key) ==
    IF key = "LOG_CLOUD_PACKET_RX" THEN "LOG_CLOUD_PACKET_RXA" ELSE key

FlagLines(c, keys) ==
    [i \in DOMAIN keys |-> Word(WrittenKey(keys[i]), YesNo(c, keys[i]))]

Saved(c) ==
    <<Word("RSU_NAME", c.name), Num("RSU_id", c.id),
      Num("RSU_region", c.region), Num("RSU_LAT", c.lat), Num("RSU_LON", c.lon),
      Word("SIGNAL_CONTROLLER_MANUFACTURER", c.manufacturer)>>
    \o FlagLines(c, Flags)
    \o <<Num("SIGNAL_ADJUST_UPPER_BOUND_PERCENTAGE", Whole(c.upper)),
         Num("SIGNAL_ADJUST_LOWER_BOUND_PERCENTAGE", Whole(c.lower)),
         Num("TRAFFIC_COMPENSATION_METHOD", c.method),
         Num("TRAFFIC_COMPENSATION_CYCLE_NUMBER", IF c.cycle = 1 THEN 1 ELSE 2),
         Nums("PHASE_WEIGHT", [i \in DOMAIN c.weight |-> Whole(c.weight[i])])>>
    \o FlagLines(c, Logs)

-----------------------------------------------------------------------------
Init ==
    /\ file \in Files
    /\ config = config_init(file)
    /\ saving = <<>>
    /\ running = TRUE
    /\ weight_err = FALSE
    /\ asked = <<>>
    /\ kept = <<>>
    /\ crashes = 0

Total(w) == FoldLeft(LAMBDA s, x : s + x, 0, w)

(* Mutant: weights of any total are taken.                                 *)
AnyWeights(strategy, weights) == strategy = 2

WeightsRight(strategy, weights) == strategy = 2 /\ Total(weights) = 100

(* The cloud changes the compensation.  Weights are taken when they make   *)
(* 100 in all, before the cycle number is looked at, and the error bit a   *)
(* wrong total set is cleared again when the rest is right.  A file that   *)
(* cannot be opened is closed all the same, which ends the program.        *)
ChangeStrategy(strategy, cycle, weights) ==
    LET right == WeightsRight(strategy, weights)
        legal == strategy < 4 /\ cycle \in {1, 2}
        weighed == IF right THEN [config EXCEPT !.weight =
                                     [i \in DOMAIN weights |-> 10 * weights[i]]]
                   ELSE config
    IN  /\ running /\ saving = <<>>
        /\ asked' = <<[strategy |-> strategy, cycle |-> cycle,
                       weights |-> weights]>>
        /\ weight_err' = IF legal THEN FALSE
                         ELSE IF strategy = 2 THEN ~right ELSE weight_err
        /\ config' = IF legal THEN [weighed EXCEPT !.cycle = cycle,
                                                   !.method = strategy]
                     ELSE weighed
        /\ \/ /\ legal
              /\ file' = <<>>
              /\ saving' = Saved(config')
              /\ UNCHANGED running
           \/ /\ legal
              /\ running' = FALSE
              /\ UNCHANGED <<file, saving>>
           \/ /\ ~legal
              /\ UNCHANGED <<file, saving, running>>
        /\ kept' = IF saving' # <<>> THEN <<>> ELSE kept
        /\ UNCHANGED crashes

WriteLine ==
    /\ running /\ saving # <<>>
    /\ file' = Append(file, Head(saving))
    /\ saving' = Tail(saving)
    /\ kept' = IF saving' = <<>> THEN <<config>> ELSE kept
    /\ UNCHANGED <<config, running, weight_err, asked, crashes>>

(* The controller's watchdog, a signal or a failing library call.          *)
Crash ==
    /\ running /\ crashes < MaxCrashes
    /\ crashes' = crashes + 1
    /\ running' = FALSE
    /\ UNCHANGED <<config, file, saving, weight_err, asked, kept>>

Start ==
    /\ ~running
    /\ running' = TRUE
    /\ config' = config_init(file)
    /\ saving' = <<>>
    /\ weight_err' = FALSE
    /\ asked' = <<>>
    /\ UNCHANGED <<file, kept, crashes>>

Next ==
    \/ \E s \in Strategies, n \in CycleNumbers, w \in WeightLists :
           ChangeStrategy(s, n, w)
    \/ WriteLine
    \/ Crash
    \/ Start

Spec == Init /\ [][Next]_vars

-----------------------------------------------------------------------------
TypeOK ==
    /\ DOMAIN config = DOMAIN Default
    /\ config.method \in 0..255 /\ config.cycle \in 0..255
    /\ config.on \subseteq FlagKeys

(* What a save that was not cut off preserves over a restart: everything   *)
(* but the fractions, and the four settings the file has no line for go    *)
(* back to their defaults.                                                 *)
Lost == {"LOG_CLOUD_PACKET_RX", "PED_COUNTDOWN_SEND"}
Restored(c) ==
    [c EXCEPT !.upper = Whole(@), !.lower = Whole(@),
              !.weight = [i \in DOMAIN @ |-> Whole(@[i])],
              !.on = (@ \ Lost) \union (Default.on \intersect Lost),
              !.cycle = IF @ = 1 THEN 1 ELSE 2,
              !.baseline = Default.baseline, !.cms = Default.cms]

SaveSurvives ==
    kept # <<>> /\ saving = <<>> => config_init(file) = Restored(kept[1])

(* A save that is cut off loses only settings: what the next start reads   *)
(* is the saved value or the default, never a third one.                   *)
PrefixIsSafe ==
    saving # <<>> =>
        LET c == config_init(file)
        IN  /\ \A f \in {"region", "lat", "lon", "upper", "lower", "method",
                         "cycle", "id"} :
                   c[f] \in {Restored(config)[f], Default[f], IdOfName[config.name]}
            /\ c.weight \in {Restored(config).weight, Default.weight}

(* The weights in use make 100 in all or are the ones the start found, and *)
(* the error bit tells of a change that was refused for its weights.       *)
WeightsWhole ==
    /\ asked # <<>> /\ asked[1].strategy = 2 /\ Total(asked[1].weights) = 100
           => Total(config.weight) = 1000
    /\ asked # <<>> => Total(config.weight) = 1000
                      \/ \E f \in Files : config.weight = config_init(f).weight
    /\ weight_err => /\ asked # <<>>
                     /\ asked[1].cycle \notin {1, 2} \/ asked[1].strategy > 3

(* The settings in memory and in the file over changes, crashes in the     *)
(* middle of a save and restarts (config_init, commands 8 and 1).          *)
SettingsKept == TypeOK /\ SaveSurvives /\ PrefixIsSafe /\ WeightsWhole
=============================================================================
