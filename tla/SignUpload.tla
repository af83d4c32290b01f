------------------------------ MODULE SignUpload -----------------------------
(***************************************************************************)
(* Uploading a program to the message signs, and the VMS error bit         *)
(* (src/src/vms.c).  The cloud's command starts a thread, at most one at a *)
(* time, which records the program's name in the database, connects to     *)
(* one sign or to all four over their own Wi-Fi, and tries each sign until *)
(* the program is there or VMS_RESEND_THRESHOLD attempts have failed,      *)
(* connecting and uploading counted together.  The control loop, in a      *)
(* thread of its own, counts the signs' answers and sets or clears the     *)
(* same error bit.                                                         *)
(***************************************************************************)
EXTENDS Naturals, FiniteSets, Sequences

CONSTANTS
    Signs,         \* the signs, in the order they are uploaded to
    OwnSign,       \* program -> the one sign it is for (2..17)
    CommonPrograms,\* programs every sign gets
    Listed,        \* programs the database has a line for
    Names,         \* names of program files
    Threshold,     \* VMS_RESEND_THRESHOLD
    CheckEvery,    \* VMS_ERROR_THRESHOLD: packets between two checks
    MaxUpdates     \* bound: updates asked for

OwnPrograms == DOMAIN OwnSign
Programs == OwnPrograms \union CommonPrograms
SignSet == {Signs[i] : i \in DOMAIN Signs}
NoName == "None"

SignUploadAssumption ==
    /\ Threshold \in Nat \ {0} /\ CheckEvery \in Nat \ {0}
    /\ OwnPrograms \intersect CommonPrograms = {}
    /\ \A p \in OwnPrograms : OwnSign[p] \in SignSet
    /\ Listed \subseteq Programs
    /\ NoName \notin Names

VARIABLES
    pc,           \* where the update thread is; "none": there is none
    locked,       \* VMS_program_update_thread_mutex
    job,          \* the program and the name it uploads
    todo,         \* the signs still to be served, in order
    cnt,          \* upload_error_cnt
    database,     \* program_id.txt: program -> name
    has,          \* history: sign -> name of the job's program it received
    vms_error,
    readCnt,      \* packets the control loop has sent since its last check
    heard,        \* vms_respose_cnt: the signs that answered since then
    mute,         \* history: did the last check miss a sign?
    ackers,       \* threads that have released the mutex and not yet told the
                  \* cloud
    updates       \* updates started

vars == <<pc, locked, job, todo, cnt, database, has, vms_error, readCnt, heard,
          mute, ackers, updates>>
loopVars == <<readCnt, heard, mute>>

Init ==
    /\ pc = "none" /\ locked = FALSE
    /\ job = [program |-> 0, name |-> NoName]
    /\ todo = <<>>
    /\ cnt = [s \in SignSet |-> 0]
    /\ database = [p \in Listed |-> NoName]
    /\ has = [s \in SignSet |-> FALSE]
    /\ vms_error = FALSE
    /\ readCnt = 0 /\ heard = {} /\ mute = FALSE
    /\ ackers = 0 /\ updates = 0

-----------------------------------------------------------------------------
(* The dispatcher, on the cloud's command: no second thread.  The file is  *)
(* known to exist (VMS_search_program).                                    *)
vms_program_update_thread_activate(p, n) ==
    /\ ~locked
    /\ updates < MaxUpdates
    /\ updates' = updates + 1
    /\ locked' = TRUE
    /\ job' = [program |-> p, name |-> n]
    /\ pc' = "record"
    /\ cnt' = [s \in SignSet |-> 0]
    /\ has' = [s \in SignSet |-> FALSE]
    /\ UNCHANGED <<todo, database, vms_error, ackers>>
    /\ UNCHANGED loopVars

(* The database with the job's line rewritten, if it has one.  The number  *)
(* goes through uint8_t_to_char, which the control loop uses at the same   *)
(* time: the line may be written with another number, and is lost.         *)
Rewritten ==
    {[p \in DOMAIN database |->
         IF p = job.program THEN job.name ELSE database[p]],
     [p \in DOMAIN database \ {job.program} |-> database[p]]}

(* Mutant: a database that cannot be opened leaves the mutex locked.       *)
KeepsMutex ==
    /\ pc = "record"
    /\ \/ /\ pc' = "none"
          /\ UNCHANGED database
       \/ /\ database' \in Rewritten
          /\ pc' = "first_disconnect"
    /\ UNCHANGED locked
    /\ UNCHANGED <<job, todo, cnt, has, vms_error, ackers, updates>>
    /\ UNCHANGED loopVars

(* VMS_program_update, first part: the database is rewritten, unless its   *)
(* files cannot be opened.                                                 *)
RecordName ==
    /\ pc = "record"
    /\ \/ /\ pc' = "none"
          /\ locked' = FALSE
          /\ UNCHANGED database
       \/ /\ database' \in Rewritten
          /\ pc' = "first_disconnect"
          /\ UNCHANGED locked
    /\ UNCHANGED <<job, todo, cnt, has, vms_error, ackers, updates>>
    /\ UNCHANGED loopVars

(* The adapter is disconnected first; if that fails nothing is uploaded    *)
(* and no sign is blamed.                                                  *)
FirstDisconnect ==
    /\ pc = "first_disconnect"
    /\ \/ /\ todo' = IF job.program \in OwnPrograms
                     THEN <<OwnSign[job.program]>> ELSE Signs
          /\ pc' = "connect"
       \/ /\ pc' = "tell"
          /\ UNCHANGED todo
    /\ UNCHANGED <<locked, job, cnt, database, has, vms_error, ackers, updates>>
    /\ UNCHANGED loopVars

(* Mutant: the counter is compared before it is increased.                 *)
AttemptOnceMore(at, next) ==
    /\ pc = at
    /\ LET s == Head(todo)
       IN  \/ /\ pc' = next
              /\ has' = [has EXCEPT ![s] = @ \/ at = "upload"]
              /\ UNCHANGED cnt
           \/ /\ cnt' = [cnt EXCEPT ![s] = @ + 1]
              /\ pc' = IF cnt[s] < Threshold THEN at ELSE "disconnect"
              /\ UNCHANGED has
    /\ UNCHANGED <<locked, job, todo, database, vms_error, ackers, updates>>
    /\ UNCHANGED loopVars

(* One attempt on the sign at the head of todo.                            *)
Attempt(at, next) ==
    /\ pc = at
    /\ LET s == Head(todo)
       IN  \/ /\ pc' = next
              /\ has' = [has EXCEPT ![s] = @ \/ at = "upload"]
              /\ UNCHANGED cnt
           \/ /\ cnt' = [cnt EXCEPT ![s] = @ + 1]
              /\ pc' = IF cnt'[s] < Threshold THEN at ELSE "disconnect"
              /\ UNCHANGED has
    /\ UNCHANGED <<locked, job, todo, database, vms_error, ackers, updates>>
    /\ UNCHANGED loopVars

VMS_wifi_connect == Attempt("connect", "upload")
VMS_program_update_packet_tx == Attempt("upload", "disconnect")

(* Done with the sign; its failures to disconnect are not looked at.       *)
VMS_wifi_disconnect ==
    /\ pc = "disconnect"
    /\ todo' = Tail(todo)
    /\ pc' = IF todo' = <<>> THEN "check" ELSE "connect"
    /\ UNCHANGED <<locked, job, cnt, database, has, vms_error, ackers, updates>>
    /\ UNCHANGED loopVars

(* A sign that used up its attempts sets the error bit.                    *)
CheckAttempts ==
    /\ pc = "check"
    /\ vms_error' = (vms_error \/ \E s \in SignSet : cnt[s] >= Threshold)
    /\ pc' = "tell"
    /\ UNCHANGED <<locked, job, todo, cnt, database, has, ackers, updates>>
    /\ UNCHANGED loopVars

(* Two seconds later the bit is cleared, whoever set it, and the mutex     *)
(* released.                                                               *)
ClearAndUnlock ==
    /\ pc = "tell"
    /\ vms_error' = FALSE
    /\ locked' = FALSE
    /\ pc' = "none"
    /\ ackers' = ackers + 1
    /\ UNCHANGED <<job, todo, cnt, database, has, updates>>
    /\ UNCHANGED loopVars

(* The thread's last act, status 0 whatever happened.  The mutex is free,  *)
(* so the next thread may be at work.                                      *)
SendAck ==
    /\ ackers > 0
    /\ ackers' = ackers - 1
    /\ UNCHANGED <<pc, locked, job, todo, cnt, database, has, vms_error, updates>>
    /\ UNCHANGED loopVars

UpdateThread ==
    \/ RecordName \/ FirstDisconnect \/ VMS_wifi_connect
    \/ VMS_program_update_packet_tx \/ VMS_wifi_disconnect
    \/ CheckAttempts \/ ClearAndUnlock

-----------------------------------------------------------------------------
(* control_loop, its second half: the answers to the packet are counted    *)
(* and every CheckEvery packets the signs that never answered are looked   *)
(* for.                                                                    *)
CountAnswers(answers) ==
    LET now == heard \union answers
    IN  /\ IF readCnt + 1 = CheckEvery
           THEN /\ mute' = (now # SignSet)
                /\ vms_error' = (now # SignSet)
                /\ readCnt' = 0
                /\ heard' = {}
           ELSE /\ readCnt' = readCnt + 1
                /\ heard' = now
                /\ UNCHANGED <<mute, vms_error>>
        /\ UNCHANGED <<pc, locked, job, todo, cnt, database, has, ackers, updates>>

Next ==
    \/ \E p \in Programs, n \in Names : vms_program_update_thread_activate(p, n)
    \/ UpdateThread
    \/ SendAck
    \/ \E answers \in SUBSET SignSet : CountAnswers(answers)

Spec == Init /\ [][Next]_vars

(* Commands that are run by popen end, and the thread is scheduled.        *)
FairSpec == Spec /\ WF_vars(UpdateThread) /\ WF_vars(SendAck)

-----------------------------------------------------------------------------
Targets ==
    IF job.program \in OwnPrograms THEN {OwnSign[job.program]} ELSE SignSet

TypeOK ==
    /\ pc \in {"none", "record", "first_disconnect", "connect", "upload",
               "disconnect", "check", "tell"}
    /\ cnt \in [SignSet -> 0..Threshold]
    /\ DOMAIN database \subseteq Listed
    /\ heard \subseteq SignSet /\ readCnt \in 0..(CheckEvery - 1)

(* The error bit is set only while the last check of the answers missed a  *)
(* sign, or by an update whose two seconds of reporting are not over: no   *)
(* order of the two threads leaves it set for nothing.                     *)
ErrorHasCause ==
    vms_error => \/ mute
                 \/ pc = "tell" /\ \E s \in SignSet : cnt[s] = Threshold

(* Every sign the update was for either holds the program or used up its   *)
(* attempts, and no other sign was touched.                                *)
SignsAccounted ==
    pc = "check" =>
        /\ \A s \in Targets : has[s] <=> cnt[s] < Threshold
        /\ \A s \in SignSet \ Targets : ~has[s] /\ cnt[s] = 0

(* While a thread uploads, the mutex keeps the others out, and the         *)
(* database names the file it uploads, unless the line was lost.           *)
OneUpdate ==
    /\ locked <=> pc # "none"
    /\ pc \notin {"none", "record"} /\ job.program \in DOMAIN database =>
           database[job.program] = job.name

(* Updates of the signs and the error bit they share with the control loop *)
(* (VMS_program_update, control_loop).                                     *)
UploadsRight == TypeOK /\ ErrorHasCause /\ SignsAccounted /\ OneUpdate

(* An update lets the next one in and is reported to the cloud, whatever   *)
(* fails on the way.                                                       *)
UpdatesEnd == (locked ~> ~locked) /\ (ackers > 0 ~> ackers = 0)
=============================================================================
