----------------------------- MODULE AppRegistry -----------------------------
(***************************************************************************)
(* Applications and their event callbacks                                  *)
(* (src/src/application_registration.c).  The main thread registers the    *)
(* built-in applications, then the external application proxy registers    *)
(* others while the dispatcher and the timer of the command buffer walk    *)
(* the callback lists.  The writers hold mutex_callback_list; the locks    *)
(* of the walking threads are commented out in the source, so a walk reads *)
(* current->next anew for every use: the test, the application, the call   *)
(* and the step to the next node.                                          *)
(*                                                                         *)
(* Nodes are only ever linked in, never removed: a list is the sequence of *)
(* its nodes, and a node's next pointer is its successor in it.            *)
(***************************************************************************)
EXTENDS Integers, Sequences, SequencesExt, FiniteSetsExt, FiniteSets

CONSTANTS
    Internal,    \* the built-in applications, in the order main registers them
    External,    \* the applications that the proxy registers later
    app_id,      \* application -> its id
    app_name,    \* application -> its name
    priority,    \* application -> its priority; a smaller number goes first
    Events,      \* the event types, in the order of app_register
    wants,       \* application -> the events it has a callback for
    Messages,    \* the callbacks for messages of one kind that an application
                 \* may have in one list, each from a call of its own
    Walkers,     \* the threads that walk a list
    EventOf,     \* walker -> the event whose list it walks
    Garbage,     \* what the uninitialised return value may be
    NoApp        \* the null pointer

Apps == External \cup Range(Internal)

ASSUME AppRegistryAssumption ==
    /\ NoApp \notin Apps /\ "app_id" \notin Messages
    /\ Internal \in Seq(Apps) /\ Events \in Seq(Range(Events))
    /\ priority \in [Apps -> Int]
    /\ \A a \in Apps : wants[a] \subseteq Range(Events)
    /\ \A w \in Walkers : EventOf[w] \in Range(Events)
    /\ Garbage \subseteq Int

VARIABLES
    app_list,    \* the applications in the order of their registration
    app_num,     \* their number, a byte
    callbacks,   \* callback_list: event -> the nodes
    writer,      \* the registration under way: the application and the
                 \* places in Events of the callbacks it has yet to insert
    answered,    \* application -> what app_register returned
    handling,    \* proxy_handling_app_p, one variable for all threads
    walk         \* walker -> where it is in its list

registryVars == <<app_list, app_num, callbacks, writer, answered, handling, walk>>

Node(a, choice) == [app |-> a, choice |-> choice]
ListHead == Node(NoApp, "head")
Nodes == [app : Apps, choice : {"app_id"} \cup Messages]

(* at: the current node; called: the nodes whose callback was called; due: *)
(* the nodes that were in the list when the walk began.                    *)
AtHead == [pc |-> "idle", at |-> ListHead, called |-> {}, due |-> {}]

Resting == [app |-> NoApp, todo |-> {}]

RegistryInit ==
    /\ app_list = << >>
    /\ app_num = 0
    /\ callbacks = [e \in Range(Events) |-> << >>]
    /\ writer = Resting
    /\ answered = [a \in Apps |-> "none"]
    /\ handling = NoApp
    /\ walk = [w \in Walkers |-> AtHead]

-----------------------------------------------------------------------------
(* app_obj_insert: an application whose name or id is taken is refused.    *)
(* Nothing assigns the return value when the list is empty.                *)
Duplicate(a) ==
    \E i \in 1..Len(app_list) : \/ app_id[app_list[i]] = app_id[a]
                                \/ app_name[app_list[i]] = app_name[a]

app_obj_insert(a) == IF app_list = << >> THEN Garbage ELSE {Len(app_list)}

Counted(ret) == (ret + 1) % 256

(* app_register, up to its first callback.                                 *)
app_register(a) ==
    /\ writer = Resting
    /\ answered[a] = "none"
    /\ \/ /\ Duplicate(a)
          /\ answered' = [answered EXCEPT ![a] = "refused"]
          /\ UNCHANGED <<app_list, app_num, writer>>
       \/ /\ ~Duplicate(a)
          /\ app_list' = Append(app_list, a)
          /\ \E ret \in app_obj_insert(a) :
                IF ret < 0
                THEN /\ answered' = [answered EXCEPT ![a] = "refused"]
                     /\ UNCHANGED <<app_num, writer>>
                ELSE /\ app_num' = Counted(ret)
                     /\ writer' = [app |-> a,
                                   todo |-> {i \in 1..Len(Events) : Events[i] \in wants[a]}]
                     /\ UNCHANGED answered
    /\ UNCHANGED <<callbacks, handling, walk>>

MainDone == \A i \in 1..Len(Internal) : answered[Internal[i]] # "none"

(* main registers its applications one after the other, before it starts   *)
(* the other threads.                                                      *)
RegisterInternal ==
    \E i \in 1..Len(Internal) :
        /\ \A j \in 1..i - 1 : answered[Internal[j]] # "none"
        /\ app_register(Internal[i])

RegisterExternal ==
    /\ MainDone
    /\ \E a \in External : app_register(a)

(* The place before the first node of a larger priority.                   *)
Place(list, p) ==
    LET i == SelectInSeq(list, LAMBDA n : priority[n.app] > p)
    IN  IF i = 0 THEN Len(list) + 1 ELSE i

InsertNode(list, n) == InsertAt(list, Place(list, priority[n.app]), n)

(* The traversal meets a callback of the same id, up to that place.        *)
Inserted(list, a) ==
    \E i \in 1..Len(list) :
        /\ i <= Place(list, priority[a])
        /\ list[i].choice = "app_id" /\ app_id[list[i].app] = app_id[a]

event_callback_insert ==
    /\ writer.todo # {}
    /\ LET i == Min(writer.todo)
           e == Events[i]
       IN  /\ callbacks' = [callbacks EXCEPT ![e] =
                               IF Inserted(@, writer.app) THEN @
                               ELSE InsertNode(@, Node(writer.app, "app_id"))]
           /\ writer' = [writer EXCEPT !.todo = @ \ {i}]
    /\ UNCHANGED <<app_list, app_num, answered, handling, walk>>

RegistrationEnds ==
    /\ writer # Resting
    /\ writer.todo = {}
    /\ answered' = [answered EXCEPT ![writer.app] = "accepted"]
    /\ writer' = Resting
    /\ UNCHANGED <<app_list, app_num, callbacks, handling, walk>>

(* on_registration of a built-in application, and the proxy on behalf of   *)
(* an external one, ask for the messages of one kind as well.              *)
event_callback_msg_id_insert ==
    \E a \in Apps, e \in Range(Events), m \in Messages :
        /\ writer = Resting
        /\ answered[a] = "accepted"
        /\ e \in wants[a]
        /\ Node(a, m) \notin Range(callbacks[e])
        /\ callbacks' = [callbacks EXCEPT ![e] = InsertNode(@, Node(a, m))]
        /\ UNCHANGED <<app_list, app_num, writer, answered, handling, walk>>

-----------------------------------------------------------------------------
(* A walk, for an event that every node of the list asks for (the handlers *)
(* of messages skip nodes of other messages or services).  next(w) is      *)
(* current->next, read when it is needed.                                  *)
HasNext(w) == walk[w].at # Last(<<ListHead>> \o callbacks[EventOf[w]])

next(w) ==
    LET list == <<ListHead>> \o callbacks[EventOf[w]]
    IN  list[SelectInSeq(list, LAMBDA n : n = walk[w].at) + 1]

WalkBegins(w) ==
    /\ MainDone
    /\ walk[w].pc = "idle"
    /\ walk' = [walk EXCEPT ![w] = [AtHead EXCEPT !.pc = "test",
                                       !.due = Range(callbacks[EventOf[w]])]]
    /\ UNCHANGED <<app_list, app_num, callbacks, writer, answered, handling>>

TestNext(w) ==
    /\ walk[w].pc = "test"
    /\ walk' = [walk EXCEPT ![w].pc = IF HasNext(w) THEN "set" ELSE "done"]
    /\ UNCHANGED <<app_list, app_num, callbacks, writer, answered, handling>>

SetHandling(w) ==
    /\ walk[w].pc = "set"
    /\ handling' = next(w).app
    /\ walk' = [walk EXCEPT ![w].pc = "call"]
    /\ UNCHANGED <<app_list, app_num, callbacks, writer, answered>>

(* The forwarding callbacks of external applications read the global.      *)
Call(w) ==
    /\ walk[w].pc = "call"
    /\ walk' = [walk EXCEPT ![w].called = @ \cup {next(w)},
                            ![w].pc = "step"]
    /\ UNCHANGED <<app_list, app_num, callbacks, writer, answered, handling>>

(* Mutant: the step goes on from the node after the next.                  *)
StepTooFar(w) ==
    LET list == callbacks[EventOf[w]]
        here == SelectInSeq(list, LAMBDA n : n = next(w))
    IN  /\ walk[w].pc = "step"
        /\ walk' = [walk EXCEPT ![w].at = IF here < Len(list) THEN list[here + 1]
                                          ELSE list[here],
                                ![w].pc = "test"]
        /\ UNCHANGED <<app_list, app_num, callbacks, writer, answered, handling>>

Step(w) ==
    /\ walk[w].pc = "step"
    /\ walk' = [walk EXCEPT ![w].at = next(w), ![w].pc = "test"]
    /\ UNCHANGED <<app_list, app_num, callbacks, writer, answered, handling>>

WalkEnds(w) ==
    /\ walk[w].pc = "done"
    /\ walk' = [walk EXCEPT ![w] = AtHead]
    /\ UNCHANGED <<app_list, app_num, callbacks, writer, answered, handling>>

Walk(w) == \/ WalkBegins(w) \/ TestNext(w) \/ SetHandling(w)
           \/ Call(w) \/ Step(w) \/ WalkEnds(w)

RegistryNext ==
    \/ RegisterInternal \/ RegisterExternal
    \/ event_callback_insert \/ RegistrationEnds
    \/ event_callback_msg_id_insert
    \/ \E w \in Walkers : Walk(w)

RegistrySpec == RegistryInit /\ [][RegistryNext]_registryVars

-----------------------------------------------------------------------------
(* The type invariant.                                                     *)
RegistryTypeOK ==
    /\ app_list \in Seq(Apps)
    /\ app_num \in 0..255
    /\ \A e \in Range(Events) : callbacks[e] \in Seq(Nodes)
    /\ writer.app \in Apps \cup {NoApp}
    /\ handling \in Apps \cup {NoApp}
    /\ \A w \in Walkers : walk[w].pc \in {"idle", "test", "set", "call", "step", "done"}

(* Names and ids each name one application, and no callback is in a list   *)
(* twice: callbacks find their application by name.                        *)
NamesUnique ==
    /\ \A i, j \in 1..Len(app_list) :
          \/ app_id[app_list[i]] = app_id[app_list[j]]
          \/ app_name[app_list[i]] = app_name[app_list[j]]
          => i = j
    /\ \A e \in Range(Events) : IsInjective(callbacks[e])

(* The lists are sorted by priority at every moment, so that an            *)
(* application of a smaller number is called first.                        *)
PriorityOrder ==
    \A e \in Range(Events) : \A i, j \in 1..Len(callbacks[e]) :
        i < j => priority[callbacks[e][i].app] <= priority[callbacks[e][j].app]

(* A walk without the lock misses no callback that was registered when it  *)
(* began, wherever registrations insert nodes meanwhile.                   *)
NoneSkipped ==
    \A w \in Walkers : walk[w].pc = "done" =>
        walk[w].due \subseteq walk[w].called

(* What the registry promises, in one: its types, unique names, the order  *)
(* of the lists, and walks that miss nothing.                              *)
CallbacksInOrder == RegistryTypeOK /\ NamesUnique /\ PriorityOrder /\ NoneSkipped
=============================================================================
