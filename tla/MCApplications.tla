--------------------------- MODULE MCApplications ----------------------------
(***************************************************************************)
(* The applications, in models side by side: the registry of applications  *)
(* and their callbacks; the proxy for external applications, with clients  *)
(* that crash anywhere and with calm ones; the priority of emergency       *)
(* vehicles and of buses.                                                  *)
(***************************************************************************)
EXTENDS EVSP, AppRegistry, AppProxy, TSP

\* Two emergency vehicles on two approaches that need different phases.
MCPhaseOf == [west |-> 1, north |-> 2]

\* One application is built in, two are external; "same" has the name of
\* "first".  The first return value is whatever was on the stack.
MCInternal == <<"builtin">>
MCapp_id == [builtin |-> 1, first |-> 2, same |-> 3]
MCapp_name == [builtin |-> "P", first |-> "F", same |-> "F"]
MCpriority == [builtin |-> 3, first |-> 1, same |-> 5]
MCEvents == <<"obu", "command">>
MCwants == [builtin |-> {"obu"}, first |-> {"obu", "command"}, same |-> {"obu"}]
MCEventOf == [dispatcher |-> "obu"]
MCGarbage == {-1, 0, 300}

\* Two processes that run the same external application, at once or one after
\* the other; the heartbeat counters wrap at three.
MCAppOf == [p1 |-> 1, p2 |-> 1]

\* The second matrix of the directory is another unit's.
MCDirectory == <<[rsu |-> "me", plan |-> 1, opens |-> TRUE],
                 [rsu |-> "you", plan |-> 2, opens |-> TRUE]>>

ASSUME MCApplicationsAssumption == EVSPAssumption

VARIABLE
    model       \* which of them this behaviour is of

-----------------------------------------------------------------------------
mcVars == <<registryVars, proxyVars, vars, transitVars, model>>

MCInit ==
    /\ model \in {"registry", "proxy", "emergency", "transit"}
    /\ Init /\ RegistryInit /\ ProxyInit /\ TransitInit
    /\ model # "proxy" => ~calm

\* A behaviour of one model leaves the others alone.
InRegistry == model = "registry" /\ UNCHANGED <<proxyVars, vars, transitVars, model>>
InProxy == model = "proxy" /\ UNCHANGED <<registryVars, vars, transitVars, model>>
InEmergency == model = "emergency" /\ UNCHANGED <<registryVars, proxyVars, transitVars, model>>
InTransit == model = "transit" /\ UNCHANGED <<registryVars, proxyVars, vars, model>>

MCNext ==
    \/ InRegistry /\ RegistryNext
    \/ InProxy /\ ProxyNext
    \/ InEmergency /\ Next
    \/ InTransit /\ TransitNext

MCSpec == MCInit /\ [][MCNext]_mcVars
=============================================================================
