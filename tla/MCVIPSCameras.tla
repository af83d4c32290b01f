---------------------------- MODULE MCVIPSCameras ----------------------------
(***************************************************************************)
(* Short signal timings, so that several phases fit in the state space, in *)
(* two models side by side: fed by two cameras, and linked to a signal     *)
(* controller over a line that loses and delays packets.                   *)
(***************************************************************************)
EXTENDS VIPSCameras, VIPSLink

VARIABLE
    model       \* which of the two this behaviour is of

Ped(waiting, direction, ratio) ==
    [waiting |-> waiting, direction |-> direction, ratio |-> ratio]

MCCounts == 0..12

\* Detections at the edge, on the crossing and mirrored off it.
MixedPackets == { <<Ped(0, 0, 5), Ped(0, 1, 50), Ped(0, 1, 5)>> }

WalkingPackets == { <<>>, <<Ped(0, 0, 50)>> }

mcVars == <<vars, camVars, linkVars, model>>

MCInit ==
    /\ model \in {"cameras", "linked"}
    /\ CInit /\ LInit
    /\ model = "cameras" => tc = Cycle[1]

\* Without a signal controller the line stands still, and the drift is whatever
\* the stages run ahead of it.
CamerasNext ==
    /\ model = "cameras" /\ CNext
    /\ UNCHANGED <<tc, dwell, dynamic, down, up, cache, obs, polled, faults, model>>
    /\ drift' = IF is_synchronized' THEN Ahead' ELSE 0

LinkedNext == model = "linked" /\ LNext /\ UNCHANGED <<camVars, model>>

MCSpec ==
    /\ MCInit /\ [][CamerasNext \/ LinkedNext]_mcVars
    /\ WF_allVars(model = "cameras" /\ RxStep)
    /\ WF_allVars(model = "cameras" /\ HandlerStep)
    /\ WF_linkedVars(model = "linked" /\ LHandlerStep)
    /\ WF_linkedVars(model = "linked" /\ Poll)
    /\ WF_linkedVars(model = "linked" /\ packet_5FCC)
    /\ WF_linkedVars(model = "linked" /\ Obey)
    /\ WF_linkedVars(model = "linked" /\ PlanMovesOn)

\* Packets lost, late or overtaken delay synchronization but do not prevent it,
\* from whichever step the signal plan starts (EventuallySynchronized, of the
\* linked behaviours).
SynchronizesDespiteFaults == model = "linked" => EventuallySynchronized
=============================================================================
