------------------------ MODULE MCTelemetryPipeline -------------------------
(***************************************************************************)
(* The readings on their way, and the automation rules at their end, one   *)
(* at a time.                                                              *)
(*                                                                         *)
(* Pipeline: two devices, two REST threads.  MCPartlyShared gives each     *)
(* device a name of its own and one that both may have; MCSharedNames lets *)
(* either device be given any name.                                        *)
(*                                                                         *)
(* Rules: two sensors that may exchange the name, and two lights that the  *)
(* two rules switch in opposite orders.                                    *)
(***************************************************************************)
EXTENDS TelemetryPipeline, Automation, TLC

CONSTANTS d1, d2, n1, n2, n3, w1, w2, s1, s2, porch, stairs

VARIABLE part

MCIeee == {d1, d2}
MCName == {d1, d2, n1, n2, n3}
MCDerivedType == [a \in MCIeee |-> "SENSOR"]
MCWorker == {w1, w2}
MCPartlyShared == [a \in MCIeee |-> {n2, IF a = d1 THEN n1 ELSE d2}]
MCSharedNames == [a \in MCIeee |-> {n1, n2, n3}]

MCSensor == {s1, s2}
MCDoorLights == <<porch, stairs>>
MCNightLights == <<stairs, porch>>

\* The threads are alike, and so are the sensors.
MCSymmetry == Permutations(MCWorker) \cup Permutations(MCSensor)

MCInit ==
    /\ part \in {"pipeline", "rules"}
    /\ PipelineInit /\ AutomationInit
    /\ part = "rules" \/ (named = s1 /\ \A s \in Sensor : closed[s])

MCNext ==
    /\ UNCHANGED part
    /\ \/ part = "pipeline" /\ PipelineNext /\ UNCHANGED automationVars
       \/ part = "rules" /\ AutomationNext /\ UNCHANGED pipelineVars

MCSpec == MCInit /\ [][MCNext]_<<part, pipelineVars, automationVars>>
=============================================================================
