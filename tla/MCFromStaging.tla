----------------------------- MODULE MCFromStaging -----------------------------
(***************************************************************************)
(* A small instance of FromStagingPipeline for TLC.                        *)
(***************************************************************************)
EXTENDS FromStagingPipeline, TLC

\* Builds 1, 2 (SDK-only) and 4 of one version, and 3 of another.
MCVersionOf == [c \in Containers |-> IF c = 3 THEN "10.0" ELSE "8.0"]

\* Runs 1 and 2 begin with the same container.
MCStageContainers ==
  [r \in Runs |-> CASE r = 1 -> <<3, 1>>
                    [] r = 2 -> <<3>>
                    [] r = 3 -> <<4>>
                    [] OTHER -> <<2>>]
MCOptionsOf == [r \in Runs |-> "internal"]

MCBuildIdOf == [r \in Runs |-> IF r \in {3, 4} THEN ToString(r) ELSE ""]
==============================================================================
