-------------------------------- MODULE MCSync --------------------------------
(***************************************************************************)
(* Small instances of SyncInternalRelease for TLC.                         *)
(***************************************************************************)
EXTENDS SyncInvariants, TLC

\* Builds 1 and 2 of one version, the second SDK-only, and 3 of another.
MCVersionOf == [c \in Containers |-> IF c = 3 THEN "10.0" ELSE "8.0"]
MCBuildIdOf == [r \in Runs |-> ToString(r)]
MCNoBuildId == [r \in Runs |-> ""]
MCMixed     == [r \in Runs |-> IF r = 3 THEN "readOnly" ELSE IF r = 4 THEN "invalid" ELSE "complete"]
MCComplete  == [r \in Runs |-> "complete"]
==============================================================================
