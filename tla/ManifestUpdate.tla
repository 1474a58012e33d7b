---------------------------- MODULE ManifestUpdate ----------------------------
(***************************************************************************)
(* What one run of the specific command does to the variables of one       *)
(* Dockerfile version in manifest.versions.json: the base URL its images   *)
(* download from, the build they install, and the checksums that verify    *)
(* the downloads.  A run starts from the target branch and leaves its      *)
(* changes in a pull request; builds are published meanwhile, product by   *)
(* product.  Only dotnet-monitor has variables of all three kinds.         *)
(***************************************************************************)
EXTENDS Naturals

CONSTANTS
  Products,    \* the products of one Dockerfile version: monitor-base, monitor-ext-...
  MaxVersion   \* bound: builds of the products

ASSUME ManifestAssumption == MaxVersion \in Nat

\* The shared base URL variables a release state selects, and no release state.
Urls == {"preview", "maintenance"}
Unspecified == "unspecified"

VARIABLES
  published,  \* the artifacts that can be downloaded
  target,     \* the variables on the target branch
  pr          \* the variables in the open pull request, if there is one

vars == <<published, target, pr>>

Artifact(url, p, v) == [url |-> url, product |-> p, version |-> v]
Artifacts == [url : Urls, product : Products, version : 0 .. MaxVersion]

\* A checksum is the artifact it was computed from.
Variables == [baseUrl : Urls, version : 0 .. MaxVersion, sha : [Products -> Artifacts]]

\* The checksums verify what an image built from the variables downloads.
Verifies(file) ==
  \A p \in Products : file.sha[p] = Artifact(file.baseUrl, p, file.version)

Init ==
  \E url \in Urls :
    /\ published = [url : {"preview", url}, product : Products, version : {0}]
    /\ target = [baseUrl |-> url, version |-> 0,
                 sha |-> [p \in Products |-> Artifact(url, p, 0)]]
    /\ pr = {}

-----------------------------------------------------------------------------
(* The updaters of a run, in their order.  The manifest variables are      *)
(* loaded once, before the first of them writes the file.                  *)

BaseUrlUpdater(file, state) ==
  [file EXCEPT !.baseUrl = IF state = Unspecified THEN @ ELSE state]

VersionUpdater(file, v) == [file EXCEPT !.version = v]

\* The version comes from the options, the base URL from the loaded variables.
\* A checksum that cannot be retrieved is not replaced.
MutShaUpdater(file, loaded, v) ==   \* always of the daily location
  [file EXCEPT !.sha = [p \in Products |->
     LET artifact == Artifact("preview", p, v)
     IN IF artifact \in published THEN artifact ELSE @[p]]]
MutShaOfAnother(file, loaded, v) ==   \* the variable of another product is taken
  [file EXCEPT !.sha = [p \in Products |->
     LET artifact == Artifact(loaded.baseUrl, CHOOSE q \in Products : TRUE, v)
     IN IF artifact \in published THEN artifact ELSE @[p]]]
ShaUpdater(file, loaded, v) ==
  [file EXCEPT !.sha = [p \in Products |->
     LET artifact == Artifact(loaded.baseUrl, p, v)
     IN IF artifact \in published THEN artifact ELSE @[p]]]

Updated(loaded, v, state) ==
  ShaUpdater(VersionUpdater(BaseUrlUpdater(loaded, state), v), loaded, v)

\* The error listener: a checksum could not be retrieved.
MutErrors(loaded, v) == \A p \in Products : Artifact(loaded.baseUrl, p, v) \notin published
Errors(loaded, v) == \E p \in Products : Artifact(loaded.baseUrl, p, v) \notin published

\* ExecuteAsync: with errors, or without changes, nothing leaves the machine.
Execute(v, state) ==
  LET file == Updated(target, v, state)
  IN /\ ~Errors(target, v)
     /\ file # target
     /\ pr' = {file}
     /\ UNCHANGED <<published, target>>

-----------------------------------------------------------------------------
(* The rest of the world.                                                  *)

\* A build is published at the daily location; a released one at both.
Publish(url, p, v) ==
  /\ url = "maintenance" => Artifact("preview", p, v) \in published
  /\ published' = published \cup {Artifact(url, p, v)}
  /\ UNCHANGED <<target, pr>>

Merge ==
  /\ target' \in pr
  /\ pr' = {}
  /\ UNCHANGED published

Next ==
  \/ \E v \in 0 .. MaxVersion, state \in Urls \cup {Unspecified} : Execute(v, state)
  \/ \E url \in Urls, p \in Products, v \in 0 .. MaxVersion : Publish(url, p, v)
  \/ Merge

Spec == Init /\ [][Next]_vars

-----------------------------------------------------------------------------
(* Properties.                                                             *)

\* Every variable has its type, and a checksum is of an artifact of its product
\* that was published.
TypeOK ==
  /\ published \subseteq Artifacts
  /\ target \in Variables
  /\ pr \subseteq Variables
  /\ \A file \in {target} \cup pr, p \in Products :
       file.sha[p] \in published /\ file.sha[p].product = p

\* Although the checksums are retrieved one by one, and the file is written
\* before a failed one is noticed (SpecificCommand.ExecuteAsync), no branch ever
\* mixes checksums of two builds, or a build with the checksums of another.
ChecksumsAreOfOneBuild ==
  \A file \in {target} \cup pr, p \in Products : file.sha[p].version = file.version

\* A run that leaves the base URL as it finds it gets every checksum right, also
\* when the target branch has wrong ones: a second run repairs what a first one,
\* merged, got wrong.
UnswitchedRunVerifies ==
  [][\A file \in pr' \ pr : file.baseUrl = target.baseUrl => Verifies(file)]_vars
==============================================================================
