---------------------------- MODULE BranchContent ----------------------------
(***************************************************************************)
(* The content of a branch of the repository, as far as the commands that  *)
(* move .NET versions between branches can tell two contents apart:        *)
(*                                                                         *)
(*   edits     the changes of the release branch that are not .NET builds  *)
(*             (templates, READMEs, tests ...), as a set of edit names;    *)
(*   runtime   for each major.minor version, the build that its runtime    *)
(*             and ASP.NET version variables name, by its internal or its  *)
(*             public version;                                             *)
(*   sdk       the same for its SDK version variables;                     *)
(*   dotnetUrl where the base URL variables dotnet|<version>|base-url of a *)
(*             version point: to a stage container, or to the public feed; *)
(*   sdkUrl    the same for sdk|<version>|base-url, which as long as it is *)
(*             not internal refers to the former;                          *)
(*   recorded  the file stage-containers.txt: for each major.minor version *)
(*             at most one stage container.                                *)
(*                                                                         *)
(* A stage container stands for the staging pipeline run whose build it    *)
(* holds.  Its major.minor version is that of its RuntimeBuild.            *)
(***************************************************************************)
EXTENDS Naturals

CONSTANTS
  Versions,      \* the major.minor .NET versions of the repository
  Containers,    \* the stage containers: N is "stage-N", N a pipeline run id
  VersionOf,     \* the major.minor version of a container's RuntimeBuild
  SdkOnly,       \* the containers whose release config says SdkOnly
  Edits          \* the names of the release branch's other changes

ASSUME ContentAssumption ==
  /\ Containers \subseteq Nat \ {0}
  /\ VersionOf \in [Containers -> Versions]
  /\ SdkOnly \subseteq Containers

\* The absence of a stage container.
NoContainer == 0

Recorded == Containers \cup {NoContainer}

\* What a group of version variables names: the build that a container holds
\* (NoContainer: the build the branch started with), by the version it has while
\* it is internal (8.0.1-servicing.N) or the one it is released as (8.0.1).
Layer == [build : Recorded, internal : BOOLEAN]
Internal(c) == [build |-> c, internal |-> TRUE]
Public(c) == [build |-> c, internal |-> FALSE]

\* A base URL is given by the container it points to, or by NoContainer for what
\* the branch started with: a public URL or (sdkUrl) a reference to dotnetUrl.
Tree ==
  [edits     : SUBSET Edits,
   runtime   : [Versions -> Layer],
   sdk       : [Versions -> Layer],
   dotnetUrl : [Versions -> Recorded],
   sdkUrl    : [Versions -> Recorded],
   recorded  : [Versions -> Recorded]]

Nothing == [v \in Versions |-> NoContainer]
FirstBuilds == [v \in Versions |-> Public(NoContainer)]

FirstTree ==
  [edits |-> {}, runtime |-> FirstBuilds, sdk |-> FirstBuilds,
   dotnetUrl |-> Nothing, sdkUrl |-> Nothing, recorded |-> Nothing]

\* The build that is recorded for a version is there, behind the internal base URL
\* that its kind of build sets.
RecordHolds(tree, v) ==
  LET c == tree.recorded[v]
  IN c # NoContainer =>
       /\ tree.sdk[v] = Internal(c)
       /\ IF c \in SdkOnly THEN tree.sdkUrl[v] = c
          ELSE tree.runtime[v] = Internal(c) /\ tree.dotnetUrl[v] = c

RecordsHold(tree) == \A v \in Versions : RecordHolds(tree, v)

-----------------------------------------------------------------------------
(* What the from-staging-pipeline command does to a working tree.          *)

\* A definition named Mut... is a mistake that the code does not make; it stands
\* before the definition it could replace.

\* RecordInternalStagingBuild: one container per major.minor version, an
\* earlier one is overwritten.
MutRecord(tree, c) ==   \* a line for each patch version, not for each major.minor one
  [tree EXCEPT !.recorded = [v \in Versions \cup {"patch"} |-> IF v = "patch" THEN c ELSE @[v]]]
Record(tree, c) == [tree EXCEPT !.recorded[VersionOf[c]] = c]

\* The product versions the command passes on: an SDK-only build leaves the
\* runtime and ASP.NET variables alone, any other sets all of them.
MutSetProductVersions(tree, c, layer) ==   \* the switch on SDK-only swaps its groups
  [tree EXCEPT !.runtime[VersionOf[c]] = layer,
               !.sdk[VersionOf[c]] = IF c \in SdkOnly THEN @ ELSE layer]
SetProductVersions(tree, c, layer) ==
  [tree EXCEPT !.sdk[VersionOf[c]] = layer,
               !.runtime[VersionOf[c]] = IF c \in SdkOnly THEN @ ELSE layer]

\* BaseUrlUpdater: an internal SDK-only build sets the SDK's own base URL, any
\* other internal build the one the SDK's usually refers to.
MutSetBaseUrl(tree, c) == [tree EXCEPT !.dotnetUrl[VersionOf[c]] = c]
SetBaseUrl(tree, c) ==
  IF c \in SdkOnly
  THEN [tree EXCEPT !.sdkUrl[VersionOf[c]] = c]
  ELSE [tree EXCEPT !.dotnetUrl[VersionOf[c]] = c]

\* --internal: record the container, then set base URLs and versions.
MutApplyInternalBuild(tree, c) == SetProductVersions(Record(tree, c), c, Internal(c))
ApplyInternalBuild(tree, c) == SetProductVersions(SetBaseUrl(Record(tree, c), c), c, Internal(c))

\* Without --internal, as the public release PR does: base URLs stay.
ApplyPublicBuild(tree, c) == SetProductVersions(tree, c, Public(c))

-----------------------------------------------------------------------------
(* git's three-way merge, field by field: the server completes a pull      *)
(* request by merging its head into its base branch.                       *)

Merge3(base, ours, theirs) == IF ours = base THEN theirs ELSE ours

Conflict3(base, ours, theirs) ==
  /\ ours # base
  /\ theirs # base
  /\ ours # theirs

Mergeable(base, ours, theirs) ==
  \A v \in Versions :
    /\ ~ Conflict3(base.runtime[v], ours.runtime[v], theirs.runtime[v])
    /\ ~ Conflict3(base.sdk[v], ours.sdk[v], theirs.sdk[v])
    /\ ~ Conflict3(base.dotnetUrl[v], ours.dotnetUrl[v], theirs.dotnetUrl[v])
    /\ ~ Conflict3(base.sdkUrl[v], ours.sdkUrl[v], theirs.sdkUrl[v])
    /\ ~ Conflict3(base.recorded[v], ours.recorded[v], theirs.recorded[v])

MergeVersions(base, ours, theirs) ==
  [v \in Versions |-> Merge3(base[v], ours[v], theirs[v])]

MergeTrees(base, ours, theirs) ==
  [edits     |-> {e \in Edits : Merge3(e \in base.edits, e \in ours.edits, e \in theirs.edits)},
   runtime   |-> MergeVersions(base.runtime, ours.runtime, theirs.runtime),
   sdk       |-> MergeVersions(base.sdk, ours.sdk, theirs.sdk),
   dotnetUrl |-> MergeVersions(base.dotnetUrl, ours.dotnetUrl, theirs.dotnetUrl),
   sdkUrl    |-> MergeVersions(base.sdkUrl, ours.sdkUrl, theirs.sdkUrl),
   recorded  |-> MergeVersions(base.recorded, ours.recorded, theirs.recorded)]
==============================================================================
