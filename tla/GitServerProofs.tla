---------------------------- MODULE GitServerProofs ----------------------------
(***************************************************************************)
(* What the proofs of both commands use: the contents that updates and     *)
(* merges make of a branch's content, and the commits of the server.       *)
(***************************************************************************)
EXTENDS GitServer, WellFoundedInduction, TLAPS

-----------------------------------------------------------------------------
(* Numbers.                                                                *)

\* A set of numbers has a least element ...
LEMMA Least ==
  ASSUME NEW T \in SUBSET Nat, T # {}
  PROVE  \E m \in T : \A k \in T : m <= k
<1> DEFINE R == OpToRel(<, Nat)
<1>1. IsWellFoundedOn(R, Nat)
  BY NatLessThanWellFounded
<1>2. \A x, y \in Nat : x < y => <<x, y>> \in R
  BY DEF OpToRel
<1> HIDE DEF R
<1>3. PICK x \in T : \A y \in T : ~ (<<y, x>> \in R)
  BY <1>1, WFMin
<1>4. ASSUME NEW y \in T
      PROVE  x <= y
  <2>1. x \in Nat /\ y \in Nat /\ ~ (<<y, x>> \in R)
    BY <1>3
  <2>2. ~ (y < x)
    BY <1>2, <2>1
  <2>3. QED
    BY <2>1, <2>2
<1>5. QED
  BY <1>4

\* ... and, if it is bounded, a greatest.
LEMMA Greatest ==
  ASSUME NEW T \in SUBSET Nat, T # {}, NEW n \in Nat, \A k \in T : k <= n
  PROVE  \E m \in T : \A k \in T : k <= m
<1> DEFINE D == {n - k : k \in T}
<1>1. D \in SUBSET Nat /\ D # {}
  <2>1. \A k \in T : n - k \in Nat
    BY SMT
  <2>2. QED
    BY <2>1
<1>2. PICK d \in D : \A e \in D : d <= e
  BY <1>1, Least
<1>3. PICK m \in T : d = n - m
  OBVIOUS
<1>4. ASSUME NEW k \in T
      PROVE  k <= m
  <2>1. n - m <= n - k
    BY <1>2, <1>3
  <2>2. QED
    BY <2>1
<1>5. QED
  BY <1>4

-----------------------------------------------------------------------------
(* Contents that updates make.                                             *)

\* The first content of a branch is well formed.
LEMMA FirstTreeType == FirstTree \in Tree
  BY DEF FirstTree, Tree, Nothing, FirstBuilds, Layer, Public, Recorded

\* The from-staging-pipeline command keeps a content well formed.
LEMMA ApplyType ==
  ASSUME NEW tree \in Tree, NEW c \in Containers
  PROVE  /\ ApplyInternalBuild(tree, c) \in Tree
         /\ ApplyPublicBuild(tree, c) \in Tree
<1>1. /\ VersionOf[c] \in Versions /\ c \in Recorded
      /\ Internal(c) \in Layer /\ Public(c) \in Layer
  BY ContentAssumption DEF Recorded, Layer, Internal, Public
<1>2. ASSUME NEW t \in Tree, NEW layer \in Layer
      PROVE  SetProductVersions(t, c, layer) \in Tree
  BY <1>1, <1>2 DEF SetProductVersions, Tree
<1>3. ASSUME NEW t \in Tree
      PROVE  SetBaseUrl(t, c) \in Tree
  BY <1>1, <1>3 DEF SetBaseUrl, Tree
<1>4. Record(tree, c) \in Tree
  BY <1>1 DEF Record, Tree
<1>5. QED
  BY <1>1, <1>2, <1>3, <1>4 DEF ApplyInternalBuild, ApplyPublicBuild

\* The types of a content's fields.
LEMMA FieldTypes ==
  ASSUME NEW tree \in Tree, NEW v \in Versions
  PROVE  /\ tree.recorded[v] \in Nat /\ tree.dotnetUrl[v] \in Nat /\ tree.sdkUrl[v] \in Nat
         /\ tree.recorded[v] \in Recorded
         /\ tree.runtime[v] \in Layer /\ tree.sdk[v] \in Layer
         /\ tree.runtime[v].build \in Nat /\ tree.sdk[v].build \in Nat
<1>1. Recorded \subseteq Nat
  BY ContentAssumption DEF Recorded, NoContainer
<1>2. /\ tree.recorded[v] \in Recorded /\ tree.dotnetUrl[v] \in Recorded
      /\ tree.sdkUrl[v] \in Recorded
      /\ tree.runtime[v] \in Layer /\ tree.sdk[v] \in Layer
  BY DEF Tree
<1>3. QED
  BY <1>1, <1>2 DEF Layer

Fields(edits, runtime, sdk, dotnetUrl, sdkUrl, recorded) ==
  [edits |-> edits, runtime |-> runtime, sdk |-> sdk,
   dotnetUrl |-> dotnetUrl, sdkUrl |-> sdkUrl, recorded |-> recorded]

IsTree(t) == t = Fields(t.edits, t.runtime, t.sdk, t.dotnetUrl, t.sdkUrl, t.recorded)

\* What one application of an internal build does to each field.
LEMMA ApplyFields ==
  ASSUME NEW old, IsTree(old), NEW c
  PROVE  LET v == VersionOf[c]
         IN ApplyInternalBuild(old, c) =
              Fields(old.edits,
                     IF c \in SdkOnly THEN [old.runtime EXCEPT ![v] = @]
                     ELSE [old.runtime EXCEPT ![v] = Internal(c)],
                     [old.sdk EXCEPT ![v] = Internal(c)],
                     IF c \in SdkOnly THEN old.dotnetUrl ELSE [old.dotnetUrl EXCEPT ![v] = c],
                     IF c \in SdkOnly THEN [old.sdkUrl EXCEPT ![v] = c] ELSE old.sdkUrl,
                     [old.recorded EXCEPT ![v] = c])
<1> DEFINE v  == VersionOf[c]
           r1 == Record(old, c)
           r2 == SetBaseUrl(r1, c)
           r3 == [r2 EXCEPT !.sdk[v] = Internal(c)]
           recorded == [old.recorded EXCEPT ![v] = c]
           dotnetUrl == IF c \in SdkOnly THEN old.dotnetUrl ELSE [old.dotnetUrl EXCEPT ![v] = c]
           sdkUrl == IF c \in SdkOnly THEN [old.sdkUrl EXCEPT ![v] = c] ELSE old.sdkUrl
           sdk == [old.sdk EXCEPT ![v] = Internal(c)]
<1>1. r1 = Fields(old.edits, old.runtime, old.sdk, old.dotnetUrl, old.sdkUrl, recorded)
  BY DEF Record, IsTree, Fields
<1> HIDE DEF r1, recorded
<1>2. r2 = Fields(old.edits, old.runtime, old.sdk, dotnetUrl, sdkUrl, recorded)
  BY <1>1 DEF SetBaseUrl, Fields
<1> HIDE DEF r2, dotnetUrl, sdkUrl
<1>3. r3 = Fields(old.edits, old.runtime, sdk, dotnetUrl, sdkUrl, recorded)
  BY <1>2 DEF Fields
<1>4. SetProductVersions(r2, c, Internal(c))
        = [r3 EXCEPT !.runtime[v] = IF c \in SdkOnly THEN r2.runtime[v] ELSE Internal(c)]
  BY DEF SetProductVersions
<1> HIDE DEF r3, sdk
<1>5. r2.runtime = old.runtime
  BY <1>2 DEF Fields
<1>6. [r3 EXCEPT !.runtime[v] = IF c \in SdkOnly THEN r2.runtime[v] ELSE Internal(c)]
        = Fields(old.edits,
                 IF c \in SdkOnly THEN [old.runtime EXCEPT ![v] = @] ELSE [old.runtime EXCEPT ![v] = Internal(c)],
                 sdk, dotnetUrl, sdkUrl, recorded)
  BY <1>3, <1>5 DEF Fields
<1>7. ApplyInternalBuild(old, c) = SetProductVersions(r2, c, Internal(c))
  BY DEF ApplyInternalBuild, r1, r2
<1>8. QED
  BY <1>4, <1>6, <1>7 DEF sdk, dotnetUrl, sdkUrl, recorded

\* A staged build that is newer than the recorded one.
LEMMA InternalFields ==
  ASSUME NEW tree \in Tree, NEW c \in Containers
  PROVE  LET new == ApplyInternalBuild(tree, c)
             full == c \notin SdkOnly
         IN /\ new.edits = tree.edits
            /\ \A v \in Versions :
                 /\ new.recorded[v] = IF v = VersionOf[c] THEN c ELSE tree.recorded[v]
                 /\ new.sdk[v] = IF v = VersionOf[c] THEN Internal(c) ELSE tree.sdk[v]
                 /\ new.runtime[v] = IF v = VersionOf[c] /\ full THEN Internal(c) ELSE tree.runtime[v]
                 /\ new.dotnetUrl[v] = IF v = VersionOf[c] /\ full THEN c ELSE tree.dotnetUrl[v]
                 /\ new.sdkUrl[v] = IF v = VersionOf[c] /\ ~ full THEN c ELSE tree.sdkUrl[v]
<1>1. IsTree(tree)
  BY DEF IsTree, Fields, Tree
<1>2. /\ DOMAIN tree.recorded = Versions /\ DOMAIN tree.sdk = Versions
      /\ DOMAIN tree.runtime = Versions /\ DOMAIN tree.dotnetUrl = Versions
      /\ DOMAIN tree.sdkUrl = Versions
  BY DEF Tree
<1>3. QED
  BY <1>1, <1>2, ApplyFields DEF Fields

\* The public release of a build on the release branch.
LEMMA PublicFields ==
  ASSUME NEW tree \in Tree, NEW c \in Containers
  PROVE  LET new == ApplyPublicBuild(tree, c)
         IN /\ new.edits = tree.edits /\ new.recorded = tree.recorded
            /\ new.dotnetUrl = tree.dotnetUrl /\ new.sdkUrl = tree.sdkUrl
            /\ \A v \in Versions :
                 /\ new.sdk[v] = IF v = VersionOf[c] THEN Public(c) ELSE tree.sdk[v]
                 /\ new.runtime[v] = IF v = VersionOf[c] /\ c \notin SdkOnly THEN Public(c)
                                     ELSE tree.runtime[v]
  BY ContentAssumption DEF Tree, ApplyPublicBuild, SetProductVersions

-----------------------------------------------------------------------------
(* The three-way merge.                                                    *)

\* A three-way merge of well-formed contents is well formed, whatever its base.
LEMMA MergeType ==
  ASSUME NEW base, NEW ours \in Tree, NEW theirs \in Tree
  PROVE  MergeTrees(base, ours, theirs) \in Tree
<1>1. ASSUME NEW T, NEW b, NEW o \in [Versions -> T], NEW t \in [Versions -> T]
      PROVE  MergeVersions(b, o, t) \in [Versions -> T]
  BY <1>1 DEF MergeVersions, Merge3
<1>2. QED
  BY <1>1 DEF MergeTrees, Tree

\* A side that changed a field has its way.
LEMMA ChangedWins ==
  ASSUME NEW base, NEW ours, NEW theirs, ~ Conflict3(base, ours, theirs)
  PROVE  /\ Merge3(base, ours, theirs) \in {ours, theirs}
         /\ ours # base => Merge3(base, ours, theirs) = ours
         /\ theirs # base => Merge3(base, ours, theirs) = theirs
         /\ ours = theirs => Merge3(base, ours, theirs) = ours
  BY DEF Conflict3, Merge3

\* The fields of a merged content.
LEMMA MergedFields ==
  ASSUME NEW base, NEW ours, NEW theirs, NEW v \in Versions
  PROVE  LET merged == MergeTrees(base, ours, theirs)
         IN /\ merged.runtime[v] = Merge3(base.runtime[v], ours.runtime[v], theirs.runtime[v])
            /\ merged.sdk[v] = Merge3(base.sdk[v], ours.sdk[v], theirs.sdk[v])
            /\ merged.dotnetUrl[v] = Merge3(base.dotnetUrl[v], ours.dotnetUrl[v], theirs.dotnetUrl[v])
            /\ merged.sdkUrl[v] = Merge3(base.sdkUrl[v], ours.sdkUrl[v], theirs.sdkUrl[v])
            /\ merged.recorded[v] = Merge3(base.recorded[v], ours.recorded[v], theirs.recorded[v])
  BY DEF MergeTrees, MergeVersions

-----------------------------------------------------------------------------
(* Commits.                                                                *)

\* The server never changes a commit it has.
LEMMA AppendCommit ==
  ASSUME commits \in Seq(Commit), NEW parents \in SUBSET CommitIds, NEW tree \in Tree,
         AddCommit(parents, tree)
  PROVE  /\ commits' \in Seq(Commit)
         /\ Len(commits') = NewCommit
         /\ NewCommit \in CommitIds'
         /\ \A i \in CommitIds : i \in CommitIds' /\ commits'[i] = commits[i]
         /\ \A i \in CommitIds' : i \in CommitIds \/ i = NewCommit
         /\ commits'[NewCommit].tree = tree
         /\ commits'[NewCommit].ancestors = {NewCommit} \cup UNION {Ancestors(p) : p \in parents}
<1> DEFINE new == [ancestors |-> {Len(commits) + 1} \cup UNION {Ancestors(p) : p \in parents},
                   tree      |-> tree]
<1>1. Len(commits) \in Nat
  OBVIOUS
<1>2. new \in Commit
  <2>1. ASSUME NEW p \in parents
        PROVE  Ancestors(p) \subseteq Nat
    <3>1. commits[p] \in Commit
      BY DEF CommitIds
    <3>2. QED
      BY <3>1 DEF Ancestors, Commit
  <2> QED
    BY <1>1, <2>1 DEF Commit
<1>3. commits' = Append(commits, new)
  BY DEF AddCommit
<1>4. new.tree = tree /\ new.ancestors = {NewCommit} \cup UNION {Ancestors(p) : p \in parents}
  BY DEF NewCommit
<1> HIDE DEF new
<1>5. QED
  BY <1>1, <1>2, <1>3, <1>4 DEF CommitIds, NewCommit

\* The ancestors of a commit are commits.
LEMMA AncestorsAreCommits ==
  ASSUME commits \in Seq(Commit), CommitsOK, NEW i \in CommitIds
  PROVE  Ancestors(i) \subseteq CommitIds
<1>1. Ancestors(i) \subseteq 1 .. i /\ i \in 1 .. Len(commits) /\ Len(commits) \in Nat
  BY DEF CommitsOK, CommitIds
<1>2. \A k \in 1 .. i : k \in CommitIds
  BY <1>1 DEF CommitIds
<1>3. QED
  BY <1>1, <1>2

\* A new commit is younger than its ancestors.
LEMMA CommitsStayOK ==
  ASSUME commits \in Seq(Commit), CommitsOK,
         NEW parents \in SUBSET CommitIds, NEW tree \in Tree, AddCommit(parents, tree)
  PROVE  CommitsOK'
<1>1. /\ \A i \in CommitIds : i \in CommitIds' /\ commits'[i] = commits[i]
      /\ \A i \in CommitIds' : i \in CommitIds \/ i = NewCommit
      /\ commits'[NewCommit].ancestors = {NewCommit} \cup UNION {Ancestors(p) : p \in parents}
  BY AppendCommit
<1>2. ASSUME NEW i \in CommitIds'
      PROVE  i \in Ancestors(i)' /\ Ancestors(i)' \subseteq 1 .. i
  <2>1. CASE i \in CommitIds
    BY <1>1, <2>1 DEF CommitsOK, Ancestors
  <2>2. CASE i = NewCommit
    <3>1. \A p \in parents : Ancestors(p) \subseteq 1 .. NewCommit
      BY DEF CommitsOK, CommitIds, NewCommit
    <3>2. NewCommit \in 1 .. NewCommit
      BY DEF NewCommit
    <3>3. QED
      BY <1>1, <2>2, <3>1, <3>2 DEF Ancestors
  <2>3. QED
    BY <1>1, <1>2, <2>1, <2>2
<1>3. QED
  BY <1>2 DEF CommitsOK

\* A new commit has its parents' ancestors.
LEMMA HistoriesStayClosed ==
  ASSUME commits \in Seq(Commit), CommitsOK, HistoriesClosed,
         NEW parents \in SUBSET CommitIds, NEW tree \in Tree, AddCommit(parents, tree)
  PROVE  HistoriesClosed'
<1>1. /\ \A i \in CommitIds : i \in CommitIds' /\ commits'[i] = commits[i]
      /\ \A i \in CommitIds' : i \in CommitIds \/ i = NewCommit
      /\ commits'[NewCommit].ancestors = {NewCommit} \cup UNION {Ancestors(p) : p \in parents}
  BY AppendCommit
<1>2. ASSUME NEW i \in CommitIds', NEW j \in commits'[i].ancestors
      PROVE  commits'[j].ancestors \subseteq commits'[i].ancestors
  <2>1. CASE i \in CommitIds
    <3>1. j \in Ancestors(i) /\ j \in CommitIds
      BY <1>1, <2>1, AncestorsAreCommits DEF Ancestors
    <3>2. QED
      BY <1>1, <2>1, <3>1 DEF Ancestors, HistoriesClosed
  <2>2. CASE i = NewCommit /\ j # NewCommit
    <3>1. PICK p \in parents : j \in Ancestors(p)
      BY <1>1, <2>2
    <3>2. p \in CommitIds /\ j \in CommitIds
      BY <3>1, AncestorsAreCommits
    <3>3. Ancestors(j) \subseteq Ancestors(p) /\ commits'[j].ancestors = Ancestors(j)
      BY <1>1, <3>1, <3>2 DEF Ancestors, HistoriesClosed
    <3>4. Ancestors(p) \subseteq commits'[i].ancestors
      BY <1>1, <2>2, <3>1
    <3>5. QED
      BY <3>3, <3>4
  <2>3. QED
    BY <1>1, <2>1, <2>2
<1>3. QED
  BY <1>2 DEF HistoriesClosed, Ancestors

\* The number of a new commit is in no history.
LEMMA NewCommitIsNew ==
  ASSUME commits \in Seq(Commit), CommitsOK, NEW i \in CommitIds
  PROVE  NewCommit \notin Ancestors(i) /\ NewCommit \notin CommitIds
<1>1. Len(commits) \in Nat
  OBVIOUS
<1>2. QED
  BY <1>1, AncestorsAreCommits DEF CommitIds, NewCommit
==============================================================================
