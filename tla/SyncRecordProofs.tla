--------------------------- MODULE SyncRecordProofs ---------------------------
(***************************************************************************)
(* Proof that a branch which records a build contains it, whatever was     *)
(* merged into the branch and in which order: the three-way merge of       *)
(* contents that hold their records holds its own.                         *)
(***************************************************************************)
EXTENDS SyncProofs

-----------------------------------------------------------------------------
(* The merge base.                                                         *)

\* Commits that share their first ancestor have a merge base.
LEMMA MergeBaseExists ==
  ASSUME TypeInv, Rooted, NEW i \in CommitIds, NEW j \in CommitIds
  PROVE  LET base == MergeBase(i, j)
         IN /\ base \in CommitIds /\ base \in Ancestors(i) /\ base \in Ancestors(j)
            /\ \A l \in Ancestors(i) \cap Ancestors(j) : l <= base
<1> DEFINE Common == Ancestors(i) \cap Ancestors(j)
<1>1. Len(commits) \in Nat /\ i \in 1 .. Len(commits)
  BY DEF TypeInv, TypeOK, CommitIds
<1>2. Common \subseteq 1 .. i /\ 1 \in Common
  BY DEF TypeInv, CommitsOK, Rooted
<1>3. Common \in SUBSET Nat /\ Common # {} /\ i \in Nat /\ \A k \in Common : k <= i
  BY <1>1, <1>2
<1> HIDE DEF Common
<1>4. \E k \in Common : \A l \in Common : l <= k
  BY <1>3, Greatest
<1>5. MergeBase(i, j) = CHOOSE k \in Common : \A l \in Common : l <= k
  BY DEF MergeBase, Common
<1>6. MergeBase(i, j) \in Common /\ \A l \in Common : l <= MergeBase(i, j)
  BY <1>4, <1>5
<1>7. MergeBase(i, j) \in CommitIds
  <2>1. \A k \in 1 .. i : k \in CommitIds
    BY <1>1 DEF CommitIds
  <2>2. QED
    BY <1>2, <1>6, <2>1
<1>8. QED
  BY <1>6, <1>7 DEF Common

-----------------------------------------------------------------------------
(* The three-way merge.                                                    *)

Holds(tree) == RecordsHold(tree) /\ BehindRecord(tree)

\* Two sides that hold their records, and record nothing older than their base,
\* merge to a content that holds its records, and records nothing older than
\* either side: a side that records the newer build also has its versions and its
\* base URL, and the base has neither.
LEMMA MergeHolds ==
  ASSUME NEW base \in Tree, NEW ours \in Tree, NEW theirs \in Tree,
         Holds(base), Holds(ours), Holds(theirs),
         NotOlder(base, ours), NotOlder(base, theirs), Mergeable(base, ours, theirs)
  PROVE  LET merged == MergeTrees(base, ours, theirs)
         IN Holds(merged) /\ NotOlder(ours, merged) /\ NotOlder(theirs, merged)
<1> DEFINE merged == MergeTrees(base, ours, theirs)
<1>1. merged \in Tree
  BY MergeType
<1> HIDE DEF merged
<1>2. ASSUME NEW v \in Versions
      PROVE  /\ merged.recorded[v] \in {ours.recorded[v], theirs.recorded[v]}
             /\ ours.recorded[v] <= merged.recorded[v] /\ theirs.recorded[v] <= merged.recorded[v]
  <2>1. base.recorded[v] <= ours.recorded[v] /\ base.recorded[v] <= theirs.recorded[v]
    BY DEF NotOlder
  <2>2. /\ merged.recorded[v] = Merge3(base.recorded[v], ours.recorded[v], theirs.recorded[v])
        /\ ~ Conflict3(base.recorded[v], ours.recorded[v], theirs.recorded[v])
    BY MergedFields DEF merged, Mergeable
  <2>3. /\ base.recorded[v] \in Nat /\ ours.recorded[v] \in Nat /\ theirs.recorded[v] \in Nat
    BY FieldTypes
  <2>4. QED
    BY <2>1, <2>2, <2>3 DEF Merge3, Conflict3
<1>3. ASSUME NEW v \in Versions, merged.recorded[v] # NoContainer
      PROVE  LET c == merged.recorded[v]
             IN /\ merged.sdk[v] = Internal(c)
                /\ IF c \in SdkOnly THEN merged.sdkUrl[v] = c
                   ELSE merged.runtime[v] = Internal(c) /\ merged.dotnetUrl[v] = c
  <2> DEFINE c == merged.recorded[v]
             Has(tree) == /\ tree.sdk[v] = Internal(c)
                          /\ IF c \in SdkOnly THEN tree.sdkUrl[v] = c
                             ELSE tree.runtime[v] = Internal(c) /\ tree.dotnetUrl[v] = c
  <2>1. \A tree \in {base, ours, theirs} : tree.recorded[v] = c => Has(tree)
    BY <1>3 DEF Holds, RecordsHold, RecordHolds
  <2>2. /\ merged.runtime[v] = Merge3(base.runtime[v], ours.runtime[v], theirs.runtime[v])
        /\ merged.sdk[v] = Merge3(base.sdk[v], ours.sdk[v], theirs.sdk[v])
        /\ merged.dotnetUrl[v] = Merge3(base.dotnetUrl[v], ours.dotnetUrl[v], theirs.dotnetUrl[v])
        /\ merged.sdkUrl[v] = Merge3(base.sdkUrl[v], ours.sdkUrl[v], theirs.sdkUrl[v])
        /\ ~ Conflict3(base.runtime[v], ours.runtime[v], theirs.runtime[v])
        /\ ~ Conflict3(base.sdk[v], ours.sdk[v], theirs.sdk[v])
        /\ ~ Conflict3(base.dotnetUrl[v], ours.dotnetUrl[v], theirs.dotnetUrl[v])
        /\ ~ Conflict3(base.sdkUrl[v], ours.sdkUrl[v], theirs.sdkUrl[v])
    BY MergedFields DEF merged, Mergeable
  <2>3. /\ base.recorded[v] \in Nat /\ c \in Nat /\ c # 0
        /\ base.recorded[v] <= ours.recorded[v] /\ base.recorded[v] <= theirs.recorded[v]
        /\ ours.recorded[v] \in Nat /\ theirs.recorded[v] \in Nat
    BY <1>1, <1>3, FieldTypes DEF NotOlder, NoContainer
  <2>4. CASE base.recorded[v] = c
    <3>1. ours.recorded[v] = c /\ theirs.recorded[v] = c
      BY <1>2, <2>3, <2>4
    <3>2. Has(ours) /\ Has(theirs)
      BY <2>1, <3>1
    <3>3. QED
      BY <2>2, <3>2 DEF Merge3
  <2>5. CASE base.recorded[v] # c
    <3>1. base.recorded[v] < c
      BY <1>2, <2>3, <2>5
    <3>2. ~ (c <= base.recorded[v])
      BY <2>3, <3>1
    <3>3. /\ base.sdk[v] # Internal(c) /\ base.runtime[v] # Internal(c)
          /\ base.dotnetUrl[v] # c /\ base.sdkUrl[v] # c
      <4>1. /\ base.runtime[v].internal => base.runtime[v].build \in 1 .. base.recorded[v]
            /\ base.sdk[v].internal => base.sdk[v].build \in 1 .. base.recorded[v]
            /\ base.dotnetUrl[v] = IF base.runtime[v].internal THEN base.runtime[v].build ELSE 0
            /\ base.sdkUrl[v] <= base.recorded[v]
        BY DEF Holds, BehindRecord, NoContainer
      <4>2. Internal(c).internal = TRUE /\ Internal(c).build = c
        BY DEF Internal
      <4>3. QED
        BY <2>3, <3>2, <4>1, <4>2
    <3>4. PICK side \in {ours, theirs} : side.recorded[v] = c
      BY <1>2
    <3>5. Has(side)
      BY <2>1, <3>4
    <3>6. QED
      BY <2>2, <3>3, <3>4, <3>5, ChangedWins
  <2>6. QED
    BY <2>4, <2>5
<1>4. RecordsHold(merged)
  BY <1>3 DEF RecordsHold, RecordHolds
<1>5. ASSUME NEW v \in Versions
      PROVE  LET c == merged.recorded[v]
             IN /\ merged.runtime[v].internal => merged.runtime[v].build \in 1 .. c
                /\ merged.sdk[v].internal => merged.sdk[v].build \in 1 .. c
                /\ merged.sdkUrl[v] <= c
  <2>1. \A side \in {ours, theirs} :
          /\ side.recorded[v] \in Nat /\ side.recorded[v] <= merged.recorded[v]
          /\ side.runtime[v].internal => side.runtime[v].build \in 1 .. side.recorded[v]
          /\ side.sdk[v].internal => side.sdk[v].build \in 1 .. side.recorded[v]
          /\ side.sdkUrl[v] <= side.recorded[v] /\ side.sdkUrl[v] \in Nat
    BY <1>2, FieldTypes DEF Holds, BehindRecord
  <2>2. merged.recorded[v] \in Nat
    BY <1>1, FieldTypes
  <2>3. /\ merged.runtime[v] \in {ours.runtime[v], theirs.runtime[v]}
        /\ merged.sdk[v] \in {ours.sdk[v], theirs.sdk[v]}
        /\ merged.sdkUrl[v] \in {ours.sdkUrl[v], theirs.sdkUrl[v]}
    BY MergedFields DEF merged, Merge3
  <2>4. QED
    BY <2>1, <2>2, <2>3
\* The runtime's base URL is a function of its version variables, and merges like them.
<1>6. ASSUME NEW v \in Versions
      PROVE  merged.dotnetUrl[v]
               = IF merged.runtime[v].internal THEN merged.runtime[v].build ELSE NoContainer
  <2>1. \A tree \in {base, ours, theirs} :
          tree.dotnetUrl[v] = IF tree.runtime[v].internal THEN tree.runtime[v].build ELSE NoContainer
    BY DEF Holds, BehindRecord
  <2>2. /\ merged.runtime[v] = Merge3(base.runtime[v], ours.runtime[v], theirs.runtime[v])
        /\ merged.dotnetUrl[v] = Merge3(base.dotnetUrl[v], ours.dotnetUrl[v], theirs.dotnetUrl[v])
        /\ ~ Conflict3(base.runtime[v], ours.runtime[v], theirs.runtime[v])
        /\ ~ Conflict3(base.dotnetUrl[v], ours.dotnetUrl[v], theirs.dotnetUrl[v])
    BY MergedFields DEF merged, Mergeable
  <2>3. QED
    BY <2>1, <2>2 DEF Merge3, Conflict3
<1>7. QED
  BY <1>2, <1>4, <1>5, <1>6 DEF Holds, BehindRecord, NotOlder, merged

-----------------------------------------------------------------------------
(* The contents that are committed.                                        *)

\* The release branch holds nothing internal.
Unrecorded(tree) == tree.recorded = Nothing

LEMMA UnrecordedIsPublic ==
  ASSUME NEW tree \in Tree, Holds(tree), Unrecorded(tree), NEW v \in Versions
  PROVE  /\ tree.recorded[v] = 0 /\ tree.dotnetUrl[v] = 0 /\ tree.sdkUrl[v] = 0
         /\ ~ tree.runtime[v].internal /\ ~ tree.sdk[v].internal
<1>1. tree.recorded[v] = 0
  BY DEF Unrecorded, Nothing, NoContainer
<1>2. /\ tree.runtime[v].internal => tree.runtime[v].build \in 1 .. 0
      /\ tree.sdk[v].internal => tree.sdk[v].build \in 1 .. 0
      /\ tree.dotnetUrl[v] = IF tree.runtime[v].internal THEN tree.runtime[v].build ELSE 0
      /\ tree.sdkUrl[v] <= 0
  BY <1>1 DEF Holds, BehindRecord, NoContainer
<1>3. tree.sdkUrl[v] \in Nat
  BY FieldTypes
<1>4. QED
  BY <1>1, <1>2, <1>3

LEMMA PublicHolds ==
  ASSUME NEW tree \in Tree, Unrecorded(tree),
         \A v \in Versions :
           /\ ~ tree.runtime[v].internal /\ ~ tree.sdk[v].internal
           /\ tree.dotnetUrl[v] = 0 /\ tree.sdkUrl[v] = 0
  PROVE  Holds(tree)
  BY DEF Holds, RecordsHold, RecordHolds, BehindRecord, Unrecorded, Nothing, NoContainer

LEMMA FirstTreeHolds == Holds(FirstTree) /\ Unrecorded(FirstTree)
<1>1. Unrecorded(FirstTree)
  BY DEF Unrecorded, FirstTree
<1>2. \A v \in Versions :
        /\ ~ FirstTree.runtime[v].internal /\ ~ FirstTree.sdk[v].internal
        /\ FirstTree.dotnetUrl[v] = 0 /\ FirstTree.sdkUrl[v] = 0
  BY DEF FirstTree, FirstBuilds, Nothing, Public, NoContainer
<1>3. QED
  BY <1>1, <1>2, FirstTreeType, PublicHolds

\* A change of the release branch that is not a build.
LEMMA EditHolds ==
  ASSUME NEW tree \in Tree, Holds(tree), NEW e \in Edits
  PROVE  LET new == [tree EXCEPT !.edits = @ \cup {e}]
         IN Holds(new) /\ new.recorded = tree.recorded
  BY DEF Tree, Holds, RecordsHold, RecordHolds, BehindRecord

LEMMA UnrecordedNotOlder ==
  ASSUME NEW old, NEW new, Unrecorded(old), Unrecorded(new)
  PROVE  NotOlder(old, new)
<1>1. ASSUME NEW v \in Versions
      PROVE  old.recorded[v] <= new.recorded[v]
  <2>1. old.recorded[v] = 0 /\ new.recorded[v] = 0
    BY DEF Unrecorded, Nothing, NoContainer
  <2>2. QED
    BY <2>1
<1>2. QED
  BY <1>1, Zenon DEF NotOlder

LEMMA PublicBuildHolds ==
  ASSUME NEW tree \in Tree, Holds(tree), Unrecorded(tree), NEW c \in Containers
  PROVE  LET new == ApplyPublicBuild(tree, c)
         IN Holds(new) /\ Unrecorded(new)
<1> DEFINE new == ApplyPublicBuild(tree, c)
<1>1. new \in Tree
  BY ApplyType
<1>2. Public(c).internal = FALSE
  BY DEF Public
<1>3. /\ new.recorded = tree.recorded /\ new.dotnetUrl = tree.dotnetUrl /\ new.sdkUrl = tree.sdkUrl
      /\ \A v \in Versions :
           new.sdk[v] \in {Public(c), tree.sdk[v]} /\ new.runtime[v] \in {Public(c), tree.runtime[v]}
  BY PublicFields
<1> HIDE DEF new
<1>4. Unrecorded(new)
  BY <1>3 DEF Unrecorded
<1>5. QED
  BY <1>1, <1>2, <1>3, <1>4, UnrecordedIsPublic, PublicHolds DEF new

LEMMA InternalBuildHolds ==
  ASSUME NEW tree \in Tree, Holds(tree), NEW c \in Containers, tree.recorded[VersionOf[c]] < c
  PROVE  LET new == ApplyInternalBuild(tree, c)
         IN Holds(new) /\ NotOlder(tree, new)
<1> DEFINE new == ApplyInternalBuild(tree, c)
<1>1. c \in Nat /\ c # 0 /\ VersionOf[c] \in Versions
  BY ContentAssumption
<1>2. Internal(c).internal = TRUE /\ Internal(c).build = c
  BY DEF Internal
<1>3. ASSUME NEW v \in Versions
      PROVE  /\ new.recorded[v] = IF v = VersionOf[c] THEN c ELSE tree.recorded[v]
             /\ new.sdk[v] = IF v = VersionOf[c] THEN Internal(c) ELSE tree.sdk[v]
             /\ new.runtime[v] = IF v = VersionOf[c] /\ c \notin SdkOnly THEN Internal(c)
                                 ELSE tree.runtime[v]
             /\ new.dotnetUrl[v] = IF v = VersionOf[c] /\ c \notin SdkOnly THEN c
                                   ELSE tree.dotnetUrl[v]
             /\ new.sdkUrl[v] = IF v = VersionOf[c] /\ c \in SdkOnly THEN c ELSE tree.sdkUrl[v]
  BY InternalFields
<1> HIDE DEF new
<1>4. RecordsHold(new)
  BY <1>1, <1>3 DEF RecordsHold, RecordHolds, Holds
<1>5. ASSUME NEW v \in Versions
      PROVE  /\ tree.recorded[v] <= new.recorded[v]
             /\ new.runtime[v].internal => new.runtime[v].build \in 1 .. new.recorded[v]
             /\ new.sdk[v].internal => new.sdk[v].build \in 1 .. new.recorded[v]
             /\ new.dotnetUrl[v] = IF new.runtime[v].internal THEN new.runtime[v].build ELSE 0
             /\ new.sdkUrl[v] <= new.recorded[v]
  <2>1. /\ tree.recorded[v] \in Nat /\ tree.sdkUrl[v] \in Nat
        /\ tree.runtime[v].build \in Nat /\ tree.sdk[v].build \in Nat
    BY FieldTypes
  <2>2. /\ tree.runtime[v].internal => tree.runtime[v].build \in 1 .. tree.recorded[v]
        /\ tree.sdk[v].internal => tree.sdk[v].build \in 1 .. tree.recorded[v]
        /\ tree.dotnetUrl[v] = IF tree.runtime[v].internal THEN tree.runtime[v].build ELSE 0
        /\ tree.sdkUrl[v] <= tree.recorded[v]
    BY DEF Holds, BehindRecord, NoContainer
  <2>3. CASE v # VersionOf[c]
    BY <1>3, <2>1, <2>2, <2>3
  <2>4. CASE v = VersionOf[c]
    <3>1. tree.recorded[v] < c
      BY <2>4
    <3>2. QED
      BY <1>1, <1>2, <1>3, <2>1, <2>2, <2>4, <3>1
  <2>5. QED
    BY <2>3, <2>4
<1>6. QED
  BY <1>4, <1>5 DEF Holds, BehindRecord, NotOlder, NoContainer, new

\* What a sync pushes: a content of the release branch with recorded builds on top.
LEMMA InSyncHolds ==
  ASSUME NEW source \in Tree, Holds(source), Unrecorded(source),
         NEW recorded \in [Versions -> Recorded]
  PROVE  LET tree == InSyncWith(source, recorded)
         IN Holds(tree) /\ \A v \in Versions : tree.recorded[v] = recorded[v]
<1> DEFINE tree == InSyncWith(source, recorded)
<1>1. ASSUME NEW v \in Versions
      PROVE  LET c == recorded[v]
             IN /\ tree.runtime[v] = IF c # 0 /\ c \notin SdkOnly THEN Internal(c) ELSE source.runtime[v]
                /\ tree.sdk[v] = IF c # 0 THEN Internal(c) ELSE source.sdk[v]
                /\ tree.dotnetUrl[v] = IF c # 0 /\ c \notin SdkOnly THEN c ELSE source.dotnetUrl[v]
                /\ tree.sdkUrl[v] = IF c \in SdkOnly THEN c ELSE source.sdkUrl[v]
                /\ tree.recorded[v] = IF c # 0 THEN c ELSE source.recorded[v]
  BY DEF InSyncWith, NoContainer
<1> HIDE DEF tree
<1>2. \A c \in Recorded : Internal(c).internal = TRUE /\ Internal(c).build = c /\ c \in Nat
  BY ContentAssumption DEF Internal, Recorded, NoContainer
<1>3. ASSUME NEW v \in Versions
      PROVE  /\ tree.recorded[v] = recorded[v] /\ recorded[v] \in Recorded
             /\ source.dotnetUrl[v] = 0 /\ source.sdkUrl[v] = 0
             /\ ~ source.runtime[v].internal /\ ~ source.sdk[v].internal
    BY <1>1, UnrecordedIsPublic
<1>4. 0 \notin SdkOnly
  BY ContentAssumption
<1>5. RecordsHold(tree)
  BY <1>1, <1>3 DEF RecordsHold, RecordHolds, NoContainer
<1>6. ASSUME NEW v \in Versions
      PROVE  LET c == tree.recorded[v]
             IN /\ tree.runtime[v].internal => tree.runtime[v].build \in 1 .. c
                /\ tree.sdk[v].internal => tree.sdk[v].build \in 1 .. c
                /\ tree.dotnetUrl[v] = IF tree.runtime[v].internal THEN tree.runtime[v].build ELSE 0
                /\ tree.sdkUrl[v] <= c
  <2> DEFINE c == recorded[v]
  <2>1. c \in Nat /\ Internal(c).internal = TRUE /\ Internal(c).build = c
    BY <1>2, <1>3
  <2>2. CASE c = 0
    BY <1>1, <1>3, <1>4, <2>1, <2>2
  <2>3. CASE c # 0
    <3>1. c \in 1 .. c
      BY <2>1, <2>3
    <3>2. QED
      BY <1>1, <1>3, <2>1, <2>3, <3>1
  <2>4. QED
    BY <2>2, <2>3
<1>7. QED
  BY <1>3, <1>5, <1>6 DEF Holds, BehindRecord, NoContainer, tree

-----------------------------------------------------------------------------
(* The invariant is inductive.                                             *)

LEMMA TreesHold ==
  ASSUME TypeInv, CommitsHold, NEW i \in CommitIds
  PROVE  TreeOf(i) \in Tree /\ Holds(TreeOf(i))
<1>1. commits[i] \in Commit
  BY DEF TypeInv, TypeOK, CommitIds
<1>2. QED
  BY <1>1 DEF TreeOf, Commit, CommitsHold, Holds

LEMMA HeadsAreCommits ==
  ASSUME TypeInv
  PROVE  \A b \in Branches : Exists(b) => head[b] \in CommitIds
  BY DEF TypeInv, TypeOK, Exists

\* A commit whose content holds its records, and records nothing older than its
\* parents do.
LEMMA CommitHolds ==
  ASSUME TypeInv, CommitsHold, Rooted,
         NEW parents \in SUBSET CommitIds, NEW tree \in Tree, AddCommit(parents, tree),
         Holds(tree), \A p \in parents : NotOlder(TreeOf(p), tree),
         parents # {} \/ CommitIds = {}, Exists(Source)'
  PROVE  CommitsHold' /\ Rooted'
<1>1. /\ \A i \in CommitIds : i \in CommitIds' /\ commits'[i] = commits[i]
      /\ \A i \in CommitIds' : i \in CommitIds \/ i = NewCommit
      /\ commits'[NewCommit].tree = tree
      /\ commits'[NewCommit].ancestors = {NewCommit} \cup UNION {Ancestors(p) : p \in parents}
  BY AppendCommit DEF TypeInv, TypeOK
<1>2. ASSUME NEW i \in CommitIds
      PROVE  Ancestors(i) \subseteq CommitIds
  <2>1. Ancestors(i) \subseteq 1 .. i /\ i \in 1 .. Len(commits) /\ Len(commits) \in Nat
    BY DEF TypeInv, TypeOK, CommitsOK, CommitIds
  <2>2. \A k \in 1 .. i : k \in CommitIds
    BY <2>1 DEF CommitIds
  <2>3. QED
    BY <2>1, <2>2
<1>3. NewCommit \notin CommitIds
  BY DEF TypeInv, TypeOK, NewCommit, CommitIds
<1>4. ASSUME NEW i \in CommitIds'
      PROVE  /\ Holds(commits'[i].tree)
             /\ \A j \in commits'[i].ancestors : NotOlder(commits'[j].tree, commits'[i].tree)
  <2>1. CASE i \in CommitIds
    <3>1. Holds(TreeOf(i)) /\ \A j \in Ancestors(i) : NotOlder(TreeOf(j), TreeOf(i))
      BY <2>1 DEF CommitsHold, Holds
    <3>2. QED
      BY <1>1, <1>2, <2>1, <3>1 DEF TreeOf, Ancestors
  <2>2. CASE i = NewCommit
    <3>1. ASSUME NEW j \in commits'[i].ancestors
          PROVE  NotOlder(commits'[j].tree, tree)
      <4>1. CASE j = NewCommit
        <5>1. \A v \in Versions : tree.recorded[v] \in Nat
          BY FieldTypes
        <5>2. QED
          BY <1>1, <4>1, <5>1 DEF NotOlder
      <4>2. CASE j # NewCommit
        <5>1. PICK p \in parents : j \in Ancestors(p)
          BY <1>1, <2>2, <3>1, <4>2
        <5>2. p \in CommitIds /\ j \in CommitIds
          BY <1>2, <5>1
        <5>3. NotOlder(TreeOf(j), TreeOf(p)) /\ NotOlder(TreeOf(p), tree)
          BY <5>1, <5>2 DEF CommitsHold
        <5>4. \A v \in Versions :
                /\ TreeOf(j).recorded[v] \in Nat /\ TreeOf(p).recorded[v] \in Nat
                /\ tree.recorded[v] \in Nat
          BY <5>2, TreesHold, FieldTypes
        <5>5. NotOlder(TreeOf(j), tree)
          BY <5>3, <5>4 DEF NotOlder
        <5>6. QED
          BY <1>1, <5>2, <5>5 DEF TreeOf
      <4>3. QED
        BY <4>1, <4>2
    <3>2. QED
      BY <1>1, <2>2, <3>1
  <2>3. QED
    BY <1>1, <2>1, <2>2
<1>5. CommitsHold'
  BY <1>4 DEF CommitsHold, Holds, RecordsHold, RecordHolds, BehindRecord, NotOlder, TreeOf, Ancestors
<1>6. ASSUME NEW i \in CommitIds'
      PROVE  1 \in commits'[i].ancestors
  <2>1. CASE i \in CommitIds
    BY <1>1, <2>1 DEF Rooted, Ancestors
  <2>2. CASE i = NewCommit /\ parents # {}
    BY <1>1, <2>2 DEF Rooted
  <2>3. CASE i = NewCommit /\ CommitIds = {}
    <3>1. Len(commits) \in Nat
      BY DEF TypeInv, TypeOK
    <3>2. Len(commits) = 0
      <4>1. 1 \notin 1 .. Len(commits)
        BY <2>3 DEF CommitIds
      <4>2. QED
        BY <3>1, <4>1
    <3>3. NewCommit = 1
      BY <3>2 DEF NewCommit
    <3>4. QED
      BY <1>1, <2>3, <3>3
  <2>4. QED
    BY <1>1, <2>1, <2>2, <2>3
<1>7. Rooted'
  BY <1>6 DEF Rooted, Ancestors
<1>8. QED
  BY <1>5, <1>7

\* A step that is neither a run's push nor one of the server's other users adds
\* no commit and leaves the release branch where it is.
LEMMA OtherSteps ==
  ASSUME TypeInv, [Next]_vars
  PROVE  \/ Environment
         \/ \E r \in Runs : Pushes(r)
         \/ UNCHANGED commits /\ head'[Source] = head[Source]
<1>1. ASSUME NEW r \in Runs, Step(r)
      PROVE  Pushes(r) \/ (UNCHANGED commits /\ head'[Source] = head[Source])
  <2>1. CASE CreateTarget(r) \/ CreateFastForwardBranch(r)
    <3>1. UNCHANGED commits
      BY <2>1 DEF CreateTarget, CreateFastForwardBranch
    <3>2. PICK b \in {Target, FastForwardBranch(r)} :
            head' = [head EXCEPT ![b] = head[Source]] \/ UNCHANGED head
      BY <2>1 DEF CreateTarget, CreateFastForwardBranch, CreateRemoteBranch, BaseBranch
    <3>3. head'[Source] = head[Source]
      BY <3>2, BranchFacts DEF TypeInv, TypeOK
    <3>4. QED
      BY <3>1, <3>3
  <2>2. CASE Push(r)
    BY <2>2 DEF Push, Pushes, Goto, server
  <2>3. CASE ~ (CreateTarget(r) \/ CreateFastForwardBranch(r) \/ Push(r))
    BY <1>1, <2>3 DEF Step, FindBranches, ReadSource, Compare, Fetch, OpenFastForward,
       ResetToSource, ReapplyBuild, OpenSync, server
  <2>4. QED
    BY <2>1, <2>2, <2>3
<1>2. QED
  BY <1>1 DEF Next, StartTriggered, StartByHand, Fail, vars, server

\* The pushes to the release branch.
LEMMA ReleasePushes ==
  ASSUME TypeInv, CommitsHold, ReleaseRecordsNothing,
         \/ CreateSource
         \/ \E e \in Edits : EditSource(e)
         \/ \E c \in Containers : ReleaseBuild(c)
  PROVE  \E tree \in Tree :
           /\ PushToSource(tree) /\ Holds(tree) /\ Unrecorded(tree)
           /\ ~ Exists(Source) => CreateSource
<1> DEFINE old == TreeOf(head[Source])
<1>1. Exists(Source) => old \in Tree /\ Holds(old) /\ Unrecorded(old)
  BY TreesHold, HeadsAreCommits, BranchFacts DEF ReleaseRecordsNothing, Unrecorded
<1>2. CASE CreateSource
  BY <1>2, FirstTreeType, FirstTreeHolds DEF CreateSource
<1>3. ASSUME NEW e \in Edits, EditSource(e)
      PROVE  \E tree \in Tree : PushToSource(tree) /\ Holds(tree) /\ Unrecorded(tree)
  <2> DEFINE new == [old EXCEPT !.edits = @ \cup {e}]
  <2>1. Exists(Source) /\ PushToSource(new)
    BY <1>3 DEF EditSource
  <2>2. new \in Tree
    BY <1>1, <2>1 DEF Tree
  <2>3. Holds(new) /\ new.recorded = old.recorded
    BY <1>1, <2>1, EditHolds
  <2>4. QED
    BY <1>1, <2>1, <2>2, <2>3 DEF Unrecorded
<1>4. ASSUME NEW c \in Containers, ReleaseBuild(c)
      PROVE  \E tree \in Tree : PushToSource(tree) /\ Holds(tree) /\ Unrecorded(tree)
  <2> DEFINE new == ApplyPublicBuild(old, c)
  <2>1. Exists(Source) /\ PushToSource(new)
    BY <1>4 DEF ReleaseBuild
  <2>2. new \in Tree /\ Holds(new) /\ Unrecorded(new)
    BY <1>1, <2>1, ApplyType, PublicBuildHolds
  <2>3. QED
    BY <2>1, <2>2
<1>5. QED
  BY <1>2, <1>3, <1>4 DEF EditSource, ReleaseBuild

LEMMA ReleasePushKeeps ==
  ASSUME TypeInv, CommitsHold, Rooted, ReleaseRecordsNothing, NEW tree \in Tree,
         PushToSource(tree), Holds(tree), Unrecorded(tree)
  PROVE  CommitsHold' /\ Rooted' /\ ReleaseRecordsNothing'
<1> DEFINE parents == IF Exists(Source) THEN {head[Source]} ELSE {}
<1>1. AddCommit(parents, tree) /\ head' = [head EXCEPT ![Source] = NewCommit]
  BY DEF PushToSource
<1>2. parents \in SUBSET CommitIds
  BY HeadsAreCommits, BranchFacts
<1>3. head'[Source] = NewCommit /\ NewCommit # NoCommit
  BY <1>1, BranchFacts DEF TypeInv, TypeOK, NewCommit, NoCommit
<1>4. parents # {} \/ CommitIds = {}
  BY DEF Rooted
<1>5. ASSUME NEW p \in parents
      PROVE  NotOlder(TreeOf(p), tree)
  <2>1. Exists(Source) /\ p = head[Source]
    OBVIOUS
  <2>2. Unrecorded(TreeOf(p))
    BY <2>1 DEF ReleaseRecordsNothing, Unrecorded
  <2>3. QED
    BY <2>2, UnrecordedNotOlder
<1>6. CommitsHold' /\ Rooted'
  BY <1>1, <1>2, <1>3, <1>4, <1>5, CommitHolds DEF Exists
<1>7. commits'[NewCommit].tree = tree
  BY <1>1, <1>2, AppendCommit DEF TypeInv, TypeOK
<1>8. ReleaseRecordsNothing'
  BY <1>3, <1>7 DEF ReleaseRecordsNothing, Unrecorded, TreeOf
<1>9. QED
  BY <1>6, <1>8

\* A commit on another branch than the release branch.
LEMMA OtherCommitKeeps ==
  ASSUME TypeInv, CommitsHold, Rooted, ReleaseRecordsNothing,
         NEW parents \in SUBSET CommitIds, parents # {}, NEW tree \in Tree,
         AddCommit(parents, tree), Holds(tree), \A p \in parents : NotOlder(TreeOf(p), tree),
         head'[Source] = head[Source]
  PROVE  CommitsHold' /\ Rooted' /\ ReleaseRecordsNothing'
<1>1. Exists(Source) /\ Exists(Source)'
  BY DEF Rooted, Exists
<1>2. CommitsHold' /\ Rooted'
  BY <1>1, CommitHolds
<1>3. \A i \in CommitIds : commits'[i] = commits[i]
  BY AppendCommit DEF TypeInv, TypeOK
<1>4. ReleaseRecordsNothing'
  BY <1>1, <1>3, HeadsAreCommits, BranchFacts DEF ReleaseRecordsNothing, TreeOf
<1>5. QED
  BY <1>2, <1>4

LEMMA StagedKeeps ==
  ASSUME TypeInv, CommitsHold, Rooted, ReleaseRecordsNothing,
         NEW c \in Containers, MergeInternalUpdate(c)
  PROVE  CommitsHold' /\ Rooted' /\ ReleaseRecordsNothing'
<1> DEFINE old == TreeOf(head[Target])
           new == ApplyInternalBuild(old, c)
<1>1. /\ Exists(Target) /\ old.recorded[VersionOf[c]] < c
      /\ AddCommit({head[Target]}, new) /\ head' = [head EXCEPT ![Target] = NewCommit]
  BY DEF MergeInternalUpdate
<1>2. head[Target] \in CommitIds
  BY <1>1, HeadsAreCommits, BranchFacts
<1>3. old \in Tree /\ Holds(old) /\ new \in Tree
  BY <1>2, TreesHold, ApplyType
<1>4. Holds(new) /\ NotOlder(old, new)
  BY <1>1, <1>3, InternalBuildHolds
<1>5. head'[Source] = head[Source]
  BY <1>1, BranchFacts DEF TypeInv, TypeOK
<1> HIDE DEF new
<1>6. {head[Target]} \in SUBSET CommitIds /\ \A p \in {head[Target]} : NotOlder(TreeOf(p), new)
  BY <1>2, <1>4
<1>7. QED
  BY <1>1, <1>3, <1>4, <1>5, <1>6, OtherCommitKeeps

\* The server merges two branches: what it commits holds its records.
LEMMA MergedTree ==
  ASSUME TypeInv, CommitsHold, Rooted, NEW ours \in CommitIds, NEW theirs \in CommitIds,
         Mergeable(TreeOf(MergeBase(ours, theirs)), TreeOf(ours), TreeOf(theirs))
  PROVE  LET merged == MergeTrees(TreeOf(MergeBase(ours, theirs)), TreeOf(ours), TreeOf(theirs))
         IN /\ merged \in Tree /\ Holds(merged)
            /\ NotOlder(TreeOf(ours), merged) /\ NotOlder(TreeOf(theirs), merged)
<1> DEFINE base == MergeBase(ours, theirs)
<1>1. base \in CommitIds /\ base \in Ancestors(ours) /\ base \in Ancestors(theirs)
  BY MergeBaseExists
<1> HIDE DEF base
<1>2. \A i \in {base, ours, theirs} : TreeOf(i) \in Tree /\ Holds(TreeOf(i))
  BY <1>1, TreesHold
<1>3. NotOlder(TreeOf(base), TreeOf(ours)) /\ NotOlder(TreeOf(base), TreeOf(theirs))
  BY <1>1 DEF CommitsHold
<1>4. QED
  BY <1>2, <1>3, MergeType, MergeHolds DEF base

LEMMA CompletionKeeps ==
  ASSUME TypeInv, CommitsHold, Rooted, ReleaseRecordsNothing,
         NEW p \in prs, NEW style \in MergeStyles, CompletePullRequest(p, style)
  PROVE  CommitsHold' /\ Rooted' /\ ReleaseRecordsNothing'
<1> DEFINE ours   == head[Target]
           theirs == head[p.branch]
           merged == MergeTrees(TreeOf(MergeBase(ours, theirs)), TreeOf(ours), TreeOf(theirs))
<1>1. ours \in CommitIds /\ theirs \in CommitIds
  BY HeadsAreCommits, BranchFacts DEF TypeInv, TypeOK, PrsOK, PullRequest
<1>2. /\ Mergeable(TreeOf(MergeBase(ours, theirs)), TreeOf(ours), TreeOf(theirs))
      /\ \/ UNCHANGED commits
         \/ \E parents \in {{ours, theirs}, {ours}} : AddCommit(parents, merged)
      /\ \E i : head' = [head EXCEPT ![Target] = i]
  BY DEF CompletePullRequest, Merge
<1>3. head'[Source] = head[Source]
  BY <1>2, BranchFacts DEF TypeInv, TypeOK
<1>4. /\ merged \in Tree /\ Holds(merged)
      /\ NotOlder(TreeOf(ours), merged) /\ NotOlder(TreeOf(theirs), merged)
  BY <1>1, <1>2, MergedTree
<1> HIDE DEF merged
<1>5. CASE UNCHANGED commits
  BY <1>3, <1>5 DEF CommitsHold, Rooted, ReleaseRecordsNothing, CommitIds, TreeOf, Ancestors,
     Exists, RecordsHold, RecordHolds, BehindRecord, NotOlder
<1>6. CASE \E parents \in {{ours, theirs}, {ours}} : AddCommit(parents, merged)
  <2>1. PICK parents \in {{ours, theirs}, {ours}} : AddCommit(parents, merged)
    BY <1>6
  <2>2. /\ parents \in SUBSET CommitIds /\ parents # {}
        /\ \A q \in parents : NotOlder(TreeOf(q), merged)
    BY <1>1, <1>4
  <2>3. QED
    BY <1>3, <1>4, <2>1, <2>2, OtherCommitKeeps
<1>7. QED
  BY <1>2, <1>5, <1>6

\* What the release branch had is as free of records as what it has.
LEMMA ReleasedIsUnrecorded ==
  ASSUME TypeInv, CommitsHold, ReleaseRecordsNothing, NEW i, Released(i)
  PROVE  i \in CommitIds /\ TreeOf(i) \in Tree /\ Holds(TreeOf(i)) /\ Unrecorded(TreeOf(i))
<1> DEFINE h == head[Source]
<1>1. h \in CommitIds /\ i \in Ancestors(h) /\ TreeOf(h).recorded = Nothing
  BY HeadsAreCommits, BranchFacts DEF Released, ReleaseRecordsNothing
<1> HIDE DEF h
<1>2. Len(commits) \in Nat /\ h \in 1 .. Len(commits) /\ i \in 1 .. h
  BY <1>1 DEF TypeInv, TypeOK, CommitsOK, CommitIds
<1>3. i \in CommitIds
  BY <1>2 DEF CommitIds
<1>4. TreeOf(i) \in Tree /\ Holds(TreeOf(i))
  BY <1>3, TreesHold
<1>5. NotOlder(TreeOf(i), TreeOf(h))
  BY <1>1 DEF CommitsHold
<1>6. ASSUME NEW v \in Versions
      PROVE  TreeOf(i).recorded[v] = 0
  <2>1. TreeOf(i).recorded[v] \in Nat /\ TreeOf(i).recorded[v] <= 0
    BY <1>1, <1>4, <1>5, FieldTypes DEF NotOlder, Nothing, NoContainer
  <2>2. QED
    BY <2>1
<1>7. TreeOf(i).recorded = [v \in Versions |-> TreeOf(i).recorded[v]]
  BY <1>4 DEF Tree
<1>8. Unrecorded(TreeOf(i))
  BY <1>6, <1>7 DEF Unrecorded, Nothing, NoContainer
<1>9. QED
  BY <1>3, <1>4, <1>8

LEMMA PushKeeps ==
  ASSUME RecordsInv, NEW r \in Runs, Pushes(r)
  PROVE  CommitsHold' /\ Rooted' /\ ReleaseRecordsNothing'
<1> DEFINE source == TreeOf(sourceSha[r])
           target == TreeOf(originTarget[r])
           tree   == InSyncWith(source, target.recorded)
<1>1. TypeInv /\ CommitsHold /\ Rooted /\ ReleaseRecordsNothing
  BY DEF RecordsInv, SyncInv
<1>2. /\ pc[r] = "apply" /\ AddCommit({originTarget[r]}, workTree[r])
      /\ head' = [head EXCEPT ![SyncBranch(r)] = NewCommit]
  BY DEF Pushes
<1>3. originTarget[r] \in CommitIds /\ workTree[r] \in Tree
  BY <1>1, <1>2, References DEF TypeInv, TypeOK, Steps, SourceFound, TargetFound, SourceRead,
     OriginFetched
<1>4. source \in Tree /\ Holds(source) /\ Unrecorded(source)
  <2>1. Released(sourceSha[r])
    BY <1>2 DEF RecordsInv, SourceInv, ReadFromSource, Steps, SourceFound, TargetFound, SourceRead
  <2>2. QED
    BY <1>1, <2>1, ReleasedIsUnrecorded
<1>5. workTree[r] = tree
  BY <1>2, ReappliedContent DEF RecordsInv, SyncInv, Pushes
<1>6. target \in Tree
  BY <1>1, <1>3, TreesHold
<1>7. target.recorded \in [Versions -> Recorded]
  BY <1>6 DEF Tree
<1>8. Holds(tree) /\ \A v \in Versions : tree.recorded[v] = target.recorded[v]
  BY <1>4, <1>7, InSyncHolds
<1>9. head'[Source] = head[Source]
  BY <1>1, <1>2, BranchFacts DEF TypeInv, TypeOK
<1> HIDE DEF tree
<1>10. NotOlder(target, tree)
  <2>1. \A v \in Versions : target.recorded[v] \in Nat
    BY <1>6, FieldTypes
  <2>2. \A n \in Nat : n <= n
    OBVIOUS
  <2>3. QED
    BY <1>8, <2>1, <2>2, Zenon DEF NotOlder
<1>11. {originTarget[r]} \in SUBSET CommitIds /\ \A q \in {originTarget[r]} : NotOlder(TreeOf(q), tree)
  BY <1>3, <1>10
<1>12. QED
  BY <1>1, <1>2, <1>3, <1>5, <1>8, <1>9, <1>11, OtherCommitKeeps

LEMMA InitRecordsInv == Init => RecordsInv
<1> SUFFICES ASSUME Init PROVE CommitsHold /\ Rooted /\ ReleaseRecordsNothing
  BY InitSourceInv, InitSyncInv DEF RecordsInv
<1>1. CASE commits = <<>>
  <2>1. head = [b \in Branches |-> NoCommit]
    BY <1>1 DEF Init
  <2>2. CommitIds = {} /\ ~ Exists(Source)
    BY <1>1, <2>1, BranchFacts DEF CommitIds, Exists
  <2>3. QED
    BY <2>2 DEF CommitsHold, Rooted, ReleaseRecordsNothing
<1>2. CASE commits # <<>>
  <2>1. /\ commits = <<[ancestors |-> {1}, tree |-> FirstTree]>>
        /\ head = [b \in Branches |-> IF b \in {Source, Target} THEN 1 ELSE NoCommit]
    BY <1>2 DEF Init
  <2>2. CommitIds = {1} /\ TreeOf(1) = FirstTree /\ Ancestors(1) = {1}
    BY <2>1 DEF CommitIds, TreeOf, Ancestors
  <2>3. head[Source] = 1 /\ Exists(Source)
    BY <2>1, BranchFacts DEF Exists, NoCommit
  <2>4. Holds(FirstTree) /\ FirstTree.recorded = Nothing
    BY FirstTreeHolds DEF Unrecorded
  <2>5. NotOlder(FirstTree, FirstTree)
    BY FirstTreeHolds, UnrecordedNotOlder
  <2>6. QED
    BY <2>2, <2>3, <2>4, <2>5 DEF CommitsHold, Rooted, ReleaseRecordsNothing, Holds
<1>3. QED
  BY <1>1, <1>2

\* Every step keeps RecordsInv: every commit holds its records, and a merge has a
\* base that records nothing newer than what it merges.
THEOREM RecordsInvInductive == RecordsInv /\ [Next]_vars => RecordsInv'
<1> SUFFICES ASSUME RecordsInv, [Next]_vars
             PROVE  CommitsHold' /\ Rooted' /\ ReleaseRecordsNothing'
  BY SourceInvInductive, SyncInvInductive DEF RecordsInv
<1>1. TypeInv /\ CommitsHold /\ Rooted /\ ReleaseRecordsNothing
  BY DEF RecordsInv, SyncInv
<1>2. CASE UNCHANGED commits /\ head'[Source] = head[Source]
  BY <1>1, <1>2 DEF CommitsHold, Rooted, ReleaseRecordsNothing, CommitIds, TreeOf, Ancestors,
     Exists, RecordsHold, RecordHolds, BehindRecord, NotOlder
<1>3. ASSUME NEW r \in Runs, Pushes(r)
      PROVE  CommitsHold' /\ Rooted' /\ ReleaseRecordsNothing'
  BY <1>3, PushKeeps
<1>4. CASE Environment
  <2>1. CASE \/ CreateSource
             \/ \E e \in Edits : EditSource(e)
             \/ \E c \in Containers : ReleaseBuild(c)
    BY <1>1, <2>1, ReleasePushes, ReleasePushKeeps
  <2>2. CASE \E c \in Containers : MergeInternalUpdate(c)
    BY <1>1, <2>2, StagedKeeps
  <2>3. CASE \E p \in prs, style \in MergeStyles : CompletePullRequest(p, style)
    BY <1>1, <2>3, CompletionKeeps
  <2>4. QED
    BY <1>4, <2>1, <2>2, <2>3 DEF Environment
<1>5. QED
  BY <1>1, <1>2, <1>3, <1>4, OtherSteps

\* The next sync, and every reader of stage-containers.txt, can trust the record of
\* any branch: for any number of runs, serial or not, and any builds in any order
\* that a branch and its pull requests are merged in.
THEOREM RecordedArePresent == Spec => []RecordedBuildsArePresent
<1>1. RecordsInv => RecordedBuildsArePresent
  BY HeadsAreCommits DEF RecordsInv, SyncInv, CommitsHold, RecordedBuildsArePresent
<1>2. QED
  BY <1>1, InitRecordsInv, RecordsInvInductive, PTL DEF Spec
==============================================================================
