--------------------------- MODULE SyncSerialProofs ---------------------------
(***************************************************************************)
(* Proof that runs which wait for each other, as those of a pipeline with  *)
(* "batch: true" do, implement the two branches of InternalBranch: that    *)
(* nothing is lost from the internal branch follows.                       *)
(***************************************************************************)
EXTENDS SyncRecordProofs

-----------------------------------------------------------------------------
(* What the merge of a pull request makes of the internal branch.          *)

\* What the head of a pull request may differ in from the internal branch that it
\* started from: edits and public builds.
FollowsRelease(theirs, base, now) ==
  /\ theirs.recorded = base.recorded
  /\ base.edits \subseteq theirs.edits /\ theirs.edits \subseteq now.edits
  /\ \A v \in Versions :
       /\ theirs.runtime[v] = base.runtime[v] \/ ~ theirs.runtime[v].internal
       /\ theirs.sdkUrl[v] \in {base.sdkUrl[v], NoContainer}

PublicAtMost(tree, now) ==
  \A v \in Versions :
    /\ ~ tree.sdk[v].internal => tree.sdk[v].build <= now.sdk[v].build
    /\ ~ tree.runtime[v].internal => tree.runtime[v].build <= now.runtime[v].build

StagedAtLeast(tree, now) ==
  \A v \in Versions :
    now.sdk[v].build <= tree.recorded[v] /\ now.runtime[v].build <= tree.recorded[v]

\* Where nothing is recorded nothing has been staged or released.
LEMMA NothingRecorded ==
  ASSUME NEW tree \in Tree, NEW now \in Tree, Holds(tree), PublicAtMost(tree, now),
         NEW v \in Versions, tree.recorded[v] = 0,
         now.sdk[v].build <= 0, now.runtime[v].build <= 0
  PROVE  tree.sdk[v] = Public(0) /\ tree.runtime[v] = Public(0)
<1>1. tree.sdk[v] \in Layer /\ tree.runtime[v] \in Layer
  BY FieldTypes
<1>2. /\ tree.sdk[v].build \in Nat /\ tree.runtime[v].build \in Nat
      /\ now.sdk[v].build \in Nat /\ now.runtime[v].build \in Nat
  BY FieldTypes
<1>3. ~ tree.sdk[v].internal /\ ~ tree.runtime[v].internal
  BY DEF Holds, BehindRecord
<1>4. tree.sdk[v].build = 0 /\ tree.runtime[v].build = 0
  BY <1>2, <1>3 DEF PublicAtMost
<1>5. QED
  BY <1>1, <1>3, <1>4 DEF Layer, Public

\* Merging such a pull request brings the internal branch closer to the release
\* branch, whatever was staged or merged since it was opened.
LEMMA MergeCatchesUp ==
  ASSUME NEW base \in Tree, NEW ours \in Tree, NEW theirs \in Tree, NEW now \in Tree,
         Holds(base), Holds(ours), Holds(theirs), Mergeable(base, ours, theirs),
         NotOlder(base, ours), FollowsRelease(theirs, base, now),
         base.edits \subseteq ours.edits, ours.edits \subseteq now.edits,
         PublicAtMost(ours, now), PublicAtMost(theirs, now), StagedAtLeast(ours, now)
  PROVE  Abstract!CatchUp(ours, now, MergeTrees(base, ours, theirs))
<1> DEFINE new == MergeTrees(base, ours, theirs)
<1>1. ours.edits \subseteq new.edits /\ new.edits \subseteq now.edits
  <2>1. new.edits = {e \in Edits : Merge3(e \in base.edits, e \in ours.edits, e \in theirs.edits)}
    BY DEF MergeTrees
  <2>2. ours.edits \subseteq Edits
    BY DEF Tree
  <2>3. ASSUME NEW e \in Edits
        PROVE  /\ e \in ours.edits => Merge3(e \in base.edits, e \in ours.edits, e \in theirs.edits)
               /\ Merge3(e \in base.edits, e \in ours.edits, e \in theirs.edits) => e \in now.edits
    BY DEF Merge3, FollowsRelease
  <2>4. QED
    BY <2>1, <2>2, <2>3
<1>2. new \in Tree
  BY MergeType
<1>3. NotOlder(base, theirs)
  <2>1. ASSUME NEW v \in Versions
        PROVE  base.recorded[v] <= theirs.recorded[v]
    <3>1. theirs.recorded[v] = base.recorded[v] /\ base.recorded[v] \in Nat
      BY FieldTypes DEF FollowsRelease
    <3>2. QED
      BY <3>1
  <2>2. QED
    BY <2>1, Zenon DEF NotOlder
<1>4. Holds(new)
  BY <1>3, MergeHolds
<1>5. ASSUME NEW v \in Versions
      PROVE  /\ new.runtime[v] = Merge3(base.runtime[v], ours.runtime[v], theirs.runtime[v])
             /\ new.sdk[v] = Merge3(base.sdk[v], ours.sdk[v], theirs.sdk[v])
             /\ new.dotnetUrl[v] = Merge3(base.dotnetUrl[v], ours.dotnetUrl[v], theirs.dotnetUrl[v])
             /\ new.sdkUrl[v] = Merge3(base.sdkUrl[v], ours.sdkUrl[v], theirs.sdkUrl[v])
             /\ new.recorded[v] = ours.recorded[v]
             /\ ~ Conflict3(base.runtime[v], ours.runtime[v], theirs.runtime[v])
             /\ ~ Conflict3(base.dotnetUrl[v], ours.dotnetUrl[v], theirs.dotnetUrl[v])
             /\ ~ Conflict3(base.sdkUrl[v], ours.sdkUrl[v], theirs.sdkUrl[v])
  BY MergedFields DEF Mergeable, FollowsRelease, Merge3
<1> HIDE DEF new
<1>6. new.recorded = ours.recorded
  <2>1. /\ new.recorded = [v \in Versions |-> new.recorded[v]]
        /\ ours.recorded = [v \in Versions |-> ours.recorded[v]]
    BY <1>2 DEF Tree
  <2>2. QED
    BY <1>5, <2>1
\* The runtime either stays, with its base URL, or becomes a public one.
<1>7. ASSUME NEW v \in Versions
      PROVE  \/ new.runtime[v] = ours.runtime[v] /\ new.dotnetUrl[v] = ours.dotnetUrl[v]
             \/ /\ ~ new.runtime[v].internal /\ new.dotnetUrl[v] = NoContainer
                /\ new.runtime[v].build <= now.runtime[v].build
  <2>1. \A tree \in {ours, new} :
          tree.dotnetUrl[v] = IF tree.runtime[v].internal THEN tree.runtime[v].build ELSE NoContainer
    BY <1>4 DEF Holds, BehindRecord
  <2>2. theirs.runtime[v] = base.runtime[v] \/ ~ theirs.runtime[v].internal
    BY DEF FollowsRelease
  <2>3. CASE new.runtime[v] = ours.runtime[v]
    BY <2>1, <2>3
  <2>4. CASE new.runtime[v] # ours.runtime[v]
    <3>1. new.runtime[v] = theirs.runtime[v] /\ ours.runtime[v] = base.runtime[v]
      BY <1>5, <2>4 DEF Merge3
    <3>2. ~ theirs.runtime[v].internal
      BY <2>2, <2>4, <3>1
    <3>3. QED
      BY <2>1, <3>1, <3>2 DEF PublicAtMost
  <2>5. QED
    BY <2>3, <2>4
<1>8. ASSUME NEW v \in Versions
      PROVE  new.sdkUrl[v] \in {ours.sdkUrl[v], NoContainer}
  BY <1>5 DEF FollowsRelease, Merge3
<1>9. ASSUME NEW v \in Versions, ours.recorded[v] = 0
      PROVE  /\ new.sdk[v] = ours.sdk[v] /\ new.runtime[v] = ours.runtime[v]
             /\ new.dotnetUrl[v] = ours.dotnetUrl[v] /\ new.sdkUrl[v] = ours.sdkUrl[v]
  <2>1. base.recorded[v] \in Nat /\ base.recorded[v] <= 0
    BY <1>9, FieldTypes DEF NotOlder
  <2>2. theirs.recorded[v] = 0
    BY <2>1 DEF FollowsRelease
  <2>3. now.sdk[v].build <= 0 /\ now.runtime[v].build <= 0
    BY <1>9 DEF StagedAtLeast
  <2>4. /\ ours.sdk[v] = Public(0) /\ ours.runtime[v] = Public(0)
        /\ theirs.sdk[v] = Public(0) /\ theirs.runtime[v] = Public(0)
    BY <1>9, <2>2, <2>3, NothingRecorded
  <2>5. new.sdk[v] = Public(0) /\ new.runtime[v] = Public(0)
    BY <1>5, <2>4 DEF Merge3
  <2>6. \A tree \in {ours, new} :
          /\ tree.dotnetUrl[v] = IF tree.runtime[v].internal THEN tree.runtime[v].build ELSE NoContainer
          /\ tree.sdkUrl[v] <= tree.recorded[v]
    BY <1>4 DEF Holds, BehindRecord
  <2>7. new.sdkUrl[v] \in Nat /\ ours.sdkUrl[v] \in Nat /\ new.recorded[v] = 0
    BY <1>2, <1>5, <1>9, FieldTypes
  <2>8. new.sdkUrl[v] = 0 /\ ours.sdkUrl[v] = 0
    BY <1>9, <2>6, <2>7
  <2>9. QED
    BY <2>4, <2>5, <2>6, <2>8
<1>10. ASSUME NEW v \in Versions
       PROVE  LET c == ours.recorded[v]
              IN c # NoContainer =>
                   /\ new.sdk[v] = ours.sdk[v]
                   /\ IF c \in SdkOnly THEN new.sdkUrl[v] = ours.sdkUrl[v]
                      ELSE new.runtime[v] = ours.runtime[v] /\ new.dotnetUrl[v] = ours.dotnetUrl[v]
  BY <1>4, <1>5 DEF Holds, RecordsHold, RecordHolds
<1>11. ASSUME NEW v \in Versions, ours.recorded[v] = 0
       PROVE  /\ Abstract!Follows(new.sdk[v], ours.sdk[v], now.sdk[v])
              /\ Abstract!Follows(new.runtime[v], ours.runtime[v], now.runtime[v])
  BY <1>9, <1>11 DEF Abstract!Follows
<1>12. 0 \notin SdkOnly /\ NoContainer = 0 /\ Abstract!NoContainer = 0
  BY ContentAssumption DEF NoContainer, Abstract!NoContainer
<1> DEFINE SameRuntime(v) == new.runtime[v] = ours.runtime[v] /\ new.dotnetUrl[v] = ours.dotnetUrl[v]
           SameSdk(v) == new.sdk[v] = ours.sdk[v] /\ new.sdkUrl[v] = ours.sdkUrl[v]
<1>13. ASSUME NEW v \in Versions
       PROVE  LET c == ours.recorded[v]
              IN /\ c = NoContainer =>
                      /\ Abstract!Follows(new.sdk[v], ours.sdk[v], now.sdk[v])
                      /\ Abstract!Follows(new.runtime[v], ours.runtime[v], now.runtime[v])
                      /\ new.dotnetUrl[v] = ours.dotnetUrl[v] /\ new.sdkUrl[v] = ours.sdkUrl[v]
                 /\ c \in SdkOnly =>
                      /\ SameSdk(v)
                      /\ \/ SameRuntime(v)
                         \/ /\ ~ new.runtime[v].internal /\ new.dotnetUrl[v] = NoContainer
                            /\ new.runtime[v].build <= now.runtime[v].build
                 /\ c # NoContainer /\ c \notin SdkOnly =>
                      /\ SameRuntime(v)
                      /\ \/ SameSdk(v)
                         \/ new.sdk[v] = ours.sdk[v] /\ new.sdkUrl[v] = NoContainer
  <2>1. CASE ours.recorded[v] = 0
    BY <1>9, <1>11, <1>12, <2>1
  <2>2. CASE ours.recorded[v] # 0
    BY <1>7, <1>8, <1>10, <1>12, <2>2
  <2>3. QED
    BY <2>1, <2>2
<1>14. QED
  BY <1>1, <1>6, <1>12, <1>13 DEF Abstract!CatchUp, NoContainer, new

-----------------------------------------------------------------------------
(* The pull requests of the command are such pull requests.                *)

ReleaseTree == TreeOf(head[Source])
InternalTree == TreeOf(head[Target])

LEMMA SerialParts ==
  ASSUME SerialInv
  PROVE  /\ RecordsInv /\ SourceInv /\ SyncInv /\ TypeInv
         /\ CommitsHold /\ Rooted /\ ReleaseRecordsNothing
         /\ OneRun /\ CreatesTarget /\ TargetForward /\ ReleaseIsRead
         /\ Lineage /\ SyncTips
         /\ ReleaseLeads /\ ReleaseIsStaged /\ RuntimeIsReleased
  BY DEF SerialInv, RecordsInv, SourceInv

\* Whoever has a commit has one of the release branch.
LEMMA SourceExists ==
  ASSUME SerialInv, CommitIds # {}
  PROVE  /\ Exists(Source) /\ head[Source] \in CommitIds
         /\ ReleaseTree \in Tree /\ Holds(ReleaseTree) /\ Unrecorded(ReleaseTree)
<1>1. Exists(Source) /\ head[Source] \in CommitIds /\ TypeInv /\ CommitsHold
  BY SerialParts, HeadsAreCommits, BranchFacts DEF Rooted
<1>2. QED
  BY <1>1, SerialParts, TreesHold DEF ReleaseTree, ReleaseRecordsNothing, Unrecorded

\* The release branch leads over a content.
LeadsOver(now, tree) == tree.edits \subseteq now.edits /\ PublicAtMost(tree, now)

LEMMA ReleaseLeadsAll ==
  ASSUME SerialInv, NEW i \in CommitIds
  PROVE  LeadsOver(ReleaseTree, TreeOf(i))
  BY SourceExists, SerialParts DEF ReleaseLeads, ReleaseTree, LeadsOver, PublicAtMost

\* A fast-forward is of a commit of the release branch; so is its merge base.
LEMMA FastForwardFollows ==
  ASSUME TypeInv, CommitsHold, Lineage, ReleaseRecordsNothing, NEW theirs \in CommitIds,
         Released(theirs), NEW base \in Ancestors(theirs), NEW now,
         TreeOf(theirs).edits \subseteq now.edits
  PROVE  FollowsRelease(TreeOf(theirs), TreeOf(base), now)
<1>1. Released(base)
  BY HeadsAreCommits, BranchFacts DEF Lineage, HistoriesClosed, Released
<1>2. \A i \in {base, theirs} :
        TreeOf(i) \in Tree /\ Holds(TreeOf(i)) /\ Unrecorded(TreeOf(i))
  BY <1>1, ReleasedIsUnrecorded
<1>3. TreeOf(base).edits \subseteq TreeOf(theirs).edits
  BY DEF Lineage, HistoriesClosed
<1>4. TreeOf(theirs).recorded = TreeOf(base).recorded
  BY <1>2 DEF Unrecorded
<1>5. \A v \in Versions :
        ~ TreeOf(theirs).runtime[v].internal /\ TreeOf(theirs).sdkUrl[v] = NoContainer
  BY <1>2, UnrecordedIsPublic DEF NoContainer
<1>6. QED
  BY <1>3, <1>4, <1>5 DEF FollowsRelease

\* What a sync pushes has the internal branch's records, and its staged builds.
LEMMA SyncFollows ==
  ASSUME NEW source \in Tree, Holds(source), Unrecorded(source), NEW target \in Tree, Holds(target),
         target.edits \subseteq source.edits, NEW now, source.edits \subseteq now.edits
  PROVE  FollowsRelease(InSyncWith(source, target.recorded), target, now)
<1> DEFINE tree == InSyncWith(source, target.recorded)
<1>1. target.recorded \in [Versions -> Recorded]
  BY DEF Tree
<1>2. \A v \in Versions : tree.recorded[v] = target.recorded[v]
  BY <1>1, InSyncHolds
<1>3. tree.recorded = [v \in Versions |-> tree.recorded[v]]
  BY DEF InSyncWith
<1>4. tree.recorded = target.recorded
  BY <1>1, <1>2, <1>3
<1>5. tree.edits = source.edits
  BY DEF InSyncWith
<1>6. ASSUME NEW v \in Versions
      PROVE  /\ tree.runtime[v] = target.runtime[v] \/ ~ tree.runtime[v].internal
             /\ tree.sdkUrl[v] \in {target.sdkUrl[v], NoContainer}
  <2> DEFINE c == target.recorded[v]
  <2>1. /\ tree.runtime[v] = IF c # 0 /\ c \notin SdkOnly THEN Internal(c) ELSE source.runtime[v]
        /\ tree.sdkUrl[v] = IF c \in SdkOnly THEN c ELSE source.sdkUrl[v]
    BY DEF InSyncWith, NoContainer
  <2>2. ~ source.runtime[v].internal /\ source.sdkUrl[v] = 0
    BY UnrecordedIsPublic
  <2>3. /\ c # 0 /\ c \in SdkOnly => target.sdkUrl[v] = c
        /\ c # 0 /\ c \notin SdkOnly => target.runtime[v] = Internal(c)
    BY DEF Holds, RecordsHold, RecordHolds, NoContainer
  <2>4. 0 \notin SdkOnly
    BY ContentAssumption
  <2>5. QED
    BY <2>1, <2>2, <2>3, <2>4 DEF NoContainer
<1> HIDE DEF tree
<1>7. QED
  BY <1>4, <1>5, <1>6 DEF FollowsRelease, tree

\* A sync branch meets the internal branch where its run fetched it, whatever has
\* been merged into the internal branch since.
LEMMA SyncBase ==
  ASSUME TypeInv, Rooted, Lineage, NEW ours \in CommitIds, NEW theirs \in CommitIds,
         NEW target \in Ancestors(ours), OnTop(theirs, target), theirs \notin Ancestors(ours)
  PROVE  MergeBase(ours, theirs) = target
<1> DEFINE base == MergeBase(ours, theirs)
<1>1. /\ base \in CommitIds /\ base \in Ancestors(ours) /\ base \in Ancestors(theirs)
      /\ \A l \in Ancestors(ours) \cap Ancestors(theirs) : l <= base
  BY MergeBaseExists
<1> HIDE DEF base
<1>2. /\ Len(commits) \in Nat /\ ours \in 1 .. Len(commits) /\ Ancestors(ours) \subseteq 1 .. ours
  BY DEF TypeInv, TypeOK, CommitsOK, CommitIds
<1>3. target \in CommitIds
  <2>1. target \in 1 .. ours
    BY <1>2
  <2>2. QED
    BY <1>2, <2>1 DEF CommitIds
<1>4. target \in Ancestors(target) /\ Ancestors(target) \subseteq 1 .. target
  BY <1>3 DEF TypeInv, CommitsOK
<1>5. base \in Ancestors(target)
  BY <1>1 DEF OnTop
<1>6. target \in Ancestors(theirs)
  BY <1>4 DEF OnTop
<1>7. target <= base /\ base \in 1 .. target
  BY <1>1, <1>4, <1>5, <1>6
<1>8. base \in Nat /\ target \in Nat
  BY <1>1, <1>3 DEF CommitIds
<1>9. QED
  BY <1>7, <1>8 DEF base

LEMMA PrFollows ==
  ASSUME SerialInv, NEW p \in prs, Exists(Target)
  PROVE  LET base == MergeBase(head[Target], head[p.branch])
         IN FollowsRelease(TreeOf(head[p.branch]), TreeOf(base), ReleaseTree)
<1> DEFINE ours   == head[Target]
           theirs == head[p.branch]
           base   == MergeBase(ours, theirs)
<1>1. /\ ours \in CommitIds /\ theirs \in CommitIds
      /\ p.branch \in Branches /\ p.branch \notin {Source, Target}
      /\ p.source \in CommitIds /\ p.target \in CommitIds
  BY SerialParts, HeadsAreCommits, References, BranchFacts DEF TypeInv, PrsOK
<1>2. base \in CommitIds /\ base \in Ancestors(ours) /\ base \in Ancestors(theirs)
  BY <1>1, SerialParts, MergeBaseExists
<1>3. TreeOf(theirs).edits \subseteq ReleaseTree.edits
  BY <1>1, ReleaseLeadsAll DEF LeadsOver
<1>4. CASE p.branch[1] = "ff"
  <2>1. Released(theirs)
    BY <1>1, <1>4, SerialParts DEF SourceInv, FastForwardsAreRelease, TypeInv, PrsOK
  <2>2. QED
    BY <1>1, <1>2, <1>3, <2>1, SerialParts, FastForwardFollows
<1>5. CASE p.branch[1] = "sync"
  <2>1. Owned(p.branch)
    BY <1>5 DEF Owned, ByPr
  <2>2. theirs \notin Ancestors(ours)
    BY <1>1, <2>1, SerialParts, BranchFacts DEF SyncInv, OwnedIsUnmerged
  <2>3. p.target \in Ancestors(ours) /\ OnTop(theirs, p.target)
    BY <1>5, SerialParts DEF TargetForward, SyncTips
  <2>4. base = p.target
    BY <1>1, <2>2, <2>3, SerialParts, SyncBase
  <2> DEFINE source == TreeOf(p.source)
             target == TreeOf(p.target)
  <2>5. TreeOf(theirs) = InSyncWith(source, target.recorded)
    BY <1>5, SerialParts DEF SyncInv, SyncPrIsComplete
  <2>6. source \in Tree /\ Holds(source) /\ Unrecorded(source)
    BY SerialParts, ReleasedIsUnrecorded DEF SourceInv, FastForwardsAreRelease
  <2>7. target \in Tree /\ Holds(target)
    BY <1>1, SerialParts, TreesHold
  <2>8. TreeOf(theirs).edits = source.edits
    BY <2>5 DEF InSyncWith
  <2>9. target.edits \subseteq source.edits
    BY <1>1, <1>2, <2>4, <2>8, SerialParts DEF Lineage, HistoriesClosed
  <2>10. QED
    BY <1>3, <2>4, <2>5, <2>6, <2>7, <2>8, <2>9, SyncFollows
<1>6. QED
  BY <1>1, <1>4, <1>5 DEF Branches

\* Where only one side changed the merge is that side.
LEMMA MergeNothing ==
  ASSUME NEW ours \in Tree, NEW theirs \in Tree
  PROVE  MergeTrees(ours, ours, theirs) = theirs
<1> DEFINE merged == MergeTrees(ours, ours, theirs)
<1>1. merged.edits = theirs.edits
  <2>1. merged.edits = {e \in Edits : e \in theirs.edits}
    BY DEF MergeTrees, Merge3
  <2>2. QED
    BY <2>1 DEF Tree
<1>2. /\ merged.runtime = theirs.runtime /\ merged.sdk = theirs.sdk
      /\ merged.dotnetUrl = theirs.dotnetUrl /\ merged.sdkUrl = theirs.sdkUrl
      /\ merged.recorded = theirs.recorded
  <2>1. /\ merged.runtime = [v \in Versions |-> theirs.runtime[v]]
        /\ merged.sdk = [v \in Versions |-> theirs.sdk[v]]
        /\ merged.dotnetUrl = [v \in Versions |-> theirs.dotnetUrl[v]]
        /\ merged.sdkUrl = [v \in Versions |-> theirs.sdkUrl[v]]
        /\ merged.recorded = [v \in Versions |-> theirs.recorded[v]]
    BY DEF MergeTrees, MergeVersions, Merge3
  <2>2. QED
    BY <2>1 DEF Tree
<1>3. IsTree(merged) /\ IsTree(theirs)
  BY DEF IsTree, Fields, MergeTrees, Tree
<1> HIDE DEF merged
<1>4. QED
  BY <1>1, <1>2, <1>3 DEF IsTree, merged

\* The internal branch after a pull request is merged, whichever way.
LEMMA Merging ==
  ASSUME SerialInv, NEW p \in prs, NEW style \in MergeStyles, CompletePullRequest(p, style)
  PROVE  LET ours   == head[Target]
             theirs == head[p.branch]
             base   == MergeBase(ours, theirs)
             merged == MergeTrees(TreeOf(base), TreeOf(ours), TreeOf(theirs))
         IN /\ Exists(Target) /\ ours \in CommitIds /\ theirs \in CommitIds
            /\ p.branch \in Branches \ {Source, Target}
            /\ Mergeable(TreeOf(base), TreeOf(ours), TreeOf(theirs))
            /\ merged \in Tree
            /\ \A b \in Branches \ {Target} : head'[b] = head[b]
            /\ head'[Target] # NoCommit
            /\ commits'[head'[Target]].tree = merged
            /\ ours \in commits'[head'[Target]].ancestors
            /\ \/ UNCHANGED commits
               \/ \E parents \in {{ours, theirs}, {ours}} : AddCommit(parents, merged)
<1> DEFINE ours   == head[Target]
           theirs == head[p.branch]
           base   == MergeBase(ours, theirs)
           merged == MergeTrees(TreeOf(base), TreeOf(ours), TreeOf(theirs))
<1>1. /\ Exists(Target) /\ ours \in CommitIds /\ theirs \in CommitIds
      /\ p.branch \in Branches \ {Source, Target} /\ TypeInv
  BY SerialParts, HeadsAreCommits, References, BranchFacts DEF TypeInv, PrsOK
<1>2. TreeOf(ours) \in Tree /\ TreeOf(theirs) \in Tree
  BY <1>1, SerialParts, TreesHold
<1>3. merged \in Tree
  BY <1>2, MergeType
<1>4. /\ Mergeable(TreeOf(base), TreeOf(ours), TreeOf(theirs))
      /\ \/ style = "fastForward" /\ ours \in Ancestors(theirs) /\ UNCHANGED commits
            /\ head' = [head EXCEPT ![Target] = theirs]
         \/ \E parents \in {{ours, theirs}, {ours}} :
              AddCommit(parents, merged) /\ head' = [head EXCEPT ![Target] = NewCommit]
  BY DEF CompletePullRequest, Merge
<1>5. head \in [Branches -> {NoCommit} \cup CommitIds] /\ Target \in Branches
  BY <1>1, BranchFacts DEF TypeInv, TypeOK
<1>6. ours \in Ancestors(ours) /\ Ancestors(ours) \subseteq 1 .. ours
  BY <1>1 DEF TypeInv, CommitsOK
<1>7. CASE ours \in Ancestors(theirs) /\ UNCHANGED commits /\ head' = [head EXCEPT ![Target] = theirs]
  <2>1. base = ours
    <3>1. base \in Ancestors(ours) /\ ours <= base /\ base \in CommitIds
      BY <1>1, <1>6, <1>7, SerialParts, MergeBaseExists
    <3>2. base \in 1 .. ours /\ ours \in Nat
      BY <1>1, <1>6, <3>1 DEF CommitIds
    <3>3. QED
      BY <3>1, <3>2
  <2>2. merged = TreeOf(theirs)
    BY <1>2, <2>1, MergeNothing
  <2>3. head'[Target] = theirs /\ \A b \in Branches \ {Target} : head'[b] = head[b]
    BY <1>5, <1>7
  <2>4. theirs # NoCommit
    BY <1>1 DEF CommitIds, NoCommit
  <2>5. QED
    BY <1>1, <1>3, <1>4, <1>7, <2>2, <2>3, <2>4 DEF TreeOf, Ancestors
<1>8. CASE \E parents \in {{ours, theirs}, {ours}} :
             AddCommit(parents, merged) /\ head' = [head EXCEPT ![Target] = NewCommit]
  <2> HIDE DEF merged
  <2>1. PICK parents \in {{ours, theirs}, {ours}} :
          AddCommit(parents, merged) /\ head' = [head EXCEPT ![Target] = NewCommit]
    BY <1>8
  <2>2. parents \in SUBSET CommitIds /\ ours \in parents
    BY <1>1, <2>1
  <2>3. /\ commits'[NewCommit].tree = merged
        /\ ours \in commits'[NewCommit].ancestors
    BY <1>1, <1>3, <1>6, <2>1, <2>2, AppendCommit DEF TypeInv, TypeOK
  <2>4. head'[Target] = NewCommit /\ \A b \in Branches \ {Target} : head'[b] = head[b]
    BY <1>5, <2>1
  <2>5. NewCommit # NoCommit
    BY <1>1 DEF TypeInv, TypeOK, NewCommit, NoCommit
  <2>6. QED
    BY <1>1, <1>3, <1>4, <2>1, <2>3, <2>4, <2>5 DEF merged
<1> HIDE DEF merged
<1>9. QED
  BY <1>4, <1>7, <1>8

\* It has no edits and no builds but those of the two branches ...
LEMMA MergedFrom ==
  ASSUME NEW base, NEW ours \in Tree, NEW theirs \in Tree
  PROVE  LET merged == MergeTrees(base, ours, theirs)
         IN /\ merged.edits \subseteq ours.edits \cup theirs.edits
            /\ \A v \in Versions :
                 /\ merged.sdk[v] \in {ours.sdk[v], theirs.sdk[v]}
                 /\ merged.runtime[v] \in {ours.runtime[v], theirs.runtime[v]}
<1> DEFINE merged == MergeTrees(base, ours, theirs)
<1>1. merged.edits = {e \in Edits : Merge3(e \in base.edits, e \in ours.edits, e \in theirs.edits)}
  BY DEF MergeTrees
<1>2. ASSUME NEW e \in merged.edits
      PROVE  e \in ours.edits \cup theirs.edits
  BY <1>1 DEF Merge3
<1>3. \A v \in Versions :
        /\ merged.sdk[v] \in {ours.sdk[v], theirs.sdk[v]}
        /\ merged.runtime[v] \in {ours.runtime[v], theirs.runtime[v]}
  BY MergedFields DEF Merge3
<1>4. QED
  BY <1>2, <1>3

\* ... and all the edits of both, where the base has none that they have not.
LEMMA MergedEdits ==
  ASSUME NEW base, NEW ours \in Tree, NEW theirs \in Tree,
         base.edits \subseteq ours.edits, base.edits \subseteq theirs.edits
  PROVE  ours.edits \cup theirs.edits \subseteq MergeTrees(base, ours, theirs).edits
<1>1. MergeTrees(base, ours, theirs).edits
        = {e \in Edits : Merge3(e \in base.edits, e \in ours.edits, e \in theirs.edits)}
  BY DEF MergeTrees
<1>2. ours.edits \subseteq Edits /\ theirs.edits \subseteq Edits
  BY DEF Tree
<1>3. \A e \in ours.edits \cup theirs.edits :
        Merge3(e \in base.edits, e \in ours.edits, e \in theirs.edits)
  BY DEF Merge3
<1>4. QED
  BY <1>1, <1>2, <1>3

\* It is closer to the release branch than before.
LEMMA MergingCatchesUp ==
  ASSUME SerialInv, NEW p \in prs, NEW style \in MergeStyles, CompletePullRequest(p, style)
  PROVE  Abstract!CatchUp(InternalTree, ReleaseTree, commits'[head'[Target]].tree)
<1> DEFINE ours   == head[Target]
           theirs == head[p.branch]
           base   == MergeBase(ours, theirs)
<1>1. /\ Exists(Target) /\ ours \in CommitIds /\ theirs \in CommitIds
      /\ Mergeable(TreeOf(base), TreeOf(ours), TreeOf(theirs))
      /\ commits'[head'[Target]].tree = MergeTrees(TreeOf(base), TreeOf(ours), TreeOf(theirs))
  BY Merging
<1>2. FollowsRelease(TreeOf(theirs), TreeOf(base), ReleaseTree)
  BY <1>1, PrFollows
<1>3. base \in CommitIds /\ base \in Ancestors(ours)
  BY <1>1, SerialParts, MergeBaseExists
<1> HIDE DEF base
<1>4. \A i \in {base, ours, theirs} : TreeOf(i) \in Tree /\ Holds(TreeOf(i))
  BY <1>1, <1>3, SerialParts, TreesHold
<1>5. NotOlder(TreeOf(base), TreeOf(ours)) /\ TreeOf(base).edits \subseteq TreeOf(ours).edits
  BY <1>1, <1>3, SerialParts DEF CommitsHold, Lineage, HistoriesClosed
<1>6. LeadsOver(ReleaseTree, TreeOf(ours)) /\ LeadsOver(ReleaseTree, TreeOf(theirs))
  BY <1>1, ReleaseLeadsAll
<1>7. ReleaseTree \in Tree /\ Exists(Source)
  BY <1>1, SourceExists
<1>8. StagedAtLeast(TreeOf(ours), ReleaseTree)
  BY <1>1, <1>7, SerialParts DEF ReleaseIsStaged, Staged, StagedAtLeast, ReleaseTree
<1>9. QED
  BY <1>1, <1>2, <1>4, <1>5, <1>6, <1>7, <1>8, MergeCatchesUp DEF LeadsOver, InternalTree

-----------------------------------------------------------------------------
(* The release branch.                                                     *)

LEMMA LeadsOverItself ==
  ASSUME NEW tree \in Tree
  PROVE  LeadsOver(tree, tree)
<1>1. ASSUME NEW v \in Versions
      PROVE  tree.sdk[v].build <= tree.sdk[v].build /\ tree.runtime[v].build <= tree.runtime[v].build
  <2>1. tree.sdk[v].build \in Nat /\ tree.runtime[v].build \in Nat
    BY FieldTypes
  <2>2. QED
    BY <2>1
<1>2. QED
  BY <1>1, Zenon DEF LeadsOver, PublicAtMost

LEMMA LeadsOverAgain ==
  ASSUME NEW newer \in Tree, NEW older \in Tree, NEW tree \in Tree, Holds(older), Unrecorded(older),
         LeadsOver(newer, older), LeadsOver(older, tree)
  PROVE  LeadsOver(newer, tree)
<1>1. ASSUME NEW v \in Versions
      PROVE  /\ ~ tree.sdk[v].internal => tree.sdk[v].build <= newer.sdk[v].build
             /\ ~ tree.runtime[v].internal => tree.runtime[v].build <= newer.runtime[v].build
  <2>1. older.sdk[v].build <= newer.sdk[v].build /\ older.runtime[v].build <= newer.runtime[v].build
    BY UnrecordedIsPublic DEF LeadsOver, PublicAtMost
  <2>2. /\ ~ tree.sdk[v].internal => tree.sdk[v].build <= older.sdk[v].build
        /\ ~ tree.runtime[v].internal => tree.runtime[v].build <= older.runtime[v].build
    BY DEF LeadsOver, PublicAtMost
  <2>3. \A t \in {newer, older, tree} : t.sdk[v].build \in Nat /\ t.runtime[v].build \in Nat
    BY FieldTypes
  <2>4. QED
    BY <2>1, <2>2, <2>3
<1>2. QED
  BY <1>1 DEF LeadsOver, PublicAtMost

\* What is pushed to the release branch.
NextRelease(tree) ==
  \/ ~ Exists(Source) /\ tree = FirstTree
  \/ Exists(Source) /\ \E e \in Edits : tree = [ReleaseTree EXCEPT !.edits = @ \cup {e}]
  \/ /\ Exists(Source) /\ Exists(Target)
     /\ \E c \in Containers :
          /\ InternalTree.recorded[VersionOf[c]] = c
          /\ tree = ApplyPublicBuild(ReleaseTree, c)

LEMMA ReleaseStep ==
  ASSUME SerialInv,
         \/ CreateSource
         \/ \E e \in Edits : EditSource(e)
         \/ \E c \in Containers : ReleaseBuild(c)
  PROVE  \E tree \in Tree : PushToSource(tree) /\ NextRelease(tree)
<1>1. Exists(Source) => ReleaseTree \in Tree
  BY SourceExists, SerialParts, HeadsAreCommits, BranchFacts
<1>2. CASE CreateSource
  BY <1>2, FirstTreeType DEF CreateSource, NextRelease
<1>3. ASSUME NEW e \in Edits, EditSource(e)
      PROVE  \E tree \in Tree : PushToSource(tree) /\ NextRelease(tree)
  <2> DEFINE new == [ReleaseTree EXCEPT !.edits = @ \cup {e}]
  <2>1. Exists(Source) /\ PushToSource(new)
    BY <1>3 DEF EditSource, ReleaseTree
  <2>2. new \in Tree
    BY <1>1, <2>1 DEF Tree
  <2>3. NextRelease(new)
    BY <2>1 DEF NextRelease
  <2>4. QED
    BY <2>1, <2>2, <2>3
<1>4. ASSUME NEW c \in Containers, ReleaseBuild(c)
      PROVE  \E tree \in Tree : PushToSource(tree) /\ NextRelease(tree)
  <2> DEFINE new == ApplyPublicBuild(ReleaseTree, c)
  <2>1. /\ Exists(Source) /\ Exists(Target) /\ PushToSource(new)
        /\ InternalTree.recorded[VersionOf[c]] = c
    BY <1>4 DEF ReleaseBuild, ReleaseTree, InternalTree
  <2>2. new \in Tree
    BY <1>1, <2>1, ApplyType
  <2>3. NextRelease(new)
    BY <2>1 DEF NextRelease
  <2>4. QED
    BY <2>1, <2>2, <2>3
<1>5. QED
  BY <1>2, <1>3, <1>4

\* Where the push goes.
LEMMA ReleasePushed ==
  ASSUME SerialInv, NEW tree \in Tree, PushToSource(tree)
  PROVE  LET parents == IF Exists(Source) THEN {head[Source]} ELSE {}
         IN /\ parents \in SUBSET CommitIds /\ AddCommit(parents, tree)
            /\ head'[Source] = NewCommit /\ Exists(Source)' /\ ReleaseTree' = tree
            /\ \A b \in Branches \ {Source} : head'[b] = head[b]
            /\ Exists(Target)' <=> Exists(Target)
            /\ Exists(Target) => InternalTree' = InternalTree
<1> DEFINE parents == IF Exists(Source) THEN {head[Source]} ELSE {}
<1>1. parents \in SUBSET CommitIds /\ AddCommit(parents, tree) /\ TypeInv
  BY SerialParts, HeadsAreCommits, BranchFacts DEF PushToSource
<1>2. /\ commits'[NewCommit].tree = tree /\ \A i \in CommitIds : commits'[i] = commits[i]
      /\ NewCommit # NoCommit
  <2> HIDE DEF parents
  <2>1. commits \in Seq(Commit)
    BY <1>1 DEF TypeInv, TypeOK
  <2>2. NewCommit # NoCommit
    BY <2>1 DEF NewCommit, NoCommit
  <2>3. QED
    BY <1>1, <2>1, <2>2, AppendCommit
<1>3. /\ head' = [head EXCEPT ![Source] = NewCommit]
      /\ head \in [Branches -> {NoCommit} \cup CommitIds]
  BY <1>1 DEF PushToSource, TypeInv, TypeOK
<1>4. head'[Source] = NewCommit /\ \A b \in Branches \ {Source} : head'[b] = head[b]
  BY <1>3, BranchFacts
<1>5. head'[Target] = head[Target] /\ (Exists(Target) => head[Target] \in CommitIds)
  BY <1>1, <1>4, BranchFacts, HeadsAreCommits
<1>6. Exists(Source)' /\ (Exists(Target)' <=> Exists(Target))
  BY <1>2, <1>4, <1>5 DEF Exists
<1>7. ReleaseTree' = tree
  BY <1>2, <1>4 DEF ReleaseTree, TreeOf
<1>8. Exists(Target) => InternalTree' = InternalTree
  BY <1>2, <1>5 DEF InternalTree, TreeOf
<1>9. QED
  BY <1>1, <1>4, <1>6, <1>7, <1>8

\* It leads over what was there, but not over what is staged.
LEMMA ReleaseGrows ==
  ASSUME SerialInv, NEW tree \in Tree, NextRelease(tree)
  PROVE  /\ Exists(Source) => LeadsOver(tree, ReleaseTree)
         /\ \A v \in Versions : tree.sdk[v].build <= Staged(v) /\ tree.runtime[v].build <= Staged(v)
<1>1. Exists(Target) => InternalTree \in Tree
  BY SerialParts, HeadsAreCommits, BranchFacts, TreesHold DEF InternalTree
<1>2. \A v \in Versions : Staged(v) \in Nat
  BY <1>1, FieldTypes DEF Staged, InternalTree, NoContainer
<1>3. CASE ~ Exists(Source)
  <2>1. tree = FirstTree
    BY <1>3 DEF NextRelease
  <2>2. \A v \in Versions : FirstTree.sdk[v].build = 0 /\ FirstTree.runtime[v].build = 0
    BY DEF FirstTree, FirstBuilds, Public, NoContainer
  <2>3. \A n \in Nat : 0 <= n
    OBVIOUS
  <2>4. QED
    BY <1>2, <1>3, <2>1, <2>2, <2>3
<1>4. CASE Exists(Source)
  <2>1. ReleaseTree \in Tree /\ \A v \in Versions :
          /\ ReleaseTree.sdk[v].build <= Staged(v) /\ ReleaseTree.runtime[v].build <= Staged(v)
    BY <1>4, SourceExists, SerialParts, HeadsAreCommits, BranchFacts DEF ReleaseIsStaged, ReleaseTree
  <2>2. ASSUME NEW e \in Edits, tree = [ReleaseTree EXCEPT !.edits = @ \cup {e}]
        PROVE  /\ LeadsOver(tree, ReleaseTree)
               /\ tree.sdk = ReleaseTree.sdk /\ tree.runtime = ReleaseTree.runtime
    <3>1. /\ tree.sdk = ReleaseTree.sdk /\ tree.runtime = ReleaseTree.runtime
          /\ ReleaseTree.edits \subseteq tree.edits
      BY <2>1, <2>2 DEF Tree
    <3>2. QED
      BY <2>1, <3>1, LeadsOverItself DEF LeadsOver, PublicAtMost
  <2>3. ASSUME NEW c \in Containers, Exists(Target), InternalTree.recorded[VersionOf[c]] = c,
               tree = ApplyPublicBuild(ReleaseTree, c)
        PROVE  /\ LeadsOver(tree, ReleaseTree)
               /\ \A v \in Versions : tree.sdk[v].build <= Staged(v) /\ tree.runtime[v].build <= Staged(v)
    <3>1. /\ tree.edits = ReleaseTree.edits
          /\ \A v \in Versions :
               /\ tree.sdk[v] = IF v = VersionOf[c] THEN Public(c) ELSE ReleaseTree.sdk[v]
               /\ tree.runtime[v] = IF v = VersionOf[c] /\ c \notin SdkOnly THEN Public(c)
                                    ELSE ReleaseTree.runtime[v]
      BY <2>1, <2>3, PublicFields
    <3>2. Public(c).build = c /\ c \in Nat /\ VersionOf[c] \in Versions
      BY ContentAssumption DEF Public
    <3>3. Staged(VersionOf[c]) = c
      BY <2>3 DEF Staged, InternalTree
    <3>4. ASSUME NEW v \in Versions
          PROVE  /\ tree.sdk[v].build <= Staged(v) /\ tree.runtime[v].build <= Staged(v)
                 /\ ReleaseTree.sdk[v].build <= tree.sdk[v].build
                 /\ ReleaseTree.runtime[v].build <= tree.runtime[v].build
      <4>1. ReleaseTree.sdk[v].build \in Nat /\ ReleaseTree.runtime[v].build \in Nat
        BY <2>1, FieldTypes
      <4>2. ReleaseTree.sdk[v].build <= Staged(v) /\ ReleaseTree.runtime[v].build <= Staged(v)
        BY <2>1
      <4>3. CASE v = VersionOf[c]
        BY <3>1, <3>2, <3>3, <4>1, <4>2, <4>3
      <4>4. CASE v # VersionOf[c]
        BY <3>1, <4>1, <4>2, <4>4
      <4>5. QED
        BY <4>3, <4>4
    <3>5. QED
      BY <3>1, <3>4 DEF LeadsOver, PublicAtMost
  <2>4. QED
    BY <1>4, <2>1, <2>2, <2>3 DEF NextRelease
<1>5. QED
  BY <1>3, <1>4

-----------------------------------------------------------------------------
(* The commits.                                                            *)

\* A commit that has its parents' edits.
LEMMA LineageGrows ==
  ASSUME TypeInv, Lineage, NEW parents \in SUBSET CommitIds, NEW tree \in Tree,
         AddCommit(parents, tree), \A p \in parents : TreeOf(p).edits \subseteq tree.edits
  PROVE  Lineage'
<1>1. /\ \A i \in CommitIds : i \in CommitIds' /\ commits'[i] = commits[i]
      /\ \A i \in CommitIds' : i \in CommitIds \/ i = NewCommit
      /\ commits'[NewCommit].tree = tree
      /\ commits'[NewCommit].ancestors = {NewCommit} \cup UNION {Ancestors(p) : p \in parents}
  BY AppendCommit DEF TypeInv, TypeOK
<1>2. HistoriesClosed'
  BY HistoriesStayClosed DEF TypeInv, TypeOK, Lineage
<1>3. ASSUME NEW i \in CommitIds', NEW j \in commits'[i].ancestors
      PROVE  commits'[j].tree.edits \subseteq commits'[i].tree.edits
  <2>1. CASE i \in CommitIds
    <3>1. j \in Ancestors(i) /\ j \in CommitIds
      BY <1>1, <2>1, AncestorsAreCommits DEF TypeInv, TypeOK, Ancestors
    <3>2. QED
      BY <1>1, <2>1, <3>1 DEF Lineage, TreeOf
  <2>2. CASE i = NewCommit /\ j # NewCommit
    <3>1. PICK p \in parents : j \in Ancestors(p)
      BY <1>1, <2>2
    <3>2. p \in CommitIds /\ j \in CommitIds
      BY <3>1, AncestorsAreCommits DEF TypeInv, TypeOK
    <3>3. TreeOf(j).edits \subseteq TreeOf(p).edits /\ TreeOf(p).edits \subseteq tree.edits
      BY <3>1, <3>2 DEF Lineage
    <3>4. QED
      BY <1>1, <2>2, <3>2, <3>3 DEF TreeOf
  <2>3. QED
    BY <1>1, <2>1, <2>2
<1>4. QED
  BY <1>2, <1>3 DEF Lineage, Ancestors, TreeOf

\* What a run pushes.
LEMMA PushBehind ==
  ASSUME SerialInv, NEW r \in Runs, Pushes(r)
  PROVE  /\ originTarget[r] \in CommitIds /\ workTree[r] \in Tree
         /\ AddCommit({originTarget[r]}, workTree[r])
         /\ \A b \in Branches : head'[b] = IF b = SyncBranch(r) THEN NewCommit ELSE head[b]
         /\ TreeOf(originTarget[r]).edits \subseteq workTree[r].edits
         /\ LeadsOver(ReleaseTree, workTree[r])
<1> DEFINE source == TreeOf(sourceSha[r])
           target == TreeOf(originTarget[r])
<1>1. /\ pc[r] = "apply" /\ AllReapplied(r) /\ AddCommit({originTarget[r]}, workTree[r])
      /\ head' = [head EXCEPT ![SyncBranch(r)] = NewCommit]
  BY DEF Pushes
<1>2. TypeInv /\ head \in [Branches -> {NoCommit} \cup CommitIds] /\ workTree[r] \in Tree
  BY SerialParts DEF TypeInv, TypeOK
<1>3. originTarget[r] \in CommitIds /\ sourceSha[r] \in CommitIds
  BY <1>1, <1>2, References DEF Steps, SourceFound, TargetFound, SourceRead, OriginFetched
<1>4. workTree[r] = InSyncWith(source, target.recorded)
  BY <1>1, <1>2, SerialParts, ReappliedContent DEF SyncInv
<1>5. workTree[r].edits = source.edits
  BY <1>4 DEF InSyncWith
<1>6. target.edits \subseteq source.edits
  BY <1>1, SerialParts DEF ReleaseIsRead, MayCommit
<1>7. LeadsOver(ReleaseTree, source)
  BY <1>3, ReleaseLeadsAll
<1>8. ASSUME NEW v \in Versions
      PROVE  /\ workTree[r].sdk[v] = source.sdk[v] \/ workTree[r].sdk[v].internal
             /\ workTree[r].runtime[v] = source.runtime[v] \/ workTree[r].runtime[v].internal
  <2>1. /\ workTree[r].sdk[v] \in {source.sdk[v], Internal(target.recorded[v])}
        /\ workTree[r].runtime[v] \in {source.runtime[v], Internal(target.recorded[v])}
    BY <1>4 DEF InSyncWith
  <2>2. Internal(target.recorded[v]).internal = TRUE
    BY DEF Internal
  <2>3. QED
    BY <2>1, <2>2
<1>9. LeadsOver(ReleaseTree, workTree[r])
  BY <1>5, <1>7, <1>8 DEF LeadsOver, PublicAtMost
<1>10. \A b \in Branches : head'[b] = IF b = SyncBranch(r) THEN NewCommit ELSE head[b]
  BY <1>1, <1>2, BranchFacts
<1>11. QED
  BY <1>1, <1>2, <1>3, <1>5, <1>6, <1>9, <1>10

\* What is staged.
LEMMA StageStep ==
  ASSUME SerialInv, NEW c \in Containers, MergeInternalUpdate(c)
  PROVE  LET tree == ApplyInternalBuild(InternalTree, c)
         IN /\ Exists(Target) /\ head[Target] \in CommitIds /\ InternalTree \in Tree /\ tree \in Tree
            /\ InternalTree.recorded[VersionOf[c]] < c
            /\ c \in SdkOnly /\ InternalTree.runtime[VersionOf[c]].internal =>
                 ReleaseTree.runtime[VersionOf[c]]
                   = Public(InternalTree.runtime[VersionOf[c]].build)
            /\ AddCommit({head[Target]}, tree)
            /\ \A b \in Branches : head'[b] = IF b = Target THEN NewCommit ELSE head[b]
            /\ commits'[NewCommit].tree = tree
            /\ head[Target] \in commits'[NewCommit].ancestors
            /\ tree.edits = InternalTree.edits /\ LeadsOver(ReleaseTree, tree)
<1> DEFINE tree == ApplyInternalBuild(InternalTree, c)
<1>1. /\ Exists(Target) /\ InternalTree.recorded[VersionOf[c]] < c
      /\ c \in SdkOnly /\ InternalTree.runtime[VersionOf[c]].internal =>
           ReleaseTree.runtime[VersionOf[c]] = Public(InternalTree.runtime[VersionOf[c]].build)
      /\ AddCommit({head[Target]}, tree) /\ head' = [head EXCEPT ![Target] = NewCommit]
  BY DEF MergeInternalUpdate, InternalTree, ReleaseTree
<1>2. TypeInv /\ head[Target] \in CommitIds /\ head \in [Branches -> {NoCommit} \cup CommitIds]
  BY <1>1, SerialParts, HeadsAreCommits, BranchFacts DEF TypeInv, TypeOK
<1>3. InternalTree \in Tree /\ tree \in Tree
  BY <1>2, SerialParts, TreesHold, ApplyType DEF InternalTree
<1>4. LeadsOver(ReleaseTree, InternalTree)
  BY <1>2, ReleaseLeadsAll DEF InternalTree
<1>5. /\ tree.edits = InternalTree.edits
      /\ \A v \in Versions :
           /\ tree.sdk[v] \in {Internal(c), InternalTree.sdk[v]}
           /\ tree.runtime[v] \in {Internal(c), InternalTree.runtime[v]}
  BY <1>3, InternalFields
<1>6. Internal(c).internal = TRUE
  BY DEF Internal
<1> HIDE DEF tree
<1>7. LeadsOver(ReleaseTree, tree)
  BY <1>4, <1>5, <1>6 DEF LeadsOver, PublicAtMost
<1>8. /\ commits'[NewCommit].tree = tree
      /\ commits'[NewCommit].ancestors = {NewCommit} \cup UNION {Ancestors(p) : p \in {head[Target]}}
  <2>1. commits \in Seq(Commit) /\ {head[Target]} \in SUBSET CommitIds
    BY <1>2 DEF TypeInv, TypeOK
  <2>2. QED
    BY <1>1, <1>3, <2>1, AppendCommit
<1>9. head[Target] \in Ancestors(head[Target])
  BY <1>2 DEF TypeInv, CommitsOK
<1>10. \A b \in Branches : head'[b] = IF b = Target THEN NewCommit ELSE head[b]
  BY <1>1, <1>2
<1>11. QED
  BY <1>1, <1>2, <1>3, <1>5, <1>7, <1>8, <1>9, <1>10 DEF tree

\* What is merged.
LEMMA MergeStep ==
  ASSUME SerialInv, NEW p \in prs, NEW style \in MergeStyles, CompletePullRequest(p, style)
  PROVE  LET ours   == head[Target]
             theirs == head[p.branch]
         IN /\ Exists(Target) /\ ours \in CommitIds /\ theirs \in CommitIds
            /\ p.branch \in Branches \ {Source, Target}
            /\ \A b \in Branches \ {Target} : head'[b] = head[b]
            /\ Exists(Target)' /\ ours \in Ancestors(head[Target])'
            /\ InternalTree'.edits \subseteq TreeOf(ours).edits \cup TreeOf(theirs).edits
            /\ \/ UNCHANGED commits
               \/ \E parents \in SUBSET CommitIds, tree \in Tree :
                    /\ AddCommit(parents, tree) /\ LeadsOver(ReleaseTree, tree)
                    /\ \A q \in parents : TreeOf(q).edits \subseteq tree.edits
<1> DEFINE ours   == head[Target]
           theirs == head[p.branch]
           base   == MergeBase(ours, theirs)
           merged == MergeTrees(TreeOf(base), TreeOf(ours), TreeOf(theirs))
<1>1. /\ Exists(Target) /\ ours \in CommitIds /\ theirs \in CommitIds
      /\ p.branch \in Branches \ {Source, Target}
      /\ merged \in Tree
      /\ \A b \in Branches \ {Target} : head'[b] = head[b]
      /\ head'[Target] # NoCommit
      /\ commits'[head'[Target]].tree = merged
      /\ ours \in commits'[head'[Target]].ancestors
      /\ \/ UNCHANGED commits
         \/ \E parents \in {{ours, theirs}, {ours}} : AddCommit(parents, merged)
  BY Merging
<1>2. TreeOf(ours) \in Tree /\ TreeOf(theirs) \in Tree
  BY <1>1, SerialParts, TreesHold
<1>3. /\ merged.edits \subseteq TreeOf(ours).edits \cup TreeOf(theirs).edits
      /\ \A v \in Versions :
           /\ merged.sdk[v] \in {TreeOf(ours).sdk[v], TreeOf(theirs).sdk[v]}
           /\ merged.runtime[v] \in {TreeOf(ours).runtime[v], TreeOf(theirs).runtime[v]}
  BY <1>2, MergedFrom
<1>4. TreeOf(base).edits \subseteq TreeOf(ours).edits /\ TreeOf(base).edits \subseteq TreeOf(theirs).edits
  <2>1. base \in Ancestors(ours) /\ base \in Ancestors(theirs)
    BY <1>1, SerialParts, MergeBaseExists
  <2> HIDE DEF base, merged
  <2>2. QED
    BY <1>1, <2>1, SerialParts DEF Lineage
<1>5. TreeOf(ours).edits \cup TreeOf(theirs).edits \subseteq merged.edits
  BY <1>2, <1>4, MergedEdits
<1> HIDE DEF merged
<1>6. LeadsOver(ReleaseTree, TreeOf(ours)) /\ LeadsOver(ReleaseTree, TreeOf(theirs))
  BY <1>1, ReleaseLeadsAll
<1>7. LeadsOver(ReleaseTree, merged)
  BY <1>3, <1>6 DEF LeadsOver, PublicAtMost
<1>8. Exists(Target)' /\ InternalTree' = merged /\ ours \in Ancestors(head[Target])'
  BY <1>1 DEF Exists, InternalTree, TreeOf, Ancestors
<1>9. ASSUME NEW parents \in {{ours, theirs}, {ours}}
      PROVE  parents \in SUBSET CommitIds /\ \A q \in parents : TreeOf(q).edits \subseteq merged.edits
  BY <1>1, <1>5
<1>10. \/ UNCHANGED commits
       \/ \E parents \in SUBSET CommitIds, tree \in Tree :
            /\ AddCommit(parents, tree) /\ LeadsOver(ReleaseTree, tree)
            /\ \A q \in parents : TreeOf(q).edits \subseteq tree.edits
  BY <1>1, <1>7, <1>9
<1>11. QED
  BY <1>1, <1>3, <1>8, <1>10

\* The branches that a run moves.
LEMMA RunMoves ==
  ASSUME SerialInv, NEW r \in Runs, Step(r)
  PROVE  \/ Pushes(r)
         \/ UNCHANGED <<commits, head>>
         \/ /\ UNCHANGED commits /\ Exists(Source)
            /\ \E b \in Branches \ {Source} :
                 /\ \A a \in Branches : head'[a] = IF a = b THEN head[Source] ELSE head[a]
                 /\ \/ b = Target /\ ~ Exists(Target) /\ pc[r] = "createTarget"
                    \/ b = FastForwardBranch(r) /\ b # Target /\ pc[r] = "createFastForward"
<1>1. TypeInv /\ head \in [Branches -> {NoCommit} \cup CommitIds]
  BY SerialParts DEF TypeInv, TypeOK
<1>2. CASE CreateTarget(r)
  <2>1. pc[r] = "createTarget" /\ ~ Exists(Target) /\ Exists(Source)
    BY <1>1, <1>2, SerialParts DEF CreateTarget, CreatesTarget, TypeInv, RunsOK, RunOK, Steps, SourceFound
  <2>2. UNCHANGED commits /\ head' = [head EXCEPT ![Target] = head[Source]]
    BY <1>2, <2>1 DEF CreateTarget, CreateRemoteBranch, BaseBranch
  <2>3. \A a \in Branches : head'[a] = IF a = Target THEN head[Source] ELSE head[a]
    BY <1>1, <2>2, BranchFacts
  <2>4. QED
    BY <2>1, <2>2, <2>3, BranchFacts
<1>3. CASE CreateFastForwardBranch(r)
  <2>1. pc[r] = "createFastForward" /\ Exists(Source) /\ UNCHANGED commits
    BY <1>1, <1>3 DEF CreateFastForwardBranch, TypeInv, RunsOK, RunOK, Steps, SourceFound
  <2>2. UNCHANGED head \/ head' = [head EXCEPT ![FastForwardBranch(r)] = head[Source]]
    BY <1>3 DEF CreateFastForwardBranch, CreateRemoteBranch, BaseBranch
  <2>3. CASE UNCHANGED head
    BY <2>1, <2>3
  <2>4. CASE head' = [head EXCEPT ![FastForwardBranch(r)] = head[Source]]
    <3>1. \A a \in Branches : head'[a] = IF a = FastForwardBranch(r) THEN head[Source] ELSE head[a]
      BY <1>1, <2>4, BranchFacts
    <3>2. QED
      BY <2>1, <3>1, BranchFacts
  <2>5. QED
    BY <2>2, <2>3, <2>4
<1>4. CASE Push(r)
  BY <1>4 DEF Push, Pushes, Goto, server
<1>5. CASE ~ (CreateTarget(r) \/ CreateFastForwardBranch(r) \/ Push(r))
  BY <1>5 DEF Step, FindBranches, ReadSource, Compare, Fetch, OpenFastForward,
     ResetToSource, ReapplyBuild, OpenSync, server
<1>6. QED
  BY <1>2, <1>3, <1>4, <1>5

-----------------------------------------------------------------------------
(* What a step does to the two branches.                                   *)

ReleaseStays == head'[Source] = head[Source] /\ (Exists(Source) => ReleaseTree' = ReleaseTree)
InternalStays == head'[Target] = head[Target] /\ (Exists(Target) => InternalTree' = InternalTree)

ReleaseAdvances == \E tree \in Tree : PushToSource(tree) /\ NextRelease(tree)

StageNext(c) ==
  LET v == VersionOf[c]
  IN /\ InternalTree.recorded[v] < c
     /\ c \in SdkOnly /\ InternalTree.runtime[v].internal =>
          ReleaseTree.runtime[v] = Public(InternalTree.runtime[v].build)
     /\ InternalTree' = ApplyInternalBuild(InternalTree, c)

InternalAdvances ==
  /\ Exists(Target)'
  /\ \/ ~ Exists(Target) /\ Exists(Source) /\ InternalTree' = ReleaseTree
     \/ /\ Exists(Target) /\ head[Target] \in Ancestors(head[Target])'
        /\ \/ \E c \in Containers : StageNext(c)
           \/ Abstract!CatchUp(InternalTree, ReleaseTree, InternalTree')

LEMMA StaysIfHeadsStay ==
  ASSUME TypeInv, ServerGrows
  PROVE  /\ head'[Source] = head[Source] => ReleaseStays
         /\ head'[Target] = head[Target] => InternalStays
  BY HeadsAreCommits, BranchFacts DEF ServerGrows, ReleaseStays, InternalStays, ReleaseTree,
     InternalTree, TreeOf

LEMMA BranchSteps ==
  ASSUME SerialInv, [Next]_vars
  PROVE  \/ ReleaseStays /\ (InternalStays \/ InternalAdvances)
         \/ ReleaseAdvances
<1>1. TypeInv /\ ServerGrows
  BY SerialParts, NextReads
<1>2. ASSUME NEW r \in Runs, Step(r)
      PROVE  ReleaseStays /\ (InternalStays \/ InternalAdvances)
  <2>1. CASE Pushes(r)
    <3>1. head'[Source] = head[Source] /\ head'[Target] = head[Target]
      BY <2>1, PushBehind, BranchFacts
    <3>2. QED
      BY <1>1, <3>1, StaysIfHeadsStay
  <2>2. CASE UNCHANGED <<commits, head>>
    BY <1>1, <2>2, StaysIfHeadsStay
  <2>3. ASSUME UNCHANGED commits, Exists(Source), NEW b \in Branches \ {Source},
               \A a \in Branches : head'[a] = IF a = b THEN head[Source] ELSE head[a],
               b = Target => ~ Exists(Target)
        PROVE  ReleaseStays /\ (InternalStays \/ InternalAdvances)
    <3>1. head'[Source] = head[Source]
      BY <2>3, BranchFacts
    <3>2. CASE b = Target
      <4>1. Exists(Target)' /\ InternalTree' = ReleaseTree
        BY <2>3, <3>2, BranchFacts DEF Exists, InternalTree, ReleaseTree, TreeOf
      <4>2. QED
        BY <1>1, <2>3, <3>1, <3>2, <4>1, StaysIfHeadsStay DEF InternalAdvances
    <3>3. CASE b # Target
      BY <1>1, <2>3, <3>1, <3>3, BranchFacts, StaysIfHeadsStay
    <3>4. QED
      BY <3>2, <3>3
  <2>4. QED
    BY <1>2, <2>1, <2>2, <2>3, RunMoves
<1>3. CASE Environment
  <2>1. CASE \/ CreateSource
             \/ \E e \in Edits : EditSource(e)
             \/ \E c \in Containers : ReleaseBuild(c)
    BY <2>1, ReleaseStep DEF ReleaseAdvances
  <2>2. ASSUME NEW c \in Containers, MergeInternalUpdate(c)
        PROVE  ReleaseStays /\ InternalAdvances
    <3>1. head'[Source] = head[Source] /\ head'[Target] = NewCommit
      BY <2>2, StageStep, BranchFacts
    <3>2. Exists(Target)'
      BY <1>1, <3>1 DEF Exists, NewCommit, NoCommit, TypeInv, TypeOK
    <3>3. /\ Exists(Target) /\ head[Target] \in Ancestors(head[Target])' /\ StageNext(c)
      BY <2>2, <3>1, StageStep DEF StageNext, InternalTree, TreeOf, Ancestors
    <3>4. QED
      BY <1>1, <3>1, <3>2, <3>3, StaysIfHeadsStay DEF InternalAdvances
  <2>3. ASSUME NEW p \in prs, NEW style \in MergeStyles, CompletePullRequest(p, style)
        PROVE  ReleaseStays /\ InternalAdvances
    <3>1. head'[Source] = head[Source]
      BY <2>3, MergeStep, BranchFacts
    <3>2. Exists(Target) /\ Exists(Target)' /\ head[Target] \in Ancestors(head[Target])'
      BY <2>3, MergeStep
    <3>3. Abstract!CatchUp(InternalTree, ReleaseTree, InternalTree')
      BY <2>3, MergingCatchesUp DEF InternalTree, TreeOf
    <3>4. QED
      BY <1>1, <3>1, <3>2, <3>3, StaysIfHeadsStay DEF InternalAdvances
  <2>4. QED
    BY <1>3, <2>1, <2>2, <2>3 DEF Environment
<1>4. CASE \/ UNCHANGED vars
           \/ \E r \in Runs : StartTriggered(r) \/ StartByHand(r) \/ Fail(r)
  <2>1. UNCHANGED <<commits, head>>
    BY <1>4 DEF vars, StartTriggered, StartByHand, Fail, server
  <2>2. QED
    BY <1>1, <2>1, StaysIfHeadsStay
<1>5. QED
  BY <1>2, <1>3, <1>4 DEF Next

-----------------------------------------------------------------------------
(* What the two branches keep.                                             *)

\* Histories stay closed, and the release branch keeps the lead.
LEMMA CommitsFollow ==
  ASSUME SerialInv, [Next]_vars
  PROVE  Lineage' /\ ReleaseLeads'
<1>1. TypeInv /\ Lineage /\ ServerGrows
  BY SerialParts, NextReads
<1>2. CASE UNCHANGED commits /\ head'[Source] = head[Source]
  BY <1>2, SerialParts DEF Lineage, HistoriesClosed, ReleaseLeads, CommitIds, TreeOf, Ancestors, Exists
<1>3. ASSUME NEW parents \in SUBSET CommitIds, NEW tree \in Tree, AddCommit(parents, tree),
             \A q \in parents : TreeOf(q).edits \subseteq tree.edits,
             LeadsOver(ReleaseTree, tree), head'[Source] = head[Source], CommitIds # {}
      PROVE  Lineage' /\ ReleaseLeads'
  <2>1. Lineage'
    BY <1>1, <1>3, LineageGrows
  <2>2. Exists(Source) /\ head[Source] \in CommitIds
    BY <1>3, SourceExists
  <2>3. /\ \A i \in CommitIds : commits'[i] = commits[i]
        /\ \A i \in CommitIds' : i \in CommitIds \/ i = NewCommit
        /\ commits'[NewCommit].tree = tree
    BY <1>1, <1>3, AppendCommit DEF TypeInv, TypeOK
  <2>4. ASSUME NEW i \in CommitIds'
        PROVE  LeadsOver(ReleaseTree, commits'[i].tree)
    <3>1. CASE i \in CommitIds
      BY <2>3, <3>1, ReleaseLeadsAll DEF TreeOf
    <3>2. CASE i = NewCommit
      BY <1>3, <2>3, <3>2
    <3>3. QED
      BY <2>3, <3>1, <3>2
  <2>5. commits'[head'[Source]].tree = ReleaseTree
    BY <1>3, <2>2, <2>3 DEF ReleaseTree, TreeOf
  <2>6. ReleaseLeads'
    BY <2>4, <2>5 DEF ReleaseLeads, LeadsOver, PublicAtMost, TreeOf
  <2>7. QED
    BY <2>1, <2>6
<1>4. ASSUME NEW r \in Runs, Pushes(r)
      PROVE  Lineage' /\ ReleaseLeads'
  <2>1. /\ {originTarget[r]} \in SUBSET CommitIds /\ CommitIds # {} /\ workTree[r] \in Tree
        /\ AddCommit({originTarget[r]}, workTree[r])
        /\ \A q \in {originTarget[r]} : TreeOf(q).edits \subseteq workTree[r].edits
        /\ LeadsOver(ReleaseTree, workTree[r])
    BY <1>4, PushBehind
  <2>2. head'[Source] = head[Source]
    BY <1>4, PushBehind, BranchFacts
  <2>3. QED
    BY <1>3, <2>1, <2>2
<1>5. ASSUME ReleaseAdvances
      PROVE  Lineage' /\ ReleaseLeads'
  <2>1. PICK tree \in Tree : PushToSource(tree) /\ NextRelease(tree)
    BY <1>5 DEF ReleaseAdvances
  <2> DEFINE parents == IF Exists(Source) THEN {head[Source]} ELSE {}
  <2>2. /\ parents \in SUBSET CommitIds /\ AddCommit(parents, tree)
        /\ head'[Source] = NewCommit /\ ReleaseTree' = tree
    BY <2>1, ReleasePushed
  <2>3. Exists(Source) => LeadsOver(tree, ReleaseTree)
    BY <2>1, ReleaseGrows
  <2>4. \A q \in parents : TreeOf(q).edits \subseteq tree.edits
    BY <2>3 DEF LeadsOver, ReleaseTree
  <2> HIDE DEF parents
  <2>5. Lineage'
    BY <1>1, <2>2, <2>4, LineageGrows
  <2>6. /\ \A i \in CommitIds : commits'[i] = commits[i]
        /\ \A i \in CommitIds' : i \in CommitIds \/ i = NewCommit
        /\ commits'[NewCommit].tree = tree
    BY <1>1, <2>2, AppendCommit DEF TypeInv, TypeOK
  <2>7. ASSUME NEW i \in CommitIds'
        PROVE  LeadsOver(tree, commits'[i].tree)
    <3>1. CASE i \in CommitIds
      <4>1. /\ Exists(Source) /\ ReleaseTree \in Tree /\ Holds(ReleaseTree) /\ Unrecorded(ReleaseTree)
        BY <3>1, SourceExists
      <4>2. TreeOf(i) \in Tree /\ LeadsOver(ReleaseTree, TreeOf(i))
        BY <3>1, SerialParts, TreesHold, ReleaseLeadsAll
      <4>3. LeadsOver(tree, TreeOf(i))
        BY <2>3, <4>1, <4>2, LeadsOverAgain
      <4>4. QED
        BY <2>6, <3>1, <4>3 DEF TreeOf
    <3>2. CASE i = NewCommit
      BY <2>6, <3>2, LeadsOverItself
    <3>3. QED
      BY <2>6, <3>1, <3>2
  <2>8. commits'[head'[Source]].tree = tree
    BY <2>2, <2>6
  <2>9. ReleaseLeads'
    BY <2>7, <2>8 DEF ReleaseLeads, LeadsOver, PublicAtMost, TreeOf
  <2>10. QED
    BY <2>5, <2>9
<1>6. CASE Environment
  <2>1. CASE \/ CreateSource
             \/ \E e \in Edits : EditSource(e)
             \/ \E c \in Containers : ReleaseBuild(c)
    BY <1>5, <2>1, ReleaseStep DEF ReleaseAdvances
  <2>2. ASSUME NEW c \in Containers, MergeInternalUpdate(c)
        PROVE  Lineage' /\ ReleaseLeads'
    <3> DEFINE tree == ApplyInternalBuild(InternalTree, c)
    <3>1. /\ {head[Target]} \in SUBSET CommitIds /\ CommitIds # {} /\ tree \in Tree
          /\ AddCommit({head[Target]}, tree) /\ LeadsOver(ReleaseTree, tree)
          /\ tree.edits = InternalTree.edits
      BY <2>2, StageStep
    <3>2. \A q \in {head[Target]} : TreeOf(q).edits \subseteq tree.edits
      BY <3>1 DEF InternalTree
    <3>3. head'[Source] = head[Source]
      BY <2>2, StageStep, BranchFacts
    <3> HIDE DEF tree
    <3>4. QED
      BY <1>3, <3>1, <3>2, <3>3
  <2>3. ASSUME NEW p \in prs, NEW style \in MergeStyles, CompletePullRequest(p, style)
        PROVE  Lineage' /\ ReleaseLeads'
    <3>1. head'[Source] = head[Source] /\ CommitIds # {}
      BY <2>3, MergeStep, BranchFacts
    <3>2. \/ UNCHANGED commits
          \/ \E parents \in SUBSET CommitIds, tree \in Tree :
               /\ AddCommit(parents, tree) /\ LeadsOver(ReleaseTree, tree)
               /\ \A q \in parents : TreeOf(q).edits \subseteq tree.edits
      BY <2>3, MergeStep
    <3>3. QED
      BY <1>2, <1>3, <3>1, <3>2
  <2>4. QED
    BY <1>6, <2>1, <2>2, <2>3 DEF Environment
<1>7. QED
  BY <1>1, <1>2, <1>4, <1>6, OtherSteps

\* What catching up leaves to the staged builds.
LEMMA CatchUpKeeps ==
  ASSUME NEW old \in Tree, NEW now, NEW new, Abstract!CatchUp(old, now, new), NEW v \in Versions
  PROVE  /\ new.recorded = old.recorded /\ old.edits \subseteq new.edits
         /\ old.recorded[v] \in SdkOnly =>
              new.runtime[v] = old.runtime[v] \/ ~ new.runtime[v].internal
         /\ old.recorded[v] # NoContainer /\ old.recorded[v] \notin SdkOnly =>
              new.runtime[v] = old.runtime[v] /\ new.dotnetUrl[v] = old.dotnetUrl[v]
<1>1. 0 \notin SdkOnly
  BY ContentAssumption
<1>2. QED
  BY <1>1 DEF Abstract!CatchUp, Abstract!NoContainer, NoContainer

\* The record of the internal branch never shrinks.
LEMMA StagedGrows ==
  ASSUME SerialInv, InternalStays \/ InternalAdvances
  PROVE  \A v \in Versions : Staged(v) \in Nat /\ Staged(v)' \in Nat /\ Staged(v) <= Staged(v)'
<1>1. Exists(Target) => InternalTree \in Tree
  BY SerialParts, HeadsAreCommits, BranchFacts, TreesHold DEF InternalTree
<1>2. \A v \in Versions : Staged(v) \in Nat
  BY <1>1, FieldTypes DEF Staged, InternalTree, NoContainer
<1>3. \A n \in Nat : n <= n
  OBVIOUS
<1>4. CASE InternalStays
  <2>1. \A v \in Versions : Staged(v)' = Staged(v)
    BY <1>4 DEF InternalStays, InternalTree, Staged, Exists
  <2>2. QED
    BY <1>2, <1>3, <2>1
<1>5. CASE InternalAdvances
  <2>1. Exists(Target)'
    BY <1>5 DEF InternalAdvances
  <2>2. \A v \in Versions : Staged(v)' = InternalTree'.recorded[v]
    BY <2>1 DEF Staged, InternalTree
  <2>3. CASE ~ Exists(Target) /\ Exists(Source) /\ InternalTree' = ReleaseTree
    <3>1. \A v \in Versions : Staged(v) = 0 /\ Staged(v)' = 0
      BY <2>2, <2>3, SerialParts DEF Staged, NoContainer, Nothing, ReleaseRecordsNothing, ReleaseTree
    <3>2. QED
      BY <1>2, <1>3, <3>1
  <2>4. \A v \in Versions : Exists(Target) => Staged(v) = InternalTree.recorded[v]
    BY DEF Staged, InternalTree
  <2>5. ASSUME Exists(Target), NEW c \in Containers, StageNext(c), NEW v \in Versions
        PROVE  Staged(v)' \in Nat /\ Staged(v) <= Staged(v)'
    <3>1. Staged(v)' = IF v = VersionOf[c] THEN c ELSE Staged(v)
      BY <1>1, <2>2, <2>4, <2>5, InternalFields DEF StageNext
    <3>2. c \in Nat /\ (v = VersionOf[c] => Staged(v) < c)
      BY <2>4, <2>5, ContentAssumption DEF StageNext
    <3>3. QED
      BY <1>2, <3>1, <3>2
  <2>6. ASSUME Exists(Target), Abstract!CatchUp(InternalTree, ReleaseTree, InternalTree'), NEW v \in Versions
        PROVE  Staged(v)' \in Nat /\ Staged(v) <= Staged(v)'
    BY <1>1, <1>2, <1>3, <2>2, <2>4, <2>6, CatchUpKeeps
  <2>7. QED
    BY <1>2, <1>5, <2>3, <2>5, <2>6 DEF InternalAdvances
<1>6. QED
  BY <1>4, <1>5

LEMMA ReleaseStaysStaged ==
  ASSUME SerialInv, [Next]_vars
  PROVE  ReleaseIsStaged'
<1>1. SUFFICES ASSUME Exists(Source)', NEW v \in Versions
               PROVE  /\ ReleaseTree'.sdk[v].build <= Staged(v)'
                      /\ ReleaseTree'.runtime[v].build <= Staged(v)'
  BY DEF ReleaseIsStaged, ReleaseTree
<1>2. CASE ReleaseStays /\ (InternalStays \/ InternalAdvances)
  <2>1. Exists(Source) /\ ReleaseTree' = ReleaseTree
    BY <1>1, <1>2 DEF ReleaseStays, Exists
  <2>2. /\ ReleaseTree.sdk[v].build <= Staged(v) /\ ReleaseTree.runtime[v].build <= Staged(v)
    BY <2>1, SerialParts DEF ReleaseIsStaged, ReleaseTree
  <2>3. ReleaseTree.sdk[v].build \in Nat /\ ReleaseTree.runtime[v].build \in Nat
    BY <2>1, SourceExists, SerialParts, HeadsAreCommits, BranchFacts, FieldTypes
  <2>4. Staged(v) \in Nat /\ Staged(v)' \in Nat /\ Staged(v) <= Staged(v)'
    BY <1>2, StagedGrows
  <2>5. QED
    BY <2>1, <2>2, <2>3, <2>4
<1>3. CASE ReleaseAdvances
  <2>1. PICK tree \in Tree : PushToSource(tree) /\ NextRelease(tree)
    BY <1>3 DEF ReleaseAdvances
  <2>2. /\ ReleaseTree' = tree /\ (Exists(Target)' <=> Exists(Target))
        /\ Exists(Target) => InternalTree' = InternalTree
    BY <2>1, ReleasePushed
  <2>3. Staged(v)' = Staged(v)
    BY <2>2 DEF Staged, InternalTree
  <2>4. QED
    BY <2>1, <2>2, <2>3, ReleaseGrows
<1>4. QED
  BY <1>2, <1>3, BranchSteps

LEMMA RuntimeStaysReleased ==
  ASSUME SerialInv, [Next]_vars
  PROVE  RuntimeIsReleased'
<1>1. SUFFICES ASSUME Exists(Target)', NEW v \in Versions,
                      InternalTree'.recorded[v] \in SdkOnly, InternalTree'.runtime[v].internal
               PROVE  ReleaseTree'.runtime[v] = Public(InternalTree'.runtime[v].build)
  BY DEF RuntimeIsReleased, ReleaseTree, InternalTree
<1>2. Exists(Target) => Exists(Source) /\ ReleaseTree \in Tree /\ InternalTree \in Tree
  BY SourceExists, SerialParts, HeadsAreCommits, BranchFacts, TreesHold DEF InternalTree
<1>3. Exists(Target) /\ InternalTree.recorded[v] \in SdkOnly /\ InternalTree.runtime[v].internal =>
        ReleaseTree.runtime[v] = Public(InternalTree.runtime[v].build)
  BY SerialParts DEF RuntimeIsReleased, ReleaseTree, InternalTree
<1>4. CASE ReleaseStays /\ InternalStays
  <2>1. Exists(Target)
    BY <1>1, <1>4 DEF InternalStays, Exists
  <2>2. QED
    BY <1>1, <1>2, <1>3, <1>4, <2>1 DEF ReleaseStays, InternalStays
<1>5. CASE ReleaseStays /\ InternalAdvances
  <2>1. CASE ~ Exists(Target) /\ Exists(Source) /\ InternalTree' = ReleaseTree
    <3>1. ReleaseTree.recorded[v] = 0
      BY <2>1, SerialParts DEF ReleaseRecordsNothing, ReleaseTree, Nothing, NoContainer
    <3>2. QED
      BY <1>1, <2>1, <3>1, ContentAssumption
  <2>2. ASSUME Exists(Target), NEW c \in Containers, StageNext(c)
        PROVE  ReleaseTree.runtime[v] = Public(InternalTree'.runtime[v].build)
    <3>1. /\ InternalTree'.recorded[v] = IF v = VersionOf[c] THEN c ELSE InternalTree.recorded[v]
          /\ InternalTree'.runtime[v] = IF v = VersionOf[c] /\ c \notin SdkOnly THEN Internal(c)
                                        ELSE InternalTree.runtime[v]
      BY <1>2, <2>2, InternalFields DEF StageNext
    <3>2. QED
      BY <1>1, <1>3, <2>2, <3>1 DEF StageNext
  <2>3. ASSUME Exists(Target), Abstract!CatchUp(InternalTree, ReleaseTree, InternalTree')
        PROVE  ReleaseTree.runtime[v] = Public(InternalTree'.runtime[v].build)
    <3>1. InternalTree.recorded[v] \in SdkOnly /\ InternalTree'.runtime[v] = InternalTree.runtime[v]
      BY <1>1, <1>2, <2>3, CatchUpKeeps
    <3>2. QED
      BY <1>1, <1>3, <2>3, <3>1
  <2>4. Exists(Source) /\ ReleaseTree' = ReleaseTree
    BY <1>2, <1>5 DEF ReleaseStays, InternalAdvances
  <2>5. QED
    BY <1>5, <2>1, <2>2, <2>3, <2>4 DEF InternalAdvances
<1>6. CASE ReleaseAdvances
  <2>1. PICK tree \in Tree : PushToSource(tree) /\ NextRelease(tree)
    BY <1>6 DEF ReleaseAdvances
  <2>2. /\ ReleaseTree' = tree /\ Exists(Target) /\ InternalTree' = InternalTree
    BY <1>1, <2>1, ReleasePushed
  <2>3. ReleaseTree.runtime[v] = Public(InternalTree.runtime[v].build)
    BY <1>1, <1>3, <2>2
  <2>4. tree.runtime[v] = ReleaseTree.runtime[v]
    <3>1. ASSUME NEW e \in Edits, tree = [ReleaseTree EXCEPT !.edits = @ \cup {e}]
          PROVE  tree.runtime = ReleaseTree.runtime
      BY <1>2, <2>2, <3>1 DEF Tree
    <3>2. ASSUME NEW c \in Containers, InternalTree.recorded[VersionOf[c]] = c,
                 tree = ApplyPublicBuild(ReleaseTree, c)
          PROVE  tree.runtime[v] = ReleaseTree.runtime[v]
      <4>1. tree.runtime[v] = IF v = VersionOf[c] /\ c \notin SdkOnly THEN Public(c)
                              ELSE ReleaseTree.runtime[v]
        BY <1>2, <2>2, <3>2, PublicFields
      <4>2. v = VersionOf[c] => c \in SdkOnly
        BY <1>1, <2>2, <3>2
      <4>3. QED
        BY <4>1, <4>2
    <3>3. QED
      BY <1>2, <2>1, <2>2, <3>1, <3>2 DEF NextRelease
  <2>5. QED
    BY <2>2, <2>3, <2>4
<1>7. QED
  BY <1>4, <1>5, <1>6, BranchSteps

-----------------------------------------------------------------------------
(* The runs.                                                               *)

\* What a step does to a run that it leaves active.
Turns(r) ==
  /\ pc'[r] = "createTarget" => UNCHANGED server /\ ~ Exists(Target)
  /\ pc'[r] \in OriginFetched =>
       \/ UNCHANGED server /\ originTarget'[r] = head[Target]
       \/ pc[r] \in OriginFetched /\ originTarget'[r] = originTarget[r]
  /\ pc'[r] = "openSync" =>
       \/ Pushes(r)
       \/ pc[r] = "openSync" /\ originTarget'[r] = originTarget[r]
  /\ pc'[r] \in MayCommit =>
       /\ UNCHANGED server
       /\ \/ sourceSha'[r] = head[Source] /\ pc'[r] = "compare"
          \/ /\ pc[r] \in MayCommit /\ sourceSha'[r] = sourceSha[r]
             /\ pc'[r] \in {"reset", "apply"} =>
                  \/ originTarget'[r] = head[Target]
                  \/ pc[r] \in {"reset", "apply"} /\ originTarget'[r] = originTarget[r]

\* One run at a time has a turn.
OneTurns == \E r \in Runs : OthersWait(r) /\ Turns(r) /\ \A s \in Runs \ {r} : ~ Active(s)

LEMMA EndTurns ==
  ASSUME TypeInv, NEW r \in Runs, NEW result \in Ended, End(r, result)
  PROVE  OthersWait(r) /\ Turns(r)
<1>1. OthersWait(r)
  BY DEF TypeInv, TypeOK, OthersWait, End, Goto, DisposeClone
<1>2. pc'[r] = result
  BY DEF TypeInv, TypeOK, End, Goto
<1>3. Turns(r)
  BY <1>2 DEF Turns, Ended, OriginFetched, SourceRead, TargetFound, SourceFound, Steps, MayCommit
<1>4. QED
  BY <1>1, <1>3

LEMMA StepTurns ==
  ASSUME TypeInv, NEW r \in Runs, Step(r)
  PROVE  OthersWait(r) /\ Turns(r)
<1> USE DEF Ended, OriginFetched, SourceRead, TargetFound, SourceFound, Steps, MayCommit
<1>1. CASE \E result \in Ended : End(r, result)
  BY <1>1, EndTurns
<1>2. CASE ~ \E result \in Ended : End(r, result)
  <2>1. CASE FindBranches(r)
    BY <1>2, <2>1 DEF OthersWait, Turns, FindBranches, Goto, TypeInv, TypeOK, clone
  <2>2. CASE ReadSource(r)
    BY <1>2, <2>2 DEF OthersWait, Turns, ReadSource, Goto, TypeInv, TypeOK
  <2>3. CASE Compare(r)
    BY <1>2, <2>3 DEF OthersWait, Turns, Compare, Goto, TypeInv, TypeOK, clone
  <2>4. CASE Fetch(r)
    <3>1. PICK step \in {"createFastForward", "reset"} :
            /\ pc[r] = "fetch" /\ pc' = [pc EXCEPT ![r] = step]
            /\ originSource' = [originSource EXCEPT ![r] = head[Source]]
            /\ originTarget' = [originTarget EXCEPT ![r] = head[Target]]
            /\ UNCHANGED <<server, sourceSha, internalBuilds, workTree>>
      BY <1>2, <2>4 DEF Fetch, Fetched, Goto
    <3>2. QED
      BY <3>1 DEF OthersWait, Turns, TypeInv, TypeOK
  <2>5. CASE CreateFastForwardBranch(r)
    BY <1>2, <2>5 DEF OthersWait, Turns, CreateFastForwardBranch, CreateRemoteBranch, Goto,
       TypeInv, TypeOK, clone
  <2>6. CASE ResetToSource(r)
    BY <1>2, <2>6 DEF OthersWait, Turns, ResetToSource, Goto, TypeInv, TypeOK
  <2>7. CASE \E v \in Versions : ReapplyBuild(r, v)
    BY <1>2, <2>7 DEF OthersWait, Turns, ReapplyBuild, TypeInv, TypeOK
  <2>8. CASE Push(r)
    <3>1. Pushes(r) /\ UNCHANGED clone
      BY <1>2, <2>8 DEF Push, Pushes, Goto
    <3>2. pc' = [pc EXCEPT ![r] = "openSync"] /\ pc[r] = "apply"
      BY <3>1 DEF Pushes
    <3>3. QED
      BY <3>1, <3>2 DEF OthersWait, Turns, TypeInv, TypeOK, clone
  <2>9. CASE CreateTarget(r) \/ OpenFastForward(r) \/ OpenSync(r)
    BY <1>2, <2>9 DEF CreateTarget, CreateRemoteBranch, OpenFastForward, OpenSync, CreatePullRequest
  <2>10. QED
    BY <2>1, <2>2, <2>3, <2>4, <2>5, <2>6, <2>7, <2>8, <2>9 DEF Step
<1>3. QED
  BY <1>1, <1>2

LEMMA SerialTurns ==
  ASSUME Serial, SerialInv, [Next]_vars
  PROVE  OneTurns \/ (UNCHANGED <<pc, clone>> /\ (Environment \/ UNCHANGED server))
<1>1. TypeInv /\ OneRun
  BY SerialParts
<1>2. ASSUME NEW r \in Runs, Active(r)
      PROVE  \A s \in Runs \ {r} : ~ Active(s)
  BY <1>1, <1>2 DEF OneRun
<1>3. ASSUME NEW r \in Runs, StartTriggered(r) \/ StartByHand(r)
      PROVE  OneTurns
  <2>1. Clone(r) /\ \A s \in Runs : ~ Active(s)
    BY <1>3 DEF StartTriggered, StartByHand, Clone, MayStart
  <2>2. OthersWait(r)
    BY <1>1, <2>1 DEF Clone, OthersWait, TypeInv, TypeOK, Goto, clone
  <2>3. pc'[r] \in {"failed", "findBranches"}
    BY <1>1, <2>1 DEF Clone, TypeInv, TypeOK, Goto
  <2>4. Turns(r)
    BY <2>3 DEF Turns, OriginFetched, SourceRead, TargetFound, SourceFound, Steps, MayCommit
  <2>5. QED
    BY <2>1, <2>2, <2>4 DEF OneTurns
<1>4. ASSUME NEW r \in Runs, Step(r)
      PROVE  OneTurns
  <2>1. Active(r)
    BY <1>4 DEF Active, Steps, Step, FindBranches, CreateTarget, ReadSource, Compare, Fetch,
       CreateFastForwardBranch, OpenFastForward, ResetToSource, ReapplyBuild, Push, OpenSync
  <2>2. QED
    BY <1>1, <1>2, <1>4, <2>1, StepTurns DEF OneTurns
<1>5. ASSUME NEW r \in Runs, Fail(r)
      PROVE  OneTurns
  BY <1>1, <1>2, <1>5, EndTurns DEF Fail, OneTurns, Ended
<1>6. CASE Environment
  BY <1>6 DEF Environment, CreateSource, EditSource, ReleaseBuild, PushToSource,
     MergeInternalUpdate, CompletePullRequest, Merge, local, clone
<1>7. CASE UNCHANGED vars
  BY <1>7 DEF vars, clone, server
<1>8. QED
  BY <1>3, <1>4, <1>5, <1>6, <1>7 DEF Next

\* The one that has had its turn is the only one that can be active.
LEMMA OnlyOneActive ==
  ASSUME NEW r \in Runs, OthersWait(r), \A s \in Runs \ {r} : ~ Active(s)
  PROVE  \A s \in Runs : pc'[s] \in Steps => s = r
  BY DEF OthersWait, Active

LEMMA OneRunStays ==
  ASSUME Serial, SerialInv, [Next]_vars
  PROVE  OneRun'
<1>1. CASE OneTurns
  BY <1>1, OnlyOneActive DEF OneTurns, OneRun, Active
<1>2. CASE UNCHANGED <<pc, clone>>
  BY <1>2, SerialParts DEF OneRun, Active
<1>3. QED
  BY <1>1, <1>2, SerialTurns

\* Nobody but the run that found no internal branch creates it.
LEMMA CreatesTargetStays ==
  ASSUME Serial, SerialInv, [Next]_vars
  PROVE  CreatesTarget'
<1>1. CASE OneTurns
  <2>1. PICK r \in Runs : Turns(r) /\ \A s \in Runs : pc'[s] \in Steps => s = r
    BY <1>1, OnlyOneActive DEF OneTurns
  <2>2. QED
    BY <2>1 DEF Turns, CreatesTarget, Steps, Exists, server
<1>2. CASE UNCHANGED pc /\ UNCHANGED server
  BY <1>2, SerialParts DEF CreatesTarget, Exists, server
<1>3. CASE UNCHANGED pc /\ Environment
  <2>1. ASSUME ~ Exists(Target)
        PROVE  ~ Exists(Target)'
    <3>1. CASE \/ CreateSource
               \/ \E e \in Edits : EditSource(e)
               \/ \E c \in Containers : ReleaseBuild(c)
      BY <2>1, <3>1, ReleaseStep, ReleasePushed
    <3>2. CASE \E p \in prs, style \in MergeStyles : CompletePullRequest(p, style)
      BY <2>1, <3>2, MergeStep
    <3>3. QED
      BY <1>3, <2>1, <3>1, <3>2 DEF Environment, MergeInternalUpdate
  <2>2. QED
    BY <1>3, <2>1, SerialParts DEF CreatesTarget
<1>4. QED
  BY <1>1, <1>2, <1>3, SerialTurns

\* A pull request that is opened remembers what its run has.
LEMMA NewPrs ==
  ASSUME TypeInv, [Next]_vars, NEW p \in prs', p \notin prs
  PROVE  /\ UNCHANGED <<commits, head>>
         /\ \E r \in Runs :
              /\ p.target = originTarget[r]
              /\ \/ pc[r] = "openFastForward" /\ p.branch = FastForwardBranch(r)
                 \/ pc[r] = "openSync" /\ p.branch = SyncBranch(r)
<1>1. ASSUME NEW r \in Runs, OpenFastForward(r)
      PROVE  /\ UNCHANGED <<commits, head>> /\ p.target = originTarget[r]
             /\ pc[r] = "openFastForward" /\ p.branch = FastForwardBranch(r)
  BY <1>1 DEF OpenFastForward, CreatePullRequest
<1>2. ASSUME NEW r \in Runs, OpenSync(r)
      PROVE  /\ UNCHANGED <<commits, head>> /\ p.target = originTarget[r]
             /\ pc[r] = "openSync" /\ p.branch = SyncBranch(r)
  BY <1>2 DEF OpenSync, CreatePullRequest
<1>3. ASSUME NEW r \in Runs, Step(r)
      PROVE  OpenFastForward(r) \/ OpenSync(r)
  BY <1>3 DEF Step, FindBranches, CreateTarget, ReadSource, Compare, Fetch,
     CreateFastForwardBranch, ResetToSource, ReapplyBuild, Push, server
<1>4. ~ Environment
  BY DEF Environment, CreateSource, EditSource, ReleaseBuild, PushToSource, MergeInternalUpdate,
     CompletePullRequest
<1>5. \E r \in Runs : Step(r)
  BY <1>4 DEF Next, StartTriggered, StartByHand, Fail, vars, server
<1>6. QED
  BY <1>1, <1>2, <1>3, <1>5

LEMMA TargetMovesForward ==
  ASSUME SerialInv, [Next]_vars, Exists(Target)
  PROVE  Exists(Target)' /\ head[Target] \in Ancestors(head[Target])'
<1>1. TypeInv /\ ServerGrows /\ head[Target] \in CommitIds
  BY SerialParts, NextReads, HeadsAreCommits, BranchFacts
<1>2. head[Target] \in Ancestors(head[Target])
  BY <1>1 DEF TypeInv, CommitsOK
<1>3. CASE head'[Target] = head[Target]
  BY <1>1, <1>2, <1>3 DEF ServerGrows, Ancestors, Exists
<1>4. CASE InternalAdvances
  BY <1>4 DEF InternalAdvances
<1>5. ReleaseAdvances => head'[Target] = head[Target]
  BY ReleasePushed, BranchFacts DEF ReleaseAdvances
<1>6. QED
  BY <1>3, <1>4, <1>5, BranchSteps DEF InternalStays

LEMMA TargetStaysForward ==
  ASSUME Serial, SerialInv, [Next]_vars
  PROVE  TargetForward'
<1>1. TypeInv /\ ServerGrows /\ TypeInv' /\ Lineage' /\ TargetForward
  BY SerialParts, NextReads, TypeInvInductive, CommitsFollow
<1>2. ASSUME Exists(Target), NEW i \in Ancestors(head[Target])
      PROVE  i \in Ancestors(head[Target])'
  <2>1. head[Target] \in CommitIds
    BY <1>1, <1>2, HeadsAreCommits, BranchFacts
  <2>2. commits'[head[Target]].ancestors = Ancestors(head[Target])
    BY <1>1, <2>1 DEF ServerGrows, Ancestors
  <2>3. head[Target] \in commits'[head'[Target]].ancestors /\ head'[Target] \in CommitIds'
    <3>1. Exists(Target)' /\ head[Target] \in Ancestors(head[Target])'
      BY <1>2, TargetMovesForward
    <3>2. head' \in [Branches -> {NoCommit} \cup CommitIds']
      BY <1>1 DEF TypeInv, TypeOK
    <3>3. QED
      BY <3>1, <3>2, BranchFacts DEF Exists, Ancestors
  <2>4. commits'[head[Target]].ancestors \subseteq commits'[head'[Target]].ancestors
    BY <1>1, <2>3 DEF Lineage, HistoriesClosed, Ancestors
  <2>5. QED
    BY <1>2, <2>2, <2>4 DEF Ancestors
<1>3. ASSUME NEW r \in Runs, pc'[r] \in OriginFetched
      PROVE  originTarget'[r] \in Ancestors(head[Target])'
  <2>1. CASE UNCHANGED server /\ originTarget'[r] = head[Target]
    <3>1. Exists(Target)'
      BY <1>1, <1>3 DEF TypeInv, RunsOK, RunOK, OriginFetched, SourceRead
    <3>2. Exists(Target) /\ head[Target] \in CommitIds
      BY <1>1, <2>1, <3>1, HeadsAreCommits, BranchFacts DEF Exists, server
    <3>3. head[Target] \in Ancestors(head[Target])
      BY <1>1, <3>2 DEF TypeInv, CommitsOK
    <3>4. QED
      BY <2>1, <3>3 DEF server, Ancestors
  <2>2. CASE pc[r] \in OriginFetched /\ originTarget'[r] = originTarget[r]
    <3>1. Exists(Target)
      BY <1>1, <2>2 DEF TypeInv, RunsOK, RunOK, OriginFetched, SourceRead
    <3>2. QED
      BY <1>1, <1>2, <2>2, <3>1 DEF TargetForward
  <2>3. CASE OneTurns
    <3>1. PICK s \in Runs : Turns(s) /\ \A q \in Runs : pc'[q] \in Steps => q = s
      BY <2>3, OnlyOneActive DEF OneTurns
    <3>2. OriginFetched \subseteq Steps
      BY DEF OriginFetched, SourceRead, TargetFound, SourceFound
    <3>3. Turns(r)
      BY <1>3, <3>1, <3>2
    <3>4. QED
      BY <1>3, <2>1, <2>2, <3>3 DEF Turns
  <2>4. CASE UNCHANGED <<pc, clone>>
    BY <1>3, <2>2, <2>4 DEF clone
  <2>5. QED
    BY <2>3, <2>4, SerialTurns
<1>4. ASSUME NEW p \in prs'
      PROVE  p.target \in Ancestors(head[Target])'
  <2>1. CASE p \in prs
    BY <1>1, <1>2, <2>1 DEF TargetForward, TypeInv, PrsOK
  <2>2. CASE p \notin prs
    <3>1. PICK r \in Runs : p.target = originTarget[r] /\ pc[r] \in {"openFastForward", "openSync"}
      BY <1>1, <2>2, NewPrs
    <3>2. UNCHANGED <<commits, head>>
      BY <1>1, <2>2, NewPrs
    <3>3. pc[r] \in OriginFetched
      BY <3>1 DEF OriginFetched, SourceRead, TargetFound, SourceFound, Steps
    <3>4. QED
      BY <1>1, <3>1, <3>2, <3>3 DEF TargetForward, Ancestors
  <2>3. QED
    BY <2>1, <2>2
<1>5. QED
  BY <1>3, <1>4 DEF TargetForward

\* The tip of a sync branch that a run or a pull request owns stays where it is.
LEMMA OwnedStays ==
  ASSUME SerialInv, [Next]_vars, NEW b \in Branches, Owned(b),
         \A r \in Runs : Pushes(r) => ~ ByRun(r, b)
  PROVE  head'[b] = head[b]
<1>1. TypeInv /\ SyncInv
  BY SerialParts
<1>2. b[1] = "sync" /\ head[b] \in CommitIds
  BY <1>1, OwnedFacts
<1>3. CASE Quiet
  BY <1>2, <1>3 DEF Quiet, BranchesQuiet
<1>4. ASSUME NEW r \in Runs, Pushes(r)
      PROVE  head'[b] = head[b]
  <2>1. CASE b = SyncBranch(r)
    <3>1. head[b] \in Ancestors(originTarget[r])
      BY <1>2, <1>4, <2>1 DEF Pushes, PushAccepted, MovesForward, Exists, NoCommit, CommitIds
    <3>2. originTarget[r] # NoCommit
      <4>1. originTarget[r] \in CommitIds
        BY <1>4, PushBehind
      <4>2. QED
        BY <4>1 DEF CommitIds, NoCommit
    <3>3. QED
      BY <1>1, <3>1, <3>2 DEF SyncInv, OwnedIsUnmerged
  <2>2. CASE b # SyncBranch(r)
    BY <1>4, <2>2, PushBehind
  <2>3. QED
    BY <2>1, <2>2
<1>5. QED
  BY <1>1, <1>3, <1>4, NextQuiet

LEMMA SyncTipsStay ==
  ASSUME Serial, SerialInv, [Next]_vars
  PROVE  SyncTips'
<1>1. TypeInv /\ ServerGrows /\ SyncTips
  BY SerialParts, NextReads
<1>2. ASSUME NEW i \in CommitIds, NEW t \in CommitIds, OnTop(i, t)
      PROVE  commits'[i].ancestors = {i} \cup commits'[t].ancestors
  BY <1>1, <1>2 DEF ServerGrows, OnTop, Ancestors
<1>3. ASSUME NEW r \in Runs, Pushes(r)
      PROVE  commits'[head'[SyncBranch(r)]].ancestors
               = {head'[SyncBranch(r)]} \cup commits'[originTarget'[r]].ancestors
  <2>1. /\ originTarget[r] \in CommitIds /\ workTree[r] \in Tree
        /\ AddCommit({originTarget[r]}, workTree[r])
        /\ head'[SyncBranch(r)] = NewCommit
    BY <1>3, PushBehind, BranchFacts
  <2>2. commits'[NewCommit].ancestors = {NewCommit} \cup UNION {Ancestors(q) : q \in {originTarget[r]}}
    <3>1. commits \in Seq(Commit) /\ {originTarget[r]} \in SUBSET CommitIds
      BY <1>1, <2>1 DEF TypeInv, TypeOK
    <3>2. QED
      BY <2>1, <3>1, AppendCommit
  <2>3. originTarget'[r] = originTarget[r]
    BY <1>3 DEF Pushes, clone
  <2>4. QED
    BY <1>1, <2>1, <2>2, <2>3 DEF ServerGrows, Ancestors
<1>4. ASSUME NEW r \in Runs, pc[r] = "openSync", \A s \in Runs : Pushes(s) => s = r
      PROVE  commits'[head'[SyncBranch(r)]].ancestors
               = {head'[SyncBranch(r)]} \cup commits'[originTarget[r]].ancestors
  <2>1. Owned(SyncBranch(r)) /\ \A s \in Runs : ~ Pushes(s)
    BY <1>4 DEF Owned, ByRun, Pushes
  <2>2. head'[SyncBranch(r)] = head[SyncBranch(r)]
    BY <2>1, BranchFacts, OwnedStays
  <2>3. head[SyncBranch(r)] \in CommitIds /\ originTarget[r] \in CommitIds
    BY <1>1, <1>4, <2>1, BranchFacts, OwnedFacts, References DEF OriginFetched, SourceRead,
       TargetFound, SourceFound, Steps
  <2>4. OnTop(head[SyncBranch(r)], originTarget[r])
    BY <1>1, <1>4 DEF SyncTips
  <2>5. QED
    BY <1>2, <2>2, <2>3, <2>4
<1>5. ASSUME NEW r \in Runs, pc'[r] = "openSync"
      PROVE  commits'[head'[SyncBranch(r)]].ancestors
               = {head'[SyncBranch(r)]} \cup commits'[originTarget'[r]].ancestors
  <2>1. CASE OneTurns
    <3>1. PICK s \in Runs : Turns(s) /\ \A q \in Runs : pc'[q] \in Steps => q = s
      BY <2>1, OnlyOneActive DEF OneTurns
    <3>2. "openSync" \in Steps
      BY DEF Steps
    <3>3. Turns(r) /\ \A q \in Runs : pc'[q] = "openSync" => q = r
      BY <1>5, <3>1, <3>2
    <3>4. \A q \in Runs : Pushes(q) => pc'[q] = "openSync"
      BY <1>1 DEF Pushes, TypeInv, TypeOK
    <3>5. CASE Pushes(r)
      BY <1>3, <3>5
    <3>6. CASE pc[r] = "openSync" /\ originTarget'[r] = originTarget[r]
      BY <1>4, <3>3, <3>4, <3>6
    <3>7. QED
      BY <1>5, <3>3, <3>5, <3>6 DEF Turns
  <2>2. CASE UNCHANGED <<pc, clone>>
    <3>1. \A s \in Runs : ~ Pushes(s)
      BY <1>1, <2>2 DEF Pushes, TypeInv, TypeOK
    <3>2. pc[r] = "openSync" /\ originTarget'[r] = originTarget[r]
      BY <1>5, <2>2 DEF clone
    <3>3. QED
      BY <1>4, <3>1, <3>2
  <2>3. QED
    BY <2>1, <2>2, SerialTurns
<1>6. ASSUME NEW p \in prs', p.branch[1] = "sync"
      PROVE  commits'[head'[p.branch]].ancestors
               = {head'[p.branch]} \cup commits'[p.target].ancestors
  <2>1. CASE p \in prs
    <3>1. p.branch \in Branches /\ head[p.branch] \in CommitIds /\ p.target \in CommitIds
      BY <1>1, <2>1, References
    <3>2. Owned(p.branch)
      BY <1>6, <2>1 DEF Owned, ByPr
    <3>3. \A s \in Runs : Pushes(s) => ~ ByRun(s, p.branch)
      BY DEF Pushes, ByRun
    <3>4. head'[p.branch] = head[p.branch] /\ OnTop(head[p.branch], p.target)
      BY <1>1, <1>6, <2>1, <3>1, <3>2, <3>3, OwnedStays DEF SyncTips
    <3>5. QED
      BY <1>2, <3>1, <3>4
  <2>2. CASE p \notin prs
    <3>1. PICK r \in Runs : /\ p.target = originTarget[r]
                            /\ \/ pc[r] = "openFastForward" /\ p.branch = FastForwardBranch(r)
                               \/ pc[r] = "openSync" /\ p.branch = SyncBranch(r)
      BY <1>1, <2>2, NewPrs
    <3>2. UNCHANGED <<commits, head>>
      BY <1>1, <2>2, NewPrs
    <3>3. pc[r] = "openSync" /\ p.branch = SyncBranch(r)
      BY <1>6, <3>1, BranchKinds
    <3>4. OnTop(head[p.branch], p.target)
      BY <1>1, <3>1, <3>3 DEF SyncTips
    <3>5. QED
      BY <3>2, <3>4 DEF OnTop, Ancestors
  <2>3. QED
    BY <2>1, <2>2
<1>7. QED
  BY <1>5, <1>6 DEF SyncTips, OnTop, Ancestors

\* Nobody but the release branch adds edits.
LEMMA NoNewEdits ==
  ASSUME SerialInv, Environment, NEW read,
         \A a \in Branches \ {Source} : Exists(a) => TreeOf(head[a]).edits \subseteq read,
         NEW b \in Branches \ {Source}, Exists(b)'
  PROVE  commits'[head'[b]].tree.edits \subseteq read
<1>1. TypeInv /\ ServerGrows
  BY SerialParts, NextReads DEF Next
<1>2. CASE head'[b] = head[b]
  <2>1. Exists(b) /\ head[b] \in CommitIds
    BY <1>1, <1>2, HeadsAreCommits DEF Exists
  <2>2. QED
    BY <1>1, <1>2, <2>1 DEF ServerGrows, TreeOf
<1>3. CASE \/ CreateSource
           \/ \E e \in Edits : EditSource(e)
           \/ \E c \in Containers : ReleaseBuild(c)
  BY <1>2, <1>3, ReleaseStep, ReleasePushed
<1>4. ASSUME NEW c \in Containers, MergeInternalUpdate(c), head'[b] # head[b]
      PROVE  commits'[head'[b]].tree.edits \subseteq read
  <2>1. /\ Exists(Target) /\ b = Target /\ head'[b] = NewCommit
        /\ commits'[NewCommit].tree.edits = InternalTree.edits
    BY <1>4, StageStep
  <2>2. QED
    BY <2>1, BranchFacts DEF InternalTree
<1>5. ASSUME NEW p \in prs, NEW style \in MergeStyles, CompletePullRequest(p, style),
             head'[b] # head[b]
      PROVE  commits'[head'[b]].tree.edits \subseteq read
  <2>1. /\ Exists(Target) /\ b = Target
        /\ p.branch \in Branches \ {Source, Target} /\ head[p.branch] \in CommitIds
        /\ InternalTree'.edits \subseteq InternalTree.edits \cup TreeOf(head[p.branch]).edits
    BY <1>5, MergeStep DEF InternalTree
  <2>2. Exists(p.branch)
    BY <2>1 DEF Exists, CommitIds, NoCommit
  <2>3. QED
    BY <2>1, <2>2, BranchFacts DEF InternalTree, TreeOf
<1>6. QED
  BY <1>2, <1>3, <1>4, <1>5 DEF Environment

LEMMA ReleaseStaysRead ==
  ASSUME Serial, SerialInv, [Next]_vars
  PROVE  ReleaseIsRead'
<1>1. TypeInv /\ ServerGrows /\ ReleaseIsRead
  BY SerialParts, NextReads
<1>2. SUFFICES
        ASSUME NEW r \in Runs, pc'[r] \in MayCommit
        PROVE  LET read == commits'[sourceSha'[r]].tree.edits
               IN /\ \A b \in Branches \ {Source} :
                       Exists(b)' => commits'[head'[b]].tree.edits \subseteq read
                  /\ pc'[r] \in {"reset", "apply"} =>
                       commits'[originTarget'[r]].tree.edits \subseteq read
  BY DEF ReleaseIsRead, TreeOf
<1>3. MayCommit \subseteq SourceRead /\ {"reset", "apply"} \subseteq OriginFetched
  BY DEF MayCommit, OriginFetched, SourceRead, TargetFound, SourceFound, Steps
<1>4. pc[r] \in MayCommit => sourceSha[r] \in CommitIds
  BY <1>1, <1>3 DEF TypeInv, RunsOK, RunOK
<1>5. pc[r] \in {"reset", "apply"} => originTarget[r] \in CommitIds
  BY <1>1, <1>3, References
<1>6. CASE OneTurns
  <2>1. PICK s \in Runs : Turns(s) /\ \A q \in Runs : pc'[q] \in Steps => q = s
    BY <1>6, OnlyOneActive DEF OneTurns
  <2>2. MayCommit \subseteq Steps
    BY DEF MayCommit, Steps
  <2>3. Turns(r)
    BY <1>2, <2>1, <2>2
  <2>4. UNCHANGED <<commits, head>>
    BY <1>2, <2>3 DEF Turns, server
  <2>5. CASE sourceSha'[r] = head[Source] /\ pc'[r] = "compare"
    <3>1. Exists(Source)
      BY <1>1, <1>2, <2>4, TypeInvInductive DEF TypeInv, RunsOK, RunOK, Exists, MayCommit,
         SourceFound, Steps
    <3>2. ASSUME NEW b \in Branches, Exists(b)
          PROVE  TreeOf(head[b]).edits \subseteq TreeOf(head[Source]).edits
      BY <1>1, <3>2, HeadsAreCommits, ReleaseLeadsAll DEF LeadsOver, ReleaseTree
    <3>3. QED
      BY <2>4, <2>5, <3>2 DEF TreeOf, Exists
  <2>6. CASE /\ pc[r] \in MayCommit /\ sourceSha'[r] = sourceSha[r]
             /\ pc'[r] \in {"reset", "apply"} =>
                  \/ originTarget'[r] = head[Target]
                  \/ pc[r] \in {"reset", "apply"} /\ originTarget'[r] = originTarget[r]
    <3>1. \A b \in Branches \ {Source} :
            Exists(b) => TreeOf(head[b]).edits \subseteq TreeOf(sourceSha[r]).edits
      BY <1>1, <2>6 DEF ReleaseIsRead
    <3>2. pc[r] \in {"reset", "apply"} =>
            TreeOf(originTarget[r]).edits \subseteq TreeOf(sourceSha[r]).edits
      BY <1>1, <2>6 DEF ReleaseIsRead
    <3>3. pc'[r] \in {"reset", "apply"} => Exists(Target)
      BY <1>1, <1>3, <2>4, TypeInvInductive DEF TypeInv, RunsOK, RunOK, Exists, OriginFetched, SourceRead
    <3>4. QED
      BY <2>4, <2>6, <3>1, <3>2, <3>3, BranchFacts DEF TreeOf, Exists
  <2>7. QED
    BY <1>2, <2>3, <2>5, <2>6 DEF Turns
<1>7. CASE UNCHANGED <<pc, clone>> /\ (Environment \/ UNCHANGED server)
  <2>1. pc[r] \in MayCommit /\ sourceSha'[r] = sourceSha[r] /\ originTarget'[r] = originTarget[r]
    BY <1>2, <1>7 DEF clone
  <2> DEFINE read == TreeOf(sourceSha[r]).edits
  <2>2. commits'[sourceSha'[r]].tree.edits = read
    BY <1>1, <1>4, <2>1 DEF ServerGrows, TreeOf
  <2>3. /\ \A b \in Branches \ {Source} : Exists(b) => TreeOf(head[b]).edits \subseteq read
        /\ pc[r] \in {"reset", "apply"} => TreeOf(originTarget[r]).edits \subseteq read
    BY <1>1, <2>1 DEF ReleaseIsRead
  <2>4. pc'[r] \in {"reset", "apply"} => commits'[originTarget'[r]].tree.edits \subseteq read
    BY <1>1, <1>5, <1>7, <2>1, <2>3 DEF ServerGrows, TreeOf
  <2> HIDE DEF read
  <2>5. ASSUME NEW b \in Branches \ {Source}, Exists(b)'
        PROVE  commits'[head'[b]].tree.edits \subseteq read
    <3>1. CASE Environment
      BY <2>3, <2>5, <3>1, NoNewEdits
    <3>2. CASE UNCHANGED server
      BY <2>3, <2>5, <3>2 DEF server, Exists, TreeOf
    <3>3. QED
      BY <1>7, <3>1, <3>2
  <2>6. QED
    BY <2>2, <2>4, <2>5
<1>8. QED
  BY <1>6, <1>7, SerialTurns

-----------------------------------------------------------------------------
(* The invariant is inductive.                                             *)

LEMMA InitSerialInv == Init => SerialInv
<1> SUFFICES ASSUME Init
             PROVE  /\ OneRun /\ CreatesTarget /\ TargetForward /\ ReleaseIsRead
                    /\ Lineage /\ SyncTips
                    /\ ReleaseLeads /\ ReleaseIsStaged /\ RuntimeIsReleased
  BY InitRecordsInv DEF SerialInv
<1>1. OneRun /\ CreatesTarget /\ TargetForward /\ ReleaseIsRead /\ SyncTips
  BY DEF Init, OneRun, Active, CreatesTarget, TargetForward, ReleaseIsRead, SyncTips, MayCommit,
     OriginFetched, SourceRead, TargetFound, SourceFound, Steps
<1>2. CASE commits = <<>>
  <2>1. head = [b \in Branches |-> NoCommit]
    BY <1>2 DEF Init
  <2>2. CommitIds = {} /\ ~ Exists(Source) /\ ~ Exists(Target)
    BY <1>2, <2>1, BranchFacts DEF CommitIds, Exists
  <2>3. QED
    BY <1>1, <2>2 DEF Lineage, HistoriesClosed, ReleaseLeads, ReleaseIsStaged, RuntimeIsReleased
<1>3. CASE commits # <<>>
  <2>1. /\ commits = <<[ancestors |-> {1}, tree |-> FirstTree]>>
        /\ head = [b \in Branches |-> IF b \in {Source, Target} THEN 1 ELSE NoCommit]
    BY <1>3 DEF Init
  <2>2. CommitIds = {1} /\ TreeOf(1) = FirstTree /\ Ancestors(1) = {1}
    BY <2>1 DEF CommitIds, TreeOf, Ancestors
  <2>3. head[Source] = 1 /\ head[Target] = 1 /\ Exists(Target)
    BY <2>1, BranchFacts DEF Exists, NoCommit
  <2>4. LeadsOver(FirstTree, FirstTree)
    BY FirstTreeType, LeadsOverItself
  <2>5. Lineage /\ ReleaseLeads
    BY <2>2, <2>3, <2>4 DEF Lineage, HistoriesClosed, ReleaseLeads, LeadsOver, PublicAtMost
  <2>6. \A v \in Versions :
          /\ FirstTree.recorded[v] = 0 /\ FirstTree.sdk[v].build = 0 /\ FirstTree.runtime[v].build = 0
          /\ 0 \notin SdkOnly
    BY ContentAssumption DEF FirstTree, FirstBuilds, Nothing, Public, NoContainer
  <2>7. ReleaseIsStaged /\ RuntimeIsReleased
    BY <2>2, <2>3, <2>6 DEF ReleaseIsStaged, RuntimeIsReleased, Staged
  <2>8. QED
    BY <1>1, <2>5, <2>7
<1>4. QED
  BY <1>2, <1>3

\* Runs that wait for each other keep SerialInv: the internal branch only moves
\* forward, and what is about to be merged into it has all that it has.
THEOREM SerialInvInductive ==
  ASSUME Serial, SerialInv, [Next]_vars
  PROVE  SerialInv'
<1>1. RecordsInv'
  BY SerialParts, RecordsInvInductive
<1>2. Lineage' /\ ReleaseLeads'
  BY CommitsFollow
<1>3. QED
  BY <1>1, <1>2, OneRunStays, CreatesTargetStays, TargetStaysForward, ReleaseStaysRead,
     SyncTipsStay, ReleaseStaysStaged, RuntimeStaysReleased DEF SerialInv

-----------------------------------------------------------------------------
(* The refinement, and what it says of the internal branch.                *)

\* The abstract specification has the same contents.
LEMMA SameContents ==
  /\ Abstract!FirstTree = FirstTree
  /\ \A tree, c : /\ Abstract!ApplyPublicBuild(tree, c) = ApplyPublicBuild(tree, c)
                  /\ Abstract!ApplyInternalBuild(tree, c) = ApplyInternalBuild(tree, c)
<1>1. Abstract!FirstTree = FirstTree
  BY DEF Abstract!FirstTree, FirstTree, Abstract!FirstBuilds, FirstBuilds, Abstract!Nothing, Nothing,
     Abstract!Public, Public, Abstract!NoContainer, NoContainer
<1>2. ASSUME NEW tree, NEW c
      PROVE  Abstract!ApplyPublicBuild(tree, c) = ApplyPublicBuild(tree, c)
  BY DEF Abstract!ApplyPublicBuild, ApplyPublicBuild, Abstract!SetProductVersions,
     SetProductVersions, Abstract!Public, Public
<1>3. ASSUME NEW tree, NEW c
      PROVE  Abstract!ApplyInternalBuild(tree, c) = ApplyInternalBuild(tree, c)
  BY DEF Abstract!ApplyInternalBuild, ApplyInternalBuild, Abstract!SetProductVersions,
     SetProductVersions, Abstract!SetBaseUrl, SetBaseUrl, Abstract!Record, Record,
     Abstract!Internal, Internal
<1>4. QED
  BY <1>1, <1>2, <1>3

LEMMA ContentFacts ==
  /\ Content(Source) = IF Exists(Source) THEN <<ReleaseTree>> ELSE <<>>
  /\ Content(Target) = IF Exists(Target) THEN <<InternalTree>> ELSE <<>>
  BY DEF Content, ReleaseTree, InternalTree

LEMMA NextContentFacts ==
  /\ Content(Source)' = IF Exists(Source)' THEN <<ReleaseTree'>> ELSE <<>>
  /\ Content(Target)' = IF Exists(Target)' THEN <<InternalTree'>> ELSE <<>>
  BY DEF Content, ReleaseTree, InternalTree

LEMMA InitImplements == Init => Abstract!Init
<1> SUFFICES ASSUME Init PROVE Abstract!Init
  OBVIOUS
<1>1. CASE commits = <<>>
  <2>1. ~ Exists(Source) /\ ~ Exists(Target)
    BY <1>1, BranchFacts DEF Init, Exists, NoCommit
  <2>2. QED
    BY <2>1 DEF Abstract!Init, Content
<1>2. CASE commits # <<>>
  <2>1. /\ commits = <<[ancestors |-> {1}, tree |-> FirstTree]>>
        /\ head = [b \in Branches |-> IF b \in {Source, Target} THEN 1 ELSE NoCommit]
    BY <1>2 DEF Init
  <2>2. head[Source] = 1 /\ head[Target] = 1
    BY <2>1, BranchFacts
  <2>3. TreeOf(1) = FirstTree
    BY <2>1 DEF TreeOf
  <2>4. Content(Source) = <<FirstTree>> /\ Content(Target) = <<FirstTree>>
    BY <2>2, <2>3 DEF Content, Exists, NoCommit
  <2>5. QED
    BY <2>4, SameContents DEF Abstract!Init
<1>3. QED
  BY <1>1, <1>2

LEMMA StepImplements ==
  ASSUME SerialInv, [Next]_vars
  PROVE  [Abstract!Next]_(Abstract!branches)
<1>1. Exists(Target) => Exists(Source)
  BY SourceExists, SerialParts, HeadsAreCommits, BranchFacts
<1>2. CASE ReleaseStays /\ InternalStays
  <2>1. Content(Source)' = Content(Source) /\ Content(Target)' = Content(Target)
    BY <1>2, ContentFacts, NextContentFacts DEF ReleaseStays, InternalStays, Exists
  <2>2. QED
    BY <2>1 DEF Abstract!branches
<1>3. CASE ReleaseStays /\ InternalAdvances
  <2>1. Content(Source)' = Content(Source)
    BY <1>3, ContentFacts, NextContentFacts DEF ReleaseStays, Exists
  <2>2. Content(Target)' = <<InternalTree'>>
    BY <1>3, NextContentFacts DEF InternalAdvances
  <2>3. CASE ~ Exists(Target) /\ Exists(Source) /\ InternalTree' = ReleaseTree
    <3>1. Content(Target) = <<>> /\ Content(Source) = <<ReleaseTree>>
      BY <2>3, ContentFacts
    <3>2. Abstract!CreateInternal
      BY <2>1, <2>2, <2>3, <3>1 DEF Abstract!CreateInternal
    <3>3. QED
      BY <3>2 DEF Abstract!Next
  <2>4. ASSUME Exists(Target), NEW c \in Containers, StageNext(c)
        PROVE  Abstract!Next
    <3>1. Content(Target) = <<InternalTree>>
      BY <2>4, ContentFacts
    <3>2. InternalTree' = Abstract!ApplyInternalBuild(InternalTree, c)
      BY <2>4, SameContents DEF StageNext
    <3>3. Abstract!StageBuild(c)
      BY <2>1, <2>2, <2>4, <3>1, <3>2 DEF Abstract!StageBuild, StageNext
    <3>4. QED
      BY <3>3 DEF Abstract!Next
  <2>5. ASSUME Exists(Target), Abstract!CatchUp(InternalTree, ReleaseTree, InternalTree')
        PROVE  Abstract!Next
    <3>1. Content(Target) = <<InternalTree>> /\ Content(Source) = <<ReleaseTree>>
      BY <1>1, <2>5, ContentFacts
    <3>2. Abstract!SyncInternal
      BY <2>1, <2>2, <2>5, <3>1 DEF Abstract!SyncInternal
    <3>3. QED
      BY <3>2 DEF Abstract!Next
  <2>6. QED
    BY <1>3, <2>3, <2>4, <2>5 DEF InternalAdvances
<1>4. CASE ReleaseAdvances
  <2>1. PICK tree \in Tree : PushToSource(tree) /\ NextRelease(tree)
    BY <1>4 DEF ReleaseAdvances
  <2>2. /\ Exists(Source)' /\ ReleaseTree' = tree /\ (Exists(Target)' <=> Exists(Target))
        /\ Exists(Target) => InternalTree' = InternalTree
    BY <2>1, ReleasePushed
  <2>3. Content(Source)' = <<tree>> /\ Content(Target)' = Content(Target)
    BY <2>2, ContentFacts, NextContentFacts
  <2>4. CASE ~ Exists(Source)
    <3>1. tree = FirstTree /\ Content(Source) = <<>>
      BY <2>1, <2>4, ContentFacts DEF NextRelease
    <3>2. Abstract!PublishRelease
      BY <2>3, <3>1, SameContents DEF Abstract!PublishRelease
    <3>3. QED
      BY <3>2 DEF Abstract!Next
  <2>5. CASE Exists(Source)
    <3>1. Content(Source) = <<ReleaseTree>>
      BY <2>5, ContentFacts
    <3>2. \/ \E e \in Edits : tree = [ReleaseTree EXCEPT !.edits = @ \cup {e}]
          \/ \E c \in Containers : tree = Abstract!ApplyPublicBuild(ReleaseTree, c)
      BY <2>1, <2>5, SameContents DEF NextRelease
    <3>3. Abstract!PublishRelease
      BY <2>3, <3>1, <3>2 DEF Abstract!PublishRelease
    <3>4. QED
      BY <3>3 DEF Abstract!Next
  <2>6. QED
    BY <2>4, <2>5
<1>5. QED
  BY <1>2, <1>3, <1>4, BranchSteps

\* Runs that wait for each other, whatever fails in them and in whatever order their
\* pull requests are merged, do nothing to the two branches but what InternalBranch
\* says: for any number of runs, commits, builds and edits.
THEOREM SerialImplements == ASSUME Serial PROVE Spec => ImplementsInternalBranch
<1>1. SerialInv /\ [Next]_vars => SerialInv'
  BY SerialInvInductive
<1>2. SerialInv /\ [Next]_vars => [Abstract!Next]_(Abstract!branches)
  BY StepImplements
<1>3. QED
  BY <1>1, <1>2, InitSerialInv, InitImplements, PTL DEF Spec, ImplementsInternalBranch, Abstract!Spec

\* No step takes the internal branch back, if runs wait for each other: edits stay,
\* and the record of a version stays or becomes a newer one.
THEOREM SerialNeverRegresses == ASSUME Serial PROVE Spec => TargetNeverRegresses
<1>1. SerialInv /\ [Next]_vars => SerialInv'
  BY SerialInvInductive
<1> DEFINE Keeps == Exists(Target) =>
                      LET old == TreeOf(head[Target])
                          new == commits'[head'[Target]].tree
                      IN /\ old.edits \subseteq new.edits
                         /\ \A v \in Versions : old.recorded[v] <= new.recorded[v]
<1>2. SerialInv /\ [Next]_vars => [Keeps]_head
  <2> SUFFICES ASSUME SerialInv, [Next]_vars, Exists(Target)
               PROVE  /\ InternalTree.edits \subseteq InternalTree'.edits
                      /\ \A v \in Versions :
                           InternalTree.recorded[v] <= InternalTree'.recorded[v]
    BY DEF InternalTree, TreeOf
  <2>1. InternalTree \in Tree
    BY SerialParts, HeadsAreCommits, BranchFacts, TreesHold DEF InternalTree
  <2>2. \A v \in Versions : InternalTree.recorded[v] <= InternalTree.recorded[v]
    BY <2>1, FieldTypes
  <2>3. CASE InternalStays
    BY <2>2, <2>3 DEF InternalStays
  <2>4. ASSUME NEW c \in Containers, StageNext(c)
        PROVE  /\ InternalTree'.edits = InternalTree.edits
               /\ \A v \in Versions : InternalTree.recorded[v] <= InternalTree'.recorded[v]
    <3>1. /\ InternalTree.recorded[VersionOf[c]] < c
          /\ InternalTree' = ApplyInternalBuild(InternalTree, c)
      BY <2>4 DEF StageNext
    <3>2. /\ InternalTree'.edits = InternalTree.edits
          /\ \A v \in Versions :
               InternalTree'.recorded[v] = IF v = VersionOf[c] THEN c ELSE InternalTree.recorded[v]
      BY <2>1, <3>1, InternalFields
    <3>3. c \in Nat /\ \A v \in Versions : InternalTree.recorded[v] \in Nat
      BY <2>1, FieldTypes, ContentAssumption
    <3>4. QED
      BY <3>1, <3>2, <3>3
  <2>5. ASSUME Abstract!CatchUp(InternalTree, ReleaseTree, InternalTree')
        PROVE  /\ InternalTree.edits \subseteq InternalTree'.edits
               /\ InternalTree'.recorded = InternalTree.recorded
    BY <2>5 DEF Abstract!CatchUp
  <2>6. CASE InternalAdvances
    BY <2>2, <2>4, <2>5, <2>6 DEF InternalAdvances
  <2>7. CASE ReleaseAdvances
    BY <2>2, <2>7, ReleasePushed DEF ReleaseAdvances
  <2>8. QED
    BY <2>3, <2>6, <2>7, BranchSteps
<1>3. QED
  BY <1>1, <1>2, InitSerialInv, PTL DEF Spec, TargetNeverRegresses

\* A runtime build that is not public yet stays on the internal branch until a newer
\* one replaces it, if runs wait for each other: a merge takes it away only under an
\* SDK-only build, and there it is public.
THEOREM SerialRuntimeSurvives == ASSUME Serial PROVE Spec => UnreleasedRuntimeSurvives
<1>1. SerialInv /\ [Next]_vars => SerialInv'
  BY SerialInvInductive
<1> DEFINE Survives == Exists(Target) =>
             \A v \in Versions :
               LET old      == TreeOf(head[Target]).runtime[v]
                   new      == commits'[head'[Target]].tree.runtime[v]
                   newUrl   == commits'[head'[Target]].tree.dotnetUrl[v]
                   released == TreeOf(head[Source]).runtime[v] = Public(old.build)
               IN old.internal /\ ~ released =>
                    new.internal /\ new.build >= old.build /\ newUrl = new.build
<1>2. SerialInv /\ [Next]_vars => [Survives]_head
  <2> SUFFICES ASSUME SerialInv, [Next]_vars, Exists(Target), NEW v \in Versions,
                      InternalTree.runtime[v].internal,
                      ReleaseTree.runtime[v] # Public(InternalTree.runtime[v].build)
               PROVE  /\ InternalTree'.runtime[v].internal
                      /\ InternalTree.runtime[v].build <= InternalTree'.runtime[v].build
                      /\ InternalTree'.dotnetUrl[v] = InternalTree'.runtime[v].build
    BY DEF InternalTree, ReleaseTree, TreeOf
  <2>1. InternalTree \in Tree /\ Holds(InternalTree)
    BY SerialParts, HeadsAreCommits, BranchFacts, TreesHold DEF InternalTree
  <2>2. /\ InternalTree.runtime[v].build \in Nat /\ InternalTree.recorded[v] \in Nat
        /\ InternalTree.runtime[v].build \in 1 .. InternalTree.recorded[v]
        /\ InternalTree.dotnetUrl[v] = InternalTree.runtime[v].build
    BY <2>1, FieldTypes DEF Holds, BehindRecord
  <2>3. ASSUME InternalTree'.runtime[v] = InternalTree.runtime[v],
               InternalTree'.dotnetUrl[v] = InternalTree.dotnetUrl[v]
        PROVE  /\ InternalTree'.runtime[v].internal
               /\ InternalTree.runtime[v].build <= InternalTree'.runtime[v].build
               /\ InternalTree'.dotnetUrl[v] = InternalTree'.runtime[v].build
    BY <2>2, <2>3
  <2>4. CASE InternalStays
    BY <2>3, <2>4 DEF InternalStays
  <2>5. CASE ReleaseAdvances
    BY <2>3, <2>5, ReleasePushed DEF ReleaseAdvances
  <2>6. ASSUME NEW c \in Containers, StageNext(c)
        PROVE  /\ InternalTree'.runtime[v].internal
               /\ InternalTree.runtime[v].build <= InternalTree'.runtime[v].build
               /\ InternalTree'.dotnetUrl[v] = InternalTree'.runtime[v].build
    <3> DEFINE replaced == v = VersionOf[c] /\ c \notin SdkOnly
    <3>1. /\ InternalTree'.runtime[v] = IF replaced THEN Internal(c) ELSE InternalTree.runtime[v]
          /\ InternalTree'.dotnetUrl[v] = IF replaced THEN c ELSE InternalTree.dotnetUrl[v]
      BY <2>1, <2>6, InternalFields DEF StageNext
    <3>2. CASE replaced
      <4>1. InternalTree.recorded[v] < c /\ c \in Nat
        BY <2>6, <3>2, ContentAssumption DEF StageNext
      <4>2. Internal(c).internal = TRUE /\ Internal(c).build = c
        BY DEF Internal
      <4>3. InternalTree.runtime[v].build <= c
        BY <2>2, <4>1
      <4>4. QED
        BY <3>1, <3>2, <4>2, <4>3
    <3>3. CASE ~ replaced
      BY <2>3, <3>1, <3>3
    <3>4. QED
      BY <3>2, <3>3
  <2>7. ASSUME Abstract!CatchUp(InternalTree, ReleaseTree, InternalTree')
        PROVE  /\ InternalTree'.runtime[v].internal
               /\ InternalTree.runtime[v].build <= InternalTree'.runtime[v].build
               /\ InternalTree'.dotnetUrl[v] = InternalTree'.runtime[v].build
    <3>1. InternalTree.recorded[v] # NoContainer
      BY <2>2 DEF NoContainer
    <3>2. InternalTree.recorded[v] \notin SdkOnly
      BY SerialParts DEF RuntimeIsReleased, InternalTree, ReleaseTree
    <3>3. QED
      BY <2>1, <2>3, <2>7, <3>1, <3>2, CatchUpKeeps
  <2>8. QED
    BY <2>4, <2>5, <2>6, <2>7, BranchSteps DEF InternalAdvances
<1>3. QED
  BY <1>1, <1>2, InitSerialInv, PTL DEF Spec, UnreleasedRuntimeSurvives
==============================================================================
