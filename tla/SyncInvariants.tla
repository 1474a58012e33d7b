---------------------------- MODULE SyncInvariants ----------------------------
(***************************************************************************)
(* The inductive invariants: TypeInv behind TypeOK, SourceInv behind       *)
(* RestoredCommitIsFetched and FastForwardPrIsRelease, SyncInv behind      *)
(* SyncPrIsComplete, RecordsInv behind RecordedBuildsArePresent, SerialInv *)
(* behind ImplementsInternalBranch, TargetNeverRegresses and               *)
(* UnreleasedRuntimeSurvives.                                              *)
(***************************************************************************)
EXTENDS SyncProperties

\* A build is recorded under its own version.
OwnVersion(recorded) ==
  \A v \in Versions : recorded[v] # NoContainer => VersionOf[recorded[v]] = v

RecordedByVersion == \A i \in CommitIds : OwnVersion(TreeOf(i).recorded)

\* What a run may rely on at each of its steps.
SourceFound == Steps \ {"findBranches"}
TargetFound == SourceFound \ {"createTarget"}
SourceRead == TargetFound \ {"readSource"}
OriginFetched == SourceRead \ {"compare", "fetch"}

RunOK(r) ==
  /\ pc[r] \in SourceFound => Exists(Source)
  /\ pc[r] \in TargetFound => Exists(Target)
  /\ pc[r] \in SourceRead => sourceSha[r] \in CommitIds
  /\ pc[r] \in OriginFetched =>
       originTarget[r] \in CommitIds /\ originSource[r] \in CommitIds
  /\ pc[r] = "openFastForward" => Exists(FastForwardBranch(r))
  /\ pc[r] = "openSync" => Exists(SyncBranch(r))

RunsOK == \A r \in Runs : RunOK(r)

PrsOK ==
  \A p \in prs : p.branch \notin {Source, Target} /\ Exists(p.branch) /\ Exists(Target)

TypeInv == TypeOK /\ CommitsOK /\ RunsOK /\ PrsOK

\* The release branch only moves forward, so what was read from it stays in its
\* history: by a run, a pull request or a fast-forward branch.
Released(i) == Exists(Source) /\ i \in Ancestors(head[Source])

ReadFromSource ==
  \A r \in Runs :
    /\ pc[r] \in SourceRead => Released(sourceSha[r])
    /\ pc[r] \in OriginFetched => sourceSha[r] \in Ancestors(originSource[r])

FastForwardsAreRelease ==
  /\ \A b \in Branches : b[1] = "ff" /\ Exists(b) => Released(head[b])
  /\ \A r \in Runs :
       pc[r] = "openFastForward" => sourceSha[r] \in Ancestors(head[FastForwardBranch(r)])
  /\ \A p \in prs :
       /\ Released(p.source)
       /\ p.branch[1] = "ff" => p.source \in Ancestors(head[p.branch])

SourceInv == TypeInv /\ ReadFromSource /\ FastForwardsAreRelease

\* While a run re-applies builds, the versions that are done have their build
\* and the others what the source has.
Reapplying ==
  \A r \in Runs :
    pc[r] = "apply" =>
      LET source   == TreeOf(sourceSha[r])
          recorded == TreeOf(originTarget[r]).recorded
          done     == [v \in Versions |->
                         IF internalBuilds[r][v] = NoContainer THEN recorded[v] ELSE NoContainer]
      IN /\ workTree[r] = InSyncWith(source, done)
         /\ \A v \in Versions : internalBuilds[r][v] \in {NoContainer, recorded[v]}

Pushed ==
  \A r \in Runs :
    pc[r] = "openSync" =>
      TreeOf(head[SyncBranch(r)])
        = InSyncWith(TreeOf(sourceSha[r]), TreeOf(originTarget[r]).recorded)

\* Between its push and the completion of its pull request a sync branch belongs
\* to one run, then to one pull request, and its last commit is nowhere else: a
\* push that is not forced cannot replace it.
ByRun(r, b) == pc[r] = "openSync" /\ SyncBranch(r) = b
ByPr(p, b) == p.branch = b /\ b[1] = "sync"

OneOwner ==
  /\ \A r, s \in Runs : pc[r] = "openSync" /\ ByRun(s, SyncBranch(r)) => r = s
  /\ \A p, q \in prs : p.branch = q.branch => p = q
  /\ \A r \in Runs, p \in prs : ~ (pc[r] = "openSync" /\ p.branch = SyncBranch(r))

Owned(b) == (\E r \in Runs : ByRun(r, b)) \/ (\E p \in prs : ByPr(p, b))

OwnedIsUnmerged ==
  \A b \in Branches :
    Owned(b) =>
      /\ \A other \in Branches \ {b} :
           Exists(other) => head[b] \notin Ancestors(head[other])
      /\ \A r \in Runs :
           originTarget[r] # NoCommit => head[b] \notin Ancestors(originTarget[r])

SyncInv ==
  TypeInv /\ RecordedByVersion /\ Reapplying /\ Pushed /\ OneOwner /\ OwnedIsUnmerged /\ SyncPrIsComplete

-----------------------------------------------------------------------------
(* What the commits contain.                                               *)

\* What a commit contains is behind what it records: internal builds and URLs
\* are not newer than the recorded build of their version, and the base URL of
\* the runtime goes with the runtime's version.
BehindRecord(tree) ==
  \A v \in Versions :
    LET c == tree.recorded[v]
    IN /\ tree.runtime[v].internal => tree.runtime[v].build \in 1 .. c
       /\ tree.sdk[v].internal => tree.sdk[v].build \in 1 .. c
       /\ tree.dotnetUrl[v] = IF tree.runtime[v].internal THEN tree.runtime[v].build ELSE NoContainer
       /\ tree.sdkUrl[v] <= c

NotOlder(old, new) == \A v \in Versions : old.recorded[v] <= new.recorded[v]

\* Every commit holds its records, and records what its ancestors do or newer
\* builds, so that a merge has a base whose records are not newer than either side's.
CommitsHold ==
  \A i \in CommitIds :
    /\ RecordsHold(TreeOf(i)) /\ BehindRecord(TreeOf(i))
    /\ \A j \in Ancestors(i) : NotOlder(TreeOf(j), TreeOf(i))

\* All histories begin with the release branch's first commit, and the release
\* branch records nothing.
Rooted == CommitIds # {} => Exists(Source) /\ \A i \in CommitIds : 1 \in Ancestors(i)

ReleaseRecordsNothing == Exists(Source) => TreeOf(head[Source]).recorded = Nothing

RecordsInv == SourceInv /\ SyncInv /\ CommitsHold /\ Rooted /\ ReleaseRecordsNothing

-----------------------------------------------------------------------------
(* When no run starts while another one is active.                         *)

OneRun == \A r, s \in Runs : Active(r) /\ Active(s) => r = s

CreatesTarget == \A r \in Runs : pc[r] = "createTarget" => ~ Exists(Target)

\* Histories are closed, and what happened to a branch stays on it.
Lineage ==
  /\ HistoriesClosed
  /\ \A i \in CommitIds : \A j \in Ancestors(i) : TreeOf(j).edits \subseteq TreeOf(i).edits

\* The internal branch only moves forward, so what a run or a pull request has of
\* it stays in its history.
TargetForward ==
  /\ \A r \in Runs : pc[r] \in OriginFetched => originTarget[r] \in Ancestors(head[Target])
  /\ \A p \in prs : p.target \in Ancestors(head[Target])

\* A sync branch is one commit on top of the internal branch that its run fetched.
OnTop(i, target) == Ancestors(i) = {i} \cup Ancestors(target)

SyncTips ==
  /\ \A r \in Runs : pc[r] = "openSync" => OnTop(head[SyncBranch(r)], originTarget[r])
  /\ \A p \in prs : p.branch[1] = "sync" => OnTop(head[p.branch], p.target)

\* The release branch has all the edits, and no commit names a public build that
\* is newer than the one it names.
ReleaseLeads ==
  Exists(Source) =>
    LET now == TreeOf(head[Source])
    IN \A i \in CommitIds :
         LET tree == TreeOf(i)
         IN /\ tree.edits \subseteq now.edits
            /\ \A v \in Versions :
                 /\ ~ tree.sdk[v].internal => tree.sdk[v].build <= now.sdk[v].build
                 /\ ~ tree.runtime[v].internal => tree.runtime[v].build <= now.runtime[v].build

\* Nothing newer is released than what the internal branch records.
Staged(v) == IF Exists(Target) THEN TreeOf(head[Target]).recorded[v] ELSE NoContainer

ReleaseIsStaged ==
  Exists(Source) =>
    \A v \in Versions :
      /\ TreeOf(head[Source]).sdk[v].build <= Staged(v)
      /\ TreeOf(head[Source]).runtime[v].build <= Staged(v)

\* The internal runtime under an SDK-only build is the public one by now.
RuntimeIsReleased ==
  Exists(Target) =>
    \A v \in Versions :
      LET old == TreeOf(head[Target])
      IN old.recorded[v] \in SdkOnly /\ old.runtime[v].internal =>
           TreeOf(head[Source]).runtime[v] = Public(old.runtime[v].build)

\* A run that may still commit has read a release that has all that the other
\* branches have of it.
MayCommit == {"compare", "fetch", "reset", "apply"}

ReleaseIsRead ==
  \A r \in Runs :
    pc[r] \in MayCommit =>
      LET read == TreeOf(sourceSha[r]).edits
      IN /\ \A b \in Branches \ {Source} : Exists(b) => TreeOf(head[b]).edits \subseteq read
         /\ pc[r] \in {"reset", "apply"} => TreeOf(originTarget[r]).edits \subseteq read

SerialInv ==
  /\ RecordsInv
  /\ OneRun /\ CreatesTarget /\ TargetForward /\ ReleaseIsRead
  /\ Lineage /\ SyncTips
  /\ ReleaseLeads /\ ReleaseIsStaged /\ RuntimeIsReleased
==============================================================================
