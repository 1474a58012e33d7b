---------------------------- MODULE SyncProperties ----------------------------
(***************************************************************************)
(* What the sync-internal-release command owes to the internal branch and  *)
(* to the reviewers of its pull requests.                                  *)
(***************************************************************************)
EXTENDS SyncInternalRelease

\* Every commit of the server, every branch and pull request, and every clone
\* is well formed: what a run remembers of the server exists there.
TypeOK ==
  /\ commits \in Seq(Commit)
  /\ head \in [Branches -> {NoCommit} \cup CommitIds]
  /\ prs \subseteq PullRequest
  /\ triggered \in BOOLEAN
  /\ pc \in [Runs -> {"idle"} \cup Steps \cup Ended]
  /\ sourceSha \in [Runs -> {NoCommit} \cup CommitIds]
  /\ originSource \in [Runs -> {NoCommit} \cup CommitIds]
  /\ originTarget \in [Runs -> {NoCommit} \cup CommitIds]
  /\ internalBuilds \in [Runs -> [Versions -> Recorded]]
  /\ workTree \in [Runs -> Tree]
  /\ failures \in 0 .. MaxFailures

\* "Reset the target branch to the state of the source branch, re-apply
\* internal .NET version updates": the content that takes everything from the
\* source except the versions with a recorded build.
InSyncWith(source, recorded) ==
  LET any     == {v \in Versions : recorded[v] # NoContainer}
      sdkOnly == {v \in Versions : recorded[v] \in SdkOnly}
      builds  == [v \in Versions |-> Internal(recorded[v])]
      Over(old, staged, new) == [v \in Versions |-> IF v \in staged THEN new[v] ELSE old[v]]
  IN [edits     |-> source.edits,
      runtime   |-> Over(source.runtime, any \ sdkOnly, builds),
      sdk       |-> Over(source.sdk, any, builds),
      dotnetUrl |-> Over(source.dotnetUrl, any \ sdkOnly, recorded),
      sdkUrl    |-> Over(source.sdkUrl, sdkOnly, recorded),
      recorded  |-> Over(source.recorded, any, recorded)]

\* What a reviewer sees in an open sync pull request is the source at the SHA
\* named in its commit with every build recorded on the target re-applied: no
\* build is missing because a run died between two builds, because the builds
\* were read after the reset, or because a later run pushed to the same branch.
SyncPrIsComplete ==
  \A p \in prs :
    p.branch[1] = "sync" =>
      TreeOf(head[p.branch]) = InSyncWith(TreeOf(p.source), TreeOf(p.target).recorded)

\* A fast-forward pull request carries commits of the release branch only, and
\* all of those the run compared, although its branch is created from a later
\* head of the source than the one that was compared.
FastForwardPrIsRelease ==
  \A p \in prs :
    p.branch[1] = "ff" =>
      /\ head[p.branch] \in Ancestors(head[Source])
      /\ p.source \in Ancestors(head[p.branch])

\* The restored commit is in the clone: sourceSha is read from the server after
\* the clone was made, and may be newer than what was cloned.
RestoredCommitIsFetched ==
  \A r \in Runs : pc[r] = "reset" => sourceSha[r] \in Ancestors(originSource[r])

\* A branch that records a build contains it, so that the record can be trusted
\* by the next sync, whatever was merged into the branch and in which order.
RecordedBuildsArePresent ==
  \A b \in Branches : Exists(b) => RecordsHold(TreeOf(head[b]))

\* No step takes the internal branch back: a merged sync, however late it is
\* merged, never drops the build recorded for a version, nor puts an older one in
\* its place, nor drops a change of the release branch that the internal branch
\* already had.
TargetNeverRegresses ==
  [][Exists(Target) =>
       LET old == TreeOf(head[Target])
           new == commits'[head'[Target]].tree
       IN /\ old.edits \subseteq new.edits
          /\ \A v \in Versions :
               old.recorded[v] <= new.recorded[v]]_head

\* The command, its pull requests and the server together implement the two
\* branches of InternalBranch: every merge of a pull request, whenever it comes,
\* brings the internal branch closer to the release branch and leaves the staged
\* builds as they are.
Content(b) == IF Exists(b) THEN <<TreeOf(head[b])>> ELSE <<>>

Abstract == INSTANCE InternalBranch
              WITH release <- Content(Source), internal <- Content(Target)
ImplementsInternalBranch == Abstract!Spec

\* A runtime build that is not public yet never disappears from the internal
\* branch: a merged sync keeps it, or a newer internal build has replaced it.
\* (An SDK-only record replaces the record that named the runtime's build.)
UnreleasedRuntimeSurvives ==
  [][Exists(Target) =>
       \A v \in Versions :
         LET old      == TreeOf(head[Target]).runtime[v]
             new      == commits'[head'[Target]].tree.runtime[v]
             newUrl   == commits'[head'[Target]].tree.dotnetUrl[v]
             released == TreeOf(head[Source]).runtime[v] = Public(old.build)
         IN old.internal /\ ~ released =>
              new.internal /\ new.build >= old.build /\ newUrl = new.build]_head

\* "If the internal release branch already matches the release branch, then
\* nothing should happen. The command should not fail." (the test
\* AlreadyUpToDate; the command's remarks say that matching is about content,
\* not about SHAs.)
MatchingBranchesDoNotFail ==
  [][\A r \in Runs :
       Active(r) /\ pc'[r] = "nothingToCommit" =>
         TreeOf(sourceSha[r]) # TreeOf(originTarget[r])]_pc

\* "The content of both branches is identical, except that the internal branch
\* may contain .NET versions that are not yet publicly available" (the
\* command's remarks): no sync pull request puts a version that the synced
\* release commit already has publicly back to its internal build.
OnlyUnreleasedBuildsAreInternal ==
  \A p \in prs :
    p.branch[1] = "sync" =>
      \A v \in Versions :
        LET c == TreeOf(head[p.branch]).recorded[v]
        IN c # NoContainer => TreeOf(p.source).sdk[v] # Public(c)

-----------------------------------------------------------------------------
\* The pipeline starts a run for every trigger, a run's calls return, and a
\* pull request that can be merged is merged eventually.  Nobody has to push,
\* to stage or to release anything.
Fairness ==
  /\ WF_vars(\E r \in Runs : StartTriggered(r))
  /\ \A r \in Runs : WF_vars(Step(r))
  /\ WF_vars(\E p \in prs, style \in MergeStyles : CompletePullRequest(p, style))

FairSpec == Spec /\ Fairness

\* A change of the release branch reaches the internal branch, although a run
\* may serve several pushes, compare an outdated head, find nothing to commit,
\* or open its pull request behind others.
ChangesArrive ==
  \A e \in Edits :
    (Exists(Source) /\ e \in TreeOf(head[Source]).edits)
      ~> (Exists(Target) /\ e \in TreeOf(head[Target]).edits)
==============================================================================
