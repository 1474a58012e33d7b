------------------------- MODULE SyncInternalRelease -------------------------
(***************************************************************************)
(* The sync-internal-release command of eng/update-dependencies, run by a  *)
(* pipeline after every push to a release/* branch, together with the      *)
(* repository it works on (GitServer), the pull requests it opens, the     *)
(* people and pipelines that move the release branch and its internal      *)
(* counterpart, and the ways a run can fail.  A run is cut at its calls to *)
(* the server; what it does to its own clone between two such calls is one *)
(* step.                                                                   *)
(***************************************************************************)
EXTENDS GitServer

CONSTANTS
  Runs,         \* pipeline runs (an attempt of a run reuses its identity)
  BuildIds,     \* build ids; "" is the absence of one
  BuildIdOf,    \* the BUILD_BUILDID that a run sees
  OptionsOf,    \* "complete"; "readOnly": no committer identity or no staging
                \* storage account; "invalid": refused before the clone
  MergeStyles,  \* how the server may complete a pull request
  Serial,       \* TRUE: no run starts while another one is active
  MaxFailures   \* bound: server errors, crashes, cancelled runs and runs
                \* started by hand

ASSUME SyncAssumption ==
  /\ BuildIdOf \in [Runs -> BuildIds]
  /\ OptionsOf \in [Runs -> {"complete", "readOnly", "invalid"}]
  /\ MergeStyles \subseteq {"merge", "squash", "fastForward"}
  /\ Serial \in BOOLEAN
  /\ MaxFailures \in Nat

VARIABLES
  prs,             \* the open pull requests into Target
  triggered,       \* a push to Source has not been picked up by a run yet
  pc,              \* run -> where it is
  sourceSha,       \* run -> sourceSha
  originSource,    \* run -> its clone's origin/Source
  originTarget,    \* run -> its clone's origin/Target
  internalBuilds,  \* run -> recorded builds still to be re-applied
  workTree,        \* run -> its clone's working tree, once on the PR branch
  failures         \* how often something happened that MaxFailures bounds

server == <<commits, head, prs>>
clone == <<sourceSha, originSource, originTarget, internalBuilds, workTree>>
vars == <<commits, head, prs, triggered, pc, sourceSha, originSource,
          originTarget, internalBuilds, workTree, failures>>

-----------------------------------------------------------------------------
(* Branches and pull requests.                                             *)

\* The release branch and internal/<release branch>; CreatePrBranchName makes
\* the names of the other branches from a short name and the build id.
Source == <<"source", "">>
Target == <<"target", "">>
FastForwardBranch(r) == <<"ff", BuildIdOf[r]>>
SyncBranch(r) == <<"sync", BuildIdOf[r]>>
Branches == {Source, Target} \cup ({"ff", "sync"} \X BuildIds)

\* source and target are what the run that opened the pull request compared:
\* they are not stored on the server, the properties need them.
PullRequest == [branch : Branches, source : CommitIds, target : CommitIds]

-----------------------------------------------------------------------------
(* The control state of a run.                                             *)

Steps == {"findBranches", "createTarget", "readSource", "compare", "fetch",
          "createFastForward", "openFastForward", "reset", "apply", "openSync"}
Ended == {"succeeded", "failed", "nothingToCommit"}

Active(r) == pc[r] \in Steps
Goto(r, step) == pc' = [pc EXCEPT ![r] = step]

\* The clone is disposed of with the command, however it ends.
DisposeClone(r) ==
  /\ sourceSha' = [sourceSha EXCEPT ![r] = NoCommit]
  /\ originSource' = [originSource EXCEPT ![r] = NoCommit]
  /\ originTarget' = [originTarget EXCEPT ![r] = NoCommit]
  /\ internalBuilds' = [internalBuilds EXCEPT ![r] = FirstTree.recorded]
  /\ workTree' = [workTree EXCEPT ![r] = FirstTree]

End(r, result) == Goto(r, result) /\ DisposeClone(r)

\* Either the release branch is still to come, or the internal branch was
\* created from it.
Init ==
  /\ \/ /\ commits = <<>>
        /\ head = [b \in Branches |-> NoCommit]
     \/ /\ commits = <<[ancestors |-> {1}, tree |-> FirstTree]>>
        /\ head = [b \in Branches |-> IF b \in {Source, Target} THEN 1 ELSE NoCommit]
  /\ prs = {}
  /\ triggered = FALSE
  /\ pc = [r \in Runs |-> "idle"]
  /\ sourceSha = [r \in Runs |-> NoCommit]
  /\ originSource = [r \in Runs |-> NoCommit]
  /\ originTarget = [r \in Runs |-> NoCommit]
  /\ internalBuilds = [r \in Runs |-> FirstTree.recorded]
  /\ workTree = [r \in Runs |-> FirstTree]
  /\ failures = 0

-----------------------------------------------------------------------------
(* The command.  A definition named Mut... is a mistake that the code does *)
(* not make; it stands before the definition it could replace, and shows    *)
(* which property would notice.                                            *)

\* A pipeline with "batch: true" waits for its active run before it starts the
\* next; this says the same of the people who start runs by hand.
MutAnyTime(r) == TRUE
MayStart(r) == Serial => \A s \in Runs : ~ Active(s)

\* The options are checked, then the repository is cloned.
Clone(r) ==
  /\ MayStart(r)
  /\ IF OptionsOf[r] = "invalid"
     THEN /\ Goto(r, "failed")
          /\ UNCHANGED clone
     ELSE /\ Goto(r, "findBranches")
          /\ originSource' = [originSource EXCEPT ![r] = head[Source]]
          /\ originTarget' = [originTarget EXCEPT ![r] = head[Target]]
          /\ UNCHANGED <<sourceSha, internalBuilds, workTree>>

\* The pipeline's trigger: one run for all the pushes since the last one.
StartTriggered(r) ==
  /\ pc[r] = "idle"
  /\ triggered
  /\ triggered' = FALSE
  /\ Clone(r)
  /\ UNCHANGED <<server, failures>>

\* Someone starts a run, or the failed job of a run again.
StartByHand(r) ==
  /\ pc[r] \in {"idle", "failed", "nothingToCommit"}
  /\ failures < MaxFailures
  /\ failures' = failures + 1
  /\ Clone(r)
  /\ UNCHANGED <<server, triggered>>

FindBranches(r) ==
  /\ pc[r] = "findBranches"
  /\ IF ~ Exists(Source)
     THEN End(r, "failed")
     ELSE /\ Goto(r, IF Exists(Target) THEN "readSource" ELSE "createTarget")
          /\ UNCHANGED clone
  /\ UNCHANGED <<server, triggered, failures>>

\* CreateRemoteBranchAsync: the new branch starts at the base branch's head of
\* this moment.  A branch of that name that is there already is either moved to
\* it or makes the call fail.
MutBaseBranch == Target
BaseBranch == Source

CreateRemoteBranch(r, branch, next) ==
  \/ /\ head' = [head EXCEPT ![branch] = head[BaseBranch]]
     /\ next
  \/ /\ Exists(branch)
     /\ End(r, "failed")
     /\ UNCHANGED head

CreateTarget(r) ==
  /\ pc[r] = "createTarget"
  /\ CreateRemoteBranch(r, Target, End(r, "succeeded"))
  /\ UNCHANGED <<commits, prs, triggered, failures>>

ReadSource(r) ==
  /\ pc[r] = "readSource"
  /\ sourceSha' = [sourceSha EXCEPT ![r] = head[Source]]
  /\ Goto(r, "compare")
  /\ UNCHANGED <<server, triggered, originSource, originTarget, internalBuilds,
                 workTree, failures>>

\* The target's SHA is read after the source's, and only to compare them.
Compare(r) ==
  /\ pc[r] = "compare"
  /\ IF head[Target] = sourceSha[r]
     THEN End(r, "succeeded")
     ELSE Goto(r, "fetch") /\ UNCHANGED clone
  /\ UNCHANGED <<server, triggered, failures>>

\* FetchAsync refreshes both origin refs; the ancestor check that follows uses
\* those, not the SHAs read before.  Only a run that has to commit needs an
\* identity and the storage account.
MutFetched(r) == [source |-> originSource[r], target |-> originTarget[r]]
Fetched(r) == [source |-> head[Source], target |-> head[Target]]

Fetch(r) ==
  /\ pc[r] = "fetch"
  /\ LET origin == Fetched(r)
         targetIsAncestorOfSource == origin.target \in Ancestors(origin.source)
     IN IF ~ targetIsAncestorOfSource /\ OptionsOf[r] # "complete"
        THEN End(r, "failed")
        ELSE /\ originSource' = [originSource EXCEPT ![r] = origin.source]
             /\ originTarget' = [originTarget EXCEPT ![r] = origin.target]
             /\ Goto(r, IF targetIsAncestorOfSource THEN "createFastForward" ELSE "reset")
             /\ UNCHANGED <<sourceSha, internalBuilds, workTree>>
  /\ UNCHANGED <<server, triggered, failures>>

CreateFastForwardBranch(r) ==
  /\ pc[r] = "createFastForward"
  /\ CreateRemoteBranch(r, FastForwardBranch(r),
                        Goto(r, "openFastForward") /\ UNCHANGED clone)
  /\ UNCHANGED <<commits, prs, triggered, failures>>

\* CreatePullRequestAsync: the server refuses a second open pull request for
\* the same branches; reading the new one back may fail after it was opened.
CreatePullRequest(r, branch) ==
  \/ /\ \E p \in prs : p.branch = branch
     /\ End(r, "failed")
     /\ UNCHANGED <<prs, failures>>
  \/ /\ \A p \in prs : p.branch # branch
     /\ prs' = prs \cup {[branch |-> branch, source |-> sourceSha[r],
                          target |-> originTarget[r]]}
     /\ \/ End(r, "succeeded") /\ UNCHANGED failures
        \/ /\ failures < MaxFailures
           /\ failures' = failures + 1
           /\ End(r, "failed")

OpenFastForward(r) ==
  /\ pc[r] = "openFastForward"
  /\ CreatePullRequest(r, FastForwardBranch(r))
  /\ UNCHANGED <<commits, head, triggered>>

\* All in the clone: check out the target, read its recorded builds, and commit
\* the restored content of the source on a new branch.  A commit without
\* changes is an error.
MutRestoredTree(r) == TreeOf(originTarget[r])
RestoredTree(r) == TreeOf(sourceSha[r])

MutBuildsToReapply(r) == RestoredTree(r).recorded
BuildsToReapply(r) == TreeOf(originTarget[r]).recorded

ResetToSource(r) ==
  /\ pc[r] = "reset"
  /\ IF RestoredTree(r) = TreeOf(originTarget[r])
     THEN End(r, "nothingToCommit")
     ELSE /\ internalBuilds' = [internalBuilds EXCEPT ![r] = BuildsToReapply(r)]
          /\ workTree' = [workTree EXCEPT ![r] = RestoredTree(r)]
          /\ Goto(r, "apply")
          /\ UNCHANGED <<sourceSha, originSource, originTarget>>
  /\ UNCHANGED <<server, triggered, failures>>

\* One iteration of the loop over the recorded builds, in any order: run the
\* from-staging-pipeline command on the clone and commit.
ReapplyBuild(r, v) ==
  /\ pc[r] = "apply"
  /\ internalBuilds[r][v] # NoContainer
  /\ LET tree == ApplyInternalBuild(workTree[r], internalBuilds[r][v])
     IN IF tree = workTree[r]
        THEN End(r, "nothingToCommit")
        ELSE /\ workTree' = [workTree EXCEPT ![r] = tree]
             /\ internalBuilds' = [internalBuilds EXCEPT ![r][v] = NoContainer]
             /\ UNCHANGED <<pc, sourceSha, originSource, originTarget>>
  /\ UNCHANGED <<server, triggered, failures>>

\* The commits of the run are one commit here, the last: nothing can see the
\* others on their own.  The push is not forced: it can create the branch or
\* move it forward.
MutAllReapplied(r) == \E v \in Versions : internalBuilds[r][v] = NoContainer
AllReapplied(r) == \A v \in Versions : internalBuilds[r][v] = NoContainer

MutPushAccepted(r, branch) == TRUE
PushAccepted(r, branch) == MovesForward(branch, originTarget[r])

Push(r) ==
  /\ pc[r] = "apply"
  /\ AllReapplied(r)
  /\ LET branch == SyncBranch(r)
     IN IF ~ PushAccepted(r, branch)
        THEN End(r, "failed") /\ UNCHANGED server
        ELSE /\ AddCommit({originTarget[r]}, workTree[r])
             /\ head' = [head EXCEPT ![branch] = NewCommit]
             /\ Goto(r, "openSync")
             /\ UNCHANGED <<prs, clone>>
  /\ UNCHANGED <<triggered, failures>>

OpenSync(r) ==
  /\ pc[r] = "openSync"
  /\ CreatePullRequest(r, SyncBranch(r))
  /\ UNCHANGED <<commits, head, triggered>>

\* A server call or an internal build fails, the agent dies, the run is
\* cancelled: nothing but the clone is cleaned up.
Fail(r) ==
  /\ Active(r)
  /\ failures < MaxFailures
  /\ failures' = failures + 1
  /\ End(r, "failed")
  /\ UNCHANGED <<server, triggered>>

Step(r) ==
  \/ FindBranches(r)
  \/ CreateTarget(r)
  \/ ReadSource(r)
  \/ Compare(r)
  \/ Fetch(r)
  \/ CreateFastForwardBranch(r)
  \/ OpenFastForward(r)
  \/ ResetToSource(r)
  \/ \E v \in Versions : ReapplyBuild(r, v)
  \/ Push(r)
  \/ OpenSync(r)

-----------------------------------------------------------------------------
(* The server and its other users.                                         *)

local == <<pc, clone, failures>>

PushToSource(tree) ==
  /\ AddCommit(IF Exists(Source) THEN {head[Source]} ELSE {}, tree)
  /\ head' = [head EXCEPT ![Source] = NewCommit]
  /\ triggered' = TRUE
  /\ UNCHANGED <<prs, local>>

CreateSource ==
  /\ ~ Exists(Source)
  /\ PushToSource(FirstTree)

EditSource(e) ==
  /\ Exists(Source)
  /\ e \notin TreeOf(head[Source]).edits
  /\ PushToSource([TreeOf(head[Source]) EXCEPT !.edits = @ \cup {e}])

\* The public release of a build that the target records.
ReleaseBuild(c) ==
  LET v == VersionOf[c]
  IN /\ Exists(Source) /\ Exists(Target)
     /\ TreeOf(head[Target]).recorded[v] = c
     /\ TreeOf(head[Source]).sdk[v] # Public(c)
     /\ PushToSource(ApplyPublicBuild(TreeOf(head[Source]), c))

\* The pull request of a from-staging-pipeline --mode Remote --internal run is
\* merged.  Staged builds of a version only get newer.  An SDK-only build comes
\* "on top of an existing release of the Runtime": the internal runtime it would
\* leave in place is public by then.
MergeInternalUpdate(c) ==
  LET v    == VersionOf[c]
      tree == TreeOf(head[Target])
  IN /\ Exists(Target)
     /\ tree.recorded[v] < c
     /\ c \in SdkOnly /\ tree.runtime[v].internal =>
          TreeOf(head[Source]).runtime[v] = Public(tree.runtime[v].build)
     /\ AddCommit({head[Target]}, ApplyInternalBuild(tree, c))
     /\ head' = [head EXCEPT ![Target] = NewCommit]
     /\ UNCHANGED <<prs, triggered, local>>

\* A reviewer completes a pull request whose branches merge without conflict.
CompletePullRequest(p, style) ==
  /\ Merge(Target, p.branch, style)
  /\ prs' = prs \ {p}
  /\ UNCHANGED <<triggered, local>>

Environment ==
  \/ CreateSource
  \/ \E e \in Edits : EditSource(e)
  \/ \E c \in Containers : ReleaseBuild(c) \/ MergeInternalUpdate(c)
  \/ \E p \in prs, style \in MergeStyles : CompletePullRequest(p, style)

Next ==
  \/ \E r \in Runs : StartTriggered(r) \/ StartByHand(r) \/ Step(r) \/ Fail(r)
  \/ Environment

Spec == Init /\ [][Next]_vars
==============================================================================
