------------------------- MODULE FromStagingPipeline -------------------------
(***************************************************************************)
(* The from-staging-pipeline command of eng/update-dependencies in its     *)
(* Remote mode: release managers queue runs for lists of stage containers, *)
(* each run opens one pull request into the internal branch, and reviewers *)
(* complete it when they like, while other runs and syncs move the branch. *)
(* A run is cut at its calls to the server and at each container.          *)
(***************************************************************************)
EXTENDS GitServer

CONSTANTS
  Runs,             \* pipeline runs (an attempt of a run reuses its identity)
  StageContainers,  \* run -> the list of containers it is queued with
  OptionsOf,        \* run -> "internal", "public" (no --internal), or
                    \* "noAccount": --internal without a storage account
  BuildIds,         \* build ids; "" is the absence of one
  BuildIdOf,        \* the BUILD_BUILDID that a run sees
  MergeStyles,      \* how the server may complete a pull request
  MaxFailures       \* bound: failures and retries

ASSUME StagingAssumption ==
  /\ StageContainers \in [Runs -> Seq(Containers)]
  /\ OptionsOf \in [Runs -> {"internal", "public", "noAccount"}]
  /\ BuildIdOf \in [Runs -> BuildIds]
  /\ MergeStyles \subseteq {"merge", "squash", "fastForward"}
  /\ MaxFailures \in Nat

VARIABLES
  prs,       \* the open pull requests into Target
  pc,        \* run -> where it is
  origin,    \* run -> the commit of Target that its branch starts from
  pending,   \* run -> the containers it has not processed yet
  workTree,  \* run -> its clone's working tree
  failures   \* how often something happened that MaxFailures bounds

run == <<pc, origin, pending, workTree>>
vars == <<commits, head, prs, run, failures>>

\* CreatePrBranchName: from the first container of the list and the build id.
Target == <<"target", NoContainer, "">>
PrBranch(r) == <<"update-deps-int", StageContainers[r][1], BuildIdOf[r]>>
Branches == {Target} \cup ({"update-deps-int"} \X Containers \X BuildIds)

\* origin is not stored on the server, builds are the sections of the body.
PullRequest ==
  [branch : Branches, origin : CommitIds, internal : BOOLEAN, builds : Seq(Containers)]

Steps == {"process", "open"}
Active(r) == pc[r] \in Steps

Init ==
  /\ commits = <<[ancestors |-> {1}, tree |-> FirstTree]>>
  /\ head \in {[b \in Branches |-> IF b = Target THEN t ELSE NoCommit] : t \in {NoCommit, 1}}
  /\ prs = {}
  /\ pc = [r \in Runs |-> "idle"]
  /\ origin = [r \in Runs |-> NoCommit]
  /\ pending = [r \in Runs |-> <<>>]
  /\ workTree = [r \in Runs |-> FirstTree]
  /\ failures = 0

-----------------------------------------------------------------------------
(* The command.                                                            *)

\* The clone is a temporary directory that no other run reads.
End(r, result) ==
  /\ pc' = [pc EXCEPT ![r] = result]
  /\ origin' = [origin EXCEPT ![r] = NoCommit]
  /\ pending' = [pending EXCEPT ![r] = <<>>]
  /\ workTree' = [workTree EXCEPT ![r] = FirstTree]

\* GitRepoContext.CreateAsync: clone, and a local branch at the target.
Clone(r) ==
  /\ IF StageContainers[r] = <<>> \/ ~ Exists(Target)
     THEN End(r, "failed")
     ELSE /\ pc' = [pc EXCEPT ![r] = "process"]
          /\ origin' = [origin EXCEPT ![r] = head[Target]]
          /\ pending' = [pending EXCEPT ![r] = StageContainers[r]]
          /\ workTree' = [workTree EXCEPT ![r] = TreeOf(head[Target])]
  /\ UNCHANGED <<commits, head, prs>>

Start(r) == pc[r] = "idle" /\ Clone(r) /\ UNCHANGED failures

Retry(r) ==
  /\ pc[r] = "failed"
  /\ failures < MaxFailures
  /\ failures' = failures + 1
  /\ Clone(r)

IsInternal(r) == OptionsOf[r] # "public"

Apply(internal, tree, c) ==
  IF internal THEN ApplyInternalBuild(tree, c) ELSE ApplyPublicBuild(tree, c)

\* One iteration of the loop: update the clone and commit.  The first container
\* that fails, or changes nothing, ends the run before anything is pushed.
MutAfterFailure(r) == /\ pending' = [pending EXCEPT ![r] = Tail(@)]
                      /\ UNCHANGED <<pc, origin, workTree>>
AfterFailure(r) == End(r, "failed")

ProcessStageContainer(r) ==
  /\ pc[r] = "process"
  /\ pending[r] # <<>>
  /\ LET tree == Apply(IsInternal(r), workTree[r], Head(pending[r]))
     IN IF OptionsOf[r] = "noAccount" \/ tree = workTree[r]
        THEN End(r, "failed")
        ELSE /\ workTree' = [workTree EXCEPT ![r] = tree]
             /\ pending' = [pending EXCEPT ![r] = Tail(@)]
             /\ UNCHANGED <<pc, origin>>
  /\ UNCHANGED <<commits, head, prs, failures>>

\* The server calls for a container fail, or the update of the Dockerfiles.
ContainerFails(r) ==
  /\ pc[r] = "process"
  /\ pending[r] # <<>>
  /\ failures < MaxFailures
  /\ failures' = failures + 1
  /\ AfterFailure(r)
  /\ UNCHANGED <<commits, head, prs>>

\* The commits of the run are one commit here, the last.
Push(r) ==
  /\ pc[r] = "process"
  /\ pending[r] = <<>>
  /\ IF ~ MovesForward(PrBranch(r), origin[r])
     THEN End(r, "failed") /\ UNCHANGED <<commits, head>>
     ELSE /\ AddCommit({origin[r]}, workTree[r])
          /\ head' = [head EXCEPT ![PrBranch(r)] = NewCommit]
          /\ pc' = [pc EXCEPT ![r] = "open"]
          /\ UNCHANGED <<origin, pending, workTree>>
  /\ UNCHANGED <<prs, failures>>

\* CreatePullRequestAsync: the server refuses a second open pull request for the
\* same branches; reading the new one back may fail after it was opened.
CreatePullRequest(r) ==
  /\ pc[r] = "open"
  /\ IF \E p \in prs : p.branch = PrBranch(r)
     THEN End(r, "failed") /\ UNCHANGED <<prs, failures>>
     ELSE /\ prs' = prs \cup {[branch   |-> PrBranch(r),
                               origin   |-> origin[r],
                               internal |-> IsInternal(r),
                               builds   |-> StageContainers[r]]}
          /\ \/ End(r, "succeeded") /\ UNCHANGED failures
             \/ /\ failures < MaxFailures
                /\ failures' = failures + 1
                /\ End(r, "failed")
  /\ UNCHANGED <<commits, head>>

\* A push or a call fails, the agent dies, the run is cancelled.
Fail(r) ==
  /\ Active(r)
  /\ pending[r] = <<>>
  /\ failures < MaxFailures
  /\ failures' = failures + 1
  /\ End(r, "failed")
  /\ UNCHANGED <<commits, head, prs>>

-----------------------------------------------------------------------------
(* The branch's other users.                                               *)

\* A sync of the branch is merged.  It brings edits; the public runtime under an
\* SDK-only build; and the SDK's default base URL back under a full build.
Synced(tree) ==
  {[tree EXCEPT !.edits = @ \cup {e}] : e \in Edits} \cup
  {[tree EXCEPT !.runtime[v] = Public(@.build), !.dotnetUrl[v] = NoContainer] :
     v \in {w \in Versions : tree.recorded[w] \in SdkOnly}} \cup
  {[tree EXCEPT !.sdkUrl[v] = NoContainer] :
     v \in {w \in Versions : tree.recorded[w] \in Containers \ SdkOnly}}

SyncTarget ==
  /\ Exists(Target)
  /\ \E tree \in Synced(TreeOf(head[Target])) \ {TreeOf(head[Target])} :
       AddCommit({head[Target]}, tree)
  /\ head' = [head EXCEPT ![Target] = NewCommit]
  /\ UNCHANGED <<prs, run, failures>>

CompletePullRequest(p, style) ==
  /\ Merge(Target, p.branch, style)
  /\ prs' = prs \ {p}
  /\ UNCHANGED <<run, failures>>

Next ==
  \/ \E r \in Runs :
       \/ Start(r) \/ Retry(r)
       \/ ProcessStageContainer(r) \/ ContainerFails(r)
       \/ Push(r) \/ CreatePullRequest(r) \/ Fail(r)
  \/ SyncTarget
  \/ \E p \in prs, style \in MergeStyles : CompletePullRequest(p, style)

Spec == Init /\ [][Next]_vars

-----------------------------------------------------------------------------
(* Properties.                                                             *)

\* Runs and pull requests refer to commits and branches that exist.
TypeOK ==
  /\ commits \in Seq(Commit)
  /\ head \in [Branches -> {NoCommit} \cup CommitIds]
  /\ prs \subseteq PullRequest
  /\ \A p \in prs : Exists(p.branch)
  /\ pc \in [Runs -> {"idle", "succeeded", "failed"} \cup Steps]
  /\ origin \in [Runs -> {NoCommit} \cup CommitIds]
  /\ \A r \in Runs : Active(r) => origin[r] # NoCommit
  /\ pending \in [Runs -> Seq(Containers)]
  /\ workTree \in [Runs -> Tree]
  /\ failures \in 0 .. MaxFailures

\* What a list of containers makes of a content: after none of them, after the
\* first, and so on, and after all.
Contents(internal, tree, containers) ==
  LET after[n \in 0 .. Len(containers)] ==
        IF n = 0 THEN tree ELSE Apply(internal, after[n - 1], containers[n])
  IN after

Applied(internal, tree, containers) ==
  Contents(internal, tree, containers)[Len(containers)]

\* A reviewer sees all the builds that the pull request's body lists, applied in
\* order to the content that the run started from: nothing is pushed when one of
\* the containers fails, and no run, a retried one or one that shares the branch
\* name, replaces what an open pull request shows.
StagingPrIsComplete ==
  \A p \in prs :
    TreeOf(head[p.branch]) = Applied(p.internal, TreeOf(p.origin), p.builds)

\* The part of a content that is about one version, and whether it names a build as
\* an internal one.
OfVersion(tree, v) ==
  <<tree.recorded[v], tree.runtime[v], tree.sdk[v], tree.dotnetUrl[v], tree.sdkUrl[v]>>

Names(tree, c) ==
  LET v == VersionOf[c]
  IN \/ Internal(c) \in {tree.runtime[v], tree.sdk[v]}
     \/ c \in {tree.recorded[v], tree.dotnetUrl[v], tree.sdkUrl[v]}

\* The builds of a version that an internal run applied were not on the branch that
\* it cloned.  The command does not compare them: a run that is started again after
\* its pull request was merged may find the build there, under a later one.
BringsNew(p, v) ==
  /\ p.internal
  /\ \A i \in DOMAIN p.builds :
       VersionOf[p.builds[i]] = v => ~ Names(TreeOf(p.origin), p.builds[i])

\* However late a pull request is completed, its merge does to the branch of that
\* moment what the command would do to it, for each version of which it brings new
\* builds or none: the three-way merge never combines two builds of one version.
MergedBuildsAreApplied ==
  [][\A p \in prs \ prs' :
       LET merged  == commits'[head'[Target]].tree
           updated == Applied(p.internal, TreeOf(head[Target]), p.builds)
       IN /\ merged.edits = updated.edits
          /\ \A v \in Versions :
               BringsNew(p, v) => OfVersion(merged, v) = OfVersion(updated, v)]_vars

\* A true record of the internal branch stays true, or is replaced by a true one,
\* whichever updates and syncs are merged and in which order; the only step that can
\* make it wrong is the merge of a run that applied a build of the version again.
MergesKeepRecords ==
  [][\A v \in Versions :
       /\ Exists(Target) /\ RecordHolds(TreeOf(head[Target]), v)
       /\ \A p \in prs \ prs' : BringsNew(p, v)
       => RecordHolds(commits'[head'[Target]].tree, v)]_vars

\* Even then the SDK of the internal branch is the one of the recorded build: no run,
\* retry or merge, in any order, separates the two.
RecordedSdkIsPresent ==
  Exists(Target) =>
    LET tree == TreeOf(head[Target])
    IN \A v \in Versions :
         tree.recorded[v] # NoContainer => tree.sdk[v] = Internal(tree.recorded[v])
==============================================================================
