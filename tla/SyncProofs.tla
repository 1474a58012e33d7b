------------------------------ MODULE SyncProofs ------------------------------
(***************************************************************************)
(* Proofs about the sync-internal-release command, for any number of runs, *)
(* versions, builds, edits and failures, serial or not: types, what it     *)
(* reads of and restores on the release branch, and that every open sync   *)
(* pull request is complete.                                               *)
(***************************************************************************)
EXTENDS SyncInvariants, GitServerProofs

-----------------------------------------------------------------------------
(* Branches and commits.                                                   *)

\* The command's own branches are neither the release nor the internal branch.
LEMMA BranchFacts ==
  /\ Source \in Branches /\ Target \in Branches /\ Source # Target
  /\ \A r \in Runs :
       /\ FastForwardBranch(r) \in Branches /\ SyncBranch(r) \in Branches
       /\ FastForwardBranch(r) \notin {Source, Target}
       /\ SyncBranch(r) \notin {Source, Target}
  BY SyncAssumption DEF Source, Target, Branches, FastForwardBranch, SyncBranch

\* What every step leaves in place: commits are kept, branches are not deleted.
ServerGrows ==
  /\ CommitIds \subseteq CommitIds'
  /\ \A i \in CommitIds : commits'[i] = commits[i]
  /\ \A b \in Branches : Exists(b) => Exists(b)'

\* A step of a run, and one of nobody's, as far as the other runs can tell.
OthersWait(r) ==
  \A s \in Runs \ {r} :
    /\ pc'[s] = pc[s]
    /\ sourceSha'[s] = sourceSha[s]
    /\ originSource'[s] = originSource[s]
    /\ originTarget'[s] = originTarget[s]
    /\ internalBuilds'[s] = internalBuilds[s]
    /\ workTree'[s] = workTree[s]

ServerTypeOK ==
  /\ commits \in Seq(Commit)
  /\ head \in [Branches -> {NoCommit} \cup CommitIds]
  /\ prs \subseteq PullRequest

RunTypeOK ==
  /\ pc \in [Runs -> {"idle"} \cup Steps \cup Ended]
  /\ sourceSha \in [Runs -> {NoCommit} \cup CommitIds]
  /\ originSource \in [Runs -> {NoCommit} \cup CommitIds]
  /\ originTarget \in [Runs -> {NoCommit} \cup CommitIds]
  /\ internalBuilds \in [Runs -> [Versions -> Recorded]]
  /\ workTree \in [Runs -> Tree]

LEMMA TypeParts ==
  TypeOK <=> /\ ServerTypeOK /\ RunTypeOK
             /\ triggered \in BOOLEAN /\ failures \in 0 .. MaxFailures
  BY DEF TypeOK, ServerTypeOK, RunTypeOK

\* A step that leaves the server alone.
LEMMA ServerUnchanged ==
  ASSUME TypeInv, UNCHANGED server
  PROVE  ServerTypeOK' /\ CommitsOK' /\ PrsOK' /\ ServerGrows
  BY DEF TypeInv, TypeOK, ServerTypeOK, CommitsOK, PrsOK, ServerGrows, server, CommitIds,
         PullRequest, Exists, Ancestors

\* A step that leaves the runs alone.
LEMMA RunsUnchanged ==
  ASSUME TypeInv, ServerGrows, UNCHANGED <<pc, clone>>
  PROVE  RunTypeOK' /\ RunsOK'
<1>1. RunTypeOK'
  BY DEF TypeInv, TypeOK, RunTypeOK, ServerGrows, clone
<1>2. RunsOK'
  BY BranchFacts DEF TypeInv, RunsOK, RunOK, ServerGrows, clone
<1>3. QED
  BY <1>1, <1>2

\* The runs that take no step stay well formed.
LEMMA OthersOK ==
  ASSUME TypeInv, ServerGrows, NEW r \in Runs, OthersWait(r), RunOK(r)'
  PROVE  RunsOK'
<1>1. ASSUME NEW s \in Runs \ {r}
      PROVE  RunOK(s)'
  BY BranchFacts DEF TypeInv, RunsOK, RunOK, ServerGrows, OthersWait
<1>2. QED
  BY <1>1 DEF RunsOK

\* A run may end at any of its steps.
LEMMA EndOK ==
  ASSUME TypeInv, ServerGrows, NEW r \in Runs, NEW result \in Ended, End(r, result)
  PROVE  RunTypeOK' /\ RunsOK'
<1>1. RunTypeOK'
  BY FirstTreeType DEF TypeInv, TypeOK, RunTypeOK, ServerGrows, End, Goto, DisposeClone, Tree
<1>2. OthersWait(r)
  BY DEF TypeInv, TypeOK, OthersWait, End, Goto, DisposeClone
<1>3. RunOK(r)'
  <2>1. pc'[r] = result
    BY DEF TypeInv, TypeOK, End, Goto
  <2>2. QED
    BY <2>1 DEF RunOK, Ended, Steps, SourceFound, TargetFound, SourceRead, OriginFetched
<1>4. QED
  BY <1>1, <1>2, <1>3, OthersOK

\* A branch may be moved to any commit; no branch but Source and Target exists
\* without having been created.
LEMMA HeadMoves ==
  ASSUME TypeInv, commits' \in Seq(Commit), CommitIds \subseteq CommitIds',
         \A i \in CommitIds : commits'[i] = commits[i],
         NEW b \in Branches, NEW i \in CommitIds',
         head' = [head EXCEPT ![b] = i], prs' \subseteq prs
  PROVE  ServerTypeOK' /\ PrsOK' /\ ServerGrows
<1>1. i # NoCommit
  BY DEF CommitIds, NoCommit
<1>2. head' \in [Branches -> {NoCommit} \cup CommitIds']
  BY DEF TypeInv, TypeOK
<1>3. \A a \in Branches : Exists(a) => Exists(a)'
  BY <1>1 DEF TypeInv, TypeOK, Exists
<1>4. prs' \subseteq PullRequest'
  BY DEF TypeInv, TypeOK, PullRequest
<1>5. PrsOK'
  BY <1>3, BranchFacts DEF TypeInv, TypeOK, PrsOK, PullRequest
<1>6. QED
  BY <1>2, <1>3, <1>4, <1>5 DEF ServerTypeOK, ServerGrows

\* A commit on top of existing ones, at the head of a branch.
LEMMA CommitOnBranch ==
  ASSUME TypeInv, NEW parents \in SUBSET CommitIds, NEW tree \in Tree, NEW b \in Branches,
         AddCommit(parents, tree), head' = [head EXCEPT ![b] = NewCommit], prs' \subseteq prs
  PROVE  ServerTypeOK' /\ CommitsOK' /\ PrsOK' /\ ServerGrows
<1>1. commits \in Seq(Commit)
  BY DEF TypeInv, TypeOK
<1>2. /\ commits' \in Seq(Commit)
      /\ Len(commits') = NewCommit
      /\ NewCommit \in CommitIds'
      /\ \A i \in CommitIds : i \in CommitIds' /\ commits'[i] = commits[i]
      /\ \A i \in CommitIds' : i \in CommitIds \/ i = NewCommit
      /\ commits'[NewCommit].ancestors = {NewCommit} \cup UNION {Ancestors(p) : p \in parents}
  BY <1>1, AppendCommit
<1>3. CommitsOK'
  BY <1>1, CommitsStayOK DEF TypeInv
<1>4. ServerTypeOK' /\ PrsOK' /\ ServerGrows
  BY <1>2, HeadMoves
<1>5. QED
  BY <1>3, <1>4

\* A new branch at the head of the release branch.
LEMMA BranchCreated ==
  ASSUME TypeInv, NEW b \in Branches, Exists(Source), UNCHANGED <<commits, prs>>,
         head' = [head EXCEPT ![b] = head[Source]]
  PROVE  ServerTypeOK' /\ CommitsOK' /\ PrsOK' /\ ServerGrows
<1>1. head[Source] \in CommitIds
  BY BranchFacts DEF TypeInv, TypeOK, Exists
<1>2. commits' \in Seq(Commit) /\ CommitIds' = CommitIds
  BY DEF TypeInv, TypeOK, CommitIds
<1>3. ServerTypeOK' /\ PrsOK' /\ ServerGrows
  BY <1>1, <1>2, HeadMoves
<1>4. CommitsOK'
  BY <1>2 DEF TypeInv, CommitsOK, Ancestors
<1>5. QED
  BY <1>3, <1>4

\* The initial states are well formed.
LEMMA InitTypeInv == Init => TypeInv
<1> SUFFICES ASSUME Init PROVE TypeInv
  OBVIOUS
<1>1. RunTypeOK /\ prs \subseteq PullRequest /\ triggered \in BOOLEAN /\ failures \in 0 .. MaxFailures
  <2>1. FirstTree.recorded \in [Versions -> Recorded]
    BY FirstTreeType DEF Tree
  <2>2. prs = {} /\ triggered = FALSE /\ failures = 0
    BY DEF Init
  <2>3. RunTypeOK
    BY <2>1, FirstTreeType DEF Init, RunTypeOK
  <2>4. failures \in 0 .. MaxFailures
    BY <2>2, SyncAssumption
  <2>5. QED
    BY <2>2, <2>3, <2>4, Zenon
<1>2. CASE commits = <<>>
  <2>1. head = [b \in Branches |-> NoCommit]
    BY <1>2, BranchFacts DEF Init
  <2>2. commits \in Seq(Commit)
    BY <1>2
  <2>3. TypeOK
    BY <1>1, <2>1, <2>2, TypeParts DEF ServerTypeOK
  <2>4. CommitsOK /\ RunsOK /\ PrsOK
    BY <1>2 DEF Init, CommitsOK, RunsOK, RunOK, PrsOK, CommitIds, Steps, SourceFound,
         TargetFound, SourceRead, OriginFetched
  <2>5. QED
    BY <2>3, <2>4 DEF TypeInv
<1>3. CASE /\ commits = <<[ancestors |-> {1}, tree |-> FirstTree]>>
           /\ head = [b \in Branches |-> IF b \in {Source, Target} THEN 1 ELSE NoCommit]
  <2>1. Len(commits) = 1 /\ commits[1] = [ancestors |-> {1}, tree |-> FirstTree]
    BY <1>3
  <2>2. CommitIds = {1}
    BY <2>1 DEF CommitIds
  <2>3. commits \in Seq(Commit)
    BY <1>3, FirstTreeType DEF Commit
  <2>4. TypeOK
    BY <1>1, <1>3, <2>2, <2>3, TypeParts DEF ServerTypeOK
  <2>5. CommitsOK /\ RunsOK /\ PrsOK
    BY <2>1, <2>2 DEF Init, CommitsOK, RunsOK, RunOK, PrsOK, Ancestors, Steps, SourceFound,
         TargetFound, SourceRead, OriginFetched
  <2>6. QED
    BY <2>4, <2>5 DEF TypeInv
<1>4. QED
  BY <1>2, <1>3 DEF Init

-----------------------------------------------------------------------------
(* The type invariant is inductive.                                        *)

\* A run starts: the clone has what the server has.
LEMMA CloneOK ==
  ASSUME TypeInv, UNCHANGED server, NEW r \in Runs, Clone(r)
  PROVE  RunTypeOK' /\ RunsOK'
<1>1. ServerGrows
  BY ServerUnchanged
<1>2. RunTypeOK'
  <2>1. CommitIds' = CommitIds
    BY DEF server, CommitIds
  <2>2. CASE OptionsOf[r] = "invalid"
    BY <2>1, <2>2 DEF Clone, TypeInv, TypeOK, RunTypeOK, Goto, clone, Ended
  <2>3. CASE OptionsOf[r] # "invalid"
    <3>1. head[Source] \in {NoCommit} \cup CommitIds /\ head[Target] \in {NoCommit} \cup CommitIds
      BY BranchFacts DEF TypeInv, TypeOK
    <3>2. pc' = [pc EXCEPT ![r] = "findBranches"] /\ pc' \in [Runs -> {"idle"} \cup Steps \cup Ended]
      BY <2>3 DEF Clone, Goto, TypeInv, TypeOK, Steps
    <3>3. QED
      BY <2>1, <2>3, <3>1, <3>2 DEF Clone, TypeInv, TypeOK, RunTypeOK
  <2>4. QED
    BY <2>2, <2>3
<1>3. OthersWait(r)
  BY DEF Clone, TypeInv, TypeOK, OthersWait, Goto, clone
<1>4. RunOK(r)'
  <2>1. pc'[r] \in {"failed", "findBranches"}
    BY DEF Clone, TypeInv, TypeOK, Goto
  <2>2. QED
    BY <2>1 DEF RunOK, Steps, SourceFound, TargetFound, SourceRead, OriginFetched
<1>5. QED
  BY <1>1, <1>2, <1>3, <1>4, OthersOK

\* The remaining bound and the trigger.
LEMMA OneMoreFailure ==
  ASSUME TypeOK, failures < MaxFailures, failures' = failures + 1
  PROVE  failures' \in 0 .. MaxFailures
  BY SyncAssumption DEF TypeOK

\* A pull request is opened for a branch of the command that has been pushed.
LEMMA CreatePullRequestOK ==
  ASSUME TypeInv, UNCHANGED <<commits, head>>, NEW r \in Runs, NEW branch \in Branches,
         branch \notin {Source, Target}, Exists(branch), Exists(Target),
         sourceSha[r] \in CommitIds, originTarget[r] \in CommitIds,
         CreatePullRequest(r, branch)
  PROVE  /\ ServerTypeOK' /\ CommitsOK' /\ PrsOK' /\ RunTypeOK' /\ RunsOK'
         /\ failures' \in 0 .. MaxFailures /\ ServerGrows
<1> DEFINE new == [branch |-> branch, source |-> sourceSha[r], target |-> originTarget[r]]
<1>1. CommitIds' = CommitIds /\ PullRequest' = PullRequest
  BY DEF CommitIds, PullRequest
<1>2. new \in PullRequest /\ new.branch = branch
  BY DEF PullRequest
<1>3. prs' \in {prs, prs \cup {new}}
  BY DEF CreatePullRequest
<1>4. /\ End(r, "failed") \/ End(r, "succeeded")
      /\ failures' = failures \/ (failures < MaxFailures /\ failures' = failures + 1)
  BY DEF CreatePullRequest
<1> HIDE DEF new
<1>5. ServerTypeOK'
  BY <1>1, <1>2, <1>3 DEF ServerTypeOK, TypeInv, TypeOK
<1>6. CommitsOK' /\ ServerGrows
  BY <1>1 DEF TypeInv, CommitsOK, ServerGrows, Ancestors, Exists
<1>7. PrsOK'
  BY <1>2, <1>3 DEF TypeInv, PrsOK, Exists
<1>8. failures' \in 0 .. MaxFailures
  BY <1>4, OneMoreFailure DEF TypeInv, TypeOK
<1>9. QED
  BY <1>4, <1>5, <1>6, <1>7, <1>8, EndOK DEF Ended

\* The steps that only read the server.
LEMMA ReadingStepOK ==
  ASSUME TypeInv, UNCHANGED server, NEW r \in Runs,
         \/ FindBranches(r) \/ ReadSource(r) \/ Compare(r) \/ Fetch(r) \/ ResetToSource(r)
         \/ \E v \in Versions : ReapplyBuild(r, v)
  PROVE  RunTypeOK' /\ RunsOK'
<1> USE DEF Ended
<1>1. ServerGrows
  BY ServerUnchanged
<1>2. CommitIds' = CommitIds /\ head' = head /\ commits' = commits
  BY DEF server, CommitIds
<1>3. head[Source] \in {NoCommit} \cup CommitIds /\ head[Target] \in {NoCommit} \cup CommitIds
  BY BranchFacts DEF TypeInv, TypeOK
<1>4. ASSUME \E result \in Ended : End(r, result)
      PROVE  RunTypeOK' /\ RunsOK'
  BY <1>1, <1>4, EndOK
<1>5. SUFFICES ASSUME ~ \E result \in Ended : End(r, result)
               PROVE  RunTypeOK' /\ OthersWait(r) /\ RunOK(r)'
  BY <1>1, <1>4, OthersOK
<1>6. CASE FindBranches(r)
  <2>1. /\ Exists(Source) /\ UNCHANGED clone
        /\ pc' = [pc EXCEPT ![r] = IF Exists(Target) THEN "readSource" ELSE "createTarget"]
    BY <1>5, <1>6 DEF FindBranches, Goto
  <2>2. pc' \in [Runs -> {"idle"} \cup Steps \cup Ended]
    BY <2>1 DEF TypeInv, TypeOK, Steps
  <2>3. pc'[r] = IF Exists(Target) THEN "readSource" ELSE "createTarget"
    BY <2>1 DEF TypeInv, TypeOK
  <2>4. RunTypeOK' /\ OthersWait(r)
    BY <1>2, <2>1, <2>2 DEF TypeInv, TypeOK, RunTypeOK, OthersWait, clone
  <2>5. RunOK(r)'
    BY <1>2, <2>1, <2>3 DEF RunOK, Exists, Steps, SourceFound, TargetFound, SourceRead,
         OriginFetched
  <2>6. QED
    BY <2>4, <2>5
<1>7. CASE ReadSource(r)
  <2>1. pc' \in [Runs -> {"idle"} \cup Steps \cup Ended] /\ pc'[r] = "compare"
    BY <1>7 DEF ReadSource, Goto, TypeInv, TypeOK, Steps
  <2>2. RunTypeOK' /\ OthersWait(r)
    BY <1>2, <1>3, <1>7, <2>1 DEF ReadSource, Goto, TypeInv, TypeOK, RunTypeOK, OthersWait
  <2>3. Exists(Source) /\ Exists(Target)
    BY <1>7 DEF ReadSource, TypeInv, RunsOK, RunOK, Steps, SourceFound, TargetFound
  <2>4. RunOK(r)'
    BY <1>2, <1>3, <1>7, <2>1, <2>3 DEF ReadSource, TypeInv, TypeOK, RunOK, Exists,
         SourceFound, TargetFound, SourceRead, OriginFetched
  <2>5. QED
    BY <2>2, <2>4
<1>8. CASE Compare(r)
  <2>1. pc' = [pc EXCEPT ![r] = "fetch"] /\ UNCHANGED clone /\ pc[r] = "compare"
    BY <1>5, <1>8 DEF Compare, Goto
  <2>2. pc' \in [Runs -> {"idle"} \cup Steps \cup Ended] /\ pc'[r] = "fetch"
    BY <2>1 DEF TypeInv, TypeOK, Steps
  <2>3. RunTypeOK' /\ OthersWait(r)
    BY <1>2, <2>1, <2>2 DEF TypeInv, TypeOK, RunTypeOK, OthersWait, clone
  <2>4. RunOK(r)'
    BY <1>2, <2>1, <2>2 DEF TypeInv, RunsOK, RunOK, Exists, clone, Steps, SourceFound,
         TargetFound, SourceRead, OriginFetched
  <2>5. QED
    BY <2>3, <2>4
<1>9. CASE Fetch(r)
  <2>1. PICK step \in {"createFastForward", "reset"} :
          /\ pc[r] = "fetch" /\ pc' = [pc EXCEPT ![r] = step]
          /\ originSource' = [originSource EXCEPT ![r] = head[Source]]
          /\ originTarget' = [originTarget EXCEPT ![r] = head[Target]]
          /\ UNCHANGED <<sourceSha, internalBuilds, workTree>>
    BY <1>5, <1>9 DEF Fetch, Fetched, Goto
  <2>2. pc' \in [Runs -> {"idle"} \cup Steps \cup Ended] /\ pc'[r] = step
    BY <2>1 DEF TypeInv, TypeOK, Steps
  <2>3. RunTypeOK' /\ OthersWait(r)
    BY <1>2, <1>3, <2>1, <2>2 DEF TypeInv, TypeOK, RunTypeOK, OthersWait
  <2>4. Exists(Source) /\ Exists(Target) /\ sourceSha[r] \in CommitIds
    BY <2>1 DEF TypeInv, RunsOK, RunOK, Steps, SourceFound, TargetFound, SourceRead
  <2>5. RunOK(r)'
    BY <1>2, <1>3, <2>1, <2>2, <2>4 DEF TypeInv, TypeOK, RunOK, Exists
  <2>6. QED
    BY <2>3, <2>5
<1>10. CASE ResetToSource(r)
  <2>1. /\ pc[r] = "reset" /\ pc' = [pc EXCEPT ![r] = "apply"]
        /\ internalBuilds' = [internalBuilds EXCEPT ![r] = TreeOf(originTarget[r]).recorded]
        /\ workTree' = [workTree EXCEPT ![r] = TreeOf(sourceSha[r])]
        /\ UNCHANGED <<sourceSha, originSource, originTarget>>
    BY <1>5, <1>10 DEF ResetToSource, Goto, BuildsToReapply, RestoredTree
  <2>2. sourceSha[r] \in CommitIds /\ originTarget[r] \in CommitIds
    BY <2>1 DEF TypeInv, RunsOK, RunOK, Steps, SourceFound, TargetFound, SourceRead, OriginFetched
  <2>3. TreeOf(sourceSha[r]) \in Tree /\ TreeOf(originTarget[r]).recorded \in [Versions -> Recorded]
    <3>1. commits[sourceSha[r]] \in Commit /\ commits[originTarget[r]] \in Commit
      BY <2>2 DEF TypeInv, TypeOK, CommitIds
    <3>2. QED
      BY <3>1 DEF TreeOf, Commit, Tree
  <2>4. pc' \in [Runs -> {"idle"} \cup Steps \cup Ended] /\ pc'[r] = "apply"
    BY <2>1 DEF TypeInv, TypeOK, Steps
  <2>5. RunTypeOK' /\ OthersWait(r)
    BY <1>2, <2>1, <2>3, <2>4 DEF TypeInv, TypeOK, RunTypeOK, OthersWait
  <2>6. RunOK(r)'
    BY <1>2, <2>1, <2>4 DEF TypeInv, RunsOK, RunOK, Exists, Steps, SourceFound,
         TargetFound, SourceRead, OriginFetched
  <2>7. QED
    BY <2>5, <2>6
<1>11. CASE \E v \in Versions : ReapplyBuild(r, v)
  <2>1. PICK v \in Versions :
          /\ pc[r] = "apply" /\ internalBuilds[r][v] # NoContainer
          /\ workTree' = [workTree EXCEPT ![r] =
                            ApplyInternalBuild(workTree[r], internalBuilds[r][v])]
          /\ internalBuilds' = [internalBuilds EXCEPT ![r][v] = NoContainer]
          /\ UNCHANGED <<pc, sourceSha, originSource, originTarget>>
    BY <1>5, <1>11 DEF ReapplyBuild
  <2>2. ApplyInternalBuild(workTree[r], internalBuilds[r][v]) \in Tree
    BY <2>1, ApplyType DEF TypeInv, TypeOK, Recorded
  <2>3. RunTypeOK' /\ OthersWait(r)
    BY <1>2, <2>1, <2>2 DEF TypeInv, TypeOK, RunTypeOK, OthersWait, Recorded
  <2>4. RunOK(r)'
    BY <1>2, <2>1 DEF TypeInv, RunsOK, RunOK, Exists
  <2>5. QED
    BY <2>3, <2>4
<1>12. QED
  BY <1>6, <1>7, <1>8, <1>9, <1>10, <1>11

\* The steps that create the run's branches.
LEMMA CreateBranchOK ==
  ASSUME TypeInv, NEW r \in Runs, CreateTarget(r) \/ CreateFastForwardBranch(r)
  PROVE  ServerTypeOK' /\ CommitsOK' /\ PrsOK' /\ RunTypeOK' /\ RunsOK' /\ ServerGrows
<1> USE DEF Ended
<1>1. CASE End(r, "failed") /\ UNCHANGED server
  BY <1>1, ServerUnchanged, EndOK
<1>2. Exists(Source) /\ (CreateFastForwardBranch(r) => Exists(Target))
  BY DEF TypeInv, RunsOK, RunOK, CreateTarget, CreateFastForwardBranch, Steps, SourceFound,
     TargetFound
<1>3. CASE CreateTarget(r) /\ ~ (End(r, "failed") /\ UNCHANGED server)
  <2>1. /\ head' = [head EXCEPT ![Target] = head[Source]]
        /\ UNCHANGED <<commits, prs>> /\ End(r, "succeeded")
    BY <1>3 DEF CreateTarget, CreateRemoteBranch, BaseBranch, server
  <2>2. ServerTypeOK' /\ CommitsOK' /\ PrsOK' /\ ServerGrows
    BY <1>2, <2>1, BranchFacts, BranchCreated
  <2>3. QED
    BY <2>1, <2>2, EndOK
<1>4. CASE CreateFastForwardBranch(r) /\ ~ (End(r, "failed") /\ UNCHANGED server)
  <2> DEFINE branch == FastForwardBranch(r)
  <2>1. /\ pc[r] = "createFastForward" /\ pc' = [pc EXCEPT ![r] = "openFastForward"]
        /\ head' = [head EXCEPT ![branch] = head[Source]]
        /\ UNCHANGED <<commits, prs, sourceSha, originSource, originTarget, internalBuilds, workTree>>
    BY <1>4 DEF CreateFastForwardBranch, CreateRemoteBranch, BaseBranch, server, clone, Goto
  <2>2. branch \in Branches
    BY BranchFacts
  <2>3. ServerTypeOK' /\ CommitsOK' /\ PrsOK' /\ ServerGrows
    BY <1>2, <2>1, <2>2, BranchCreated
  <2>4. pc' \in [Runs -> {"idle"} \cup Steps \cup Ended] /\ pc'[r] = "openFastForward"
    BY <2>1 DEF TypeInv, TypeOK, Steps
  <2>5. RunTypeOK' /\ OthersWait(r)
    BY <2>1, <2>3, <2>4 DEF TypeInv, TypeOK, RunTypeOK, OthersWait, ServerGrows
  <2>6. head'[branch] # NoCommit
    BY <1>2, <2>1, <2>2 DEF TypeInv, TypeOK, Exists
  <2>7. RunOK(r)'
    BY <1>2, <1>4, <2>1, <2>3, <2>4, <2>6, BranchFacts
    DEF TypeInv, RunsOK, RunOK, ServerGrows, Exists, Steps, SourceFound, TargetFound,
        SourceRead, OriginFetched
  <2>8. QED
    BY <2>3, <2>5, <2>7, OthersOK
<1>5. QED
  BY <1>1, <1>3, <1>4

\* The step that pushes the run's commits.
LEMMA PushOK ==
  ASSUME TypeInv, NEW r \in Runs, Push(r)
  PROVE  ServerTypeOK' /\ CommitsOK' /\ PrsOK' /\ RunTypeOK' /\ RunsOK' /\ ServerGrows
<1>1. CASE End(r, "failed") /\ UNCHANGED server
  BY <1>1, ServerUnchanged, EndOK DEF Ended
<1>2. CASE ~ (End(r, "failed") /\ UNCHANGED server)
  <2> DEFINE branch == SyncBranch(r)
  <2>1. /\ pc[r] = "apply" /\ pc' = [pc EXCEPT ![r] = "openSync"]
        /\ AddCommit({originTarget[r]}, workTree[r])
        /\ head' = [head EXCEPT ![branch] = NewCommit]
        /\ UNCHANGED <<prs, sourceSha, originSource, originTarget, internalBuilds, workTree>>
    BY <1>2 DEF Push, Goto, clone
  <2>2. branch \in Branches
    BY BranchFacts
  <2>3. {originTarget[r]} \in SUBSET CommitIds /\ workTree[r] \in Tree
    BY <2>1 DEF TypeInv, TypeOK, RunsOK, RunOK, Steps, SourceFound, TargetFound, SourceRead,
       OriginFetched
  <2>4. ServerTypeOK' /\ CommitsOK' /\ PrsOK' /\ ServerGrows
    BY <2>1, <2>2, <2>3, CommitOnBranch
  <2>5. pc' \in [Runs -> {"idle"} \cup Steps \cup Ended] /\ pc'[r] = "openSync"
    BY <2>1 DEF TypeInv, TypeOK, Steps
  <2>6. RunTypeOK' /\ OthersWait(r)
    BY <2>1, <2>4, <2>5 DEF TypeInv, TypeOK, RunTypeOK, OthersWait, ServerGrows
  <2>7. head'[branch] # NoCommit
    BY <2>1, <2>2 DEF TypeInv, TypeOK, NewCommit, NoCommit
  <2>8. RunOK(r)'
    BY <2>1, <2>4, <2>5, <2>7, BranchFacts
    DEF TypeInv, RunsOK, RunOK, ServerGrows, Exists, Steps, SourceFound, TargetFound,
        SourceRead, OriginFetched
  <2>9. QED
    BY <2>4, <2>6, <2>8, OthersOK
<1>3. QED
  BY <1>1, <1>2

\* The steps that open the run's pull requests.
LEMMA OpenOK ==
  ASSUME TypeInv, NEW r \in Runs, OpenFastForward(r) \/ OpenSync(r)
  PROVE  /\ ServerTypeOK' /\ CommitsOK' /\ PrsOK' /\ RunTypeOK' /\ RunsOK'
         /\ failures' \in 0 .. MaxFailures /\ ServerGrows
<1>1. /\ Exists(Target) /\ sourceSha[r] \in CommitIds /\ originTarget[r] \in CommitIds
      /\ OpenFastForward(r) => Exists(FastForwardBranch(r))
      /\ OpenSync(r) => Exists(SyncBranch(r))
  BY DEF TypeInv, RunsOK, RunOK, OpenFastForward, OpenSync, Steps, SourceFound, TargetFound,
     SourceRead, OriginFetched
<1>2. UNCHANGED <<commits, head>>
  BY DEF OpenFastForward, OpenSync
<1>3. PICK branch \in {FastForwardBranch(r), SyncBranch(r)} :
        CreatePullRequest(r, branch) /\ Exists(branch)
  BY <1>1 DEF OpenFastForward, OpenSync
<1>4. branch \in Branches /\ branch \notin {Source, Target}
  BY BranchFacts
<1>5. QED
  BY <1>1, <1>2, <1>3, <1>4, CreatePullRequestOK

\* The other users push to the release branch, or commit to the internal branch.
LEMMA EnvironmentCases ==
  ASSUME TypeInv, Environment
  PROVE  \/ \E tree \in Tree : PushToSource(tree)
         \/ \E c \in Containers : MergeInternalUpdate(c)
         \/ \E p \in prs, style \in MergeStyles : CompletePullRequest(p, style)
<1>1. Exists(Source) => TreeOf(head[Source]) \in Tree
  <2>1. SUFFICES ASSUME Exists(Source)
                 PROVE  commits[head[Source]] \in Commit
    BY DEF TreeOf, Commit
  <2>2. QED
    BY <2>1, BranchFacts DEF TypeInv, TypeOK, CommitIds, Exists
<1>2. CASE CreateSource
  BY <1>2, FirstTreeType DEF CreateSource
<1>3. ASSUME NEW e \in Edits, EditSource(e)
      PROVE  \E tree \in Tree : PushToSource(tree)
  <2>1. [TreeOf(head[Source]) EXCEPT !.edits = @ \cup {e}] \in Tree
    BY <1>1, <1>3 DEF EditSource, Tree
  <2>2. QED
    BY <1>3, <2>1 DEF EditSource
<1>4. ASSUME NEW c \in Containers, ReleaseBuild(c)
      PROVE  \E tree \in Tree : PushToSource(tree)
  BY <1>1, <1>4, ApplyType DEF ReleaseBuild
<1>5. QED
  BY <1>2, <1>3, <1>4 DEF Environment

\* The steps of the server's other users.
LEMMA EnvironmentOK ==
  ASSUME TypeInv, Environment
  PROVE  ServerTypeOK' /\ CommitsOK' /\ PrsOK' /\ ServerGrows
<1>1. ASSUME NEW i \in CommitIds
      PROVE  TreeOf(i) \in Tree
  <2>1. commits[i] \in Commit
    BY DEF TypeInv, TypeOK, CommitIds
  <2>2. QED
    BY <2>1 DEF TreeOf, Commit
<1>2. \A b \in Branches : Exists(b) => head[b] \in CommitIds
  BY DEF TypeInv, TypeOK, Exists
<1>3. CASE \E tree \in Tree : PushToSource(tree)
  <2>1. PICK tree \in Tree : PushToSource(tree)
    BY <1>3
  <2> DEFINE parents == IF Exists(Source) THEN {head[Source]} ELSE {}
  <2>2. parents \in SUBSET CommitIds
    BY <1>2, BranchFacts
  <2>3. /\ AddCommit(parents, tree) /\ prs' = prs
        /\ head' = [head EXCEPT ![Source] = NewCommit]
    BY <2>1 DEF PushToSource
  <2>4. QED
    BY <2>2, <2>3, BranchFacts, CommitOnBranch
<1>4. CASE \E c \in Containers : MergeInternalUpdate(c)
  <2>1. PICK c \in Containers : MergeInternalUpdate(c)
    BY <1>4
  <2>2. head[Target] \in CommitIds
    BY <1>2, <2>1, BranchFacts DEF MergeInternalUpdate
  <2>3. ApplyInternalBuild(TreeOf(head[Target]), c) \in Tree
    BY <1>1, <2>2, ApplyType
  <2>4. /\ AddCommit({head[Target]}, ApplyInternalBuild(TreeOf(head[Target]), c))
        /\ head' = [head EXCEPT ![Target] = NewCommit] /\ prs' = prs
    BY <2>1 DEF MergeInternalUpdate
  <2>5. QED
    BY <2>2, <2>3, <2>4, BranchFacts, CommitOnBranch
<1>5. CASE \E p \in prs, style \in MergeStyles : CompletePullRequest(p, style)
  <2>1. PICK p \in prs, style \in MergeStyles : CompletePullRequest(p, style)
    BY <1>5
  <2> DEFINE ours   == head[Target]
             theirs == head[p.branch]
             base   == TreeOf(MergeBase(ours, theirs))
             merged == MergeTrees(base, TreeOf(ours), TreeOf(theirs))
  <2>2. ours \in CommitIds /\ theirs \in CommitIds
    BY <1>2, BranchFacts DEF TypeInv, TypeOK, PrsOK, PullRequest
  <2>3. prs' \subseteq prs
    BY <2>1 DEF CompletePullRequest, Merge
  <2>4. CASE style = "fastForward"
    <3>1. head' = [head EXCEPT ![Target] = theirs] /\ commits' = commits
      BY <2>1, <2>4 DEF CompletePullRequest, Merge
    <3>2. commits' \in Seq(Commit) /\ CommitIds' = CommitIds
      BY <3>1 DEF TypeInv, TypeOK, CommitIds
    <3>3. ServerTypeOK' /\ PrsOK' /\ ServerGrows
      BY <2>2, <2>3, <3>1, <3>2, BranchFacts, HeadMoves
    <3>4. CommitsOK'
      BY <3>1, <3>2 DEF TypeInv, CommitsOK, Ancestors
    <3>5. QED
      BY <3>3, <3>4
  <2>5. CASE style # "fastForward"
    <3>1. PICK parents \in {{ours, theirs}, {ours}} :
            AddCommit(parents, merged) /\ head' = [head EXCEPT ![Target] = NewCommit]
      BY <2>1, <2>5 DEF CompletePullRequest, Merge
    <3>2. merged \in Tree
      BY <1>1, <2>2, MergeType
    <3>3. parents \in SUBSET CommitIds
      BY <2>2
    <3> HIDE DEF merged
    <3>4. QED
      BY <2>3, <3>1, <3>2, <3>3, BranchFacts, CommitOnBranch
  <2>6. QED
    BY <2>4, <2>5
<1>6. QED
  BY <1>3, <1>4, <1>5, EnvironmentCases

\* Every step keeps TypeInv: the server's commits, branches and pull requests
\* fit together, and what a run relies on at its next step exists.
THEOREM TypeInvInductive == TypeInv /\ [Next]_vars => TypeInv'
<1> SUFFICES ASSUME TypeInv, [Next]_vars
             PROVE  TypeInv'
  OBVIOUS
<1>1. ASSUME ServerTypeOK', CommitsOK', PrsOK', RunTypeOK', RunsOK',
             triggered' \in BOOLEAN, failures' \in 0 .. MaxFailures
      PROVE  TypeInv'
  BY <1>1 DEF TypeInv, TypeOK, ServerTypeOK, RunTypeOK
<1>2. triggered \in BOOLEAN /\ failures \in 0 .. MaxFailures
  BY TypeParts DEF TypeInv
<1>3. failures < MaxFailures /\ failures' = failures + 1 => failures' \in 0 .. MaxFailures
  BY OneMoreFailure DEF TypeInv
<1>4. CASE UNCHANGED vars
  <2>1. UNCHANGED server /\ UNCHANGED <<pc, clone>> /\ triggered' = triggered /\ failures' = failures
    BY <1>4 DEF vars, server, clone
  <2>2. QED
    BY <1>1, <1>2, <2>1, ServerUnchanged, RunsUnchanged
<1>5. ASSUME NEW r \in Runs, StartTriggered(r) \/ StartByHand(r)
      PROVE  TypeInv'
  <2>1. UNCHANGED server /\ Clone(r)
    BY <1>5 DEF StartTriggered, StartByHand
  <2>2. triggered' \in BOOLEAN /\ failures' \in 0 .. MaxFailures
    BY <1>2, <1>3, <1>5 DEF StartTriggered, StartByHand
  <2>3. QED
    BY <1>1, <2>1, <2>2, ServerUnchanged, CloneOK
<1>6. ASSUME NEW r \in Runs, Step(r)
      PROVE  TypeInv'
  <2>1. CASE \/ FindBranches(r) \/ ReadSource(r) \/ Compare(r) \/ Fetch(r) \/ ResetToSource(r)
             \/ \E v \in Versions : ReapplyBuild(r, v)
    <3>1. UNCHANGED server /\ triggered' = triggered /\ failures' = failures
      BY <2>1 DEF FindBranches, ReadSource, Compare, Fetch, ResetToSource, ReapplyBuild
    <3>2. QED
      BY <1>1, <1>2, <2>1, <3>1, ServerUnchanged, ReadingStepOK
  <2>2. CASE CreateTarget(r) \/ CreateFastForwardBranch(r)
    <3>1. triggered' = triggered /\ failures' = failures
      BY <2>2 DEF CreateTarget, CreateFastForwardBranch
    <3>2. QED
      BY <1>1, <1>2, <2>2, <3>1, CreateBranchOK
  <2>3. CASE Push(r)
    <3>1. triggered' = triggered /\ failures' = failures
      BY <2>3 DEF Push
    <3>2. QED
      BY <1>1, <1>2, <2>3, <3>1, PushOK
  <2>4. CASE OpenFastForward(r) \/ OpenSync(r)
    <3>1. triggered' = triggered
      BY <2>4 DEF OpenFastForward, OpenSync
    <3>2. QED
      BY <1>1, <1>2, <2>4, <3>1, OpenOK
  <2>5. QED
    BY <1>6, <2>1, <2>2, <2>3, <2>4 DEF Step
<1>7. ASSUME NEW r \in Runs, Fail(r)
      PROVE  TypeInv'
  <2>1. UNCHANGED server /\ End(r, "failed") /\ triggered' = triggered
    BY <1>7 DEF Fail
  <2>2. failures' \in 0 .. MaxFailures
    BY <1>3, <1>7 DEF Fail
  <2>3. QED
    BY <1>1, <1>2, <2>1, <2>2, ServerUnchanged, EndOK DEF Ended
<1>8. CASE Environment
  <2>1. UNCHANGED <<pc, clone>> /\ failures' = failures /\ triggered' \in {TRUE, triggered}
    BY <1>8 DEF Environment, CreateSource, EditSource, ReleaseBuild, PushToSource,
       MergeInternalUpdate, CompletePullRequest, Merge, local, clone
  <2>2. triggered' \in BOOLEAN
    BY <1>2, <2>1
  <2>3. QED
    BY <1>1, <1>2, <1>8, <2>1, <2>2, EnvironmentOK, RunsUnchanged
<1>9. QED
  BY <1>4, <1>5, <1>6, <1>7, <1>8 DEF Next

\* The state of the server and of every clone is well formed at all times: what
\* a run remembers of the server exists there, whatever other runs, reviewers
\* and failures do in between.
THEOREM TypeCorrect == Spec => []TypeOK
<1>1. TypeInv => TypeOK
  BY DEF TypeInv
<1>2. QED
  BY <1>1, InitTypeInv, TypeInvInductive, PTL DEF Spec

-----------------------------------------------------------------------------
(* What was read from the release branch stays in its history.             *)

\* What a step may do to a run's reading of the release branch.
RunReads(r) ==
  \/ pc'[r] \notin SourceRead
  \/ UNCHANGED server /\ pc'[r] = "compare" /\ sourceSha'[r] = head[Source]
  \/ /\ UNCHANGED server /\ pc[r] = "fetch" /\ pc'[r] # "openFastForward"
     /\ sourceSha'[r] = sourceSha[r] /\ originSource'[r] = head[Source]
  \/ /\ pc[r] \in SourceRead /\ (pc'[r] \in OriginFetched => pc[r] \in OriginFetched)
     /\ sourceSha'[r] = sourceSha[r] /\ originSource'[r] = originSource[r]
     /\ pc'[r] = "openFastForward" /\ pc[r] # "openFastForward" =>
          /\ UNCHANGED commits /\ head'[Source] = head[Source]
          /\ head'[FastForwardBranch(r)] = head[Source]

\* What a step may do to the branches that the fast-forward of a run uses.
SourceMoves ==
  /\ Exists(Source) => Ancestors(head[Source]) \subseteq Ancestors(head[Source])'
  /\ \A b \in Branches :
       b[1] = "ff" /\ head'[b] # head[b] =>
         /\ UNCHANGED commits /\ head'[Source] = head[Source]
         /\ Exists(Source) /\ head'[b] = head[Source]

\* What a step may do to the pull requests.
PrsMove ==
  \A p \in prs' \ prs :
    /\ UNCHANGED <<commits, head>>
    /\ \E r \in Runs :
         /\ p.source = sourceSha[r]
         /\ \/ pc[r] = "openFastForward" /\ p.branch = FastForwardBranch(r)
            \/ pc[r] = "openSync" /\ p.branch = SyncBranch(r)

LEMMA BranchKinds ==
  /\ Source[1] # "ff" /\ Target[1] # "ff" /\ Source[1] # "sync" /\ Target[1] # "sync"
  /\ \A r \in Runs : FastForwardBranch(r)[1] = "ff" /\ SyncBranch(r)[1] = "sync"
  BY DEF Source, Target, FastForwardBranch, SyncBranch

LEMMA SourceStays ==
  ASSUME TypeInv, ServerGrows, head'[Source] = head[Source],
         \A b \in Branches : b[1] = "ff" => head'[b] = head[b]
  PROVE  SourceMoves
<1>1. Exists(Source) => head[Source] \in CommitIds
  BY BranchFacts DEF TypeInv, TypeOK, Exists
<1>2. QED
  BY <1>1 DEF SourceMoves, ServerGrows, Ancestors

\* A step of one run does not touch what the others have read.
LEMMA OthersRead ==
  ASSUME NEW r \in Runs, OthersWait(r), RunReads(r)
  PROVE  \A s \in Runs : RunReads(s)
<1>1. ASSUME NEW s \in Runs, s # r
      PROVE  RunReads(s)
  BY <1>1 DEF OthersWait, RunReads
<1>2. QED
  BY <1>1

LEMMA EndReads ==
  ASSUME TypeInv, NEW r \in Runs, NEW result \in Ended, End(r, result)
  PROVE  \A s \in Runs : RunReads(s)
<1>1. OthersWait(r)
  BY DEF TypeInv, TypeOK, OthersWait, End, Goto, DisposeClone
<1>2. pc'[r] = result
  BY DEF TypeInv, TypeOK, End, Goto
<1>3. RunReads(r)
  BY <1>2 DEF RunReads, Ended, Steps, SourceFound, TargetFound, SourceRead
<1>4. QED
  BY <1>1, <1>3, OthersRead

\* Every step is one of those.
LEMMA NextReads ==
  ASSUME TypeInv, [Next]_vars
  PROVE  ServerGrows /\ SourceMoves /\ PrsMove /\ \A s \in Runs : RunReads(s)
<1> USE DEF Ended
<1>1. ASSUME UNCHANGED server
      PROVE  ServerGrows /\ SourceMoves /\ PrsMove
  BY <1>1, ServerUnchanged, SourceStays DEF PrsMove, server
<1>2. ASSUME UNCHANGED <<pc, clone>>
      PROVE  \A s \in Runs : RunReads(s)
  BY <1>2 DEF RunReads, clone
<1>3. CASE UNCHANGED vars
  <2>1. UNCHANGED server /\ UNCHANGED <<pc, clone>>
    BY <1>3 DEF vars, server, clone
  <2>2. QED
    BY <1>1, <1>2, <2>1
<1>4. ASSUME NEW r \in Runs, StartTriggered(r) \/ StartByHand(r)
      PROVE  ServerGrows /\ SourceMoves /\ PrsMove /\ \A s \in Runs : RunReads(s)
  <2>1. UNCHANGED server /\ Clone(r)
    BY <1>4 DEF StartTriggered, StartByHand
  <2>2. OthersWait(r)
    BY <2>1 DEF Clone, TypeInv, TypeOK, OthersWait, Goto, clone
  <2>3. pc'[r] \in {"failed", "findBranches"}
    BY <2>1 DEF Clone, TypeInv, TypeOK, Goto
  <2>4. RunReads(r)
    BY <2>3 DEF RunReads, Steps, SourceFound, TargetFound, SourceRead
  <2>5. QED
    BY <1>1, <2>1, <2>2, <2>4, OthersRead
<1>5. ASSUME NEW r \in Runs, Fail(r)
      PROVE  ServerGrows /\ SourceMoves /\ PrsMove /\ \A s \in Runs : RunReads(s)
  BY <1>1, <1>5, EndReads DEF Fail
<1>6. ASSUME NEW r \in Runs, Step(r)
      PROVE  ServerGrows /\ SourceMoves /\ PrsMove /\ \A s \in Runs : RunReads(s)
  <2>1. CASE \/ FindBranches(r) \/ ReadSource(r) \/ Compare(r) \/ Fetch(r) \/ ResetToSource(r)
             \/ \E v \in Versions : ReapplyBuild(r, v)
    <3>1. UNCHANGED server
      BY <2>1 DEF FindBranches, ReadSource, Compare, Fetch, ResetToSource, ReapplyBuild
    <3>2. CASE \E result \in Ended : End(r, result)
      BY <1>1, <3>1, <3>2, EndReads
    <3>3. CASE ~ \E result \in Ended : End(r, result)
      <4>1. OthersWait(r)
        BY <2>1, <3>3 DEF TypeInv, TypeOK, OthersWait, FindBranches, ReadSource, Compare, Fetch,
           ResetToSource, ReapplyBuild, Goto, clone
      <4>2. RunReads(r)
        <5>1. CASE FindBranches(r)
          <6>1. pc'[r] \in {"readSource", "createTarget"}
            BY <3>3, <5>1 DEF FindBranches, Goto, TypeInv, TypeOK
          <6>2. QED
            BY <6>1 DEF RunReads, Steps, SourceFound, TargetFound, SourceRead
        <5>2. CASE ReadSource(r)
          BY <3>1, <5>2 DEF RunReads, ReadSource, Goto, TypeInv, TypeOK
        <5>3. CASE Compare(r)
          BY <3>3, <5>3 DEF RunReads, Compare, Goto, TypeInv, TypeOK, clone, Steps, SourceFound,
             TargetFound, SourceRead, OriginFetched
        <5>4. CASE Fetch(r)
          <6>1. PICK step \in {"createFastForward", "reset"} :
                  /\ pc[r] = "fetch" /\ pc' = [pc EXCEPT ![r] = step]
                  /\ originSource' = [originSource EXCEPT ![r] = head[Source]]
                  /\ sourceSha' = sourceSha
            BY <3>3, <5>4 DEF Fetch, Fetched, Goto
          <6>2. QED
            BY <3>1, <6>1 DEF RunReads, TypeInv, TypeOK
        <5>5. CASE ResetToSource(r)
          BY <3>3, <5>5 DEF RunReads, ResetToSource, Goto, TypeInv, TypeOK, Steps, SourceFound,
             TargetFound, SourceRead, OriginFetched
        <5>6. CASE \E v \in Versions : ReapplyBuild(r, v)
          BY <3>3, <5>6 DEF RunReads, ReapplyBuild, Steps, SourceFound, TargetFound, SourceRead,
             OriginFetched
        <5>7. QED
          BY <2>1, <5>1, <5>2, <5>3, <5>4, <5>5, <5>6
      <4>3. QED
        BY <1>1, <3>1, <4>1, <4>2, OthersRead
    <3>4. QED
      BY <3>2, <3>3
  <2>2. CASE CreateTarget(r) \/ CreateFastForwardBranch(r)
    <3>1. CASE End(r, "failed") /\ UNCHANGED server
      BY <1>1, <3>1, EndReads
    <3>2. CASE CreateTarget(r) /\ ~ (End(r, "failed") /\ UNCHANGED server)
      <4>1. /\ head' = [head EXCEPT ![Target] = head[Source]]
            /\ UNCHANGED <<commits, prs>> /\ End(r, "succeeded")
        BY <3>2 DEF CreateTarget, CreateRemoteBranch, BaseBranch, server
      <4>2. head'[Source] = head[Source] /\ \A b \in Branches : b[1] = "ff" => head'[b] = head[b]
        BY <4>1, BranchFacts, BranchKinds DEF TypeInv, TypeOK
      <4>3. ServerGrows /\ SourceMoves
        BY <2>2, <4>2, CreateBranchOK, SourceStays
      <4>4. QED
        BY <4>1, <4>3, EndReads DEF PrsMove
    <3>3. CASE CreateFastForwardBranch(r) /\ ~ (End(r, "failed") /\ UNCHANGED server)
      <4> DEFINE branch == FastForwardBranch(r)
      <4>1. /\ pc[r] = "createFastForward" /\ pc' = [pc EXCEPT ![r] = "openFastForward"]
            /\ head' = [head EXCEPT ![branch] = head[Source]]
            /\ UNCHANGED <<commits, prs, clone>>
        BY <3>3 DEF CreateFastForwardBranch, CreateRemoteBranch, BaseBranch, server, clone, Goto
      <4>2. ServerGrows
        BY <2>2, CreateBranchOK
      <4>3. /\ head'[branch] = head[Source] /\ head'[Source] = head[Source]
            /\ \A b \in Branches \ {branch} : head'[b] = head[b]
        BY <4>1, BranchFacts DEF TypeInv, TypeOK
      <4>4. Exists(Source)
        BY <4>1 DEF TypeInv, RunsOK, RunOK, Steps, SourceFound
      <4>5. SourceMoves /\ PrsMove
        BY <4>1, <4>3, <4>4 DEF SourceMoves, PrsMove, Ancestors
      <4>6. RunReads(r)
        BY <4>1, <4>3 DEF RunReads, clone, TypeInv, TypeOK, Steps, SourceFound, TargetFound, SourceRead,
           OriginFetched
      <4>7. OthersWait(r)
        BY <4>1 DEF OthersWait, TypeInv, TypeOK, clone
      <4>8. QED
        BY <4>2, <4>5, <4>6, <4>7, OthersRead
    <3>4. QED
      BY <2>2, <3>1, <3>2, <3>3
  <2>3. CASE Push(r)
    <3>1. CASE End(r, "failed") /\ UNCHANGED server
      BY <1>1, <3>1, EndReads
    <3>2. CASE ~ (End(r, "failed") /\ UNCHANGED server)
      <4>1. /\ pc[r] = "apply" /\ pc' = [pc EXCEPT ![r] = "openSync"]
            /\ head' = [head EXCEPT ![SyncBranch(r)] = NewCommit]
            /\ UNCHANGED <<prs, clone>>
        BY <2>3, <3>2 DEF Push, Goto, clone
      <4>2. head'[Source] = head[Source] /\ \A b \in Branches : b[1] = "ff" => head'[b] = head[b]
        BY <4>1, BranchFacts, BranchKinds DEF TypeInv, TypeOK
      <4>3. ServerGrows /\ SourceMoves
        BY <2>3, <4>2, PushOK, SourceStays
      <4>4. RunReads(r)
        BY <4>1 DEF RunReads, clone, TypeInv, TypeOK, Steps, SourceFound, TargetFound, SourceRead,
           OriginFetched
      <4>5. OthersWait(r)
        BY <4>1 DEF OthersWait, TypeInv, TypeOK, clone
      <4>6. QED
        BY <4>1, <4>3, <4>4, <4>5, OthersRead DEF PrsMove
    <3>3. QED
      BY <3>1, <3>2
  <2>4. CASE OpenFastForward(r) \/ OpenSync(r)
    <3>1. UNCHANGED <<commits, head>> /\ (End(r, "failed") \/ End(r, "succeeded"))
      BY <2>4 DEF OpenFastForward, OpenSync, CreatePullRequest
    <3>2. ServerGrows /\ SourceMoves
      BY <2>4, <3>1, OpenOK, SourceStays
    <3>3. PrsMove
      <4>1. ASSUME NEW p \in prs' \ prs
            PROVE  /\ p.source = sourceSha[r]
                   /\ \/ pc[r] = "openFastForward" /\ p.branch = FastForwardBranch(r)
                      \/ pc[r] = "openSync" /\ p.branch = SyncBranch(r)
        BY <2>4, <4>1 DEF OpenFastForward, OpenSync, CreatePullRequest
      <4>2. QED
        BY <3>1, <4>1 DEF PrsMove
    <3>4. QED
      BY <3>1, <3>2, <3>3, EndReads
  <2>5. QED
    BY <1>6, <2>1, <2>2, <2>3, <2>4 DEF Step
<1>7. CASE Environment
  <2>1. UNCHANGED <<pc, clone>> /\ prs' \subseteq prs
    BY <1>7 DEF Environment, CreateSource, EditSource, ReleaseBuild, PushToSource,
       MergeInternalUpdate, CompletePullRequest, Merge, local, clone
  <2>2. ServerGrows
    BY <1>7, EnvironmentOK
  <2>3. CASE \E tree \in Tree : PushToSource(tree)
    <3>1. PICK tree \in Tree : PushToSource(tree)
      BY <2>3
    <3> DEFINE parents == IF Exists(Source) THEN {head[Source]} ELSE {}
    <3>2. /\ AddCommit(parents, tree) /\ head' = [head EXCEPT ![Source] = NewCommit]
          /\ commits \in Seq(Commit) /\ parents \in SUBSET CommitIds
      BY <3>1, BranchFacts DEF PushToSource, TypeInv, TypeOK, Exists
    <3>3. commits'[NewCommit].ancestors = {NewCommit} \cup UNION {Ancestors(p) : p \in parents}
      BY <3>2, AppendCommit
    <3>4. head'[Source] = NewCommit /\ \A b \in Branches : b[1] = "ff" => head'[b] = head[b]
      BY <3>2, BranchFacts, BranchKinds DEF TypeInv, TypeOK
    <3>5. SourceMoves
      BY <3>3, <3>4 DEF SourceMoves, Ancestors
    <3>6. QED
      BY <1>2, <2>1, <2>2, <3>5 DEF PrsMove
  <2>4. CASE ~ \E tree \in Tree : PushToSource(tree)
    <3>1. \E i : head' = [head EXCEPT ![Target] = i]
      BY <1>7, <2>4, EnvironmentCases DEF MergeInternalUpdate, CompletePullRequest, Merge
    <3>2. head'[Source] = head[Source] /\ \A b \in Branches : b[1] = "ff" => head'[b] = head[b]
      BY <3>1, BranchFacts, BranchKinds DEF TypeInv, TypeOK
    <3>3. QED
      BY <1>2, <2>1, <2>2, <3>2, SourceStays DEF PrsMove
  <2>5. QED
    BY <2>3, <2>4
<1>8. QED
  BY <1>3, <1>4, <1>5, <1>6, <1>7 DEF Next

LEMMA InitSourceInv == Init => SourceInv
<1> SUFFICES ASSUME Init PROVE ReadFromSource /\ FastForwardsAreRelease
  BY InitTypeInv DEF SourceInv
<1>1. \A r \in Runs : pc[r] \notin Steps
  BY DEF Init, Steps
<1>2. \A b \in Branches : b[1] = "ff" => ~ Exists(b)
  BY BranchKinds, BranchFacts DEF Init, Exists
<1>3. prs = {}
  BY DEF Init
<1>4. QED
  BY <1>1, <1>2, <1>3 DEF ReadFromSource, FastForwardsAreRelease, Steps, SourceFound,
     TargetFound, SourceRead, OriginFetched

\* Every step keeps SourceInv, whether or not runs wait for each other.
THEOREM SourceInvInductive == SourceInv /\ [Next]_vars => SourceInv'
<1> SUFFICES ASSUME SourceInv, [Next]_vars
             PROVE  SourceInv'
  OBVIOUS
<1>1. TypeInv /\ TypeInv'
  BY TypeInvInductive DEF SourceInv
<1>2. ServerGrows /\ SourceMoves /\ PrsMove /\ \A s \in Runs : RunReads(s)
  BY <1>1, NextReads
<1>3. ASSUME NEW i \in CommitIds
      PROVE  commits'[i].ancestors = commits[i].ancestors /\ i \in Ancestors(i)
  BY <1>1, <1>2 DEF ServerGrows, TypeInv, CommitsOK, Ancestors
<1>4. \A b \in Branches : Exists(b) => head[b] \in CommitIds
  BY <1>1 DEF TypeInv, TypeOK, Exists
<1>5. ASSUME NEW i, Released(i)
      PROVE  head'[Source] # NoCommit /\ i \in commits'[head'[Source]].ancestors
  BY <1>2, <1>5, BranchFacts DEF Released, ServerGrows, SourceMoves, Exists, Ancestors
<1>6. ReadFromSource'
  <2>1. ASSUME NEW r \in Runs, pc'[r] \in SourceRead
        PROVE  Released(sourceSha[r])'
    <3>1. CASE pc[r] \in SourceRead /\ sourceSha'[r] = sourceSha[r]
      BY <1>5, <3>1 DEF SourceInv, ReadFromSource, Released, Exists, Ancestors
    <3>2. CASE UNCHANGED server /\ pc'[r] = "compare" /\ sourceSha'[r] = head[Source]
      <4>1. Exists(Source)'
        BY <1>1, <2>1 DEF TypeInv, RunsOK, RunOK, SourceRead, TargetFound
      <4>2. head[Source] \in CommitIds
        BY <1>4, <3>2, <4>1, BranchFacts DEF server, Exists
      <4>3. QED
        BY <1>3, <3>2, <4>1, <4>2 DEF Released, server, Exists, Ancestors
    <3>3. pc[r] = "fetch" => pc[r] \in SourceRead
      BY DEF Steps, SourceFound, TargetFound, SourceRead
    <3>4. QED
      BY <1>2, <2>1, <3>1, <3>2, <3>3 DEF RunReads
  <2>2. ASSUME NEW r \in Runs, pc'[r] \in OriginFetched
        PROVE  (sourceSha[r] \in Ancestors(originSource[r]))'
    <3>1. pc'[r] \in SourceRead /\ pc'[r] # "compare"
      BY <2>2 DEF OriginFetched
    <3>2. CASE pc[r] \in OriginFetched /\ sourceSha'[r] = sourceSha[r] /\ originSource'[r] = originSource[r]
      <4>1. originSource[r] \in CommitIds
        BY <1>1, <3>2 DEF TypeInv, RunsOK, RunOK
      <4>2. QED
        BY <1>3, <3>2, <4>1 DEF SourceInv, ReadFromSource, Ancestors
    <3>3. CASE pc[r] = "fetch" /\ sourceSha'[r] = sourceSha[r] /\ originSource'[r] = head[Source]
      <4>1. Released(sourceSha[r])
        BY <3>3 DEF SourceInv, ReadFromSource, Steps, SourceFound, TargetFound, SourceRead
      <4>2. QED
        BY <1>3, <1>4, <3>3, <4>1, BranchFacts DEF Released, Ancestors
    <3>4. QED
      BY <1>2, <2>2, <3>1, <3>2, <3>3 DEF RunReads
  <2>3. QED
    BY <2>1, <2>2 DEF ReadFromSource
<1>7. FastForwardsAreRelease'
  <2>1. ASSUME NEW b \in Branches, b[1] = "ff", Exists(b)'
        PROVE  Released(head[b])'
    <3>1. CASE head'[b] = head[b]
      BY <1>5, <2>1, <3>1 DEF SourceInv, FastForwardsAreRelease, Released, Exists, Ancestors
    <3>2. CASE head'[b] # head[b]
      <4>1. Exists(Source) /\ head'[b] = head[Source]
        BY <1>2, <2>1, <3>2 DEF SourceMoves
      <4>2. Released(head[Source])
        BY <1>3, <1>4, <4>1, BranchFacts DEF Released
      <4>3. QED
        BY <1>5, <4>1, <4>2 DEF Released, Exists, Ancestors
    <3>3. QED
      BY <3>1, <3>2
  \* What a commit of a fast-forward branch has behind it stays behind the branch.
  <2>2. ASSUME NEW b \in Branches, b[1] = "ff", Exists(b), NEW i, Released(i),
               i \in Ancestors(head[b])
        PROVE  i \in commits'[head'[b]].ancestors
    <3>1. CASE head'[b] = head[b]
      BY <1>3, <1>4, <2>2, <3>1 DEF Ancestors
    <3>2. CASE head'[b] # head[b]
      BY <1>2, <2>2, <3>2 DEF SourceMoves, Released, Ancestors
    <3>3. QED
      BY <3>1, <3>2
  <2>3. ASSUME NEW r \in Runs, pc'[r] = "openFastForward"
        PROVE  (sourceSha[r] \in Ancestors(head[FastForwardBranch(r)]))'
    <3> DEFINE branch == FastForwardBranch(r)
    <3>1. branch \in Branches /\ branch[1] = "ff"
      BY BranchFacts, BranchKinds
    <3>2. /\ pc[r] \in SourceRead /\ sourceSha'[r] = sourceSha[r]
          /\ pc[r] # "openFastForward" =>
               UNCHANGED commits /\ head'[Source] = head[Source] /\ head'[branch] = head[Source]
      BY <1>2, <2>3 DEF RunReads, Steps, SourceFound, TargetFound, SourceRead
    <3>3. Released(sourceSha[r])
      BY <3>2 DEF SourceInv, ReadFromSource
    <3>4. CASE pc[r] = "openFastForward"
      <4>1. Exists(branch) /\ sourceSha[r] \in Ancestors(head[branch])
        BY <1>1, <3>4 DEF TypeInv, RunsOK, RunOK, SourceInv, FastForwardsAreRelease
      <4>2. QED
        BY <2>2, <3>1, <3>2, <3>3, <4>1 DEF Ancestors
    <3>5. CASE pc[r] # "openFastForward"
      BY <3>2, <3>3, <3>5 DEF Released, Ancestors
    <3>6. QED
      BY <3>4, <3>5
  <2>4. ASSUME NEW p \in prs'
        PROVE  /\ head'[Source] # NoCommit /\ p.source \in commits'[head'[Source]].ancestors
               /\ p.branch[1] = "ff" => p.source \in commits'[head'[p.branch]].ancestors
    <3>1. CASE p \in prs
      <4>1. Released(p.source) /\ (p.branch[1] = "ff" => p.source \in Ancestors(head[p.branch]))
        BY <3>1 DEF SourceInv, FastForwardsAreRelease
      <4>2. Exists(p.branch) /\ p.branch \in Branches
        BY <1>1, <3>1 DEF TypeInv, TypeOK, PrsOK, PullRequest
      <4>3. QED
        BY <1>5, <2>2, <4>1, <4>2
    <3>2. CASE p \notin prs
      <4>1. UNCHANGED <<commits, head>>
        BY <1>2, <3>2 DEF PrsMove
      <4>2. PICK r \in Runs :
              /\ p.source = sourceSha[r]
              /\ \/ pc[r] = "openFastForward" /\ p.branch = FastForwardBranch(r)
                 \/ pc[r] = "openSync" /\ p.branch = SyncBranch(r)
        BY <1>2, <3>2 DEF PrsMove
      <4>3. Released(p.source)
        BY <4>2 DEF SourceInv, ReadFromSource, Steps, SourceFound, TargetFound, SourceRead
      <4>4. p.branch[1] = "ff" => p.source \in Ancestors(head[p.branch])
        BY <4>2, BranchKinds DEF SourceInv, FastForwardsAreRelease
      <4>5. QED
        BY <4>1, <4>3, <4>4 DEF Released, Exists, Ancestors
    <3>3. QED
      BY <3>1, <3>2
  <2>5. QED
    BY <2>1, <2>3, <2>4 DEF FastForwardsAreRelease, Released, Exists, Ancestors
<1>8. QED
  BY <1>1, <1>6, <1>7 DEF SourceInv

\* The commit whose content a run restores is in its clone, although its SHA is
\* read from the server after the clone was made and before it is refreshed.
THEOREM RestoredIsFetched == Spec => []RestoredCommitIsFetched
<1>1. SourceInv => RestoredCommitIsFetched
  BY DEF SourceInv, ReadFromSource, RestoredCommitIsFetched, Steps, SourceFound, TargetFound,
     SourceRead, OriginFetched
<1>2. QED
  BY <1>1, InitSourceInv, SourceInvInductive, PTL DEF Spec

\* A fast-forward pull request carries nothing that is not on the release branch
\* and all that its run compared, however many runs share its branch.
THEOREM FastForwardIsRelease == Spec => []FastForwardPrIsRelease
<1>1. SourceInv => FastForwardPrIsRelease
  BY DEF SourceInv, FastForwardsAreRelease, Released, FastForwardPrIsRelease, TypeInv, TypeOK,
     PrsOK, PullRequest
<1>2. QED
  BY <1>1, InitSourceInv, SourceInvInductive, PTL DEF Spec

-----------------------------------------------------------------------------
(* What re-applying builds one by one computes.                            *)

\* Before the first build is re-applied the content is the release branch's.
LEMMA InSyncNone ==
  ASSUME NEW source \in Tree
  PROVE  InSyncWith(source, Nothing) = source
<1> DEFINE result == InSyncWith(source, Nothing)
<1>1. \A v \in Versions : Nothing[v] = NoContainer /\ Nothing[v] \notin SdkOnly
  BY ContentAssumption DEF Nothing, NoContainer
<1>2. /\ result.edits = source.edits
      /\ result.runtime = [v \in Versions |-> source.runtime[v]]
      /\ result.sdk = [v \in Versions |-> source.sdk[v]]
      /\ result.dotnetUrl = [v \in Versions |-> source.dotnetUrl[v]]
      /\ result.sdkUrl = [v \in Versions |-> source.sdkUrl[v]]
      /\ result.recorded = [v \in Versions |-> source.recorded[v]]
  BY <1>1 DEF InSyncWith
<1>3. /\ result.runtime = source.runtime /\ result.sdk = source.sdk
      /\ result.dotnetUrl = source.dotnetUrl /\ result.sdkUrl = source.sdkUrl
      /\ result.recorded = source.recorded
  BY <1>2 DEF Tree
<1>4. IsTree(source)
  BY DEF IsTree, Fields, Tree
<1>5. IsTree(result)
  BY DEF IsTree, Fields, InSyncWith
<1> HIDE DEF result
<1>6. QED
  BY <1>2, <1>3, <1>4, <1>5 DEF IsTree, result

\* One more build: whatever the order, each version ends up with its own build.
LEMMA InSyncStep ==
  ASSUME NEW source \in Tree, NEW done \in [Versions -> Recorded], NEW c \in Containers,
         done[VersionOf[c]] = NoContainer
  PROVE  ApplyInternalBuild(InSyncWith(source, done), c)
           = InSyncWith(source, [done EXCEPT ![VersionOf[c]] = c])
<1> DEFINE v    == VersionOf[c]
           old  == InSyncWith(source, done)
           new  == InSyncWith(source, [done EXCEPT ![v] = c])
           next == ApplyInternalBuild(old, c)
           runtime == IF c \in SdkOnly THEN [old.runtime EXCEPT ![v] = @]
                      ELSE [old.runtime EXCEPT ![v] = Internal(c)]
           dotnetUrl == IF c \in SdkOnly THEN old.dotnetUrl ELSE [old.dotnetUrl EXCEPT ![v] = c]
           sdkUrl == IF c \in SdkOnly THEN [old.sdkUrl EXCEPT ![v] = c] ELSE old.sdkUrl
<1>1. /\ c # NoContainer /\ v \in Versions
      /\ done[v] = NoContainer /\ NoContainer \notin SdkOnly
  BY ContentAssumption DEF NoContainer
<1>2. IsTree(old) /\ IsTree(new)
  BY DEF IsTree, Fields, InSyncWith
<1>3. next = Fields(old.edits, runtime, [old.sdk EXCEPT ![v] = Internal(c)], dotnetUrl, sdkUrl,
                    [old.recorded EXCEPT ![v] = c])
  <2> HIDE DEF old
  <2>1. QED
    BY <1>2, ApplyFields
<1>4. old.edits = new.edits
  BY DEF InSyncWith
<1>5. runtime = new.runtime
  BY <1>1 DEF InSyncWith
<1>6. [old.sdk EXCEPT ![v] = Internal(c)] = new.sdk
  BY <1>1 DEF InSyncWith
<1>7. dotnetUrl = new.dotnetUrl
  BY <1>1 DEF InSyncWith
<1>8. sdkUrl = new.sdkUrl
  BY <1>1 DEF InSyncWith
<1>9. [old.recorded EXCEPT ![v] = c] = new.recorded
  BY <1>1 DEF InSyncWith
<1> HIDE DEF old, new, next, runtime, dotnetUrl, sdkUrl
<1>10. QED
  BY <1>2, <1>3, <1>4, <1>5, <1>6, <1>7, <1>8, <1>9 DEF IsTree, old, new, next

\* A content in sync records builds under their own versions.
LEMMA InSyncOwnVersion ==
  ASSUME NEW source \in Tree, NEW recorded \in [Versions -> Recorded],
         OwnVersion(source.recorded), OwnVersion(recorded)
  PROVE  OwnVersion(InSyncWith(source, recorded).recorded)
  BY DEF InSyncWith, OwnVersion

-----------------------------------------------------------------------------
(* A step either pushes a run's commits, or leaves the sync branches alone. *)

Pushes(r) ==
  /\ pc[r] = "apply" /\ AllReapplied(r) /\ PushAccepted(r, SyncBranch(r))
  /\ AddCommit({originTarget[r]}, workTree[r])
  /\ head' = [head EXCEPT ![SyncBranch(r)] = NewCommit]
  /\ pc' = [pc EXCEPT ![r] = "openSync"]
  /\ UNCHANGED <<prs, clone>>

SameClone(r) ==
  /\ sourceSha'[r] = sourceSha[r] /\ originTarget'[r] = originTarget[r]
  /\ internalBuilds'[r] = internalBuilds[r] /\ workTree'[r] = workTree[r]

\* What any other step may do to a run ...
RunQuiet(r) ==
  /\ \/ originTarget'[r] \in {NoCommit, originTarget[r]}
     \/ originTarget'[r] = head[Target] /\ UNCHANGED server
  /\ pc'[r] = "openSync" => pc[r] = "openSync" /\ SameClone(r)
  /\ pc'[r] = "apply" =>
       \/ pc[r] = "apply" /\ SameClone(r)
       \/ /\ pc[r] = "reset"
          /\ sourceSha'[r] = sourceSha[r] /\ originTarget'[r] = originTarget[r]
          /\ internalBuilds'[r] = TreeOf(originTarget[r]).recorded
          /\ workTree'[r] = TreeOf(sourceSha[r])
       \/ /\ pc[r] = "apply"
          /\ sourceSha'[r] = sourceSha[r] /\ originTarget'[r] = originTarget[r]
          /\ \E v \in Versions :
               /\ internalBuilds[r][v] # NoContainer
               /\ workTree'[r] = ApplyInternalBuild(workTree[r], internalBuilds[r][v])
               /\ internalBuilds'[r] = [internalBuilds[r] EXCEPT ![v] = NoContainer]

\* ... to the branches: a branch that moves gets its old commits from branches
\* that are not sync branches, or from a pull request that the step completes ...
Flows(i) ==
  \E a \in Branches :
    /\ Exists(a) /\ i \in Ancestors(head[a])
    /\ a[1] = "sync" =>
         \E p \in prs : p.branch = a /\ prs' = prs \ {p} /\ UNCHANGED pc

BranchesQuiet ==
  \A b \in Branches :
    head'[b] # head[b] =>
      /\ b[1] # "sync"
      /\ \A i \in CommitIds : i \in commits'[head'[b]].ancestors => Flows(i)

\* ... and to the pull requests.
Opens(r, p) ==
  /\ UNCHANGED <<commits, head>>
  /\ prs' = prs \cup {p} /\ \A q \in prs : q.branch # p.branch
  /\ p.source = sourceSha[r] /\ p.target = originTarget[r]
  /\ \/ p.branch = FastForwardBranch(r)
     \/ p.branch = SyncBranch(r) /\ pc[r] = "openSync" /\ pc'[r] # "openSync"

PrsQuiet == prs' \subseteq prs \/ \E r \in Runs, p \in PullRequest : Opens(r, p)

Quiet == BranchesQuiet /\ PrsQuiet /\ \A r \in Runs : RunQuiet(r)

LEMMA OthersQuiet ==
  ASSUME NEW r \in Runs, OthersWait(r), RunQuiet(r)
  PROVE  \A s \in Runs : RunQuiet(s)
<1>1. ASSUME NEW s \in Runs, s # r
      PROVE  RunQuiet(s)
  BY <1>1 DEF OthersWait, RunQuiet, SameClone
<1>2. QED
  BY <1>1

LEMMA EndQuiet ==
  ASSUME TypeInv, NEW r \in Runs, NEW result \in Ended, End(r, result)
  PROVE  /\ \A s \in Runs : RunQuiet(s)
         /\ pc'[r] = result
<1>1. OthersWait(r)
  BY DEF TypeInv, TypeOK, OthersWait, End, Goto, DisposeClone
<1>2. pc'[r] = result /\ originTarget'[r] = NoCommit
  BY DEF TypeInv, TypeOK, End, Goto, DisposeClone
<1>3. RunQuiet(r)
  BY <1>2 DEF RunQuiet, Ended
<1>4. QED
  BY <1>1, <1>2, <1>3, OthersQuiet

LEMMA ServerQuiet ==
  ASSUME UNCHANGED server
  PROVE  BranchesQuiet /\ PrsQuiet
  BY DEF server, BranchesQuiet, PrsQuiet

\* The steps of a run that only read the server.
LEMMA ReadingQuiet ==
  ASSUME TypeInv, UNCHANGED server, NEW r \in Runs,
         \/ FindBranches(r) \/ ReadSource(r) \/ Compare(r) \/ Fetch(r) \/ ResetToSource(r)
         \/ \E v \in Versions : ReapplyBuild(r, v)
  PROVE  \A s \in Runs : RunQuiet(s)
<1>1. CASE \E result \in Ended : End(r, result)
  BY <1>1, EndQuiet
<1>2. CASE ~ \E result \in Ended : End(r, result)
  <2> USE DEF Ended
  <2>1. OthersWait(r)
    BY <1>2 DEF TypeInv, TypeOK, OthersWait, FindBranches, ReadSource, Compare, Fetch,
       ResetToSource, ReapplyBuild, Goto, clone
  <2>2. RunQuiet(r)
    <3>1. CASE FindBranches(r)
      BY <1>2, <3>1 DEF RunQuiet, FindBranches, Goto, TypeInv, TypeOK, clone
    <3>2. CASE ReadSource(r)
      BY <1>2, <3>2 DEF RunQuiet, ReadSource, Goto, TypeInv, TypeOK
    <3>3. CASE Compare(r)
      BY <1>2, <3>3 DEF RunQuiet, Compare, Goto, TypeInv, TypeOK, clone
    <3>4. CASE Fetch(r)
      <4>1. PICK step \in {"createFastForward", "reset"} :
              /\ pc' = [pc EXCEPT ![r] = step]
              /\ originTarget' = [originTarget EXCEPT ![r] = head[Target]]
        BY <1>2, <3>4 DEF Fetch, Fetched, Goto
      <4>2. QED
        BY <4>1 DEF RunQuiet, TypeInv, TypeOK
    <3>5. CASE ResetToSource(r)
      <4>1. /\ pc[r] = "reset" /\ pc' = [pc EXCEPT ![r] = "apply"]
            /\ internalBuilds' = [internalBuilds EXCEPT ![r] = TreeOf(originTarget[r]).recorded]
            /\ workTree' = [workTree EXCEPT ![r] = TreeOf(sourceSha[r])]
            /\ UNCHANGED <<sourceSha, originTarget>>
        BY <1>2, <3>5 DEF ResetToSource, Goto, BuildsToReapply, RestoredTree
      <4>2. QED
        BY <4>1 DEF RunQuiet, TypeInv, TypeOK
    <3>6. CASE \E v \in Versions : ReapplyBuild(r, v)
      <4>1. PICK v \in Versions :
              /\ pc[r] = "apply" /\ internalBuilds[r][v] # NoContainer
              /\ workTree' = [workTree EXCEPT ![r] =
                                ApplyInternalBuild(workTree[r], internalBuilds[r][v])]
              /\ internalBuilds' = [internalBuilds EXCEPT ![r][v] = NoContainer]
              /\ UNCHANGED <<pc, sourceSha, originTarget>>
        BY <1>2, <3>6 DEF ReapplyBuild
      <4>2. /\ workTree'[r] = ApplyInternalBuild(workTree[r], internalBuilds[r][v])
            /\ internalBuilds'[r] = [internalBuilds[r] EXCEPT ![v] = NoContainer]
        BY <4>1 DEF TypeInv, TypeOK
      <4>3. QED
        BY <4>1, <4>2 DEF RunQuiet
    <3>7. QED
      BY <3>1, <3>2, <3>3, <3>4, <3>5, <3>6
  <2>3. QED
    BY <2>1, <2>2, OthersQuiet
<1>3. QED
  BY <1>1, <1>2

\* A branch that moves to an existing commit.
LEMMA MoveQuiet ==
  ASSUME TypeInv, UNCHANGED commits, NEW b \in Branches, b[1] # "sync",
         NEW a \in Branches, Exists(a), a[1] # "sync", head' = [head EXCEPT ![b] = head[a]]
  PROVE  BranchesQuiet
<1>1. \A i : i \in commits'[head[a]].ancestors => Flows(i)
  BY DEF Flows, Ancestors
<1>2. \A c \in Branches : head'[c] # head[c] => c = b /\ head'[c] = head[a]
  BY DEF TypeInv, TypeOK
<1>3. QED
  BY <1>1, <1>2 DEF BranchesQuiet

\* The release and the internal branch take commits from themselves, and from a
\* pull request that is completed.
LEMMA EnvironmentQuiet ==
  ASSUME TypeInv, Environment
  PROVE  Quiet
<1>1. UNCHANGED <<pc, clone>> /\ prs' \subseteq prs
  BY DEF Environment, CreateSource, EditSource, ReleaseBuild, PushToSource,
     MergeInternalUpdate, CompletePullRequest, Merge, local, clone
<1>2. PrsQuiet /\ \A r \in Runs : RunQuiet(r)
  BY <1>1 DEF PrsQuiet, RunQuiet, SameClone, clone
<1>3. \A a \in Branches : Exists(a) => head[a] \in CommitIds
  BY DEF TypeInv, TypeOK, Exists
<1>4. ASSUME NEW b \in {Source, Target}, NEW parents \in SUBSET CommitIds, NEW tree \in Tree,
             AddCommit(parents, tree), head' = [head EXCEPT ![b] = NewCommit],
             \A j \in parents : \A i \in Ancestors(j) : Flows(i)
      PROVE  BranchesQuiet
  <2>1. commits'[NewCommit].ancestors = {NewCommit} \cup UNION {Ancestors(j) : j \in parents}
    BY <1>4, AppendCommit DEF TypeInv, TypeOK
  <2>2. NewCommit \notin CommitIds
    BY DEF TypeInv, TypeOK, NewCommit, CommitIds
  <2>3. \A c \in Branches : head'[c] # head[c] => c = b /\ head'[c] = NewCommit
    BY <1>4, BranchFacts DEF TypeInv, TypeOK
  <2>4. QED
    BY <1>4, <2>1, <2>2, <2>3, BranchKinds DEF BranchesQuiet
<1>5. \A b \in {Source, Target} : Exists(b) => \A i \in Ancestors(head[b]) : Flows(i)
  BY BranchFacts, BranchKinds DEF Flows
<1>6. CASE \E tree \in Tree : PushToSource(tree)
  <2>1. PICK tree \in Tree : PushToSource(tree)
    BY <1>6
  <2> DEFINE parents == IF Exists(Source) THEN {head[Source]} ELSE {}
  <2>2. /\ AddCommit(parents, tree) /\ head' = [head EXCEPT ![Source] = NewCommit]
        /\ parents \in SUBSET CommitIds
    BY <1>3, <2>1, BranchFacts DEF PushToSource
  <2>3. BranchesQuiet
    BY <1>4, <1>5, <2>2
  <2>4. QED
    BY <1>2, <2>3 DEF Quiet
<1>7. CASE \E c \in Containers : MergeInternalUpdate(c)
  <2>1. PICK c \in Containers : MergeInternalUpdate(c)
    BY <1>7
  <2> DEFINE tree == ApplyInternalBuild(TreeOf(head[Target]), c)
  <2>2. /\ AddCommit({head[Target]}, tree) /\ head' = [head EXCEPT ![Target] = NewCommit]
        /\ Exists(Target)
    BY <2>1 DEF MergeInternalUpdate
  <2>3. head[Target] \in CommitIds
    BY <1>3, <2>2, BranchFacts
  <2>4. commits[head[Target]] \in Commit
    BY <2>3 DEF TypeInv, TypeOK, CommitIds
  <2>5. tree \in Tree
    BY <2>4, ApplyType DEF TreeOf, Commit
  <2> HIDE DEF tree
  <2>6. BranchesQuiet
    BY <1>4, <1>5, <2>2, <2>3, <2>5
  <2>7. QED
    BY <1>2, <2>6 DEF Quiet
<1>8. CASE \E p \in prs, style \in MergeStyles : CompletePullRequest(p, style)
  <2>1. PICK p \in prs, style \in MergeStyles : CompletePullRequest(p, style)
    BY <1>8
  <2> DEFINE ours   == head[Target]
             theirs == head[p.branch]
             merged == MergeTrees(TreeOf(MergeBase(ours, theirs)), TreeOf(ours), TreeOf(theirs))
  <2>2. /\ Exists(Target) /\ ours \in CommitIds
        /\ p.branch \in Branches /\ Exists(p.branch) /\ theirs \in CommitIds
    BY <1>3, BranchFacts DEF TypeInv, TypeOK, PrsOK, PullRequest
  <2>3. prs' = prs \ {p} /\ UNCHANGED pc
    BY <2>1 DEF CompletePullRequest, Merge, local
  <2>4. \A i \in Ancestors(theirs) : Flows(i)
    BY <2>2, <2>3 DEF Flows
  <2>5. CASE style = "fastForward"
    <3>1. head' = [head EXCEPT ![Target] = theirs] /\ commits' = commits
      BY <2>1, <2>5 DEF CompletePullRequest, Merge
    <3>2. \A c \in Branches : head'[c] # head[c] => c = Target /\ head'[c] = theirs
      BY <3>1, BranchFacts DEF TypeInv, TypeOK
    <3>3. QED
      BY <1>2, <2>4, <3>1, <3>2, BranchKinds DEF Quiet, BranchesQuiet, Ancestors
  <2>6. CASE style # "fastForward"
    <3>1. PICK parents \in {{ours, theirs}, {ours}} :
            AddCommit(parents, merged) /\ head' = [head EXCEPT ![Target] = NewCommit]
      BY <2>1, <2>6 DEF CompletePullRequest, Merge
    <3>2. commits[ours] \in Commit /\ commits[theirs] \in Commit
      BY <2>2 DEF TypeInv, TypeOK, CommitIds
    <3>3. merged \in Tree
      BY <3>2, MergeType DEF TreeOf, Commit
    <3> HIDE DEF merged
    <3>4. \A j \in parents : \A i \in Ancestors(j) : Flows(i)
      BY <1>5, <2>2, <2>4
    <3>5. parents \in SUBSET CommitIds
      BY <2>2
    <3>6. BranchesQuiet
      BY <1>4, <3>1, <3>3, <3>4, <3>5
    <3>7. QED
      BY <1>2, <3>6 DEF Quiet
  <2>7. QED
    BY <2>5, <2>6
<1>9. QED
  BY <1>6, <1>7, <1>8, EnvironmentCases

\* A run opens its pull request and ends.
LEMMA OpenQuiet ==
  ASSUME TypeInv, NEW r \in Runs, OpenFastForward(r) \/ OpenSync(r)
  PROVE  Quiet
<1>1. PICK branch :
        /\ CreatePullRequest(r, branch) /\ UNCHANGED <<commits, head>>
        /\ \/ branch = FastForwardBranch(r)
           \/ branch = SyncBranch(r) /\ pc[r] = "openSync"
  BY DEF OpenFastForward, OpenSync
<1>2. End(r, "failed") \/ End(r, "succeeded")
  BY <1>1 DEF CreatePullRequest
<1>3. pc'[r] \in Ended /\ \A s \in Runs : RunQuiet(s)
  BY <1>2, EndQuiet DEF Ended
<1> DEFINE new == [branch |-> branch, source |-> sourceSha[r], target |-> originTarget[r]]
<1>4. new \in PullRequest
  BY <1>1, BranchFacts DEF PullRequest, TypeInv, RunsOK, RunOK, OpenFastForward, OpenSync, Steps,
     SourceFound, TargetFound, SourceRead, OriginFetched
<1>5. prs' = prs \/ (prs' = prs \cup {new} /\ \A q \in prs : q.branch # branch)
  BY <1>1 DEF CreatePullRequest
<1>6. new.branch = branch /\ new.source = sourceSha[r] /\ new.target = originTarget[r]
  OBVIOUS
<1>7. PrsQuiet
  <2>1. CASE prs' = prs
    BY <2>1 DEF PrsQuiet
  <2>2. CASE prs' = prs \cup {new} /\ \A q \in prs : q.branch # branch
    <3> HIDE DEF new
    <3>1. Opens(r, new)
      BY <1>1, <1>3, <1>6, <2>2 DEF Opens, Ended
    <3>2. QED
      BY <1>4, <3>1 DEF PrsQuiet
  <2>3. QED
    BY <1>5, <2>1, <2>2
<1>8. BranchesQuiet
  BY <1>1 DEF BranchesQuiet
<1>9. QED
  BY <1>3, <1>7, <1>8 DEF Quiet

LEMMA NextQuiet ==
  ASSUME TypeInv, [Next]_vars
  PROVE  Quiet \/ \E r \in Runs : Pushes(r)
<1> USE DEF Ended
<1>1. CASE UNCHANGED vars
  <2>1. UNCHANGED server /\ \A r \in Runs : RunQuiet(r)
    BY <1>1 DEF vars, server, RunQuiet, SameClone
  <2>2. QED
    BY <2>1, ServerQuiet DEF Quiet
<1>2. ASSUME NEW r \in Runs, StartTriggered(r) \/ StartByHand(r)
      PROVE  Quiet
  <2>1. UNCHANGED server /\ Clone(r)
    BY <1>2 DEF StartTriggered, StartByHand
  <2>2. OthersWait(r)
    BY <2>1 DEF Clone, TypeInv, TypeOK, OthersWait, Goto, clone
  <2>3. pc'[r] \in {"failed", "findBranches"} /\ originTarget'[r] \in {originTarget[r], head[Target]}
    BY <2>1 DEF Clone, TypeInv, TypeOK, Goto, clone
  <2>4. RunQuiet(r)
    BY <2>1, <2>3 DEF RunQuiet
  <2>5. QED
    BY <2>1, <2>2, <2>4, OthersQuiet, ServerQuiet DEF Quiet
<1>3. ASSUME NEW r \in Runs, Fail(r)
      PROVE  Quiet
  BY <1>3, EndQuiet, ServerQuiet DEF Fail, Quiet
<1>4. ASSUME NEW r \in Runs, Step(r)
      PROVE  Quiet \/ Pushes(r)
  <2>1. ASSUME NEW result \in Ended, End(r, result), UNCHANGED server
        PROVE  Quiet
    BY <2>1, EndQuiet, ServerQuiet DEF Quiet
  <2>2. CASE \/ FindBranches(r) \/ ReadSource(r) \/ Compare(r) \/ Fetch(r) \/ ResetToSource(r)
             \/ \E v \in Versions : ReapplyBuild(r, v)
    <3>1. UNCHANGED server
      BY <2>2 DEF FindBranches, ReadSource, Compare, Fetch, ResetToSource, ReapplyBuild
    <3>2. QED
      BY <2>2, <3>1, ReadingQuiet, ServerQuiet DEF Quiet
  <2>3. CASE (CreateTarget(r) \/ CreateFastForwardBranch(r)) /\ ~ (End(r, "failed") /\ UNCHANGED server)
    <3>1. UNCHANGED <<commits, prs>> /\ Exists(Source)
      BY <2>3 DEF CreateTarget, CreateFastForwardBranch, TypeInv, RunsOK, RunOK, Steps,
         SourceFound
    <3>2. PICK b \in {Target, FastForwardBranch(r)} : head' = [head EXCEPT ![b] = head[Source]]
      BY <2>3 DEF CreateTarget, CreateFastForwardBranch, CreateRemoteBranch, BaseBranch, server
    <3>3. BranchesQuiet
      BY <3>1, <3>2, BranchFacts, BranchKinds, MoveQuiet
    <3>4. \A s \in Runs : RunQuiet(s)
      <4>1. CASE CreateTarget(r)
        BY <2>3, <4>1, EndQuiet DEF CreateTarget, CreateRemoteBranch
      <4>2. CASE CreateFastForwardBranch(r)
        <5>1. CASE End(r, "failed")
          BY <5>1, EndQuiet
        <5>2. CASE ~ End(r, "failed")
          <6>1. pc' = [pc EXCEPT ![r] = "openFastForward"] /\ UNCHANGED clone
            BY <4>2, <5>2 DEF CreateFastForwardBranch, CreateRemoteBranch, Goto
          <6>2. OthersWait(r) /\ RunQuiet(r)
            BY <6>1 DEF OthersWait, RunQuiet, TypeInv, TypeOK, clone
          <6>3. QED
            BY <6>2, OthersQuiet
        <5>3. QED
          BY <5>1, <5>2
      <4>3. QED
        BY <2>3, <4>1, <4>2
    <3>5. QED
      BY <3>1, <3>3, <3>4 DEF Quiet, PrsQuiet
  <2>4. CASE (CreateTarget(r) \/ CreateFastForwardBranch(r)) /\ (End(r, "failed") /\ UNCHANGED server)
    BY <2>1, <2>4
  <2>5. CASE Push(r)
    <3>1. CASE End(r, "failed") /\ UNCHANGED server
      BY <2>1, <3>1
    <3>2. CASE ~ (End(r, "failed") /\ UNCHANGED server)
      BY <2>5, <3>2 DEF Push, Pushes, Goto
    <3>3. QED
      BY <3>1, <3>2
  <2>6. CASE OpenFastForward(r) \/ OpenSync(r)
    BY <2>6, OpenQuiet
  <2>7. QED
    BY <1>4, <2>2, <2>3, <2>4, <2>5, <2>6 DEF Step
<1>5. CASE Environment
  BY <1>5, EnvironmentQuiet
<1>6. QED
  BY <1>1, <1>2, <1>3, <1>4, <1>5 DEF Next

-----------------------------------------------------------------------------
(* Builds are recorded under their own versions.                           *)

LEMMA CommitRecords ==
  ASSUME TypeInv, RecordedByVersion, NEW parents \in SUBSET CommitIds, NEW tree \in Tree,
         AddCommit(parents, tree), OwnVersion(tree.recorded)
  PROVE  RecordedByVersion'
<1>1. /\ \A i \in CommitIds : commits'[i] = commits[i]
      /\ \A i \in CommitIds' : i \in CommitIds \/ i = NewCommit
      /\ commits'[NewCommit].tree = tree
  BY AppendCommit DEF TypeInv, TypeOK
<1>2. QED
  BY <1>1 DEF RecordedByVersion, TreeOf, OwnVersion

LEMMA ApplyRecords ==
  ASSUME NEW tree \in Tree, NEW c \in Containers, OwnVersion(tree.recorded)
  PROVE  OwnVersion(ApplyInternalBuild(tree, c).recorded)
<1>1. ApplyInternalBuild(tree, c).recorded = [tree.recorded EXCEPT ![VersionOf[c]] = c]
  <2>1. IsTree(tree)
    BY DEF IsTree, Fields, Tree
  <2>2. QED
    BY <2>1, ApplyFields DEF Fields
<1>2. QED
  BY <1>1, ContentAssumption DEF OwnVersion, Tree

LEMMA EnvironmentRecords ==
  ASSUME TypeInv, RecordedByVersion, Environment
  PROVE  RecordedByVersion'
<1>1. \A b \in Branches : Exists(b) => head[b] \in CommitIds
  BY DEF TypeInv, TypeOK, Exists
<1>2. ASSUME NEW i \in CommitIds
      PROVE  TreeOf(i) \in Tree /\ OwnVersion(TreeOf(i).recorded)
  <2>1. commits[i] \in Commit
    BY DEF TypeInv, TypeOK, CommitIds
  <2>2. QED
    BY <2>1 DEF TreeOf, Commit, RecordedByVersion
<1>3. ASSUME NEW tree \in Tree, PushToSource(tree), OwnVersion(tree.recorded)
      PROVE  RecordedByVersion'
  <2> DEFINE parents == IF Exists(Source) THEN {head[Source]} ELSE {}
  <2>1. AddCommit(parents, tree) /\ parents \in SUBSET CommitIds
    BY <1>1, <1>3, BranchFacts DEF PushToSource
  <2>2. QED
    BY <1>3, <2>1, CommitRecords
<1>4. CASE CreateSource
  <2>1. OwnVersion(FirstTree.recorded)
    BY DEF OwnVersion, FirstTree, Nothing
  <2>2. QED
    BY <1>3, <1>4, <2>1, FirstTreeType DEF CreateSource
<1>5. ASSUME NEW e \in Edits, EditSource(e)
      PROVE  RecordedByVersion'
  <2> DEFINE old == TreeOf(head[Source])
             new == [old EXCEPT !.edits = @ \cup {e}]
  <2>1. old \in Tree /\ OwnVersion(old.recorded) /\ PushToSource(new)
    BY <1>1, <1>2, <1>5, BranchFacts DEF EditSource
  <2> HIDE DEF old
  <2>2. new \in Tree /\ new.recorded = old.recorded
    BY <2>1 DEF Tree
  <2>3. QED
    BY <1>3, <2>1, <2>2
<1>6. ASSUME NEW c \in Containers, ReleaseBuild(c)
      PROVE  RecordedByVersion'
  <2> DEFINE old == TreeOf(head[Source])
             new == ApplyPublicBuild(old, c)
  <2>1. old \in Tree /\ OwnVersion(old.recorded) /\ PushToSource(new)
    BY <1>1, <1>2, <1>6, BranchFacts DEF ReleaseBuild
  <2> HIDE DEF old
  <2>2. new \in Tree /\ new.recorded = old.recorded
    BY <2>1, ApplyType DEF Tree, ApplyPublicBuild, SetProductVersions
  <2>3. QED
    BY <1>3, <2>1, <2>2
<1>7. ASSUME NEW c \in Containers, MergeInternalUpdate(c)
      PROVE  RecordedByVersion'
  <2> DEFINE old == TreeOf(head[Target])
             new == ApplyInternalBuild(old, c)
  <2>1. head[Target] \in CommitIds /\ AddCommit({head[Target]}, new)
    BY <1>1, <1>7, BranchFacts DEF MergeInternalUpdate
  <2>2. new \in Tree /\ OwnVersion(new.recorded)
    BY <1>2, <2>1, ApplyType, ApplyRecords
  <2> HIDE DEF new
  <2>3. QED
    BY <2>1, <2>2, CommitRecords
<1>8. ASSUME NEW p \in prs, NEW style \in MergeStyles, CompletePullRequest(p, style)
      PROVE  RecordedByVersion'
  <2> DEFINE ours   == head[Target]
             theirs == head[p.branch]
             merged == MergeTrees(TreeOf(MergeBase(ours, theirs)), TreeOf(ours), TreeOf(theirs))
  <2>1. ours \in CommitIds /\ theirs \in CommitIds
    BY <1>1, BranchFacts DEF TypeInv, TypeOK, PrsOK, PullRequest
  <2>2. merged \in Tree
    BY <1>2, <2>1, MergeType
  <2>3. OwnVersion(merged.recorded)
    BY <1>2, <2>1 DEF OwnVersion, MergeTrees, MergeVersions, Merge3
  <2>4. commits' = commits \/ \E parents \in {{ours, theirs}, {ours}} : AddCommit(parents, merged)
    BY <1>8 DEF CompletePullRequest, Merge
  <2> HIDE DEF merged
  <2>5. CASE commits' = commits
    BY <2>5 DEF RecordedByVersion, CommitIds, TreeOf, OwnVersion
  <2>6. CASE \E parents \in {{ours, theirs}, {ours}} : AddCommit(parents, merged)
    <3>1. PICK parents \in {{ours, theirs}, {ours}} : AddCommit(parents, merged)
      BY <2>6
    <3>2. parents \in SUBSET CommitIds
      BY <2>1
    <3>3. QED
      BY <2>2, <2>3, <3>1, <3>2, CommitRecords
  <2>7. QED
    BY <2>4, <2>5, <2>6
<1>9. QED
  BY <1>4, <1>5, <1>6, <1>7, <1>8 DEF Environment

\* A run that re-applies builds has what it needs to push: the content of the
\* release branch with the recorded builds of the internal branch.
LEMMA ReappliedContent ==
  ASSUME TypeInv, RecordedByVersion, Reapplying, NEW r \in Runs,
         pc[r] = "apply", AllReapplied(r)
  PROVE  /\ workTree[r] = InSyncWith(TreeOf(sourceSha[r]), TreeOf(originTarget[r]).recorded)
         /\ OwnVersion(workTree[r].recorded)
<1> DEFINE source   == TreeOf(sourceSha[r])
           recorded == TreeOf(originTarget[r]).recorded
           done     == [v \in Versions |->
                          IF internalBuilds[r][v] = NoContainer THEN recorded[v] ELSE NoContainer]
<1>1. sourceSha[r] \in CommitIds /\ originTarget[r] \in CommitIds
  BY DEF TypeInv, RunsOK, RunOK, Steps, SourceFound, TargetFound, SourceRead, OriginFetched
<1>2. /\ commits[sourceSha[r]] \in Commit /\ commits[originTarget[r]] \in Commit
      /\ OwnVersion(source.recorded) /\ OwnVersion(recorded)
  BY <1>1 DEF TypeInv, TypeOK, CommitIds, RecordedByVersion
<1>3. source \in Tree /\ recorded \in [Versions -> Recorded]
  BY <1>2 DEF TreeOf, Commit, Tree
<1>4. workTree[r] = InSyncWith(source, done)
  BY DEF Reapplying
<1>5. done = recorded
  BY <1>3 DEF AllReapplied
<1>6. QED
  BY <1>2, <1>3, <1>4, <1>5, InSyncOwnVersion

-----------------------------------------------------------------------------
(* The invariant is inductive.                                             *)

\* What is owned exists and is a sync branch.
LEMMA OwnedFacts ==
  ASSUME TypeInv, NEW b \in Branches, Owned(b)
  PROVE  b[1] = "sync" /\ head[b] \in CommitIds
<1>1. b[1] = "sync" /\ Exists(b)
  BY BranchKinds DEF Owned, ByRun, ByPr, TypeInv, RunsOK, RunOK, PrsOK
<1>2. QED
  BY <1>1 DEF TypeInv, TypeOK, Exists

\* What a run and a pull request refer to is there.
LEMMA References ==
  ASSUME TypeInv
  PROVE  /\ \A r \in Runs : pc[r] \in OriginFetched =>
              sourceSha[r] \in CommitIds /\ originTarget[r] \in CommitIds
         /\ \A p \in prs :
              /\ p.source \in CommitIds /\ p.target \in CommitIds
              /\ p.branch \in Branches /\ head[p.branch] \in CommitIds
<1>1. \A r \in Runs : pc[r] \in OriginFetched =>
              sourceSha[r] \in CommitIds /\ originTarget[r] \in CommitIds
  BY DEF TypeInv, RunsOK, RunOK, OriginFetched
<1>2. ASSUME NEW p \in prs
      PROVE  /\ p.source \in CommitIds /\ p.target \in CommitIds
             /\ p.branch \in Branches /\ Exists(p.branch)
  BY DEF TypeInv, TypeOK, PrsOK, PullRequest
<1>3. QED
  BY <1>1, <1>2 DEF TypeInv, TypeOK, Exists

LEMMA QuietReapplying ==
  ASSUME SyncInv, ServerGrows, Quiet
  PROVE  Reapplying'
<1> SUFFICES ASSUME NEW r \in Runs, pc'[r] = "apply"
             PROVE  LET source   == commits'[sourceSha'[r]].tree
                        recorded == commits'[originTarget'[r]].tree.recorded
                        done     == [v \in Versions |->
                                       IF internalBuilds'[r][v] = NoContainer
                                       THEN recorded[v] ELSE NoContainer]
                    IN /\ workTree'[r] = InSyncWith(source, done)
                       /\ \A v \in Versions :
                            internalBuilds'[r][v] \in {NoContainer, recorded[v]}
  BY DEF Reapplying, TreeOf
<1> DEFINE source   == TreeOf(sourceSha[r])
           recorded == TreeOf(originTarget[r]).recorded
           Done(builds) == [v \in Versions |->
                              IF builds[v] = NoContainer THEN recorded[v] ELSE NoContainer]
<1>1. pc[r] \in {"reset", "apply"} /\ sourceSha'[r] = sourceSha[r] /\ originTarget'[r] = originTarget[r]
  BY DEF Quiet, RunQuiet, SameClone
<1>2. sourceSha[r] \in CommitIds /\ originTarget[r] \in CommitIds
  BY <1>1, References DEF SyncInv, Steps, SourceFound, TargetFound, SourceRead, OriginFetched
<1>3. commits'[sourceSha'[r]].tree = source /\ commits'[originTarget'[r]].tree.recorded = recorded
  BY <1>1, <1>2 DEF ServerGrows, TreeOf
<1>4. source \in Tree /\ recorded \in [Versions -> Recorded] /\ OwnVersion(recorded)
  <2>1. commits[sourceSha[r]] \in Commit /\ commits[originTarget[r]] \in Commit
    BY <1>2 DEF SyncInv, TypeInv, TypeOK, CommitIds
  <2>2. QED
    BY <1>2, <2>1 DEF TreeOf, Commit, Tree, SyncInv, RecordedByVersion
<1>5. SUFFICES /\ workTree'[r] = InSyncWith(source, Done(internalBuilds'[r]))
               /\ \A v \in Versions : internalBuilds'[r][v] \in {NoContainer, recorded[v]}
  BY <1>3
<1>6. CASE pc[r] = "apply" /\ SameClone(r)
  BY <1>6 DEF SameClone, SyncInv, Reapplying
<1>7. CASE internalBuilds'[r] = recorded /\ workTree'[r] = source
  <2>1. Done(recorded) = Nothing
    BY <1>4 DEF Nothing
  <2>2. QED
    BY <1>4, <1>7, <2>1, InSyncNone
<1>8. ASSUME NEW v \in Versions, pc[r] = "apply", internalBuilds[r][v] # NoContainer,
             workTree'[r] = ApplyInternalBuild(workTree[r], internalBuilds[r][v]),
             internalBuilds'[r] = [internalBuilds[r] EXCEPT ![v] = NoContainer]
      PROVE  /\ workTree'[r] = InSyncWith(source, Done(internalBuilds'[r]))
             /\ \A w \in Versions : internalBuilds'[r][w] \in {NoContainer, recorded[w]}
  <2> DEFINE c == internalBuilds[r][v]
  <2>1. /\ workTree[r] = InSyncWith(source, Done(internalBuilds[r]))
        /\ \A w \in Versions : internalBuilds[r][w] \in {NoContainer, recorded[w]}
    BY <1>8 DEF SyncInv, Reapplying
  <2>2. c = recorded[v] /\ c \in Containers /\ VersionOf[c] = v
    BY <1>4, <1>8, <2>1 DEF OwnVersion, Recorded
  <2>3. internalBuilds[r] \in [Versions -> Recorded]
    BY DEF SyncInv, TypeInv, TypeOK
  <2>4. Done(internalBuilds[r]) \in [Versions -> Recorded] /\ Done(internalBuilds[r])[v] = NoContainer
    BY <1>4, <1>8 DEF Recorded
  <2>5. Done(internalBuilds'[r]) = [Done(internalBuilds[r]) EXCEPT ![v] = c]
    BY <1>4, <1>8, <2>2, <2>3
  <2> HIDE DEF c, Done
  <2>6. workTree'[r] = InSyncWith(source, Done(internalBuilds'[r]))
    BY <1>4, <1>8, <2>1, <2>2, <2>4, <2>5, InSyncStep DEF c
  <2>7. \A w \in Versions : internalBuilds'[r][w] \in {NoContainer, recorded[w]}
    BY <1>8, <2>1, <2>3
  <2>8. QED
    BY <2>6, <2>7
<1>9. QED
  BY <1>6, <1>7, <1>8 DEF Quiet, RunQuiet

\* A sync branch that is owned stays where it is, as long as nobody pushes.
LEMMA QuietPrs ==
  ASSUME SyncInv, ServerGrows, Quiet
  PROVE  Pushed' /\ SyncPrIsComplete'
<1>1. \A b \in Branches : b[1] = "sync" => head'[b] = head[b]
  BY DEF Quiet, BranchesQuiet
<1>2. \A i \in CommitIds : commits'[i].tree = TreeOf(i)
  BY DEF ServerGrows, TreeOf
<1>3. ASSUME NEW r \in Runs, pc'[r] = "openSync"
      PROVE  commits'[head'[SyncBranch(r)]].tree
               = InSyncWith(commits'[sourceSha'[r]].tree, commits'[originTarget'[r]].tree.recorded)
  <2>1. pc[r] = "openSync" /\ sourceSha'[r] = sourceSha[r] /\ originTarget'[r] = originTarget[r]
    BY <1>3 DEF Quiet, RunQuiet, SameClone
  <2>2. /\ sourceSha[r] \in CommitIds /\ originTarget[r] \in CommitIds
        /\ SyncBranch(r) \in Branches /\ head[SyncBranch(r)] \in CommitIds
    BY <2>1, References, BranchFacts DEF SyncInv, TypeInv, TypeOK, RunsOK, RunOK, Exists, Steps,
       SourceFound, TargetFound, SourceRead, OriginFetched
  <2>3. head'[SyncBranch(r)] = head[SyncBranch(r)]
    BY <1>1, <2>2, BranchKinds
  <2>4. QED
    BY <1>2, <2>1, <2>2, <2>3 DEF SyncInv, Pushed
<1>4. ASSUME NEW p \in prs', p.branch[1] = "sync"
      PROVE  commits'[head'[p.branch]].tree
               = InSyncWith(commits'[p.source].tree, commits'[p.target].tree.recorded)
  <2>1. CASE p \in prs
    <3>1. TreeOf(head[p.branch]) = InSyncWith(TreeOf(p.source), TreeOf(p.target).recorded)
      BY <1>4, <2>1 DEF SyncInv, SyncPrIsComplete
    <3>2. QED
      BY <1>1, <1>2, <1>4, <2>1, <3>1, References DEF SyncInv
  <2>2. CASE p \notin prs
    <3>1. PICK r \in Runs : Opens(r, p)
      BY <2>2 DEF Quiet, PrsQuiet, Opens
    <3>2. p.branch = SyncBranch(r) /\ pc[r] = "openSync"
      BY <1>4, <3>1, BranchKinds DEF Opens
    <3>3. QED
      BY <3>1, <3>2 DEF Opens, SyncInv, Pushed, TreeOf
  <2>3. QED
    BY <2>1, <2>2
<1>5. QED
  BY <1>3, <1>4 DEF Pushed, SyncPrIsComplete, TreeOf

LEMMA QuietOwner ==
  ASSUME SyncInv, Quiet
  PROVE  OneOwner'
<1>1. \A r \in Runs : pc'[r] = "openSync" => pc[r] = "openSync"
  BY DEF Quiet, RunQuiet
<1>2. CASE prs' \subseteq prs
  BY <1>1, <1>2 DEF SyncInv, OneOwner, ByRun
<1>3. ASSUME NEW r \in Runs, NEW p \in PullRequest, Opens(r, p)
      PROVE  OneOwner'
  <2>1. prs' = prs \cup {p} /\ \A q \in prs : q.branch # p.branch
    BY <1>3 DEF Opens
  <2>2. \A q1, q2 \in prs' : q1.branch = q2.branch => q1 = q2
    BY <2>1 DEF SyncInv, OneOwner
  <2>3. \A s \in Runs : ~ (pc'[s] = "openSync" /\ p.branch = SyncBranch(s))
    BY <1>1, <1>3, BranchKinds DEF Opens, SyncInv, OneOwner, ByRun
  <2>4. QED
    BY <1>1, <2>1, <2>2, <2>3 DEF SyncInv, OneOwner, ByRun
<1>4. QED
  BY <1>2, <1>3 DEF Quiet, PrsQuiet

LEMMA QuietUnmerged ==
  ASSUME SyncInv, ServerGrows, Quiet
  PROVE  OwnedIsUnmerged'
<1> SUFFICES ASSUME NEW b \in Branches, Owned(b)'
             PROVE  /\ \A other \in Branches \ {b} :
                         head'[other] # NoCommit => head'[b] \notin commits'[head'[other]].ancestors
                    /\ \A r \in Runs :
                         originTarget'[r] # NoCommit => head'[b] \notin commits'[originTarget'[r]].ancestors
  BY DEF OwnedIsUnmerged, Exists, Ancestors
<1>1. Owned(b)
  <2>1. CASE \E r \in Runs : ByRun(r, b)'
    BY <2>1 DEF Quiet, RunQuiet, ByRun, Owned
  <2>2. CASE \E p \in prs' : ByPr(p, b)
    <3>1. PICK p \in prs' : ByPr(p, b)
      BY <2>2
    <3>2. CASE p \in prs
      BY <3>1, <3>2 DEF Owned
    <3>3. CASE p \notin prs
      <4>1. PICK r \in Runs : Opens(r, p)
        BY <3>3 DEF Quiet, PrsQuiet, Opens
      <4>2. ByRun(r, b)
        BY <3>1, <4>1, BranchKinds DEF Opens, ByPr, ByRun
      <4>3. QED
        BY <4>2 DEF Owned
    <3>4. QED
      BY <3>2, <3>3
  <2>3. QED
    BY <2>1, <2>2 DEF Owned, ByPr
<1>2. b[1] = "sync" /\ head[b] \in CommitIds /\ head'[b] = head[b]
  BY <1>1, OwnedFacts DEF SyncInv, Quiet, BranchesQuiet
<1>3. \A i \in CommitIds : commits'[i].ancestors = Ancestors(i)
  BY DEF ServerGrows, Ancestors
<1>4. \A other \in Branches \ {b} : Exists(other) => head[b] \notin Ancestors(head[other])
  BY <1>1 DEF SyncInv, OwnedIsUnmerged
\* The pull request that a step completes is its branch's only owner.
<1>5. ~ Flows(head[b])
  <2>1. SUFFICES ASSUME NEW p \in prs, p.branch = b, prs' = prs \ {p}, UNCHANGED pc
                 PROVE  FALSE
    BY <1>2, <1>4 DEF Flows
  <2>2. \A r \in Runs : ~ ByRun(r, b)
    BY <2>1 DEF SyncInv, OneOwner, ByRun
  <2>3. \A q \in prs' : ~ ByPr(q, b)
    BY <2>1 DEF SyncInv, OneOwner, ByPr
  <2>4. QED
    BY <2>1, <2>2, <2>3 DEF Owned, ByRun, ByPr
<1>6. ASSUME NEW other \in Branches \ {b}, head'[other] # NoCommit
      PROVE  head'[b] \notin commits'[head'[other]].ancestors
  <2>1. CASE head'[other] = head[other]
    <3>1. head[other] \in CommitIds
      BY <1>6, <2>1 DEF SyncInv, TypeInv, TypeOK
    <3>2. QED
      BY <1>2, <1>3, <1>4, <1>6, <2>1, <3>1 DEF Exists
  <2>2. CASE head'[other] # head[other]
    BY <1>2, <1>5, <2>2 DEF Quiet, BranchesQuiet
  <2>3. QED
    BY <2>1, <2>2
<1>7. ASSUME NEW r \in Runs, originTarget'[r] # NoCommit
      PROVE  head'[b] \notin commits'[originTarget'[r]].ancestors
  <2>1. CASE originTarget'[r] = originTarget[r]
    <3>1. originTarget[r] \in CommitIds
      BY <1>7, <2>1 DEF SyncInv, TypeInv, TypeOK
    <3>2. QED
      BY <1>1, <1>2, <1>3, <1>7, <2>1, <3>1 DEF SyncInv, OwnedIsUnmerged
  <2>2. CASE originTarget'[r] = head[Target]
    <3>1. head[Target] \in CommitIds /\ Exists(Target)
      BY <1>7, <2>2, BranchFacts DEF SyncInv, TypeInv, TypeOK, Exists
    <3>2. QED
      BY <1>2, <1>3, <1>4, <2>2, <3>1, BranchFacts, BranchKinds
  <2>3. QED
    BY <1>7, <2>1, <2>2 DEF Quiet, RunQuiet
<1>8. QED
  BY <1>6, <1>7

\* A push that the server accepts goes to a branch that nobody owns: the branch
\* is new, or its last commit has been merged into what the run fetched.
LEMMA PushInv ==
  ASSUME SyncInv, ServerGrows, NEW r \in Runs, Pushes(r)
  PROVE  /\ RecordedByVersion' /\ Reapplying' /\ Pushed' /\ OneOwner' /\ OwnedIsUnmerged'
         /\ SyncPrIsComplete'
<1> DEFINE branch == SyncBranch(r)
<1>1. /\ branch \in Branches /\ branch[1] = "sync" /\ branch \notin {Source, Target}
      /\ TypeInv /\ commits \in Seq(Commit) /\ workTree[r] \in Tree
  BY BranchFacts, BranchKinds DEF SyncInv, TypeInv, TypeOK
<1>2. sourceSha[r] \in CommitIds /\ originTarget[r] \in CommitIds
  BY References DEF SyncInv, Pushes, Steps, SourceFound, TargetFound, SourceRead, OriginFetched
<1>3. /\ AddCommit({originTarget[r]}, workTree[r]) /\ {originTarget[r]} \in SUBSET CommitIds
      /\ UNCHANGED <<prs, sourceSha, originTarget, internalBuilds, workTree>>
  BY <1>2 DEF Pushes, clone
<1>4. /\ commits'[NewCommit].tree = workTree[r]
      /\ commits'[NewCommit].ancestors = {NewCommit} \cup Ancestors(originTarget[r])
  <2>1. /\ commits'[NewCommit].tree = workTree[r]
        /\ commits'[NewCommit].ancestors
             = {NewCommit} \cup UNION {Ancestors(p) : p \in {originTarget[r]}}
    BY <1>1, <1>3, AppendCommit
  <2>2. UNION {Ancestors(p) : p \in {originTarget[r]}} = Ancestors(originTarget[r])
    OBVIOUS
  <2>3. QED
    BY <2>1, <2>2
<1>5. NewCommit \notin CommitIds /\ NewCommit # NoCommit
  BY <1>1 DEF NewCommit, CommitIds, NoCommit
<1>6. \A i \in CommitIds : commits'[i] = commits[i] /\ NewCommit \notin Ancestors(i)
  <2>1. Len(commits) \in Nat
    BY <1>1
  <2>2. \A i \in CommitIds : NewCommit \notin 1 .. i
    BY <2>1 DEF NewCommit, CommitIds
  <2>3. QED
    BY <2>2 DEF SyncInv, TypeInv, CommitsOK, ServerGrows
<1>7. /\ head'[branch] = NewCommit
      /\ \A b \in Branches \ {branch} : head'[b] = head[b]
      /\ pc[r] = "apply" /\ pc'[r] = "openSync" /\ \A s \in Runs \ {r} : pc'[s] = pc[s]
  BY <1>1 DEF Pushes, TypeInv, TypeOK
<1>8. /\ workTree[r] = InSyncWith(TreeOf(sourceSha[r]), TreeOf(originTarget[r]).recorded)
      /\ OwnVersion(workTree[r].recorded)
  BY ReappliedContent DEF SyncInv, Pushes
<1>9. ~ Owned(branch)
  <2>1. Exists(branch) => head[branch] \in Ancestors(originTarget[r])
    BY DEF Pushes, PushAccepted, MovesForward
  <2>2. originTarget[r] # NoCommit
    BY <1>2 DEF CommitIds, NoCommit
  <2>3. SUFFICES ASSUME Owned(branch) PROVE FALSE
    OBVIOUS
  <2>4. Exists(branch)
    BY <1>1, <2>3, OwnedFacts DEF CommitIds, Exists, NoCommit
  <2>5. QED
    BY <1>1, <2>1, <2>2, <2>3, <2>4 DEF SyncInv, OwnedIsUnmerged
<1>10. \A s \in Runs : pc[s] = "openSync" => SyncBranch(s) # branch
  BY <1>9 DEF Owned, ByRun
<1>11. \A p \in prs : p.branch # branch
  BY <1>1, <1>9 DEF Owned, ByPr
<1>12. RecordedByVersion'
  BY <1>1, <1>3, <1>8, CommitRecords DEF SyncInv
<1>13. Reapplying'
  <2>1. ASSUME NEW s \in Runs, pc'[s] = "apply"
        PROVE  /\ pc[s] = "apply" /\ commits'[sourceSha'[s]] = commits[sourceSha[s]]
               /\ commits'[originTarget'[s]] = commits[originTarget[s]]
    <3>1. pc[s] = "apply"
      BY <1>7, <2>1
    <3>2. sourceSha[s] \in CommitIds /\ originTarget[s] \in CommitIds
      BY <1>1, <3>1, References DEF Steps, SourceFound, TargetFound, SourceRead, OriginFetched
    <3>3. QED
      BY <1>3, <1>6, <3>1, <3>2
  <2>2. QED
    BY <1>3, <2>1 DEF SyncInv, Reapplying, TreeOf
<1>14. Pushed'
  <2>1. ASSUME NEW s \in Runs, pc'[s] = "openSync"
        PROVE  commits'[head'[SyncBranch(s)]].tree
                 = InSyncWith(commits'[sourceSha'[s]].tree, commits'[originTarget'[s]].tree.recorded)
    <3>1. CASE s = r
      BY <1>2, <1>3, <1>4, <1>6, <1>7, <1>8, <3>1 DEF TreeOf
    <3>2. CASE s # r
      <4>1. pc[s] = "openSync" /\ SyncBranch(s) # branch /\ SyncBranch(s) \in Branches
        BY <1>7, <1>10, <2>1, <3>2, BranchFacts
      <4>2. /\ sourceSha[s] \in CommitIds /\ originTarget[s] \in CommitIds
            /\ head[SyncBranch(s)] \in CommitIds
        BY <1>1, <4>1, References DEF TypeInv, TypeOK, RunsOK, RunOK, Exists, Steps, SourceFound,
           TargetFound, SourceRead, OriginFetched
      <4>3. QED
        BY <1>3, <1>6, <1>7, <4>1, <4>2 DEF SyncInv, Pushed, TreeOf
    <3>3. QED
      BY <3>1, <3>2
  <2>2. QED
    BY <2>1 DEF Pushed, TreeOf
<1>15. OneOwner'
  <2>1. \A s \in Runs : pc'[s] = "openSync" => s = r \/ pc[s] = "openSync"
    BY <1>7
  <2>2. QED
    BY <1>3, <1>10, <1>11, <2>1 DEF SyncInv, OneOwner, ByRun
<1>16. OwnedIsUnmerged'
  <2> SUFFICES ASSUME NEW b \in Branches, Owned(b)'
               PROVE  /\ \A other \in Branches \ {b} :
                           head'[other] # NoCommit => head'[b] \notin commits'[head'[other]].ancestors
                      /\ \A s \in Runs :
                           originTarget[s] # NoCommit => head'[b] \notin commits'[originTarget[s]].ancestors
    BY <1>3 DEF OwnedIsUnmerged, Exists, Ancestors
  <2>1. \A s \in Runs : originTarget[s] # NoCommit => originTarget[s] \in CommitIds
    BY <1>1 DEF TypeInv, TypeOK
  <2>2. \A a \in Branches : head[a] # NoCommit => head[a] \in CommitIds
    BY <1>1 DEF TypeInv, TypeOK
  <2>3. CASE b = branch
    BY <1>6, <1>7, <2>1, <2>2, <2>3 DEF Ancestors
  <2>4. CASE b # branch
    <3>1. Owned(b)
      BY <1>3, <1>7, <2>4 DEF Owned, ByRun, ByPr
    <3>2. head[b] \in CommitIds /\ head'[b] = head[b]
      BY <1>1, <1>7, <2>4, <3>1, OwnedFacts
    <3>3. /\ \A other \in Branches \ {b} : Exists(other) => head[b] \notin Ancestors(head[other])
          /\ \A s \in Runs : originTarget[s] # NoCommit => head[b] \notin Ancestors(originTarget[s])
      BY <3>1 DEF SyncInv, OwnedIsUnmerged
    <3>4. ASSUME NEW other \in Branches \ {b}, head'[other] # NoCommit
          PROVE  head'[b] \notin commits'[head'[other]].ancestors
      <4>1. CASE other = branch
        <5>1. head[b] # NewCommit
          BY <1>5, <3>2
        <5>2. originTarget[r] # NoCommit
          BY <1>2 DEF CommitIds, NoCommit
        <5>3. QED
          BY <1>4, <1>7, <3>2, <3>3, <4>1, <5>1, <5>2
      <4>2. CASE other # branch
        BY <1>6, <1>7, <2>2, <3>2, <3>3, <3>4, <4>2 DEF Exists, Ancestors
      <4>3. QED
        BY <4>1, <4>2
    <3>5. \A s \in Runs : originTarget[s] # NoCommit => head'[b] \notin commits'[originTarget[s]].ancestors
      BY <1>6, <2>1, <3>2, <3>3 DEF Ancestors
    <3>6. QED
      BY <3>4, <3>5
  <2>5. QED
    BY <2>3, <2>4
<1>17. SyncPrIsComplete'
  <2>1. ASSUME NEW p \in prs, p.branch[1] = "sync"
        PROVE  commits'[head'[p.branch]].tree
                 = InSyncWith(commits'[p.source].tree, commits'[p.target].tree.recorded)
    <3>1. /\ p.source \in CommitIds /\ p.target \in CommitIds
          /\ p.branch \in Branches /\ head[p.branch] \in CommitIds
      BY <1>1, References
    <3>2. QED
      BY <1>6, <1>7, <1>11, <2>1, <3>1 DEF SyncInv, SyncPrIsComplete, TreeOf
  <2>2. QED
    BY <1>3, <2>1 DEF SyncPrIsComplete, TreeOf
<1>18. QED
  BY <1>12, <1>13, <1>14, <1>15, <1>16, <1>17

LEMMA InitSyncInv == Init => SyncInv
<1> SUFFICES ASSUME Init
             PROVE  /\ RecordedByVersion /\ Reapplying /\ Pushed /\ OneOwner /\ OwnedIsUnmerged
                    /\ SyncPrIsComplete
  BY InitTypeInv DEF SyncInv
<1>1. (\A r \in Runs : pc[r] = "idle") /\ prs = {}
  BY DEF Init
<1>2. Reapplying /\ Pushed /\ OneOwner /\ SyncPrIsComplete
  BY <1>1 DEF Reapplying, Pushed, OneOwner, ByRun, SyncPrIsComplete
<1>3. OwnedIsUnmerged
  BY <1>1 DEF OwnedIsUnmerged, Owned, ByRun, ByPr
<1>4. RecordedByVersion
  <2>1. commits = <<>> \/ commits = <<[ancestors |-> {1}, tree |-> FirstTree]>>
    BY DEF Init
  <2>2. \A i \in CommitIds : TreeOf(i) = FirstTree
    BY <2>1 DEF CommitIds, TreeOf
  <2>3. \A v \in Versions : FirstTree.recorded[v] = NoContainer
    BY DEF FirstTree, Nothing
  <2>4. QED
    BY <2>2, <2>3 DEF RecordedByVersion, OwnVersion
<1>5. QED
  BY <1>2, <1>3, <1>4

\* Every step keeps SyncInv: the builds a run has re-applied, what it has pushed
\* and the one owner of each sync branch.
THEOREM SyncInvInductive == SyncInv /\ [Next]_vars => SyncInv'
<1> SUFFICES ASSUME SyncInv, [Next]_vars
             PROVE  SyncInv'
  OBVIOUS
<1>1. TypeInv /\ TypeInv'
  BY TypeInvInductive DEF SyncInv
<1>2. ServerGrows
  BY <1>1, NextReads
<1>3. ASSUME NEW r \in Runs, Pushes(r)
      PROVE  SyncInv'
  BY <1>1, <1>2, <1>3, PushInv DEF SyncInv
<1>4. CASE Quiet /\ ~ \E r \in Runs : Pushes(r)
  <2>1. CASE Environment
    BY <1>1, <1>2, <1>4, <2>1, EnvironmentRecords, QuietReapplying, QuietPrs, QuietOwner,
       QuietUnmerged DEF SyncInv
  <2>2. CASE UNCHANGED commits
    <3>1. RecordedByVersion'
      BY <2>2 DEF SyncInv, RecordedByVersion, CommitIds, TreeOf, OwnVersion
    <3>2. QED
      BY <1>1, <1>2, <1>4, <3>1, QuietReapplying, QuietPrs, QuietOwner, QuietUnmerged DEF SyncInv
  <2>3. ASSUME NEW r \in Runs, Push(r)
        PROVE  UNCHANGED commits
    BY <1>4, <2>3 DEF Push, Pushes, Goto, server
  <2>4. ASSUME NEW r \in Runs, Step(r)
        PROVE  UNCHANGED commits
    BY <2>3, <2>4 DEF Step, FindBranches, CreateTarget, ReadSource, Compare, Fetch,
       CreateFastForwardBranch, OpenFastForward, ResetToSource, ReapplyBuild, OpenSync, server
  <2>5. QED
    BY <2>1, <2>2, <2>4 DEF Next, StartTriggered, StartByHand, Fail, vars, server
<1>5. QED
  BY <1>1, <1>3, <1>4, NextQuiet

\* A reviewer never sees an incomplete sync pull request: for any number of runs,
\* serial or side by side, with the same build id or not, failing at any step and
\* run again, and for any order in which pull requests are completed.
THEOREM SyncPrComplete == Spec => []SyncPrIsComplete
<1>1. SyncInv => SyncPrIsComplete
  BY DEF SyncInv
<1>2. QED
  BY <1>1, InitSyncInv, SyncInvInductive, PTL DEF Spec

=============================================================================
