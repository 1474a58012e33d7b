--------------------------- MODULE FromStagingProofs ---------------------------
(***************************************************************************)
(* Proofs about the from-staging-pipeline command, for any number of runs, *)
(* lists of containers, syncs and failures.                                *)
(***************************************************************************)
EXTENDS FromStagingPipeline, GitServerProofs

-----------------------------------------------------------------------------
(* What applying containers one after the other computes.                  *)

\* A set of numbers that has 0, and with a number below n its successor, has all
\* numbers up to n.
LEMMA Induction ==
  ASSUME NEW n \in Nat, NEW S, 0 \in S, \A k \in 0 .. n - 1 : k \in S => k + 1 \in S
  PROVE  0 .. n \subseteq S
<1> DEFINE Missing == (0 .. n) \ S
<1>1. SUFFICES ASSUME Missing # {} PROVE FALSE
  OBVIOUS
<1>2. PICK m \in Missing : \A k \in Missing : m <= k
  <2>1. Missing \in SUBSET Nat
    OBVIOUS
  <2> HIDE DEF Missing
  <2>2. QED
    BY <1>1, <2>1, Least
<1>3. m \in 1 .. n /\ m - 1 \in 0 .. n - 1 /\ m - 1 \notin Missing
  BY <1>2
<1>4. m - 1 \in S
  BY <1>3
<1>5. (m - 1) + 1 \in S /\ (m - 1) + 1 = m
  BY <1>3, <1>4
<1>6. QED
  BY <1>2, <1>5

LEMMA ApplyOneType ==
  ASSUME NEW internal, NEW tree \in Tree, NEW c \in Containers
  PROVE  Apply(internal, tree, c) \in Tree
  BY ApplyType DEF Apply

\* The function that Contents defines exists.
LEMMA ContentsExist ==
  ASSUME NEW internal, NEW tree \in Tree, NEW list \in Seq(Containers)
  PROVE  \E f : f = [n \in 0 .. Len(list) |->
                       IF n = 0 THEN tree ELSE Apply(internal, f[n - 1], list[n])]
<1> DEFINE Next1(t, n) == Apply(internal, t, list[n])
           Good(f, n) == /\ f \in [0 .. n -> Tree]
                         /\ f[0] = tree
                         /\ \A k \in 1 .. n : f[k] = Next1(f[k - 1], k)
           S == {n \in 0 .. Len(list) : \E f : Good(f, n)}
<1>1. Len(list) \in Nat /\ \A n \in 1 .. Len(list) : list[n] \in Containers
  OBVIOUS
<1>2. \A n \in 1 .. Len(list), t \in Tree : Next1(t, n) \in Tree
  BY <1>1, ApplyOneType
<1> HIDE DEF Next1
<1>3. 0 \in S
  <2>1. Good([k \in 0 .. 0 |-> tree], 0) /\ 0 \in 0 .. Len(list)
    BY <1>1
  <2> HIDE DEF Good
  <2>2. QED
    BY <2>1
<1>4. ASSUME NEW n \in 0 .. Len(list) - 1, n \in S
      PROVE  n + 1 \in S
  <2>1. PICK f : Good(f, n)
    BY <1>4
  <2> DEFINE g == [k \in 0 .. n + 1 |-> IF k = n + 1 THEN Next1(f[n], n + 1) ELSE f[k]]
  <2>2. n + 1 \in 1 .. Len(list) /\ n \in 0 .. n /\ 0 # n + 1
    BY <1>1
  <2>3. \A k \in 0 .. n : k \in 0 .. n + 1 /\ k # n + 1
    BY <2>2
  <2>4. g[n + 1] = Next1(f[n], n + 1) /\ \A k \in 0 .. n : g[k] = f[k]
    BY <2>2, <2>3
  <2>5. g \in [0 .. n + 1 -> Tree]
    <3>1. f[n] \in Tree /\ Next1(f[n], n + 1) \in Tree
      BY <1>2, <2>1, <2>2
    <3>2. ASSUME NEW k \in 0 .. n + 1, k # n + 1
          PROVE  f[k] \in Tree
      BY <2>1, <2>2, <3>2
    <3>3. QED
      BY <3>1, <3>2
  <2>6. g[0] = tree
    BY <2>1, <2>2, <2>4
  <2>7. ASSUME NEW k \in 1 .. n + 1
        PROVE  g[k] = Next1(g[k - 1], k)
    <3>1. CASE k = n + 1
      <4>1. k - 1 = n /\ g[n] = f[n]
        BY <2>2, <2>4, <3>1
      <4>2. QED
        BY <2>4, <3>1, <4>1
    <3>2. CASE k \in 1 .. n
      <4>1. k \in 0 .. n /\ k - 1 \in 0 .. n
        BY <2>2, <3>2
      <4>2. QED
        BY <2>1, <2>4, <3>2, <4>1
    <3>3. QED
      BY <2>2, <3>1, <3>2
  <2>8. Good(g, n + 1)
    BY <2>5, <2>6, <2>7
  <2>9. n + 1 \in 0 .. Len(list)
    BY <1>1
  <2> HIDE DEF Good, g
  <2>10. QED
    BY <2>8, <2>9
<1>5. Len(list) \in S
  <2>1. 0 .. Len(list) \subseteq S
    <3> HIDE DEF S
    <3> QED BY <1>1, <1>3, <1>4, Induction
  <2>2. QED
    BY <1>1, <2>1
<1>6. PICK f : Good(f, Len(list))
  BY <1>5
<1>7. f = [n \in 0 .. Len(list) |-> IF n = 0 THEN tree ELSE Next1(f[n - 1], n)]
  <2>1. \A n \in 0 .. Len(list) : n # 0 => n \in 1 .. Len(list)
    BY <1>1
  <2>2. QED
    BY <1>6, <2>1
<1>8. QED
  BY <1>7 DEF Next1

\* Each container is applied to what the ones before it made.
Stepwise(after, internal, tree, list) ==
  /\ after[0] = tree
  /\ \A n \in 1 .. Len(list) : after[n] = Apply(internal, after[n - 1], list[n])
  /\ \A n \in 0 .. Len(list) : after[n] \in Tree

LEMMA ContentsSteps ==
  ASSUME NEW internal, NEW tree \in Tree, NEW list \in Seq(Containers)
  PROVE  Stepwise(Contents(internal, tree, list), internal, tree, list)
<1> DEFINE after == Contents(internal, tree, list)
<1>1. Len(list) \in Nat
  OBVIOUS
<1>2. after = [n \in 0 .. Len(list) |->
                 IF n = 0 THEN tree ELSE Apply(internal, after[n - 1], list[n])]
  BY ContentsExist DEF Contents
<1> HIDE DEF after
<1>3. after[0] = tree
  BY <1>1, <1>2
<1>4. ASSUME NEW n \in 1 .. Len(list)
      PROVE  after[n] = Apply(internal, after[n - 1], list[n])
  <2>1. n \in 0 .. Len(list) /\ n # 0
    BY <1>1
  <2>2. QED
    BY <1>2, <2>1
<1>5. 0 .. Len(list) \subseteq {n \in 0 .. Len(list) : after[n] \in Tree}
  <2> DEFINE S == {n \in 0 .. Len(list) : after[n] \in Tree}
  <2>1. 0 \in S
    BY <1>1, <1>3
  <2>2. ASSUME NEW n \in 0 .. Len(list) - 1, n \in S
        PROVE  n + 1 \in S
    <3>1. n + 1 \in 1 .. Len(list) /\ (n + 1) - 1 = n
      BY <1>1
    <3>2. after[n + 1] = Apply(internal, after[n], list[n + 1]) /\ list[n + 1] \in Containers
      BY <1>4, <3>1
    <3>3. QED
      BY <2>2, <3>1, <3>2, ApplyOneType
  <2> HIDE DEF S
  <2>3. QED
    BY <1>1, <2>1, <2>2, Induction DEF S
<1>6. QED
  BY <1>3, <1>4, <1>5 DEF after, Stepwise

-----------------------------------------------------------------------------
(* Types.                                                                  *)

\* The internal branch only moves forward, so what a run started from, and what
\* its pull request was made from, stays in the branch's history.
InTarget(i) == Exists(Target) /\ i \in Ancestors(head[Target])

RunOK(r) ==
  /\ Active(r) => StageContainers[r] # <<>> /\ InTarget(origin[r])
  /\ pc[r] = "open" => pending[r] = <<>> /\ Exists(PrBranch(r))

RunsOK == \A r \in Runs : RunOK(r)

PrsOK == \A p \in prs : p.branch # Target /\ InTarget(p.origin)

TypeInv == TypeOK /\ CommitsOK /\ HistoriesClosed /\ RunsOK /\ PrsOK

ServerTypeOK ==
  /\ commits \in Seq(Commit)
  /\ head \in [Branches -> {NoCommit} \cup CommitIds]
  /\ prs \subseteq PullRequest
  /\ \A p \in prs : Exists(p.branch)

RunTypeOK ==
  /\ pc \in [Runs -> {"idle", "succeeded", "failed"} \cup Steps]
  /\ origin \in [Runs -> {NoCommit} \cup CommitIds]
  /\ \A r \in Runs : Active(r) => origin[r] # NoCommit
  /\ pending \in [Runs -> Seq(Containers)]
  /\ workTree \in [Runs -> Tree]

LEMMA TypeParts == TypeOK <=> ServerTypeOK /\ RunTypeOK /\ failures \in 0 .. MaxFailures
  BY DEF TypeOK, ServerTypeOK, RunTypeOK

ServerOK == ServerTypeOK /\ CommitsOK /\ HistoriesClosed /\ PrsOK

\* What every step leaves in place.
ServerGrows ==
  /\ CommitIds \subseteq CommitIds'
  /\ \A i \in CommitIds : commits'[i] = commits[i]
  /\ \A b \in Branches : Exists(b) => Exists(b)'
  /\ \A i \in CommitIds : InTarget(i) => InTarget(i)'

OthersWait(r) ==
  \A s \in Runs \ {r} :
    /\ pc'[s] = pc[s] /\ origin'[s] = origin[s]
    /\ pending'[s] = pending[s] /\ workTree'[s] = workTree[s]

\* A run's branch is one of the command's own, not the internal branch.
LEMMA BranchFacts ==
  /\ Target \in Branches
  /\ \A r \in Runs :
       StageContainers[r] # <<>> => PrBranch(r) \in Branches /\ PrBranch(r) # Target
<1>1. ASSUME NEW r \in Runs, StageContainers[r] # <<>>
      PROVE  StageContainers[r][1] \in Containers /\ BuildIdOf[r] \in BuildIds
  BY <1>1, StagingAssumption
<1>2. QED
  BY <1>1 DEF Target, Branches, PrBranch

LEMMA HeadIsCommit ==
  ASSUME TypeInv, NEW b \in Branches, Exists(b)
  PROVE  head[b] \in CommitIds
  BY DEF TypeInv, TypeOK, Exists

LEMMA CommitTrees ==
  ASSUME TypeInv, NEW i \in CommitIds
  PROVE  TreeOf(i) \in Tree
<1>1. commits[i] \in Commit
  BY DEF TypeInv, TypeOK, CommitIds
<1>2. QED
  BY <1>1 DEF Commit, TreeOf

\* The steps that do not touch the server.
LEMMA ServerUnchanged ==
  ASSUME TypeInv, UNCHANGED <<commits, head, prs>>
  PROVE  ServerOK' /\ ServerGrows
<1>1. CommitIds' = CommitIds /\ PullRequest' = PullRequest
  BY DEF CommitIds, PullRequest
<1>2. ServerTypeOK'
  BY <1>1 DEF TypeInv, TypeOK, ServerTypeOK, Exists
<1>3. CommitsOK' /\ HistoriesClosed' /\ PrsOK'
  BY <1>1 DEF TypeInv, CommitsOK, HistoriesClosed, PrsOK, InTarget, Exists, Ancestors
<1>4. ServerGrows
  BY <1>1 DEF ServerGrows, InTarget, Exists, Ancestors
<1>5. QED
  BY <1>2, <1>3, <1>4 DEF ServerOK

\* Runs that are not at it stay well formed.
LEMMA RunsUnchanged ==
  ASSUME TypeInv, ServerGrows, UNCHANGED run
  PROVE  RunTypeOK' /\ RunsOK'
<1>1. UNCHANGED <<pc, origin, pending, workTree>>
  BY DEF run
<1>2. RunTypeOK'
  BY <1>1 DEF TypeInv, TypeOK, RunTypeOK, ServerGrows, Active
<1>3. ASSUME NEW r \in Runs
      PROVE  RunOK(r)'
  <2>1. Active(r) => origin[r] \in CommitIds
    BY DEF TypeInv, TypeOK
  <2>2. QED
    BY <1>1, <2>1, BranchFacts DEF TypeInv, RunsOK, RunOK, ServerGrows, Active, Steps, PrBranch
<1>4. QED
  BY <1>2, <1>3 DEF RunsOK

LEMMA OthersOK ==
  ASSUME TypeInv, ServerGrows, NEW r \in Runs, OthersWait(r), RunOK(r)'
  PROVE  RunsOK'
<1>1. ASSUME NEW s \in Runs \ {r}
      PROVE  RunOK(s)'
  <2>1. Active(s) => origin[s] \in CommitIds
    BY DEF TypeInv, TypeOK
  <2>2. QED
    BY <2>1, BranchFacts DEF TypeInv, RunsOK, RunOK, ServerGrows, Active, Steps, PrBranch, OthersWait
<1>2. QED
  BY <1>1 DEF RunsOK

\* A run may end at any of its steps.
LEMMA EndOK ==
  ASSUME TypeInv, ServerGrows, NEW r \in Runs, NEW result \in {"succeeded", "failed"},
         End(r, result)
  PROVE  RunTypeOK' /\ RunsOK' /\ OthersWait(r) /\ ~ Active(r)'
<1>1. /\ pc' = [pc EXCEPT ![r] = result]
      /\ origin' = [origin EXCEPT ![r] = NoCommit]
      /\ pending' = [pending EXCEPT ![r] = <<>>]
      /\ workTree' = [workTree EXCEPT ![r] = FirstTree]
  BY DEF End
<1>2. /\ pc \in [Runs -> {"idle", "succeeded", "failed"} \cup Steps]
      /\ origin \in [Runs -> {NoCommit} \cup CommitIds]
      /\ pending \in [Runs -> Seq(Containers)]
      /\ workTree \in [Runs -> Tree]
  BY DEF TypeInv, TypeOK
<1>3. OthersWait(r)
  BY <1>1, <1>2 DEF OthersWait
<1>4. pc'[r] = result /\ ~ Active(r)'
  BY <1>1, <1>2 DEF Active, Steps
<1>5. /\ pc' \in [Runs -> {"idle", "succeeded", "failed"} \cup Steps]
      /\ origin' \in [Runs -> {NoCommit} \cup CommitIds']
      /\ pending' \in [Runs -> Seq(Containers)]
      /\ workTree' \in [Runs -> Tree]
  BY <1>1, <1>2, FirstTreeType DEF ServerGrows
<1>6. \A s \in Runs : Active(s)' => origin'[s] # NoCommit
  BY <1>3, <1>4 DEF TypeInv, TypeOK, OthersWait, Active
<1>7. RunOK(r)'
  BY <1>4 DEF RunOK, Active, Steps
<1>8. QED
  BY <1>3, <1>4, <1>5, <1>6, <1>7, OthersOK DEF RunTypeOK

\* A run starts.
LEMMA CloneOK ==
  ASSUME TypeInv, NEW r \in Runs, Clone(r)
  PROVE  RunTypeOK' /\ RunsOK' /\ OthersWait(r)
<1>1. UNCHANGED <<commits, head, prs>>
  BY DEF Clone
<1>2. ServerGrows /\ CommitIds' = CommitIds
  BY <1>1, ServerUnchanged DEF CommitIds
<1>3. CASE StageContainers[r] = <<>> \/ ~ Exists(Target)
  BY <1>2, <1>3, EndOK DEF Clone
<1>4. CASE StageContainers[r] # <<>> /\ Exists(Target)
  <2>1. head[Target] \in CommitIds /\ TreeOf(head[Target]) \in Tree
    BY <1>4, HeadIsCommit, CommitTrees, BranchFacts
  <2>2. /\ pc' = [pc EXCEPT ![r] = "process"]
        /\ origin' = [origin EXCEPT ![r] = head[Target]]
        /\ pending' = [pending EXCEPT ![r] = StageContainers[r]]
        /\ workTree' = [workTree EXCEPT ![r] = TreeOf(head[Target])]
    BY <1>4 DEF Clone
  <2>3. /\ pc \in [Runs -> {"idle", "succeeded", "failed"} \cup Steps]
        /\ origin \in [Runs -> {NoCommit} \cup CommitIds]
        /\ pending \in [Runs -> Seq(Containers)]
        /\ workTree \in [Runs -> Tree]
        /\ StageContainers[r] \in Seq(Containers)
    BY StagingAssumption DEF TypeInv, TypeOK
  <2>4. OthersWait(r)
    BY <2>2, <2>3 DEF OthersWait
  <2>5. pc'[r] = "process" /\ origin'[r] = head[Target]
    BY <2>2, <2>3
  <2>6. /\ pc' \in [Runs -> {"idle", "succeeded", "failed"} \cup Steps]
        /\ origin' \in [Runs -> {NoCommit} \cup CommitIds']
        /\ pending' \in [Runs -> Seq(Containers)]
        /\ workTree' \in [Runs -> Tree]
    BY <1>2, <2>1, <2>2, <2>3 DEF Steps
  <2>7. \A s \in Runs : Active(s)' => origin'[s] # NoCommit
    BY <1>4, <2>4, <2>5 DEF TypeInv, TypeOK, OthersWait, Active, Exists
  <2>8. RunOK(r)'
    <3>1. head[Target] \in Ancestors(head[Target])
      BY <2>1 DEF TypeInv, CommitsOK
    <3>2. InTarget(head[Target])'
      BY <1>1, <1>4, <3>1 DEF InTarget, Exists, Ancestors
    <3>3. QED
      BY <1>1, <1>4, <2>5, <3>2 DEF RunOK, InTarget
  <2>9. QED
    BY <1>2, <2>4, <2>6, <2>7, <2>8, OthersOK DEF RunTypeOK
<1>5. QED
  BY <1>3, <1>4

\* A run goes on to its next step or container.
LEMMA ProcessOK ==
  ASSUME TypeInv, NEW r \in Runs, ProcessStageContainer(r)
  PROVE  RunTypeOK' /\ RunsOK' /\ OthersWait(r)
<1> DEFINE tree == Apply(IsInternal(r), workTree[r], Head(pending[r]))
<1>1. UNCHANGED <<commits, head, prs>> /\ pc[r] = "process" /\ pending[r] # <<>>
  BY DEF ProcessStageContainer
<1>2. ServerGrows /\ CommitIds' = CommitIds
  BY <1>1, ServerUnchanged DEF CommitIds
<1>3. /\ workTree \in [Runs -> Tree] /\ pending \in [Runs -> Seq(Containers)]
      /\ origin \in [Runs -> {NoCommit} \cup CommitIds]
  BY DEF TypeInv, TypeOK
<1>4. Head(pending[r]) \in Containers /\ Tail(pending[r]) \in Seq(Containers)
  BY <1>1, <1>3
<1>5. tree \in Tree
  BY <1>3, <1>4, ApplyOneType
<1>6. \/ End(r, "failed")
      \/ /\ workTree' = [workTree EXCEPT ![r] = tree]
         /\ pending' = [pending EXCEPT ![r] = Tail(@)]
         /\ UNCHANGED <<pc, origin>>
  BY DEF ProcessStageContainer
<1> HIDE DEF tree
<1>7. CASE End(r, "failed")
  BY <1>2, <1>7, EndOK
<1>8. CASE /\ workTree' = [workTree EXCEPT ![r] = tree]
           /\ pending' = [pending EXCEPT ![r] = Tail(@)]
           /\ UNCHANGED <<pc, origin>>
  <2>1. workTree' \in [Runs -> Tree] /\ pending' \in [Runs -> Seq(Containers)]
    BY <1>3, <1>4, <1>5, <1>8
  <2>2. OthersWait(r)
    BY <1>3, <1>8 DEF OthersWait
  <2>3. RunTypeOK'
    BY <1>2, <1>8, <2>1 DEF TypeInv, TypeOK, RunTypeOK, Active
  <2>4. RunOK(r)'
    BY <1>1, <1>8 DEF TypeInv, RunsOK, RunOK, InTarget, Exists, Ancestors, Active, Steps
  <2>5. QED
    BY <1>2, <2>2, <2>3, <2>4, OthersOK
<1>9. QED
  BY <1>6, <1>7, <1>8

\* A branch moves to a commit, the internal branch to a later one.
LEMMA HeadMoves ==
  ASSUME TypeInv, commits' \in Seq(Commit), CommitsOK', HistoriesClosed',
         CommitIds \subseteq CommitIds', \A i \in CommitIds : commits'[i] = commits[i],
         NEW b \in Branches, NEW i \in CommitIds', head' = [head EXCEPT ![b] = i],
         b = Target => Exists(Target) /\ head[Target] \in commits'[i].ancestors,
         prs' \subseteq prs
  PROVE  ServerOK' /\ ServerGrows
<1>1. i # NoCommit /\ head \in [Branches -> {NoCommit} \cup CommitIds]
  BY DEF CommitIds, NoCommit, TypeInv, TypeOK
<1>2. head' \in [Branches -> {NoCommit} \cup CommitIds']
  BY <1>1
<1>3. \A a \in Branches : Exists(a) => Exists(a)'
  BY <1>1 DEF Exists
<1>4. \A a \in CommitIds : InTarget(a) => InTarget(a)'
  <2> SUFFICES ASSUME NEW a \in CommitIds, InTarget(a)
               PROVE  InTarget(a)'
    OBVIOUS
  <2>1. head[Target] \in CommitIds /\ a \in Ancestors(head[Target]) /\ Exists(Target)'
    BY <1>3, BranchFacts, HeadIsCommit DEF InTarget
  <2>2. CASE b # Target
    <3>1. head'[Target] = head[Target]
      BY <1>1, <2>2, BranchFacts
    <3>2. QED
      BY <2>1, <3>1 DEF InTarget, Ancestors
  <2>3. CASE b = Target
    <3>1. head'[Target] = i /\ head[Target] \in commits'[i].ancestors
      BY <1>1, <2>3
    <3>2. commits'[head[Target]].ancestors \subseteq commits'[i].ancestors
      BY <3>1 DEF HistoriesClosed, Ancestors
    <3>3. a \in commits'[i].ancestors
      BY <2>1, <3>2 DEF Ancestors
    <3>4. QED
      BY <2>1, <3>1, <3>3 DEF InTarget, Ancestors
  <2>4. QED
    BY <2>2, <2>3
<1>5. prs' \subseteq PullRequest' /\ \A p \in prs' : Exists(p.branch)'
  BY <1>3 DEF TypeInv, TypeOK, PullRequest
<1>6. PrsOK'
  BY <1>4 DEF TypeInv, TypeOK, PullRequest, PrsOK
<1>7. QED
  BY <1>2, <1>3, <1>4, <1>5, <1>6 DEF ServerOK, ServerTypeOK, ServerGrows

\* A commit at the head of a branch.
LEMMA CommitOnBranch ==
  ASSUME TypeInv, NEW parents \in SUBSET CommitIds, NEW tree \in Tree, NEW b \in Branches,
         AddCommit(parents, tree), head' = [head EXCEPT ![b] = NewCommit],
         b = Target => Exists(Target) /\ head[Target] \in parents,
         prs' \subseteq prs
  PROVE  ServerOK' /\ ServerGrows
<1>1. commits \in Seq(Commit) /\ CommitsOK /\ HistoriesClosed
  BY DEF TypeInv, TypeOK
<1>2. /\ commits' \in Seq(Commit)
      /\ NewCommit \in CommitIds'
      /\ \A i \in CommitIds : i \in CommitIds' /\ commits'[i] = commits[i]
      /\ commits'[NewCommit].ancestors = {NewCommit} \cup UNION {Ancestors(p) : p \in parents}
  BY <1>1, AppendCommit
<1>3. CommitsOK' /\ HistoriesClosed'
  BY <1>1, CommitsStayOK, HistoriesStayClosed
<1>4. b = Target => head[Target] \in commits'[NewCommit].ancestors
  BY <1>1, <1>2, HeadIsCommit, BranchFacts DEF CommitsOK
<1>5. QED
  BY <1>2, <1>3, <1>4, HeadMoves

\* A run pushes its commit and has its pull request left to open, or fails.
LEMMA PushOK ==
  ASSUME TypeInv, NEW r \in Runs, Push(r)
  PROVE  ServerOK' /\ ServerGrows /\ RunTypeOK' /\ RunsOK' /\ OthersWait(r)
<1>1. /\ pc[r] = "process" /\ pending[r] = <<>> /\ UNCHANGED prs
      /\ \/ End(r, "failed") /\ UNCHANGED <<commits, head>>
         \/ /\ AddCommit({origin[r]}, workTree[r])
            /\ head' = [head EXCEPT ![PrBranch(r)] = NewCommit]
            /\ pc' = [pc EXCEPT ![r] = "open"]
            /\ UNCHANGED <<origin, pending, workTree>>
  BY DEF Push
<1>2. CASE End(r, "failed") /\ UNCHANGED <<commits, head>>
  <2>1. ServerOK' /\ ServerGrows
    BY <1>1, <1>2, ServerUnchanged
  <2>2. QED
    BY <1>2, <2>1, EndOK
<1>3. CASE /\ AddCommit({origin[r]}, workTree[r])
           /\ head' = [head EXCEPT ![PrBranch(r)] = NewCommit]
           /\ pc' = [pc EXCEPT ![r] = "open"]
           /\ UNCHANGED <<origin, pending, workTree>>
  <2>1. Active(r) /\ origin[r] \in CommitIds /\ workTree[r] \in Tree
    BY <1>1 DEF TypeInv, TypeOK, Active, Steps
  <2>2. StageContainers[r] # <<>> /\ InTarget(origin[r])
    BY <2>1 DEF TypeInv, RunsOK, RunOK
  <2>3. PrBranch(r) \in Branches /\ PrBranch(r) # Target
    BY <2>2, BranchFacts
  <2>4. ServerOK' /\ ServerGrows
    BY <1>1, <1>3, <2>1, <2>3, CommitOnBranch
  <2>5. pc' \in [Runs -> {"idle", "succeeded", "failed"} \cup Steps] /\ pc'[r] = "open"
    BY <1>3 DEF TypeInv, TypeOK, Steps
  <2>6. OthersWait(r)
    BY <1>3 DEF TypeInv, TypeOK, OthersWait
  <2>7. RunTypeOK'
    <3>1. origin' \in [Runs -> {NoCommit} \cup CommitIds']
      BY <1>3, <2>4 DEF TypeInv, TypeOK, ServerGrows
    <3>2. \A s \in Runs : Active(s)' => origin'[s] # NoCommit
      BY <1>3, <2>1, <2>6 DEF TypeInv, TypeOK, OthersWait, Active, CommitIds, NoCommit
    <3>3. QED
      BY <1>3, <2>5, <3>1, <3>2 DEF TypeInv, TypeOK, RunTypeOK
  <2>8. RunOK(r)'
    <3>1. head'[PrBranch(r)] = NewCommit /\ NewCommit # NoCommit
      BY <1>3, <2>3 DEF TypeInv, TypeOK, NewCommit, NoCommit
    <3>2. Exists(PrBranch(r))'
      BY <3>1 DEF Exists, PrBranch
    <3>3. QED
      BY <1>1, <1>3, <2>1, <2>2, <2>4, <3>2 DEF RunOK, ServerGrows
  <2>9. QED
    BY <2>4, <2>6, <2>7, <2>8, OthersOK
<1>4. QED
  BY <1>1, <1>2, <1>3

\* A run opens its pull request.
LEMMA CreatePullRequestOK ==
  ASSUME TypeInv, NEW r \in Runs, CreatePullRequest(r)
  PROVE  ServerOK' /\ ServerGrows /\ RunTypeOK' /\ RunsOK' /\ OthersWait(r)
<1> DEFINE new == [branch   |-> PrBranch(r), origin |-> origin[r],
                   internal |-> IsInternal(r), builds |-> StageContainers[r]]
<1>1. /\ pc[r] = "open" /\ UNCHANGED <<commits, head>> /\ prs' \in {prs, prs \cup {new}}
      /\ \E result \in {"succeeded", "failed"} : End(r, result)
  BY DEF CreatePullRequest
<1>2. Active(r) /\ origin[r] \in CommitIds
  BY <1>1 DEF TypeInv, TypeOK, Active, Steps
<1>3. StageContainers[r] # <<>> /\ InTarget(origin[r]) /\ Exists(PrBranch(r))
  BY <1>1, <1>2 DEF TypeInv, RunsOK, RunOK
<1>4. PrBranch(r) \in Branches /\ PrBranch(r) # Target /\ StageContainers[r] \in Seq(Containers)
  BY <1>3, BranchFacts, StagingAssumption
<1>5. new \in PullRequest /\ new.branch = PrBranch(r) /\ new.origin = origin[r]
  <2>1. IsInternal(r) \in BOOLEAN
    BY DEF IsInternal
  <2>2. QED
    BY <1>2, <1>4, <2>1 DEF PullRequest
<1> HIDE DEF new
<1>6. CommitIds' = CommitIds /\ PullRequest' = PullRequest
  BY <1>1 DEF CommitIds, PullRequest
<1>7. ServerTypeOK'
  BY <1>1, <1>3, <1>5, <1>6 DEF TypeInv, TypeOK, ServerTypeOK, Exists
<1>8. PrsOK'
  BY <1>1, <1>3, <1>4, <1>5 DEF TypeInv, PrsOK, InTarget, Exists, Ancestors
<1>9. CommitsOK' /\ HistoriesClosed' /\ ServerGrows
  BY <1>1, <1>6 DEF TypeInv, CommitsOK, HistoriesClosed, ServerGrows, InTarget, Exists, Ancestors
<1>10. QED
  BY <1>1, <1>7, <1>8, <1>9, EndOK DEF ServerOK

\* What a sync brings keeps a content well formed.
LEMMA SyncedType ==
  ASSUME NEW tree \in Tree, NEW new \in Synced(tree)
  PROVE  new \in Tree
<1>1. NoContainer \in Recorded /\ \A c \in Recorded : Public(c) \in Layer
  BY DEF Recorded, Public, Layer
<1>2. CASE new \in {[tree EXCEPT !.edits = @ \cup {e}] : e \in Edits}
  BY <1>2 DEF Tree
<1>3. CASE \E v \in Versions :
             new = [tree EXCEPT !.runtime[v] = Public(@.build), !.dotnetUrl[v] = NoContainer]
  <2>1. PICK v \in Versions :
          new = [tree EXCEPT !.runtime[v] = Public(@.build), !.dotnetUrl[v] = NoContainer]
    BY <1>3
  <2>2. tree.runtime[v].build \in Recorded
    BY DEF Tree, Layer
  <2>3. QED
    BY <1>1, <2>1, <2>2 DEF Tree
<1>4. CASE \E v \in Versions : new = [tree EXCEPT !.sdkUrl[v] = NoContainer]
  BY <1>1, <1>4 DEF Tree
<1>5. QED
  BY <1>2, <1>3, <1>4 DEF Synced

\* The branch's other users.
LEMMA SyncTargetOK ==
  ASSUME TypeInv, SyncTarget
  PROVE  ServerOK' /\ ServerGrows /\ RunTypeOK' /\ RunsOK'
<1>1. /\ Exists(Target) /\ UNCHANGED <<prs, run>>
      /\ head' = [head EXCEPT ![Target] = NewCommit]
  BY DEF SyncTarget
<1>2. PICK tree \in Synced(TreeOf(head[Target])) : AddCommit({head[Target]}, tree)
  BY DEF SyncTarget
<1>3. head[Target] \in CommitIds /\ tree \in Tree
  BY <1>1, <1>2, HeadIsCommit, CommitTrees, BranchFacts, SyncedType
<1>4. ServerOK' /\ ServerGrows
  BY <1>1, <1>2, <1>3, BranchFacts, CommitOnBranch
<1>5. QED
  BY <1>1, <1>4, RunsUnchanged

LEMMA CompletePullRequestOK ==
  ASSUME TypeInv, NEW p \in prs, NEW style \in MergeStyles, CompletePullRequest(p, style)
  PROVE  ServerOK' /\ ServerGrows /\ RunTypeOK' /\ RunsOK'
<1> DEFINE ours   == head[Target]
           theirs == head[p.branch]
           base   == TreeOf(MergeBase(ours, theirs))
           merged == MergeTrees(base, TreeOf(ours), TreeOf(theirs))
<1>1. /\ \/ /\ ours \in Ancestors(theirs) /\ UNCHANGED commits
            /\ head' = [head EXCEPT ![Target] = theirs]
         \/ /\ AddCommit({ours, theirs}, merged) \/ AddCommit({ours}, merged)
            /\ head' = [head EXCEPT ![Target] = NewCommit]
      /\ prs' \subseteq prs /\ UNCHANGED run
  BY DEF CompletePullRequest, Merge
<1>2. Exists(p.branch) /\ p.branch \in Branches /\ Exists(Target)
  BY DEF TypeInv, TypeOK, PullRequest, PrsOK, InTarget
<1>3. ours \in CommitIds /\ theirs \in CommitIds
  BY <1>2, HeadIsCommit, BranchFacts
<1>4. merged \in Tree
  BY <1>3, CommitTrees, MergeType
<1> HIDE DEF merged, theirs
<1>5. CASE /\ ours \in Ancestors(theirs) /\ UNCHANGED commits
           /\ head' = [head EXCEPT ![Target] = theirs]
  <2>1. CommitIds' = CommitIds /\ commits' \in Seq(Commit) /\ CommitsOK' /\ HistoriesClosed'
    BY <1>5 DEF TypeInv, TypeOK, CommitIds, CommitsOK, HistoriesClosed, Ancestors
  <2>2. ours \in commits'[theirs].ancestors
    BY <1>5 DEF Ancestors
  <2>3. QED
    BY <1>1, <1>2, <1>3, <1>5, <2>1, <2>2, HeadMoves, BranchFacts, RunsUnchanged
<1>6. CASE /\ AddCommit({ours, theirs}, merged) \/ AddCommit({ours}, merged)
           /\ head' = [head EXCEPT ![Target] = NewCommit]
  <2>1. PICK parents \in {{ours, theirs}, {ours}} : AddCommit(parents, merged)
    BY <1>6
  <2>2. parents \in SUBSET CommitIds /\ ours \in parents
    BY <1>3
  <2>3. QED
    BY <1>1, <1>2, <1>4, <1>6, <2>1, <2>2, CommitOnBranch, BranchFacts, RunsUnchanged
<1>7. QED
  BY <1>1, <1>5, <1>6

\* The initial states are well formed.
LEMMA InitTypeInv == Init => TypeInv
<1> SUFFICES ASSUME Init PROVE TypeInv
  OBVIOUS
<1>1. /\ commits = <<[ancestors |-> {1}, tree |-> FirstTree]>>
      /\ prs = {} /\ failures = 0
      /\ pc = [r \in Runs |-> "idle"] /\ origin = [r \in Runs |-> NoCommit]
      /\ pending = [r \in Runs |-> <<>>] /\ workTree = [r \in Runs |-> FirstTree]
  BY DEF Init
<1>2. Len(commits) = 1 /\ commits[1] = [ancestors |-> {1}, tree |-> FirstTree]
  BY <1>1
<1>3. CommitIds = {1} /\ commits \in Seq(Commit)
  BY <1>1, <1>2, FirstTreeType DEF CommitIds, Commit
<1>4. head \in [Branches -> {NoCommit} \cup CommitIds]
  BY <1>3 DEF Init
<1>5. CommitsOK /\ HistoriesClosed
  BY <1>2, <1>3 DEF CommitsOK, HistoriesClosed, Ancestors
<1>6. RunTypeOK /\ failures \in 0 .. MaxFailures
  BY <1>1, FirstTreeType, StagingAssumption DEF RunTypeOK, Active, Steps
<1>7. RunsOK /\ PrsOK
  BY <1>1 DEF RunsOK, RunOK, PrsOK, Active, Steps
<1>8. ServerTypeOK
  BY <1>1, <1>3, <1>4 DEF ServerTypeOK
<1>9. QED
  BY <1>5, <1>6, <1>7, <1>8, TypeParts DEF TypeInv

\* One more of the failures that MaxFailures bounds.
LEMMA OneMoreFailure ==
  ASSUME TypeOK, failures < MaxFailures, failures' = failures + 1
  PROVE  failures' \in 0 .. MaxFailures
  BY StagingAssumption DEF TypeOK

\* The type invariant, with what runs and pull requests rely on, is inductive.
THEOREM TypeInvInductive == TypeInv /\ [Next]_vars => TypeInv'
<1> SUFFICES ASSUME TypeInv, [Next]_vars PROVE TypeInv'
  OBVIOUS
<1>1. SUFFICES ServerOK' /\ RunTypeOK' /\ RunsOK' /\ failures' \in 0 .. MaxFailures
  BY DEF ServerOK, TypeInv, TypeOK, ServerTypeOK, RunTypeOK
<1>2. failures \in 0 .. MaxFailures
  BY DEF TypeInv, TypeOK
<1>3. ASSUME NEW r \in Runs, Start(r) \/ Retry(r)
      PROVE  ServerOK' /\ RunTypeOK' /\ RunsOK' /\ failures' \in 0 .. MaxFailures
  <2>1. Clone(r) /\ UNCHANGED <<commits, head, prs>>
    BY <1>3 DEF Start, Retry, Clone
  <2>2. failures' \in 0 .. MaxFailures
    BY <1>2, <1>3, OneMoreFailure DEF Start, Retry, TypeInv
  <2>3. QED
    BY <2>1, <2>2, ServerUnchanged, CloneOK
<1>4. ASSUME NEW r \in Runs, ProcessStageContainer(r)
      PROVE  ServerOK' /\ RunTypeOK' /\ RunsOK' /\ failures' \in 0 .. MaxFailures
  <2>1. UNCHANGED <<commits, head, prs, failures>>
    BY <1>4 DEF ProcessStageContainer
  <2>2. QED
    BY <1>2, <1>4, <2>1, ServerUnchanged, ProcessOK
<1>5. ASSUME NEW r \in Runs, ContainerFails(r) \/ Fail(r)
      PROVE  ServerOK' /\ RunTypeOK' /\ RunsOK' /\ failures' \in 0 .. MaxFailures
  <2>1. /\ UNCHANGED <<commits, head, prs>> /\ End(r, "failed")
        /\ failures < MaxFailures /\ failures' = failures + 1
    BY <1>5 DEF ContainerFails, Fail, AfterFailure
  <2>2. QED
    BY <2>1, ServerUnchanged, EndOK, OneMoreFailure DEF TypeInv
<1>6. ASSUME NEW r \in Runs, Push(r)
      PROVE  ServerOK' /\ RunTypeOK' /\ RunsOK' /\ failures' \in 0 .. MaxFailures
  BY <1>2, <1>6, PushOK DEF Push
<1>7. ASSUME NEW r \in Runs, CreatePullRequest(r)
      PROVE  ServerOK' /\ RunTypeOK' /\ RunsOK' /\ failures' \in 0 .. MaxFailures
  <2>1. failures' \in 0 .. MaxFailures
    BY <1>2, <1>7, OneMoreFailure DEF CreatePullRequest, TypeInv
  <2>2. QED
    BY <1>7, <2>1, CreatePullRequestOK
<1>8. CASE SyncTarget
  BY <1>2, <1>8, SyncTargetOK DEF SyncTarget
<1>9. ASSUME NEW p \in prs, NEW style \in MergeStyles, CompletePullRequest(p, style)
      PROVE  ServerOK' /\ RunTypeOK' /\ RunsOK' /\ failures' \in 0 .. MaxFailures
  BY <1>2, <1>9, CompletePullRequestOK DEF CompletePullRequest
<1>10. CASE UNCHANGED vars
  <2>1. UNCHANGED <<commits, head, prs, failures, run>>
    BY <1>10 DEF vars
  <2>2. QED
    BY <1>2, <2>1, ServerUnchanged, RunsUnchanged
<1>11. QED
  BY <1>3, <1>4, <1>5, <1>6, <1>7, <1>8, <1>9, <1>10 DEF Next

\* Runs and pull requests refer to commits and branches that exist.
THEOREM StagingTypeCorrect == Spec => []TypeOK
<1>1. TypeInv => TypeOK
  BY DEF TypeInv
<1>2. QED
  BY <1>1, InitTypeInv, TypeInvInductive, PTL DEF Spec

-----------------------------------------------------------------------------
(* Pull requests are complete.                                             *)

\* The containers that a run has processed, and what they made of the content
\* that it started from.
Done(r) == Len(StageContainers[r]) - Len(pending[r])
ContentsOf(r) == Contents(IsInternal(r), TreeOf(origin[r]), StageContainers[r])

RunProcessing(r) ==
  Active(r) =>
    /\ Done(r) \in Nat
    /\ \A k \in 1 .. Len(pending[r]) : pending[r][k] = StageContainers[r][Done(r) + k]
    /\ workTree[r] = ContentsOf(r)[Done(r)]

Processing == \A r \in Runs : RunProcessing(r)

\* What is pushed is one commit on top of the one that the run started from.
OnTop(i, base) == Ancestors(i) = {i} \cup Ancestors(base)

Pushed ==
  /\ \A r \in Runs :
       pc[r] = "open" =>
         TreeOf(head[PrBranch(r)]) = workTree[r] /\ OnTop(head[PrBranch(r)], origin[r])
  /\ \A p \in prs : OnTop(head[p.branch], p.origin)

\* Between its push and the completion of its pull request a branch belongs to one
\* run, then to one pull request, and its last commit is in no other history: a
\* push that is not forced cannot replace it.
OneOwner ==
  /\ \A r, s \in Runs : pc[r] = "open" /\ pc[s] = "open" /\ PrBranch(r) = PrBranch(s) => r = s
  /\ \A p, q \in prs : p.branch = q.branch => p = q
  /\ \A r \in Runs, p \in prs : ~ (pc[r] = "open" /\ p.branch = PrBranch(r))

Owned(b) ==
  \/ \E r \in Runs : pc[r] = "open" /\ PrBranch(r) = b
  \/ \E p \in prs : p.branch = b

OwnedIsUnmerged ==
  \A b \in Branches :
    Owned(b) =>
      /\ ~ InTarget(head[b])
      /\ \A a \in Branches \ {b} : Owned(a) => head[a] # head[b]

StagingInv ==
  TypeInv /\ Processing /\ Pushed /\ OneOwner /\ OwnedIsUnmerged /\ StagingPrIsComplete

\* A run that takes no step has processed what it has.
LEMMA WaitingProcessing ==
  ASSUME TypeInv, Processing, ServerGrows, NEW s \in Runs,
         Active(s)' => Active(s), origin'[s] = origin[s],
         pending'[s] = pending[s], workTree'[s] = workTree[s]
  PROVE  RunProcessing(s)'
<1> SUFFICES ASSUME Active(s)'
             PROVE  /\ Done(s)' \in Nat
                    /\ \A k \in 1 .. Len(pending'[s]) :
                         pending'[s][k] = StageContainers[s][Done(s)' + k]
                    /\ workTree'[s] = ContentsOf(s)'[Done(s)']
  BY DEF RunProcessing
<1>1. origin[s] \in CommitIds
  BY DEF TypeInv, TypeOK
<1>2. RunProcessing(s) /\ Active(s)
  BY DEF Processing
<1>3. Done(s)' = Done(s)
  BY DEF Done
<1>4. commits'[origin'[s]].tree = commits[origin[s]].tree
  BY <1>1 DEF ServerGrows
<1>5. ContentsOf(s)' = ContentsOf(s)
  BY <1>4 DEF ContentsOf, TreeOf
<1>6. QED
  BY <1>2, <1>3, <1>5 DEF RunProcessing

\* A run starts with nothing processed.
LEMMA CloneProcessing ==
  ASSUME TypeInv, Processing, NEW r \in Runs, Clone(r), OthersWait(r)
  PROVE  Processing'
<1>1. UNCHANGED <<commits, head, prs>>
  BY DEF Clone
<1>2. ServerGrows
  BY <1>1, ServerUnchanged
<1>3. RunProcessing(r)'
  <2>1. CASE StageContainers[r] = <<>> \/ ~ Exists(Target)
    BY <1>2, <2>1, EndOK DEF Clone, RunProcessing
  <2>2. CASE StageContainers[r] # <<>> /\ Exists(Target)
    <3>1. /\ origin'[r] = head[Target]
          /\ pending'[r] = StageContainers[r]
          /\ workTree'[r] = TreeOf(head[Target])
      BY <2>2 DEF Clone, TypeInv, TypeOK
    <3>2. StageContainers[r] \in Seq(Containers) /\ Len(StageContainers[r]) \in Nat
      BY StagingAssumption
    <3>3. Done(r)' = 0
      BY <3>1, <3>2 DEF Done
    <3>4. \A k \in 1 .. Len(pending'[r]) : pending'[r][k] = StageContainers[r][0 + k]
      BY <3>1, <3>2
    <3>5. TreeOf(head[Target]) \in Tree
      BY <2>2, HeadIsCommit, CommitTrees, BranchFacts
    <3>6. ContentsOf(r)' = Contents(IsInternal(r), TreeOf(head[Target]), StageContainers[r])
      BY <1>1, <3>1 DEF ContentsOf, TreeOf
    <3>7. ContentsOf(r)'[0] = TreeOf(head[Target])
      BY <3>2, <3>5, <3>6, ContentsSteps DEF Stepwise
    <3>8. QED
      BY <3>1, <3>3, <3>4, <3>7 DEF RunProcessing
  <2>3. QED
    BY <2>1, <2>2
<1>4. ASSUME NEW s \in Runs \ {r}
      PROVE  RunProcessing(s)'
  BY <1>2, WaitingProcessing DEF OthersWait, Active
<1>5. QED
  BY <1>3, <1>4 DEF Processing

\* A run that ends has nothing left to process, and what it pushed stays.
LEMMA EndProcessing ==
  ASSUME TypeInv, Processing, ServerGrows, NEW r \in Runs,
         OthersWait(r), ~ Active(r)'
  PROVE  Processing'
<1>1. ASSUME NEW s \in Runs \ {r}
      PROVE  RunProcessing(s)'
  BY WaitingProcessing DEF OthersWait, Active
<1>2. QED
  BY <1>1 DEF Processing, RunProcessing

\* The next container of the list is applied to what the ones before it made.
LEMMA ProcessProcessing ==
  ASSUME TypeInv, Processing, NEW r \in Runs, ProcessStageContainer(r), OthersWait(r)
  PROVE  Processing'
<1> DEFINE list == StageContainers[r]
           n    == Done(r)
<1>1. /\ UNCHANGED <<commits, head, prs>> /\ pc[r] = "process" /\ pending[r] # <<>>
      /\ \/ End(r, "failed")
         \/ /\ workTree' = [workTree EXCEPT ![r] =
                              Apply(IsInternal(r), workTree[r], Head(pending[r]))]
            /\ pending' = [pending EXCEPT ![r] = Tail(@)]
            /\ UNCHANGED <<pc, origin>>
  BY DEF ProcessStageContainer
<1>2. ServerGrows
  BY <1>1, ServerUnchanged
<1>3. CASE End(r, "failed")
  BY <1>2, <1>3, EndOK, EndProcessing
<1>4. CASE /\ workTree' = [workTree EXCEPT ![r] =
                             Apply(IsInternal(r), workTree[r], Head(pending[r]))]
           /\ pending' = [pending EXCEPT ![r] = Tail(@)]
           /\ UNCHANGED <<pc, origin>>
  <2>1. /\ pending[r] \in Seq(Containers) /\ list \in Seq(Containers)
        /\ Active(r) /\ origin[r] \in CommitIds
    BY <1>1, StagingAssumption DEF TypeInv, TypeOK, Active, Steps
  <2>2. /\ n \in Nat /\ n = Len(list) - Len(pending[r])
        /\ \A k \in 1 .. Len(pending[r]) : pending[r][k] = list[n + k]
        /\ workTree[r] = ContentsOf(r)[n]
    BY <2>1 DEF Processing, RunProcessing, Done
  <2>3. /\ pending'[r] = Tail(pending[r])
        /\ workTree'[r] = Apply(IsInternal(r), workTree[r], Head(pending[r]))
    BY <1>4 DEF TypeInv, TypeOK
  <2>4. Len(pending[r]) \in Nat \ {0} /\ Len(list) \in Nat
    BY <1>1, <2>1
  <2>5. Len(pending'[r]) = Len(pending[r]) - 1
    BY <1>1, <2>1, <2>3
  <2>6. Done(r)' = n + 1
    BY <2>2, <2>4, <2>5 DEF Done
  <2>7. \A k \in 1 .. Len(pending'[r]) : pending'[r][k] = pending[r][k + 1]
    BY <1>1, <2>1, <2>3, <2>5
  <2>8. Head(pending[r]) = list[n + 1]
    <3>1. Head(pending[r]) = pending[r][1] /\ 1 \in 1 .. Len(pending[r])
      BY <2>1, <2>4
    <3>2. QED
      BY <2>2, <3>1
  <2>9. \A k \in 1 .. Len(list) :
           ContentsOf(r)[k] = Apply(IsInternal(r), ContentsOf(r)[k - 1], list[k])
    <3> DEFINE internal == IsInternal(r)
               tree     == TreeOf(origin[r])
    <3>1. tree \in Tree /\ list \in Seq(Containers)
      BY <2>1, CommitTrees
    <3> HIDE DEF internal, tree, list
    <3>2. Stepwise(Contents(internal, tree, list), internal, tree, list)
      BY <3>1, ContentsSteps
    <3>3. QED
      BY <3>2 DEF Stepwise, ContentsOf, internal, tree, list
  <2> HIDE DEF n, list
  <2>10. \A k \in 1 .. Len(pending'[r]) : pending'[r][k] = list[n + 1 + k]
    <3>1. ASSUME NEW k \in 1 .. Len(pending'[r])
          PROVE  k + 1 \in 1 .. Len(pending[r]) /\ n + (k + 1) = n + 1 + k
      BY <2>2, <2>4, <2>5
    <3>2. QED
      BY <2>2, <2>7, <3>1
  <2>11. workTree'[r] = ContentsOf(r)[n + 1]
    <3>1. n + 1 \in 1 .. Len(list) /\ (n + 1) - 1 = n
      BY <2>2, <2>4
    <3>2. ContentsOf(r)[n + 1] = Apply(IsInternal(r), ContentsOf(r)[n], list[n + 1])
      BY <2>9, <3>1
    <3>3. QED
      BY <2>2, <2>3, <2>8, <3>2
  <2>12. ContentsOf(r)' = ContentsOf(r)
    BY <1>1, <1>4 DEF ContentsOf, TreeOf
  <2>13. RunProcessing(r)'
    <3>1. n + 1 \in Nat
      BY <2>2
    <3>2. QED
      BY <2>6, <2>10, <2>11, <2>12, <3>1 DEF RunProcessing, list
  <2>14. ASSUME NEW s \in Runs \ {r}
         PROVE  RunProcessing(s)'
    BY <1>2, WaitingProcessing DEF OthersWait, Active
  <2>15. QED
    BY <2>13, <2>14 DEF Processing
<1>5. QED
  BY <1>1, <1>3, <1>4

ServerPart == Pushed /\ OneOwner /\ OwnedIsUnmerged /\ StagingPrIsComplete

\* What runs, pull requests and branches refer to.
LEMMA References ==
  ASSUME TypeInv
  PROVE  /\ \A r \in Runs : pc[r] = "open" =>
              /\ PrBranch(r) \in Branches /\ PrBranch(r) # Target
              /\ head[PrBranch(r)] \in CommitIds /\ origin[r] \in CommitIds
              /\ InTarget(origin[r])
         /\ \A p \in prs :
              /\ p.branch \in Branches /\ p.branch # Target
              /\ head[p.branch] \in CommitIds /\ p.origin \in CommitIds
              /\ InTarget(p.origin)
<1>1. ASSUME NEW r \in Runs, pc[r] = "open"
      PROVE  /\ PrBranch(r) \in Branches /\ PrBranch(r) # Target
             /\ head[PrBranch(r)] \in CommitIds /\ origin[r] \in CommitIds
             /\ InTarget(origin[r])
  <2>1. Active(r) /\ Exists(PrBranch(r)) /\ StageContainers[r] # <<>> /\ InTarget(origin[r])
    BY <1>1 DEF TypeInv, RunsOK, RunOK, Active, Steps
  <2>2. QED
    BY <2>1, BranchFacts, HeadIsCommit DEF TypeInv, TypeOK
<1>2. ASSUME NEW p \in prs
      PROVE  /\ p.branch \in Branches /\ p.branch # Target
             /\ head[p.branch] \in CommitIds /\ p.origin \in CommitIds
             /\ InTarget(p.origin)
  <2>1. p \in PullRequest /\ Exists(p.branch) /\ p.branch # Target /\ InTarget(p.origin)
    BY DEF TypeInv, TypeOK, PrsOK
  <2>2. QED
    BY <2>1, HeadIsCommit DEF PullRequest
<1>3. QED
  BY <1>1, <1>2

\* The steps of a run before its push, and after it if it fails.
LEMMA QuietStep ==
  ASSUME TypeInv, ServerPart, UNCHANGED <<commits, head, prs>>,
         \A s \in Runs : pc'[s] = "open" =>
           pc[s] = "open" /\ origin'[s] = origin[s] /\ workTree'[s] = workTree[s]
  PROVE  ServerPart'
<1>1. Pushed'
  BY DEF ServerPart, Pushed, OnTop, Ancestors, TreeOf, PrBranch
<1>2. OneOwner'
  BY DEF ServerPart, OneOwner, PrBranch
<1>3. \A b \in Branches : Owned(b)' => Owned(b)
  BY DEF Owned, PrBranch
<1>4. OwnedIsUnmerged'
  BY <1>3 DEF ServerPart, OwnedIsUnmerged, InTarget, Exists, Ancestors
<1>5. StagingPrIsComplete'
  BY DEF ServerPart, StagingPrIsComplete, TreeOf
<1>6. QED
  BY <1>1, <1>2, <1>4, <1>5 DEF ServerPart

\* The internal branch moves to a commit that has no owned branch's last commit in
\* its history.
LEMMA TargetMoves ==
  ASSUME TypeInv, ServerPart, ServerGrows, UNCHANGED run, prs' \subseteq prs,
         NEW i, head' = [head EXCEPT ![Target] = i],
         \A b \in Branches : Owned(b) /\ Owned(b)' => head[b] \notin commits'[i].ancestors
  PROVE  ServerPart'
<1>1. UNCHANGED <<pc, origin, pending, workTree>>
  BY DEF run
<1>2. \A b \in Branches : b # Target => head'[b] = head[b]
  BY DEF TypeInv, TypeOK
<1>3. /\ \A r \in Runs : pc[r] = "open" =>
           /\ PrBranch(r) \in Branches /\ PrBranch(r) # Target
           /\ head[PrBranch(r)] \in CommitIds /\ origin[r] \in CommitIds
      /\ \A p \in prs :
           /\ p.branch \in Branches /\ p.branch # Target
           /\ head[p.branch] \in CommitIds /\ p.origin \in CommitIds
  BY References
<1>4. \A j \in CommitIds : commits'[j].tree = commits[j].tree /\ commits'[j].ancestors = commits[j].ancestors
  BY DEF ServerGrows
<1>5. Pushed'
  <2>1. ASSUME NEW r \in Runs, pc'[r] = "open"
        PROVE  /\ commits'[head'[PrBranch(r)]].tree = workTree'[r]
               /\ commits'[head'[PrBranch(r)]].ancestors
                    = {head'[PrBranch(r)]} \cup commits'[origin'[r]].ancestors
    <3>1. /\ pc[r] = "open" /\ origin'[r] = origin[r] /\ workTree'[r] = workTree[r]
          /\ head'[PrBranch(r)] = head[PrBranch(r)]
      BY <1>1, <1>2, <1>3, <2>1
    <3>2. /\ commits[head[PrBranch(r)]].tree = workTree[r]
          /\ commits[head[PrBranch(r)]].ancestors
               = {head[PrBranch(r)]} \cup commits[origin[r]].ancestors
      BY <3>1 DEF ServerPart, Pushed, OnTop, TreeOf, Ancestors
    <3>3. head[PrBranch(r)] \in CommitIds /\ origin[r] \in CommitIds
      BY <1>3, <3>1
    <3>4. QED
      BY <1>4, <3>1, <3>2, <3>3
  <2>2. ASSUME NEW p \in prs'
        PROVE  commits'[head'[p.branch]].ancestors
                 = {head'[p.branch]} \cup commits'[p.origin].ancestors
    BY <1>2, <1>3, <1>4, <2>2 DEF ServerPart, Pushed, OnTop, Ancestors
  <2>3. QED
    BY <2>1, <2>2 DEF Pushed, OnTop, TreeOf, Ancestors, PrBranch
<1>6. OneOwner'
  BY <1>1 DEF ServerPart, OneOwner, PrBranch
<1>7. \A b \in Branches : Owned(b)' => Owned(b) /\ b # Target
  BY <1>1, <1>3 DEF Owned, PrBranch
<1>8. OwnedIsUnmerged'
  <2>1. ASSUME NEW b \in Branches, Owned(b)'
        PROVE  /\ ~ InTarget(head[b])'
               /\ \A a \in Branches \ {b} : Owned(a)' => head'[a] # head'[b]
    <3>1. head'[b] = head[b] /\ head[b] \notin commits'[i].ancestors
      BY <1>2, <1>7, <2>1
    <3>2. head'[Target] = i
      BY BranchFacts DEF TypeInv, TypeOK
    <3>3. ~ InTarget(head[b])'
      BY <3>1, <3>2 DEF InTarget, Ancestors
    <3>4. QED
      BY <1>2, <1>7, <2>1, <3>1, <3>3 DEF ServerPart, OwnedIsUnmerged
  <2>2. QED
    BY <2>1 DEF OwnedIsUnmerged
<1>9. StagingPrIsComplete'
  <2>1. ASSUME NEW p \in prs'
        PROVE  commits'[head'[p.branch]].tree
                 = Applied(p.internal, commits'[p.origin].tree, p.builds)
    BY <1>2, <1>3, <1>4, <2>1 DEF ServerPart, StagingPrIsComplete, TreeOf
  <2>2. QED
    BY <2>1 DEF StagingPrIsComplete, TreeOf
<1>10. QED
  BY <1>5, <1>6, <1>8, <1>9 DEF ServerPart

\* A push of a run's commit: its branch belonged to nobody, as the last commit that
\* is there is in the history of the commit that the run started from.
LEMMA PushServer ==
  ASSUME StagingInv, NEW r \in Runs, ServerGrows, OthersWait(r), UNCHANGED prs,
         pc[r] = "process", pc' = [pc EXCEPT ![r] = "open"],
         UNCHANGED <<origin, pending, workTree>>,
         MovesForward(PrBranch(r), origin[r]),
         AddCommit({origin[r]}, workTree[r]),
         head' = [head EXCEPT ![PrBranch(r)] = NewCommit]
  PROVE  ServerPart'
<1> DEFINE own == PrBranch(r)
           new == NewCommit
<1>1. /\ TypeInv /\ Pushed /\ OneOwner /\ OwnedIsUnmerged /\ StagingPrIsComplete
      /\ commits \in Seq(Commit) /\ CommitsOK /\ HistoriesClosed
  BY DEF StagingInv, TypeInv, TypeOK
<1>2. Active(r) /\ StageContainers[r] # <<>> /\ InTarget(origin[r]) /\ origin[r] \in CommitIds
  BY <1>1 DEF Active, Steps, TypeInv, TypeOK, RunsOK, RunOK
<1>3. own \in Branches /\ own # Target
  BY <1>2, BranchFacts
<1>4. workTree[r] \in Tree
  BY <1>1 DEF TypeInv, TypeOK
<1>5. /\ commits'[new].tree = workTree[r]
      /\ commits'[new].ancestors = {new} \cup Ancestors(origin[r])
      /\ \A i \in CommitIds : commits'[i] = commits[i]
  <2>1. {origin[r]} \in SUBSET CommitIds
    BY <1>2
  <2>2. UNION {Ancestors(p) : p \in {origin[r]}} = Ancestors(origin[r])
    OBVIOUS
  <2>3. QED
    BY <1>1, <1>4, <2>1, <2>2, AppendCommit
<1>6. /\ head'[own] = new /\ \A b \in Branches : b # own => head'[b] = head[b]
      /\ pc'[r] = "open" /\ \A s \in Runs : s # r => pc'[s] = pc[s]
  BY <1>1, <1>3 DEF TypeInv, TypeOK
<1>7. new \notin CommitIds /\ \A i \in CommitIds : new \notin Ancestors(i)
  BY <1>1, NewCommitIsNew
<1>8. ~ Owned(own)
  <2> SUFFICES ASSUME Owned(own) PROVE FALSE
    OBVIOUS
  <2>1. ~ InTarget(head[own])
    BY <1>1, <1>3 DEF OwnedIsUnmerged
  <2>2. Exists(own)
    BY <1>1 DEF Owned, TypeInv, TypeOK, RunsOK, RunOK
  <2>3. head[own] \in Ancestors(origin[r])
    BY <2>2 DEF MovesForward
  <2>4. Ancestors(origin[r]) \subseteq Ancestors(head[Target])
    BY <1>1, <1>2, HeadIsCommit, BranchFacts DEF InTarget, HistoriesClosed
  <2>5. QED
    BY <1>2, <2>1, <2>3, <2>4 DEF InTarget
<1>9. /\ \A s \in Runs : pc[s] = "open" =>
           /\ PrBranch(s) \in Branches /\ PrBranch(s) # own
           /\ head[PrBranch(s)] \in CommitIds /\ origin[s] \in CommitIds
      /\ \A p \in prs :
           /\ p.branch \in Branches /\ p.branch # own
           /\ head[p.branch] \in CommitIds /\ p.origin \in CommitIds
  BY <1>1, <1>8, References DEF Owned
<1> HIDE DEF new, own
<1>10. Pushed'
  <2>1. ASSUME NEW s \in Runs, pc'[s] = "open"
        PROVE  /\ commits'[head'[PrBranch(s)]].tree = workTree'[s]
               /\ commits'[head'[PrBranch(s)]].ancestors
                    = {head'[PrBranch(s)]} \cup commits'[origin'[s]].ancestors
    <3>1. CASE s = r
      BY <1>2, <1>5, <1>6, <3>1 DEF own, Ancestors
    <3>2. CASE s # r
      <4>1. pc[s] = "open" /\ head'[PrBranch(s)] = head[PrBranch(s)]
        BY <1>6, <1>9, <2>1, <3>2
      <4>2. /\ commits[head[PrBranch(s)]].tree = workTree[s]
            /\ commits[head[PrBranch(s)]].ancestors
                 = {head[PrBranch(s)]} \cup commits[origin[s]].ancestors
        BY <1>1, <4>1 DEF Pushed, OnTop, TreeOf, Ancestors
      <4>3. head[PrBranch(s)] \in CommitIds /\ origin[s] \in CommitIds
        BY <1>9, <4>1
      <4>4. QED
        BY <1>5, <4>1, <4>2, <4>3
    <3>3. QED
      BY <3>1, <3>2
  <2>2. ASSUME NEW p \in prs
        PROVE  commits'[head'[p.branch]].ancestors
                 = {head'[p.branch]} \cup commits'[p.origin].ancestors
    BY <1>1, <1>5, <1>6, <1>9 DEF Pushed, OnTop, Ancestors
  <2>3. QED
    BY <2>1, <2>2 DEF Pushed, OnTop, TreeOf, Ancestors, PrBranch
<1>11. OneOwner'
  <2>1. \A s \in Runs : pc'[s] = "open" => s = r \/ (pc[s] = "open" /\ PrBranch(s) # own)
    BY <1>6, <1>9
  <2>2. QED
    BY <1>1, <1>9, <2>1 DEF OneOwner, PrBranch, own
<1>12. \A b \in Branches : b # own /\ Owned(b)' => Owned(b)
  BY <1>6 DEF Owned, PrBranch, own
<1>13. OwnedIsUnmerged'
  <2>1. head'[Target] = head[Target] /\ Exists(Target) /\ head[Target] \in CommitIds
    BY <1>1, <1>2, <1>3, <1>6, HeadIsCommit, BranchFacts DEF InTarget, own
  <2>2. commits'[head'[Target]].ancestors = Ancestors(head[Target])
    BY <1>5, <2>1 DEF Ancestors
  <2>3. \A b \in Branches : b # own /\ Owned(b) => head'[b] = head[b] /\ head[b] \in CommitIds
    BY <1>6, <1>9 DEF Owned
  <2>4. ASSUME NEW b \in Branches, Owned(b)'
        PROVE  /\ ~ InTarget(head[b])'
               /\ \A a \in Branches \ {b} : Owned(a)' => head'[a] # head'[b]
    <3>1. CASE b = own
      <4>1. head'[b] = new /\ new \notin Ancestors(head[Target])
        BY <1>6, <1>7, <2>1, <3>1
      <4>2. ~ InTarget(head[b])'
        BY <2>2, <4>1 DEF InTarget, Ancestors
      <4>3. QED
        BY <1>7, <1>12, <2>3, <3>1, <4>1, <4>2
    <3>2. CASE b # own
      <4>1. head'[b] = head[b] /\ Owned(b) /\ head[b] \in CommitIds
        BY <1>12, <2>3, <2>4, <3>2
      <4>2. head[b] \notin Ancestors(head[Target])
        BY <1>1, <2>1, <4>1 DEF OwnedIsUnmerged, InTarget
      <4>3. ~ InTarget(head[b])'
        BY <2>2, <4>1, <4>2 DEF InTarget, Ancestors
      <4>4. ASSUME NEW a \in Branches \ {b}, Owned(a)'
            PROVE  head'[a] # head'[b]
        <5>1. CASE a = own
          BY <1>6, <1>7, <4>1, <5>1
        <5>2. CASE a # own
          BY <1>1, <1>12, <2>3, <4>1, <4>4, <5>2 DEF OwnedIsUnmerged
        <5>3. QED
          BY <5>1, <5>2
      <4>5. QED
        BY <4>3, <4>4
    <3>3. QED
      BY <3>1, <3>2
  <2>5. QED
    BY <2>4 DEF OwnedIsUnmerged
<1>14. StagingPrIsComplete'
  <2>1. ASSUME NEW p \in prs
        PROVE  commits'[head'[p.branch]].tree
                 = Applied(p.internal, commits'[p.origin].tree, p.builds)
    BY <1>1, <1>5, <1>6, <1>9 DEF StagingPrIsComplete, TreeOf
  <2>2. QED
    BY <2>1 DEF StagingPrIsComplete, TreeOf
<1>15. QED
  BY <1>10, <1>11, <1>13, <1>14 DEF ServerPart

\* A pull request takes its run's branch over, with all containers of the list.
LEMMA CreateServer ==
  ASSUME StagingInv, NEW r \in Runs, CreatePullRequest(r)
  PROVE  ServerPart'
<1> DEFINE new == [branch   |-> PrBranch(r), origin |-> origin[r],
                   internal |-> IsInternal(r), builds |-> StageContainers[r]]
<1>1. /\ TypeInv /\ Pushed /\ OneOwner /\ OwnedIsUnmerged /\ StagingPrIsComplete
      /\ ServerPart
  BY DEF StagingInv, ServerPart
<1>2. /\ pc[r] = "open" /\ UNCHANGED <<commits, head>>
      /\ prs' = prs \/ prs' = prs \cup {new}
      /\ \E result \in {"succeeded", "failed"} : End(r, result)
  BY DEF CreatePullRequest
<1>3. /\ OthersWait(r) /\ ~ Active(r)'
  <2>1. PICK result \in {"succeeded", "failed"} : End(r, result)
    BY <1>2
  <2>2. /\ pc' = [pc EXCEPT ![r] = result]
        /\ origin' = [origin EXCEPT ![r] = NoCommit]
        /\ pending' = [pending EXCEPT ![r] = <<>>]
        /\ workTree' = [workTree EXCEPT ![r] = FirstTree]
    BY <2>1 DEF End
  <2>3. QED
    BY <1>1, <2>2 DEF OthersWait, TypeInv, TypeOK, Active, Steps
<1>4. \A s \in Runs : pc'[s] = "open" =>
        s # r /\ pc[s] = "open" /\ origin'[s] = origin[s] /\ workTree'[s] = workTree[s]
  BY <1>3 DEF OthersWait, Active, Steps
<1>5. CASE UNCHANGED prs
  BY <1>1, <1>2, <1>4, <1>5, QuietStep
<1>6. CASE prs' = prs \cup {new}
  <2>1. /\ new.branch = PrBranch(r) /\ new.origin = origin[r]
        /\ new.internal = IsInternal(r) /\ new.builds = StageContainers[r]
    OBVIOUS
  <2> HIDE DEF new
  <2>2. /\ \A s \in Runs : pc'[s] = "open" =>
             /\ TreeOf(head[PrBranch(s)]) = workTree'[s]
             /\ OnTop(head[PrBranch(s)], origin'[s])
        /\ \A p \in prs' : OnTop(head[p.branch], p.origin)
    BY <1>1, <1>2, <1>4, <1>6, <2>1 DEF Pushed
  <2>3. Pushed'
    BY <1>2, <2>2 DEF Pushed, OnTop, TreeOf, Ancestors, PrBranch
  <2>4. OneOwner'
    BY <1>1, <1>2, <1>4, <1>6, <2>1 DEF OneOwner, PrBranch
  <2>5. \A b \in Branches : Owned(b)' => Owned(b)
    BY <1>2, <1>4, <1>6, <2>1 DEF Owned, PrBranch
  <2>6. OwnedIsUnmerged'
    BY <1>1, <1>2, <2>5 DEF OwnedIsUnmerged, InTarget, Exists, Ancestors
  <2>7. TreeOf(head[new.branch]) = Applied(new.internal, TreeOf(new.origin), new.builds)
    <3>1. TreeOf(head[PrBranch(r)]) = workTree[r]
      BY <1>1, <1>2 DEF Pushed
    <3>2. Active(r) /\ pending[r] = <<>> /\ Len(StageContainers[r]) \in Nat
      BY <1>1, <1>2, StagingAssumption DEF Active, Steps, TypeInv, RunsOK, RunOK
    <3>3. Done(r) = Len(StageContainers[r])
      BY <3>2 DEF Done
    <3>4. workTree[r] = ContentsOf(r)[Done(r)]
      BY <3>2 DEF StagingInv, Processing, RunProcessing
    <3>5. QED
      BY <2>1, <3>1, <3>3, <3>4 DEF ContentsOf, Applied
  <2>8. StagingPrIsComplete'
    <3>1. \A p \in prs' : TreeOf(head[p.branch]) = Applied(p.internal, TreeOf(p.origin), p.builds)
      BY <1>1, <1>6, <2>7 DEF StagingPrIsComplete
    <3>2. QED
      BY <1>2, <3>1 DEF StagingPrIsComplete, TreeOf
  <2>9. QED
    BY <2>3, <2>4, <2>6, <2>8 DEF ServerPart
<1>7. QED
  BY <1>2, <1>5, <1>6

\* A sync of the internal branch.
LEMMA SyncServer ==
  ASSUME StagingInv, SyncTarget, ServerGrows
  PROVE  ServerPart'
<1>1. /\ TypeInv /\ ServerPart /\ OwnedIsUnmerged /\ commits \in Seq(Commit) /\ CommitsOK
  BY DEF StagingInv, ServerPart, TypeInv, TypeOK
<1>2. /\ Exists(Target) /\ UNCHANGED <<prs, run>>
      /\ head' = [head EXCEPT ![Target] = NewCommit]
  BY DEF SyncTarget
<1>3. PICK tree \in Synced(TreeOf(head[Target])) : AddCommit({head[Target]}, tree)
  BY DEF SyncTarget
<1>4. head[Target] \in CommitIds /\ tree \in Tree
  BY <1>1, <1>2, <1>3, HeadIsCommit, CommitTrees, BranchFacts, SyncedType
<1>5. commits'[NewCommit].ancestors = {NewCommit} \cup Ancestors(head[Target])
  <2>1. {head[Target]} \in SUBSET CommitIds
    BY <1>4
  <2>2. UNION {Ancestors(p) : p \in {head[Target]}} = Ancestors(head[Target])
    OBVIOUS
  <2>3. QED
    BY <1>1, <1>3, <1>4, <2>1, <2>2, AppendCommit
<1>6. ASSUME NEW b \in Branches, Owned(b)
      PROVE  head[b] \notin commits'[NewCommit].ancestors
  <2>1. head[b] \in CommitIds /\ head[b] # NewCommit
    BY <1>1, <1>4, <1>6, References, NewCommitIsNew DEF Owned
  <2>2. head[b] \notin Ancestors(head[Target])
    BY <1>1, <1>2, <1>6 DEF OwnedIsUnmerged, InTarget
  <2>3. QED
    BY <1>5, <2>1, <2>2
<1>7. QED
  BY <1>1, <1>2, <1>6, TargetMoves

\* A pull request is completed.  Its branch belongs to nobody then, and the other
\* branches' last commits are not in its history.
LEMMA CompleteServer ==
  ASSUME StagingInv, NEW p \in prs, NEW style \in MergeStyles, CompletePullRequest(p, style),
         ServerGrows
  PROVE  ServerPart'
<1> DEFINE ours   == head[Target]
           theirs == head[p.branch]
           base   == TreeOf(MergeBase(ours, theirs))
           merged == MergeTrees(base, TreeOf(ours), TreeOf(theirs))
<1>1. /\ TypeInv /\ ServerPart /\ Pushed /\ OneOwner /\ OwnedIsUnmerged
      /\ commits \in Seq(Commit) /\ CommitsOK /\ HistoriesClosed
  BY DEF StagingInv, ServerPart, TypeInv, TypeOK
<1>2. /\ \/ UNCHANGED commits /\ head' = [head EXCEPT ![Target] = theirs]
         \/ /\ AddCommit({ours, theirs}, merged) \/ AddCommit({ours}, merged)
            /\ head' = [head EXCEPT ![Target] = NewCommit]
      /\ prs' = prs \ {p} /\ UNCHANGED run
  BY DEF CompletePullRequest, Merge
<1>3. /\ p.branch \in Branches /\ p.branch # Target /\ p.origin \in CommitIds
      /\ theirs \in CommitIds /\ InTarget(p.origin) /\ Exists(Target)
      /\ OnTop(theirs, p.origin)
  BY <1>1, References DEF Pushed, InTarget
<1>4. ours \in CommitIds
  BY <1>1, <1>3, HeadIsCommit, BranchFacts
<1>5. merged \in Tree
  BY <1>1, <1>3, <1>4, CommitTrees, MergeType
<1>6. Ancestors(theirs) = {theirs} \cup Ancestors(p.origin)
      /\ Ancestors(p.origin) \subseteq Ancestors(ours)
  BY <1>1, <1>3, <1>4 DEF OnTop, InTarget, HistoriesClosed
<1>7. ASSUME NEW b \in Branches, Owned(b), Owned(b)'
      PROVE  head[b] \in CommitIds /\ head[b] # theirs /\ head[b] \notin Ancestors(ours)
  <2>1. head[b] \in CommitIds
    BY <1>1, <1>7, References DEF Owned
  <2>2. head[b] \notin Ancestors(ours)
    BY <1>1, <1>3, <1>7 DEF OwnedIsUnmerged, InTarget
  <2>3. b # p.branch
    <3>1. CASE \E r \in Runs : pc'[r] = "open" /\ PrBranch(r) = b
      BY <1>1, <1>2, <3>1 DEF OneOwner, run
    <3>2. CASE \E q \in prs' : q.branch = b
      BY <1>1, <1>2, <3>2 DEF OneOwner
    <3>3. QED
      BY <1>7, <3>1, <3>2 DEF Owned, PrBranch
  <2>4. Owned(p.branch)
    BY DEF Owned
  <2>5. head[b] # theirs
    BY <1>1, <1>3, <1>7, <2>3, <2>4 DEF OwnedIsUnmerged
  <2>6. QED
    BY <2>1, <2>2, <2>5
<1> HIDE DEF merged, ours, theirs
<1>8. CASE UNCHANGED commits /\ head' = [head EXCEPT ![Target] = theirs]
  <2>1. ASSUME NEW b \in Branches, Owned(b), Owned(b)'
        PROVE  head[b] \notin commits'[theirs].ancestors
    BY <1>6, <1>7, <1>8, <2>1 DEF Ancestors
  <2>2. prs' \subseteq prs
    BY <1>2
  <2>3. QED
    BY <1>1, <1>2, <1>8, <2>1, <2>2, TargetMoves
<1>9. CASE /\ AddCommit({ours, theirs}, merged) \/ AddCommit({ours}, merged)
           /\ head' = [head EXCEPT ![Target] = NewCommit]
  <2>1. PICK parents \in {{ours, theirs}, {ours}} : AddCommit(parents, merged)
    BY <1>9
  <2>2. parents \in SUBSET CommitIds
    BY <1>3, <1>4
  <2>3. commits'[NewCommit].ancestors = {NewCommit} \cup UNION {Ancestors(q) : q \in parents}
    BY <1>1, <1>5, <2>1, <2>2, AppendCommit
  <2>4. ASSUME NEW b \in Branches, Owned(b), Owned(b)'
        PROVE  head[b] \notin commits'[NewCommit].ancestors
    <3>1. /\ head[b] \in CommitIds /\ head[b] # theirs /\ head[b] \notin Ancestors(ours)
          /\ head[b] # NewCommit
      BY <1>1, <1>4, <1>7, <2>4, NewCommitIsNew
    <3>2. \A q \in parents : head[b] \notin Ancestors(q)
      BY <1>6, <3>1
    <3>3. QED
      BY <2>3, <3>1, <3>2
  <2>5. prs' \subseteq prs
    BY <1>2
  <2>6. QED
    BY <1>1, <1>2, <1>9, <2>4, <2>5, TargetMoves
<1>10. QED
  BY <1>2, <1>8, <1>9

LEMMA InitStagingInv == Init => StagingInv
<1> SUFFICES ASSUME Init PROVE StagingInv
  OBVIOUS
<1>1. TypeInv
  BY InitTypeInv
<1>2. prs = {} /\ pc = [r \in Runs |-> "idle"]
  BY DEF Init
<1>3. Processing /\ Pushed /\ OneOwner /\ OwnedIsUnmerged /\ StagingPrIsComplete
  BY <1>2 DEF Processing, RunProcessing, Pushed, OneOwner, OwnedIsUnmerged, Owned,
     StagingPrIsComplete, Active, Steps
<1>4. QED
  BY <1>1, <1>3 DEF StagingInv

\* Every step keeps StagingInv.
THEOREM StagingInvInductive == StagingInv /\ [Next]_vars => StagingInv'
<1> SUFFICES ASSUME StagingInv, [Next]_vars PROVE StagingInv'
  OBVIOUS
<1>1. TypeInv /\ Processing /\ ServerPart
  BY DEF StagingInv, ServerPart
<1>2. SUFFICES Processing' /\ ServerPart'
  <2>1. TypeInv'
    BY <1>1, TypeInvInductive
  <2>2. QED
    BY <2>1 DEF StagingInv, ServerPart
<1>3. ASSUME NEW r \in Runs, Start(r) \/ Retry(r)
      PROVE  Processing' /\ ServerPart'
  <2>1. Clone(r)
    BY <1>3 DEF Start, Retry
  <2>2. OthersWait(r) /\ UNCHANGED <<commits, head, prs>>
    BY <1>1, <2>1, CloneOK DEF Clone
  <2>3. pc'[r] # "open"
    BY <1>1, <2>1 DEF Clone, End, TypeInv, TypeOK
  <2>4. QED
    BY <1>1, <2>1, <2>2, <2>3, CloneProcessing, QuietStep DEF OthersWait
<1>4. ASSUME NEW r \in Runs, ProcessStageContainer(r)
      PROVE  Processing' /\ ServerPart'
  <2>1. OthersWait(r) /\ UNCHANGED <<commits, head, prs>>
    BY <1>1, <1>4, ProcessOK DEF ProcessStageContainer
  <2>2. pc'[r] # "open"
    BY <1>1, <1>4 DEF ProcessStageContainer, End, TypeInv, TypeOK
  <2>3. QED
    BY <1>1, <1>4, <2>1, <2>2, ProcessProcessing, QuietStep DEF OthersWait
<1>5. ASSUME NEW r \in Runs, End(r, "failed"), UNCHANGED <<commits, head, prs>>
      PROVE  Processing' /\ ServerPart'
  <2>1. OthersWait(r) /\ ~ Active(r)' /\ ServerGrows
    BY <1>1, <1>5, EndOK, ServerUnchanged
  <2>2. \A s \in Runs : pc'[s] = "open" =>
          pc[s] = "open" /\ origin'[s] = origin[s] /\ workTree'[s] = workTree[s]
    BY <2>1 DEF OthersWait, Active, Steps
  <2>3. QED
    BY <1>1, <1>5, <2>1, <2>2, EndProcessing, QuietStep
<1>6. ASSUME NEW r \in Runs, ContainerFails(r) \/ Fail(r)
      PROVE  Processing' /\ ServerPart'
  BY <1>5, <1>6 DEF ContainerFails, Fail, AfterFailure
<1>7. ASSUME NEW r \in Runs, Push(r)
      PROVE  Processing' /\ ServerPart'
  <2>1. ServerGrows /\ OthersWait(r) /\ UNCHANGED prs /\ pc[r] = "process"
    BY <1>1, <1>7, PushOK DEF Push
  <2>2. CASE ~ MovesForward(PrBranch(r), origin[r])
    BY <1>5, <1>7, <2>1, <2>2 DEF Push
  <2>3. CASE MovesForward(PrBranch(r), origin[r])
    <3>1. /\ AddCommit({origin[r]}, workTree[r])
          /\ head' = [head EXCEPT ![PrBranch(r)] = NewCommit]
          /\ pc' = [pc EXCEPT ![r] = "open"]
          /\ UNCHANGED <<origin, pending, workTree>>
      BY <1>7, <2>3 DEF Push
    <3>2. ServerPart'
      BY <2>1, <2>3, <3>1, PushServer
    <3>3. \A s \in Runs : Active(s)' => Active(s)
      BY <1>1, <2>1, <3>1 DEF TypeInv, TypeOK, Active, Steps
    <3>4. ASSUME NEW s \in Runs
          PROVE  RunProcessing(s)'
      BY <1>1, <2>1, <3>1, <3>3, WaitingProcessing
    <3>5. QED
      BY <3>2, <3>4 DEF Processing
  <2>4. QED
    BY <2>2, <2>3
<1>8. ASSUME NEW r \in Runs, CreatePullRequest(r)
      PROVE  Processing' /\ ServerPart'
  <2>1. ServerGrows /\ OthersWait(r)
    BY <1>1, <1>8, CreatePullRequestOK
  <2>2. PICK result \in {"succeeded", "failed"} : End(r, result)
    BY <1>8 DEF CreatePullRequest
  <2>3. ~ Active(r)'
    BY <1>1, <2>1, <2>2, EndOK
  <2>4. QED
    BY <1>1, <1>8, <2>1, <2>3, EndProcessing, CreateServer
<1>9. ASSUME ServerGrows, UNCHANGED run
      PROVE  Processing'
  BY <1>1, <1>9, WaitingProcessing DEF Processing, run, Active
<1>10. CASE SyncTarget
  BY <1>1, <1>9, <1>10, SyncTargetOK, SyncServer DEF SyncTarget
<1>11. ASSUME NEW p \in prs, NEW style \in MergeStyles, CompletePullRequest(p, style)
       PROVE  Processing' /\ ServerPart'
  BY <1>1, <1>9, <1>11, CompletePullRequestOK, CompleteServer DEF CompletePullRequest
<1>12. CASE UNCHANGED vars
  <2>1. UNCHANGED <<commits, head, prs, run>> /\ UNCHANGED <<pc, origin, pending, workTree>>
    BY <1>12 DEF vars, run
  <2>2. QED
    BY <1>1, <1>9, <2>1, ServerUnchanged, QuietStep
<1>13. QED
  BY <1>3, <1>4, <1>6, <1>7, <1>8, <1>10, <1>11, <1>12 DEF Next

\* A reviewer of an open pull request sees every build that its body lists, applied in
\* order to the content that the run started from, whatever other runs pushed, how
\* often the run was retried and what it failed at (FromStagingPipelineCommand).
THEOREM StagingPrComplete == Spec => []StagingPrIsComplete
<1>1. StagingInv => StagingPrIsComplete
  BY DEF StagingInv
<1>2. QED
  BY <1>1, InitStagingInv, StagingInvInductive, PTL DEF Spec

-----------------------------------------------------------------------------
(* What a merge makes of a pull request.                                   *)

\* The same builds applied to two contents, t and u, make T and U of them.  A part of
\* the content is then either left alone in both, or set in both to the same thing,
\* which is not what t has.
LeftAlone(t, T, u, U) == T = t /\ U = u
SetAlike(t, T, U) == U = T /\ T # t
ChangedAlike(t, T, u, U) == LeftAlone(t, T, u, U) \/ SetAlike(t, T, U)

SameEffect(t, T, u, U, v) ==
  /\ ChangedAlike(t.recorded[v], T.recorded[v], u.recorded[v], U.recorded[v])
  /\ ChangedAlike(t.runtime[v], T.runtime[v], u.runtime[v], U.runtime[v])
  /\ ChangedAlike(t.sdk[v], T.sdk[v], u.sdk[v], U.sdk[v])
  /\ ChangedAlike(t.dotnetUrl[v], T.dotnetUrl[v], u.dotnetUrl[v], U.dotnetUrl[v])
  /\ ChangedAlike(t.sdkUrl[v], T.sdkUrl[v], u.sdkUrl[v], U.sdkUrl[v])

\* One more build has the same effect on both, if the first content does not name it.
LEMMA OneMoreBuild ==
  ASSUME NEW t \in Tree, NEW T \in Tree, NEW u \in Tree, NEW U \in Tree,
         NEW v \in Versions, SameEffect(t, T, u, U, v),
         NEW c \in Containers, VersionOf[c] = v => ~ Names(t, c)
  PROVE  SameEffect(t, ApplyInternalBuild(T, c), u, ApplyInternalBuild(U, c), v)
<1> DEFINE T1 == ApplyInternalBuild(T, c)
           U1 == ApplyInternalBuild(U, c)
           own  == v = VersionOf[c]
           full == c \notin SdkOnly
<1>1. /\ T1.recorded[v] = IF own THEN c ELSE T.recorded[v]
      /\ T1.sdk[v] = IF own THEN Internal(c) ELSE T.sdk[v]
      /\ T1.runtime[v] = IF own /\ full THEN Internal(c) ELSE T.runtime[v]
      /\ T1.dotnetUrl[v] = IF own /\ full THEN c ELSE T.dotnetUrl[v]
      /\ T1.sdkUrl[v] = IF own /\ ~ full THEN c ELSE T.sdkUrl[v]
  BY InternalFields
<1>2. /\ U1.recorded[v] = IF own THEN c ELSE U.recorded[v]
      /\ U1.sdk[v] = IF own THEN Internal(c) ELSE U.sdk[v]
      /\ U1.runtime[v] = IF own /\ full THEN Internal(c) ELSE U.runtime[v]
      /\ U1.dotnetUrl[v] = IF own /\ full THEN c ELSE U.dotnetUrl[v]
      /\ U1.sdkUrl[v] = IF own /\ ~ full THEN c ELSE U.sdkUrl[v]
  BY InternalFields
<1>3. own => /\ t.recorded[v] # c /\ t.dotnetUrl[v] # c /\ t.sdkUrl[v] # c
             /\ t.runtime[v] # Internal(c) /\ t.sdk[v] # Internal(c)
  BY DEF Names
<1> HIDE DEF T1, U1, own, full
<1>4. ASSUME ~ own PROVE SameEffect(t, T1, u, U1, v)
  BY <1>1, <1>2, <1>4 DEF SameEffect
<1>5. ASSUME own PROVE SameEffect(t, T1, u, U1, v)
  <2>1. /\ ChangedAlike(t.recorded[v], T1.recorded[v], u.recorded[v], U1.recorded[v])
        /\ ChangedAlike(t.sdk[v], T1.sdk[v], u.sdk[v], U1.sdk[v])
    BY <1>1, <1>2, <1>3, <1>5 DEF ChangedAlike, SetAlike
  <2>2. /\ ChangedAlike(t.runtime[v], T1.runtime[v], u.runtime[v], U1.runtime[v])
        /\ ChangedAlike(t.dotnetUrl[v], T1.dotnetUrl[v], u.dotnetUrl[v], U1.dotnetUrl[v])
    BY <1>1, <1>2, <1>3, <1>5 DEF SameEffect, ChangedAlike, SetAlike
  <2>3. ChangedAlike(t.sdkUrl[v], T1.sdkUrl[v], u.sdkUrl[v], U1.sdkUrl[v])
    BY <1>1, <1>2, <1>3, <1>5 DEF SameEffect, ChangedAlike, SetAlike
  <2>4. QED
    BY <2>1, <2>2, <2>3 DEF SameEffect
<1>6. SameEffect(t, T1, u, U1, v)
  BY <1>4, <1>5
<1>7. QED
  BY <1>6 DEF T1, U1

\* And so has a list of them.
LEMMA SameListSameEffect ==
  ASSUME NEW internal, internal = TRUE, NEW t \in Tree, NEW u \in Tree,
         NEW list \in Seq(Containers), NEW v \in Versions,
         \A i \in 1 .. Len(list) : VersionOf[list[i]] = v => ~ Names(t, list[i])
  PROVE  SameEffect(t, Applied(internal, t, list), u, Applied(internal, u, list), v)
<1> DEFINE T == Contents(internal, t, list)
           U == Contents(internal, u, list)
           S == {n \in 0 .. Len(list) : SameEffect(t, T[n], u, U[n], v)}
<1>1. Len(list) \in Nat /\ \A n \in 1 .. Len(list) : list[n] \in Containers
  OBVIOUS
<1>2. Stepwise(T, internal, t, list)
  BY ContentsSteps
<1>3. Stepwise(U, internal, u, list)
  BY ContentsSteps
<1> HIDE DEF T, U
<1>4. 0 \in S
  BY <1>1, <1>2, <1>3 DEF Stepwise, SameEffect, ChangedAlike, LeftAlone
<1>5. ASSUME NEW n \in 0 .. Len(list) - 1, n \in S
      PROVE  n + 1 \in S
  <2>1. n + 1 \in 1 .. Len(list) /\ (n + 1) - 1 = n /\ n + 1 \in 0 .. Len(list)
    BY <1>1
  <2>2. /\ T[n + 1] = ApplyInternalBuild(T[n], list[n + 1])
        /\ U[n + 1] = ApplyInternalBuild(U[n], list[n + 1])
    BY <1>2, <1>3, <2>1 DEF Stepwise, Apply
  <2>3. /\ T[n] \in Tree /\ U[n] \in Tree /\ list[n + 1] \in Containers
        /\ SameEffect(t, T[n], u, U[n], v)
    BY <1>1, <1>2, <1>3, <1>5, <2>1 DEF Stepwise
  <2>4. VersionOf[list[n + 1]] = v => ~ Names(t, list[n + 1])
    BY <2>1
  <2>5. SameEffect(t, T[n + 1], u, U[n + 1], v)
    BY <2>2, <2>3, <2>4, OneMoreBuild
  <2>6. QED
    BY <2>1, <2>5
<1> HIDE DEF S
<1>6. 0 .. Len(list) \subseteq S
  BY <1>1, <1>4, <1>5, Induction
<1>7. Len(list) \in S
  BY <1>1, <1>6
<1>8. QED
  BY <1>7 DEF S, T, U, Applied

\* What every content that a list of builds makes has, if the one that it is applied
\* to has it and each build keeps it.
LEMMA ListKeeps ==
  ASSUME NEW internal, NEW tree \in Tree, NEW list \in Seq(Containers),
         NEW Good, tree \in Good,
         \A t \in Tree, c \in Containers : t \in Good => Apply(internal, t, c) \in Good
  PROVE  Applied(internal, tree, list) \in Good
<1> DEFINE after == Contents(internal, tree, list)
           S == {n \in 0 .. Len(list) : after[n] \in Good}
<1>1. Len(list) \in Nat /\ \A n \in 1 .. Len(list) : list[n] \in Containers
  OBVIOUS
<1>2. Stepwise(after, internal, tree, list)
  BY ContentsSteps
<1> HIDE DEF after
<1>3. 0 \in S
  BY <1>1, <1>2 DEF Stepwise
<1>4. ASSUME NEW n \in 0 .. Len(list) - 1, n \in S
      PROVE  n + 1 \in S
  <2>1. n + 1 \in 1 .. Len(list) /\ (n + 1) - 1 = n /\ n + 1 \in 0 .. Len(list)
    BY <1>1
  <2>2. after[n + 1] = Apply(internal, after[n], list[n + 1])
    BY <1>2, <2>1 DEF Stepwise
  <2>3. after[n] \in Tree /\ after[n] \in Good /\ list[n + 1] \in Containers
    BY <1>1, <1>2, <1>4, <2>1 DEF Stepwise
  <2>4. QED
    BY <2>1, <2>2, <2>3
<1> HIDE DEF S
<1>5. 0 .. Len(list) \subseteq S
  BY <1>1, <1>3, <1>4, Induction
<1>6. Len(list) \in S
  BY <1>1, <1>5
<1>7. QED
  BY <1>6 DEF S, after, Applied

LEMMA AppliedType ==
  ASSUME NEW internal, NEW tree \in Tree, NEW list \in Seq(Containers)
  PROVE  Applied(internal, tree, list) \in Tree
  BY ListKeeps, ApplyOneType

\* No build changes what the release branch brings.
LEMMA AppliedEdits ==
  ASSUME NEW internal, NEW tree \in Tree, NEW list \in Seq(Containers)
  PROVE  Applied(internal, tree, list).edits = tree.edits
<1> DEFINE Good == {t \in Tree : t.edits = tree.edits}
<1>1. ASSUME NEW t \in Tree, NEW c \in Containers
      PROVE  Apply(internal, t, c).edits = t.edits
  <2>1. CASE internal
    BY <2>1, InternalFields DEF Apply
  <2>2. CASE ~ internal
    BY <2>2, PublicFields DEF Apply
  <2>3. QED
    BY <2>1, <2>2
<1>2. \A t \in Tree, c \in Containers : t \in Good => Apply(internal, t, c) \in Good
  BY <1>1, ApplyOneType
<1>3. tree \in Good
  OBVIOUS
<1>4. Applied(internal, tree, list) \in Good
  <2> HIDE DEF Good
  <2> QED BY <1>2, <1>3, ListKeeps
<1>5. QED
  BY <1>4

\* The merge of what builds made of an older content is the update of the newer one,
\* for the versions on which they have the same effect.
LEMMA MergeIsUpdate ==
  ASSUME NEW t \in Tree, NEW T \in Tree, NEW u \in Tree, NEW U \in Tree,
         NEW v \in Versions, SameEffect(t, T, u, U, v), Mergeable(t, u, T)
  PROVE  OfVersion(MergeTrees(t, u, T), v) = OfVersion(U, v)
<1> DEFINE merged == MergeTrees(t, u, T)
<1>1. \A b, o, m, r : ~ Conflict3(b, o, m) /\ ChangedAlike(b, m, o, r) => Merge3(b, o, m) = r
  BY DEF Conflict3, Merge3, ChangedAlike, LeftAlone, SetAlike
<1>2. /\ ~ Conflict3(t.recorded[v], u.recorded[v], T.recorded[v])
      /\ ~ Conflict3(t.runtime[v], u.runtime[v], T.runtime[v])
      /\ ~ Conflict3(t.sdk[v], u.sdk[v], T.sdk[v])
      /\ ~ Conflict3(t.dotnetUrl[v], u.dotnetUrl[v], T.dotnetUrl[v])
      /\ ~ Conflict3(t.sdkUrl[v], u.sdkUrl[v], T.sdkUrl[v])
  BY DEF Mergeable
<1>3. /\ Merge3(t.recorded[v], u.recorded[v], T.recorded[v]) = U.recorded[v]
      /\ Merge3(t.runtime[v], u.runtime[v], T.runtime[v]) = U.runtime[v]
      /\ Merge3(t.sdk[v], u.sdk[v], T.sdk[v]) = U.sdk[v]
      /\ Merge3(t.dotnetUrl[v], u.dotnetUrl[v], T.dotnetUrl[v]) = U.dotnetUrl[v]
      /\ Merge3(t.sdkUrl[v], u.sdkUrl[v], T.sdkUrl[v]) = U.sdkUrl[v]
  BY <1>1, <1>2 DEF SameEffect
<1>4. /\ merged.recorded[v] = U.recorded[v] /\ merged.runtime[v] = U.runtime[v]
      /\ merged.sdk[v] = U.sdk[v] /\ merged.dotnetUrl[v] = U.dotnetUrl[v]
      /\ merged.sdkUrl[v] = U.sdkUrl[v]
  BY <1>3 DEF MergeTrees, MergeVersions
<1> HIDE DEF merged
<1>5. OfVersion(merged, v) = OfVersion(U, v)
  BY <1>4 DEF OfVersion
<1>6. QED
  BY <1>5 DEF merged

LEMMA MergeKeepsEdits ==
  ASSUME NEW t \in Tree, NEW T \in Tree, NEW u \in Tree, T.edits = t.edits
  PROVE  MergeTrees(t, u, T).edits = u.edits
<1>1. \A e \in Edits : Merge3(e \in t.edits, e \in u.edits, e \in T.edits) = (e \in u.edits)
  BY Zenon DEF Merge3
<1>2. u.edits \subseteq Edits
  BY DEF Tree
<1>3. MergeTrees(t, u, T).edits
        = {e \in Edits : Merge3(e \in t.edits, e \in u.edits, e \in T.edits)}
  BY DEF MergeTrees
<1>4. QED
  BY <1>1, <1>2, <1>3

\* The base of a merge is the commit that the run of the pull request started from.
LEMMA BaseIsOrigin ==
  ASSUME StagingInv, NEW p \in prs
  PROVE  /\ MergeBase(head[Target], head[p.branch]) = p.origin
         /\ head[Target] \in Ancestors(head[p.branch]) => head[Target] = p.origin
<1> DEFINE ours   == head[Target]
           theirs == head[p.branch]
<1>1. TypeInv /\ Pushed /\ OwnedIsUnmerged /\ CommitsOK /\ HistoriesClosed
  BY DEF StagingInv, TypeInv
<1>2. /\ p.branch \in Branches /\ p.branch # Target /\ p.origin \in CommitIds
      /\ theirs \in CommitIds /\ InTarget(p.origin) /\ Exists(Target)
  BY <1>1, References DEF InTarget
<1>3. ours \in CommitIds
  BY <1>1, <1>2, HeadIsCommit, BranchFacts
<1>4. theirs \notin Ancestors(ours)
  BY <1>1, <1>2 DEF OwnedIsUnmerged, Owned, InTarget
<1>5. p.origin \in Ancestors(ours) /\ Ancestors(theirs) = {theirs} \cup Ancestors(p.origin)
  BY <1>1, <1>2 DEF Pushed, OnTop, InTarget
<1>6. Ancestors(p.origin) \subseteq Ancestors(ours) /\ Ancestors(p.origin) \subseteq 1 .. p.origin
      /\ p.origin \in Ancestors(p.origin) /\ ours \in Ancestors(ours)
      /\ Ancestors(ours) \subseteq 1 .. ours
  BY <1>1, <1>2, <1>3, <1>5 DEF HistoriesClosed, CommitsOK
<1>7. Ancestors(ours) \cap Ancestors(theirs) = Ancestors(p.origin)
  BY <1>4, <1>5, <1>6
<1>8. p.origin \in Nat /\ ours \in Nat
  BY <1>2, <1>3 DEF CommitIds
<1>9. MergeBase(ours, theirs) = p.origin
  <2> DEFINE common == Ancestors(ours) \cap Ancestors(theirs)
  <2>1. /\ p.origin \in common /\ \A k \in common : k \in Nat /\ k <= p.origin
    BY <1>6, <1>7, <1>8
  <2> HIDE DEF common
  <2>2. \A k \in common : (\A l \in common : l <= k) => k = p.origin
    BY <1>8, <2>1
  <2>3. (CHOOSE k \in common : \A l \in common : l <= k) = p.origin
    BY <2>1, <2>2
  <2>4. QED
    BY <2>3 DEF MergeBase, common
<1>10. ASSUME ours \in Ancestors(theirs)
       PROVE  ours = p.origin
  <2>1. ours \in Ancestors(p.origin)
    BY <1>4, <1>5, <1>6, <1>10
  <2>2. ours <= p.origin /\ p.origin <= ours
    BY <1>5, <1>6, <2>1
  <2>3. QED
    BY <1>8, <2>2
<1>11. QED
  BY <1>9, <1>10

\* A completed pull request.
LEMMA CompleteUpdates ==
  ASSUME StagingInv, NEW p \in prs, NEW style \in MergeStyles, CompletePullRequest(p, style)
  PROVE  LET merged  == commits'[head'[Target]].tree
             updated == Applied(p.internal, TreeOf(head[Target]), p.builds)
         IN /\ Exists(Target) /\ TreeOf(head[Target]) \in Tree
            /\ merged.edits = updated.edits
            /\ \A v \in Versions : BringsNew(p, v) => OfVersion(merged, v) = OfVersion(updated, v)
<1> DEFINE ours   == head[Target]
           theirs == head[p.branch]
           base   == TreeOf(MergeBase(ours, theirs))
           merged == MergeTrees(base, TreeOf(ours), TreeOf(theirs))
           U      == Applied(p.internal, TreeOf(ours), p.builds)
<1>1. TypeInv /\ TreeOf(theirs) = Applied(p.internal, TreeOf(p.origin), p.builds)
  BY DEF StagingInv, StagingPrIsComplete
<1>2. /\ Mergeable(base, TreeOf(ours), TreeOf(theirs))
      /\ \/ /\ ours \in Ancestors(theirs)
            /\ UNCHANGED commits /\ head' = [head EXCEPT ![Target] = theirs]
         \/ /\ AddCommit({ours, theirs}, merged) \/ AddCommit({ours}, merged)
            /\ head' = [head EXCEPT ![Target] = NewCommit]
  BY DEF CompletePullRequest, Merge
<1>3. /\ p.origin \in CommitIds /\ theirs \in CommitIds /\ Exists(Target)
      /\ p.builds \in Seq(Containers) /\ p.internal \in BOOLEAN
  BY <1>1, References DEF InTarget, TypeInv, TypeOK, PullRequest
<1>4. ours \in CommitIds
  BY <1>1, <1>3, HeadIsCommit, BranchFacts
<1>5. base = TreeOf(p.origin) /\ (ours \in Ancestors(theirs) => ours = p.origin)
  BY BaseIsOrigin
<1>6. TreeOf(p.origin) \in Tree /\ TreeOf(theirs) \in Tree /\ TreeOf(ours) \in Tree
  BY <1>1, <1>3, <1>4, CommitTrees
<1>7. \A i : head' = [head EXCEPT ![Target] = i] => head'[Target] = i
  BY <1>1, BranchFacts DEF TypeInv, TypeOK
<1>8. merged \in Tree
  BY <1>5, <1>6, MergeType
<1> HIDE DEF ours, theirs, base, merged, U
<1>9. U \in Tree
  BY <1>3, <1>6, AppliedType DEF U
<1>10. /\ TreeOf(theirs).edits = TreeOf(p.origin).edits
       /\ U.edits = TreeOf(ours).edits
  BY <1>1, <1>3, <1>6, AppliedEdits DEF U
<1>11. merged.edits = U.edits
  BY <1>5, <1>6, <1>10, MergeKeepsEdits DEF merged
<1>12. ASSUME NEW v \in Versions, BringsNew(p, v)
       PROVE  OfVersion(merged, v) = OfVersion(U, v)
  <2>1. /\ p.internal = TRUE
        /\ \A i \in 1 .. Len(p.builds) :
             VersionOf[p.builds[i]] = v => ~ Names(TreeOf(p.origin), p.builds[i])
    BY <1>3, <1>12 DEF BringsNew
  <2>2. SameEffect(TreeOf(p.origin), TreeOf(theirs), TreeOf(ours), U, v)
    BY <1>1, <1>3, <1>6, <2>1, SameListSameEffect DEF U
  <2>3. QED
    BY <1>2, <1>5, <1>6, <1>9, <2>2, MergeIsUpdate DEF merged
<1>13. commits'[head'[Target]].tree \in {U, merged}
  <2>1. CASE /\ ours \in Ancestors(theirs)
             /\ UNCHANGED commits /\ head' = [head EXCEPT ![Target] = theirs]
    <3>1. commits'[head'[Target]].tree = TreeOf(theirs)
      BY <1>7, <2>1 DEF TreeOf
    <3>2. TreeOf(theirs) = U
      BY <1>1, <1>5, <2>1 DEF U
    <3>3. QED
      BY <3>1, <3>2
  <2>2. CASE /\ AddCommit({ours, theirs}, merged) \/ AddCommit({ours}, merged)
             /\ head' = [head EXCEPT ![Target] = NewCommit]
    <3>1. PICK parents \in {{ours, theirs}, {ours}} : AddCommit(parents, merged)
      BY <2>2
    <3>2. parents \in SUBSET CommitIds
      BY <1>3, <1>4
    <3>3. commits'[NewCommit].tree = merged
      BY <1>1, <1>8, <3>1, <3>2, AppendCommit DEF TypeInv, TypeOK
    <3>4. QED
      BY <1>7, <2>2, <3>3
  <2>3. QED
    BY <1>2, <2>1, <2>2
<1>14. QED
  BY <1>3, <1>6, <1>11, <1>12, <1>13 DEF U, ours

\* However late a pull request is completed, and whatever was merged before it, its
\* merge makes of the internal branch what the command would make of it at that
\* moment, for every version of which it brings new builds or none
\* (FromStagingPipelineCommand and the server's three-way merge).
THEOREM MergesAreUpdates == Spec => MergedBuildsAreApplied
<1>1. StagingInv /\ [Next]_vars =>
        [\A p \in prs \ prs' :
           LET merged  == commits'[head'[Target]].tree
               updated == Applied(p.internal, TreeOf(head[Target]), p.builds)
           IN /\ merged.edits = updated.edits
              /\ \A v \in Versions :
                   BringsNew(p, v) => OfVersion(merged, v) = OfVersion(updated, v)]_vars
  <2> SUFFICES ASSUME StagingInv, [Next]_vars, NEW p \in prs \ prs'
               PROVE  LET merged  == commits'[head'[Target]].tree
                          updated == Applied(p.internal, TreeOf(head[Target]), p.builds)
                      IN /\ merged.edits = updated.edits
                         /\ \A v \in Versions :
                              BringsNew(p, v) => OfVersion(merged, v) = OfVersion(updated, v)
    OBVIOUS
  <2>1. PICK q \in prs, style \in MergeStyles : CompletePullRequest(q, style)
    BY DEF Next, Start, Retry, Clone, ProcessStageContainer, ContainerFails, Push,
       CreatePullRequest, Fail, SyncTarget, vars
  <2>2. p = q
    BY <2>1 DEF CompletePullRequest
  <2>3. QED
    BY <2>1, <2>2, CompleteUpdates
<1>2. QED
  BY <1>1, InitStagingInv, StagingInvInductive, PTL DEF Spec, MergedBuildsAreApplied

-----------------------------------------------------------------------------
(* What stays true of the records.                                         *)

\* An update leaves a version with what it records.
LEMMA ApplyRecordHolds ==
  ASSUME NEW tree \in Tree, NEW v \in Versions, RecordHolds(tree, v), NEW c \in Containers
  PROVE  RecordHolds(ApplyInternalBuild(tree, c), v)
<1> DEFINE new == ApplyInternalBuild(tree, c)
<1>1. /\ new.recorded[v] = IF v = VersionOf[c] THEN c ELSE tree.recorded[v]
      /\ new.sdk[v] = IF v = VersionOf[c] THEN Internal(c) ELSE tree.sdk[v]
      /\ new.runtime[v] = IF v = VersionOf[c] /\ c \notin SdkOnly THEN Internal(c) ELSE tree.runtime[v]
      /\ new.dotnetUrl[v] = IF v = VersionOf[c] /\ c \notin SdkOnly THEN c ELSE tree.dotnetUrl[v]
      /\ new.sdkUrl[v] = IF v = VersionOf[c] /\ c \in SdkOnly THEN c ELSE tree.sdkUrl[v]
  BY InternalFields
<1> HIDE DEF new
<1>2. RecordHolds(new, v)
  BY <1>1 DEF RecordHolds
<1>3. QED
  BY <1>2 DEF new

LEMMA ListRecordHolds ==
  ASSUME NEW tree \in Tree, NEW v \in Versions, RecordHolds(tree, v),
         NEW internal, internal = TRUE, NEW list \in Seq(Containers)
  PROVE  RecordHolds(Applied(internal, tree, list), v)
<1> DEFINE Good == {t \in Tree : RecordHolds(t, v)}
<1>1. \A t \in Tree, c \in Containers : t \in Good => Apply(internal, t, c) \in Good
  BY ApplyRecordHolds, ApplyOneType DEF Apply
<1>2. tree \in Good
  OBVIOUS
<1>3. Applied(internal, tree, list) \in Good
  <2> HIDE DEF Good
  <2> QED BY <1>1, <1>2, ListKeeps
<1>4. QED
  BY <1>3

\* What a sync brings is one of three changes.
LEMMA SyncedFields ==
  ASSUME NEW tree \in Tree, NEW new \in Synced(tree)
  PROVE  /\ new.recorded = tree.recorded /\ new.sdk = tree.sdk
         /\ \A v \in Versions :
              /\ \/ new.runtime[v] = tree.runtime[v] /\ new.dotnetUrl[v] = tree.dotnetUrl[v]
                 \/ tree.recorded[v] \in SdkOnly
              /\ new.sdkUrl[v] = tree.sdkUrl[v] \/ tree.recorded[v] \in Containers \ SdkOnly
<1>1. CASE new \in {[tree EXCEPT !.edits = @ \cup {e}] : e \in Edits}
  BY <1>1 DEF Tree
<1>2. ASSUME NEW w \in Versions, tree.recorded[w] \in SdkOnly,
             new = [tree EXCEPT !.runtime[w] = Public(@.build), !.dotnetUrl[w] = NoContainer]
      PROVE  /\ new.recorded = tree.recorded /\ new.sdk = tree.sdk /\ new.sdkUrl = tree.sdkUrl
             /\ \A v \in Versions : v # w =>
                  new.runtime[v] = tree.runtime[v] /\ new.dotnetUrl[v] = tree.dotnetUrl[v]
  BY <1>2 DEF Tree
<1>3. ASSUME NEW w \in Versions, tree.recorded[w] \in Containers \ SdkOnly,
             new = [tree EXCEPT !.sdkUrl[w] = NoContainer]
      PROVE  /\ new.recorded = tree.recorded /\ new.sdk = tree.sdk
             /\ new.runtime = tree.runtime /\ new.dotnetUrl = tree.dotnetUrl
             /\ \A v \in Versions : v # w => new.sdkUrl[v] = tree.sdkUrl[v]
  BY <1>3 DEF Tree
<1>4. QED
  BY <1>1, <1>2, <1>3 DEF Synced

LEMMA SyncedRecordHolds ==
  ASSUME NEW tree \in Tree, NEW new \in Synced(tree), NEW v \in Versions, RecordHolds(tree, v)
  PROVE  RecordHolds(new, v)
  BY SyncedFields DEF RecordHolds

\* The steps of runs leave the internal branch as it is.
LEMMA RunStepTarget ==
  ASSUME TypeInv, NEW r \in Runs,
         \/ Start(r) \/ Retry(r) \/ ProcessStageContainer(r) \/ ContainerFails(r)
         \/ Push(r) \/ CreatePullRequest(r) \/ Fail(r),
         Exists(Target)
  PROVE  /\ head'[Target] = head[Target] /\ commits'[head[Target]] = commits[head[Target]]
         /\ prs \subseteq prs'
<1>1. head[Target] \in CommitIds
  BY HeadIsCommit, BranchFacts
<1>2. CASE Push(r)
  <2>1. ServerGrows /\ UNCHANGED prs
    BY <1>2, PushOK DEF Push
  <2>2. Active(r) /\ StageContainers[r] # <<>>
    BY <1>2 DEF Push, Active, Steps, TypeInv, RunsOK, RunOK
  <2>3. head'[Target] = head[Target]
    BY <1>2, <2>2, BranchFacts DEF Push, TypeInv, TypeOK
  <2>4. QED
    BY <1>1, <2>1, <2>3 DEF ServerGrows
<1>3. CASE ~ Push(r)
  BY <1>3 DEF Start, Retry, Clone, ProcessStageContainer, ContainerFails, CreatePullRequest, Fail
<1>4. QED
  BY <1>2, <1>3

\* A true record of the internal branch stays true, or is replaced by a true one,
\* whichever updates and syncs are merged and in which order, unless a merge applies
\* a build of the version again (FromStagingPipelineCommand, the server's merge).
THEOREM RecordsAreKept == Spec => MergesKeepRecords
<1>1. StagingInv /\ [Next]_vars =>
        [\A v \in Versions :
           /\ Exists(Target) /\ RecordHolds(TreeOf(head[Target]), v)
           /\ \A p \in prs \ prs' : BringsNew(p, v)
           => RecordHolds(commits'[head'[Target]].tree, v)]_vars
  <2> SUFFICES ASSUME StagingInv, [Next]_vars, NEW v \in Versions,
                      Exists(Target), RecordHolds(TreeOf(head[Target]), v),
                      \A p \in prs \ prs' : BringsNew(p, v)
               PROVE  RecordHolds(commits'[head'[Target]].tree, v)
    BY Zenon
  <2>1. TypeInv /\ head[Target] \in CommitIds /\ TreeOf(head[Target]) \in Tree
    BY HeadIsCommit, BranchFacts, CommitTrees DEF StagingInv
  <2>2. ASSUME NEW r \in Runs,
               \/ Start(r) \/ Retry(r) \/ ProcessStageContainer(r) \/ ContainerFails(r)
               \/ Push(r) \/ CreatePullRequest(r) \/ Fail(r)
        PROVE  RecordHolds(commits'[head'[Target]].tree, v)
    BY <2>1, <2>2, RunStepTarget DEF TreeOf
  <2>3. CASE SyncTarget
    <3>1. head' = [head EXCEPT ![Target] = NewCommit]
      BY <2>3 DEF SyncTarget
    <3>2. PICK tree \in Synced(TreeOf(head[Target])) : AddCommit({head[Target]}, tree)
      BY <2>3 DEF SyncTarget
    <3>3. tree \in Tree /\ {head[Target]} \in SUBSET CommitIds
      BY <2>1, SyncedType
    <3>4. commits'[NewCommit].tree = tree
      BY <2>1, <3>2, <3>3, AppendCommit DEF TypeInv, TypeOK
    <3>5. head'[Target] = NewCommit
      BY <2>1, <3>1, BranchFacts DEF TypeInv, TypeOK
    <3>6. QED
      BY <2>1, <3>2, <3>4, <3>5, SyncedRecordHolds
  <2>4. ASSUME NEW p \in prs, NEW style \in MergeStyles, CompletePullRequest(p, style)
        PROVE  RecordHolds(commits'[head'[Target]].tree, v)
    <3> DEFINE merged  == commits'[head'[Target]].tree
               updated == Applied(p.internal, TreeOf(head[Target]), p.builds)
    <3>1. BringsNew(p, v)
      BY <2>4 DEF CompletePullRequest
    <3>2. OfVersion(merged, v) = OfVersion(updated, v)
      BY <2>4, <3>1, CompleteUpdates
    <3>3. p.internal = TRUE /\ p.builds \in Seq(Containers)
      BY <2>1, <3>1 DEF BringsNew, TypeInv, TypeOK, PullRequest
    <3>4. RecordHolds(updated, v)
      BY <2>1, <3>3, ListRecordHolds
    <3> HIDE DEF merged, updated
    <3>5. /\ merged.recorded[v] = updated.recorded[v] /\ merged.runtime[v] = updated.runtime[v]
          /\ merged.sdk[v] = updated.sdk[v] /\ merged.dotnetUrl[v] = updated.dotnetUrl[v]
          /\ merged.sdkUrl[v] = updated.sdkUrl[v]
      BY <3>2 DEF OfVersion
    <3>6. RecordHolds(merged, v)
      BY <3>4, <3>5 DEF RecordHolds
    <3>7. QED
      BY <3>6 DEF merged
  <2>5. CASE UNCHANGED vars
    BY <2>5 DEF vars, TreeOf
  <2>6. QED
    BY <2>2, <2>3, <2>4, <2>5 DEF Next
<1>2. QED
  BY <1>1, InitStagingInv, StagingInvInductive, PTL DEF Spec, MergesKeepRecords

-----------------------------------------------------------------------------
(* The SDK of a version is always the one of its record.                   *)

\* The command without --internal, which sets versions and records nothing, is for
\* the public branch.
AllInternal == \A r \in Runs : IsInternal(r)

SdkOf(c) == IF c = NoContainer THEN Public(NoContainer) ELSE Internal(c)

SdkIsRecorded(tree) == \A v \in Versions : tree.sdk[v] = SdkOf(tree.recorded[v])

\* The two fields tell the same contents apart, so a merge takes both from one side.
LEMMA SdkOfIsInjective ==
  ASSUME NEW c, NEW d, SdkOf(c) = SdkOf(d)
  PROVE  c = d
<1>1. SdkOf(c).build = c /\ SdkOf(d).build = d
  BY DEF SdkOf, Public, Internal
<1>2. QED
  BY <1>1

LEMMA MergeSdkIsRecorded ==
  ASSUME NEW t \in Tree, NEW u \in Tree, NEW T \in Tree,
         SdkIsRecorded(t), SdkIsRecorded(u), SdkIsRecorded(T)
  PROVE  SdkIsRecorded(MergeTrees(t, u, T))
<1> DEFINE merged == MergeTrees(t, u, T)
<1>1. ASSUME NEW v \in Versions
      PROVE  merged.sdk[v] = SdkOf(merged.recorded[v])
  <2>1. /\ merged.sdk[v] = Merge3(t.sdk[v], u.sdk[v], T.sdk[v])
        /\ merged.recorded[v] = Merge3(t.recorded[v], u.recorded[v], T.recorded[v])
    BY DEF MergeTrees, MergeVersions
  <2>2. /\ t.sdk[v] = SdkOf(t.recorded[v]) /\ u.sdk[v] = SdkOf(u.recorded[v])
        /\ T.sdk[v] = SdkOf(T.recorded[v])
    BY DEF SdkIsRecorded
  <2>3. u.sdk[v] = t.sdk[v] <=> u.recorded[v] = t.recorded[v]
    BY <2>2, SdkOfIsInjective
  <2> HIDE DEF merged
  <2>4. QED
    BY <2>1, <2>2, <2>3 DEF Merge3
<1>2. QED
  BY <1>1 DEF SdkIsRecorded

LEMMA ApplySdkIsRecorded ==
  ASSUME NEW tree \in Tree, SdkIsRecorded(tree), NEW c \in Containers
  PROVE  SdkIsRecorded(ApplyInternalBuild(tree, c))
<1> DEFINE new == ApplyInternalBuild(tree, c)
<1>1. \A v \in Versions :
        /\ new.recorded[v] = IF v = VersionOf[c] THEN c ELSE tree.recorded[v]
        /\ new.sdk[v] = IF v = VersionOf[c] THEN Internal(c) ELSE tree.sdk[v]
  BY InternalFields
<1>2. SdkOf(c) = Internal(c)
  BY ContentAssumption DEF SdkOf, NoContainer
<1> HIDE DEF new
<1>3. SdkIsRecorded(new)
  BY <1>1, <1>2 DEF SdkIsRecorded
<1>4. QED
  BY <1>3 DEF new

LEMMA FirstSdkIsRecorded == SdkIsRecorded(FirstTree)
  BY DEF SdkIsRecorded, FirstTree, FirstBuilds, Nothing, SdkOf

\* All contents of the server, and of the runs' clones.
CommitSdks == \A i \in CommitIds : SdkIsRecorded(TreeOf(i))
RunSdks == \A r \in Runs : SdkIsRecorded(workTree[r])
SdkInv == StagingInv /\ CommitSdks /\ RunSdks

LEMMA NewCommitSdks ==
  ASSUME SdkInv, NEW parents \in SUBSET CommitIds, NEW tree \in Tree,
         AddCommit(parents, tree), SdkIsRecorded(tree)
  PROVE  CommitSdks'
<1>1. /\ \A i \in CommitIds : commits'[i] = commits[i]
      /\ \A i \in CommitIds' : i \in CommitIds \/ i = NewCommit
      /\ commits'[NewCommit].tree = tree
  BY AppendCommit DEF SdkInv, StagingInv, TypeInv, TypeOK
<1>2. ASSUME NEW i \in CommitIds'
      PROVE  SdkIsRecorded(commits'[i].tree)
  <2>1. CASE i \in CommitIds
    BY <1>1, <2>1 DEF SdkInv, CommitSdks, TreeOf
  <2>2. CASE i = NewCommit
    BY <1>1, <2>2
  <2>3. QED
    BY <1>1, <2>1, <2>2
<1>3. QED
  BY <1>2 DEF CommitSdks, TreeOf

LEMMA SameCommitSdks ==
  ASSUME SdkInv, UNCHANGED commits
  PROVE  CommitSdks'
  BY DEF SdkInv, CommitSdks, TreeOf, CommitIds

\* A run's clone changes to a content with this property.
LEMMA RunSdksStay ==
  ASSUME SdkInv, NEW r \in Runs, NEW tree, SdkIsRecorded(tree),
         workTree' = [workTree EXCEPT ![r] = tree]
  PROVE  RunSdks'
<1>1. \A s \in Runs : workTree'[s] = IF s = r THEN tree ELSE workTree[s]
  BY DEF SdkInv, StagingInv, TypeInv, TypeOK
<1>2. ASSUME NEW s \in Runs
      PROVE  SdkIsRecorded(workTree'[s])
  BY <1>1 DEF SdkInv, RunSdks
<1>3. QED
  BY <1>2 DEF RunSdks

LEMMA EndSdks ==
  ASSUME SdkInv, NEW r \in Runs, NEW result, End(r, result)
  PROVE  RunSdks'
  BY RunSdksStay, FirstSdkIsRecorded DEF End

\* Every step keeps SdkInv.
THEOREM SdkInvInductive == AllInternal /\ SdkInv /\ [Next]_vars => SdkInv'
<1> SUFFICES ASSUME AllInternal, SdkInv, [Next]_vars
             PROVE  SdkInv'
  OBVIOUS
<1>1. StagingInv /\ TypeInv /\ CommitSdks /\ RunSdks
  BY DEF SdkInv, StagingInv
<1>2. SUFFICES CommitSdks' /\ RunSdks'
  BY <1>1, StagingInvInductive DEF SdkInv
<1>3. ASSUME NEW r \in Runs, Start(r) \/ Retry(r)
      PROVE  CommitSdks' /\ RunSdks'
  <2>1. Clone(r) /\ UNCHANGED commits
    BY <1>3 DEF Start, Retry, Clone
  <2>2. CASE End(r, "failed")
    BY <2>1, <2>2, EndSdks, SameCommitSdks
  <2>3. CASE Exists(Target) /\ workTree' = [workTree EXCEPT ![r] = TreeOf(head[Target])]
    <3>1. SdkIsRecorded(TreeOf(head[Target]))
      BY <1>1, <2>3, HeadIsCommit, BranchFacts DEF CommitSdks
    <3>2. QED
      BY <2>1, <2>3, <3>1, RunSdksStay, SameCommitSdks
  <2>4. QED
    BY <2>1, <2>2, <2>3 DEF Clone
<1>4. ASSUME NEW r \in Runs, ProcessStageContainer(r)
      PROVE  CommitSdks' /\ RunSdks'
  <2> DEFINE c    == Head(pending[r])
             tree == ApplyInternalBuild(workTree[r], c)
  <2>1. /\ UNCHANGED commits /\ pending[r] # <<>>
        /\ End(r, "failed") \/ workTree' = [workTree EXCEPT ![r] = tree]
    BY <1>4 DEF ProcessStageContainer, AllInternal, Apply
  <2>2. workTree[r] \in Tree /\ c \in Containers
    BY <1>1, <2>1 DEF TypeInv, TypeOK
  <2>3. SdkIsRecorded(tree)
    BY <1>1, <2>2, ApplySdkIsRecorded DEF RunSdks
  <2> HIDE DEF tree
  <2>4. QED
    BY <2>1, <2>3, EndSdks, RunSdksStay, SameCommitSdks
<1>5. ASSUME NEW r \in Runs, ContainerFails(r) \/ Fail(r)
      PROVE  CommitSdks' /\ RunSdks'
  BY <1>5, EndSdks, SameCommitSdks DEF ContainerFails, Fail, AfterFailure
<1>6. ASSUME NEW r \in Runs, Push(r)
      PROVE  CommitSdks' /\ RunSdks'
  <2>1. CASE End(r, "failed") /\ UNCHANGED commits
    BY <2>1, EndSdks, SameCommitSdks
  <2>2. CASE AddCommit({origin[r]}, workTree[r]) /\ UNCHANGED workTree
    <3>1. {origin[r]} \in SUBSET CommitIds /\ workTree[r] \in Tree
      BY <1>1, <1>6 DEF Push, TypeInv, TypeOK, Active, Steps
    <3>2. QED
      BY <1>1, <2>2, <3>1, NewCommitSdks DEF RunSdks
  <2>3. QED
    BY <1>6, <2>1, <2>2 DEF Push
<1>7. ASSUME NEW r \in Runs, CreatePullRequest(r)
      PROVE  CommitSdks' /\ RunSdks'
  BY <1>7, EndSdks, SameCommitSdks DEF CreatePullRequest
<1>8. CASE SyncTarget
  <2>1. Exists(Target) /\ UNCHANGED workTree
    BY <1>8 DEF SyncTarget, run
  <2>2. PICK tree \in Synced(TreeOf(head[Target])) : AddCommit({head[Target]}, tree)
    BY <1>8 DEF SyncTarget
  <2>3. head[Target] \in CommitIds /\ TreeOf(head[Target]) \in Tree
    BY <1>1, <2>1, HeadIsCommit, CommitTrees, BranchFacts
  <2>4. tree \in Tree /\ SdkIsRecorded(tree)
    BY <1>1, <2>3, SyncedType, SyncedFields DEF CommitSdks, SdkIsRecorded
  <2>5. QED
    BY <1>1, <2>1, <2>2, <2>3, <2>4, NewCommitSdks DEF RunSdks
<1>9. ASSUME NEW p \in prs, NEW style \in MergeStyles, CompletePullRequest(p, style)
      PROVE  CommitSdks' /\ RunSdks'
  <2> DEFINE ours   == head[Target]
             theirs == head[p.branch]
             merged == MergeTrees(TreeOf(p.origin), TreeOf(ours), TreeOf(theirs))
  <2>1. UNCHANGED workTree /\ RunSdks'
    BY <1>1, <1>9 DEF CompletePullRequest, run, RunSdks
  <2>2. \/ UNCHANGED commits
        \/ AddCommit({ours, theirs}, merged) \/ AddCommit({ours}, merged)
    BY <1>1, <1>9, BaseIsOrigin DEF CompletePullRequest, Merge
  <2>3. ours \in CommitIds /\ theirs \in CommitIds /\ p.origin \in CommitIds
    BY <1>1, References, HeadIsCommit, BranchFacts DEF InTarget
  <2>4. /\ TreeOf(p.origin) \in Tree /\ TreeOf(ours) \in Tree /\ TreeOf(theirs) \in Tree
        /\ SdkIsRecorded(TreeOf(p.origin)) /\ SdkIsRecorded(TreeOf(ours))
        /\ SdkIsRecorded(TreeOf(theirs))
    BY <1>1, <2>3, CommitTrees DEF CommitSdks
  <2> HIDE DEF ours, theirs
  <2>5. merged \in Tree /\ SdkIsRecorded(merged)
    BY <2>4, MergeType, MergeSdkIsRecorded
  <2> HIDE DEF merged
  <2>6. {ours, theirs} \in SUBSET CommitIds /\ {ours} \in SUBSET CommitIds
    BY <2>3
  <2>7. CommitSdks'
    BY <2>2, <2>5, <2>6, NewCommitSdks, SameCommitSdks
  <2>8. QED
    BY <2>1, <2>7
<1>10. CASE UNCHANGED vars
  BY <1>1, <1>10, SameCommitSdks DEF vars, run, RunSdks
<1>11. QED
  BY <1>3, <1>4, <1>5, <1>6, <1>7, <1>8, <1>9, <1>10 DEF Next

\* The SDK of the internal branch is the one of the recorded build, whatever runs,
\* retries, syncs and merges there are and in whatever order: no three-way merge
\* separates the two (from-staging-pipeline --internal).
THEOREM RecordedSdkStays == ASSUME AllInternal PROVE Spec => []RecordedSdkIsPresent
<1>1. Init => SdkInv
  <2> SUFFICES ASSUME Init PROVE SdkInv
    OBVIOUS
  <2>1. /\ commits = <<[ancestors |-> {1}, tree |-> FirstTree]>>
        /\ workTree = [r \in Runs |-> FirstTree]
    BY DEF Init
  <2>2. CommitIds = {1} /\ commits[1].tree = FirstTree
    BY <2>1 DEF CommitIds
  <2>3. QED
    BY <2>1, <2>2, InitStagingInv, FirstSdkIsRecorded DEF SdkInv, CommitSdks, RunSdks, TreeOf
<1>2. SdkInv /\ [Next]_vars => SdkInv'
  BY SdkInvInductive
<1>3. SdkInv => RecordedSdkIsPresent
  <2> SUFFICES ASSUME SdkInv, Exists(Target), NEW v \in Versions,
                      TreeOf(head[Target]).recorded[v] # NoContainer
               PROVE  TreeOf(head[Target]).sdk[v] = Internal(TreeOf(head[Target]).recorded[v])
    BY DEF RecordedSdkIsPresent
  <2>1. SdkIsRecorded(TreeOf(head[Target]))
    BY HeadIsCommit, BranchFacts DEF SdkInv, StagingInv, CommitSdks
  <2>2. QED
    BY <2>1 DEF SdkIsRecorded, SdkOf
<1>4. QED
  BY <1>1, <1>2, <1>3, PTL DEF Spec
==============================================================================
