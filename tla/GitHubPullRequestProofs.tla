----------------------- MODULE GitHubPullRequestProofs -----------------------
(***************************************************************************)
(* Proofs about GitHubPullRequest, for any number of versions, commits and *)
(* closed pull requests: its type invariant, for any dependencies, and     *)
(* that the commits of people survive where the jobs of one dependency     *)
(* have the target branch for themselves.  The invariant needed for the    *)
(* latter is that a job on its way to a forced push has seen that there is *)
(* no open pull request, and that none can have been opened since.         *)
(***************************************************************************)
EXTENDS GitHubPullRequest, SequenceTheorems, TLAPS

\* What a job may leave behind, whichever step ends it.
LEMMA DoneJob ==
  ASSUME TypeOK, NEW d \in Dependencies, Done(d)
  PROVE  /\ pc' \in [Dependencies -> {"idle", "search", "create", "update", "push"}]
         /\ local' \in [Dependencies -> 0 .. MaxVersion]
         /\ clone' \in [Dependencies -> Seq(Commit)]
         /\ pc'[d] = "idle"
         /\ \A e \in Dependencies : clone'[e] # <<>> <=> pc'[e] = "push"
         /\ \A e \in Dependencies \ {d} : pc'[e] = pc[e]
  <1>1. 0 \in 0 .. MaxVersion
    BY GitHubAssumption
  <1>2. <<>> \in Seq(Commit)
    OBVIOUS
  <1> HIDE DEF Commit
  <1> QED BY <1>1, <1>2 DEF TypeOK, Done, Goto

LEMMA LastCommit ==
  ASSUME NEW s \in Seq(Commit), s # <<>>
  PROVE  /\ Last(s) \in Commit
         /\ Last(s).version \in 0 .. MaxVersion
  <1>1. Len(s) \in DOMAIN s
    BY DEF Commit
  <1>2. s[Len(s)] \in Commit
    BY <1>1
  <1> QED BY <1>2 DEF Last, Commit

LEMMA BotCommit ==
  ASSUME NEW v \in 0 .. MaxVersion
  PROVE  ByBot(v) \in Commit
  BY GitHubAssumption DEF ByBot, Commit

\* A branch that only grows keeps the commits of people.
LEMMA AppendKeepsHumanCommits ==
  ASSUME NEW s \in Seq(Commit), NEW commit \in Commit
  PROVE  HumanCommits(s) \subseteq HumanCommits(Append(s, commit))
  <1> DEFINE t == Append(s, commit)
  <1>1. /\ DOMAIN s \subseteq DOMAIN t
        /\ \A i \in DOMAIN s : t[i] = s[i]
    OBVIOUS
  <1> HIDE DEF t
  <1> QED BY <1>1 DEF HumanCommits, IsHuman

LEMMA Appended ==
  ASSUME NEW s \in Seq(Commit), NEW commit \in Commit
  PROVE  Append(s, commit) \in Seq(Commit) /\ Append(s, commit) # <<>>
  BY AppendProperties

LEMMA InitType == Init => TypeOK
  <1> SUFFICES ASSUME Init PROVE TypeOK
    OBVIOUS
  <1>1. 0 \in 0 .. MaxVersion /\ 0 \in 0 .. MaxHumanCommits /\ 0 \in 0 .. MaxClosed
    BY GitHubAssumption
  <1>2. <<>> \in Seq(Commit)
    OBVIOUS
  <1> HIDE DEF Commit
  <1> QED BY <1>1, <1>2 DEF Init, TypeOK

LEMMA NextType == TypeOK /\ [Next]_vars => TypeOK'
  <1> SUFFICES ASSUME TypeOK, [Next]_vars PROVE TypeOK'
    OBVIOUS
  <1>0. CASE UNCHANGED vars
    BY <1>0 DEF vars, job, TypeOK
  <1> SUFFICES ASSUME NEW d \in Dependencies,
                      \/ UpdateFiles(d) \/ Step(d)
                      \/ NewVersion(d) \/ HumanPush(d) \/ Merge(d) \/ Close(d)
               PROVE  TypeOK'
    BY <1>0 DEF Next
  <1>1. CASE UpdateFiles(d)
    BY <1>1 DEF UpdateFiles, Goto, TypeOK
  <1>2. CASE Search(d)
    BY <1>2 DEF Search, Goto, TypeOK
  <1>3. CASE CreateOrUpdate(d)
    <2>1. <<ByBot(local[d])>> \in Seq(Commit) /\ <<ByBot(local[d])>> # <<>>
      BY BotCommit DEF TypeOK
    <2>2. Done(d) /\ UNCHANGED <<newest, upstream, pushed, closed>>
      BY <1>3 DEF CreateOrUpdate
    <2>3. /\ branch' \in [Dependencies -> Seq(Commit)]
          /\ open' \subseteq {e \in Dependencies : branch'[e] # <<>>}
      BY <1>3, <2>1 DEF CreateOrUpdate, TypeOK
    <2> QED BY <2>2, <2>3, DoneJob DEF TypeOK
  <1>4. CASE CloneAndCommit(d)
    <2>1. CASE Done(d)
      BY <1>4, <2>1, DoneJob DEF CloneAndCommit, TypeOK
    <2>2. CASE ~Done(d)
      BY <1>4, <2>2 DEF CloneAndCommit, Goto, TypeOK
    <2> QED BY <2>1, <2>2
  <1>5. CASE Push(d)
    <2>1. ByBot(local[d]) \in Commit
      BY BotCommit DEF TypeOK
    <2>2. /\ Append(clone[d], ByBot(local[d])) \in Seq(Commit)
          /\ Append(clone[d], ByBot(local[d])) # <<>>
      BY <2>1, Appended DEF TypeOK
    <2>3. Done(d) /\ UNCHANGED <<newest, upstream, open, pushed, closed>>
      BY <1>5 DEF Push
    <2>4. /\ branch' \in [Dependencies -> Seq(Commit)]
          /\ open' \subseteq {e \in Dependencies : branch'[e] # <<>>}
      BY <1>5, <2>2 DEF Push, TypeOK
    <2> QED BY <2>3, <2>4, DoneJob DEF TypeOK
  <1>6. CASE NewVersion(d)
    <2>1. newest[d] + 1 \in 0 .. MaxVersion
      BY <1>6, GitHubAssumption DEF NewVersion, TypeOK
    <2> QED BY <1>6, <2>1 DEF NewVersion, job, TypeOK
  <1>7. CASE HumanPush(d)
    <2> DEFINE commit == [human |-> TRUE, version |-> Last(branch[d]).version, number |-> pushed']
    <2>1. pushed' \in 0 .. MaxHumanCommits
      BY <1>7, GitHubAssumption DEF HumanPush, TypeOK
    <2>2. Last(branch[d]).version \in 0 .. MaxVersion
      BY <1>7, LastCommit DEF HumanPush, TypeOK
    <2>3. commit \in Commit
      BY <2>1, <2>2 DEF Commit
    <2>4. branch' = [branch EXCEPT ![d] = Append(branch[d], commit)]
      BY <1>7 DEF HumanPush
    <2> HIDE DEF commit
    <2>5. Append(branch[d], commit) \in Seq(Commit) /\ Append(branch[d], commit) # <<>>
      BY <2>3, Appended DEF TypeOK
    <2>6. branch' \in [Dependencies -> Seq(Commit)] /\ open \subseteq {e \in Dependencies : branch'[e] # <<>>}
      BY <2>4, <2>5 DEF TypeOK
    <2> QED BY <1>7, <2>1, <2>6 DEF HumanPush, job, TypeOK
  <1>8. ASSUME End(d)
        PROVE  /\ branch' \in [Dependencies -> Seq(Commit)]
               /\ open' \subseteq {e \in Dependencies : branch'[e] # <<>>}
    <2>1. CASE branch' = branch
      BY <1>8, <2>1 DEF End, TypeOK
    <2>2. CASE branch' = [branch EXCEPT ![d] = <<>>]
      BY <1>8, <2>2 DEF End, TypeOK
    <2> QED BY <1>8, <2>1, <2>2 DEF End
  <1>9. CASE Merge(d)
    <2>1. Last(branch[d]).version \in 0 .. MaxVersion
      BY <1>9, LastCommit DEF Merge, End, TypeOK
    <2> QED BY <1>8, <1>9, <2>1 DEF Merge, job, TypeOK
  <1>10. CASE Close(d)
    <2>1. closed' \in 0 .. MaxClosed
      BY <1>10, GitHubAssumption DEF Close, TypeOK
    <2> QED BY <1>8, <1>10, <2>1 DEF Close, job, TypeOK
  <1> QED BY <1>1, <1>2, <1>3, <1>4, <1>5, <1>6, <1>7, <1>9, <1>10 DEF Step

\* Branches, pull requests and jobs fit together, for any number of jobs.
THEOREM GitHubTypeCorrect == Spec => []TypeOK
  BY InitType, NextType, PTL DEF Spec

-----------------------------------------------------------------------------
(* Commits of people.                                                      *)

\* What happens to another dependency leaves a branch alone.
LEMMA OthersLeaveBranch ==
  ASSUME TypeOK, NEW d \in Dependencies, NEW e \in Dependencies, d # e,
         \/ UpdateFiles(e) \/ Step(e) \/ NewVersion(e)
         \/ HumanPush(e) \/ Merge(e) \/ Close(e)
  PROVE  branch'[d] = branch[d]
  BY DEF UpdateFiles, Step, Search, CreateOrUpdate, CloneAndCommit, Push,
         NewVersion, HumanPush, Merge, Close, End, TypeOK

\* Of all steps only the forced push can take a commit from an open pull request.
LEMMA OnlyForcedPushTakes ==
  ASSUME TypeOK, Next, NEW d \in open \cap open', pc[d] # "create"
  PROVE  HumanCommits(branch[d]) \subseteq HumanCommits(branch'[d])
  <1>0. d \in Dependencies /\ branch[d] \in Seq(Commit) /\ branch[d] # <<>>
    BY DEF TypeOK
  <1>1. CASE UpdateFiles(d) \/ Search(d) \/ CloneAndCommit(d) \/ NewVersion(d)
    BY <1>1 DEF UpdateFiles, Search, CloneAndCommit, NewVersion
  <1>2. CASE CreateOrUpdate(d)
    BY <1>2 DEF CreateOrUpdate
  <1>3. CASE Push(d)
    <2>1. ByBot(local[d]) \in Commit
      BY <1>0, BotCommit DEF TypeOK
    <2>2. CASE Accepted(d)
      <3>1. branch'[d] = Append(branch[d], ByBot(local[d]))
        BY <1>0, <1>3, <2>2 DEF Push, Accepted, TypeOK
      <3> QED BY <1>0, <2>1, <3>1, AppendKeepsHumanCommits
    <2>3. CASE ~Accepted(d)
      BY <1>3, <2>3 DEF Push
    <2> QED BY <2>2, <2>3
  <1>4. CASE HumanPush(d)
    <2> DEFINE commit == [human |-> TRUE, version |-> Last(branch[d]).version, number |-> pushed']
    <2>1. pushed' \in 0 .. MaxHumanCommits
      BY <1>4, GitHubAssumption DEF HumanPush, TypeOK
    <2>2. commit \in Commit
      BY <1>0, <2>1, LastCommit DEF Commit
    <2>3. branch' = [branch EXCEPT ![d] = Append(branch[d], commit)]
      BY <1>4 DEF HumanPush
    <2> HIDE DEF commit
    <2>4. branch'[d] = Append(branch[d], commit)
      BY <1>0, <2>3 DEF TypeOK
    <2> QED BY <1>0, <2>2, <2>4, AppendKeepsHumanCommits
  <1>5. CASE Merge(d) \/ Close(d)
    BY <1>5 DEF Merge, Close, End
  <1>6. CASE UpdateFiles(d) \/ Step(d) \/ NewVersion(d) \/ HumanPush(d) \/ Merge(d) \/ Close(d)
    BY <1>1, <1>2, <1>3, <1>4, <1>5, <1>6 DEF Step
  <1>7. ASSUME NEW e \in Dependencies, e # d,
               \/ UpdateFiles(e) \/ Step(e) \/ NewVersion(e)
               \/ HumanPush(e) \/ Merge(e) \/ Close(e)
        PROVE  HumanCommits(branch[d]) \subseteq HumanCommits(branch'[d])
    <2>1. branch'[d] = branch[d]
      BY <1>0, <1>7, OthersLeaveBranch
    <2> QED BY <2>1
  <1> QED BY <1>0, <1>6, <1>7 DEF Next

\* For any number of dependencies, a job that found its pull request keeps the
\* commits of people on it, also those pushed between its check for them and its
\* push (UpdateExistingGitHubPullRequestAsync).
THEOREM UpdatesKeepCommits == Spec => UpdatesKeepHumanCommits
  <1> DEFINE Kept == \A d \in open \cap open' :
                       pc[d] # "create" =>
                         HumanCommits(branch[d]) \subseteq HumanCommits(branch'[d])
  <1>1. TypeOK /\ [Next]_vars => [Kept]_vars
    BY OnlyForcedPushTakes
  <1> QED BY <1>1, GitHubTypeCorrect, PTL DEF Spec, UpdatesKeepHumanCommits

-----------------------------------------------------------------------------
(* One dependency.                                                         *)

\* A job whose next step is the forced push has no pull request to overwrite.
NothingToOverwrite == \A d \in Dependencies : pc[d] = "create" => d \notin open

LEMMA NothingToOverwriteHolds ==
  ASSUME \A d, e \in Dependencies : d = e
  PROVE  Spec => []NothingToOverwrite
  <1>1. Init => NothingToOverwrite
    BY DEF Init, NothingToOverwrite
  <1>2. TypeOK /\ NothingToOverwrite /\ [Next]_vars => NothingToOverwrite'
    <2> SUFFICES ASSUME TypeOK, NothingToOverwrite, [Next]_vars,
                        NEW d \in Dependencies, pc'[d] = "create"
                 PROVE  d \notin open'
      BY DEF NothingToOverwrite
    <2>0. CASE UNCHANGED vars
      BY <2>0 DEF vars, job, NothingToOverwrite
    <2>1. CASE UpdateFiles(d) \/ CloneAndCommit(d) \/ Push(d) \/ CreateOrUpdate(d)
      BY <2>1, DoneJob
      DEF UpdateFiles, CloneAndCommit, Push, CreateOrUpdate, Goto, TypeOK
    <2>2. CASE Search(d)
      BY <2>2 DEF Search, Goto, TypeOK
    <2>3. CASE NewVersion(d) \/ HumanPush(d) \/ Merge(d) \/ Close(d)
      BY <2>3 DEF NewVersion, HumanPush, Merge, Close, End, job, NothingToOverwrite
    <2> QED BY <2>0, <2>1, <2>2, <2>3 DEF Next, Step
  <1> QED BY <1>1, <1>2, GitHubTypeCorrect, PTL DEF Spec

\* When no other dependency has pull requests of the target branch, an open pull
\* request keeps the commits of people, also those pushed between a job's check
\* for them and its push (UpdateExistingGitHubPullRequestAsync).
THEOREM CommitsOfPeopleSurvive ==
  ASSUME \A d, e \in Dependencies : d = e
  PROVE  Spec => HumanCommitsSurvive
  <1> DEFINE Kept == \A d \in open \cap open' :
                       HumanCommits(branch[d]) \subseteq HumanCommits(branch'[d])
  <1>1. TypeOK /\ NothingToOverwrite /\ [Next]_vars => [Kept]_vars
    <2> SUFFICES ASSUME TypeOK, NothingToOverwrite, Next, NEW d \in open \cap open'
                 PROVE  HumanCommits(branch[d]) \subseteq HumanCommits(branch'[d])
      OBVIOUS
    <2>1. pc[d] # "create"
      BY DEF NothingToOverwrite, TypeOK
    <2> QED BY <2>1, OnlyForcedPushTakes
  <1> QED BY <1>1, GitHubTypeCorrect, NothingToOverwriteHolds, PTL DEF Spec, HumanCommitsSurvive
==============================================================================
