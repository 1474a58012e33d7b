-------------------------- MODULE GitHubPullRequest --------------------------
(***************************************************************************)
(* How the update-dependencies tool keeps its GitHub pull requests up to   *)
(* date.  Scheduled jobs, one for each dependency, work on the same target *)
(* branch; each has a pull request branch of its own, named after the      *)
(* dependency, in the bot's fork.  People push to those branches too, and  *)
(* merge or close the pull requests, at any moment.  A job is cut at its   *)
(* calls to GitHub.  A version stands for all the files a job would push.  *)
(***************************************************************************)
EXTENDS Naturals, Sequences, FiniteSets

CONSTANTS
  Dependencies,     \* the version source names: dotnet/dotnet, syft ...
  MaxVersion,       \* bound: new versions of a dependency
  MaxHumanCommits,  \* bound: commits by people on a pull request branch
  MaxClosed         \* bound: pull requests closed without merging

ASSUME GitHubAssumption ==
  MaxVersion \in Nat /\ MaxHumanCommits \in Nat /\ MaxClosed \in Nat

VARIABLES
  newest,    \* dependency -> its newest version
  upstream,  \* dependency -> its version on the target branch
  branch,    \* dependency -> the commits of its branch since the merge base,
             \* <<>> if there is no branch
  open,      \* the dependencies with an open pull request
  pc,        \* dependency -> where its job is
  local,     \* dependency -> the version in its job's repository
  clone,     \* dependency -> the commits of its job's clone of the branch
  pushed,    \* how many commits people have pushed
  closed     \* how many pull requests people have closed

job == <<pc, local, clone>>
vars == <<newest, upstream, branch, open, job, pushed, closed>>

\* A commit of the bot carries the version it brings; a person's has a number.
Commit == [human : BOOLEAN, version : 0 .. MaxVersion, number : 0 .. MaxHumanCommits]
ByBot(v) == [human |-> FALSE, version |-> v, number |-> 0]
Last(s) == s[Len(s)]
IsHuman(commit) == commit.human
HumanCommits(s) == {s[i].number : i \in {j \in DOMAIN s : IsHuman(s[j])}}

Init ==
  /\ newest = [d \in Dependencies |-> 0]
  /\ upstream = [d \in Dependencies |-> 0]
  /\ branch = [d \in Dependencies |-> <<>>]
  /\ open = {}
  /\ pc = [d \in Dependencies |-> "idle"]
  /\ local = [d \in Dependencies |-> 0]
  /\ clone = [d \in Dependencies |-> <<>>]
  /\ pushed = 0
  /\ closed = 0

-----------------------------------------------------------------------------
(* A job: the specific command, after which the next job may be scheduled. *)

Goto(d, step) == pc' = [pc EXCEPT ![d] = step]

\* However the job ends, its clone is deleted.
MutDone(d) == Goto(d, "idle") /\ UNCHANGED <<local, clone>>   \* it is left behind
Done(d) ==
  /\ Goto(d, "idle")
  /\ local' = [local EXCEPT ![d] = 0]
  /\ clone' = [clone EXCEPT ![d] = <<>>]

\* Check out the target branch and update its files.  Without changes to them
\* nothing is pushed.
UpdateFiles(d) ==
  /\ pc[d] = "idle"
  /\ newest[d] # upstream[d]
  /\ local' = [local EXCEPT ![d] = newest[d]]
  /\ Goto(d, "search")
  /\ UNCHANGED <<newest, upstream, branch, open, clone, pushed, closed>>

\* The search is for the bot's pull requests of the target branch and returns one
\* of them, which may belong to another dependency.
MutSearch(d) ==   \* another dependency's pull request counts as the job's
  /\ pc[d] = "search"
  /\ \/ open = {} /\ Goto(d, "create") /\ UNCHANGED <<local, clone>>
     \/ d \in open /\ Goto(d, "update") /\ UNCHANGED <<local, clone>>
     \/ open \ {d} # {} /\ Done(d)
  /\ UNCHANGED <<newest, upstream, branch, open, pushed, closed>>
Search(d) ==
  /\ pc[d] = "search"
  /\ \/ open = {} /\ Goto(d, "create")
     \/ \E found \in open : Goto(d, IF found = d THEN "update" ELSE "create")
  /\ UNCHANGED <<newest, upstream, branch, open, local, clone, pushed, closed>>

\* PullRequestCreator.CreateOrUpdateAsync of the version tools: "ends up
\* force-pushing updates to an existing PR".
CreateOrUpdate(d) ==
  /\ pc[d] = "create"
  /\ branch' = [branch EXCEPT ![d] = <<ByBot(local[d])>>]
  /\ open' = open \cup {d}
  /\ Done(d)
  /\ UNCHANGED <<newest, upstream, pushed, closed>>

\* Clone the branch.  A commit that is not the bot's gets a comment and ends the
\* job; else the local repository is copied over the clone, and committed if that
\* changes anything.
CloneAndCommit(d) ==
  /\ pc[d] = "update"
  /\ IF /\ branch[d] # <<>>
        /\ HumanCommits(branch[d]) = {}
        /\ Last(branch[d]).version # local[d]
     THEN clone' = [clone EXCEPT ![d] = branch[d]] /\ Goto(d, "push") /\ UNCHANGED local
     ELSE Done(d)
  /\ UNCHANGED <<newest, upstream, branch, open, pushed, closed>>

\* The push is not forced: it fails when the branch has moved, and creates the
\* branch when it was deleted.
MutAccepted(d) == TRUE
Accepted(d) == branch[d] \in {clone[d], <<>>}

Push(d) ==
  /\ pc[d] = "push"
  /\ branch' = IF Accepted(d)
               THEN [branch EXCEPT ![d] = Append(clone[d], ByBot(local[d]))]
               ELSE branch
  /\ Done(d)
  /\ UNCHANGED <<newest, upstream, open, pushed, closed>>

Step(d) == Search(d) \/ CreateOrUpdate(d) \/ CloneAndCommit(d) \/ Push(d)

-----------------------------------------------------------------------------
(* The rest of the world.                                                  *)

NewVersion(d) ==
  /\ newest[d] < MaxVersion
  /\ newest' = [newest EXCEPT ![d] = @ + 1]
  /\ UNCHANGED <<upstream, branch, open, job, pushed, closed>>

\* Someone pushes a commit to an open pull request.
HumanPush(d) ==
  /\ d \in open /\ branch[d] # <<>>
  /\ pushed < MaxHumanCommits
  /\ pushed' = pushed + 1
  /\ branch' = [branch EXCEPT ![d] =
       Append(@, [human |-> TRUE, version |-> Last(@).version, number |-> pushed'])]
  /\ UNCHANGED <<newest, upstream, open, job, closed>>

\* Its branch may be deleted when a pull request is merged or closed.
End(d) ==
  /\ d \in open /\ branch[d] # <<>>
  /\ open' = open \ {d}
  /\ branch' \in {branch, [branch EXCEPT ![d] = <<>>]}

Merge(d) ==
  /\ End(d)
  /\ upstream' = [upstream EXCEPT ![d] = Last(branch[d]).version]
  /\ UNCHANGED <<newest, job, pushed, closed>>

Close(d) ==
  /\ End(d)
  /\ closed < MaxClosed
  /\ closed' = closed + 1
  /\ UNCHANGED <<newest, upstream, job, pushed>>

Next ==
  \E d \in Dependencies :
    \/ UpdateFiles(d) \/ Step(d)
    \/ NewVersion(d) \/ HumanPush(d) \/ Merge(d) \/ Close(d)

Spec == Init /\ [][Next]_vars

-----------------------------------------------------------------------------
(* Properties.                                                             *)

\* Every pull request has a branch, and a job that has ended leaves nothing behind.
TypeOK ==
  /\ newest \in [Dependencies -> 0 .. MaxVersion]
  /\ upstream \in [Dependencies -> 0 .. MaxVersion]
  /\ branch \in [Dependencies -> Seq(Commit)]
  /\ open \subseteq {d \in Dependencies : branch[d] # <<>>}
  /\ pc \in [Dependencies -> {"idle", "search", "create", "update", "push"}]
  /\ local \in [Dependencies -> 0 .. MaxVersion]
  /\ clone \in [Dependencies -> Seq(Commit)]
  /\ \A d \in Dependencies : clone[d] # <<>> <=> pc[d] = "push"
  /\ pushed \in 0 .. MaxHumanCommits
  /\ closed \in 0 .. MaxClosed

\* "If someone other than the bot has pushed commits, we should not overwrite
\* them" (UpdateExistingGitHubPullRequestAsync): as long as a pull request is
\* open it keeps the commits of people.
HumanCommitsSurvive ==
  [][\A d \in open \cap open' :
       HumanCommits(branch[d]) \subseteq HumanCommits(branch'[d])]_vars

\* A job that found its pull request never overwrites the commits of people, also
\* not those pushed between its check for such commits and its push, nor those on
\* a branch that was deleted and opened again under way.
UpdatesKeepHumanCommits ==
  [][\A d \in open \cap open' :
       pc[d] # "create" =>
         HumanCommits(branch[d]) \subseteq HumanCommits(branch'[d])]_vars

\* The jobs are scheduled daily, and GitHub answers.
Fairness == \A d \in Dependencies : WF_vars(UpdateFiles(d)) /\ WF_vars(Step(d))
FairSpec == Spec /\ Fairness

\* The last version of a dependency gets onto the target branch or into an open
\* pull request, unless the pull request is left to the people who pushed to it:
\* a rejected push, a search that returned another pull request, or a pull
\* request closed under way only delay it.
UpdateArrives ==
  \A d \in Dependencies :
    newest[d] = MaxVersion ~>
      \/ upstream[d] = MaxVersion
      \/ d \in open /\ (Last(branch[d]).version = MaxVersion \/ HumanCommits(branch[d]) # {})
==============================================================================
