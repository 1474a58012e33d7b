------------------------------ MODULE GitServer ------------------------------
(***************************************************************************)
(* The Azure DevOps repository that the commands work on: its commits, its *)
(* branches, and what pushes and completed pull requests do to them.       *)
(***************************************************************************)
EXTENDS BranchContent, Sequences, FiniteSets

VARIABLES
  commits,  \* every commit the server has, in the order of creation
  head      \* branch -> its commit, NoCommit if it does not exist

NoCommit == 0

\* A commit knows its ancestors, itself included, and its content.
Commit == [ancestors : SUBSET Nat, tree : Tree]
Ancestors(i) == commits[i].ancestors
TreeOf(i) == commits[i].tree
CommitIds == 1 .. Len(commits)
Exists(b) == head[b] # NoCommit

AddCommit(parents, tree) ==
  commits' = Append(commits,
    [ancestors |-> {Len(commits) + 1} \cup UNION {Ancestors(p) : p \in parents},
     tree      |-> tree])
NewCommit == Len(commits) + 1

\* A push that is not forced creates the branch or moves it forward; its last
\* commit is a new one on top of parent.
MutMovesForward(branch, parent) == TRUE   \* forced
MovesForward(branch, parent) == Exists(branch) => head[branch] \in Ancestors(parent)

\* Ids grow along ancestry, so the last common ancestor is a merge base.
MergeBase(i, j) ==
  CHOOSE k \in Ancestors(i) \cap Ancestors(j) :
    \A l \in Ancestors(i) \cap Ancestors(j) : l <= k

\* The server merges a branch without conflicts into another one.
Merge(into, branch, style) ==
  LET ours   == head[into]
      theirs == head[branch]
      base   == TreeOf(MergeBase(ours, theirs))
  IN /\ Mergeable(base, TreeOf(ours), TreeOf(theirs))
     /\ IF style = "fastForward"
        THEN /\ ours \in Ancestors(theirs)
             /\ head' = [head EXCEPT ![into] = theirs]
             /\ UNCHANGED commits
        ELSE /\ AddCommit(IF style = "merge" THEN {ours, theirs} ELSE {ours},
                          MergeTrees(base, TreeOf(ours), TreeOf(theirs)))
             /\ head' = [head EXCEPT ![into] = NewCommit]

-----------------------------------------------------------------------------
(* Histories: a commit is its own ancestor, its other ancestors are older, *)
(* and their ancestors are its own.                                        *)

CommitsOK ==
  \A i \in CommitIds :
    /\ i \in Ancestors(i)
    /\ Ancestors(i) \subseteq 1 .. i

HistoriesClosed ==
  \A i \in CommitIds : \A j \in Ancestors(i) : Ancestors(j) \subseteq Ancestors(i)
==============================================================================
