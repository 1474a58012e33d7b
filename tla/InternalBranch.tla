---------------------------- MODULE InternalBranch ----------------------------
(***************************************************************************)
(* What a reader of the two branches is promised: the release branch gets  *)
(* edits and public builds; the internal branch follows it at a distance,  *)
(* with the staged builds on top.  There are no commits, runs or pull      *)
(* requests here, and only the content of the two branches.                *)
(*                                                                         *)
(* A branch is <<>> before it exists and <<content>> from then on.         *)
(***************************************************************************)
EXTENDS BranchContent, Sequences

VARIABLES release, internal
branches == <<release, internal>>

Init ==
  /\ release \in {<<>>, <<FirstTree>>}
  /\ internal = release

PublishRelease ==
  /\ \/ release = <<>> /\ release' = <<FirstTree>>
     \/ /\ release # <<>>
        /\ \/ \E e \in Edits : release' = <<[release[1] EXCEPT !.edits = @ \cup {e}]>>
           \/ \E c \in Containers : release' = <<ApplyPublicBuild(release[1], c)>>
  /\ UNCHANGED internal

CreateInternal ==
  /\ internal = <<>> /\ release # <<>>
  /\ internal' = release
  /\ UNCHANGED release

\* A staged build arrives on the internal branch.
StageBuild(c) ==
  /\ internal # <<>>
  /\ internal[1].recorded[VersionOf[c]] < c
  /\ internal' = <<ApplyInternalBuild(internal[1], c)>>
  /\ UNCHANGED release

\* A group of variables moves to a public build that the release branch has
\* reached, and never back to an older one.
Follows(new, old, released) ==
  \/ new = old
  \/ /\ ~ new.internal
     /\ old.build <= new.build /\ new.build <= released.build

\* The internal branch gets closer to the release branch: more of its edits,
\* newer public builds where nothing is staged, and all that is staged stays
\* behind the base URL it was staged with.  Under an SDK-only build the runtime
\* is the release branch's; under a full one the SDK's own base URL can only go.
CatchUp(old, now, new) ==
  LET SameRuntime(v) == new.runtime[v] = old.runtime[v] /\ new.dotnetUrl[v] = old.dotnetUrl[v]
      SameSdk(v) == new.sdk[v] = old.sdk[v] /\ new.sdkUrl[v] = old.sdkUrl[v]
  IN /\ old.edits \subseteq new.edits /\ new.edits \subseteq now.edits
     /\ new.recorded = old.recorded
     /\ \A v \in Versions :
          LET c == old.recorded[v]
          IN CASE c = NoContainer ->
                    /\ Follows(new.sdk[v], old.sdk[v], now.sdk[v])
                    /\ Follows(new.runtime[v], old.runtime[v], now.runtime[v])
                    /\ new.dotnetUrl[v] = old.dotnetUrl[v] /\ new.sdkUrl[v] = old.sdkUrl[v]
               [] c \in SdkOnly ->
                    /\ SameSdk(v)
                    /\ \/ SameRuntime(v)
                       \/ /\ ~ new.runtime[v].internal /\ new.dotnetUrl[v] = NoContainer
                          /\ new.runtime[v].build <= now.runtime[v].build
               [] OTHER ->
                    /\ SameRuntime(v)
                    /\ \/ SameSdk(v)
                       \/ new.sdk[v] = old.sdk[v] /\ new.sdkUrl[v] = NoContainer

SyncInternal ==
  /\ internal # <<>> /\ internal' # <<>>
  /\ CatchUp(internal[1], release[1], internal'[1])
  /\ UNCHANGED release

Next ==
  \/ PublishRelease
  \/ CreateInternal
  \/ \E c \in Containers : StageBuild(c)
  \/ SyncInternal

Spec == Init /\ [][Next]_branches
==============================================================================
