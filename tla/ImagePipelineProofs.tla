-------------------------- MODULE ImagePipelineProofs --------------------------
(***************************************************************************)
(* Proofs about ImagePipeline: its type invariant, and what is published   *)
(* by any number of runs of any number of legs.                            *)
(***************************************************************************)
EXTENDS ImagePipeline, TLAPS

-----------------------------------------------------------------------------
(* The inductive invariant.                                                *)

\* Every attempt of a leg but the first one follows a re-run.
AttemptsCounted ==
  \A r \in Runs, l \in Legs :
    /\ attempt[r][l] <= reruns + 1
    /\ leg[r][l] = NotRun => attempt[r][l] <= reruns

\* Results of a run's first two stages, its legs and its artifacts belong together.
BuildOK(r) ==
  /\ result[r]["Build"] = "succeeded" => \A l \in Legs : leg[r][l] = "succeeded"
  /\ result[r]["Post_Build"] = "succeeded" => result[r]["Build"] = "succeeded"
  /\ imageInfo[r] # {} => result[r]["Post_Build"] = "succeeded"
  /\ \A l \in Legs : leg[r][l] = "succeeded" => <<l, attempt[r][l]>> \in artifacts[r]

\* No stage has a result before those it depends on, and none before the run is
\* queued.
OrderOK(r) ==
  /\ result[r]["Build"] = NotRun => result[r]["Post_Build"] = NotRun
  /\ result[r]["Post_Build"] = NotRun =>
       result[r]["Sign"] = NotRun /\ result[r]["Test"] = NotRun
  /\ stages[r] = {} => \A s \in Stages : result[r][s] = NotRun
  /\ "build" \in stages[r] => source[r] = r

StructureOK == \A r \in Runs : BuildOK(r) /\ OrderOK(r)

IInv == TypeOK /\ AttemptsCounted /\ StructureOK

-----------------------------------------------------------------------------
(* The operators of the stages.                                            *)

LEMMA StageNames ==
  /\ Stages = {"Build", "Post_Build", "Sign", "Test", "Publish"}
  /\ DependsOn("Build") = {}
  /\ DependsOn("Post_Build") = {"Build"}
  /\ DependsOn("Sign") = {"Post_Build"}
  /\ DependsOn("Test") = {"Post_Build"}
  /\ DependsOn("Publish") = {"Sign", "Test"}
  /\ Downstream("Build") = Stages
  /\ Downstream("Post_Build") = Stages \ {"Build"}
  /\ Downstream("Sign") = {"Sign", "Publish"}
  /\ Downstream("Test") = {"Test", "Publish"}
  /\ Downstream("Publish") = {"Publish"}
  BY DEF Stages, DependsOn, Downstream

LEMMA Conditions ==
  ASSUME NEW r \in Runs
  PROVE  /\ Condition(r, "Build") = Selected(r, "build")
         /\ Condition(r, "Post_Build") = AfterBuild(r)
         /\ Condition(r, "Sign") = (signing /\ Selected(r, "sign") /\ Ready(r))
         /\ Condition(r, "Test") = (Selected(r, "test") /\ Ready(r))
         /\ Condition(r, "Publish") = ShouldPublish(r)
  BY DEF Condition

\* A stage that runs was waiting, and its run is queued.
LEMMA RunnableStage ==
  ASSUME NEW r \in Runs, NEW s \in Stages, Runnable(r, s)
  PROVE  /\ stages[r] # {}
         /\ result[r][s] = NotRun
         /\ \A d \in DependsOn(s) : result[r][d] # NotRun
         /\ Condition(r, s)
  BY DEF Runnable, Pending

-----------------------------------------------------------------------------
(* The type invariant.                                                     *)

LEMMA InitIInv == Init => IInv
  <1> SUFFICES ASSUME Init PROVE IInv
    OBVIOUS
  <1>1. TypeOK
    BY PipelineAssumption DEF Init, TypeOK, NotRun, Attempts, Images
  <1>2. AttemptsCounted
    BY DEF Init, AttemptsCounted
  <1>3. StructureOK
    BY DEF Init, StructureOK, BuildOK, OrderOK, NotRun, Stages
  <1> QED BY <1>1, <1>2, <1>3 DEF IInv

LEMMA ImagesType ==
  ASSUME TypeOK, NEW r \in Runs
  PROVE  ImagesOf(r) \in Images
  BY DEF TypeOK, ImagesOf, Images

LEMMA PruneSubset == ASSUME NEW infos PROVE Prune(infos) \subseteq infos
  BY DEF Prune

-----------------------------------------------------------------------------
(* One lemma per action.                                                   *)

\* A stage gets a result, and nothing else changes that the invariant is about but
\* the sets of tested, signed and published images.
LEMMA StageEnds ==
  ASSUME IInv, NEW r \in Runs, NEW s \in Stages,
         NEW o \in {"skipped", "succeeded", "failed"},
         Pending(r, s), Finish(r, s, o),
         s = "Build" /\ o = "succeeded" => \A l \in Legs : leg[r][l] = "succeeded",
         s = "Post_Build" => o # "succeeded",
         tested' \subseteq Images, signed' \subseteq Images,
         published' \subseteq [by : Runs, images : Images],
         UNCHANGED <<signing, stages, source, attempt, leg, artifacts, imageInfo, counters>>
  PROVE  IInv'
  <1>1. /\ result[r][s] = NotRun /\ stages[r] # {}
        /\ \A d \in DependsOn(s) : result[r][d] # NotRun
    BY DEF Pending
  <1>2. TypeOK
    BY DEF IInv
  <1>3. /\ result' \in [Runs -> [Stages -> {NotRun, "skipped", "succeeded", "failed"}]]
        /\ result'[r][s] = o
        /\ \A t \in Stages \ {s} : result'[r][t] = result[r][t]
        /\ \A q \in Runs \ {r} : result'[q] = result[q]
    BY <1>2 DEF TypeOK, Finish
  <1>4. TypeOK'
    BY <1>2, <1>3 DEF TypeOK, counters
  <1>5. AttemptsCounted'
    BY DEF IInv, AttemptsCounted, counters
  <1>6. ASSUME NEW q \in Runs
        PROVE  BuildOK(q)' /\ OrderOK(q)'
    <2>1. BuildOK(q) /\ OrderOK(q)
      BY DEF IInv, StructureOK
    <2>2. CASE q # r
      BY <1>3, <2>1, <2>2 DEF BuildOK, OrderOK
    <2>3. CASE q = r
      <3>1. /\ s \in {"Build", "Post_Build", "Sign", "Test", "Publish"}
            /\ \A t \in {"Build", "Post_Build", "Sign", "Test", "Publish"} \ {s} :
                 result'[r][t] = result[r][t]
        BY <1>3, StageNames
      <3>2. o # NotRun
        BY DEF NotRun
      <3>3. /\ s = "Post_Build" => result[r]["Build"] # NotRun
            /\ s \in {"Sign", "Test"} => result[r]["Post_Build"] # NotRun
        BY <1>1, StageNames
      <3>4. BuildOK(r)'
        BY <1>1, <1>3, <2>1, <2>3, <3>1, <3>2, <3>3 DEF BuildOK, OrderOK, NotRun
      <3>5. OrderOK(r)'
        BY <1>1, <1>3, <2>1, <2>3, <3>1, <3>2, <3>3 DEF BuildOK, OrderOK, NotRun
      <3> QED BY <2>3, <3>4, <3>5
    <2> QED BY <2>2, <2>3
  <1> QED BY <1>4, <1>5, <1>6 DEF IInv, StructureOK

LEMMA SkipStep ==
  ASSUME IInv, NEW r \in Runs, NEW s \in Stages, Skip(r, s)
  PROVE  IInv'
  <1>1. /\ Pending(r, s) /\ Finish(r, s, "skipped")
        /\ UNCHANGED <<signing, stages, source, attempt, leg, artifacts, imageInfo,
                       tested, signed, published, counters>>
    BY DEF Skip
  <1>2. /\ tested' \subseteq Images /\ signed' \subseteq Images
        /\ published' \subseteq [by : Runs, images : Images]
    BY <1>1 DEF IInv, TypeOK
  <1> QED BY <1>1, <1>2, StageEnds

LEMMA BuildLegStep ==
  ASSUME IInv, NEW r \in Runs, NEW l \in Legs, BuildLeg(r, l)
  PROVE  IInv'
  <1>1. result[r]["Build"] = NotRun /\ leg[r][l] = NotRun
    BY RunnableStage, StageNames DEF BuildLeg
  <1>2. /\ attempt[r][l] \in 0 .. MaxReruns + 1
        /\ attempt[r][l] <= reruns /\ reruns \in 0 .. MaxReruns /\ MaxReruns \in Nat
    BY <1>1, PipelineAssumption DEF IInv, TypeOK, AttemptsCounted
  <1>3. /\ attempt'[r][l] = attempt[r][l] + 1
        /\ attempt[r][l] + 1 \in Attempts
        /\ \A q \in Runs, m \in Legs :
             q # r \/ m # l => attempt'[q][m] = attempt[q][m]
        /\ attempt' \in [Runs -> [Legs -> 0 .. MaxReruns + 1]]
    <2>1. /\ attempt' = [attempt EXCEPT ![r][l] = @ + 1]
          /\ attempt \in [Runs -> [Legs -> 0 .. MaxReruns + 1]]
      BY DEF BuildLeg, IInv, TypeOK
    <2>2. attempt[r][l] + 1 \in 0 .. MaxReruns + 1 /\ attempt[r][l] + 1 \in Attempts
      BY <1>2 DEF Attempts
    <2>3. attempt' \in [Runs -> [Legs -> 0 .. MaxReruns + 1]]
      BY <2>1, <2>2
    <2>4. /\ attempt'[r][l] = attempt[r][l] + 1
          /\ \A q \in Runs, m \in Legs :
               q # r \/ m # l => attempt'[q][m] = attempt[q][m]
      BY <2>1
    <2> QED BY <2>2, <2>3, <2>4
  <1>4. PICK o \in {"succeeded", "failed"} :
          /\ leg' = [leg EXCEPT ![r][l] = o]
          /\ \/ o = "failed" /\ artifacts' = artifacts
             \/ artifacts' = [artifacts EXCEPT ![r] = @ \cup {Artifact(r, l)}]
    BY DEF BuildLeg
  <1>5. /\ leg' \in [Runs -> [Legs -> {NotRun, "succeeded", "failed"}]]
        /\ leg'[r][l] = o
        /\ \A q \in Runs, m \in Legs : q # r \/ m # l => leg'[q][m] = leg[q][m]
    BY <1>4 DEF IInv, TypeOK
  <1>6. Artifact(r, l) = <<l, attempt'[r][l]>> /\ Artifact(r, l) \in Legs \X Attempts
    BY <1>3 DEF Artifact
  <1>7. /\ artifacts' \in [Runs -> SUBSET (Legs \X Attempts)]
        /\ \A q \in Runs : artifacts[q] \subseteq artifacts'[q]
        /\ \A q \in Runs : artifacts'[q] \subseteq artifacts[q] \cup (IF q = r THEN {Artifact(r, l)} ELSE {})
        /\ o = "succeeded" => Artifact(r, l) \in artifacts'[r]
    <2>1. artifacts \in [Runs -> SUBSET (Legs \X Attempts)]
      BY DEF IInv, TypeOK
    <2>2. CASE o = "failed" /\ artifacts' = artifacts
      BY <2>1, <2>2
    <2>3. CASE artifacts' = [artifacts EXCEPT ![r] = @ \cup {Artifact(r, l)}]
      <3>1. artifacts[r] \cup {Artifact(r, l)} \in SUBSET (Legs \X Attempts)
        BY <1>6, <2>1
      <3>2. artifacts' \in [Runs -> SUBSET (Legs \X Attempts)]
        BY <2>1, <2>3, <3>1
      <3>3. /\ artifacts'[r] = artifacts[r] \cup {Artifact(r, l)}
            /\ \A q \in Runs \ {r} : artifacts'[q] = artifacts[q]
        BY <2>1, <2>3
      <3> QED BY <3>2, <3>3
    <2> QED BY <1>4, <2>2, <2>3
  <1>8. UNCHANGED <<signing, stages, source, result, imageInfo, tested, signed, published, counters>>
    BY DEF BuildLeg
  <1>9. TypeOK'
    <2>1. \A q \in Runs : \A a \in artifacts'[q] : a[2] <= attempt'[q][a[1]]
      <3> SUFFICES ASSUME NEW q \in Runs, NEW a \in artifacts'[q]
                   PROVE  a[2] <= attempt'[q][a[1]]
        OBVIOUS
      <3>1. CASE a \in artifacts[q]
        <4>1. a[1] \in Legs /\ a[2] \in Nat /\ a[2] <= attempt[q][a[1]] /\ attempt[q][a[1]] \in Nat
          BY <3>1 DEF IInv, TypeOK, Attempts
        <4> QED BY <1>2, <1>3, <4>1
      <3>2. CASE q = r /\ a = Artifact(r, l)
        BY <1>3, <1>6, <3>2 DEF Attempts
      <3> QED BY <1>7, <3>1, <3>2
    <2>2. \A q \in Runs : imageInfo'[q] \subseteq artifacts'[q]
      BY <1>7, <1>8 DEF IInv, TypeOK
    <2> QED BY <1>3, <1>5, <1>7, <1>8, <2>1, <2>2 DEF IInv, TypeOK, counters
  <1>10. AttemptsCounted'
    <2> SUFFICES ASSUME NEW q \in Runs, NEW m \in Legs
                 PROVE  /\ attempt'[q][m] <= reruns + 1
                        /\ leg'[q][m] = NotRun => attempt'[q][m] <= reruns
      BY <1>8 DEF AttemptsCounted, counters
    <2>1. CASE q # r \/ m # l
      BY <1>3, <1>5, <2>1 DEF IInv, AttemptsCounted
    <2>2. CASE q = r /\ m = l
      BY <1>2, <1>3, <1>5, <2>2 DEF NotRun
    <2> QED BY <2>1, <2>2
  <1>11. ASSUME NEW q \in Runs
         PROVE  BuildOK(q)' /\ OrderOK(q)'
    <2>1. BuildOK(q) /\ OrderOK(q)
      BY DEF IInv, StructureOK
    <2>2. OrderOK(q)'
      BY <1>8, <2>1 DEF OrderOK
    <2>3. \A m \in Legs : leg'[q][m] = "succeeded" => <<m, attempt'[q][m]>> \in artifacts'[q]
      <3> SUFFICES ASSUME NEW m \in Legs, leg'[q][m] = "succeeded"
                   PROVE  <<m, attempt'[q][m]>> \in artifacts'[q]
        OBVIOUS
      <3>1. CASE q = r /\ m = l
        BY <1>5, <1>6, <1>7, <3>1
      <3>2. CASE q # r \/ m # l
        <4>1. leg'[q][m] = leg[q][m] /\ attempt'[q][m] = attempt[q][m]
          BY <1>3, <1>5, <3>2
        <4>2. <<m, attempt[q][m]>> \in artifacts[q]
          BY <2>1, <4>1 DEF BuildOK
        <4> QED BY <1>7, <4>1, <4>2
      <3> QED BY <3>1, <3>2
    <2>4. result[q]["Build"] = "succeeded" => \A m \in Legs : leg'[q][m] = "succeeded"
      BY <1>1, <1>5, <2>1 DEF BuildOK, NotRun
    <2> QED BY <1>8, <2>1, <2>2, <2>3, <2>4 DEF BuildOK
  <1> QED BY <1>9, <1>10, <1>11 DEF IInv, StructureOK

LEMMA BuildEndsStep ==
  ASSUME IInv, NEW r \in Runs, BuildEnds(r)
  PROVE  IInv'
  <1> DEFINE o == IF \E l \in Legs : leg[r][l] = "failed" THEN "failed" ELSE "succeeded"
  <1>1. /\ Pending(r, "Build") /\ Finish(r, "Build", o) /\ o \in {"succeeded", "failed"}
        /\ UNCHANGED <<signing, stages, source, attempt, leg, artifacts, imageInfo,
                       tested, signed, published, counters>>
    BY DEF BuildEnds, Runnable
  <1>2. o = "succeeded" => \A l \in Legs : leg[r][l] = "succeeded"
    BY DEF BuildEnds, IInv, TypeOK
  <1>3. /\ tested' \subseteq Images /\ signed' \subseteq Images
        /\ published' \subseteq [by : Runs, images : Images]
    BY <1>1 DEF IInv, TypeOK
  <1> HIDE DEF o
  <1> QED BY <1>1, <1>2, <1>3, StageEnds, StageNames

LEMMA SignStep ==
  ASSUME IInv, NEW r \in Runs, Sign(r)
  PROVE  IInv'
  <1>1. PICK o \in {"succeeded", "failed"} : Finish(r, "Sign", o)
    BY DEF Sign
  <1>2. /\ Pending(r, "Sign") /\ signed' \subseteq signed \cup {ImagesOf(r)}
        /\ UNCHANGED <<signing, stages, source, attempt, leg, artifacts, imageInfo,
                       tested, published, counters>>
    BY DEF Sign, Runnable
  <1>3. /\ tested' \subseteq Images /\ signed' \subseteq Images
        /\ published' \subseteq [by : Runs, images : Images]
    BY <1>2, ImagesType DEF IInv, TypeOK
  <1> QED BY <1>1, <1>2, <1>3, StageEnds, StageNames

LEMMA TestStep ==
  ASSUME IInv, NEW r \in Runs, Test(r)
  PROVE  IInv'
  <1>1. PICK o \in {"succeeded", "failed"} : Finish(r, "Test", o)
    BY DEF Test
  <1>2. /\ Pending(r, "Test") /\ tested' \subseteq tested \cup {ImagesOf(r)}
        /\ UNCHANGED <<signing, stages, source, attempt, leg, artifacts, imageInfo,
                       signed, published, counters>>
    BY DEF Test, Runnable
  <1>3. /\ tested' \subseteq Images /\ signed' \subseteq Images
        /\ published' \subseteq [by : Runs, images : Images]
    BY <1>2, ImagesType DEF IInv, TypeOK
  <1> QED BY <1>1, <1>2, <1>3, StageEnds, StageNames

LEMMA PublishStep ==
  ASSUME IInv, NEW r \in Runs, Publish(r)
  PROVE  IInv'
  <1>1. PICK o \in {"succeeded", "failed"} : Finish(r, "Publish", o)
    BY DEF Publish
  <1>2. /\ Pending(r, "Publish")
        /\ published' \subseteq published \cup {[by |-> r, images |-> ImagesOf(r)]}
        /\ UNCHANGED <<signing, stages, source, attempt, leg, artifacts, imageInfo,
                       tested, signed, counters>>
    BY DEF Publish, Runnable
  <1>3. /\ tested' \subseteq Images /\ signed' \subseteq Images
        /\ published' \subseteq [by : Runs, images : Images]
    BY <1>2, ImagesType DEF IInv, TypeOK
  <1> QED BY <1>1, <1>2, <1>3, StageEnds, StageNames

LEMMA PostBuildStep ==
  ASSUME IInv, NEW r \in Runs, PostBuild(r)
  PROVE  IInv'
  <1>1. /\ result[r]["Post_Build"] = NotRun /\ result[r]["Build"] # NotRun
        /\ stages[r] # {} /\ result[r]["Build"] = "succeeded"
    BY RunnableStage, StageNames, Conditions DEF PostBuild, AfterBuild, Succeeded
  <1>2. /\ UNCHANGED <<signing, stages, source, attempt, leg, artifacts, tested, signed,
                       published, reruns>>
        /\ TypeOK
    BY DEF PostBuild, IInv
  <1>3. PICK o \in {"succeeded", "failed"} :
          /\ Finish(r, "Post_Build", o)
          /\ \/ o = "failed" /\ imageInfo' = imageInfo
             \/ \E infos \in SUBSET artifacts[r] :
                  o = "succeeded" /\ imageInfo' = [imageInfo EXCEPT ![r] = infos]
    BY PruneSubset DEF PostBuild
  <1>4. /\ result' \in [Runs -> [Stages -> {NotRun, "skipped", "succeeded", "failed"}]]
        /\ result'[r]["Post_Build"] = o
        /\ \A t \in Stages \ {"Post_Build"} : result'[r][t] = result[r][t]
        /\ \A q \in Runs \ {r} : result'[q] = result[q]
    BY <1>2, <1>3, StageNames DEF TypeOK, Finish
  <1>5. /\ imageInfo' \in [Runs -> SUBSET (Legs \X Attempts)]
        /\ \A q \in Runs \ {r} : imageInfo'[q] = imageInfo[q]
        /\ imageInfo'[r] \subseteq artifacts[r]
        /\ imageInfo'[r] # {} => imageInfo'[r] = imageInfo[r] \/ o = "succeeded"
    <2>1. CASE o = "failed" /\ imageInfo' = imageInfo
      BY <1>2, <2>1 DEF TypeOK
    <2>2. CASE \E infos \in SUBSET artifacts[r] :
                 o = "succeeded" /\ imageInfo' = [imageInfo EXCEPT ![r] = infos]
      BY <1>2, <2>2 DEF TypeOK
    <2> QED
      BY <1>3, <2>1, <2>2
  <1>6. downloadFailures' \in 0 .. MaxDownloadFailures
    BY <1>2, PipelineAssumption DEF PostBuild, TypeOK
  <1>7. TypeOK'
    BY <1>2, <1>4, <1>5, <1>6 DEF TypeOK
  <1>8. AttemptsCounted'
    BY <1>2 DEF IInv, AttemptsCounted
  <1>9. ASSUME NEW q \in Runs
        PROVE  BuildOK(q)' /\ OrderOK(q)'
    <2>1. BuildOK(q) /\ OrderOK(q)
      BY DEF IInv, StructureOK
    <2>2. CASE q # r
      BY <1>2, <1>4, <1>5, <2>1, <2>2 DEF BuildOK, OrderOK
    <2>3. CASE q = r
      <3>1. /\ result'[r]["Build"] = result[r]["Build"]
            /\ result'[r]["Sign"] = result[r]["Sign"]
            /\ result'[r]["Test"] = result[r]["Test"]
            /\ o # NotRun
        BY <1>4, StageNames DEF NotRun
      <3>2. BuildOK(r)'
        BY <1>1, <1>2, <1>4, <1>5, <2>1, <2>3, <3>1 DEF BuildOK, NotRun
      <3>3. OrderOK(r)'
        BY <1>1, <1>2, <1>4, <2>1, <2>3, <3>1 DEF OrderOK
      <3> QED BY <2>3, <3>2, <3>3
    <2> QED BY <2>2, <2>3
  <1> QED BY <1>7, <1>8, <1>9 DEF IInv, StructureOK

LEMMA QueueStep ==
  ASSUME IInv, NEW r \in Runs, Queue(r)
  PROVE  IInv'
  <1>1. /\ stages[r] = {}
        /\ UNCHANGED <<signing, attempt, leg, artifacts, result, imageInfo, tested, signed,
                       published, counters>>
        /\ TypeOK
    BY DEF Queue, IInv
  <1>2. PICK chosen \in SUBSET {"build", "sign", "test", "publish"} \ {{}}, from \in Builders :
          /\ "build" \in chosen => from = r
          /\ stages' = [stages EXCEPT ![r] = chosen]
          /\ source' = [source EXCEPT ![r] = from]
    BY DEF Queue
  <1>3. /\ stages' \in [Runs -> SUBSET {"build", "sign", "test", "publish"}]
        /\ source' \in [Runs -> Runs]
        /\ stages'[r] = chosen /\ source'[r] = from
        /\ \A q \in Runs \ {r} : stages'[q] = stages[q] /\ source'[q] = source[q]
    BY <1>1, <1>2, PipelineAssumption DEF TypeOK
  <1>4. TypeOK'
    BY <1>1, <1>3 DEF TypeOK, counters
  <1>5. AttemptsCounted'
    BY <1>1 DEF IInv, AttemptsCounted, counters
  <1>6. ASSUME NEW q \in Runs
        PROVE  BuildOK(q)' /\ OrderOK(q)'
    <2>1. BuildOK(q) /\ OrderOK(q)
      BY DEF IInv, StructureOK
    <2> QED BY <1>1, <1>2, <1>3, <2>1 DEF BuildOK, OrderOK
  <1> QED BY <1>4, <1>5, <1>6 DEF IInv, StructureOK


LEMMA RerunStep ==
  ASSUME IInv, NEW r \in Runs, NEW s \in Stages, Rerun(r, s)
  PROVE  IInv'
  <1>1. /\ result[r][s] = "failed" /\ reruns < MaxReruns /\ reruns' = reruns + 1
        /\ UNCHANGED <<signing, stages, source, attempt, artifacts, imageInfo,
                       tested, signed, published, downloadFailures>>
        /\ TypeOK
    BY DEF Rerun, IInv
  <1>2. /\ reruns \in 0 .. MaxReruns /\ reruns' \in 0 .. MaxReruns
        /\ \A q \in Runs, l \in Legs : attempt[q][l] \in 0 .. MaxReruns + 1
    BY <1>1, PipelineAssumption DEF TypeOK
  <1>3. /\ result' \in [Runs -> [Stages -> {NotRun, "skipped", "succeeded", "failed"}]]
        /\ \A t \in Downstream(s) \cap Stages : result'[r][t] = NotRun
        /\ \A t \in Stages \ Downstream(s) : result'[r][t] = result[r][t]
        /\ \A q \in Runs \ {r} : result'[q] = result[q]
    BY <1>1 DEF Rerun, TypeOK
  <1>4. /\ leg' \in [Runs -> [Legs -> {NotRun, "succeeded", "failed"}]]
        /\ \A q \in Runs, l \in Legs :
             leg'[q][l] = leg[q][l] \/ (leg[q][l] = "failed" /\ leg'[q][l] = NotRun)
    <2>1. leg \in [Runs -> [Legs -> {NotRun, "succeeded", "failed"}]]
      BY <1>1 DEF TypeOK
    <2>2. CASE s = "Build"
      <3> DEFINE again == [l \in Legs |-> IF leg[r][l] = "failed" THEN NotRun ELSE leg[r][l]]
      <3>1. again \in [Legs -> {NotRun, "succeeded", "failed"}]
        BY <2>1
      <3>2. /\ \A l \in Legs : again[l] = leg[r][l] \/ (leg[r][l] = "failed" /\ again[l] = NotRun)
            /\ leg' = [leg EXCEPT ![r] = again]
        BY <2>2 DEF Rerun
      <3> HIDE DEF again
      <3> QED BY <2>1, <3>1, <3>2
    <2>3. CASE leg' = leg
      BY <2>1, <2>3
    <2> QED BY <2>2, <2>3 DEF Rerun
  <1>5. s # "Build" => leg' = leg
    BY DEF Rerun
  <1>6. TypeOK'
    BY <1>1, <1>2, <1>3, <1>4 DEF TypeOK
  <1>7. AttemptsCounted'
    <2> SUFFICES ASSUME NEW q \in Runs, NEW l \in Legs
                 PROVE  attempt[q][l] <= reruns + 1
      BY <1>1, <1>2 DEF AttemptsCounted
    <2> QED BY DEF IInv, AttemptsCounted
  <1>8. ASSUME NEW q \in Runs
        PROVE  BuildOK(q)' /\ OrderOK(q)'
    <2>1. BuildOK(q) /\ OrderOK(q)
      BY DEF IInv, StructureOK
    <2>2. \A l \in Legs : leg'[q][l] = "succeeded" <=> leg[q][l] = "succeeded"
      BY <1>4 DEF NotRun
    <2>3. CASE q # r
      BY <1>1, <1>3, <2>1, <2>2, <2>3 DEF BuildOK, OrderOK
    <2>4. CASE q = r
      <3>1. imageInfo[r] # {} => s \notin {"Build", "Post_Build"}
        BY <1>1, <2>1, <2>4 DEF BuildOK
      <3>2. stages[r] # {}
        BY <1>1, <2>1, <2>4 DEF OrderOK, NotRun
      <3>3. BuildOK(r)'
        BY <1>1, <1>3, <2>1, <2>2, <2>4, <3>1, StageNames DEF BuildOK, NotRun
      <3>4. OrderOK(r)'
        BY <1>1, <1>3, <2>1, <2>4, <3>2, StageNames DEF OrderOK, NotRun
      <3> QED BY <2>4, <3>3, <3>4
    <2> QED BY <2>3, <2>4
  <1> QED BY <1>6, <1>7, <1>8 DEF IInv, StructureOK

LEMMA NextIInv == IInv /\ [Next]_vars => IInv'
  <1> SUFFICES ASSUME IInv, [Next]_vars PROVE IInv'
    OBVIOUS
  <1>1. ASSUME NEW r \in Runs, Queue(r) PROVE IInv'
    BY <1>1, QueueStep
  <1>2. ASSUME NEW r \in Runs, NEW s \in Stages, Skip(r, s) PROVE IInv'
    BY <1>2, SkipStep
  <1>3. ASSUME NEW r \in Runs, NEW s \in Stages, Rerun(r, s) PROVE IInv'
    BY <1>3, RerunStep
  <1>4. ASSUME NEW r \in Runs, NEW l \in Legs, BuildLeg(r, l) PROVE IInv'
    BY <1>4, BuildLegStep
  <1>5. ASSUME NEW r \in Runs, BuildEnds(r) PROVE IInv'
    BY <1>5, BuildEndsStep
  <1>6. ASSUME NEW r \in Runs, PostBuild(r) PROVE IInv'
    BY <1>6, PostBuildStep
  <1>7. ASSUME NEW r \in Runs, Sign(r) PROVE IInv'
    BY <1>7, SignStep
  <1>8. ASSUME NEW r \in Runs, Test(r) PROVE IInv'
    BY <1>8, TestStep
  <1>9. ASSUME NEW r \in Runs, Publish(r) PROVE IInv'
    BY <1>9, PublishStep
  <1>10. CASE UNCHANGED vars
    BY <1>10 DEF IInv, TypeOK, AttemptsCounted, StructureOK, BuildOK, OrderOK, vars, counters
  <1> QED
    BY <1>1, <1>2, <1>3, <1>4, <1>5, <1>6, <1>7, <1>8, <1>9, <1>10 DEF Next

\* Every artifact is of an attempt that was made, every image info is made of its
\* run's artifacts, and no leg has more attempts than its pipeline was run again.
THEOREM PipelineTypeCorrect == Spec => []TypeOK
  <1>1. IInv => TypeOK
    BY DEF IInv
  <1> QED BY <1>1, InitIInv, NextIInv, PTL DEF Spec

-----------------------------------------------------------------------------
(* What no step takes back.                                                *)

\* A run that is queued keeps its parameters; an image info that was merged stays,
\* and so do the attempts it was made of; and only Publish publishes.
Lasting ==
  /\ \A r \in Runs : imageInfo[r] # {} => imageInfo'[r] = imageInfo[r] /\ attempt'[r] = attempt[r]
  /\ \A r \in Runs : stages[r] # {} => stages'[r] = stages[r] /\ source'[r] = source[r]
  /\ signing' = signing /\ tested \subseteq tested' /\ signed \subseteq signed'
  /\ downloadFailures <= downloadFailures'
  /\ published' = published \/ \E r \in Runs : Publish(r)

LEMMA NextLasting == IInv /\ [Next]_vars => Lasting
  <1> SUFFICES ASSUME IInv, [Next]_vars PROVE Lasting
    OBVIOUS
  <1>1. TypeOK /\ downloadFailures \in Nat
    BY PipelineAssumption DEF IInv, TypeOK
  <1>2. ASSUME NEW r \in Runs, Queue(r) PROVE Lasting
    BY <1>1, <1>2 DEF Queue, Lasting, TypeOK, counters
  <1>3. ASSUME NEW r \in Runs, NEW s \in Stages, Skip(r, s) PROVE Lasting
    BY <1>1, <1>3 DEF Skip, Lasting, counters
  <1>4. ASSUME NEW r \in Runs, NEW s \in Stages, Rerun(r, s) PROVE Lasting
    BY <1>1, <1>4 DEF Rerun, Lasting
  <1>5. ASSUME NEW r \in Runs, NEW l \in Legs, BuildLeg(r, l) PROVE Lasting
    <2>1. result[r]["Build"] = NotRun
      BY <1>5, RunnableStage, StageNames DEF BuildLeg
    <2>2. imageInfo[r] = {}
      BY <2>1 DEF IInv, StructureOK, BuildOK, NotRun
    <2>3. \A q \in Runs \ {r} : attempt'[q] = attempt[q]
      BY <1>1, <1>5 DEF BuildLeg, TypeOK
    <2> QED BY <1>1, <1>5, <2>2, <2>3 DEF BuildLeg, Lasting, counters
  <1>6. ASSUME NEW r \in Runs, BuildEnds(r) PROVE Lasting
    BY <1>1, <1>6 DEF BuildEnds, Lasting, counters
  <1>7. ASSUME NEW r \in Runs, PostBuild(r) PROVE Lasting
    <2>1. result[r]["Post_Build"] = NotRun
      BY <1>7, RunnableStage, StageNames DEF PostBuild
    <2>2. imageInfo[r] = {}
      BY <2>1 DEF IInv, StructureOK, BuildOK, NotRun
    <2>3. \A q \in Runs \ {r} : imageInfo'[q] = imageInfo[q]
      BY <1>1, <1>7 DEF PostBuild, TypeOK
    <2>4. downloadFailures <= downloadFailures'
      BY <1>1, <1>7 DEF PostBuild
    <2> QED BY <1>7, <2>2, <2>3, <2>4 DEF PostBuild, Lasting
  <1>8. ASSUME NEW r \in Runs, Sign(r) PROVE Lasting
    BY <1>1, <1>8 DEF Sign, Lasting, counters
  <1>9. ASSUME NEW r \in Runs, Test(r) PROVE Lasting
    BY <1>1, <1>9 DEF Test, Lasting, counters
  <1>10. ASSUME NEW r \in Runs, Publish(r) PROVE Lasting
    BY <1>1, <1>10 DEF Publish, Lasting, counters
  <1>11. CASE UNCHANGED vars
    BY <1>1, <1>11 DEF Lasting, vars, counters
  <1> QED
    BY <1>2, <1>3, <1>4, <1>5, <1>6, <1>7, <1>8, <1>9, <1>10, <1>11 DEF Next

\* What a step of Publish adds is there, is of a queued run, and was due.
LEMMA PublishAdds ==
  ASSUME NEW r \in Runs, Publish(r), NEW p \in published' \ published
  PROVE  /\ p.by = r /\ p.images = ImagesOf(r) /\ imageInfo[source[r]] # {}
         /\ stages[r] # {} /\ ShouldPublish(r)
         /\ UNCHANGED <<signing, stages, source, attempt, imageInfo, tested, signed, counters>>
  <1>1. p = [by |-> r, images |-> ImagesOf(r)] /\ Exist(ImagesOf(r))
    BY DEF Publish
  <1>2. imageInfo[source[r]] # {}
    BY <1>1 DEF Exist, ImagesOf
  <1> QED BY <1>1, <1>2, RunnableStage, StageNames, Conditions DEF Publish

-----------------------------------------------------------------------------
(* Only successful builds are published.                                   *)

\* What was published is still the image info of the run that built it.
PublishedInv ==
  \A p \in published :
    p.images.info # {} /\ imageInfo[p.images.run] = p.images.info

LEMMA InitPublished == Init => PublishedInv
  BY DEF Init, PublishedInv

LEMMA NextPublished == IInv /\ PublishedInv /\ [Next]_vars => PublishedInv'
  <1> SUFFICES ASSUME IInv, PublishedInv, [Next]_vars, NEW p \in published'
               PROVE  p.images.info # {} /\ imageInfo'[p.images.run] = p.images.info
    BY DEF PublishedInv
  <1>1. Lasting
    BY NextLasting
  <1>2. CASE p \in published
    <2>1. p.images.run \in Runs
      BY <1>2 DEF IInv, TypeOK, Images
    <2> QED BY <1>1, <1>2, <2>1 DEF PublishedInv, Lasting
  <1>3. CASE p \notin published
    <2>1. PICK r \in Runs : Publish(r)
      BY <1>1, <1>3 DEF Lasting
    <2>2. /\ p.images = ImagesOf(r) /\ imageInfo[source[r]] # {}
          /\ imageInfo' = imageInfo
      BY <1>3, <2>1, PublishAdds
    <2> QED BY <2>2 DEF ImagesOf
  <1> QED BY <1>2, <1>3

\* Whatever was selected, failed, was canceled and was run again: all legs of a run
\* whose images are published have succeeded.
THEOREM OnlySuccessfulBuilds == Spec => []OnlySuccessfulBuildsArePublished
  <1>1. IInv /\ PublishedInv => OnlySuccessfulBuildsArePublished
    <2> SUFFICES ASSUME IInv, PublishedInv, NEW p \in published, NEW l \in Legs
                 PROVE  leg[p.images.run][l] = "succeeded"
      BY DEF OnlySuccessfulBuildsArePublished
    <2>1. p.images.run \in Runs
      BY DEF IInv, TypeOK, Images
    <2>2. imageInfo[p.images.run] # {}
      BY DEF PublishedInv
    <2> QED BY <2>1, <2>2 DEF IInv, StructureOK, BuildOK
  <1> QED BY <1>1, InitIInv, NextIInv, InitPublished, NextPublished, PTL DEF Spec

-----------------------------------------------------------------------------
(* The last attempts are published.                                        *)

LastOf(r) == {<<l, attempt[r][l]>> : l \in Legs}

\* Sorting one-digit attempts as strings sorts them as numbers.
LEMMA RankOfOneDigit ==
  ASSUME NEW m \in 0 .. 9, NEW n \in 0 .. 9, Rank(m) <= Rank(n)
  PROVE  m <= n
  BY DEF Rank

\* Pruning keeps one artifact for each leg: that of its last attempt.
LEMMA PruneKeepsLast ==
  ASSUME TypeOK, MaxReruns <= 8, NEW r \in Runs,
         \A l \in Legs : <<l, attempt[r][l]>> \in artifacts[r]
  PROVE  Prune(artifacts[r]) = LastOf(r)
  <1>1. /\ \A i \in artifacts[r] : /\ i = <<i[1], i[2]>> /\ i[1] \in Legs /\ i[2] \in 0 .. 9
                                   /\ i[2] <= attempt[r][i[1]]
        /\ \A l \in Legs : attempt[r][l] \in 0 .. 9
    <2>1. MaxReruns \in 0 .. 8
      BY PipelineAssumption
    <2>2. \A n \in 0 .. MaxReruns + 1 : n \in 0 .. 9
      BY <2>1
    <2>3. \A l \in Legs : attempt[r][l] \in 0 .. MaxReruns + 1
      BY DEF TypeOK
    <2>4. /\ artifacts[r] \subseteq Legs \X Attempts
          /\ \A i \in artifacts[r] : i[2] <= attempt[r][i[1]]
      BY DEF TypeOK
    <2>5. Attempts \subseteq 0 .. 9
      BY <2>1 DEF Attempts
    <2> QED BY <2>2, <2>3, <2>4, <2>5
  <1>2. ASSUME NEW i \in Prune(artifacts[r]) PROVE i \in LastOf(r)
    <2>1. i \in artifacts[r] /\ <<i[1], attempt[r][i[1]]>> \in artifacts[r]
      BY <1>1, <1>2, PruneSubset
    <2>2. Rank(attempt[r][i[1]]) <= Rank(i[2])
      BY <2>1 DEF Prune
    <2>3. attempt[r][i[1]] <= i[2]
      BY <1>1, <2>1, <2>2, RankOfOneDigit
    <2>4. attempt[r][i[1]] = i[2]
      BY <1>1, <2>1, <2>3
    <2> QED BY <1>1, <2>1, <2>4 DEF LastOf
  <1>3. ASSUME NEW l \in Legs PROVE <<l, attempt[r][l]>> \in Prune(artifacts[r])
    <2> SUFFICES ASSUME NEW j \in artifacts[r], j[1] = l
                 PROVE  Rank(j[2]) <= Rank(attempt[r][l])
      BY DEF Prune
    <2> QED BY <1>1 DEF Rank
  <1> QED BY <1>2, <1>3 DEF LastOf

\* Every image info was made from complete artifacts, unless a download failed.
InfoIsLast ==
  downloadFailures = 0 =>
    \A r \in Runs : imageInfo[r] # {} => imageInfo[r] = LastOf(r)

LEMMA InfoIsLastHolds ==
  ASSUME MaxReruns <= 8
  PROVE  Spec => []InfoIsLast
  <1>1. Init => InfoIsLast
    BY DEF Init, InfoIsLast
  <1>2. IInv /\ InfoIsLast /\ [Next]_vars => InfoIsLast'
    <2> SUFFICES ASSUME IInv, InfoIsLast, [Next]_vars, downloadFailures' = 0,
                        NEW q \in Runs, imageInfo'[q] # {}
                 PROVE  imageInfo'[q] = {<<l, attempt'[q][l]>> : l \in Legs}
      BY DEF InfoIsLast, LastOf
    <2>1. Lasting
      BY NextLasting
    <2>2. downloadFailures = 0
      BY <2>1, PipelineAssumption DEF IInv, TypeOK, Lasting
    <2>3. CASE imageInfo[q] # {}
      BY <2>1, <2>2, <2>3 DEF Lasting, InfoIsLast, LastOf
    <2>4. CASE imageInfo[q] = {}
      <3>1. PostBuild(q)
        <4>1. PICK r \in Runs : PostBuild(r)
          BY <2>4 DEF Next, vars, Queue, Skip, Rerun, BuildLeg, BuildEnds, Sign, Test, Publish
        <4> QED BY <2>4, <4>1 DEF PostBuild, IInv, TypeOK
      <3>2. result[q]["Build"] = "succeeded"
        BY <3>1, RunnableStage, StageNames, Conditions DEF PostBuild, AfterBuild, Succeeded
      <3>3. Prune(artifacts[q]) = LastOf(q)
        BY <3>2, PruneKeepsLast DEF IInv, StructureOK, BuildOK
      <3>4. imageInfo' = [imageInfo EXCEPT ![q] = Prune(artifacts[q])]
        BY <2>2, <2>4, <3>1 DEF PostBuild
      <3>5. imageInfo'[q] = LastOf(q) /\ attempt' = attempt
        BY <3>1, <3>3, <3>4 DEF PostBuild, IInv, TypeOK
      <3> QED BY <3>5 DEF LastOf
    <2> QED BY <2>3, <2>4
  <1> QED BY <1>1, <1>2, InitIInv, NextIInv, PTL DEF Spec

\* With fewer than ten attempts of each leg, what is published are the images of
\* each leg's last attempt, which succeeded, unless a download was cut short.
THEOREM LastAttempts ==
  ASSUME MaxReruns <= 8
  PROVE  Spec => []LastAttemptsArePublished
  <1>1. IInv /\ PublishedInv /\ InfoIsLast => LastAttemptsArePublished
    BY DEF IInv, TypeOK, Images, PublishedInv, InfoIsLast, LastOf, LastAttemptsArePublished
  <1> QED
    BY <1>1, InfoIsLastHolds, InitIInv, NextIInv, InitPublished, NextPublished, PTL DEF Spec

-----------------------------------------------------------------------------
(* Published images are checked.                                           *)

\* A stage that succeeded did so for the images the run still works on, and a Test
\* that was skipped although it was selected had no images to test.
StagesChecked ==
  /\ \A r \in Runs :
       /\ result[r]["Test"] = "succeeded" => imageInfo[source[r]] # {} /\ ImagesOf(r) \in tested
       /\ result[r]["Sign"] = "succeeded" => imageInfo[source[r]] # {} /\ ImagesOf(r) \in signed
       /\ result[r]["Test"] = "skipped" /\ "test" \in stages[r] =>
            "build" \in stages[r] /\ imageInfo[r] = {}
  /\ \A p \in published : stages[p.by] # {}

\* Only Test, Sign and Skip let their stages succeed or be skipped, and image infos
\* are merged by Post_Build.
LEMMA StageResults ==
  ASSUME TypeOK, [Next]_vars, NEW q \in Runs
  PROVE  /\ result'[q]["Test"] = "succeeded" => result[q]["Test"] = "succeeded" \/ Test(q)
         /\ result'[q]["Sign"] = "succeeded" => result[q]["Sign"] = "succeeded" \/ Sign(q)
         /\ result'[q]["Test"] = "skipped" => result[q]["Test"] = "skipped" \/ Skip(q, "Test")
         /\ result[q]["Post_Build"] # NotRun => imageInfo'[q] = imageInfo[q]
  <1> DEFINE Goal ==
        /\ result'[q]["Test"] = "succeeded" => result[q]["Test"] = "succeeded" \/ Test(q)
        /\ result'[q]["Sign"] = "succeeded" => result[q]["Sign"] = "succeeded" \/ Sign(q)
        /\ result'[q]["Test"] = "skipped" => result[q]["Test"] = "skipped" \/ Skip(q, "Test")
        /\ result[q]["Post_Build"] # NotRun => imageInfo'[q] = imageInfo[q]
  <1>0. /\ result \in [Runs -> [Stages -> {NotRun, "skipped", "succeeded", "failed"}]]
        /\ imageInfo \in [Runs -> SUBSET (Legs \X Attempts)]
    BY DEF TypeOK
  <1>1. ASSUME NEW r \in Runs, NEW s \in Stages, Skip(r, s) PROVE Goal
    BY <1>0, <1>1, StageNames DEF Skip, Finish
  <1>2. ASSUME NEW r \in Runs, NEW s \in Stages, Rerun(r, s) PROVE Goal
    BY <1>0, <1>2, StageNames DEF Rerun, NotRun
  <1>3. ASSUME NEW r \in Runs, BuildEnds(r) PROVE Goal
    BY <1>0, <1>3, StageNames DEF BuildEnds, Finish
  <1>4. ASSUME NEW r \in Runs, PostBuild(r) PROVE Goal
    <2>1. result[r]["Post_Build"] = NotRun
      BY <1>4, RunnableStage, StageNames DEF PostBuild
    <2>2. result'[q]["Test"] = result[q]["Test"] /\ result'[q]["Sign"] = result[q]["Sign"]
      BY <1>0, <1>4, StageNames DEF PostBuild, Finish
    <2>3. q # r => imageInfo'[q] = imageInfo[q]
      BY <1>0, <1>4 DEF PostBuild
    <2> QED BY <2>1, <2>2, <2>3
  <1>5. ASSUME NEW r \in Runs, Sign(r) PROVE Goal
    BY <1>0, <1>5, StageNames DEF Sign, Finish
  <1>6. ASSUME NEW r \in Runs, Test(r) PROVE Goal
    BY <1>0, <1>6, StageNames DEF Test, Finish
  <1>7. ASSUME NEW r \in Runs, Publish(r) PROVE Goal
    BY <1>0, <1>7, StageNames DEF Publish, Finish
  <1>8. ASSUME NEW r \in Runs, NEW l \in Legs, BuildLeg(r, l) PROVE Goal
    BY <1>8 DEF BuildLeg
  <1>9. ASSUME NEW r \in Runs, Queue(r) PROVE Goal
    BY <1>9 DEF Queue
  <1>10. CASE UNCHANGED vars
    BY <1>10 DEF vars
  <1> QED
    BY <1>1, <1>2, <1>3, <1>4, <1>5, <1>6, <1>7, <1>8, <1>9, <1>10 DEF Next

LEMMA NextStagesChecked == IInv /\ StagesChecked /\ [Next]_vars => StagesChecked'
  <1> SUFFICES ASSUME IInv, StagesChecked, [Next]_vars PROVE StagesChecked'
    OBVIOUS
  <1>0. Lasting /\ TypeOK
    BY NextLasting DEF IInv
  <1>1. ASSUME NEW q \in Runs, imageInfo[source[q]] # {}, stages[q] # {}
        PROVE  /\ imageInfo'[source'[q]] # {}
               /\ ImagesOf(q)' = ImagesOf(q)
    BY <1>0, <1>1 DEF Lasting, TypeOK, ImagesOf
  <1>2. ASSUME NEW q \in Runs, result'[q]["Test"] = "succeeded"
        PROVE  imageInfo'[source'[q]] # {} /\ ImagesOf(q)' \in tested'
    <2>1. CASE result[q]["Test"] = "succeeded"
      <3>1. imageInfo[source[q]] # {} /\ ImagesOf(q) \in tested /\ stages[q] # {}
        BY <2>1, StageNames DEF StagesChecked, IInv, StructureOK, OrderOK, NotRun
      <3> QED BY <1>0, <1>1, <3>1 DEF Lasting
    <2>2. CASE result[q]["Test"] # "succeeded"
      <3>1. Test(q)
        BY <1>2, <2>2, <1>0, StageResults
      <3>2. /\ imageInfo[source[q]] # {} /\ ImagesOf(q) \in tested'
            /\ UNCHANGED <<source, imageInfo>>
        BY <1>0, <1>2, <2>2, <3>1, StageNames DEF Test, Finish, Exist, ImagesOf, TypeOK
      <3> QED BY <3>2 DEF ImagesOf
    <2> QED BY <2>1, <2>2
  <1>3. ASSUME NEW q \in Runs, result'[q]["Sign"] = "succeeded"
        PROVE  imageInfo'[source'[q]] # {} /\ ImagesOf(q)' \in signed'
    <2>1. CASE result[q]["Sign"] = "succeeded"
      <3>1. imageInfo[source[q]] # {} /\ ImagesOf(q) \in signed /\ stages[q] # {}
        BY <2>1, StageNames DEF StagesChecked, IInv, StructureOK, OrderOK, NotRun
      <3> QED BY <1>0, <1>1, <3>1 DEF Lasting
    <2>2. CASE result[q]["Sign"] # "succeeded"
      <3>1. Sign(q)
        BY <1>3, <2>2, <1>0, StageResults
      <3>2. /\ imageInfo[source[q]] # {} /\ ImagesOf(q) \in signed'
            /\ UNCHANGED <<source, imageInfo>>
        BY <1>0, <1>3, <2>2, <3>1, StageNames DEF Sign, Finish, Exist, ImagesOf, TypeOK
      <3> QED BY <3>2 DEF ImagesOf
    <2> QED BY <2>1, <2>2
  <1>4. ASSUME NEW q \in Runs, result'[q]["Test"] = "skipped", "test" \in stages'[q]
        PROVE  "build" \in stages'[q] /\ imageInfo'[q] = {}
    <2>1. CASE result[q]["Test"] = "skipped"
      <3>1. stages[q] # {} /\ result[q]["Post_Build"] # NotRun
        BY <2>1, StageNames DEF IInv, StructureOK, OrderOK, NotRun
      <3>2. stages'[q] = stages[q]
        BY <1>0, <3>1 DEF Lasting
      <3>3. "build" \in stages[q] /\ imageInfo[q] = {}
        BY <1>4, <2>1, <3>2 DEF StagesChecked
      <3>4. imageInfo'[q] = imageInfo[q]
        BY <1>0, <3>1, StageResults
      <3> QED BY <3>2, <3>3, <3>4
    <2>2. CASE result[q]["Test"] # "skipped"
      <3>1. Skip(q, "Test")
        BY <1>4, <2>2, <1>0, StageResults
      <3>2. UNCHANGED <<stages, imageInfo>> /\ ~ Condition(q, "Test")
        BY <3>1 DEF Skip
      <3>3. "build" \in stages[q]
             /\ ~ (result[q]["Post_Build"] = "succeeded" /\ imageInfo[q] # {})
        BY <1>4, <3>2, Conditions DEF Selected, Ready, Succeeded
      <3> QED BY <3>2, <3>3 DEF IInv, StructureOK, BuildOK
    <2> QED BY <2>1, <2>2
  <1>5. ASSUME NEW p \in published' PROVE stages'[p.by] # {}
    <2>1. CASE p \in published
      <3>1. p.by \in Runs /\ stages[p.by] # {}
        BY <2>1 DEF StagesChecked, IInv, TypeOK
      <3> QED BY <1>0, <3>1 DEF Lasting
    <2>2. CASE p \notin published
      <3>1. PICK r \in Runs : Publish(r)
        BY <1>0, <1>5, <2>2 DEF Lasting
      <3> QED BY <1>5, <2>2, <3>1, PublishAdds
    <2> QED BY <2>1, <2>2
  <1> QED BY <1>2, <1>3, <1>4, <1>5 DEF StagesChecked

LEMMA NextChecked ==
  IInv /\ StagesChecked /\ PublishedImagesAreChecked /\ [Next]_vars => PublishedImagesAreChecked'
  <1> SUFFICES ASSUME IInv, StagesChecked, PublishedImagesAreChecked, [Next]_vars,
                      NEW p \in published'
               PROVE  /\ "test" \in stages'[p.by] => p.images \in tested'
                      /\ signing' /\ stages'[p.by] \cap {"build", "sign"} # {} => p.images \in signed'
    BY DEF PublishedImagesAreChecked
  <1>0. Lasting
    BY NextLasting
  <1>1. CASE p \in published
    <2>1. p.by \in Runs /\ stages[p.by] # {}
      BY <1>1 DEF StagesChecked, IInv, TypeOK
    <2>2. stages'[p.by] = stages[p.by] /\ signing' = signing
      BY <1>0, <2>1 DEF Lasting
    <2> QED BY <1>0, <1>1, <2>2 DEF PublishedImagesAreChecked, Lasting
  <1>2. CASE p \notin published
    <2>1. PICK r \in Runs : Publish(r)
      BY <1>0, <1>2 DEF Lasting
    <2>2. /\ p.by = r /\ p.images = ImagesOf(r) /\ imageInfo[source[r]] # {}
          /\ ShouldPublish(r) /\ UNCHANGED <<signing, stages, tested, signed>>
      BY <1>2, <2>1, PublishAdds
    <2>3. "test" \in stages[r] => result[r]["Test"] = "succeeded"
      <3>1. "build" \in stages[r] => source[r] = r
        BY DEF IInv, StructureOK, OrderOK
      <3> QED BY <2>2, <3>1 DEF ShouldPublish, Selected, StagesChecked
    <2>4. signing /\ stages[r] \cap {"build", "sign"} # {} => result[r]["Sign"] = "succeeded"
      BY <2>2 DEF ShouldPublish, Selected, Succeeded
    <2> QED BY <2>2, <2>3, <2>4 DEF StagesChecked
  <1> QED BY <1>1, <1>2

\* Whichever stages are selected, skipped, failed and run again, on images of their
\* own or of another run: a run that tests publishes what passed, and where signing
\* is enabled a run that builds or signs publishes what is signed.
THEOREM ImagesChecked == Spec => []PublishedImagesAreChecked
  <1>1. Init => StagesChecked /\ PublishedImagesAreChecked
    BY StageNames DEF Init, StagesChecked, PublishedImagesAreChecked, NotRun
  <1> QED
    BY <1>1, InitIInv, NextIInv, NextStagesChecked, NextChecked, PTL DEF Spec

==============================================================================
