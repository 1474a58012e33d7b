----------------------------- MODULE ImagePipeline -----------------------------
(***************************************************************************)
(* Runs of the image pipeline: the stages Build, Post_Build, Sign, Test    *)
(* and Publish of eng/docker-tools/templates.  An operator queues a run    *)
(* with the list of stages it shall execute and with the run whose images  *)
(* it works on, and re-runs the failed jobs of a stage.  Every attempt of  *)
(* a build leg that gets far enough leaves an image info artifact;         *)
(* Post_Build keeps one per leg and merges them into the run's image-info, *)
(* which tells the later stages which images there are.  A canceled stage  *)
(* counts as a failed one.                                                 *)
(***************************************************************************)
EXTENDS Naturals, FiniteSets

CONSTANTS
  Runs,                \* runs of the pipeline
  Builders,            \* bound: those that may build images, and be a source
  Legs,                \* the legs of the build matrix
  MaxReruns,           \* bound: how often an operator re-runs a stage, below 99
  MaxDownloadFailures  \* bound: downloads of artifacts that fail under way

ASSUME PipelineAssumption ==
  /\ Builders \subseteq Runs
  /\ MaxReruns \in 0 .. 98
  /\ MaxDownloadFailures \in Nat

VARIABLES
  signing,    \* publishConfig.Signing.Enabled
  stages,     \* run -> the variable "stages", {} if it is not queued yet
  source,     \* run -> sourceBuildPipelineRunId
  attempt,    \* run -> leg -> System.JobAttempt
  leg,        \* run -> leg -> the result of its last attempt
  artifacts,  \* run -> its image info artifacts, <<leg, attempt>>
  result,     \* run -> stage -> its result
  imageInfo,  \* run -> the artifacts merged into its image-info, {} if there is none
  tested,     \* images whose tests have passed
  signed,     \* images whose signatures were verified
  published,  \* images copied to the publishing registry, and the run that did it
  reruns, downloadFailures

counters == <<reruns, downloadFailures>>
vars == <<signing, stages, source, attempt, leg, artifacts, result, imageInfo,
          tested, signed, published, counters>>

Stages == {"Build", "Post_Build", "Sign", "Test", "Publish"}
DependsOn(s) ==
  CASE s = "Build" -> {}
    [] s = "Post_Build" -> {"Build"}
    [] s \in {"Sign", "Test"} -> {"Post_Build"}
    [] s = "Publish" -> {"Sign", "Test"}
Downstream(s) ==
  CASE s = "Build" -> Stages
    [] s = "Post_Build" -> Stages \ {"Build"}
    [] s \in {"Sign", "Test"} -> {s, "Publish"}
    [] s = "Publish" -> {s}

NotRun == "waiting"
Attempts == 1 .. MaxReruns + 1

\* Images are staged in repositories named after the source run.
ImagesOf(r) == [run |-> source[r], info |-> imageInfo[source[r]]]
Exist(images) == images.info # {}

Init ==
  /\ signing \in BOOLEAN
  /\ stages = [r \in Runs |-> {}]
  /\ source = [r \in Runs |-> r]
  /\ attempt = [r \in Runs |-> [l \in Legs |-> 0]]
  /\ leg = [r \in Runs |-> [l \in Legs |-> NotRun]]
  /\ artifacts = [r \in Runs |-> {}]
  /\ result = [r \in Runs |-> [s \in Stages |-> NotRun]]
  /\ imageInfo = [r \in Runs |-> {}]
  /\ tested = {} /\ signed = {} /\ published = {}
  /\ reruns = 0 /\ downloadFailures = 0

-----------------------------------------------------------------------------
(* The conditions of the stages.                                           *)

Succeeded(r, s) == result[r][s] = "succeeded"
Selected(r, s) == s \in stages[r]

\* Sign and Test: after a Post_Build of this run that merged some image infos, or
\* without one on the images of another run.
Ready(r) ==
  \/ Selected(r, "build") /\ Succeeded(r, "Post_Build") /\ imageInfo[r] # {}
  \/ ~ Selected(r, "build")

MutShouldPublish(r) ==   \* a failed Sign counts like a skipped one
  /\ Selected(r, "publish")
  /\ Selected(r, "build") => Succeeded(r, "Post_Build")
  /\ Selected(r, "test") => result[r]["Test"] \in {"succeeded", "skipped"}
ShouldPublish(r) ==
  /\ Selected(r, "publish")
  /\ \/ ~ signing
     \/ ~ Selected(r, "build") /\ ~ Selected(r, "sign")
     \/ Succeeded(r, "Sign")
  /\ Selected(r, "build") => Succeeded(r, "Post_Build")
  /\ Selected(r, "test") => result[r]["Test"] \in {"succeeded", "skipped"}

MutAfterBuild(r) == Selected(r, "build")   \* runPostBuildOnFailure
AfterBuild(r) == Selected(r, "build") /\ Succeeded(r, "Build")

Condition(r, s) ==
  CASE s = "Build" -> Selected(r, "build")
    [] s = "Post_Build" -> AfterBuild(r)
    [] s = "Sign" -> signing /\ Selected(r, "sign") /\ Ready(r)
    [] s = "Test" -> Selected(r, "test") /\ Ready(r)
    [] s = "Publish" -> ShouldPublish(r)

\* A stage is looked at when the stages that it depends on are through.
Pending(r, s) ==
  /\ stages[r] # {}
  /\ result[r][s] = NotRun
  /\ \A d \in DependsOn(s) : result[r][d] # NotRun

Runnable(r, s) == Pending(r, s) /\ Condition(r, s)
Finish(r, s, outcome) == result' = [result EXCEPT ![r][s] = outcome]

Skip(r, s) ==
  /\ Pending(r, s)
  /\ ~ Condition(r, s)
  /\ Finish(r, s, "skipped")
  /\ UNCHANGED <<signing, stages, source, attempt, leg, artifacts, imageInfo,
                 tested, signed, published, counters>>

-----------------------------------------------------------------------------
(* The stages.                                                             *)

\* One attempt of a build leg: build and push the images, publish their image
\* info, then SBOMs.  It may fail before or after it published the image info.
MutArtifact(r, l) == <<l, attempt[r][l]>>   \* numbered from 0
Artifact(r, l) == <<l, attempt'[r][l]>>

BuildLeg(r, l) ==
  /\ Runnable(r, "Build")
  /\ leg[r][l] = NotRun
  /\ attempt' = [attempt EXCEPT ![r][l] = @ + 1]
  /\ \/ /\ leg' = [leg EXCEPT ![r][l] = "failed"]
        /\ UNCHANGED artifacts
     \/ \E outcome \in {"succeeded", "failed"} :
          /\ leg' = [leg EXCEPT ![r][l] = outcome]
          /\ artifacts' = [artifacts EXCEPT ![r] = @ \cup {Artifact(r, l)}]
  /\ UNCHANGED <<signing, stages, source, result, imageInfo, tested, signed, published, counters>>

BuildEnds(r) ==
  /\ Runnable(r, "Build")
  /\ \A l \in Legs : leg[r][l] # NotRun
  /\ Finish(r, "Build", IF \E l \in Legs : leg[r][l] = "failed" THEN "failed" ELSE "succeeded")
  /\ UNCHANGED <<signing, stages, source, attempt, leg, artifacts, imageInfo,
                 tested, signed, published, counters>>

\* Attempts are part of the artifacts' names, and are sorted as strings.
Rank(n) == IF n < 10 THEN 100 * n ELSE 10 * n + 1
MutPrune(infos) == {i \in infos : \A j \in infos : j[1] = i[1] => Rank(j[2]) >= Rank(i[2])}   \* -SkipLast on a descending order
Prune(infos) == {i \in infos : \A j \in infos : j[1] = i[1] => Rank(j[2]) <= Rank(i[2])}

\* Download, prune and merge.  The download continues on error; without image
\* infos none is published.
PostBuild(r) ==
  /\ Runnable(r, "Post_Build")
  /\ \/ Finish(r, "Post_Build", "failed") /\ UNCHANGED <<imageInfo, downloadFailures>>
     \/ \E downloaded \in SUBSET artifacts[r] :
          /\ \/ downloaded = artifacts[r] /\ UNCHANGED downloadFailures
             \/ /\ downloaded # artifacts[r]
                /\ downloadFailures < MaxDownloadFailures
                /\ downloadFailures' = downloadFailures + 1
          /\ imageInfo' = [imageInfo EXCEPT ![r] = Prune(downloaded)]
          /\ Finish(r, "Post_Build", "succeeded")
  /\ UNCHANGED <<signing, stages, source, attempt, leg, artifacts, tested, signed, published, reruns>>

\* These stages download the image-info of the source run first.
Sign(r) ==
  /\ Runnable(r, "Sign")
  /\ \/ Finish(r, "Sign", "failed") /\ UNCHANGED signed
     \/ /\ Exist(ImagesOf(r))
        /\ signed' = signed \cup {ImagesOf(r)}
        /\ Finish(r, "Sign", "succeeded")
  /\ UNCHANGED <<signing, stages, source, attempt, leg, artifacts, imageInfo, tested, published, counters>>

Test(r) ==
  /\ Runnable(r, "Test")
  /\ \/ Finish(r, "Test", "failed") /\ UNCHANGED tested
     \/ /\ Exist(ImagesOf(r))
        /\ tested' = tested \cup {ImagesOf(r)}
        /\ Finish(r, "Test", "succeeded")
  /\ UNCHANGED <<signing, stages, source, attempt, leg, artifacts, imageInfo, signed, published, counters>>

\* The images are copied first; any of the many steps after that may fail.
Publish(r) ==
  /\ Runnable(r, "Publish")
  /\ \/ Finish(r, "Publish", "failed") /\ UNCHANGED published
     \/ /\ Exist(ImagesOf(r))
        /\ published' = published \cup {[by |-> r, images |-> ImagesOf(r)]}
        /\ \E outcome \in {"succeeded", "failed"} : Finish(r, "Publish", outcome)
  /\ UNCHANGED <<signing, stages, source, attempt, leg, artifacts, imageInfo, tested, signed, counters>>

-----------------------------------------------------------------------------
(* The operator.                                                           *)

\* "When building new images, leave this value alone": a run that builds is its
\* own source.
Queue(r) ==
  /\ stages[r] = {}
  /\ \E chosen \in SUBSET {"build", "sign", "test", "publish"} \ {{}}, from \in Builders :
       /\ "build" \in chosen => from = r /\ r \in Builders
       /\ stages' = [stages EXCEPT ![r] = chosen]
       /\ source' = [source EXCEPT ![r] = from]
  /\ UNCHANGED <<signing, attempt, leg, artifacts, result, imageInfo, tested, signed, published, counters>>

\* "Re-run failed jobs" of a stage; the stages that depend on it follow.
Rerun(r, s) ==
  /\ result[r][s] = "failed"
  /\ reruns < MaxReruns
  /\ reruns' = reruns + 1
  /\ result' = [result EXCEPT ![r] = [t \in Stages |-> IF t \in Downstream(s) THEN NotRun ELSE @[t]]]
  /\ leg' = IF s = "Build"
            THEN [leg EXCEPT ![r] = [l \in Legs |-> IF @[l] = "failed" THEN NotRun ELSE @[l]]]
            ELSE leg
  /\ UNCHANGED <<signing, stages, source, attempt, artifacts, imageInfo,
                 tested, signed, published, downloadFailures>>

Next ==
  \E r \in Runs :
    \/ Queue(r)
    \/ \E s \in Stages : Skip(r, s) \/ Rerun(r, s)
    \/ \E l \in Legs : BuildLeg(r, l)
    \/ BuildEnds(r) \/ PostBuild(r) \/ Sign(r) \/ Test(r) \/ Publish(r)

Spec == Init /\ [][Next]_vars

-----------------------------------------------------------------------------
(* Properties.                                                             *)

Images == [run : Runs, info : SUBSET (Legs \X Attempts)]

\* Every artifact is of an attempt that was made, and every image info is made of
\* the artifacts of its run.
TypeOK ==
  /\ signing \in BOOLEAN
  /\ stages \in [Runs -> SUBSET {"build", "sign", "test", "publish"}]
  /\ source \in [Runs -> Runs]
  /\ attempt \in [Runs -> [Legs -> 0 .. MaxReruns + 1]]
  /\ leg \in [Runs -> [Legs -> {NotRun, "succeeded", "failed"}]]
  /\ artifacts \in [Runs -> SUBSET (Legs \X Attempts)]
  /\ \A r \in Runs : \A a \in artifacts[r] : a[2] <= attempt[r][a[1]]
  /\ result \in [Runs -> [Stages -> {NotRun, "skipped", "succeeded", "failed"}]]
  /\ imageInfo \in [Runs -> SUBSET (Legs \X Attempts)]
  /\ \A r \in Runs : imageInfo[r] \subseteq artifacts[r]
  /\ tested \subseteq Images /\ signed \subseteq Images
  /\ published \subseteq [by : Runs, images : Images]
  /\ reruns \in 0 .. MaxReruns
  /\ downloadFailures \in 0 .. MaxDownloadFailures

\* "Only successful builds get published" (DEV-GUIDE.md, The Build Flow): all legs
\* of the run whose images are published have succeeded, whatever was selected, and
\* failed and was run again before.
OnlySuccessfulBuildsArePublished ==
  \A p \in published : \A l \in Legs : leg[p.images.run][l] = "succeeded"

\* "Delete all but the last artifact from each base name" (jobs/post-build.yml):
\* published are, for each leg, the images of its successful attempt and none of
\* what failed attempts left behind, unless a download was cut short.  It holds up
\* to the ninth attempt.
LastAttemptsArePublished ==
  downloadFailures = 0 =>
    \A p \in published :
      p.images.info = {<<l, attempt[p.images.run][l]>> : l \in Legs}

\* A run that tests publishes only images that passed, and where signing is enabled
\* a run that builds or signs publishes only signed ones.  A run that only
\* publishes relies on its operator.
PublishedImagesAreChecked ==
  \A p \in published :
    /\ "test" \in stages[p.by] => p.images \in tested
    /\ signing /\ stages[p.by] \cap {"build", "sign"} # {} => p.images \in signed
==============================================================================
