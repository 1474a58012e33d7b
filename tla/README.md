# A TLA+ model of dotnet-docker's update tooling

The repository publishes the official .NET container images. Most of its files
are Dockerfiles, templates, documents and samples. The logic with state and
with failure modes is in the tools that move .NET versions into the
repository's branches (`eng/update-dependencies`) and in the pipelines that
build and publish images (`eng/pipelines`, `eng/docker-tools`). This directory
models those, beginning with the part where most goes on at the same time: the
synchronisation of a release branch with its internal counterpart.

Paths below are relative to the repository; `ud/` stands for
`eng/update-dependencies/`.

## 1. Inventory

| Component | Where | State it keeps | Operations |
|---|---|---|---|
| sync-internal-release command | `ud/Sync/SyncInternalReleaseCommand.cs` | its options, SHAs read from the server, a clone, the recorded builds | compare the branches; create the internal branch; open a fast-forward or a sync pull request |
| stage container records | `ud/Sync/InternalVersionsService.cs`, `InternalStageContainers.cs` | `stage-containers.txt`, one container per major.minor version | read, record (overwrite) |
| git and pull request helpers | `ud/Git/` | a temporary clone; its origin refs and working tree | clone, fetch, ancestor check, create branch, restore, commit, push, open a pull request |
| pull request options, environment | `ud/CreatePullRequestOptions*.cs`, `EnvironmentService.cs` | none | branch names from a build id; identity |
| from-staging-pipeline command | `ud/FromStagingPipelineCommand.cs` | a working tree or a clone, the pull request's text | per container: record, update NuGet.config, versions, Dockerfiles; commit; push; open a pull request |
| specific command, version updaters | `ud/SpecificCommand.cs`, `VersionUpdater.cs`, `BaseUrlUpdater.cs`, `Variable*.cs` | the variables loaded at start; `manifest.versions.json` | ordered text substitutions, regenerate, push or open a pull request |
| Dockerfile checksum updater | `ud/DockerfileShaUpdater.cs` | two caches for the life of the process | find or compute a checksum |
| GitHub pull request flow | `ud/SpecificCommand.cs` 192-433, `GitHubHelper.cs` | branches and pull requests on GitHub | search, create, update; look for commits by people |
| manifest variables | `ud/ManifestHelper.cs`, `ManifestVariables.cs` | the variables of the manifest | base URL names, recursive resolution |
| NuGet.config updater | `ud/NuGetConfigUpdater.cs` | package sources and credentials | add, remove |
| version helpers | `ud/VersionHelper.cs`, `shared/DotNetVersion.cs` | none | parse, product version, branding |
| artifacts and build services | `ud/PipelineArtifactProvider.cs`, `From*Command.cs` ... | none | remote reads, then one call of the specific command |
| tool and release updaters | `ud/GitHubRelease*.cs`, `ChiselUpdater.cs` ... | none | one request and one substitution each |
| directory stack, script runner | `ud/DirectoryStack.cs`, `ScriptRunnerUpdater.cs` | a stack of working directories | push, pop on dispose |
| sync pipeline | `eng/pipelines/sync-internal-release-official.yml` and its template | the pending trigger, the active run | batch, start, run again |
| image build stages | `eng/docker-tools/templates/stages/` | results of stages | Build, Post_Build, Sign, Test, Publish |
| image info jobs | `eng/docker-tools/templates/jobs/post-build.yml`, `publish.yml` | artifacts of several attempts; a file in the versions repository | prune, merge, pull, publish |
| Invoke-WithRetry | `eng/docker-tools/Invoke-WithRetry.ps1` | number of tries | run, sleep, run again |
| version drop scripts | `eng/Get-*DropVersions.ps1` ... | none | one download each |
| image tests, templates, documents, samples | `tests/`, `eng/dockerfile-templates/`, `src/`, `documentation/`, `samples/` | none | not control logic |

### How they interact

A push to `release/*` triggers the sync pipeline, which runs
sync-internal-release on a fresh clone. That command calls the stage container
records (a file on the internal branch) and, for each record, the
from-staging-pipeline command in local mode. From-staging-pipeline downloads a
build's release config, records the container, changes NuGet.config and calls
the specific command, which runs the updaters over `manifest.versions.json`,
regenerates the Dockerfiles and, when not called for a local tree, talks to
GitHub or Azure DevOps itself. Commands do not know of each other: they share
the server's branches and pull requests and nothing else, and everything they
read there may have changed when they write. Reviewers complete the pull
requests whenever they like.

### What is hard, and what makes each part correct

* **Sync.** A run reads the release branch four times (clone, SHA, fetch,
  creation of the fast-forward branch), reads records from a tree it then
  overwrites, re-applies builds one by one, and can die anywhere, also between
  pushing its branch and opening its pull request. A run can be attempted again
  with the same build id. Runs outside of a pipeline have no build id and share
  branch names. Pull requests stay open while both branches move. Correct means:
  a pull request shows what it claims; no staged build gets lost; a record
  can be trusted; the internal branch moves only forward; every change of the
  release branch arrives.
* **From-staging-pipeline.** Several containers in one run; the second may fail
  after the first was committed. Correct: the pull request's commits and text
  are about the containers that were applied, and nothing half-applied is
  pushed.
* **Specific command.** Variables are loaded once and the file changes under
  them; the checksum updater uses the old ones for its URL. Two static caches
  live across containers, and an entry is stored before it is filled; a failed
  download ends the run, so nothing reads the empty entry. Correct: a
  checksum belongs to the version and URL next to it.
* **GitHub flow.** A check for human commits, then a push; one forced and one
  plain. Correct: a commit by a person is never overwritten.
* **NuGet.config, manifest variables, versions.** Long sequences of legal
  updates; recursion through data. Correct: each source has its credentials and
  the other way round; resolution ends.
* **Image pipelines.** Artifacts of several attempts, optional stages, one file
  in a repository that several pipelines write. Correct: what is published was
  built and, where required, signed and tested; the newest attempt wins; no
  image info is lost.

`PROJECT.json` lists the single hazards at their lines ("hazards"), with the
properties that cover them.

## 2. Modules

| Module | What it is |
|---|---|
| `BranchContent` | what a branch contains, what a staged or public build does to it, git's three-way merge |
| `GitServer` | the Azure DevOps repository: commits, branches, pushes, completed pull requests |
| `SyncInternalRelease` | the sync command, the pipeline that runs it, and the other users of the server; extends the two above |
| `SyncProperties` | its type invariant, safety, action and liveness properties; the refinement mapping |
| `InternalBranch` | abstract specification: two branches, nothing else |
| `GitServerProofs` | lemmas that the proofs of both Azure DevOps commands use: updates and merges of contents, new commits |
| `SyncInvariants` | inductive invariants of `SyncInternalRelease` |
| `SyncProofs` | proofs of its type invariant, of what runs read and of what pull requests show |
| `SyncRecordProofs` | proof that the internal branch contains what it records |
| `SyncSerialProofs` | proof that serial runs implement `InternalBranch`, and what follows |
| `FromStagingPipeline` | the from-staging-pipeline command in Remote mode: lists of containers, pull requests, reviewers, syncs; extends `GitServer` |
| `FromStagingProofs` | proofs of all its properties |
| `GitHubPullRequest` | search, creation and update of GitHub pull requests, against people who push, merge and close |
| `GitHubPullRequestProofs` | proofs of its type invariant and that jobs keep the commits of people |
| `ManifestUpdate` | one run's updaters over the base URL, version and checksums of a Dockerfile version |
| `ManifestUpdateProofs` | proofs of all its properties |
| `ImagePipeline` | stages, attempts, image infos, re-runs and the images of other runs |
| `ImagePipelineProofs` | proofs of all its properties |
| `MCSync`, `MCFromStaging`, `MCImagePipeline` | values of the constants for TLC |

The two Azure DevOps commands share `GitServer` and `BranchContent`, so that both
mean the same by a push, a merge and a build. `SyncInternalRelease` sees an
update as one step (`MergeInternalUpdate`), `FromStagingPipeline` sees a sync
as one (`SyncTarget`): each takes the other's merged result, at any moment. The product
of both has too many states for TLC and no shared state but the branch.
`GitHubPullRequest` and `ImagePipeline` meet the others only through what is on
a branch, and have state of their own.

### How state and actions correspond to the code

#### `SyncInternalRelease`

| Variable | In the code |
|---|---|
| `commits`, `head`, `prs` | the Azure DevOps repository: a commit is its set of ancestors and its content; a branch name is a pair of short name and build id, as `CreatePrBranchName` makes it |
| `triggered` | the pipeline's pending batched trigger |
| `pc` | the place in `ExecuteAsync`: one value per call to the server |
| `sourceSha` | the local variable of that name |
| `originSource`, `originTarget` | the clone's `origin/<branch>` refs, refreshed by `FetchAsync` |
| `internalBuilds` | the local variable of that name, less what the loop has done |
| `workTree` | the clone's working tree on the new branch |

| Action | `SyncInternalReleaseCommand.ExecuteAsync` |
|---|---|
| `StartTriggered`, `StartByHand` | 37-53: options, clone |
| `FindBranches` | 55-65 |
| `CreateTarget` | 63-71 |
| `ReadSource`, `Compare` | 73-85 |
| `Fetch` | 87-99 and the early part of 121-140 |
| `CreateFastForwardBranch`, `OpenFastForward` | 100-119 |
| `ResetToSource` | 142-155 |
| `ReapplyBuild` | one iteration of 158-166 with `ApplyInternalBuildAsync` |
| `Push`, `OpenSync` | 168-177 |
| `Fail` | any exception, a dead agent, a cancelled run |

The environment has `CreateSource`, `EditSource` and `ReleaseBuild` (pushes to
the release branch), `MergeInternalUpdate` (the pull request of a
from-staging-pipeline run in Remote mode is merged) and `CompletePullRequest`.

#### `FromStagingPipeline`

| Variable | In the code |
|---|---|
| `commits`, `head` | as above; branches are named after the first container and the build id (`CreatePrBranchName`) |
| `prs` | open pull requests; `builds` are the sections of the body |
| `pending` | the rest of the loop over `StageContainers` |
| `workTree`, `origin` | the clone's working tree, and the commit it started from |

| Action | `ud/FromStagingPipelineCommand.cs` |
|---|---|
| `Start`, `Retry` | 305-326, `GitRepoContext.CreateAsync`: clone, check out the target |
| `ProcessStageContainer` | one iteration of 73-93: options, record, NuGet.config, versions, commit. A run that changes nothing fails (`allowEmpty: false`), as does one without a storage account |
| `ContainerFails` | an exception or exit code in 112-228 |
| `Push` | 328-336 |
| `CreatePullRequest` | 337-342, `RemoteGitRepoHelper.CreatePullRequestAsync` (37-59): the pull request is opened, unless one of the same branch is open; reading it back (52) may still fail the run |
| `Fail` | a failed call, a dead agent |
| `CompletePullRequest`, `SyncTarget` | reviewers |

#### `GitHubPullRequest`

| Variable | In the code |
|---|---|
| `branch`, `open` | the bot's branches and pull requests, one name for each dependency |
| `local` | the repository the job has updated (`SpecificCommand.cs` 65-113) |
| `clone` | the temporary clone of the pull request's branch (299-364) |
| `upstream`, `newest` | the target branch's and the latest version of a dependency |

| Action | `ud/SpecificCommand.cs` |
|---|---|
| `UpdateFiles` | 65-134 |
| `Search` | 257-264 |
| `CreateOrUpdate` | 264-274, `PullRequestCreator.CreateOrUpdateAsync` (external; forced, as 288 says) |
| `CloneAndCommit` | 299-364: clone, commits of people, copy, commit |
| `Push` | 366-391 |

#### `ManifestUpdate`

`target` and `pr` are the variables of one Dockerfile version in
`manifest.versions.json` on the target branch and in the pull request; a
checksum is represented by the artifact it was computed from. `Execute` is
`SpecificCommand.ExecuteAsync` (65-122) with the updaters of 526-552 in their order:
base URL, version, checksums. `loaded` is what `ManifestVariables` read before the first of
them wrote. `Errors` is the trace listener.

#### `ImagePipeline`

| Variable | In the code |
|---|---|
| `stages`, `source` | the pipeline's parameters `stages` and `sourceBuildPipelineRunId` |
| `signing` | `publishConfig.Signing.Enabled` |
| `attempt`, `leg` | `System.JobAttempt` and the last result of a job of the matrix |
| `artifacts` | `image-info-<leg>-<attempt>` (`jobs/build-images.yml` 107-113) |
| `result` | results of the stages |
| `imageInfo` | the merged image-info artifact of a run |

| Action | `eng/docker-tools/templates/` |
|---|---|
| `Skip` and the guards (`Condition`) | `stages/build-and-test.yml` 215-272, `stages/publish.yml` 47-73 |
| `BuildLeg`, `BuildEnds` | `jobs/build-images.yml` |
| `PostBuild` | `jobs/post-build.yml` 29-114: download, prune, merge, `noImageInfos` |
| `Sign`, `Test`, `Publish` | `jobs/sign-images.yml`, `steps/test-images-linux-client.yml`, `jobs/publish.yml` |
| `Queue`, `Rerun` | an operator |

A definition called `Mut...` is a mistake the code does not make. It
stands in front of the definition it could replace and is used nowhere; replacing
the real one by it makes TLC find a violation. `PROJECT.json` ("mutants")
says which property notices which mistake.

### Abstractions

* **Content.** A tree has the set of changes that are not .NET versions, one
  layer for a version's runtime and ASP.NET variables and one for its SDK
  variables (build, internal or public base URL), and the recorded
  containers. NuGet.config and the Dockerfiles are functions of these.
* **Calls.** The two existence checks are one step: branches are never deleted,
  so no interleaving between them can be told apart from one before or after
  both. For the same reason the SHAs read at 73 and 75 are never missing. The
  ancestor check, the checkouts and the commits work on the clone and need no
  step of their own.
* **Commits of a run.** A run commits the reset, then once per build, and pushes
  them together. No one can see the commits in the middle, so one is added.
* **Merge.** The server merges field by field against the last common ancestor;
  a pull request with a conflict cannot be completed. A hand-resolved
  conflict is not modelled.
* **Azure DevOps.** Creating a branch that exists either moves it or fails, both
  are possible; a second open pull request of the same branch is refused.
* **SDK-only builds** are staged when the internal runtime they build on is
  public, as the comment at `FromStagingPipelineCommand.cs:165` says of them. The
  model assumes that; the code cannot check it.
* **Staged builds of a version only get newer** (`MergeInternalUpdate`), the
  release branch is only pushed forward, and only builds that are recorded on
  the internal branch are released.
* **`Serial`.** The pipeline says `batch: true`: its next run waits for the
  active one. With `Serial` the same is true of runs started by hand.
* **Base URLs.** A version has the variables `dotnet|<version>|base-url` and
  `sdk|<version>|base-url`; the second refers to the first unless an SDK-only build
  set it (`ManifestHelper.cs:51-76`). A build is identified by its container.
* **`SyncTarget`** brings what a merged sync can bring: edits of the release branch, the
  public runtime under an SDK-only build, and the SDK's default base URL under a full one.
* **GitHub.** A version stands for all files a job pushes. Authors are the bot or a
  person. A branch may be deleted when its pull request ends. One pull request is
  open per branch.
* **Checksums.** The six ways of retrieving one (checksum files, release config, download and hash) and
  the caches are one look-up of a published artifact: the caches only save
  requests, an artifact does not change once it is published.
* **Image pipeline.** A canceled stage counts as failed; the matrix is not empty and
  test scripts exist; `PreBuildValidation`, `CopyBaseImages` and the matrix generation are left out. A
  run that builds is its own source, as the parameter's description asks.
  Operators re-run failed jobs, never successful ones.

## 3. Runs

| Run | Bounds | Shows |
|---|---|---|
| `sync_two_versions` | 2 versions, 1 build each, 2 runs, 1 failure or retry | `TypeOK`; `SyncPrIsComplete`: an open sync pull request is the source with every recorded build; `RecordedBuildsArePresent`: a record is true, whatever was merged when; `ImplementsInternalBranch`: command, server and reviewers implement the abstract two branches. Two versions are needed for a run that dies between two builds and for merges that each bring one |
| `sync_sdk_only` | 1 version, builds 1 (full), 2 (SDK-only), 4 (full), 2 runs, no failure | `SyncPrIsComplete`: every sync pull request shows the recorded build behind the base URLs of its kind, with the SDK's link set back under a full one; `RecordedBuildsArePresent` with the base URLs; `UnreleasedRuntimeSurvives`: the record of the SDK-only build replaces the one that named the runtime; the runtime is still there until it is public; the refinement again |
| `sync_retry` | 1 version, 2 full builds of it, 2 runs, 2 failures or retries | `RestoredCommitIsFetched`, `FastForwardPrIsRelease`; `TargetNeverRegresses`: a pull request merged late takes no edit back and puts no older build in place of a recorded one, also when a run failed at any step and was run again |
| `sync_concurrent` | 4 runs at once, no build ids | `SyncPrIsComplete` although all runs push to one branch: the push is not forced |
| `sync_liveness` | 3 runs, no failures, fair | `ChangesArrive`: every change of the release branch reaches the internal branch |
| `sync_matching` | no builds, 2 runs | finding 1 |
| `sync_released` | 1 build, 2 runs | finding 2 |
| `staging_updates` | 4 containers of 2 versions; runs for `<<3, 1>>`, `<<3>>` (same branch name), `<<4>>` and `<<2>>` (SDK-only); 2 failures or retries; merges and squashes | `StagingPrIsComplete`: an open pull request shows all builds its body lists, although runs share a branch, fail at a container, before or after the push or with their pull request open, and are run again, also after it and a later SDK-only build were merged; `MergedBuildsAreApplied`: a late merge does what the command would do to the branch of that moment; `MergesKeepRecords`: a true record stays true; `RecordedSdkIsPresent`: whatever is applied again, the SDK is the one of the record |
| `github_jobs` | 2 dependencies, 2 versions, 1 commit by a person, 1 pull request closed; fair | `UpdatesKeepHumanCommits`: a job that found its pull request never removes a person's commit; `UpdateArrives`: the last version gets onto the target branch or into a pull request |
| `github_two` | the same, without fairness | finding 3 |
| `manifest_update` | 2 products, 3 builds, 2 base URLs | `ChecksumsAreOfOneBuild` while builds are published product by product; `UnswitchedRunVerifies`: a run that keeps the base URL gets every checksum right and repairs wrong ones |
| `images_reruns` | a run that builds and one on its images, 2 legs, 2 re-runs, 1 incomplete download | `OnlySuccessfulBuildsArePublished`, `LastAttemptsArePublished`, `PublishedImagesAreChecked`: whatever fails, is run again and is selected |

The largest have 3.4 million (`images_reruns`), 2.8 million (`sync_retry`), 1.7 million
(`staging_updates`) and 1.5 million states (`sync_two_versions`).

Why the bounds are enough. The sync runs use one edit (`e1`). It is created, may be pushed before or
after each build, and every commit it causes is a new SHA, so a second one adds
states but no case. Two or three runs are enough for one whose
pull request is still open while the next reads, compares and pushes; the fourth
of `sync_concurrent` is refused at its options. `staging_updates` has a full update over a full one, an
SDK-only one over both, two lists that begin alike, and another version between. A run that fails by
itself and is run again takes two of `MaxFailures`, as in `sync_retry` and `staging_updates`; with one,
only a run that the code itself ended (a rejected push, nothing to commit) is run again. `staging_updates` does without fast-forwards, which give a
branch the content that a merge would; the sync runs have them, and so have the proofs. It has no run
without a storage account, which ends at its first container as one that changes nothing does.
In `github_jobs` one dependency's job meets the other's pull request, a second version comes
while a job is at each of its steps, and a person pushes before, between and after the check and the
push. `images_reruns` needs two attempts of a leg, a stage that fails, is run again and
fails differently, and a second run that depends on what the first merged.

`MaxFailures` bounds together what can fail, what is retried and what is started
by hand; commits, runs and pull requests are bounded by the edits, builds and
runs. `MaxVersion`, `MaxHumanCommits`, `MaxClosed`, `MaxReruns` and `MaxDownloadFailures` are
bounds too. Deadlock is not checked: when the inputs are used up and
the runs have ended the system is at rest, as the real one is.

**Fairness.** In `sync_liveness` the pipeline starts a run for a pending trigger
(`trigger:` in `sync-internal-release-official.yml`); each call of a run returns (`await` of
finite calls, and the agent's time limit); and a pull request that can be completed is
completed some time, which is what the pull requests are opened for. No push, no staging and
no release is fair. No failure is allowed there (`MaxFailures = 0`): a run that
failed is repeated only by hand or by the next push, and the code promises
nothing else. In `github_jobs` a job is scheduled for each dependency every weekday
(`schedules:` in `update-dependencies-official.yml:3-9`, weak fairness of `UpdateFiles`)
and GitHub answers (of `Step`). Nothing people do is fair.

## 4. Findings

1. **Matching branches can make the command fail** (`sync_matching`,
   `MatchingBranchesDoNotFail`). After a sync pull request was merged or squashed, the internal
   branch has a commit of its own. When the contents are the same and the
   internal head is not an ancestor of the release head, the restore changes nothing and
   `CommitAsync` (`allowEmpty: false`, `ud/Git/LocalGitRepoHelper.cs:74`) throws. The
   test `SyncInternalReleaseTests.cs:103` says that "nothing should happen. The
   command should not fail"; it tests equal SHAs.
2. **A released build goes back to internal** (`sync_released`,
   `OnlyUnreleasedBuildsAreInternal`). Nothing removes a record. When the
   release branch has the build publicly, a sync re-applies the internal one. The remarks at
   `SyncInternalReleaseCommand.cs:17` allow a difference only for versions "not yet
   publicly available".
3. **A forced push over people's commits** (`github_two`, `HumanCommitsSurvive`).
   The search (`ud/SpecificCommand.cs:257-264`) asks for the bot's open pull requests of the target branch
   and takes one. With those of several dependencies open it may be another one's; the job then
   takes the path for no pull request, and `CreateOrUpdateAsync` force-pushes over its own, also over commits
   by people, which 321-322 says "we should not overwrite". With one dependency the property is
   proved, and with several as long as the job finds its own (section 5).

Also met, without a run of their own:

* A full internal build staged after an SDK-only one of the same version changes
  `dotnet|<version>|base-url`, while `sdk|<version>|base-url` keeps the older container
  until the next sync (`ud/ManifestHelper.cs:60`). `RecordsHold` therefore speaks of the SDK's URL
  only for SDK-only builds.
* A full build that is applied again over an SDK-only build of its version can leave a wrong record.
  A run opens its pull request, fails to read it back (`ud/Git/RemoteGitRepoHelper.cs:52`) and is run again
  after that pull request and an SDK-only one were merged. The second attempt clones a branch whose runtime
  lines are still those of its build and leaves them alone; a sync that is merged before it makes them public. The merge
  keeps that next to the record of the full build. Nothing compares a container with the recorded
  one (`FromStagingPipelineCommand.cs:154`), and no text promises anything of this case: `MergedBuildsAreApplied` and
  `MergesKeepRecords` speak of builds that their run did not find on the branch (`BringsNew`),
  and `RecordedSdkIsPresent` says what is true of all. The next sync
  repairs the runtime.
* The ancestor check (`SyncInternalReleaseCommand.cs:96`) is one-sided: a branch that is only
  ahead is reset and put together again, although the comment at 126-129 says that
  "The branches have diverged".
* A run that switches the base URL (`--release-state`) takes the checksums from the old one
  (`ud/DockerfileShaUpdater.cs:140`, variables loaded at `SpecificCommand.cs:71-73`): hence
  "unswitched" in `UnswitchedRunVerifies`.
* Attempts are sorted as strings (`jobs/post-build.yml:63`): of attempts 9 and 10, 9 is kept. With `MaxReruns = 9`
  `LastAttemptsArePublished` fails.
* `continueOnError` on the download (`jobs/post-build.yml:33`) also covers a download that got
  some of the fragments: the merged image-info then lacks legs, which is why
  `LastAttemptsArePublished` excepts such a download.

## 5. Proofs

The theorems hold for every value of the constants allowed by the named assumptions
(`ContentAssumption`, `SyncAssumption`, `StagingAssumption`, `GitHubAssumption`, `ManifestAssumption`, `PipelineAssumption`: types of the constants,
nothing else), unless a hypothesis is named below.

**`SyncInternalRelease`**, for any versions, containers, runs, build ids and merge
styles, for serial and for concurrent runs, and for any bound on failures:

* **`TypeCorrect`: Spec => []TypeOK.** `TypeOK` says that what runs, branches and pull requests
  refer to exists on the server. It is not inductive: a run that creates a branch needs
  its base branch to exist. `TypeInv` adds what a run knows at each step (`RunsOK`), that a pull
  request has its branches (`PrsOK`), and that a commit's ancestors are older
  commits (`CommitsOK`).
* **`RestoredIsFetched`, `FastForwardIsRelease`.** `SourceInv` adds to `TypeInv` that the release
  branch is never rewound: once something was in its history it stays there
  (`Released`). A SHA read from the source is then an ancestor of what is fetched later; and
  each fast-forward branch, created from the head of a moment, is an ancestor of the
  heads after it.
* **`SyncPrComplete`: Spec => []SyncPrIsComplete.** `SyncInv` has two parts. *Content*: while a run
  re-applies builds its tree is the source in sync with the builds that are
  done (`Reapplying`), so at the push it is in sync with all (`Pushed`).
  *Ownership*: between the push and the completion, the sync branch belongs to one run or one
  pull request (`OneOwner`), and its head is in no other branch and no other
  clone's target (`OwnedIsUnmerged`). A push of another run that shares the
  name is not forced, so it is accepted only if the branch's head is in the
  history it pushes: `OwnedIsUnmerged` says that it is not.
  Every action either pushes one new commit to one branch (`Pushes`) or
  moves none but by existing commits, and the proof is organised by that.

* **`RecordedArePresent`: Spec => []RecordedBuildsArePresent.** `RecordsInv` says it of every commit of the
  server (`CommitsHold`), because any of them may become a side of a merge, and adds what a merge
  needs: that the internal builds and base URLs of a content are not newer than its record (`BehindRecord`),
  and that a commit's ancestors record nothing newer (`NotOlder`), so that a side
  which records more than the base changed every field that goes with the record. A merge
  without conflict then takes a record and its fields from the same side. All commits have a common
  ancestor (`Rooted`) that records nothing, as the release branch does.
* **`SerialImplements`: Spec => ImplementsInternalBranch, when `Serial`.** The refinement, step by step: the
  initial states map to initial states, and a step either leaves the contents of
  both branches alone or is a step of `InternalBranch`
  (`BranchSteps`). The hard one is the completion of a sync pull request, opened against an internal
  branch that has moved since: `MergeCatchesUp` shows that the merge is a `CatchUp` of the branch as
  it is now. It needs that the branch only moves forward (`TargetForward`), that a sync
  branch is one commit on top of what its run fetched (`SyncTips`), that edits are never lost along a history
  (`Lineage`), and how far the release branch may be ahead or behind
  (`ReleaseLeads`, `ReleaseIsStaged`, `RuntimeIsReleased`). `ReleaseIsRead` is where `Serial` is needed: a run that
  may still commit has read a release branch that has all edits the internal branch has, as no other run
  has committed since. The pipeline guarantees it with `batch: true`
  (`sync-internal-release-official.yml:3`). For runs side by side nothing is claimed: the
  slower one's pull request may be prepared from an older release.
* **`SerialNeverRegresses`, `SerialRuntimeSurvives`**: `TargetNeverRegresses` and `UnreleasedRuntimeSurvives`
  from the same invariant and the same steps, when `Serial`: edits stay, and the record of a version is
  replaced by newer ones only.

**`FromStagingPipeline`**, for any runs, lists of containers of any length, build ids, merge styles and any
number of syncs, and any bound on failures:

* **`StagingTypeCorrect`: Spec => []TypeOK.** `TypeInv` adds that the commit a run started from stays in
  the history of the internal branch, and with it that of a pull request.
* **`StagingPrComplete`: Spec => []StagingPrIsComplete.** As for the sync there are two arguments. *Content*: the
  tree of a run is what the first containers of its list make of the commit it started
  from, and the rest is pending (`Processing`). *Ownership*: from the push to the completion a branch belongs to one run or
  one pull request, and its last commit, which is one commit on top of
  the run's start (`OnTop`), is in no other history (`OneOwner`, `OwnedIsUnmerged`); a push that is not forced therefore cannot
  replace it. It follows that the server never has to refuse a second pull request of a
  branch: the push before it is rejected.
* **`MergesAreUpdates`: Spec => MergedBuildsAreApplied.** The base of the merge is the commit the run
  started from (`BaseIsOrigin`). For a version of which the run brings no build, its side of the merge is
  the base, and the merge keeps the branch. For one of which it brings new builds (`BringsNew`), every field they set differs
  from the base's; applying the list to another content has the same effect on each field or none on
  both (`SameEffect`); so a merge without conflict is the update (`MergeIsUpdate`).
* **`RecordsAreKept`: Spec => MergesKeepRecords.** A merge that is an update applies the
  list's builds to a content whose record is true, and each of them leaves a true record (`ApplyRecordHolds`); if
  it brings none of the version, nothing of that changes; and a sync brings only fields that a true record does not speak of (`SyncedFields`).
* **`RecordedSdkStays`: []RecordedSdkIsPresent**, under the hypothesis `AllInternal`: the runs into the internal branch have `--internal`,
  as those of `update-dependencies-internal.yml` do (others set the SDK and record nothing). It is for all runs, those that apply a build again
  included. `SdkInv` says it of every commit of the server and of the trees of runs, since any of them may become
  a side of a merge. The record and the SDK of a content are then functions of each other (`SdkOfIsInjective`), so a merge takes both from the same side
  (`MergeSdkIsRecorded`). `SdkInv` is `StagingInv` with these two, and inductive (`SdkInvInductive`).

`Contents` is a recursive function over a list. That it exists and what it computes is proved by
induction over the set of lengths for which it does (`ContentsSteps`): the library's
induction theorems cannot be used here, but a set of numbers has a least
element (`Least`, `Induction`).

**`GitHubPullRequest`**, for any number of versions, of pushes by people and of closed pull requests:

* **`GitHubTypeCorrect`: Spec => []TypeOK**, which is inductive.
* **`UpdatesKeepCommits`: Spec => UpdatesKeepHumanCommits**, for any number of
  dependencies. The inductive invariant adds that a clone taken for a push holds no commit of a
  person; the push is accepted only if the branch is still what was cloned, or is gone. Only the
  forced push of `CreateOrUpdate` can remove commits.
* **`CommitsOfPeopleSurvive`: HumanCommitsSurvive when there is one dependency.** The search then finds
  the job's own pull request or none. The hypothesis is needed: finding 3.

**`ManifestUpdate`**, for any number of products and builds: `ManifestTypeCorrect`, `OneBuild`
(`ChecksumsAreOfOneBuild`) and `UnswitchedVerifies` (`UnswitchedRunVerifies`). The invariant is
`TypeOK` with the version of each checksum; a run without errors replaces all of them.

**`ImagePipeline`**, for any number of runs, legs, re-runs and failed downloads:

* **`PipelineTypeCorrect`: Spec => []TypeOK.** That no leg has more attempts than re-runs allow needs
  `AttemptsCounted` (a waiting leg had a re-run before), and that needs the order of the stages
  (`OrderOK`) and what the result of Build says of the legs and artifacts (`BuildOK`).
* **`OnlySuccessfulBuilds`, `LastAttempts`, `ImagesChecked`.** `Lasting` is what no step takes back: once
  merged, an image info and the attempts in it stay. Hence what was published is still the image info
  of a run whose Post_Build and Build succeeded (`PublishedInv`), it was made of the last attempts
  (`InfoIsLast`), and the images a Test or Sign succeeded for are those the run publishes
  (`StagesChecked`). `LastAttempts` has the hypothesis `MaxReruns <= 8`: up to nine, sorting attempts as strings sorts
  them as numbers (`RankOfOneDigit`); beyond, the property does not hold.

Only model-checked: the liveness properties `ChangesArrive` and `UpdateArrives`, since liveness under fairness and
`ENABLED` are out of the prover's reach. The three findings are counterexamples of TLC.

**Next proofs**: what `ChangesArrive` rests on and is safety, that a run which finds nothing
to do has compared branches in sync and that a pending trigger is never lost; from-staging-pipeline as a refinement of the step
`MergeInternalUpdate` that the sync model takes for it.

## 6. Not modelled

* **NuGet.config updater.** Each update is a function of one file and writes sources and
  credentials together. Internal updates and public ones write different files, so the long sequences
  that could leave a source without credentials do not occur today; a model would hold by its shape.
* **Manifest variables' resolution, version helpers.** Pure functions from text to text; their unit
  tests enumerate the cases. Which base URL variable is set, and which refers to which, is in
  `BranchContent`.
* **Specific command**: the generated files, and the push to an Azure DevOps branch
  (`SpecificCommand.cs:229`): no pipeline passes both the options and the credentials it needs.
* **Pipeline artifacts, build services, tool and release updaters, version drop scripts.** One
  request and one substitution or call each; no state and no order of their own. A
  failure inside a sync run is `Fail`.
* **Directory stack, script runner.** A working directory restored by a `using` statement, and
  a script run to its end, in one thread.
* **Invoke-WithRetry.** A loop of one process. Its one hazard is the meaning of `$LASTEXITCODE`
  after commands that do not set it, which is PowerShell's.
* **Publication of the merged image info to the versions repository.** The pipeline pulls, trims and
  hands the file over; merging and pushing is ImageBuilder's, which is not in this repository.
* **Matrix generation, PreBuildValidation, CopyBaseImages.** ImageBuilder again, and stages before the
  build that only decide whether there is one.
* **Image tests, templates, generated Dockerfiles, documents, samples.** No control logic. The samples are the only
  JavaScript files.
