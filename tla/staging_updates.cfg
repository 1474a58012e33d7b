\* Runs 1 and 2 have no build id and share their branch name; 3 updates one version
\* again and 4 its SDK only.  Two failures or retries: a run fails at a container,
\* before or after its push or with its pull request open, and is started again.
CONSTANTS
  Versions = {"8.0", "10.0"}
  Containers = {1, 2, 3, 4}
  SdkOnly = {2}
  Edits = {}
  VersionOf <- MCVersionOf
  Runs = {1, 2, 3, 4}
  StageContainers <- MCStageContainers
  OptionsOf <- MCOptionsOf
  BuildIds = {"", "3", "4"}
  BuildIdOf <- MCBuildIdOf
  MergeStyles = {"merge", "squash"}
  MaxFailures = 2
SPECIFICATION Spec
INVARIANTS
  TypeOK
  StagingPrIsComplete
  RecordedSdkIsPresent
PROPERTIES
  MergedBuildsAreApplied
  MergesKeepRecords
CHECK_DEADLOCK FALSE
