\* Two builds of one version, and two runs with two failures, retries or starts by
\* hand between them: a run may fail, be retried and fail or succeed then.
CONSTANTS
  Versions = {"8.0"}
  Containers = {1, 4}
  SdkOnly = {}
  Edits = {"e1"}
  VersionOf <- MCVersionOf
  Runs = {1, 2}
  BuildIds = {"1", "2"}
  BuildIdOf <- MCBuildIdOf
  OptionsOf <- MCComplete
  MergeStyles = {"merge", "squash", "fastForward"}
  Serial = TRUE
  MaxFailures = 2
SPECIFICATION Spec
INVARIANTS
  RestoredCommitIsFetched
  FastForwardPrIsRelease
PROPERTIES
  TargetNeverRegresses
CHECK_DEADLOCK FALSE
