\* An SDK-only build after a full build of the same version, and a full build
\* after that.
CONSTANTS
  Versions = {"8.0"}
  Containers = {1, 2, 4}
  SdkOnly = {2}
  Edits = {"e1"}
  VersionOf <- MCVersionOf
  Runs = {1, 2}
  BuildIds = {"1", "2"}
  BuildIdOf <- MCBuildIdOf
  OptionsOf <- MCComplete
  MergeStyles = {"merge", "squash", "fastForward"}
  Serial = TRUE
  MaxFailures = 0
SPECIFICATION Spec
INVARIANTS
  SyncPrIsComplete
  RecordedBuildsArePresent
PROPERTIES
  UnreleasedRuntimeSurvives
  ImplementsInternalBranch
CHECK_DEADLOCK FALSE
