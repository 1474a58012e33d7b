\* Two builds of two versions: what is staged, synced and merged, in any order.
CONSTANTS
  Versions = {"8.0", "10.0"}
  Containers = {1, 3}
  SdkOnly = {}
  Edits = {"e1"}
  VersionOf <- MCVersionOf
  Runs = {1, 2}
  BuildIds = {"1", "2"}
  BuildIdOf <- MCBuildIdOf
  OptionsOf <- MCComplete
  MergeStyles = {"merge", "squash", "fastForward"}
  Serial = TRUE
  MaxFailures = 1
SPECIFICATION Spec
INVARIANTS
  TypeOK
  SyncPrIsComplete
  RecordedBuildsArePresent
PROPERTIES
  ImplementsInternalBranch
CHECK_DEADLOCK FALSE
