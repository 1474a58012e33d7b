\* Pushes, staged builds and merges stop after a while; nothing fails.
CONSTANTS
  Versions = {"8.0"}
  Containers = {1}
  SdkOnly = {}
  Edits = {"e1"}
  VersionOf <- MCVersionOf
  Runs = {1, 2, 3}
  BuildIds = {"1", "2", "3"}
  BuildIdOf <- MCBuildIdOf
  OptionsOf <- MCComplete
  MergeStyles = {"merge", "squash", "fastForward"}
  Serial = TRUE
  MaxFailures = 0
SPECIFICATION FairSpec
PROPERTIES
  ChangesArrive
CHECK_DEADLOCK FALSE
