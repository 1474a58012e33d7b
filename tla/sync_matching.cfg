\* The release branch matches the internal branch, but was merged into it.
CONSTANTS
  Versions = {"8.0"}
  Containers = {}
  SdkOnly = {}
  Edits = {"e1"}
  VersionOf <- MCVersionOf
  Runs = {1, 2}
  BuildIds = {"1", "2"}
  BuildIdOf <- MCBuildIdOf
  OptionsOf <- MCComplete
  MergeStyles = {"merge", "squash", "fastForward"}
  Serial = TRUE
  MaxFailures = 1
SPECIFICATION Spec
PROPERTIES
  MatchingBranchesDoNotFail
CHECK_DEADLOCK FALSE
