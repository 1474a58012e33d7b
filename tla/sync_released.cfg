\* A recorded build becomes public.
CONSTANTS
  Versions = {"8.0"}
  Containers = {1}
  SdkOnly = {}
  Edits = {"e1"}
  VersionOf <- MCVersionOf
  Runs = {1, 2}
  BuildIds = {"1", "2"}
  BuildIdOf <- MCBuildIdOf
  OptionsOf <- MCComplete
  MergeStyles = {"merge", "squash", "fastForward"}
  Serial = TRUE
  MaxFailures = 0
SPECIFICATION Spec
INVARIANTS
  OnlyUnreleasedBuildsAreInternal
CHECK_DEADLOCK FALSE
