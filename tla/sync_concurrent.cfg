\* Runs side by side, outside of a pipeline: no build id, so all their branches
\* have the same names.
CONSTANTS
  Versions = {"8.0"}
  Containers = {1}
  SdkOnly = {}
  Edits = {"e1"}
  VersionOf <- MCVersionOf
  Runs = {1, 2, 3, 4}
  BuildIds = {""}
  BuildIdOf <- MCNoBuildId
  OptionsOf <- MCMixed
  MergeStyles = {"merge", "squash", "fastForward"}
  Serial = FALSE
  MaxFailures = 1
SPECIFICATION Spec
INVARIANTS
  SyncPrIsComplete
CHECK_DEADLOCK FALSE
