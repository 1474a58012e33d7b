CONSTANTS
  Dependencies = {"dotnet", "syft"}
  MaxVersion = 2
  MaxHumanCommits = 1
  MaxClosed = 1
SPECIFICATION Spec
PROPERTIES
  HumanCommitsSurvive
CHECK_DEADLOCK FALSE
