\* Two dependencies whose jobs meet in the search for a pull request.
CONSTANTS
  Dependencies = {"dotnet", "syft"}
  MaxVersion = 2
  MaxHumanCommits = 1
  MaxClosed = 1
SPECIFICATION FairSpec
INVARIANTS
  TypeOK
PROPERTIES
  UpdatesKeepHumanCommits
  UpdateArrives
CHECK_DEADLOCK FALSE
