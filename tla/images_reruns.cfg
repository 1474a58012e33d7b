\* A run that builds and a second one on the first one's images, with
\* two re-runs.
CONSTANTS
  r1 = r1
  r2 = r2
  linux = linux
  windows = windows
  Runs = {r1, r2}
  Builders = {r1}
  Legs = {linux, windows}
  MaxReruns = 2
  MaxDownloadFailures = 1
SPECIFICATION Spec
INVARIANTS
  TypeOK
  OnlySuccessfulBuildsArePublished
  LastAttemptsArePublished
  PublishedImagesAreChecked
SYMMETRY MCSymmetry
CHECK_DEADLOCK FALSE
