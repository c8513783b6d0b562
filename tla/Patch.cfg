CONSTANTS
  r1 = r1
  r2 = r2
  Blobs <- MCBlobs
  NEWC_MAGICS = {"070701", "070702"}
  Names <- MCNames
  Sizes = {0, 6}
  Runs = {r1, r2}
  Paths <- MCPaths
  Cpios <- AllCpios
  Wrong <- RaceCpios
  Starts <- MCStarts
SPECIFICATION MCSpec
INVARIANTS
  EntriesDisjoint
  NothingLost
  WholeAccepted
  ReportsTruthful
  NotPatchedTwice
  OneReportPerOutput
  PreservesRest
PROPERTIES
  Progress
  ParserTerminates
  NeverOverwrites
  Publishes
  SomeRunReports
