CONSTANTS
  N = 2
  Layouts <- MCLayouts
  Contents <- MCContents
  Headers = {"old", "new"}
  Files <- MCFiles
  Clang <- MCClang
  Names = {"f"}
  Defines <- MCDefines
  Needs <- MCNeeds
  Caps = {1}
  Jobs = 2
  Builds = {1, 2}
  MaxSweeps = 3
SPECIFICATION Spec
INVARIANTS
  TypeOK
  ReportComplete
  RecordsCurrent
PROPERTY SkipFaithful
CHECK_DEADLOCK FALSE
