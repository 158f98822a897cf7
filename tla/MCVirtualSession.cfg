SPECIFICATION SessionSpec
CONSTANTS
  S2m = 2
  S1g = 4
  Sizes = {4}
  Fan = 2
  Levels = 2
  MapSizes = {1, 2}
  MaxProcesses = 1
  NoFrame = NoFrame
  PageSize = 2
  NPages = 4
  NFrames = 4
  MaxRemaps = 1
  MaxFaults = 1
  None = None
  Untouched = 77
  MaxQueued = 2
  Lists <- MCLists
  GapLengths = {0, 2}
  MaxCalls = 1
  MaxCommits = 1
INVARIANTS SessionTypeOK ReadIsTrue WriteIsTrue MapsAreExact BIInv RepeatedForErrors ProcessesAreRight
CONSTRAINT OneOfEach
CHECK_DEADLOCK FALSE
