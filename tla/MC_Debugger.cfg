SPECIFICATION FairSpec
CONSTANTS
  NUM_HISTORY = 3
  NumRegs = 2
  MaxEdges = 5
  Stops = {0, 2, 4, 9}
INVARIANTS InStep HistoryIsRecent ShowsReceived HighlightsChanges
PROPERTY QuitEnds
CHECK_DEADLOCK FALSE
