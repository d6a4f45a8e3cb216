SPECIFICATION FairSpec
CONSTANTS
  Slice = {"main", "detail", "note"}
  Main = "main"
  Blank = {"note"}
  None = None
  Token = {1, 2}
  Kind <- MCKind
  Capacity = 2
  Represent = FALSE
  MaxMessages = 3
  MaxEvents = 3
INVARIANTS AppTypeOK InOrder SlicesFollow ScreenShowsTop
PROPERTIES Reported ExitEnds
CHECK_DEADLOCK FALSE
