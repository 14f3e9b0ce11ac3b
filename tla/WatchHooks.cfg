SPECIFICATION FairSpec
CONSTANTS
  Component = {a, b, c}
  MaxStreams = 3
  MaxNews = 1
INVARIANTS
  StreamShared
  ViewsTrue
PROPERTIES
  EndIsSeen
CHECK_DEADLOCK FALSE
