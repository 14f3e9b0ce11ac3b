SPECIFICATION Spec
CONSTANTS
    MaxPosts = 2
    MaxDrafts = 1
    MaxOpens = 2
    Spans = {s1}
INVARIANTS
  RowsTrue
  NoNoteLost
  NotesCaughtUp
PROPERTIES
  RangesStay
CHECK_DEADLOCK FALSE
