SPECIFICATION Spec
CONSTANTS
  Slots = 2
  Span = 2
  FilmLast = 3
  LiveLast = 4
  Modes <- FilmOnly
  Starts <- TwoStarts
  BackFetch = 1
  Ahead = 1
  Chunk = 1
  Lead = 1
  MaxResets = 1
INVARIANT FilmKnownIsTracked
CHECK_DEADLOCK FALSE
