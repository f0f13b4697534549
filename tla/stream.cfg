SPECIFICATION FairSpec
CONSTANTS
  Slots = 2
  Span = 2
  FilmLast = 3
  LiveLast = 4
  Modes <- BothModes
  Starts <- TwoStarts
  BackFetch = 1
  Ahead = 1
  Chunk = 1
  Lead = 1
  MaxResets = 1
INVARIANT TypeOK
INVARIANT AbsentIsAbsent
INVARIANT HeldIsListed
INVARIANT LiveKnownIsTracked
INVARIANT WaitingIsAhead
PROPERTY ImplementsPlayback
PROPERTY FilmStallsOnlyUnasked
CHECK_DEADLOCK FALSE
