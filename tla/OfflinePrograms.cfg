SPECIFICATION OfflineSpec
CONSTANTS
  DrsInputs <- MCDrsInputs
  Triples = 2
  Unlimited = 6
  TrackInputs <- MCTrackInputs
  TrackChannel = {"crystal", "trigger"}
  Trigger = "trigger"
  CoWindow = 1
  Near = 3
  Far = 6
  Pause = 13
  Jitter = 2
  Wrap = 1000
  HitInputs <- MCHitInputs
  HitChannel = {"a", "b", "c", "d"}
  Coarse = 2
  Frame = 8
  Overlap = 8
  Correction = 2
INVARIANTS
  RowsAreTheWholeEvents
  RowsAreOfOneEvent
  EventsAreBetweenGaps
  MatchIsOwnTrigger
  SeenByBothIsMatched
  PhotonsAreApart
  CoincidencesFound
PROPERTIES
  AlwaysForward
CHECK_DEADLOCK FALSE
