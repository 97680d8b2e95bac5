CONSTANTS
  Threshold = 3
  WindowSecs = 2
  OpenSecs = 3
  MaxInFlight = 3
SPECIFICATION Spec
INVARIANTS
  CountedAreRecent
PROPERTIES
  TripJustified
