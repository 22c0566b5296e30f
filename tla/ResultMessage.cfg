\* The response to /convert and two presses of its button, failing calls.
SPECIFICATION FairSpec
CONSTANTS
  r1 = r1
  r2 = r2
  Presses <- TwoPresses
  Attempts = 3
  Timeouts = 2
  Faults = TRUE
INVARIANTS
  TypeOK
  ButtonMeansResult
  CommandAnswered
PROPERTIES
  RefreshShowsNewURL
  CommandSettles
  EveryPressEnds
