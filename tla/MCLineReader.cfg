SPECIFICATION FairSpec
CONSTANTS
  x = x
  y = y
  lf = lf
  Nul = Nul
  Char = {x, lf}
  Delim = {lf}
  Size = 3
  Timeouts = {"none", "some"}
  MaxSent = 5
INVARIANTS TypeOK
PROPERTIES ImplementsLineStream TooLongIsTooLong LinesArrive
CHECK_DEADLOCK FALSE
