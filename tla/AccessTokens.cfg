SPECIFICATION Spec
CONSTANTS
  Pages = {a, b}
  Names = {x, y}
  None = None
  MaxCalls = 3
  MaxFlight = 2
\* the behaviour ends with the last of its calls
CHECK_DEADLOCK FALSE
INVARIANTS TypeOK ShownWorks ListedTrue
PROPERTY IdKept
SYMMETRY Symmetry
