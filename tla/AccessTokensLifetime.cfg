SPECIFICATION Spec
CONSTANTS
  Pages = {a, b}
  Names = {x, y}
  None = None
  MaxCalls = 3
  MaxFlight = 2
CHECK_DEADLOCK FALSE
INVARIANT StaleRefused
