SPECIFICATION Spec
CONSTANTS
  Projects = {p, q}
  None = None
  MaxReqs = 4
  MaxFlight = 2
  Settings <- AllSettings
  Claims <- SomeClaims
\* the behaviour ends with the last of its requests
CHECK_DEADLOCK FALSE
INVARIANTS TypeOK Whole RestrictedToOne RunnerOwned RunnerAlive UrlsWork LogoutEnds
SYMMETRY Symmetry
