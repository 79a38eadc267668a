SPECIFICATION Spec
CONSTANTS
  Recipients = {p, q}
  Owner = owner
  Actors = {a, b}
  MaxOps = 3
  MaxFaults = 2
  Faults = {"head", "post", "close"}
SYMMETRY Symmetry
CONSTRAINT Undecided
INVARIANTS TypeOK SyncHeals NoHiddenAccess OwnerKeepsAccess
