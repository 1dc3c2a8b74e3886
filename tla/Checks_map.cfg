SPECIFICATION Spec
CONSTANTS
  IntMax = 7
  Signers = {ca1, ca2}
  Keys = {ours, other}
  Names = {alice, ops}
  Bounds = {0, 3, 7, 15}
  Times = {2, 4}
  Tolerances <- MCTolerances
INVARIANTS
  MapIsAuthoritative
CHECK_DEADLOCK FALSE
