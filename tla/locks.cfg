SPECIFICATION LocksSpec
CONSTANTS
  Tasks = {ta, tb}
  Txns = {x1, x2, x3}
  Kinds <- AllKinds
INVARIANT OnlyFailuresDeadlock
SYMMETRY LocksSymmetry
