\* Two workers and the controller; an interval of two units.
CONSTANTS
  Caller = {c1, c2, c3}
  Interval = 2
  MaxTime = 4
  MaxSlots = 3
SPECIFICATION Spec
SYMMETRY CallerSymmetry
INVARIANTS
  TypeOK
  SlotsSpaced
  NeverEarly
  RateBounded
CHECK_DEADLOCK FALSE
