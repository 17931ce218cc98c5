\* Two loggers over three months; failed and torn writes, edits.
SPECIFICATION Spec
CONSTANTS
  g1 = g1
  g2 = g2
  Fragment = Fragment
  Unreadable = Unreadable
  Loggers <- TwoLoggers
  MaxMonth = 3
  MaxEvents = 4
  MaxFaults = 2
SYMMETRY Symmetry
CHECK_DEADLOCK FALSE
INVARIANTS
  TypeOK
  UndisturbedVerifies
  OneBreakPerFailure
  AcknowledgedIsShown
  LinkLeadsBack
PROPERTIES
  BrokenStaysBroken
