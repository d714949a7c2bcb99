SPECIFICATION BreakpointsSpec
CONSTANTS
  Threads = {t1, t2}
  c1 = c1
  c2 = c2
  Components <- MCComponents
  Original <- MCOriginal
  NoComponent = NoComponent
  MaxFrames = 3
  MaxId = 2
INVARIANTS CodeFollowsTable StopsOnce
PROPERTIES StopsFirst RunsAsWritten
SYMMETRY MCSymmetry
CHECK_DEADLOCK FALSE
