\* Two commands that may overlap, one change of another cause.
SPECIFICATION FairSpec
CONSTANTS
  Worth = 2
  Stack = 2
  Initially <- OneDl
  MaxCommand = 2
  MaxEvent = 1
INVARIANTS TypeOK NothingForgotten
PROPERTY DroppingEnds
\* The player may stop with everything dropped.
CHECK_DEADLOCK FALSE
