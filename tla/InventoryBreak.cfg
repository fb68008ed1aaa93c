\* Nothing but drops happens to the locks.
SPECIFICATION Spec
CONSTANTS
  Worth = 2
  Stack = 2
  Initially <- OneBgl
  MaxCommand = 2
  MaxEvent = 0
PROPERTY BalanceVerified
CHECK_DEADLOCK FALSE
