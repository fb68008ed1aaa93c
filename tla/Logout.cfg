SPECIFICATION FairSpec
CONSTANTS
  MaxLogout = 2
  MaxLost = 1
  MaxPlay = 2
INVARIANTS TypeOK BackOncePerLogout RejectOncePerLogout
PROPERTY LogoutLeaves
CHECK_DEADLOCK FALSE
