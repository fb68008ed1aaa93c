SPECIFICATION Spec
CONSTANTS
  Worlds = {w1, w2}
  Locks = {wl}
  Others = {dirt}
  Spots = {s1, s2}
  MaxAmount = 2
  MaxUid = 2
SYMMETRY Symmetry
INVARIANT TypeOK MirrorIsGround
PROPERTY CreditIsTrue
CHECK_DEADLOCK FALSE
