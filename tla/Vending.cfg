\* Both modes in use, two machines open at once, a request that is refused.
SPECIFICATION Spec
CONSTANTS
  FastBuy = TRUE
  MaxOpen = 2
  MaxToggle = 2
  MaxPrice = 2
  MaxRefusal = 1
INVARIANTS
  TypeOK
  ConfirmsWhatItAnswered
PROPERTY WithheldIsAnswered
\* The player may stop with everything served.
CHECK_DEADLOCK FALSE
