\* VendFast's buy mode alone, one machine.
SPECIFICATION Spec
CONSTANTS
  FastBuy = TRUE
  MaxOpen = 1
  MaxToggle = 1
  MaxPrice = 1
  MaxRefusal = 0
PROPERTY AnsweredOnce
CHECK_DEADLOCK FALSE
