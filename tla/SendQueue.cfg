\* Only the main loop sends.
SPECIFICATION FairSpec
CONSTANTS
  main = main
  worker = worker
  Threads = {main}
  Main = main
  MaxPackets = 4
INVARIANTS
  TypeOK
  ListSound
PROPERTY OneSenderIsChannel EverythingArrives
CHECK_DEADLOCK FALSE
