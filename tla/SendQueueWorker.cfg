\* A worker sends as well.
SPECIFICATION Spec
CONSTANTS
  main = main
  worker = worker
  Threads = {main, worker}
  Main = main
  MaxPackets = 2
PROPERTY DropsOnlyRepeats
CHECK_DEADLOCK FALSE
