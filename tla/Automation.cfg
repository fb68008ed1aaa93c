SPECIFICATION FairSpec
CONSTANTS
  Kinds = {"farm", "harvest", "collect", "drop"}
  MaxGeneration = 5
INVARIANTS TypeOK EnabledHasWorker HarvestToggleSticks
PROPERTY SupersededEnds
CHECK_DEADLOCK FALSE
