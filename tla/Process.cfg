SPECIFICATION Spec
CONSTANTS
  Main = main
  Handlers = {h1, h2}
  UserLines = {u}
  Entries = {e1, e2}
INVARIANT TypeOK LoginsComeHere CloseCleansUp ServesOnWholeConfig
PROPERTY ChangesWhole CloseEnds
