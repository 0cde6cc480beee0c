CONSTANTS
  Tenants = {a, b}
  Projects = {p}
  NoLevel = none
  Uris = {u}
  Contents = {c1, c2}
  Models = {m1, m2}
  FirstModel = m1
  MaxChunks = 2
  MaxRecords = 4
  MaxFaults = 2
  MaxCrashes = 1
SYMMETRY Symmetry
SPECIFICATION Spec
INVARIANT DocumentsAreReplacedWhole
INVARIANT SupersessionIsAChain
INVARIANT RecallIsCurrentAndInScope
INVARIANT PositionsNameTheirVectors
CHECK_DEADLOCK FALSE
