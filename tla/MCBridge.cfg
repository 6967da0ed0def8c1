CONSTANTS
  Pages = {s1}
  Users = {u1}
  Loops = {l1}
  NoLoop = noloop
  Cap = 1
  LogSize = 2
  WireRoom = 1
  MaxEvents = 3
SPECIFICATION FairSpec
INVARIANTS
  TypeOK
  StreamIntact
  SeesOwnChange
  OnlyNamedWaits
PROPERTIES
  RequestsAnswered
  StreamsTornDown
  LinesDelivered
