CONSTANTS
  d1 = d1
  k1 = k1
  a = a
  Devices = {d1}
  Keys = {k1}
  Commands = {a}
  Wildcard = star
  EmptyCommand = empty
  Unbound = unbound
  Loaders = {mux, client}
  NoThread = nobody
  Files <- OneFile
  Unreadable = unreadable
  NoDevices = nodevices
  IllTyped = illtyped
  Rebinds <- OneRebind
  Mux = mux
  NoEvent = noevent
  MaxReports = 1
SPECIFICATION FairSpec
INVARIANT
  OnlyNamedWaits
PROPERTIES
  DecisionInForce
  WaitsEnd
  EveryReportDecided
  HangupServed
  DaemonStops
