CONSTANTS
  d1 = d1
  k1 = k1
  a = a
  Devices = {d1, d2}
  Keys = {k1}
  Commands = {a}
  Wildcard = star
  EmptyCommand = empty
  Unbound = unbound
  Loaders = {mux}
  NoThread = nobody
  Files <- OneFile
  Unreadable = unreadable
  NoDevices = nodevices
  IllTyped = illtyped
  Rebinds <- NoRebinds
  Mux = mux
  NoEvent = noevent
  MaxReports = 2
SPECIFICATION Spec
INVARIANTS
  TypeOK
  StopsPromptly
  NoReaderOutlivesDevice
PROPERTY
  ImplementsDispatch
