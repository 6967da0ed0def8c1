CONSTANTS
  d1 = d1
  k1 = k1
  a = a
  b = b
  Devices = {d1}
  Keys = {k1}
  Commands = {a, b}
  Wildcard = star
  EmptyCommand = empty
  Unbound = unbound
  Loaders = {t1, t2}
  NoThread = nobody
  Files <- MCFiles
  Rebinds <- MCRebinds
  Unreadable = unreadable
  NoDevices = nodevices
  IllTyped = illtyped
SPECIFICATION ReloadSpec
INVARIANTS
  ReloadAlwaysInstallsFile
