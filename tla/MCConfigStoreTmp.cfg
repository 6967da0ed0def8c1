CONSTANTS
  r1 = r1
  r2 = r2
  i1 = i1
  i2 = i2
  i3 = i3
  Requests = {r1, r2}
  Inodes = {i1, i2, i3}
  NoInode = noinode
  Blocks <- MCBlocks
  Documents <- MCDocuments
  Cut = {cut}
  DiskMayFill = FALSE
SPECIFICATION Spec
INVARIANT NeverHalfWritten
