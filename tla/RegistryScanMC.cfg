SPECIFICATION ScanSpec
CONSTANTS
  Proc = {p1, p2}
  Name = {n1, n2}
  DotName = {}
  Extra = {}
  Inode = {i1, i2, i3, i4}
  NoInode = NoInode
  Fault = {"creat", "readdir"}
SYMMETRY Symmetry
INVARIANTS ScanHonest
PROPERTIES ScanComplete
