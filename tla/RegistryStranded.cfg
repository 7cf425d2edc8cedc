SPECIFICATION Spec
CONSTANTS
  Proc = {p1}
  Name = {n1}
  DotName = {}
  Extra = {description}
  Inode = {i1, i2}
  NoInode = NoInode
  Fault = {"creat"}
INVARIANTS UnregisterRemoves
