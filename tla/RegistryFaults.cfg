SPECIFICATION Spec
CONSTANTS
  Proc = {p1, p2}
  Name = {n1, n2}
  DotName = {n2}
  Extra = {description}
  Inode = {i1, i2}
  NoInode = NoInode
  Fault = {"stat", "mkdir", "creat", "write", "short", "unlink", "rmdir", "open", "read", "opendir", "readdir", "crash"}
SYMMETRY Symmetry
INVARIANTS TypeOK SoleWriter Custody
PROPERTIES ListedStable EntriesLive
