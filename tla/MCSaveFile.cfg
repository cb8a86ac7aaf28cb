SPECIFICATION Spec
CONSTANTS
  Writer = {autosave, logout}
  Content = {old, new}
  Inode = {i1, i2, i3, i4}
  NoFile = NoFile
  Half = Half
  Serialized = TRUE
  DiskFails = TRUE
  Crashes = TRUE
INVARIANTS TypeOK NoHalfFile
PROPERTY ImplementsFile
