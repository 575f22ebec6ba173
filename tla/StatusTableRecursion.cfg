\* Two of every key, room for the four items a table of them can hold at once.
CONSTANTS
  None = None
  Names = {n1, n2}
  Devices = {d1, d2}
  DeviceIds = {1, 2}
  Status = {up}
  MaxIndex = 5
  MaxDepth = 1
SPECIFICATION Spec
SYMMETRY Interchangeable
INVARIANTS
  TypeOK
  IndexesAgree
  UniqueKeys
  RecursionIsEviction
PROPERTY
  ImplementsItemStore
