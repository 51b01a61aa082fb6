\* Both protocols on one PLC, items of each size, one or three items at a time.
SPECIFICATION Spec
CONSTANTS
  Protocols = {"bin", "ascii"}
  Types = {"bool", "short", "uint32", "int64"}
  ItemsOf <- Items
  Counts = {1, 3}
  Addresses <- SmallAddresses
  Cells <- SmallCells
  FieldSize = 65536
  Nibble = 2
INVARIANTS TypeOK LegalCallsSucceed
PROPERTY ImplementsMemory
