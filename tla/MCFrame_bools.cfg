\* Two bools in one call.
SPECIFICATION Spec
CONSTANTS
  Protocols = {"bin"}
  Types = {"bool"}
  ItemsOf <- Items
  Counts = {2}
  Addresses <- SmallAddresses
  Cells <- SmallCells
  FieldSize = 65536
  Nibble = 16
PROPERTY ImplementsMemory
