\* Both libraries, every call, every failure.
SPECIFICATION Spec
CONSTANTS
  Protocols = {"bin", "ascii"}
  Counts = {1, 3}
  Lengths = {0, 1, 2, 3, 6}
INVARIANTS TypeOK ReleasedOnce NoLeak OutputIsAnswer ErrorTellsExecution
