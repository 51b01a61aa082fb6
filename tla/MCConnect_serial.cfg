\* One protocol, one thread that connects, two that send commands.
SPECIFICATION Spec
CONSTANTS
  Threads = {main, w1, w2}
  Connectors = {main}
  Protocols = {"bin"}
  Addresses = {a1, a2}
  MaxConns = 2
  NoAddress = NoAddress
INVARIANTS TypeOK MutexExclusive LockedCommandsWhole
