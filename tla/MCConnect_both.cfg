\* Both protocols, one thread that connects, one that sends commands.
SPECIFICATION Spec
CONSTANTS
  Threads = {main, w1}
  Connectors = {main}
  Protocols = {"bin", "ascii"}
  Addresses = {a1, a2}
  MaxConns = 2
  NoAddress = NoAddress
INVARIANT MutexExclusive
