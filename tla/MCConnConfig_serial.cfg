\* One thread, three descriptors, a table of two.
SPECIFICATION Spec
CONSTANTS
  Threads = {t1}
  Fds = {f1, f2, f3}
  MaxConnections = 2
  Configs = {k1, k2}
  Default = Default
  NoFd = NoFd
  NoThread = NoThread
INVARIANTS TypeOK GetsWhatItSet EntriesAreOpen
