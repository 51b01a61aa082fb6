\* Two threads, each on a connection of its own.
SPECIFICATION Spec
CONSTANTS
  Threads = {t1, t2}
  Fds = {f1, f2}
  MaxConnections = 2
  Configs = {k1, k2}
  Default = Default
  NoFd = NoFd
  NoThread = NoThread
INVARIANT GetsWhatItSet
