\* Two descriptors and a lock table with room for one; a descriptor is closed and
\* given out again while transactions use it.
SPECIFICATION Spec
CONSTANTS
  Threads = {t1, t2}
  Fds = {f1, f2}
  MaxTx = 1
  RetryCount = 1
  MaxRetryTimes = 1
  MaxCalls = 1
  MaxConns = 2
  NoThread = NoThread
  NoFd = NoFd
  NoRequest = NoRequest
SYMMETRY Perms
INVARIANTS TypeOK OwnReply QuietBetweenExchanges FramesUncut
PROPERTY ImplementsTxLock
