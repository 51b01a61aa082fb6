\* A response that comes after the receive timeout.
SPECIFICATION Spec
CONSTANTS
  Threads = {t1, t2}
  Fds = {f1}
  MaxTx = 1
  RetryCount = 0
  MaxRetryTimes = 1
  MaxCalls = 1
  MaxConns = 1
  NoThread = NoThread
  NoFd = NoFd
  NoRequest = NoRequest
SYMMETRY Perms
INVARIANT NoForeignReply
