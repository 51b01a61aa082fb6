\* Two rounds of two attempts to send, and a fair scheduler.
SPECIFICATION FairSpec
CONSTANTS
  Threads = {t1, t2}
  Fds = {f1}
  MaxTx = 1
  RetryCount = 1
  MaxRetryTimes = 2
  MaxCalls = 1
  MaxConns = 1
  NoThread = NoThread
  NoFd = NoFd
  NoRequest = NoRequest
INVARIANTS AtMostOnce ResultTellsExecution
PROPERTY EveryCallReturns
