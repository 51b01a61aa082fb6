\* Three threads, three descriptors and two slots: the table can be full.
SPECIFICATION TxSpec
CONSTANTS
  Threads = {t1, t2, t3}
  Fds = {f1, f2, f3}
  MaxTx = 2
  NoThread = NoThread
  NoFd = NoFd
INVARIANTS TxTypeOK ExchangeExclusion OneSlotPerFd UnlocksOwnMutex
PROPERTY ImplementsFdLock
