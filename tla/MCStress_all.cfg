\* Two threads, two rounds each, everything that may fail.
SPECIFICATION FairSpec
CONSTANTS
  Protocol = "ascii"
  ThreadCount = 2
  Iterations = 2
  BitXor <- XorOf
INVARIANTS TypeOK RunningThreadsAreKept NothingLeftOpen MismatchMeansError CountersAddUp ZeroMeansAllRan
PROPERTY Terminates
\* main returns and the program ends.
CHECK_DEADLOCK FALSE
