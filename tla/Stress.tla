-------------------------------- MODULE Stress --------------------------------
(***************************************************************************)
(* The stress test program, main.c, as a client of the library: threads    *)
(* that write registers of their own and read them back, first all on one  *)
(* connection (run_same_fd_stress), then each on its own                    *)
(* (run_multi_fd_stress).                                                   *)
(*                                                                         *)
(* Connecting, each allocation and each pthread_create may fail.  A call    *)
(* holds the lock of its descriptor while it is on its way (FdLock says     *)
(* what that lock promises); its answer may come after the caller has       *)
(* given up, and then waits on the connection for the next caller.          *)
(***************************************************************************)
EXTENDS Integers, Sequences

CONSTANTS
  Protocol,    \* test_protocol: "ascii" (as in main.c) or "bin"
  ThreadCount, \* same_fd_threads and multi_fd_threads
  Iterations,  \* rounds of each thread
  BitXor(_, _) \* C's ^

ASSUME StressAssumption ==
  /\ Protocol \in {"ascii", "bin"}
  /\ ThreadCount \in Nat \ {0}
  /\ Iterations \in Nat \ {0}

VARIABLES
  test,    \* which test main runs
  step,    \* what main does next in it
  heap,    \* blocks main has allocated
  conns,   \* open connections
  started, \* threads created
  rets,    \* rets[w]: what test w has returned
  worker,  \* worker[t]: [at, waiting, round]: the call thread t makes
  stats,   \* stats[t]: the counters in args[t]
  owner,   \* owner[c]: the thread in a transaction on c, or 0
  pending, \* pending[c]: requests on their way to the PLC
  answers, \* answers[c]: answers on their way back
  mem,     \* registers of the PLC
  \* history
  complete \* tests in which every thread has done every round

main_vars == <<test, step, heap, conns, started, rets, complete>>
vars == <<test, step, heap, conns, started, rets, complete,
          worker, stats, owner, pending, answers, mem>>

Threads == 1 .. ThreadCount
Tests == {"same", "multi"}
Ops == {"write_d", "read_d", "write_m", "read_m"}

\* The connection of thread t; connections are named for the first thread on them.
Conn(t) == IF test = "same" THEN 1 ELSE t

\* Mutated form: the registers of neighbours overlap.
FirstRegisterNarrow(t) == t - 1

\* D1000 + 2 i and M1000 + i (D3000, M3000 in the second test).
FirstRegister(t) == 2 * (t - 1)

Cells == {"D"} \X (0 .. 2 * ThreadCount - 1) \cup {"M"} \X (0 .. ThreadCount - 1)

Devices(t, op) ==
  IF op \in {"write_d", "read_d"}
    THEN << <<"D", FirstRegister(t)>>, <<"D", FirstRegister(t) + 1>> >>
    ELSE << <<"M", t - 1>> >>

Word == 65536

\* The high word of (thread_id << 20) ^ i; from 2^20 rounds on the two overlap.
High(t, i) == BitXor((16 * (t - 1)) % Word, i \div Word)

ASSUME XorAssumption ==
  \A t \in Threads, i \in 0 .. Iterations - 1 :
    BitXor((16 * (t - 1)) % Word, i \div Word) \in Nat

\* (thread_id << 20) ^ i, as its two words; i & 1.
Written(t, op, i) ==
  IF op \in {"write_d", "read_d"} THEN <<i % Word, High(t, i)>> ELSE <<i % 2>>

WorkerStates ==
  [at : Ops \cup {"off", "done"}, waiting : BOOLEAN, round : 0 .. Iterations]
Stats == [api_calls : Nat, checks : Nat, mismatches : Nat, io_errors : Nat]
Requests == [t : Threads, op : Ops, i : 0 .. Iterations - 1]
Answers == [op : Ops, value : Seq(Nat)]

NoStats == [api_calls |-> 0, checks |-> 0, mismatches |-> 0, io_errors |-> 0]
Off == [at |-> "off", waiting |-> FALSE, round |-> 0]

TypeOK ==
  /\ test \in Tests
  /\ step \in {"alloc", "connect", "threads", "create", "join", "finish", "return",
              "exit"}
  /\ heap \subseteq {"args", "fds", "threads"}
  /\ conns \subseteq Threads
  /\ started \in 0 .. ThreadCount
  /\ rets \in [Tests -> {"none", "ok", "failed"}]
  /\ worker \in [Threads -> WorkerStates]
  /\ \A t \in Threads : worker[t].at \in Ops => worker[t].round < Iterations
  /\ stats \in [Threads -> Stats]
  /\ owner \in [Threads -> Threads \cup {0}]
  /\ pending \in [Threads -> Seq(Requests)]
  /\ answers \in [Threads -> Seq(Answers)]
  /\ mem \in [Cells -> Nat]
  /\ complete \subseteq Tests

Registers == [x \in Cells |-> 0]

Init ==
  /\ test = "same" /\ step = "connect"
  /\ heap = {} /\ conns = {} /\ started = 0
  /\ rets = [w \in Tests |-> "none"]
  /\ complete = {}
  /\ worker = [t \in Threads |-> Off] /\ stats = [t \in Threads |-> NoStats]
  /\ owner = [c \in Threads |-> 0]
  /\ pending = [c \in Threads |-> <<>>] /\ answers = [c \in Threads |-> <<>>]
  /\ mem = Registers

workers_vars == <<worker, stats, owner, pending, answers, mem>>

-----------------------------------------------------------------------------
(* The main thread. *)

\* A test returns: its counters are gone, what is on its connections is lost, and
\* the next test has registers of its own.
EndTest(result) ==
  /\ rets' = [rets EXCEPT ![test] = result]
  /\ started' = 0
  /\ worker' = [t \in Threads |-> Off] /\ stats' = [t \in Threads |-> NoStats]
  /\ owner' = [c \in Threads |-> 0]
  /\ pending' = [c \in Threads |-> <<>>] /\ answers' = [c \in Threads |-> <<>>]
  /\ mem' = Registers
  /\ IF test = "same" THEN test' = "multi" /\ step' = "alloc"
                      ELSE step' = "exit" /\ UNCHANGED test

\* What a test allocates before it creates its threads, and the connections it
\* opens: each function frees and closes these by name.
Blocks == IF test = "same" THEN {"args"} ELSE {"args", "fds"}
TestConns == IF test = "same" THEN {1} ELSE Threads

\* calloc: run_same_fd_stress disconnects if it fails, run_multi_fd_stress has
\* nothing open yet and frees what it got.
Allocate ==
  /\ step = "alloc"
  /\ UNCHANGED complete
  /\ \/ /\ heap' = heap \cup Blocks
        /\ step' = IF test = "same" THEN "threads" ELSE "connect"
        /\ UNCHANGED <<test, conns, started, rets>> /\ UNCHANGED workers_vars
     \/ /\ conns' = IF test = "same" THEN conns \ TestConns ELSE conns
        /\ UNCHANGED heap
        /\ EndTest("failed")

\* Connections are made in the order of the threads.
NextConn(c) == c \notin conns /\ \A d \in Threads : d < c => d \in conns

\* The connection of the next thread, or the one of all.
Connect ==
  /\ step = "connect"
  /\ \E c \in Threads : NextConn(c) /\ conns' = conns \cup {c}
  /\ step' = IF test = "same" THEN "alloc"
              ELSE IF conns' = Threads THEN "threads" ELSE "connect"
  /\ UNCHANGED <<test, heap, started, rets, complete>> /\ UNCHANGED workers_vars

\* Mutated form: the connections made so far stay.
ConnectFailsAtOnce ==
  /\ step = "connect"
  /\ heap' = IF test = "same" THEN heap ELSE heap \ Blocks
  /\ UNCHANGED <<conns, complete>>
  /\ EndTest("failed")

\* run_multi_fd_stress closes the connections made so far and frees its blocks;
\* run_same_fd_stress has neither.
ConnectFails ==
  /\ step = "connect"
  /\ heap' = IF test = "same" THEN heap ELSE heap \ Blocks
  /\ \E c \in Threads :
       NextConn(c) /\ conns' = IF test = "same" THEN conns ELSE conns \ (1 .. c - 1)
  /\ UNCHANGED complete
  /\ EndTest("failed")

\* create_threads_and_wait: malloc; -1 goes to the caller, which still sums up,
\* frees and disconnects.
AllocateThreads ==
  /\ step = "threads"
  /\ \/ heap' = heap \cup {"threads"} /\ step' = "create" /\ UNCHANGED rets
     \/ /\ step' = "finish" /\ rets' = [rets EXCEPT ![test] = "failed"]
        /\ UNCHANGED heap
  /\ UNCHANGED <<test, conns, started, complete>> /\ UNCHANGED workers_vars

CreateThread ==
  /\ step = "create"
  /\ started' = started + 1
  /\ worker' = [worker EXCEPT ![started + 1].at = "write_d"]
  /\ step' = IF started + 1 = ThreadCount THEN "join" ELSE "create"
  /\ UNCHANGED <<test, heap, conns, rets, complete, stats, owner, pending, answers, mem>>

\* Mutated form: what has been started is given up.
CreateFailsAndFree ==
  /\ step = "create"
  /\ step' = "finish"
  /\ heap' = heap \ {"threads"}
  /\ rets' = [rets EXCEPT ![test] = "failed"]
  /\ UNCHANGED <<test, conns, started, complete>> /\ UNCHANGED workers_vars

\* No more threads are created; those that run are waited for.
CreateFails ==
  /\ step = "create"
  /\ step' = "join"
  /\ UNCHANGED <<test, heap, conns, started, rets, complete>> /\ UNCHANGED workers_vars

Done(ts) == \A t \in ts : worker[t].at = "done"

Joined(ts, ok) ==
  /\ step = "join"
  /\ Done(ts)
  /\ step' = "finish"
  /\ heap' = heap \ {"threads"}
  /\ rets' = [rets EXCEPT ![test] = IF ok THEN "ok" ELSE "failed"]
  /\ complete' = IF Done(Threads) THEN complete \cup {test} ELSE complete
  /\ UNCHANGED <<test, conns, started>> /\ UNCHANGED workers_vars

\* Mutated forms: all threads are waited for, also those that were not created;
\* a thread created is enough for success.
JoinAll == Joined(Threads, started = ThreadCount)
JoinAny == Joined(1 .. started, started > 0)

Join == Joined(1 .. started, started = ThreadCount)

\* free and disconnect, in the one or the other order.
Finish ==
  /\ step = "finish"
  /\ heap' = heap \ Blocks /\ conns' = conns \ TestConns
  /\ step' = "return"
  /\ UNCHANGED <<test, started, rets, complete>> /\ UNCHANGED workers_vars

Return ==
  /\ step = "return"
  /\ UNCHANGED <<heap, conns, complete>>
  /\ EndTest(rets[test])

-----------------------------------------------------------------------------
(* stress_worker_thread. *)

\* The call after a successful one.
After == [write_d |-> "read_d", read_d |-> "write_m", write_m |-> "read_m"]

\* Mutated form: one round too many.
NextRoundTooMany(w) ==
  [at |-> IF w.round = Iterations THEN "done" ELSE "write_d",
   waiting |-> FALSE, round |-> w.round + 1]

NextRound(w) ==
  [at |-> IF w.round + 1 = Iterations THEN "done" ELSE "write_d",
   waiting |-> FALSE, round |-> w.round + 1]

\* Mutated form: after an error the round goes on.
FailedGoesOn(t) ==
  /\ worker' = [worker EXCEPT ![t] = IF @.at = "read_m" THEN NextRound(@)
                                     ELSE [@ EXCEPT !.at = After[@], !.waiting = FALSE]]
  /\ stats' = [stats EXCEPT ![t].api_calls = @ + 1, ![t].io_errors = @ + 1]

\* An error ends the round, not the thread.
Failed(t) ==
  /\ worker' = [worker EXCEPT ![t] = NextRound(@)]
  /\ stats' = [stats EXCEPT ![t].api_calls = @ + 1, ![t].io_errors = @ + 1]

Succeeded(t, value) ==
  LET w == worker[t]
      checked == w.at \in {"read_d", "read_m"}
      wrong == checked /\ value # Written(t, w.at, w.round)
  IN  /\ worker' = [worker EXCEPT ![t] =
                      IF w.at = "read_m" THEN NextRound(w)
                      ELSE [w EXCEPT !.at = After[w.at], !.waiting = FALSE]]
      /\ stats' = [stats EXCEPT ![t].api_calls = @ + 1,
                                ![t].checks = @ + (IF checked THEN 1 ELSE 0),
                                ![t].mismatches = @ + (IF wrong THEN 1 ELSE 0)]

\* A request is sent under the lock of the descriptor.
Send(t) ==
  /\ worker[t].at \in Ops /\ ~worker[t].waiting
  /\ owner[Conn(t)] = 0
  /\ owner' = [owner EXCEPT ![Conn(t)] = t]
  /\ pending' = [pending EXCEPT ![Conn(t)] =
                   Append(@, [t |-> t, op |-> worker[t].at, i |-> worker[t].round])]
  /\ worker' = [worker EXCEPT ![t].waiting = TRUE]
  /\ UNCHANGED <<stats, answers, mem>> /\ UNCHANGED main_vars

\* The call fails before anything is sent.  (The caller counts an error after the
\* lock of the descriptor is free again; nobody reads its counters before it has
\* ended.)
NotSent(t) ==
  /\ worker[t].at \in Ops /\ ~worker[t].waiting
  /\ owner[Conn(t)] = 0
  /\ Failed(t)
  /\ UNCHANGED <<owner, pending, answers, mem>> /\ UNCHANGED main_vars

\* The PLC's registers (external).
ReadCells(cells) == [k \in DOMAIN cells |-> mem[cells[k]]]

WriteCells(cells, values) ==
  [x \in Cells |-> IF \E k \in DOMAIN cells : cells[k] = x
                     THEN values[CHOOSE k \in DOMAIN cells : cells[k] = x] ELSE mem[x]]

\* The PLC (external) carries the requests of a connection out in their order.
PlcExecute(c) ==
  /\ pending[c] # <<>>
  /\ LET r == Head(pending[c])
         cells == Devices(r.t, r.op)
         writes == r.op \in {"write_d", "write_m"}
     IN  /\ mem' = IF writes THEN WriteCells(cells, Written(r.t, r.op, r.i)) ELSE mem
         /\ answers' = [answers EXCEPT ![c] =
              Append(@, [op |-> r.op, value |-> IF writes THEN <<>> ELSE ReadCells(cells)])]
  /\ pending' = [pending EXCEPT ![c] = Tail(@)]
  /\ UNCHANGED <<worker, stats, owner>> /\ UNCHANGED main_vars

\* The bool in an answer to read_d: '1' as first digit of the low word, or bit 4 of
\* its first byte.
FirstBit(low) ==
  IF Protocol = "ascii" THEN (IF low \div 4096 = 1 THEN 1 ELSE 0)
                        ELSE (low \div 16) % 2

\* What a read makes of the data that come, which may answer another call: of
\* data too short for it the variable keeps its 0.
Value(op, answer) ==
  CASE answer.op = op -> answer.value
    [] op = "read_d" /\ answer.op # op -> <<0, 0>>
    [] op = "read_m" /\ answer.op = "read_d" -> <<FirstBit(answer.value[1])>>
    [] OTHER -> <<0>>

Receive(t) ==
  /\ worker[t].waiting
  /\ answers[Conn(t)] # <<>>
  /\ answers' = [answers EXCEPT ![Conn(t)] = Tail(@)]
  /\ owner' = [owner EXCEPT ![Conn(t)] = 0]
  /\ LET answer == Head(answers[Conn(t)]) \* an ASCII number has an even number of digits
     IN  IF Protocol = "ascii" /\ worker[t].at = "read_d" /\ answer.op = "read_m"
           THEN Failed(t)
           ELSE Succeeded(t, Value(worker[t].at, answer))
  /\ UNCHANGED <<pending, mem>> /\ UNCHANGED main_vars

\* The receive timeout: the answer, when it comes, is the next caller's.
Timeout(t) ==
  /\ worker[t].waiting
  /\ answers[Conn(t)] = <<>>
  /\ owner' = [owner EXCEPT ![Conn(t)] = 0]
  /\ Failed(t)
  /\ UNCHANGED <<pending, answers, mem>> /\ UNCHANGED main_vars

MainNext ==
  \/ Allocate \/ Connect \/ ConnectFails \/ AllocateThreads \/ CreateThread
  \/ CreateFails \/ Join \/ Finish \/ Return

Next ==
  \/ MainNext
  \/ \E t \in Threads : Send(t) \/ NotSent(t) \/ Receive(t) \/ Timeout(t)
  \/ \E c \in Threads : PlcExecute(c)

Spec == Init /\ [][Next]_vars

\* The scheduler never stops for good while somebody can take a step.  Nothing
\* is asked of the PLC in particular: a receive times out.
FairSpec == Spec /\ WF_vars(Next)

-----------------------------------------------------------------------------
(* Properties. *)

\* While a thread runs, its counters are allocated and its connection is open:
\* main waits for every thread it has created, also when it could not create
\* them all.
RunningThreadsAreKept ==
  \A t \in Threads :
    worker[t].at \in Ops => "args" \in heap /\ Conn(t) \in conns

\* However far a test comes, main leaves nothing allocated and nothing open.
NothingLeftOpen ==
  step = "exit" \/ (test = "multi" /\ step = "alloc") => heap = {} /\ conns = {}

\* The threads' registers are their own, so a value read back is another than
\* the one written only where a call on the same connection has failed before
\* (and its answer came late).  On connections of their own, threads do not
\* disturb each other.
MismatchMeansError ==
  \A t \in Threads : stats[t].mismatches > 0 =>
    \E u \in Threads : Conn(u) = Conn(t) /\ stats[u].io_errors > 0

\* The counters of a finished thread tell how its rounds went, of which each ends
\* with its first error: without one a round makes four calls and two checks, with
\* one it makes one to four calls, one or two of them for a check not made.
CountersAddUp ==
  \A t \in Threads : worker[t].at = "done" =>
    LET s == stats[t]
    IN  /\ s.io_errors <= Iterations
        /\ s.api_calls \in 4 * Iterations - 3 * s.io_errors .. 4 * Iterations
        /\ s.api_calls - 2 * s.checks \in s.io_errors .. 2 * s.io_errors
        /\ s.mismatches <= s.checks

\* main returns 0 exactly if every thread of both tests has done every round.
\* (It returns 0 whatever they counted, mismatches and errors.)
ZeroMeansAllRan ==
  step = "exit" => ((\A w \in Tests : rets[w] = "ok") <=> complete = Tests)

\* The program ends, whatever fails and whatever the PLC does not answer.
Terminates == <>(step = "exit")
=============================================================================
