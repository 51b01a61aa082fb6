----------------------------- MODULE Stress_proofs -----------------------------
(***************************************************************************)
(* Proofs about Stress, for any number of threads and rounds and both        *)
(* protocols.  The invariant says what main holds at each of its steps,      *)
(* which threads run, what their counters are in the middle of a round, and  *)
(* what is on its way on a connection none of whose calls has failed.        *)
(***************************************************************************)
EXTENDS Stress, TLAPS

\* What main has allocated and opened, block by block and connection by connection.
MainOK ==
  /\ step = "connect" =>
       /\ heap = IF test = "same" THEN {} ELSE Blocks
       /\ \E c \in Threads : conns = 1 .. c - 1 /\ (test = "same" => c = 1)
  /\ step = "alloc" => heap = {} /\ conns = IF test = "same" THEN TestConns ELSE {}
  /\ step \in {"threads", "finish"} => heap = Blocks
  /\ step \in {"create", "join"} => heap = Blocks \cup {"threads"}
  /\ step \in {"threads", "create", "join", "finish"} => conns = TestConns
  /\ step \in {"return", "exit"} => heap = {} /\ conns = {}

\* Threads run between the first pthread_create and the last pthread_join.
StartOK ==
  /\ step \in {"alloc", "connect", "threads"} => started = 0
  /\ step = "create" => started < ThreadCount
  /\ \A t \in Threads :
       /\ worker[t].at = "off" <=> t > started
       /\ worker[t].at = "off" => worker[t].round = 0 /\ stats[t] = NoStats
       /\ worker[t].at \in Ops => step \in {"create", "join"}
       /\ worker[t].waiting => worker[t].at \in Ops

\* A test has succeeded exactly if its threads have done every round.
ResultOK ==
  /\ step \in {"finish", "return"} => (rets[test] = "ok" <=> test \in complete)
  /\ step \notin {"finish", "return", "exit"} => test \notin complete
  /\ step = "exit" => test = "multi" /\ (rets["multi"] = "ok" <=> "multi" \in complete)
  /\ test = "multi" => (rets["same"] = "ok" <=> "same" \in complete)
  /\ test = "same" => "multi" \notin complete

\* Calls of the round already made, and those a check is still missing for.
Made(at) ==
  CASE at = "read_d" -> 1 [] at = "write_m" -> 2 [] at = "read_m" -> 3 [] OTHER -> 0
Unchecked(at) == IF at \in {"read_d", "read_m"} THEN 1 ELSE 0

Counted(s, w) ==
  /\ s.io_errors <= w.round
  /\ s.api_calls >= 4 * w.round - 3 * s.io_errors + Made(w.at)
  /\ s.api_calls <= 4 * w.round + Made(w.at)
  /\ s.api_calls - 2 * s.checks >= s.io_errors + Unchecked(w.at)
  /\ s.api_calls - 2 * s.checks <= 2 * s.io_errors + Unchecked(w.at)
  /\ s.mismatches <= s.checks
  /\ w.at = "done" => w.round = Iterations

CountOK == \A t \in Threads : worker[t].at # "off" => Counted(stats[t], worker[t])

\* No call on connection c has failed.
Clean(c) == \A t \in Threads : Conn(t) = c => stats[t].io_errors = 0

\* The request of thread t, whose state is w, and its answer: one of them is all
\* that is on the connection, whose queues are p and a.
Request(t, w) == [t |-> t, op |-> w.at, i |-> w.round]
Answer(t, w) ==
  [op |-> w.at,
   value |-> IF w.at \in {"read_d", "read_m"} THEN Written(t, w.at, w.round) ELSE <<>>]
Carries(t, w, p, a) ==
  \/ p = <<Request(t, w)>> /\ a = <<>>
  \/ p = <<>> /\ a = <<Answer(t, w)>>

\* A connection on which no call has failed is quiet, or carries the request or
\* the answer of the thread that waits.
ExchangeOK ==
  /\ \A t \in Threads : worker[t].waiting => owner[Conn(t)] = t
  /\ \A c \in Threads : Clean(c) =>
       \/ owner[c] = 0 /\ pending[c] = <<>> /\ answers[c] = <<>>
       \/ \E t \in Threads :
            /\ owner[c] = t /\ Conn(t) = c /\ worker[t].waiting
            /\ Carries(t, worker[t], pending[c], answers[c])

\* Requests stay on the connection of their thread.
OriginOK ==
  \A c \in Threads : \A k \in 1 .. Len(pending[c]) : Conn(pending[c][k].t) = c

\* Thread t has written op's registers in this round, and the PLC has done it.
Stored(t, write, read) ==
  \/ worker[t].at = read
  \/ worker[t].at = write /\ worker[t].waiting /\ pending[Conn(t)] = <<>>

\* The registers of a thread whose connection is clean hold what it wrote.
MemOK ==
  \A t \in Threads : Clean(Conn(t)) =>
    /\ Stored(t, "write_d", "read_d") =>
         /\ mem[<<"D", FirstRegister(t)>>] = worker[t].round % Word
         /\ mem[<<"D", FirstRegister(t) + 1>>] = High(t, worker[t].round)
    /\ Stored(t, "write_m", "read_m") => mem[<<"M", t - 1>>] = worker[t].round % 2

MismatchOK == \A t \in Threads : Clean(Conn(t)) => stats[t].mismatches = 0

IInv ==
  /\ TypeOK /\ MainOK /\ StartOK /\ ResultOK /\ CountOK
  /\ ExchangeOK /\ OriginOK /\ MemOK /\ MismatchOK

-----------------------------------------------------------------------------
(* Threads, their connections and their registers. *)

\* Who opened a thread's connection is a thread.
LEMMA ConnType ==
  ASSUME NEW t \in Threads
  PROVE  Conn(t) \in Threads
BY StressAssumption DEF Conn, Threads

\* The registers of a thread are registers of the PLC.
LEMMA CellTypes ==
  ASSUME NEW t \in Threads
  PROVE  /\ <<"D", FirstRegister(t)>> \in Cells
         /\ <<"D", FirstRegister(t) + 1>> \in Cells
         /\ <<"M", t - 1>> \in Cells
<1>1. t - 1 \in 0 .. ThreadCount - 1
  BY StressAssumption DEF Threads
<1>2. /\ FirstRegister(t) \in 0 .. 2 * ThreadCount - 1
      /\ FirstRegister(t) + 1 \in 0 .. 2 * ThreadCount - 1
  BY StressAssumption DEF Threads, FirstRegister
<1> QED
  BY <1>1, <1>2 DEF Cells

\* No register belongs to two threads.
LEMMA CellsDisjoint ==
  ASSUME NEW t \in Threads, NEW u \in Threads, t # u
  PROVE  /\ FirstRegister(t) # FirstRegister(u) /\ FirstRegister(t) # FirstRegister(u) + 1
         /\ FirstRegister(t) + 1 # FirstRegister(u)
         /\ FirstRegister(t) + 1 # FirstRegister(u) + 1
         /\ t - 1 # u - 1
BY StressAssumption DEF Threads, FirstRegister

\* What the PLC does with a request to write registers ...
LEMMA WriteNumber ==
  ASSUME TypeOK, NEW t \in Threads, NEW i \in 0 .. Iterations - 1,
         NEW m, m = WriteCells(Devices(t, "write_d"), Written(t, "write_d", i))
  PROVE  /\ m \in [Cells -> Nat]
         /\ m[<<"D", FirstRegister(t)>>] = i % Word
         /\ m[<<"D", FirstRegister(t) + 1>>] = High(t, i)
         /\ \A x \in Cells :
              x \notin {<<"D", FirstRegister(t)>>, <<"D", FirstRegister(t) + 1>>} =>
                m[x] = mem[x]
<1> DEFINE a == <<"D", FirstRegister(t)>>
           b == <<"D", FirstRegister(t) + 1>>
           low == i % Word
           high == High(t, i)
<1>1. Devices(t, "write_d") = <<a, b>> /\ Written(t, "write_d", i) = <<low, high>>
  BY DEF Devices, Written
<1>6. low \in Nat /\ high \in Nat
  <2>1. low \in Nat
    BY DEF Word
  <2>2. high \in Nat
    BY XorAssumption DEF High
  <2> QED
    BY <2>1, <2>2
<1>2. a # b /\ a \in Cells /\ b \in Cells
  <2>1. FirstRegister(t) # FirstRegister(t) + 1
    BY DEF FirstRegister, Threads
  <2> QED
    BY <2>1, CellTypes
<1> HIDE DEF a, b, low, high
<1>3. DOMAIN <<a, b>> = {1, 2} /\ <<a, b>>[1] = a /\ <<a, b>>[2] = b
  OBVIOUS
<1>4. /\ (CHOOSE k \in {1, 2} : <<a, b>>[k] = a) = 1
      /\ (CHOOSE k \in {1, 2} : <<a, b>>[k] = b) = 2
  BY <1>2
<1>5. m = [x \in Cells |-> IF x = a THEN low ELSE IF x = b THEN high ELSE mem[x]]
  <2>1. \A x \in Cells : (\E k \in {1, 2} : <<a, b>>[k] = x) <=> x \in {a, b}
    OBVIOUS
  <2> QED
    BY <1>1, <1>2, <1>3, <1>4, <2>1 DEF WriteCells
<1> QED
  BY <1>2, <1>5, <1>6 DEF a, b, low, high, TypeOK

\* A written bool changes its own register and no other.
LEMMA WriteBool ==
  ASSUME TypeOK, NEW t \in Threads, NEW i \in 0 .. Iterations - 1,
         NEW m, m = WriteCells(Devices(t, "write_m"), Written(t, "write_m", i))
  PROVE  /\ m \in [Cells -> Nat]
         /\ m[<<"M", t - 1>>] = i % 2
         /\ \A x \in Cells : x # <<"M", t - 1>> => m[x] = mem[x]
<1> DEFINE a == <<"M", t - 1>>
<1>1. Devices(t, "write_m") = <<a>> /\ Written(t, "write_m", i) = <<i % 2>>
  BY DEF Devices, Written
<1>2. a \in Cells
  BY CellTypes
<1> HIDE DEF a
<1>3. DOMAIN <<a>> = {1} /\ <<a>>[1] = a /\ <<i % 2>>[1] = i % 2
  OBVIOUS
<1>4. (CHOOSE k \in {1} : <<a>>[k] = a) = 1
  OBVIOUS
<1>5. m = [x \in Cells |-> IF x = a THEN i % 2 ELSE mem[x]]
  <2>1. \A x \in Cells : (\E k \in {1} : <<a>>[k] = x) <=> x = a
    OBVIOUS
  <2> QED
    BY <1>1, <1>2, <1>3, <1>4, <2>1 DEF WriteCells
<1>6. i % 2 \in Nat
  BY StressAssumption
<1> QED
  BY <1>2, <1>5, <1>6 DEF a, TypeOK

\* ... and to read them.
LEMMA ReadNumber ==
  ASSUME TypeOK, NEW t \in Threads
  PROVE  /\ ReadCells(Devices(t, "read_d")) =
              <<mem[<<"D", FirstRegister(t)>>], mem[<<"D", FirstRegister(t) + 1>>]>>
         /\ ReadCells(Devices(t, "read_d")) \in Seq(Nat)
<1> DEFINE a == <<"D", FirstRegister(t)>>
           b == <<"D", FirstRegister(t) + 1>>
<1>1. Devices(t, "read_d") = <<a, b>>
  BY DEF Devices
<1>2. mem[a] \in Nat /\ mem[b] \in Nat
  BY CellTypes DEF TypeOK
<1> HIDE DEF a, b
<1>3. DOMAIN <<a, b>> = 1 .. 2 /\ <<a, b>>[1] = a /\ <<a, b>>[2] = b
  OBVIOUS
<1>4. ReadCells(Devices(t, "read_d")) = <<mem[a], mem[b]>>
  BY <1>1, <1>3 DEF ReadCells
<1>5. <<mem[a], mem[b]>> \in Seq(Nat)
  BY <1>2
<1> QED
  BY <1>4, <1>5 DEF a, b

\* Reading a bool gives its register.
LEMMA ReadBool ==
  ASSUME TypeOK, NEW t \in Threads
  PROVE  /\ ReadCells(Devices(t, "read_m")) = <<mem[<<"M", t - 1>>]>>
         /\ ReadCells(Devices(t, "read_m")) \in Seq(Nat)
<1> DEFINE a == <<"M", t - 1>>
<1>1. Devices(t, "read_m") = <<a>>
  BY DEF Devices
<1>2. mem[a] \in Nat
  BY CellTypes DEF TypeOK
<1> HIDE DEF a
<1>3. DOMAIN <<a>> = 1 .. 1 /\ <<a>>[1] = a
  OBVIOUS
<1>4. ReadCells(Devices(t, "read_m")) = <<mem[a]>>
  BY <1>1, <1>3 DEF ReadCells
<1>5. <<mem[a]>> \in Seq(Nat)
  BY <1>2
<1> QED
  BY <1>4, <1>5 DEF a

-----------------------------------------------------------------------------
(* The invariant: the initial state, and the return from a test. *)

\* It holds when the program starts.
LEMMA InitInv == Init => IInv
<1> SUFFICES ASSUME Init
             PROVE  IInv
  OBVIOUS
<1> USE StressAssumption DEF Init
<1>1. TypeOK
  BY DEF TypeOK, WorkerStates, Stats, Tests, Threads, Off, NoStats, Registers, Ops
<1>2. MainOK /\ ResultOK
  <2>1. 1 \in Threads /\ 1 .. 1 - 1 = {}
    BY DEF Threads
  <2>2. MainOK
    BY <2>1 DEF MainOK
  <2>3. ResultOK
    BY DEF ResultOK, Tests
  <2> QED
    BY <2>2, <2>3
<1>3. StartOK /\ CountOK
  BY DEF StartOK, CountOK, Off, Threads, Ops
<1>4. ExchangeOK /\ OriginOK
  BY DEF ExchangeOK, OriginOK, Off
<1>5. MemOK /\ MismatchOK
  BY ConnType DEF MemOK, MismatchOK, Stored, Off, NoStats
<1> QED
  BY <1>1, <1>2, <1>3, <1>4, <1>5 DEF IInv

\* The end of a test, passed or failed.
LEMMA EndTestInv ==
  ASSUME IInv, NEW result \in {"none", "ok", "failed"}, EndTest(result),
         heap' = {}, conns' = {}, complete' = complete,
         step # "exit", result = "ok" <=> test \in complete
  PROVE  IInv'
<1> USE StressAssumption DEF EndTest, IInv
<1>1. TypeOK'
  <2>1. Off \in WorkerStates /\ NoStats \in Stats /\ Off.at \notin Ops
    BY DEF Off, NoStats, WorkerStates, Stats, Ops
  <2>2. /\ worker' \in [Threads -> WorkerStates] /\ stats' \in [Threads -> Stats]
        /\ \A t \in Threads : worker'[t].at \notin Ops
    BY <2>1
  <2>3. /\ mem' \in [Cells -> Nat] /\ owner' \in [Threads -> Threads \cup {0}]
        /\ pending' \in [Threads -> Seq(Requests)] /\ answers' \in [Threads -> Seq(Answers)]
    BY DEF Registers
  <2>4. /\ test' \in Tests /\ step' \in {"alloc", "exit"} /\ started' \in 0 .. ThreadCount
        /\ rets' \in [Tests -> {"none", "ok", "failed"}] /\ complete' \subseteq Tests
    BY DEF TypeOK, Tests
  <2> QED
    BY <2>2, <2>3, <2>4 DEF TypeOK
<1>2. MainOK'
  <2>1. /\ heap' = {} /\ conns' = {}
        /\ step' = "exit" \/ (step' = "alloc" /\ test' = "multi")
    BY DEF TypeOK, Tests
  <2> QED
    BY <2>1, Zenon DEF MainOK
<1>3. StartOK' /\ CountOK'
  BY DEF StartOK, CountOK, Off, Threads, Ops
<1>4. ResultOK'
  BY DEF TypeOK, ResultOK, Tests
<1>5. ExchangeOK' /\ OriginOK'
  BY DEF ExchangeOK, OriginOK, Off
<1>6. MemOK' /\ MismatchOK'
  BY DEF MemOK, MismatchOK, Stored, Off, NoStats
<1> QED
  BY <1>1, <1>2, <1>3, <1>4, <1>5, <1>6

-----------------------------------------------------------------------------
(* The steps of main. *)

\* A step of main that leaves the threads and the PLC alone.
LEMMA WorkersIdle ==
  ASSUME IInv, UNCHANGED test, UNCHANGED workers_vars
  PROVE  CountOK' /\ ExchangeOK' /\ OriginOK' /\ MemOK' /\ MismatchOK'
BY DEF IInv, workers_vars, CountOK, ExchangeOK, OriginOK, MemOK, MismatchOK, Clean,
   Conn, Stored

\* The steps of main.
LEMMA MainInv ==
  ASSUME IInv, MainNext
  PROVE  IInv'
<1> USE StressAssumption DEF IInv
<1>1. CASE Allocate
  <2> USE <1>1 DEF Allocate
  <2>1. CASE EndTest("failed") /\ heap' = heap
             /\ conns' = IF test = "same" THEN conns \ TestConns ELSE conns
    <3>1. heap' = {} /\ conns' = {}
      BY <2>1 DEF MainOK
    <3> QED
      BY <2>1, <3>1, EndTestInv DEF ResultOK
  <2>2. CASE /\ heap' = heap \cup Blocks
             /\ step' = IF test = "same" THEN "threads" ELSE "connect"
             /\ UNCHANGED <<test, conns, started, rets>> /\ UNCHANGED workers_vars
    <3> USE <2>2
    <3>1. TypeOK'
      <4>1. Blocks \subseteq {"args", "fds", "threads"}
        BY DEF Blocks
      <4> QED
        BY <4>1 DEF TypeOK, workers_vars
    <3>2. MainOK'
      <4>1. heap' = Blocks /\ Blocks' = Blocks /\ TestConns' = TestConns
        BY DEF MainOK, Blocks, TestConns
      <4>2. CASE test = "same"
        BY <4>1, <4>2 DEF MainOK
      <4>3. CASE test = "multi"
        <5>1. 1 \in Threads /\ conns' = 1 .. 1 - 1
          BY <4>3 DEF MainOK, Threads
        <5> QED
          BY <4>1, <4>3, <5>1 DEF MainOK
      <4> QED
        BY <4>2, <4>3 DEF TypeOK, Tests
    <3>3. StartOK' /\ ResultOK'
      BY DEF StartOK, ResultOK, workers_vars
    <3> QED
      BY <3>1, <3>2, <3>3, WorkersIdle
  <2> QED
    BY <2>1, <2>2
<1>2. CASE Connect
  <2> USE <1>2 DEF Connect
  <2>1. PICK c \in Threads : NextConn(c) /\ conns' = conns \cup {c}
    OBVIOUS
  <2>2. PICK d \in Threads : conns = 1 .. d - 1 /\ (test = "same" => d = 1)
    BY DEF MainOK
  <2>3. c = d /\ conns' = 1 .. c /\ c \in 1 .. ThreadCount
    BY <2>1, <2>2 DEF NextConn, Threads
  <2>4. TypeOK'
    BY <2>3 DEF TypeOK, workers_vars, Threads
  <2>5. MainOK'
    <3>1. heap' = heap /\ test' = test /\ Blocks' = Blocks /\ TestConns' = TestConns
      BY DEF Blocks, TestConns
    <3>2. CASE test = "same"
      BY <2>2, <2>3, <3>1, <3>2 DEF MainOK, TestConns
    <3>3. CASE test = "multi" /\ conns' = Threads
      BY <3>1, <3>3 DEF MainOK, TestConns
    <3>4. CASE test = "multi" /\ conns' # Threads
      <4>1. c + 1 \in Threads /\ conns' = 1 .. (c + 1) - 1
        BY <2>3, <3>4 DEF Threads
      <4> QED
        BY <3>1, <3>4, <4>1 DEF MainOK
    <3> QED
      BY <3>2, <3>3, <3>4 DEF TypeOK, Tests
  <2>6. StartOK' /\ ResultOK'
    BY DEF StartOK, ResultOK, workers_vars
  <2> QED
    BY <2>4, <2>5, <2>6, WorkersIdle
<1>3. CASE ConnectFails
  <2> USE <1>3 DEF ConnectFails
  <2>1. PICK c \in Threads :
          NextConn(c) /\ conns' = IF test = "same" THEN conns ELSE conns \ (1 .. c - 1)
    OBVIOUS
  <2>2. PICK d \in Threads : conns = 1 .. d - 1 /\ (test = "same" => d = 1)
    BY DEF MainOK
  <2>3. conns' = {}
    BY <2>1, <2>2 DEF NextConn, Threads
  <2>4. heap' = {}
    BY DEF MainOK
  <2> QED
    BY <2>3, <2>4, EndTestInv DEF ResultOK
<1>4. CASE AllocateThreads
  <2> USE <1>4 DEF AllocateThreads
  <2>1. TypeOK'
    BY ZenonT(30) DEF TypeOK, workers_vars, Tests
  <2>2. MainOK'
    BY DEF MainOK, Blocks, TestConns
  <2>3. StartOK'
    BY DEF StartOK, workers_vars
  <2>4. ResultOK'
    BY DEF TypeOK, ResultOK, Tests
  <2> QED
    BY <2>1, <2>2, <2>3, <2>4, WorkersIdle
<1>5. CASE CreateThread
  <2> USE <1>5 DEF CreateThread
  <2> DEFINE n == started + 1
  <2>1. n \in Threads /\ n > started /\ started \in Nat
    BY DEF TypeOK, StartOK, Threads
  <2>2. /\ worker[n].at = "off" /\ worker[n].round = 0 /\ ~worker[n].waiting
        /\ stats[n] = NoStats
    BY <2>1 DEF StartOK, Ops
  <2>3. /\ worker' = [worker EXCEPT ![n] = [worker[n] EXCEPT !.at = "write_d"]]
        /\ started' = n /\ UNCHANGED <<test, heap, conns, rets, complete, stats, owner,
                                       pending, answers, mem>>
    OBVIOUS
  <2> HIDE DEF n
  <2>4. TypeOK'
    <3>1. [worker[n] EXCEPT !.at = "write_d"] \in WorkerStates
      BY <2>1 DEF TypeOK, WorkerStates, Ops
    <3>2. worker' \in [Threads -> WorkerStates]
      BY <2>3, <3>1, ZenonT(30) DEF TypeOK
    <3>3. \A t \in Threads : worker'[t].at \in Ops => worker'[t].round < Iterations
      <4>1. worker'[n].round < Iterations
        BY <2>1, <2>2, <2>3 DEF TypeOK
      <4> QED
        BY <2>1, <2>3, <4>1, SMTT(30) DEF TypeOK
    <3>4. started' \in 0 .. ThreadCount /\ step' \in {"create", "join"}
      BY <2>1, <2>3, SMTT(30) DEF Threads
    <3> QED
      BY <2>3, <3>2, <3>3, <3>4 DEF TypeOK
  <2>5. /\ worker'[n].at = "write_d" /\ worker'[n].round = 0 /\ ~worker'[n].waiting
        /\ \A t \in Threads : t # n => worker'[t] = worker[t]
    BY <2>1, <2>2, <2>3 DEF TypeOK
  <2>6. MainOK' /\ ResultOK'
    BY <2>3 DEF MainOK, ResultOK, Blocks, TestConns
  <2>7. StartOK'
    <3>1. \A t \in Threads : t > n <=> t > started /\ t # n
      BY <2>1 DEF Threads, n
    <3>2. step' = "create" => n < ThreadCount
      BY <2>1 DEF Threads, n
    <3> QED
      BY <2>1, <2>2, <2>3, <2>5, <3>1, <3>2 DEF StartOK, Ops
  <2>8. CountOK'
    BY <2>1, <2>2, <2>3, <2>5 DEF CountOK, Counted, Made, Unchecked, NoStats
  <2>9. ExchangeOK'
    <3>1. \A t \in Threads : worker[t].waiting => t # n
      BY <2>2
    <3>2. \A t \in Threads : Conn(t)' = Conn(t)
      BY <2>3 DEF Conn
    <3>3. \A c \in Threads : Clean(c)' <=> Clean(c)
      BY <2>3, <3>2 DEF Clean
    <3>4. \A t \in Threads : worker'[t].waiting <=> worker[t].waiting
      BY <2>2, <2>5
    <3>5. \A t \in Threads : worker'[t].waiting => owner'[Conn(t)'] = t
      BY <2>3, <3>2, <3>4 DEF ExchangeOK
    <3>6. \A t \in Threads : worker[t].waiting => worker'[t] = worker[t]
      BY <2>5, <3>1
    <3> QED
      BY <2>3, <3>2, <3>3, <3>4, <3>5, <3>6 DEF ExchangeOK
  <2>10. OriginOK' /\ MismatchOK'
    BY <2>3 DEF OriginOK, MismatchOK, Clean, Conn
  <2>11. MemOK'
    BY <2>1, <2>2, <2>3, <2>5 DEF MemOK, Clean, Conn, Stored
  <2> QED
    BY <2>4, <2>6, <2>7, <2>8, <2>9, <2>10, <2>11
<1>6. CASE CreateFails
  <2> USE <1>6 DEF CreateFails
  <2>1. TypeOK' /\ MainOK' /\ StartOK' /\ ResultOK'
    BY DEF TypeOK, MainOK, StartOK, ResultOK, workers_vars, Blocks, TestConns
  <2> QED
    BY <2>1, WorkersIdle
<1>7. CASE Join
  <2> USE <1>7 DEF Join, Joined, Done
  <2>1. TypeOK'
    BY DEF TypeOK, workers_vars, Tests
  <2>2. MainOK'
    BY DEF MainOK, Blocks, TestConns
  <2>3. StartOK'
    <3>1. \A t \in Threads : worker[t].at \in {"off", "done"}
      BY DEF TypeOK, StartOK, Threads
    <3> QED
      BY <3>1 DEF StartOK, workers_vars, Ops
  <2>4. started = ThreadCount <=> \A t \in Threads : worker[t].at = "done"
    <3>1. started < ThreadCount =>
            started + 1 \in Threads /\ worker[started + 1].at # "done"
      BY DEF TypeOK, StartOK, Threads
    <3> QED
      BY <3>1 DEF TypeOK, Threads
  <2>5. ResultOK'
    BY <2>4 DEF TypeOK, ResultOK, Tests
  <2> QED
    BY <2>1, <2>2, <2>3, <2>5, WorkersIdle
<1>8. CASE Finish
  <2> USE <1>8 DEF Finish
  <2>1. TypeOK' /\ MainOK' /\ StartOK' /\ ResultOK'
    BY DEF TypeOK, MainOK, StartOK, ResultOK, workers_vars, Blocks, TestConns
  <2> QED
    BY <2>1, WorkersIdle
<1>9. CASE Return
  <2> USE <1>9 DEF Return
  <2>1. rets[test] \in {"none", "ok", "failed"}
    BY DEF TypeOK
  <2> QED
    BY <2>1, EndTestInv DEF ResultOK, MainOK
<1> QED
  BY <1>1, <1>2, <1>3, <1>4, <1>5, <1>6, <1>7, <1>8, <1>9 DEF MainNext

-----------------------------------------------------------------------------
(* The steps of the workers and of the PLC. *)

\* A step that leaves main alone.
LEMMA MainIdle ==
  ASSUME IInv, UNCHANGED main_vars
  PROVE  MainOK' /\ ResultOK' /\ \A t \in Threads : Conn(t)' = Conn(t)
BY DEF IInv, main_vars, MainOK, ResultOK, Conn, Blocks, TestConns

\* A call that fails ends the round of its thread.
LEMMA FailedInv ==
  ASSUME IInv, NEW t \in Threads, worker[t].at \in Ops, Failed(t), UNCHANGED main_vars
  PROVE  /\ worker' \in [Threads -> WorkerStates] /\ stats' \in [Threads -> Stats]
         /\ \A u \in Threads : worker'[u].at \in Ops => worker'[u].round < Iterations
         /\ StartOK' /\ CountOK'
         /\ \A u \in Threads \ {t} : worker'[u] = worker[u] /\ stats'[u] = stats[u]
         /\ ~worker'[t].waiting /\ stats'[t].io_errors # 0
<1> DEFINE w == worker[t]
           s == stats[t]
<1>1. w \in WorkerStates /\ w.round < Iterations /\ s \in Stats /\ w.at # "off"
  BY DEF IInv, TypeOK, Ops
<1>2. /\ worker' = [worker EXCEPT ![t] = NextRound(w)]
      /\ stats' = [stats EXCEPT ![t] = [s EXCEPT !.api_calls = @ + 1, !.io_errors = @ + 1]]
  BY DEF Failed
<1>3. Counted(s, w)
  BY <1>1 DEF IInv, CountOK
<1> HIDE DEF w, s
<1> DEFINE v == NextRound(w)
           r == [s EXCEPT !.api_calls = s.api_calls + 1, !.io_errors = s.io_errors + 1]
<1>4. /\ v \in WorkerStates /\ ~v.waiting /\ v.at \in {"write_d", "done"}
      /\ v.at = "write_d" => v.round < Iterations
  BY <1>1, StressAssumption DEF NextRound, WorkerStates, Ops
<1>5. /\ r \in Stats /\ r.io_errors # 0
      /\ r.api_calls = s.api_calls + 1 /\ r.checks = s.checks
      /\ r.mismatches = s.mismatches /\ r.io_errors = s.io_errors + 1
  <2>1. s.api_calls + 1 \in Nat /\ s.io_errors + 1 \in Nat \ {0}
    BY <1>1 DEF Stats
  <2> QED
    BY <1>1, <2>1 DEF Stats
<1> HIDE DEF r
<1>6. Counted(r, v)
  <2>1. /\ v.round = w.round + 1 /\ Made(v.at) = 0 /\ Unchecked(v.at) = 0
        /\ v.at = "done" => v.round = Iterations
    BY <1>1, StressAssumption DEF NextRound, Made, Unchecked, WorkerStates
  <2>2. /\ Made(w.at) \in 0 .. 3 /\ Unchecked(w.at) \in 0 .. 1 /\ w.round \in Nat
        /\ s.api_calls \in Nat /\ s.checks \in Nat /\ s.io_errors \in Nat
    BY <1>1, StressAssumption DEF Made, Unchecked, WorkerStates, Stats
  <2> QED
    BY <1>3, <1>5, <2>1, <2>2 DEF Counted
<1> HIDE DEF v
<1>7. /\ worker' = [worker EXCEPT ![t] = v] /\ stats' = [stats EXCEPT ![t] = r]
      /\ worker \in [Threads -> WorkerStates] /\ stats \in [Threads -> Stats]
  BY <1>2 DEF v, r, IInv, TypeOK
<1>8. /\ worker'[t] = v /\ stats'[t] = r
      /\ \A u \in Threads \ {t} : worker'[u] = worker[u] /\ stats'[u] = stats[u]
  BY <1>7
<1>9. \A u \in Threads : worker'[u].at \in Ops => worker'[u].round < Iterations
  BY <1>4, <1>8 DEF IInv, TypeOK, Ops
<1>10. StartOK'
  BY <1>1, <1>4, <1>8 DEF IInv, StartOK, main_vars, Ops, w
<1>11. CountOK'
  BY <1>6, <1>8 DEF IInv, CountOK
<1> QED
  BY <1>4, <1>5, <1>7, <1>8, <1>9, <1>10, <1>11

\* A call that succeeds leads to the next one.
LEMMA SucceededInv ==
  ASSUME IInv, NEW t \in Threads, worker[t].at \in Ops, NEW value, Succeeded(t, value),
         UNCHANGED main_vars
  PROVE  /\ worker' \in [Threads -> WorkerStates] /\ stats' \in [Threads -> Stats]
         /\ \A u \in Threads : worker'[u].at \in Ops => worker'[u].round < Iterations
         /\ StartOK' /\ CountOK'
         /\ \A u \in Threads \ {t} : worker'[u] = worker[u] /\ stats'[u] = stats[u]
         /\ ~worker'[t].waiting /\ stats'[t].io_errors = stats[t].io_errors
         /\ worker'[t].at = "read_d" =>
              worker[t].at = "write_d" /\ worker'[t].round = worker[t].round
         /\ worker'[t].at = "read_m" =>
              worker[t].at = "write_m" /\ worker'[t].round = worker[t].round
         /\ \/ worker[t].at \notin {"read_d", "read_m"}
            \/ value = Written(t, worker[t].at, worker[t].round)
            => stats'[t].mismatches = stats[t].mismatches
<1> DEFINE w == worker[t]
           s == stats[t]
           checked == w.at \in {"read_d", "read_m"}
           wrong == checked /\ value # Written(t, w.at, w.round)
           v == IF w.at = "read_m" THEN NextRound(w)
                ELSE [w EXCEPT !.at = After[w.at], !.waiting = FALSE]
           r == [s EXCEPT !.api_calls = s.api_calls + 1,
                          !.checks = s.checks + (IF checked THEN 1 ELSE 0),
                          !.mismatches = s.mismatches + (IF wrong THEN 1 ELSE 0)]
<1>1. w \in WorkerStates /\ w.round < Iterations /\ s \in Stats /\ w.at \in Ops /\ w.at # "off"
  BY DEF IInv, TypeOK, Ops
<1>2. worker' = [worker EXCEPT ![t] = v] /\ stats' = [stats EXCEPT ![t] = r]
  BY DEF Succeeded
<1>3. Counted(s, w)
  BY <1>1 DEF IInv, CountOK
<1> HIDE DEF w, s
<1>4. /\ v \in WorkerStates /\ ~v.waiting /\ v.at # "off"
      /\ v.at \in Ops => v.round < Iterations
      /\ v.at = "read_d" => w.at = "write_d" /\ v.round = w.round
      /\ v.at = "read_m" => w.at = "write_m" /\ v.round = w.round
  <2>1. CASE w.at = "read_m"
    BY <1>1, <2>1, StressAssumption DEF NextRound, WorkerStates, Ops
  <2>2. CASE w.at # "read_m"
    <3>1. /\ After[w.at] \in Ops
          /\ After[w.at] = "read_d" => w.at = "write_d"
          /\ After[w.at] = "read_m" => w.at = "write_m"
      BY <1>1, <2>2 DEF After, Ops
    <3> QED
      BY <1>1, <2>2, <3>1 DEF WorkerStates, Ops
  <2> QED
    BY <2>1, <2>2
<1> HIDE DEF wrong
<1> DEFINE one(b) == IF b THEN 1 ELSE 0
<1>5. /\ r \in Stats /\ r.api_calls = s.api_calls + 1 /\ r.io_errors = s.io_errors
      /\ r.checks = s.checks + one(checked) /\ r.mismatches = s.mismatches + one(wrong)
  <2>1. /\ s.api_calls + 1 \in Nat /\ s.checks + one(checked) \in Nat
        /\ s.mismatches + one(wrong) \in Nat
    BY <1>1 DEF Stats
  <2> QED
    BY <1>1, <2>1 DEF Stats
<1>6. wrong => checked
  BY DEF wrong
<1>7. Counted(r, v)
  BY <1>1, <1>3, <1>6, StressAssumption
  DEF Counted, Made, Unchecked, NextRound, After, Stats, WorkerStates, Ops
<1> HIDE DEF v, r
<1>8. worker \in [Threads -> WorkerStates] /\ stats \in [Threads -> Stats]
  BY DEF IInv, TypeOK
<1>9. /\ worker'[t] = v /\ stats'[t] = r
      /\ \A u \in Threads \ {t} : worker'[u] = worker[u] /\ stats'[u] = stats[u]
  BY <1>2, <1>8
<1>10. worker' \in [Threads -> WorkerStates] /\ stats' \in [Threads -> Stats]
  BY <1>2, <1>4, <1>5, <1>8
<1>11. \A u \in Threads : worker'[u].at \in Ops => worker'[u].round < Iterations
  BY <1>4, <1>9 DEF IInv, TypeOK
<1>12. StartOK'
  BY <1>1, <1>4, <1>9 DEF IInv, StartOK, main_vars, w
<1>13. CountOK'
  BY <1>7, <1>9 DEF IInv, CountOK
<1>14. \/ w.at \notin {"read_d", "read_m"}
       \/ value = Written(t, w.at, w.round)
       => r.mismatches = s.mismatches
  BY <1>1, <1>5 DEF wrong, Stats
<1> QED
  BY <1>4, <1>5, <1>9, <1>10, <1>11, <1>12, <1>13, <1>14 DEF w, s

\* A failed call: its connection is clean no more, the others are as before.
LEMMA FailedCallInv ==
  ASSUME IInv, NEW t \in Threads, worker[t].at \in Ops, Failed(t), UNCHANGED main_vars,
         NEW c, c = Conn(t), owner[c] \in {0, t}, owner' = [owner EXCEPT ![c] = 0],
         answers' \in [Threads -> Seq(Answers)],
         \A d \in Threads \ {c} : answers'[d] = answers[d],
         UNCHANGED <<pending, mem>>
  PROVE  IInv'
<1>1. /\ MainOK' /\ ResultOK' /\ \A u \in Threads : Conn(u)' = Conn(u)
      /\ c \in Threads
  BY MainIdle, ConnType
<1>2. /\ worker' \in [Threads -> WorkerStates] /\ stats' \in [Threads -> Stats]
      /\ \A u \in Threads : worker'[u].at \in Ops => worker'[u].round < Iterations
      /\ StartOK' /\ CountOK'
      /\ \A u \in Threads \ {t} : worker'[u] = worker[u] /\ stats'[u] = stats[u]
      /\ ~worker'[t].waiting /\ stats'[t].io_errors # 0
  BY FailedInv
<1>3. TypeOK'
  BY <1>1, <1>2 DEF IInv, TypeOK, main_vars
<1>4. /\ owner'[c] = 0 /\ \A d \in Threads \ {c} : owner'[d] = owner[d]
  BY <1>1 DEF IInv, TypeOK
<1>5. ~Clean(c)'
  BY <1>1, <1>2 DEF Clean
<1>6. \A d \in Threads \ {c} : Clean(d)' <=> Clean(d)
  BY <1>1, <1>2, ZenonT(30) DEF Clean
<1>7. ExchangeOK'
  <2>1. \A u \in Threads : worker'[u].waiting => u # t /\ worker[u].waiting /\ Conn(u) # c
    BY <1>2 DEF IInv, ExchangeOK, Threads
  <2>2. \A u \in Threads : worker'[u].waiting => owner'[Conn(u)'] = u
    BY <1>1, <1>4, <2>1, ConnType DEF IInv, ExchangeOK
  <2>3. ASSUME NEW d \in Threads \ {c}, Clean(d)
        PROVE  \/ owner'[d] = 0 /\ pending'[d] = <<>> /\ answers'[d] = <<>>
               \/ \E u \in Threads :
                    /\ owner'[d] = u /\ Conn(u)' = d /\ worker'[u].waiting
                    /\ Carries(u, worker'[u], pending'[d], answers'[d])
    <3>1. CASE owner[d] = 0 /\ pending[d] = <<>> /\ answers[d] = <<>>
      BY <1>4, <3>1
    <3>2. CASE \E u \in Threads :
                 /\ owner[d] = u /\ Conn(u) = d /\ worker[u].waiting
                 /\ Carries(u, worker[u], pending[d], answers[d])
      <4>1. PICK u \in Threads :
              /\ owner[d] = u /\ Conn(u) = d /\ worker[u].waiting
              /\ Carries(u, worker[u], pending[d], answers[d])
        BY <3>2
      <4> QED
        BY <1>1, <1>2, <1>4, <4>1
    <3> QED
      BY <2>3, <3>1, <3>2 DEF IInv, ExchangeOK
  <2> QED
    BY <1>5, <1>6, <2>2, <2>3 DEF ExchangeOK
<1>8. OriginOK'
  BY <1>1 DEF IInv, OriginOK, Conn, main_vars
<1>9. MemOK'
  <2>1. ASSUME NEW u \in Threads, Clean(Conn(u))'
        PROVE  /\ Clean(Conn(u)) /\ worker'[u] = worker[u]
               /\ Conn(u)' = Conn(u) /\ pending' = pending /\ mem' = mem
    BY <1>1, <1>2, <1>5, <1>6, <2>1, ConnType
  <2> QED
    BY <2>1 DEF IInv, MemOK, Stored
<1>10. MismatchOK'
  BY <1>1, <1>2, <1>5, <1>6, ConnType DEF IInv, MismatchOK
<1> QED
  BY <1>1, <1>2, <1>3, <1>7, <1>8, <1>9, <1>10 DEF IInv

\* A thread sends a request.
LEMMA SendInv ==
  ASSUME IInv, NEW t \in Threads, Send(t)
  PROVE  IInv'
<1> DEFINE c == Conn(t)
           v == [worker[t] EXCEPT !.waiting = TRUE]
           q == Request(t, worker[t])
<1>1. /\ MainOK' /\ ResultOK' /\ \A u \in Threads : Conn(u)' = Conn(u)
      /\ c \in Threads
  BY MainIdle, ConnType DEF Send
<1>2. /\ worker[t] \in WorkerStates /\ worker[t].round < Iterations
      /\ worker[t].at \in Ops /\ ~worker[t].waiting /\ owner[c] = 0
  BY DEF Send, IInv, TypeOK
<1>3. /\ owner' = [owner EXCEPT ![c] = t]
      /\ pending' = [pending EXCEPT ![c] = Append(pending[c], q)]
      /\ worker' = [worker EXCEPT ![t] = v]
      /\ UNCHANGED <<stats, answers, mem>> /\ UNCHANGED main_vars
  BY DEF Send, Request
<1>4. q \in Requests /\ q.t = t
  BY <1>2, StressAssumption DEF Request, Requests, WorkerStates
<1>5. v \in WorkerStates /\ v.waiting /\ v.at = worker[t].at /\ v.round = worker[t].round
  BY <1>2 DEF WorkerStates
<1>6. Request(t, v) = q
  BY <1>5 DEF Request
<1> HIDE DEF c, v, q
<1>7. /\ worker \in [Threads -> WorkerStates] /\ owner \in [Threads -> Threads \cup {0}]
      /\ pending \in [Threads -> Seq(Requests)]
  BY DEF IInv, TypeOK
<1>8. /\ owner'[c] = t /\ pending'[c] = Append(pending[c], q) /\ worker'[t] = v
      /\ \A d \in Threads \ {c} : owner'[d] = owner[d] /\ pending'[d] = pending[d]
      /\ \A u \in Threads \ {t} : worker'[u] = worker[u]
  BY <1>1, <1>3, <1>7
<1>9. TypeOK'
  <2>1. Append(pending[c], q) \in Seq(Requests)
    BY <1>1, <1>4, <1>7
  <2>2. /\ pending' \in [Threads -> Seq(Requests)] /\ owner' \in [Threads -> Threads \cup {0}]
        /\ worker' \in [Threads -> WorkerStates]
    BY <1>1, <1>3, <1>5, <1>7, <2>1
  <2>3. \A u \in Threads : worker'[u].at \in Ops => worker'[u].round < Iterations
    BY <1>2, <1>5, <1>8 DEF IInv, TypeOK
  <2> QED
    BY <1>3, <2>2, <2>3 DEF IInv, TypeOK, main_vars
<1>10. StartOK' /\ CountOK'
  <2>1. StartOK'
    BY <1>2, <1>3, <1>5, <1>8 DEF IInv, StartOK, main_vars, Ops
  <2>2. CountOK'
    BY <1>3, <1>5, <1>8 DEF IInv, CountOK, Counted
  <2> QED
    BY <2>1, <2>2
<1>11. \A d \in Threads : Clean(d)' <=> Clean(d)
  BY <1>1, <1>3 DEF Clean
<1>12. ExchangeOK'
  <2>1. \A u \in Threads : worker'[u].waiting => owner'[Conn(u)'] = u
    <3>1. \A u \in Threads \ {t} : worker[u].waiting => Conn(u) # c
      BY <1>2 DEF IInv, ExchangeOK, Threads
    <3> QED
      BY <1>1, <1>8, <3>1, ConnType DEF IInv, ExchangeOK, c
  <2>2. Clean(c) => pending'[c] = <<q>> /\ answers'[c] = <<>>
    <3>1. Clean(c) => pending[c] = <<>> /\ answers[c] = <<>>
      BY <1>1, <1>2 DEF IInv, ExchangeOK, Threads
    <3>2. Append(<<>>, q) = <<q>>
      OBVIOUS
    <3> QED
      BY <1>1, <1>3, <1>8, <3>1, <3>2
  <2>3. Clean(c) => /\ owner'[c] = t /\ Conn(t)' = c /\ worker'[t].waiting
                    /\ Carries(t, worker'[t], pending'[c], answers'[c])
    BY <1>1, <1>5, <1>6, <1>8, <2>2 DEF Carries, c
  <2>4. ASSUME NEW d \in Threads \ {c}, Clean(d)
        PROVE  \/ owner'[d] = 0 /\ pending'[d] = <<>> /\ answers'[d] = <<>>
               \/ \E u \in Threads :
                    /\ owner'[d] = u /\ Conn(u)' = d /\ worker'[u].waiting
                    /\ Carries(u, worker'[u], pending'[d], answers'[d])
    BY <1>1, <1>2, <1>3, <1>8, <2>4 DEF IInv, ExchangeOK
  <2> QED
    BY <1>11, <2>1, <2>3, <2>4 DEF ExchangeOK
<1>13. OriginOK'
  <2>1. \A k \in 1 .. Len(pending'[c]) : Conn(pending'[c][k].t) = c
    <3>1. pending[c] \in Seq(Requests)
      BY <1>1, <1>7
    <3>2. \A k \in 1 .. Len(pending[c]) : Conn(pending[c][k].t) = c
      BY <1>1 DEF IInv, OriginOK
    <3>3. Conn(q.t) = c
      BY <1>4 DEF c
    <3>4. /\ Len(pending'[c]) = Len(pending[c]) + 1
          /\ pending'[c][Len(pending[c]) + 1] = q
          /\ \A k \in 1 .. Len(pending[c]) : pending'[c][k] = pending[c][k]
      BY <1>8, <3>1, <1>4
    <3>5. \A k \in 1 .. Len(pending'[c]) :
            k \in 1 .. Len(pending[c]) \/ k = Len(pending[c]) + 1
      BY <3>1, <3>4
    <3> QED
      BY <3>2, <3>3, <3>4, <3>5
  <2> QED
    BY <1>3, <1>8, <2>1 DEF IInv, OriginOK, Conn, main_vars
<1>14. pending'[c] # <<>>
  <2>1. \A s \in Seq(Requests) : Append(s, q) # <<>>
    BY <1>4
  <2> QED
    BY <1>1, <1>7, <1>8, <2>1
<1>15. MemOK'
  <2>1. ASSUME NEW u \in Threads, NEW write, NEW read, Stored(u, write, read)'
        PROVE  Stored(u, write, read) /\ worker'[u].round = worker[u].round
    <3>1. worker'[u].at = worker[u].at /\ worker'[u].round = worker[u].round
      BY <1>5, <1>8
    <3>2. worker'[u].waiting /\ pending'[Conn(u)'] = <<>> =>
            worker[u].waiting /\ pending[Conn(u)] = <<>>
      BY <1>1, <1>8, <1>14, ConnType DEF c
    <3> QED
      BY <2>1, <3>1, <3>2 DEF Stored
  <2>2. \A u \in Threads : Clean(Conn(u))' => Clean(Conn(u))
    BY <1>1, <1>11, ConnType
  <2> QED
    BY <1>3, <2>1, <2>2 DEF IInv, MemOK
<1>16. MismatchOK'
  BY <1>1, <1>3, <1>11, ConnType DEF IInv, MismatchOK
<1> QED
  BY <1>1, <1>9, <1>10, <1>12, <1>13, <1>15, <1>16 DEF IInv

\* A call fails before anything is sent.
LEMMA NotSentInv ==
  ASSUME IInv, NEW t \in Threads, NotSent(t)
  PROVE  IInv'
<1>1. owner' = [owner EXCEPT ![Conn(t)] = 0] /\ owner[Conn(t)] = 0
  BY ConnType DEF NotSent, IInv, TypeOK
<1> QED
  BY <1>1, FailedCallInv DEF NotSent, IInv, TypeOK

\* A call gives up waiting.
LEMMA TimeoutInv ==
  ASSUME IInv, NEW t \in Threads, Timeout(t)
  PROVE  IInv'
<1>1. worker[t].at \in Ops /\ owner[Conn(t)] = t
  BY DEF Timeout, IInv, StartOK, ExchangeOK
<1> QED
  BY <1>1, FailedCallInv DEF Timeout, IInv, TypeOK

\* A thread reads what comes next on its connection.
LEMMA ReceiveInv ==
  ASSUME IInv, NEW t \in Threads, Receive(t)
  PROVE  IInv'
<1> DEFINE c == Conn(t)
           a == Head(answers[c])
           value == Value(worker[t].at, a)
<1>1. /\ worker[t].waiting /\ answers[c] # <<>>
      /\ answers' = [answers EXCEPT ![c] = Tail(answers[c])]
      /\ owner' = [owner EXCEPT ![c] = 0]
      /\ Failed(t) \/ Succeeded(t, value)
      /\ UNCHANGED <<pending, mem>> /\ UNCHANGED main_vars
  BY DEF Receive
<1>2. worker[t].at \in Ops /\ owner[c] = t /\ c \in Threads
  BY <1>1, ConnType DEF IInv, StartOK, ExchangeOK
<1>3. answers \in [Threads -> Seq(Answers)] /\ owner \in [Threads -> Threads \cup {0}]
  BY DEF IInv, TypeOK
<1>4. /\ answers' \in [Threads -> Seq(Answers)]
      /\ \A d \in Threads \ {c} : answers'[d] = answers[d]
  BY <1>1, <1>2, <1>3
<1>5. CASE Failed(t)
  BY <1>1, <1>2, <1>4, <1>5, FailedCallInv
<1>6. CASE Succeeded(t, value)
  <2>1. /\ MainOK' /\ ResultOK' /\ \A u \in Threads : Conn(u)' = Conn(u)
    BY <1>1, MainIdle
  <2>2. Clean(c) => /\ pending[c] = <<>> /\ answers[c] = <<Answer(t, worker[t])>>
                    /\ a = Answer(t, worker[t])
    <3>1. Clean(c) => pending[c] = <<>> /\ answers[c] = <<Answer(t, worker[t])>>
      BY <1>1, <1>2 DEF IInv, ExchangeOK, Carries, Threads
    <3>2. Head(<<Answer(t, worker[t])>>) = Answer(t, worker[t])
      OBVIOUS
    <3> QED
      BY <3>1, <3>2
  <2>3. Clean(c) => \/ worker[t].at \notin {"read_d", "read_m"}
                    \/ value = Written(t, worker[t].at, worker[t].round)
    BY <2>2 DEF Answer, Value
  <2> HIDE DEF a, value
  <2>4. /\ worker' \in [Threads -> WorkerStates] /\ stats' \in [Threads -> Stats]
        /\ \A u \in Threads : worker'[u].at \in Ops => worker'[u].round < Iterations
        /\ StartOK' /\ CountOK'
        /\ \A u \in Threads \ {t} : worker'[u] = worker[u] /\ stats'[u] = stats[u]
        /\ ~worker'[t].waiting /\ stats'[t].io_errors = stats[t].io_errors
    BY <1>1, <1>2, <1>6, SucceededInv
  <2>5. /\ worker'[t].at = "read_d" =>
             worker[t].at = "write_d" /\ worker'[t].round = worker[t].round
        /\ worker'[t].at = "read_m" =>
             worker[t].at = "write_m" /\ worker'[t].round = worker[t].round
    BY <1>1, <1>2, <1>6, SucceededInv
  <2>6. Clean(c) => stats'[t].mismatches = stats[t].mismatches
    BY <1>1, <1>2, <1>6, <2>3, SucceededInv
  <2> HIDE DEF c
  <2>7. /\ owner'[c] = 0 /\ answers'[c] = Tail(answers[c])
        /\ \A d \in Threads \ {c} : owner'[d] = owner[d]
    BY <1>1, <1>2, <1>3
  <2>8. TypeOK'
    BY <1>1, <1>2, <1>3, <1>4, <2>4 DEF IInv, TypeOK, main_vars
  <2>9. \A d \in Threads : Clean(d)' <=> Clean(d)
    BY <2>1, <2>4 DEF Clean
  <2>10. \A u \in Threads : worker'[u].waiting =>
           u # t /\ worker[u].waiting /\ Conn(u) # c
    BY <1>2, <2>4 DEF IInv, ExchangeOK
  <2>11. ExchangeOK'
    <3>1. \A u \in Threads : worker'[u].waiting => owner'[Conn(u)'] = u
      BY <2>1, <2>7, <2>10, ConnType DEF IInv, ExchangeOK
    <3>2. Clean(c) => owner'[c] = 0 /\ pending'[c] = <<>> /\ answers'[c] = <<>>
      <4>1. Tail(<<Answer(t, worker[t])>>) = <<>>
        OBVIOUS
      <4> QED
        BY <1>1, <2>2, <2>7, <4>1
    <3>3. ASSUME NEW d \in Threads \ {c}, Clean(d)
          PROVE  \/ owner'[d] = 0 /\ pending'[d] = <<>> /\ answers'[d] = <<>>
                 \/ \E u \in Threads :
                      /\ owner'[d] = u /\ Conn(u)' = d /\ worker'[u].waiting
                      /\ Carries(u, worker'[u], pending'[d], answers'[d])
      BY <1>1, <1>4, <2>1, <2>4, <2>7, <3>3 DEF IInv, ExchangeOK, c
    <3> QED
      BY <2>9, <3>1, <3>2, <3>3 DEF ExchangeOK
  <2>12. OriginOK'
    BY <1>1 DEF IInv, OriginOK, Conn, main_vars
  <2>13. MemOK'
    <3>1. ASSUME NEW u \in Threads, u # t
          PROVE  /\ Stored(u, "write_d", "read_d")' <=> Stored(u, "write_d", "read_d")
                 /\ Stored(u, "write_m", "read_m")' <=> Stored(u, "write_m", "read_m")
                 /\ worker'[u] = worker[u]
      <4>1. worker'[u] = worker[u] /\ Conn(u)' = Conn(u) /\ pending' = pending
        BY <1>1, <2>1, <2>4, <3>1
      <4> QED
        BY <4>1 DEF Stored
    <3>2. Clean(c) =>
            /\ Stored(t, "write_d", "read_d")' =>
                 Stored(t, "write_d", "read_d") /\ worker'[t].round = worker[t].round
            /\ Stored(t, "write_m", "read_m")' =>
                 Stored(t, "write_m", "read_m") /\ worker'[t].round = worker[t].round
      BY <1>1, <2>2, <2>4, <2>5 DEF Stored, c
    <3>3. \A u \in Threads : Clean(Conn(u))' <=> Clean(Conn(u))
      BY <2>1, <2>9, ConnType
    <3> DEFINE InPlace(u) ==
          /\ Stored(u, "write_d", "read_d") =>
               /\ mem[<<"D", FirstRegister(u)>>] = worker[u].round % Word
               /\ mem[<<"D", FirstRegister(u) + 1>>] = High(u, worker[u].round)
          /\ Stored(u, "write_m", "read_m") => mem[<<"M", u - 1>>] = worker[u].round % 2
    <3>4. \A u \in Threads : Clean(Conn(u)) => InPlace(u)
      BY DEF IInv, MemOK
    <3>5. \A u \in Threads \ {t} : InPlace(u) => InPlace(u)'
      BY <1>1, <3>1
    <3>6. Clean(c) /\ InPlace(t) => InPlace(t)'
      BY <1>1, <3>2
    <3> HIDE DEF InPlace
    <3>7. \A u \in Threads : Clean(Conn(u))' => InPlace(u)'
      BY <3>3, <3>4, <3>5, <3>6 DEF c
    <3> QED
      BY <3>7 DEF MemOK, InPlace
  <2>14. MismatchOK'
    BY <2>1, <2>4, <2>6, <2>9, ConnType DEF IInv, MismatchOK, c
  <2> QED
    BY <2>1, <2>4, <2>8, <2>11, <2>12, <2>13, <2>14 DEF IInv
<1> QED
  BY <1>1, <1>5, <1>6

\* The PLC carries a request out.
LEMMA PlcExecuteInv ==
  ASSUME IInv, NEW c \in Threads, PlcExecute(c)
  PROVE  IInv'
<1> DEFINE r == Head(pending[c])
           writes == r.op \in {"write_d", "write_m"}
           cells == Devices(r.t, r.op)
           a == [op |-> r.op, value |-> IF writes THEN <<>> ELSE ReadCells(cells)]
<1>1. /\ pending[c] # <<>>
      /\ mem' = IF writes THEN WriteCells(cells, Written(r.t, r.op, r.i)) ELSE mem
      /\ answers' = [answers EXCEPT ![c] = Append(answers[c], a)]
      /\ pending' = [pending EXCEPT ![c] = Tail(pending[c])]
      /\ UNCHANGED <<worker, stats, owner>> /\ UNCHANGED main_vars
  BY DEF PlcExecute
<1>2. /\ MainOK' /\ ResultOK' /\ \A u \in Threads : Conn(u)' = Conn(u)
  BY <1>1, MainIdle
<1>3. /\ pending \in [Threads -> Seq(Requests)] /\ pending[c] \in Seq(Requests)
      /\ answers \in [Threads -> Seq(Answers)] /\ answers[c] \in Seq(Answers)
  BY DEF IInv, TypeOK
<1>4. /\ r = pending[c][1] /\ 1 \in 1 .. Len(pending[c]) /\ Tail(pending[c]) \in Seq(Requests)
      /\ Len(Tail(pending[c])) = Len(pending[c]) - 1
      /\ \A k \in 1 .. Len(Tail(pending[c])) :
           k + 1 \in 1 .. Len(pending[c]) /\ Tail(pending[c])[k] = pending[c][k + 1]
  BY <1>1, <1>3
<1>5. r \in Requests /\ Conn(r.t) = c
  <2>1. pending[c][1] \in Requests
    BY <1>3, <1>4
  <2>2. Conn(pending[c][1].t) = c
    BY <1>4 DEF IInv, OriginOK
  <2>3. r = pending[c][1]
    BY <1>4
  <2> QED
    BY <2>1, <2>2, <2>3
<1>6. r.t \in Threads /\ r.op \in Ops /\ r.i \in 0 .. Iterations - 1
  BY <1>5 DEF Requests
<1>7. a \in Answers
  <2>1. CASE writes
    BY <1>6, <2>1 DEF Answers
  <2>2. CASE ~writes
    <3>1. ReadCells(cells) \in Seq(Nat)
      BY <1>6, <2>2, ReadNumber, ReadBool DEF Ops, IInv
    <3> QED
      BY <1>6, <2>2, <3>1 DEF Answers
  <2> QED
    BY <2>1, <2>2
\* The registers: those of other threads stay as they are.
<1> DEFINE D(u) == <<"D", FirstRegister(u)>>
           E(u) == <<"D", FirstRegister(u) + 1>>
           M(u) == <<"M", u - 1>>
<1>8. /\ mem' \in [Cells -> Nat]
      /\ \A u \in Threads : u # r.t =>
           mem'[D(u)] = mem[D(u)] /\ mem'[E(u)] = mem[E(u)] /\ mem'[M(u)] = mem[M(u)]
      /\ r.op = "write_d" => /\ mem'[D(r.t)] = r.i % Word /\ mem'[E(r.t)] = High(r.t, r.i)
                             /\ mem'[M(r.t)] = mem[M(r.t)]
      /\ r.op = "write_m" => /\ mem'[M(r.t)] = r.i % 2
                             /\ mem'[D(r.t)] = mem[D(r.t)] /\ mem'[E(r.t)] = mem[E(r.t)]
      /\ r.op \notin {"write_d", "write_m"} => mem' = mem
  <2>1. /\ \A u \in Threads : D(u) \in Cells /\ E(u) \in Cells /\ M(u) \in Cells
        /\ \A u \in Threads : M(u) \notin {D(r.t), E(r.t)}
        /\ \A u \in Threads : M(r.t) \notin {D(u), E(u)}
    BY CellTypes
  <2>2. \A u \in Threads : u # r.t =>
          D(u) \notin {D(r.t), E(r.t)} /\ E(u) \notin {D(r.t), E(r.t)} /\ M(u) # M(r.t)
    BY <1>6, CellsDisjoint
  <2>3. CASE r.op = "write_d"
    <3>1. /\ mem' \in [Cells -> Nat]
          /\ mem'[D(r.t)] = r.i % Word /\ mem'[E(r.t)] = High(r.t, r.i)
          /\ \A x \in Cells : x \notin {D(r.t), E(r.t)} => mem'[x] = mem[x]
      BY <1>1, <1>6, <2>3, WriteNumber DEF IInv
    <3> HIDE DEF D, E, M, r
    <3> QED
      BY <1>6, <2>1, <2>2, <2>3, <3>1
  <2>4. CASE r.op = "write_m"
    <3>1. /\ mem' \in [Cells -> Nat] /\ mem'[M(r.t)] = r.i % 2
          /\ \A x \in Cells : x # M(r.t) => mem'[x] = mem[x]
      BY <1>1, <1>6, <2>4, WriteBool DEF IInv
    <3> HIDE DEF D, E, M, r
    <3> QED
      BY <1>6, <2>1, <2>2, <2>4, <3>1
  <2>5. CASE r.op \notin {"write_d", "write_m"}
    BY <1>1, <2>5 DEF IInv, TypeOK
  <2> QED
    BY <2>3, <2>4, <2>5
<1>9. TypeOK'
  <2>1. pending' \in [Threads -> Seq(Requests)]
    BY <1>1, <1>3, <1>4
  <2>2. answers' \in [Threads -> Seq(Answers)]
    BY <1>1, <1>3, <1>7
  <2> QED
    BY <1>1, <1>8, <2>1, <2>2 DEF IInv, TypeOK, main_vars
<1>10. StartOK' /\ CountOK'
  BY <1>1 DEF IInv, StartOK, CountOK, main_vars
<1>11. \A d \in Threads : Clean(d)' <=> Clean(d)
  BY <1>1, <1>2 DEF Clean
\* On a clean connection the request is that of the thread that waits.
<1>12. ASSUME Clean(c)
       PROVE  \E t \in Threads :
                /\ owner[c] = t /\ Conn(t) = c /\ worker[t].waiting
                /\ pending[c] = <<Request(t, worker[t])>> /\ answers[c] = <<>>
                /\ r = Request(t, worker[t])
  BY <1>1, <1>12 DEF IInv, ExchangeOK, Carries
<1>13. /\ pending'[c] = Tail(pending[c]) /\ answers'[c] = Append(answers[c], a)
       /\ \A d \in Threads \ {c} : pending'[d] = pending[d] /\ answers'[d] = answers[d]
  BY <1>1, <1>3
<1>14. OriginOK'
  <2>1. \A k \in 1 .. Len(pending'[c]) : Conn(pending'[c][k].t) = c
    BY <1>4, <1>13 DEF IInv, OriginOK
  <2> QED
    BY <1>1, <1>13, <2>1 DEF IInv, OriginOK, Conn, main_vars
<1>15. ASSUME NEW t \in Threads, r = Request(t, worker[t]), Clean(c), Conn(t) = c
       PROVE  a = Answer(t, worker[t])
  <2>1. r.t = t /\ r.op = worker[t].at /\ r.i = worker[t].round
    BY <1>15 DEF Request
  <2>2. CASE writes
    BY <2>1, <2>2 DEF Answer
  <2>3. CASE r.op = "read_d"
    <3>1. mem[D(t)] = worker[t].round % Word /\ mem[E(t)] = High(t, worker[t].round)
      BY <1>15, <2>1, <2>3 DEF IInv, MemOK, Stored
    <3>2. ReadCells(cells) = <<worker[t].round % Word, High(t, worker[t].round)>>
      BY <2>1, <2>3, <3>1, ReadNumber DEF IInv
    <3> QED
      BY <2>1, <2>3, <3>2 DEF Answer, Written
  <2>4. CASE r.op = "read_m"
    <3>1. mem[M(t)] = worker[t].round % 2
      BY <1>15, <2>1, <2>4 DEF IInv, MemOK, Stored
    <3>2. ReadCells(cells) = <<worker[t].round % 2>>
      BY <2>1, <2>4, <3>1, ReadBool DEF IInv
    <3> QED
      BY <2>1, <2>4, <3>2 DEF Answer, Written
  <2> QED
    BY <1>6, <2>2, <2>3, <2>4 DEF Ops
<1> HIDE DEF r, writes, cells, a
<1>16. ExchangeOK'
  <2>1. \A u \in Threads : worker'[u].waiting => owner'[Conn(u)'] = u
    BY <1>1, <1>2 DEF IInv, ExchangeOK
  <2>2. Clean(c) => \E t \in Threads :
                      /\ owner'[c] = t /\ Conn(t)' = c /\ worker'[t].waiting
                      /\ Carries(t, worker'[t], pending'[c], answers'[c])
    <3> SUFFICES ASSUME Clean(c)
                 PROVE  \E t \in Threads :
                          /\ owner'[c] = t /\ Conn(t)' = c /\ worker'[t].waiting
                          /\ Carries(t, worker'[t], pending'[c], answers'[c])
      OBVIOUS
    <3>1. PICK t \in Threads :
            /\ owner[c] = t /\ Conn(t) = c /\ worker[t].waiting
            /\ pending[c] = <<Request(t, worker[t])>> /\ answers[c] = <<>>
            /\ r = Request(t, worker[t])
      BY <1>12
    <3>2. /\ Tail(<<Request(t, worker[t])>>) = <<>>
          /\ Append(<<>>, Answer(t, worker[t])) = <<Answer(t, worker[t])>>
      OBVIOUS
    <3>3. pending'[c] = <<>> /\ answers'[c] = <<Answer(t, worker[t])>>
      BY <1>13, <1>15, <3>1, <3>2
    <3> QED
      BY <1>1, <1>2, <3>1, <3>3 DEF Carries
  <2>3. ASSUME NEW d \in Threads \ {c}, Clean(d)
        PROVE  \/ owner'[d] = 0 /\ pending'[d] = <<>> /\ answers'[d] = <<>>
               \/ \E u \in Threads :
                    /\ owner'[d] = u /\ Conn(u)' = d /\ worker'[u].waiting
                    /\ Carries(u, worker'[u], pending'[d], answers'[d])
    BY <1>1, <1>2, <1>13, <2>3 DEF IInv, ExchangeOK
  <2> QED
    BY <1>11, <2>1, <2>2, <2>3 DEF ExchangeOK
<1>17. MemOK'
  <2> DEFINE InPlace(u) ==
        /\ Stored(u, "write_d", "read_d") =>
             /\ mem[D(u)] = worker[u].round % Word
             /\ mem[E(u)] = High(u, worker[u].round)
        /\ Stored(u, "write_m", "read_m") => mem[M(u)] = worker[u].round % 2
  <2>1. ASSUME NEW u \in Threads, Clean(Conn(u))'
        PROVE  InPlace(u)'
    <3>1. Clean(Conn(u)) /\ InPlace(u)
      BY <1>2, <1>11, <2>1, ConnType DEF IInv, MemOK
    <3>2. CASE Conn(u) # c
      <4>1. u # r.t /\ pending'[Conn(u)'] = pending[Conn(u)]
        BY <1>2, <1>5, <1>13, <3>2, ConnType DEF r
      <4> QED
        BY <1>1, <1>8, <3>1, <4>1 DEF Stored
    <3>3. CASE Conn(u) = c
      <4>1. PICK t \in Threads :
              /\ owner[c] = t /\ Conn(t) = c /\ worker[t].waiting
              /\ pending[c] = <<Request(t, worker[t])>> /\ answers[c] = <<>>
              /\ r = Request(t, worker[t])
        BY <1>12, <3>1, <3>3
      <4>2. r.t = t /\ r.op = worker[t].at /\ r.i = worker[t].round
        BY <4>1 DEF Request
      <4>3. CASE u = t
        BY <1>1, <1>8, <3>1, <4>2, <4>3 DEF Stored
      <4>4. CASE u # t
        <5>1. ~worker[u].waiting
          BY <3>3, <4>1, <4>4 DEF IInv, ExchangeOK
        <5> QED
          BY <1>1, <1>8, <3>1, <4>2, <4>4, <5>1 DEF Stored
      <4> QED
        BY <4>3, <4>4
    <3> QED
      BY <3>2, <3>3
  <2> QED
    BY <2>1 DEF MemOK
<1>18. MismatchOK'
  BY <1>1, <1>2, <1>11, ConnType DEF IInv, MismatchOK
<1> QED
  BY <1>2, <1>9, <1>10, <1>14, <1>16, <1>17, <1>18 DEF IInv

\* Every step preserves it.
LEMMA StepInv == IInv /\ [Next]_vars => IInv'
<1> SUFFICES ASSUME IInv, [Next]_vars
             PROVE  IInv'
  OBVIOUS
<1>1. CASE Next
  BY <1>1, MainInv, SendInv, NotSentInv, ReceiveInv, TimeoutInv, PlcExecuteInv DEF Next
<1>2. CASE UNCHANGED vars
  <2>1. UNCHANGED main_vars /\ UNCHANGED test /\ UNCHANGED workers_vars
    BY <1>2 DEF vars, main_vars, workers_vars
  <2>2. MainOK' /\ ResultOK'
    BY <2>1, MainIdle
  <2>3. CountOK' /\ ExchangeOK' /\ OriginOK' /\ MemOK' /\ MismatchOK'
    BY <2>1, WorkersIdle
  <2>4. TypeOK' /\ StartOK'
    BY <1>2 DEF vars, IInv, TypeOK, StartOK
  <2> QED
    BY <2>2, <2>3, <2>4 DEF IInv
<1> QED
  BY <1>1, <1>2

-----------------------------------------------------------------------------
(* The theorems. *)

\* The variables keep their types.
THEOREM TypeCorrect == Spec => []TypeOK
<1>1. IInv => TypeOK
  BY DEF IInv
<1> QED
  BY <1>1, InitInv, StepInv, PTL DEF Spec

\* However many threads there are and however few of them could be created, none
\* runs without its counters and its connection.
THEOREM ThreadsAreKept == Spec => []RunningThreadsAreKept
<1>1. IInv => RunningThreadsAreKept
  <2>1. "args" \in Blocks /\ \A t \in Threads : Conn(t) \in TestConns
    BY ConnType DEF Blocks, TestConns, Conn
  <2> QED
    BY <2>1 DEF IInv, StartOK, MainOK, RunningThreadsAreKept
<1> QED
  BY <1>1, InitInv, StepInv, PTL DEF Spec

\* Wherever a test fails, main frees what it has allocated and closes what it has
\* opened.
THEOREM NothingStaysOpen == Spec => []NothingLeftOpen
<1>1. IInv => NothingLeftOpen
  BY DEF IInv, MainOK, NothingLeftOpen
<1> QED
  BY <1>1, InitInv, StepInv, PTL DEF Spec

\* A thread that reads another value than it wrote shares its connection with a
\* call that has failed: threads with registers of their own do not disturb each
\* other, whatever their number, on one connection or on several.
THEOREM MismatchNeedsError == Spec => []MismatchMeansError
<1>1. IInv => MismatchMeansError
  <2> SUFFICES ASSUME IInv, NEW t \in Threads, stats[t].mismatches > 0
               PROVE  \E u \in Threads : Conn(u) = Conn(t) /\ stats[u].io_errors > 0
    BY DEF MismatchMeansError
  <2>1. ~Clean(Conn(t))
    BY DEF IInv, MismatchOK
  <2>2. PICK u \in Threads : Conn(u) = Conn(t) /\ stats[u].io_errors # 0
    BY <2>1 DEF Clean
  <2>3. stats[u].io_errors \in Nat
    BY DEF IInv, TypeOK, Stats
  <2> QED
    BY <2>2, <2>3
<1> QED
  BY <1>1, InitInv, StepInv, PTL DEF Spec

\* The counters of a thread that has done its rounds add up, for any number of
\* rounds and errors.
THEOREM CountersAreRight == Spec => []CountersAddUp
<1>1. IInv => CountersAddUp
  <2> SUFFICES ASSUME IInv, NEW t \in Threads, worker[t].at = "done"
               PROVE  LET s == stats[t]
                      IN  /\ s.io_errors <= Iterations
                          /\ s.api_calls \in 4 * Iterations - 3 * s.io_errors .. 4 * Iterations
                          /\ s.api_calls - 2 * s.checks \in s.io_errors .. 2 * s.io_errors
                          /\ s.mismatches <= s.checks
    BY DEF CountersAddUp
  <2>1. /\ Counted(stats[t], worker[t]) /\ Made(worker[t].at) = 0
        /\ Unchecked(worker[t].at) = 0
    BY DEF IInv, CountOK, Made, Unchecked
  <2>2. stats[t] \in Stats
    BY DEF IInv, TypeOK
  <2> QED
    BY <2>1, <2>2, StressAssumption DEF Counted, Stats
<1> QED
  BY <1>1, InitInv, StepInv, PTL DEF Spec

\* main returns 0 exactly if every thread of both tests has done every round.
THEOREM ZeroIsComplete == Spec => []ZeroMeansAllRan
<1>1. IInv => ZeroMeansAllRan
  BY DEF IInv, TypeOK, ResultOK, ZeroMeansAllRan, Tests
<1> QED
  BY <1>1, InitInv, StepInv, PTL DEF Spec
================================================================================
