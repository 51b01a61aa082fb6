# Verification of melsec_mc_net

`melsec_mc_net` is a C library that talks MC protocol (3E frames, binary and
ASCII) to Mitsubishi PLCs over TCP. Several threads may share connections; a
request and its response are one transaction. These modules model the library
as its source has it (`src/melsec_mc_net`), check the models with TLC and prove
the central facts with TLAPS.

## The system

| Part | Source | State | Operations | What makes it correct |
| --- | --- | --- | --- | --- |
| transaction locks | `melsec_mc_bin.c` 30-105, `melsec_mc_ascii.c` 35-110 | `g_tx_connection_locks[64]`: descriptor, in_use, mutex | `mc_lock_fd_transaction`, `mc_unlock_fd_transaction` | one mutex per descriptor, whoever looks it up first; exclusive exchanges; an unlock finds its own mutex |
| transactions | `melsec_mc_bin.c` 107-178, 898-964; `melsec_helper.c` 520-541; `socket.c` 39-82 | the bytes in both directions of a connection, the loop counters | `mc_send_and_receive_transaction` and what it calls | the response belongs to the request; retries never repeat what was carried out; a failure tells what happened; every call returns |
| connecting | `melsec_mc_bin.c` 180-244, `melsec_mc_ascii.c` 840-872, `thread_safe.c` | `g_connection_mutex`, the two `thread_safe_initialized` flags, one network address per protocol | `mc_connect`, `mc_disconnect` and the ASCII twins | the mutex excludes; a command carries one whole address, its connection's |
| connection configurations | `socket.c` 16-37, 84-354 | `connection_configs[32]` | open, close, set, get | a connection has its own configuration, a closed one has none |
| typed calls, remote control | `melsec_mc_bin.c` 246-800, 968-1299; `melsec_mc_ascii.c` 630-838, 874-1246; `melsec_mc_bin_batch.c` | the buffers of one call | `mc_read_*`, `mc_write_*`, remote control | buffers released once, results tell the truth |
| frame codec | `melsec_helper.c` 15-517, `melsec_mc_bin.c` 802-896, `melsec_mc_ascii.c` 112-590, `melsec_mc_comm.c`, `utill.c` | none | build, pack, parse | what is written is what is read, at the address asked for |
| error table and log, `network_init.c` | | none the library reads back | | |
| stress test | `main.c` | what it has allocated and opened; rounds and counters of each thread | connects, starts workers that write and read back, waits, sums up | no thread outlives its connection; a mismatch has a cause; counters and result tell the truth; it ends |

The parts interact by calls and by shared memory. A typed call packs its command
under `g_connection_mutex` (the address), then runs a transaction: table of
locks under `g_connection_mutex`, the descriptor's mutex, one or more sends
each under `g_connection_mutex` again, blocking receives, and the table once
more to unlock. `mc_connect` and `mc_disconnect` take `g_connection_mutex`, never
a transaction mutex, so that a connection can be closed, and its descriptor
given out again, while a transaction uses it.

What is hard: threads that meet in the lock table, in the configuration table
and in the lazy initialisation; descriptors that are given out again; sends and
receives that stop part way; responses that arrive late; two loops of retries
around the send; blocking calls under a global lock; buffers that change hands
between functions, any of which may fail; a program that stops half way through
starting its threads.


## The modules

| Module | Models | Uses |
| --- | --- | --- |
| `FdLock` | what the lock functions promise: one owner per descriptor | |
| `TxLock` | `g_tx_connection_locks` and its three functions, statement by statement | `FdLock` (refined) |
| `TxLock_proofs` | theorems about `TxLock` | `TxLock`, TLAPS |
| `McTransaction` | transactions, connects and disconnects over byte streams, and a PLC | extends `TxLock` |
| `McTransaction_proofs` | `McTransaction` uses the lock table as `TxLock` says; its types; retries never repeat a request | `McTransaction`, `TxLock_proofs` |
| `McTransaction_reply_proofs` | answers are one's own, streams clean, frames whole, results true | `McTransaction_proofs` |
| `McConnect` | initialisation of `g_connection_mutex`, the shared network addresses, packing | |
| `ConnConfig` | the table of connection configurations | |
| `ConnConfig_proofs` | theorems about `ConnConfig` with one thread | `ConnConfig` |
| `DeviceMemory` | what reads and writes promise: one value per device | |
| `McFrame` | from the arguments of a call to its frame, from a response to values | `DeviceMemory` (refined) |
| `McFrame_proofs` | the codec keeps its types, legal calls succeed, calls implement `DeviceMemory` | `McFrame` |
| `McConnect_proofs` | theorems about `McConnect` with one library and one thread that connects | `McConnect` |
| `McCall` | one call from its argument checks to its result, and its buffers | |
| `McCall_proofs` | theorems about `McCall` | `McCall` |
| `Stress` | `main.c` as a client of the library | |
| `Stress_proofs` | theorems about `Stress` | `Stress` |
| `MCTxLock`, `MCTransaction`, `MCConnect`, `MCConnConfig`, `MCFrame`, `MCCall`, `MCStress` | small instances | |

**TxLock.** `pc[t]` is the statement thread t is at; `slots[s]` is the
descriptor of slot s (`NoFd`: `in_use` is false); `tx[t]` is the local
`tx_mutex`; `gOwner` and `txOwner[s]` are the mutexes. `SearchSlot` and
`ClaimSlot` are the two loops of `mc_get_or_create_fd_tx_mutex_locked`,
`ClaimFails` its NULL; `LockTable`, `UnlockTable`, `LockTx`, `FindSlot` and
`UnlockTx` are the calls around them. `LockWrite` and `UnlockWrite` are the lock
`mc_write_msg` takes while the transaction runs, since it is the same mutex.

**McTransaction.** At location "held" of `TxLock`, `step[t]` says where the
exchange is. `i` and `retry_times` are the counters of the two nested loops
(`WriteRetry` leaves or repeats them as the code does), `sent` counts the chunks
`mc_write_msg` has written, `conn[f]` is the connection a descriptor names now.
Bytes are cut to the grain at which the code can lose its place: a request is
two chunks, a response a header and a payload. `StartWrite`, `SendChunk`,
`SendFails` and `WriteDone` are `mc_write_msg`; `EnterRecv`, `ReadHeader`,
`ReadPayload` and `ReadFails` are `mc_recv_exact` and `mc_read_response`, which
keep the connection a blocked `recv` waits on even if the descriptor is closed;
`StartConnect`, `OpenSocket` and `Disconnect` are `mc_connect` and `mc_disconnect`.
The PLC cuts the stream into frames by their declared length, in order: a whole
frame it carries out and answers in one or two parts, late or never
(`PlcTakeWhole`). A 3E frame has no checksum, and a send that stopped part way is
tried again on the same connection: what follows then fills the cut frame up, and the PLC
may carry out something nobody asked for, and answer it, or not (`PlcTakeCut`; such
an answer is to `NoRequest`). It closes when it likes. `executed`, `mangled` (requests
of which bytes were taken in another frame), `fault` and `touched` are history.

**McConnect.** The mutex is the lock word (`locked`) that `pthread_mutex_init`
overwrites, so that a second initialisation frees it while a thread is inside
(`inside`), and forgets the threads that wait (`asleep`).
Each library has its flag and its address. A command records the two numbers it
was packed with. `RemoteStop` goes to the packing without
the lock, as `mc_remote_stop` does.

**ConnConfig.** An entry's three fields are written by three steps (`WriteFd`,
`WriteConfig`, `WriteInUse`), the search is one step, and so are `Clear` and
`Copy`; a thread opens, sets, gets and closes, and a connection that cannot be made
is closed again at once. `saved[f]` remembers the configuration last stored for f.

**McFrame.** `Analysis` is `mc_analysis_address`, `Number` its `strtol`; `Pack`
builds the frame from the helpers named after what they do (`PackBools`,
`SwapWords`, `ToHex`, `AsciiStart`, `LengthField`); `Values` is what a typed call
makes of the response. `Begin` runs a call up to its frame, `Exchange` is the PLC
and the return. The `Plc...` operators read frames as the protocol has them, not
as the library writes them: `PlcAccepts` cuts the stream by the length field, which
counts less than was sent when the length has wrapped. The shifts of `utill.c` are written out (`Shifts`,
`FromBytes`), and batches are functions of the index instead of loops, so that all
of it is in the provers' reach. `InRange` says which numbers a type has: the top byte,
after the other ones are shifted out, is one of the sign's or of an unsigned
byte. `ItemsOf` holds such numbers only, and `TypeOK` says that reads give no
others; a device number is an `int` (`MaxInt`), which is where `%06u` and its six
characters end.

**McCall.** `stage` is what the call does next: input buffer, address, core command,
pack, exchange, parse, unpack, copy; each stage has its `malloc`s, and each may
fail. `heap[b]` says whether buffer b was never allocated ("null"), is "live",
"free" or was released "twice" (`RELEASE_DATA` does not clear its pointer). The
two libraries differ in what they release on the way out of an error (`MakeInput`,
`ParseAddress`, `BuildCore`, `ParseBin` and `ParseAscii`, `CopyString`), and the
binary one in `PayloadLost`. A process that dies on a NULL it did not look for is at
"crashed". The transaction is one step with the results `McTransaction` gives
it (`NotSent`, `NoResponse`, `PayloadLost`, `Response`), also the misleading ones: a
send that fails after a part of the request is out ("cut"; the PLC may have filled it
up and carried it out), and a response that answers another frame ("foreign", as in
`tx_late`; it says nothing of this command).

**Stress.** `step` is where the main thread is, `heap` and `conns` what it
has allocated and opened; `worker[t]` is the call thread t makes and its round,
`stats[t]` its counters in `args`. A call holds its descriptor's lock (`owner`, as
in `FdLock`) from `Send` to `Receive` or `Timeout`; the PLC (`PlcExecute`) takes
requests in order and may be late, so that an answer waits on the connection
for the next caller. A number is the two words of `Written`; their XOR is the
constant `BitXor`, which the run gives the community module's and the proofs leave open.
`Value` is what a read makes of the answer to another call; a bool takes the first
digit (ASCII) or bit 4 of the first byte (binary) of it (`FirstBit`). A test closes the
connections and frees the blocks it knows of (`TestConns`, `Blocks`), not whatever is
there. The PLC's registers are set back between the tests, which use others.

## Runs

| Run | Instance | Shows |
| --- | --- | --- |
| `lock_races` | 3 threads, 3 descriptors, 2 slots | no two slots for one descriptor, exclusion, unlocks find their own mutex, refinement of `FdLock`; the table can be full |
| `tx_reuse` | 2 threads, 2 descriptors, 2 connections, 1 slot | own responses, clean streams between exchanges, frames uncut while a descriptor is closed and given out again; a full table of locks; lock order of `TxLock` |
| `tx_retry` | 2 threads, 1 descriptor, 2 x 2 attempts, fair | at most one execution; a call refused for want of a lock has no effect, one that could not send is not carried out as issued, and not in parts unless a send stopped part way; a success without fault was carried out; every call returns |
| `tx_late` | 2 threads, 1 attempt | violation: the late response of one thread is given to another |
| `connect_serial` | 3 threads, 1 protocol, 2 addresses | the mutex excludes, commands packed under it carry one address |
| `connect_both` | both protocols | violation: the mutex is initialised while held |
| `config_serial` | 1 thread, 3 descriptors, 2 entries | what is got is what was set; closed descriptors leave no entry; full tables and failed options |
| `config_races` | 2 threads | violation: two threads take one entry |
| `frame_calls` | both protocols, 1 bit device, 4 registers, an unknown device | refinement of `DeviceMemory`; legal calls succeed |
| `frame_bools` | 2 bools | violation: the second is written as 0 |
| `call` | both libraries, 1 and 3 items, responses of 0 to 6 bytes | which buffers are released, twice or never; what the caller's variable holds; what the result says of the PLC, and where it misleads (requests sent in part, foreign responses) |
| `stress` | 2 threads, 2 rounds, ASCII, fair | threads keep their connection and counters, nothing stays open, mismatches have a cause, counters and result are right, the program ends |

Why the bounds are enough to be interesting. Two threads and one descriptor are
what every race on a descriptor needs; a third thread and descriptor let the
table fill up while two others meet in it. One transaction per thread means that
a response can be late for another thread; two connections are needed, and
enough, for a descriptor to be given out again under a transaction that uses
it. Two rounds of two attempts pass through every exit of both loops
(the code has 4 and 3). `MaxTx` is 1 or 2 where the code has 64, so that the
table is full after one or two. A table of two configurations and three
descriptors is full in the same way. In `frame_calls` a nibble has one bit instead
of four (`Nibble` = 2): an item of 64 bits is then sixteen bits and every overlap
of items of one, two and four words can be explored; bases, field widths and
the algorithms are those of the code. Batches there have one or three items: for
two bools the code is wrong, which `frame_bools` shows with full-size nibbles.
In `call`, one item is what the single calls ask for and three what a batch asks
for; the lengths of responses are below, at and above both in bytes and, for bools,
after unpacking. `stress` has two threads, which share a connection in the first
test and not in the second, and two rounds, so that a late answer of one round
reaches the next; its proofs drop the bounds on threads and rounds.

Threads are interchangeable, and `tx_reuse` uses that symmetry. Only `stress`
disables the deadlock check, because `main` returns; that it does not stop before
is its property `Terminates`. In `McTransaction` a stuttering step, `Done`, allows
the program to stop, but only with nobody inside a call.

### Fairness

`tx_retry` assumes weak fairness of each thread's steps inside a
call (`Proceed`). The code justifies it: the scheduler runs every thread, `send`
and `recv` have timeouts (`SO_SNDTIMEO`, `SO_RCVTIMEO`, set by
`mc_open_tcp_client_socket_with_config2`; a configuration with a timeout of 0, and
a failing `setsockopt`, which is only logged, are excluded), so that their failing
step is always enabled, and a mutex that stays free is obtained. Weak fairness of the
locks suffices in the instance since the number of calls is bounded; with
endless calls on one descriptor a thread could wait for ever, as
`pthread_mutex_lock` promises no order. Nothing is assumed of the PLC.

`stress` assumes only that the program as a whole does not stop while a step
is possible (weak fairness of `Next`): each thread makes a bounded number of calls, so
every behaviour that goes on ends, whoever is scheduled. A call in it ends by
`Timeout`, with the justification above.

## Proofs

All theorems hold for any number of threads, descriptors, slots, calls,
connections, retries, items and bytes, from the named assumptions of the
modules (the counts are natural numbers, the null values are no thread,
descriptor or request); those about `McConnect` and `ConnConfig` have the
further hypotheses named below.

*The lock table* (`TxLock_proofs`). `OneSlotPerFd`, `ExchangeExclusion` and
`UnlocksOwnMutex` are not inductive: a thread that has searched the table may not
have claimed yet, and one that has its slot holds no lock on the table. `IInv`
adds what makes them so: `TableGuarded` (whoever is between search and unlock owns
`g_connection_mutex`), `ClaimIsFresh` (about to claim, the descriptor still has no
slot), `PointerIsValid` (`tx[t]` is the slot of `fd[t]`; slots are never given back),
`HolderOwns` (in the exchange, t owns the mutex of its slot) and `FdIsKnown`
(hence the second search succeeds). `InitIInv` and `NextIInv` prove it inductive, one
step per action. `Refinement` maps the table to `FdLock`: a descriptor's owner is
the thread in its exchange. `LockTx` and the unlock are the steps of `FdLock`, all
others stutter.

*Transactions* (`McTransaction_proofs`). `StepImplements` shows that every step of
`McTransaction` is a step of `TxLock` or leaves its variables alone, so that
`UsesTxLock` carries all theorems over, exclusion first (`TransactionsExclude`).
`TypeInv` is `TypeOK` with `FlowOK`: a thread in a call has begun it, inside its
exchange it is at "held", it writes at most two chunks and it reads from a connection.
`McTypeCorrect` follows from `NextTypeInv`, which uses `IInv` for the owner of the lock.

*Retries* (also `McTransaction_proofs`). `AtMostOnce` needs to know where the last
chunk of a request's frame is, since the PLC carries a request out when it takes
that chunk behind the first one. `TailsOK` says that there is at most one on all
connections, that while there is one the request has not been carried out, and that
there is none, in the past either, as long as the call has not written its frame as
a whole (`Unsent`), which a call that has failed to send never will. `RetOK`
follows `ret` from "none" to its result. `UnlockFinds`, from the lock table's invariant,
shows that no success is turned into `FAILED` by the unlock.

*Replies* (`McTransaction_reply_proofs`). That the next bytes on a connection are the
answer to one's own request depends on everything before them, so the invariant
`RInv` says what can be on its way on each connection without fault, in both
directions. `Talk` lists it by the step of the exchange that uses the connection:
nothing before the send, then a part of the frame, then the frame or its whole
answer (`Asked`, `Answered`), then what follows the header (`PayloadLeft`), and nothing
at the end; without an exchange nothing (`StreamOK`). `ConnOK` makes "the
exchange that uses it" unique: an exchange waits on the connection it
has looked up, even if its descriptor is closed and given to a new one, but connection
numbers are never used again, and nobody closes while a frame is written, since both
hold `g_connection_mutex`. `FramesOK` adds to `FramesUncut` that the second chunk finds
the first one in front of it, and `ReplyOK` that a header read without fault was
one's own and the request carried out. `StepOfOne` and `PlcStep` say what a step of one
thread, and of the PLC, has to leave alone; `NextReply` has one lemma per action on
top of them. The first three theorems are consequences. `ResultIsTrue` also needs
`FailedNotExecuted`, from the invariant of the retries, and `CutInv`: the bytes on
their way, and the requests of which the PLC took bytes in another frame, are of calls
that were made (`ChunksKnown`, `PartsKnown`), the last call of a thread has touched the
connections they are on and, for the second, met a fault there; a call touches connections
inside its exchange only (`Touches`). What a cut frame is carried out as is not
said, since it may be anything: a failed send is not harmless.

*Connecting* (`McConnect_proofs`). `connect_both` shows that the mutex does not
exclude when two libraries are in use, and with two threads in their first
connect it would not either: the theorems have the hypotheses `Protocols = {q}` and
`Connectors = {m}`. Then the invariant is that whoever is inside is the only one
and the mutex is locked, nobody is inside or waits before the mutex is ready, only
m is at the initialisation, and the two halves of the address differ only while
m is between writing them, inside the mutex.

*Configurations* (`ConnConfig_proofs`). No lock protects the table, and
`config_races` shows two threads taking each other's entries: the hypothesis is
`Threads = {m}`. `WorkOK` is what m still knows, when it writes, of the entry its
search has found (a new one is nobody's until `in_use` is set); `SavedOK` says
that an entry holds what was stored for its connection and that a connection
without an entry has the default. `EntriesAreOpen` and `GetsWhatItSet` follow for a
table of any size, full or not.

*Calls* (`McCall_proofs`). The inductive invariant says, for each stage, which
buffers can be live, free or never allocated there, with what has gone wrong
so far; the lemmas on `Alloc` and `Release` say what each does to a heap.
The five properties are its consequences when the call has returned.

*The codec* (`McFrame_proofs`). The bottom is arithmetic: `DivMod` (quotient and
remainder are unique) and `PairOfDigits` (two digits of a base are one of its
square), for nibbles and bytes as for bytes and words. `WordsBack` and `TopByte` say
what number bytes make: its words are theirs, and it is in its type's range. On
these rest the lemmas on data: `WriteWords` and `WriteBits` (what the PLC reads in
the data of a request is what `CellValues` says of the values, in both
protocols; for bools in binary frames only if there are one or three), `ReadBin`,
`ReadAscii` and `ReadBits` (the way back), `HexBack`, `SwapPairs`,
`AsciiNumber` and `BinNumber` (numbers of six digits survive their field), `Wrap` and
`ShortResponse` (what happens when the number of points does not fit).
`IInv` says that the frame is the packed request, that bit devices hold bits and
the others words, that values are of their type, and that only what the PLC does not
accept has failed; without the second part a read of bools could give other
numbers than 0 and 1. `TypeCorrect`, `LegalCalls` and `WrappedReads` are its
consequences.

`Refinement` maps a call to one on `DeviceMemory`: `Begin` asks, `Written` and
`ReadBack` answer, `Refused` fails. It has the hypothesis `[]WithinLimits` on what
callers ask for: device numbers of six digits, reads and writes whose points fit
their field, and binary writes of one or three bools. Each part is needed:
`frame_bools` is the counterexample without the last one, an ASCII number of seven
digits names another device, a wrapped read succeeds without values, and a wrapped
binary write of 65536 + k words is accepted as one of k words, with success.
`WritesNamed` says what is left without the limit on points (`PlainCalls`): a write of
any length changes no device its call does not name, and gives each it changes
the value the call has for it (`FirstDevices`). All requests of
`frame_calls` are within these limits, so that the hypothesis is satisfied there in
every state. What is written and read in `DeviceMemory` are words; `CellsTell`
closes the gap to values: two sequences of values of a type that fill the devices
alike are equal (`NumberBack`: every number of a type comes back from its
bytes), so that who reads what was written with the same type has the same values.

*The stress test* (`Stress_proofs`). `IInv` ties the main thread to its threads
(`MainOK`: what is allocated and open at each step; `StartOK`: who has been
started; `ResultOK`), a thread's counters to its round (`CountOK`), and for
`MismatchMeansError` follows every request from its sender to the answer: at most
one exchange is on its way on a connection as long as no call on it has failed
(`ExchangeOK`), requests name the thread and the round they come from (`OriginOK`),
and the registers of a thread hold what it has written, since no two threads
have one in common (`MemOK`, `MismatchOK`). They hold for any number of threads and
rounds; of `BitXor` they need only that the words are numbers (`XorAssumption`).

Only model-checked: `EveryCallReturns` and `Terminates`, since liveness is beyond the
prover. `WrappedReads` and `WritesNamed` have no run: in an instance where points
wrap, `ImplementsMemory` fails. What `Number` computes, a recursive function of the
digits, is taken from `AddressAssumption`, which TLC evaluates on the instances.

## Where code and documents differ

* `tx_late`: README.md:246 promises that serialising transactions prevents the
  interleaving of responses across threads. After a receive timeout the
  connection stays open, and its late response is the next caller's.
* `connect_both`: each library has its own static flag for the one
  `g_connection_mutex`; the first connect of the second library initialises it
  again, whoever holds it.
* `config_races`: `connection_configs` stores "configuration information for each
  connection" and is used without a lock.
* `frame_bools`: `trans_bool_array_to_byte_data` compares the index of the second
  bool of a pair with the number of bytes, (n + 1) / 2, where n bools are meant:
  the second bools of the later pairs are sent as 0. Of n = 2 it is the only
  pair's; n = 1 and n = 3 are right.

Also modelled, without a violated run of their own: `mc_remote_stop` can mix the
halves of two addresses, and a second connect changes the address that commands on
the first connection carry, which the manual (lines 26-29) lists as an attribute
of the connection (`McConnect`); a binary call whose payload is lost releases its
response twice, a refused binary read and a binary write to a bad address keep
their buffers, a read whose response is too short succeeds without a value, and
`mc_read_short` takes one byte for two, where the ASCII library neither releases
twice nor keeps a buffer after an error (`McCall`; the manual, line 22, calls the
two interfaces semantically alike); `main` returns 0 whatever its threads have counted
(`Stress`); an ASCII device number of more than six digits is cut to its first six; an address with unknown letters is not refused but sent with
device code 0; a length that wraps its two-byte field makes a batch read succeed
without giving values, and a binary batch write of 65536 + k words write the first k,
with success (`McFrame`); after `SOCKET_SEND_FAILED` the PLC may have carried out a frame
begun by one attempt and filled up by the next (`McTransaction`, `McCall`).

## Not modelled

* `retry_count` is taken to be a natural number (a negative one skips the send
  loop), and in `McTransaction` it is the same for every descriptor; the lookup
  of configurations is `ConnConfig`'s.
* An interrupted `recv` or `send` is tried again by the code and is a stutter;
  SIGPIPE, the Windows branches, logging and the error table are left out.
* `McConnect` does not close connections, `McTransaction` does.
* `McFrame` leaves out strings, signs and blanks in addresses, and word commands on
  bit devices. Batch calls of strings do not exist. A length that wraps is
  modelled and reached by no run, but by the theorems `WrappedReads` and
  `WritesNamed`; the bytes that stay in the stream behind a frame accepted as a shorter
  one are not followed.
* What a frame filled up with other bytes does to the PLC's memory is not modelled, only
  that it may do something and that its answer is no one's; such an answer is a header
  without payload.
* `McCall` has one call at a time, and the transaction as one step; buffers that a
  helper allocates and frees itself are left out, their failures are not.
* `Stress` takes the writes of registers from `Written`: in round 0 the
  bools and the first thread's number are 0, as in the program, so that a read that
  delivers nothing passes there. The throughput
  and the text of the summary are left out, and so are `run_ascii_api_smoke`,
  which nothing calls, and `ascii_ret`, which keeps its 0. From 2049 threads
  on `thread_id << 20` overflows an `int`, which C leaves undefined; the model keeps the
  low 32 bits.
* Errors and logging, network start-up (empty but on Windows), the build files.
* `mc_read_msg`, `tinet_ntoa`, `check_CRC` and the ASCII builders of
  `melsec_helper.c` that no typed call uses.

## Plan

Done, in this order: `TxLock` and its proofs (every transaction depends on
it), `McTransaction`, the transfer of the proofs, `McConnect`, `ConnConfig`,
`McFrame`, `McCall` and its proofs, the proofs of `McConnect`, `Stress` and its
proofs, the proof of `AtMostOnce`, the proofs of `ConnConfig`, the proofs about
replies, the proofs of `McFrame`.

Next:

1. A refinement of `DeviceMemory` by several callers, from `McTransaction`'s `OwnReply`
   and `McFrame`'s one caller.
2. Signs, blanks and 0x in device numbers and strings in `McFrame`.
3. Addresses and configurations in `McTransaction`: one retry count per
   descriptor, closes in `McConnect`.
