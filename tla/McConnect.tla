------------------------------ MODULE McConnect ------------------------------
(***************************************************************************)
(* What every connection shares: g_connection_mutex, initialised by the    *)
(* first mc_connect and by the first mc_ascii_connect, and the network     *)
(* address of each protocol, which mc_connect sets and every command is    *)
(* packed with.                                                            *)
(*                                                                         *)
(*   mc_connect 189-220, mc_remote_stop 600-612, the packing of the other  *)
(*   commands (279-281 and alike)             melsec_mc_bin.c              *)
(*   mc_ascii_connect 840-860                 melsec_mc_ascii.c            *)
(*   mc_thread_safe_init, the mutex wrappers  thread_safe.c                *)
(*                                                                         *)
(* The mutex is the lock word of a pthread mutex: initialising it clears   *)
(* the word, whoever holds or waits for it, and an unlock clears it too.   *)
(***************************************************************************)
EXTENDS Integers, Sequences, FiniteSets

CONSTANTS Threads,
          Connectors,  \* threads that connect; the others only send commands
          Protocols,   \* those in use, of "bin" and "ascii"
          Addresses,   \* (network, station) pairs given to connect
          MaxConns,    \* bound: connections opened
          NoAddress    \* the zero the globals start with

ASSUME ConnectAssumption ==
  /\ Connectors \subseteq Threads
  /\ Protocols \subseteq {"bin", "ascii"}
  /\ MaxConns \in Nat
  /\ NoAddress \notin Addresses

VARIABLES
  initialized, \* initialized[p]: p's static thread_safe_initialized
  locked,      \* the lock word of g_connection_mutex
  asleep,      \* threads whose wait for the mutex a later init has forgotten
  inside,      \* threads between a lock of the mutex and its unlock
  network,     \* network[p]: network_number of p's global address, named
  station,     \* station[p]: and its station_number, by the pair it is of
  conns,       \* conns[c]: protocol and address connection c was opened with
  pc,
  call,        \* call[t]: protocol and address of the connect t is in
  frame        \* frame[t]: the command t packs or has packed last

vars == <<initialized, locked, asleep, inside, network, station, conns, pc, call, frame>>

Locations ==
  { "idle", "check", "init", "set_flag", "lock", "set_network", "set_station",
    "unlock", "open",
    "pack_lock", "pack_network", "pack_station", "pack_unlock" }

Given == [proto : Protocols, address : Addresses]
NoFrame == [conn |-> 0, locked |-> FALSE, network |-> NoAddress, station |-> NoAddress]
Frames == [conn : 0 .. MaxConns, locked : BOOLEAN,
           network : Addresses \cup {NoAddress}, station : Addresses \cup {NoAddress}]

TypeOK ==
  /\ initialized \in [Protocols -> BOOLEAN]
  /\ locked \in BOOLEAN
  /\ asleep \subseteq Threads
  /\ inside \subseteq Threads
  /\ network \in [Protocols -> Addresses \cup {NoAddress}]
  /\ station \in [Protocols -> Addresses \cup {NoAddress}]
  /\ conns \in Seq(Given) /\ Len(conns) <= MaxConns
  /\ pc \in [Threads -> Locations]
  /\ DOMAIN call \subseteq Threads /\ \A t \in DOMAIN call : call[t] \in Given
  /\ frame \in [Threads -> Frames]

Init ==
  /\ initialized = [p \in Protocols |-> FALSE]
  /\ locked = FALSE
  /\ asleep = {}
  /\ inside = {}
  /\ network = [p \in Protocols |-> NoAddress]
  /\ station = [p \in Protocols |-> NoAddress]
  /\ conns = <<>>
  /\ pc = [t \in Threads |-> "idle"]
  /\ call = [t \in {} |-> {}]
  /\ frame = [t \in Threads |-> NoFrame]

Goto(t, from, to) == pc[t] = from /\ pc' = [pc EXCEPT ![t] = to]

-----------------------------------------------------------------------------
(* The mutex. *)

Lock(t) ==
  /\ ~locked /\ t \notin asleep
  /\ locked' = TRUE
  /\ inside' = inside \cup {t}

Unlock(t) ==
  /\ locked' = FALSE
  /\ inside' = inside \ {t}

Waiting == {t \in Threads : locked /\ pc[t] \in {"lock", "pack_lock"}}

-----------------------------------------------------------------------------
(* mc_connect and mc_ascii_connect. *)

Connect(t, p, a) ==
  /\ t \in Connectors
  /\ Len(conns) < MaxConns
  /\ Goto(t, "idle", "check")
  /\ call' = [u \in DOMAIN call \cup {t} |->
                IF u = t THEN [proto |-> p, address |-> a] ELSE call[u]]
  /\ UNCHANGED <<initialized, locked, asleep, inside, network, station, conns, frame>>

CheckFlag(t) ==
  /\ Goto(t, "check", IF initialized[call[t].proto] THEN "lock" ELSE "init")
  /\ UNCHANGED <<initialized, locked, asleep, inside, network, station, conns, call, frame>>

\* mc_thread_safe_init: pthread_mutex_init on a mutex that may be in use.  The
\* lock word is cleared; threads that sleep on it may never be woken.
InitMutex(t) ==
  /\ Goto(t, "init", "set_flag")
  /\ locked' = FALSE
  /\ \E s \in SUBSET Waiting : asleep' = asleep \cup s
  /\ UNCHANGED <<initialized, inside, network, station, conns, call, frame>>

\* mc_thread_safe_init fails and -1 is returned.
InitMutexFails(t) ==
  /\ Goto(t, "init", "idle")
  /\ UNCHANGED <<initialized, locked, asleep, inside, network, station, conns, call, frame>>

\* Mutated form: thread_safe_initialized = true is missing.
SetFlagForgotten(t) ==
  /\ Goto(t, "set_flag", "lock")
  /\ UNCHANGED <<initialized, locked, asleep, inside, network, station, conns, call, frame>>

SetFlag(t) ==
  /\ Goto(t, "set_flag", "lock")
  /\ initialized' = [initialized EXCEPT ![call[t].proto] = TRUE]
  /\ UNCHANGED <<locked, asleep, inside, network, station, conns, call, frame>>

\* Mutated form: the address is set without the mutex.
LockAddressSkipped(t) ==
  /\ Goto(t, "lock", "set_network")
  /\ UNCHANGED <<initialized, locked, asleep, inside, network, station, conns, call, frame>>

LockAddress(t) ==
  /\ Goto(t, "lock", "set_network")
  /\ Lock(t)
  /\ UNCHANGED <<initialized, asleep, network, station, conns, call, frame>>

SetNetwork(t) ==
  /\ Goto(t, "set_network", "set_station")
  /\ network' = [network EXCEPT ![call[t].proto] = call[t].address]
  /\ UNCHANGED <<initialized, locked, asleep, inside, station, conns, call, frame>>

SetStation(t) ==
  /\ Goto(t, "set_station", "unlock")
  /\ station' = [station EXCEPT ![call[t].proto] = call[t].address]
  /\ UNCHANGED <<initialized, locked, asleep, inside, network, conns, call, frame>>

UnlockAddress(t) ==
  /\ Goto(t, "unlock", "open")
  /\ Unlock(t)
  /\ UNCHANGED <<initialized, asleep, network, station, conns, call, frame>>

\* Mutated form: a connect that fails is taken for a connection.
OpenUnchecked(t) ==
  /\ Goto(t, "open", "idle")
  /\ Len(conns) < MaxConns
  /\ \/ conns' = Append(conns, call[t])
     \/ conns' = Append(conns, [call[t] EXCEPT !.address = NoAddress])
  /\ UNCHANGED <<initialized, locked, asleep, inside, network, station, call, frame>>

\* The socket is opened after the address was set; if that fails, -1 is
\* returned and the address stays set.
Open(t) ==
  /\ Goto(t, "open", "idle")
  /\ \/ conns' = Append(conns, call[t]) /\ Len(conns) < MaxConns
     \/ UNCHANGED conns
  /\ UNCHANGED <<initialized, locked, asleep, inside, network, station, call, frame>>

-----------------------------------------------------------------------------
(* Packing a command for connection c. *)

NewFrame(t, c, underLock) ==
  frame' = [frame EXCEPT ![t] = [NoFrame EXCEPT !.conn = c, !.locked = underLock]]

Command(t, c) ==
  /\ Goto(t, "idle", "pack_lock")
  /\ NewFrame(t, c, TRUE)
  /\ UNCHANGED <<initialized, locked, asleep, inside, network, station, conns, call>>

\* mc_remote_stop packs its command without the mutex.
RemoteStop(t, c) ==
  /\ conns[c].proto = "bin"
  /\ Goto(t, "idle", "pack_network")
  /\ NewFrame(t, c, FALSE)
  /\ UNCHANGED <<initialized, locked, asleep, inside, network, station, conns, call>>

PackLock(t) ==
  /\ Goto(t, "pack_lock", "pack_network")
  /\ Lock(t)
  /\ UNCHANGED <<initialized, asleep, network, station, conns, call, frame>>

\* The two fields are read one after the other.
PackNetwork(t) ==
  /\ Goto(t, "pack_network", "pack_station")
  /\ frame' = [frame EXCEPT ![t].network = network[conns[frame[t].conn].proto]]
  /\ UNCHANGED <<initialized, locked, asleep, inside, network, station, conns, call>>

PackStation(t) ==
  /\ Goto(t, "pack_station", IF frame[t].locked THEN "pack_unlock" ELSE "idle")
  /\ frame' = [frame EXCEPT ![t].station = station[conns[frame[t].conn].proto]]
  /\ UNCHANGED <<initialized, locked, asleep, inside, network, station, conns, call>>

PackUnlock(t) ==
  /\ Goto(t, "pack_unlock", "idle")
  /\ Unlock(t)
  /\ UNCHANGED <<initialized, asleep, network, station, conns, call, frame>>

Next ==
  \E t \in Threads :
    \/ \E p \in Protocols, a \in Addresses : Connect(t, p, a)
    \/ CheckFlag(t) \/ InitMutex(t) \/ InitMutexFails(t) \/ SetFlag(t)
    \/ LockAddress(t) \/ SetNetwork(t) \/ SetStation(t) \/ UnlockAddress(t) \/ Open(t)
    \/ \E c \in 1 .. Len(conns) : Command(t, c) \/ RemoteStop(t, c)
    \/ PackLock(t) \/ PackNetwork(t) \/ PackStation(t) \/ PackUnlock(t)

Spec == Init /\ [][Next]_vars

-----------------------------------------------------------------------------
(* Properties. *)

\* g_connection_mutex excludes (thread_safe.h:35 "used to protect
\* connection-related operations"; melsec_mc_bin.c:196 initialises it "if not
\* already initialized"): at most one thread is between its lock and unlock.
MutexExclusive == Cardinality(inside) <= 1

Packed(t) == frame[t].conn # 0 /\ pc[t] \in {"idle", "pack_unlock"}
Whole(t) == frame[t].network = frame[t].station /\ frame[t].network # NoAddress

\* A command packed under the mutex carries a network and a station number that
\* one connect has set together, whatever connects run at the same time.
LockedCommandsWhole ==
  \A t \in Threads : Packed(t) /\ frame[t].locked => Whole(t)
=============================================================================
