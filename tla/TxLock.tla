------------------------------- MODULE TxLock -------------------------------
(***************************************************************************)
(* The per-descriptor transaction locks: g_tx_connection_locks,            *)
(* mc_lock_fd_transaction and mc_unlock_fd_transaction of melsec_mc_bin.c  *)
(* (lines 30-105; melsec_mc_ascii.c:35-110 is the same code over a table   *)
(* of its own).                                                            *)
(*                                                                         *)
(* The table is protected by g_connection_mutex; each used slot holds the  *)
(* mutex of one descriptor.  A slot is claimed by the first transaction on *)
(* its descriptor and is never given back, not even by mc_disconnect.      *)
(* The search of the table and the claim of a slot are two steps, so that  *)
(* what keeps two threads from claiming two slots for one descriptor is    *)
(* the mutex and not the grain of the model.                               *)
(***************************************************************************)
EXTENDS Integers

CONSTANTS Threads,   \* callers of the library
          Fds,       \* positive descriptors (others are refused on entry)
          MaxTx,     \* MAX_TX_CONNECTIONS, 64 in the code
          NoThread,  \* no owner
          NoFd       \* no descriptor: a slot whose in_use is false

ASSUME TxAssumption ==
  /\ MaxTx \in Nat \ {0}
  /\ NoThread \notin Threads
  /\ NoFd \notin Fds

VARIABLES
  gOwner,   \* owner of g_connection_mutex
  slots,    \* slots[s]: the fd of an in_use slot of g_tx_connection_locks
  txOwner,  \* txOwner[s]: owner of the slot's tx_mutex
  pc,       \* pc[t]: where thread t is
  fd,       \* fd[t]: the argument of its transaction
  tx        \* tx[t]: its local tx_mutex: a slot, or 0 for NULL

txVars == <<gOwner, slots, txOwner, pc, fd, tx>>

Slots == 1 .. MaxTx
NULL == 0

\* Program points, each reached with the locals above.
Locations ==
  { "idle",       \* not in a transaction
    "lock_g",     \* mc_lock_fd_transaction, before mc_mutex_lock(&g)
    "search",     \* first loop of mc_get_or_create_fd_tx_mutex_locked
    "claim",      \* second loop
    "unlock_g",   \* before mc_mutex_unlock(&g)
    "lock_tx",    \* before mc_mutex_lock(tx_mutex)
    "held",       \* between lock and unlock: send and receive
    "lock_g2",    \* mc_unlock_fd_transaction, before mc_mutex_lock(&g)
    "find",       \* its loop
    "unlock_g2",  \* before mc_mutex_unlock(&g)
    "unlock_tx" } \* before mc_mutex_unlock(tx_mutex)

\* Points at which a thread owns the tx_mutex of its descriptor.
Holding == {"held", "lock_g2", "find", "unlock_g2", "unlock_tx"}

TxTypeOK ==
  /\ gOwner \in Threads \cup {NoThread}
  /\ slots \in [Slots -> Fds \cup {NoFd}]
  /\ txOwner \in [Slots -> Threads \cup {NoThread}]
  /\ pc \in [Threads -> Locations]
  /\ fd \in [Threads -> Fds \cup {NoFd}]
  /\ tx \in [Threads -> Slots \cup {NULL}]

TxInit ==
  /\ gOwner = NoThread
  /\ slots = [s \in Slots |-> NoFd]
  /\ txOwner = [s \in Slots |-> NoThread]
  /\ pc = [t \in Threads |-> "idle"]
  /\ fd = [t \in Threads |-> NoFd]
  /\ tx = [t \in Threads |-> NULL]

-----------------------------------------------------------------------------
Goto(t, from, to) == pc[t] = from /\ pc' = [pc EXCEPT ![t] = to]

SlotsOf(f) == {s \in Slots : slots[s] = f}

\* Mutated form: the index past the table is returned for "none".
FirstSlotPastEnd(f) ==
  IF SlotsOf(f) = {} THEN MaxTx + 1
  ELSE CHOOSE s \in SlotsOf(f) : \A r \in SlotsOf(f) : s <= r

\* The index a search for f from slot 1 upwards stops at, NULL for none.
FirstSlot(f) ==
  IF SlotsOf(f) = {} THEN NULL
  ELSE CHOOSE s \in SlotsOf(f) : \A r \in SlotsOf(f) : s <= r

\* mc_send_and_receive_transaction passes its checks and asks for the lock.
Begin(t, f) ==
  /\ Goto(t, "idle", "lock_g")
  /\ fd' = [fd EXCEPT ![t] = f]
  /\ tx' = [tx EXCEPT ![t] = NULL]
  /\ UNCHANGED <<gOwner, slots, txOwner>>

\* Mutated form: the lock of the table is not waited for.
LockTableUnguarded(t) ==
  /\ gOwner' = t
  /\ \/ Goto(t, "lock_g", "search")
     \/ Goto(t, "lock_g2", "find")
  /\ UNCHANGED <<slots, txOwner, fd, tx>>

LockTable(t) ==
  /\ gOwner = NoThread
  /\ gOwner' = t
  /\ \/ Goto(t, "lock_g", "search")
     \/ Goto(t, "lock_g2", "find")
  /\ UNCHANGED <<slots, txOwner, fd, tx>>

SearchSlot(t) ==
  /\ IF FirstSlot(fd[t]) = NULL THEN Goto(t, "search", "claim")
                                ELSE Goto(t, "search", "unlock_g")
  /\ tx' = [tx EXCEPT ![t] = FirstSlot(fd[t])]
  /\ UNCHANGED <<gOwner, slots, txOwner, fd>>

\* The first free slot becomes fd's.
ClaimSlot(t) ==
  /\ Goto(t, "claim", "unlock_g")
  /\ FirstSlot(NoFd) # NULL
  /\ slots' = [slots EXCEPT ![FirstSlot(NoFd)] = fd[t]]
  /\ tx' = [tx EXCEPT ![t] = FirstSlot(NoFd)]
  /\ UNCHANGED <<gOwner, txOwner, fd>>

\* NULL is returned: the table is full, or mc_mutex_init failed and the slot
\* is free again.  tx[t] is still the NULL the search left in it.
ClaimFails(t) ==
  /\ Goto(t, "claim", "unlock_g")
  /\ UNCHANGED <<gOwner, slots, txOwner, fd, tx>>

\* On NULL the call returns MC_ERROR_CODE_FAILED.
UnlockTable(t) ==
  /\ gOwner' = NoThread
  /\ \/ Goto(t, "unlock_g", IF tx[t] = NULL THEN "idle" ELSE "lock_tx")
     \/ Goto(t, "unlock_g2", IF tx[t] = NULL THEN "idle" ELSE "unlock_tx")
  /\ UNCHANGED <<slots, txOwner, fd, tx>>

\* Mutated form: mc_mutex_trylock, its result ignored.
LockTxTry(t) ==
  /\ Goto(t, "lock_tx", "held")
  /\ txOwner' = [txOwner EXCEPT ![tx[t]] =
                   IF txOwner[tx[t]] = NoThread THEN t ELSE @]
  /\ UNCHANGED <<gOwner, slots, fd, tx>>

LockTx(t) ==
  /\ Goto(t, "lock_tx", "held")
  /\ txOwner[tx[t]] = NoThread
  /\ txOwner' = [txOwner EXCEPT ![tx[t]] = t]
  /\ UNCHANGED <<gOwner, slots, fd, tx>>

\* While it owns a tx_mutex a thread takes g_connection_mutex once more for
\* every attempt to send (mc_write_msg), and gives it back before it goes on.
LockWrite(t) ==
  /\ pc[t] = "held"
  /\ gOwner = NoThread
  /\ gOwner' = t
  /\ UNCHANGED <<slots, txOwner, pc, fd, tx>>

UnlockWrite(t) ==
  /\ pc[t] = "held"
  /\ gOwner = t
  /\ gOwner' = NoThread
  /\ UNCHANGED <<slots, txOwner, pc, fd, tx>>

\* The exchange is over; mc_unlock_fd_transaction starts with tx_mutex NULL.
BeginUnlock(t) ==
  /\ Goto(t, "held", "lock_g2")
  /\ gOwner # t
  /\ tx' = [tx EXCEPT ![t] = NULL]
  /\ UNCHANGED <<gOwner, slots, txOwner, fd>>

FindSlot(t) ==
  /\ Goto(t, "find", "unlock_g2")
  /\ tx' = [tx EXCEPT ![t] = FirstSlot(fd[t])]
  /\ UNCHANGED <<gOwner, slots, txOwner, fd>>

\* Mutated form: the slot is given back with the mutex, so that a thread that
\* found it earlier and waits for it is left with a stale pointer.
UnlockTxAndFree(t) ==
  /\ Goto(t, "unlock_tx", "idle")
  /\ txOwner' = [txOwner EXCEPT ![tx[t]] = NoThread]
  /\ slots' = [slots EXCEPT ![tx[t]] = NoFd]
  /\ UNCHANGED <<gOwner, fd, tx>>

UnlockTx(t) ==
  /\ Goto(t, "unlock_tx", "idle")
  /\ txOwner' = [txOwner EXCEPT ![tx[t]] = NoThread]
  /\ UNCHANGED <<gOwner, slots, fd, tx>>

TxNext ==
  \E t \in Threads :
    \/ \E f \in Fds : Begin(t, f)
    \/ LockTable(t) \/ SearchSlot(t) \/ ClaimSlot(t) \/ ClaimFails(t)
    \/ UnlockTable(t) \/ LockTx(t)
    \/ LockWrite(t) \/ UnlockWrite(t)
    \/ BeginUnlock(t) \/ FindSlot(t) \/ UnlockTx(t)

TxSpec == TxInit /\ [][TxNext]_txVars
-----------------------------------------------------------------------------
(* Properties. *)

\* At most one thread is inside the exchange of a descriptor, from the lock of
\* its tx_mutex to the unlock: what the whole lock table is for.
ExchangeExclusion ==
  \A t, u \in Threads :
    t # u /\ pc[t] \in Holding /\ pc[u] \in Holding => fd[t] # fd[u]

\* No two slots carry the same descriptor, whatever threads look it up for the
\* first time at once: with two slots there would be two mutexes to lock.
OneSlotPerFd ==
  \A r, s \in Slots : slots[r] = slots[s] /\ slots[r] # NoFd => r = s

\* The second search, in mc_unlock_fd_transaction, returns the mutex the first
\* one locked: the unlock never fails (so ret is never overwritten by
\* unlock_ret) and a mutex is unlocked by its owner only.
UnlocksOwnMutex ==
  \A t \in Threads :
    pc[t] \in {"unlock_g2", "unlock_tx"} =>
      tx[t] # NULL /\ txOwner[tx[t]] = t

\* The abstract lock: a descriptor is owned by the thread in its exchange.
Holds(t, f) == pc[t] \in Holding /\ fd[t] = f

OwnerOf(f) ==
  IF \E t \in Threads : Holds(t, f)
    THEN CHOOSE t \in Threads : Holds(t, f)
    ELSE NoThread

Abstract == INSTANCE FdLock WITH owner <- [f \in Fds |-> OwnerOf(f)]

\* The table of slots, searched and filled under g_connection_mutex, behaves as
\* one lock per descriptor, taken and given back by one thread at a time.
ImplementsFdLock == Abstract!Spec
=============================================================================
