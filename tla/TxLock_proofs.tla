--------------------------- MODULE TxLock_proofs ----------------------------
(***************************************************************************)
(* What TxLock guarantees for any number of threads, descriptors and       *)
(* slots: its variables keep their types, the exchanges of a descriptor    *)
(* exclude one another, an unlock releases the mutex the lock took, and    *)
(* the table implements the abstract lock FdLock.                          *)
(***************************************************************************)
EXTENDS TxLock, WellFoundedInduction, TLAPS

\* Points at which a thread owns g_connection_mutex because of its location
\* (mc_write_msg owns it at "held" as well, but only for a while).
InTable == {"search", "claim", "unlock_g", "find", "unlock_g2"}

\* The table is used by one thread at a time.
TableGuarded == \A t \in Threads : pc[t] \in InTable => gOwner = t

\* A thread that is about to claim a slot has found none, and none has come.
ClaimIsFresh ==
  \A t \in Threads :
    pc[t] = "claim" => tx[t] = NULL /\ \A s \in Slots : slots[s] # fd[t]

\* A tx_mutex pointer points to the slot of the thread's descriptor.
PointerIsValid ==
  \A t \in Threads :
    /\ pc[t] \in {"lock_tx", "unlock_g2", "unlock_tx"} => tx[t] # NULL
    /\ pc[t] \in {"unlock_g", "lock_tx", "unlock_g2", "unlock_tx"} /\ tx[t] # NULL
         => slots[tx[t]] = fd[t]

\* A thread in its exchange owns the mutex of its descriptor's slot.
HolderOwns ==
  \A t \in Threads :
    pc[t] \in Holding => \E s \in Slots : slots[s] = fd[t] /\ txOwner[s] = t

FdIsKnown == \A t \in Threads : pc[t] # "idle" => fd[t] \in Fds

\* The inductive invariant.  Exclusion alone is not inductive: it holds after
\* LockTx only because each descriptor has one slot, which holds after
\* ClaimSlot only because the table is guarded from the search to the claim.
IInv ==
  /\ TxTypeOK
  /\ TableGuarded
  /\ OneSlotPerFd
  /\ ClaimIsFresh
  /\ PointerIsValid
  /\ HolderOwns
  /\ FdIsKnown

-----------------------------------------------------------------------------
\* A search finds a slot of f exactly when there is one (the for loops of
\* mc_get_or_create_fd_tx_mutex_locked and mc_unlock_fd_transaction).
LEMMA FirstSlotIsSlot ==
  ASSUME NEW f
  PROVE  /\ SlotsOf(f) = {} => FirstSlot(f) = NULL
         /\ SlotsOf(f) # {} => FirstSlot(f) \in Slots /\ slots[FirstSlot(f)] = f
<1>1. SlotsOf(f) = {} => FirstSlot(f) = NULL
  BY DEF FirstSlot
<1>2. ASSUME SlotsOf(f) # {}
      PROVE  FirstSlot(f) \in SlotsOf(f)
  <2> DEFINE Less == {ss \in Nat \X Nat : ss[1] < ss[2]}
  <2>1. SlotsOf(f) \subseteq Nat
    BY TxAssumption DEF SlotsOf, Slots
  <2>2. IsWellFoundedOn(Less, Nat)
    BY NatLessThanWellFounded DEF OpToRel
  <2>3. PICK s \in SlotsOf(f) : \A r \in SlotsOf(f) : <<r, s>> \notin Less
    BY <1>2, <2>1, <2>2, WFMin
  <2>4. ASSUME NEW r \in SlotsOf(f)
        PROVE  s <= r
    <3>1. r \in Nat /\ s \in Nat
      BY <2>1
    <3>2. <<r, s>> \notin Less
      BY <2>3
    <3>3. ~(r < s)
      BY <3>1, <3>2
    <3> QED
      BY <3>1, <3>3
  <2> QED
    BY <1>2, <2>4 DEF FirstSlot
<1> QED
  BY <1>1, <1>2 DEF SlotsOf

-----------------------------------------------------------------------------
\* The invariant holds when the library is loaded: no lock, no slot, no caller.
LEMMA InitIInv == TxInit => IInv
BY TxAssumption DEF TxInit, IInv, TxTypeOK, TableGuarded, OneSlotPerFd,
   ClaimIsFresh, PointerIsValid, HolderOwns, FdIsKnown, Locations, InTable,
   Holding, Slots, NULL

\* Every step of the lock and unlock functions, and of mc_write_msg between
\* them, keeps the invariant.
LEMMA NextIInv == IInv /\ [TxNext]_txVars => IInv'
<1> SUFFICES ASSUME IInv, [TxNext]_txVars
             PROVE  IInv'
  OBVIOUS
<1> USE TxAssumption DEF IInv, TxTypeOK, TableGuarded, OneSlotPerFd, ClaimIsFresh,
        PointerIsValid, HolderOwns, FdIsKnown, Locations, InTable, Holding, Slots,
        NULL, Goto
<1>1. ASSUME NEW t \in Threads, NEW f \in Fds, Begin(t, f)
      PROVE  IInv'
  BY <1>1 DEF Begin
<1>2. ASSUME NEW t \in Threads, LockTable(t)
      PROVE  IInv'
  BY <1>2 DEF LockTable
<1>3. ASSUME NEW t \in Threads, SearchSlot(t)
      PROVE  IInv'
  <2>1. fd[t] \in Fds /\ pc[t] = "search" /\ gOwner = t
    BY <1>3 DEF SearchSlot
  <2>2. FirstSlot(fd[t]) \in Slots \cup {NULL}
    BY FirstSlotIsSlot
  <2>3. FirstSlot(fd[t]) = NULL => \A s \in Slots : slots[s] # fd[t]
    BY FirstSlotIsSlot DEF SlotsOf
  <2>4. FirstSlot(fd[t]) # NULL => slots[FirstSlot(fd[t])] = fd[t]
    BY FirstSlotIsSlot
  <2>5. TxTypeOK' /\ OneSlotPerFd' /\ FdIsKnown'
    <3>1. tx' \in [Threads -> Slots \cup {NULL}]
      BY <1>3, <2>2 DEF SearchSlot
    <3>2. pc' \in [Threads -> Locations]
      BY <1>3 DEF SearchSlot
    <3>3. TxTypeOK'
      BY <1>3, <3>1, <3>2 DEF SearchSlot
    <3>4. OneSlotPerFd'
      BY <1>3 DEF SearchSlot
    <3>5. FdIsKnown'
      BY <1>3, <2>1 DEF SearchSlot
    <3> QED
      BY <3>3, <3>4, <3>5
  <2>6. TableGuarded'
    BY <1>3, <2>1 DEF SearchSlot
  <2>7. ClaimIsFresh'
    BY <1>3, <2>1, <2>3 DEF SearchSlot
  <2>8. PointerIsValid'
    BY <1>3, <2>1, <2>4 DEF SearchSlot
  <2>9. HolderOwns'
    BY <1>3, <2>1 DEF SearchSlot
  <2> QED
    BY <2>5, <2>6, <2>7, <2>8, <2>9
<1>4. ASSUME NEW t \in Threads, ClaimSlot(t)
      PROVE  IInv'
  <2> DEFINE s == FirstSlot(NoFd)
  <2>1. pc[t] = "claim" /\ gOwner = t /\ fd[t] \in Fds
    BY <1>4 DEF ClaimSlot
  <2>2. s \in Slots /\ slots[s] = NoFd
    BY <1>4, FirstSlotIsSlot DEF ClaimSlot
  <2> HIDE DEF s
  <2>3. slots' = [slots EXCEPT ![s] = fd[t]] /\ tx' = [tx EXCEPT ![t] = s]
        /\ pc' = [pc EXCEPT ![t] = "unlock_g"]
        /\ UNCHANGED <<gOwner, txOwner, fd>>
    BY <1>4 DEF ClaimSlot, s
  <2>4. TxTypeOK' /\ TableGuarded' /\ FdIsKnown'
    BY <2>1, <2>2, <2>3
  <2>5. OneSlotPerFd'
    BY <2>1, <2>2, <2>3
  <2>6. ClaimIsFresh'
    BY <2>1, <2>2, <2>3
  <2>7. PointerIsValid'
    BY <2>1, <2>2, <2>3
  <2>8. HolderOwns'
    BY <2>1, <2>2, <2>3
  <2> QED
    BY <2>4, <2>5, <2>6, <2>7, <2>8
<1>5. ASSUME NEW t \in Threads, ClaimFails(t)
      PROVE  IInv'
  BY <1>5 DEF ClaimFails
<1>6. ASSUME NEW t \in Threads, UnlockTable(t)
      PROVE  IInv'
  <2>1. pc[t] \in {"unlock_g", "unlock_g2"} /\ gOwner = t
    BY <1>6 DEF UnlockTable
  <2>2. pc' = [pc EXCEPT ![t] = pc'[t]]
    BY <1>6 DEF UnlockTable
  <2>3. /\ tx[t] = NULL => pc[t] = "unlock_g" /\ pc'[t] = "idle"
        /\ tx[t] # NULL /\ pc[t] = "unlock_g" => pc'[t] = "lock_tx"
        /\ tx[t] # NULL /\ pc[t] = "unlock_g2" => pc'[t] = "unlock_tx"
    BY <1>6, <2>1 DEF UnlockTable
  <2>4. TxTypeOK' /\ OneSlotPerFd' /\ FdIsKnown'
    BY <1>6, <2>1, <2>2, <2>3 DEF UnlockTable
  <2>5. TableGuarded'
    BY <1>6, <2>1, <2>2, <2>3 DEF UnlockTable
  <2>6. ClaimIsFresh'
    BY <1>6, <2>1, <2>2, <2>3 DEF UnlockTable
  <2>7. PointerIsValid'
    BY <1>6, <2>1, <2>2, <2>3 DEF UnlockTable
  <2>8. HolderOwns'
    BY <1>6, <2>1, <2>2, <2>3 DEF UnlockTable
  <2> QED
    BY <2>4, <2>5, <2>6, <2>7, <2>8
<1>7. ASSUME NEW t \in Threads, LockTx(t)
      PROVE  IInv'
  BY <1>7 DEF LockTx
<1>8. ASSUME NEW t \in Threads, LockWrite(t)
      PROVE  IInv'
  BY <1>8 DEF LockWrite
<1>9. ASSUME NEW t \in Threads, UnlockWrite(t)
      PROVE  IInv'
  BY <1>9 DEF UnlockWrite
<1>10. ASSUME NEW t \in Threads, BeginUnlock(t)
       PROVE  IInv'
  BY <1>10 DEF BeginUnlock
<1>11. ASSUME NEW t \in Threads, FindSlot(t)
       PROVE  IInv'
  <2>1. pc[t] = "find" /\ fd[t] \in Fds /\ SlotsOf(fd[t]) # {}
    BY <1>11 DEF FindSlot, SlotsOf
  <2>2. FirstSlot(fd[t]) \in Slots /\ slots[FirstSlot(fd[t])] = fd[t]
    BY <2>1, FirstSlotIsSlot
  <2> QED
    BY <1>11, <2>1, <2>2 DEF FindSlot
<1>12. ASSUME NEW t \in Threads, UnlockTx(t)
       PROVE  IInv'
  <2>1. pc[t] = "unlock_tx" /\ tx[t] \in Slots /\ slots[tx[t]] = fd[t]
    BY <1>12 DEF UnlockTx
  <2>2. txOwner[tx[t]] = t
    BY <2>1
  <2>3. TxTypeOK' /\ TableGuarded' /\ OneSlotPerFd' /\ ClaimIsFresh'
        /\ PointerIsValid' /\ FdIsKnown'
    BY <1>12, <2>1 DEF UnlockTx
  <2>4. HolderOwns'
    <3>1. ASSUME NEW u \in Threads, pc'[u] \in Holding
          PROVE  \E s \in Slots : slots'[s] = fd'[u] /\ txOwner'[s] = u
      <4>1. u # t /\ pc[u] \in Holding
        BY <1>12, <2>1, <3>1 DEF UnlockTx
      <4>2. PICK s \in Slots : slots[s] = fd[u] /\ txOwner[s] = u
        BY <4>1
      <4>3. s # tx[t]
        BY <2>2, <4>1, <4>2
      <4> QED
        BY <1>12, <4>2, <4>3 DEF UnlockTx
    <3> QED
      BY <3>1
  <2> QED
    BY <2>3, <2>4
<1>13. CASE UNCHANGED txVars
  BY <1>13 DEF txVars
<1> QED
  BY <1>1, <1>2, <1>3, <1>4, <1>5, <1>6, <1>7, <1>8, <1>9, <1>10, <1>11, <1>12,
     <1>13 DEF TxNext

-----------------------------------------------------------------------------
\* The invariant holds in every behaviour of the lock table.
THEOREM Invariance == TxSpec => []IInv
BY InitIInv, NextIInv, PTL DEF TxSpec

\* Every variable of the lock table keeps its type, for any numbers of threads,
\* descriptors and slots.
THEOREM TypeCorrect == TxSpec => []TxTypeOK
<1>1. IInv => TxTypeOK
  BY DEF IInv
<1> QED
  BY <1>1, Invariance, PTL

\* First lookups of a descriptor that race for the table still end with one
\* slot, hence one mutex, for it.
THEOREM OneSlot == TxSpec => []OneSlotPerFd
<1>1. IInv => OneSlotPerFd
  BY DEF IInv
<1> QED
  BY <1>1, Invariance, PTL

\* Owning the mutex of a slot is exclusive, and a descriptor has one slot.
LEMMA InvExclusion == IInv => ExchangeExclusion
<1> SUFFICES ASSUME IInv, NEW t \in Threads, NEW u \in Threads, t # u,
                    pc[t] \in Holding, pc[u] \in Holding, fd[t] = fd[u]
             PROVE  FALSE
  BY DEF ExchangeExclusion
<1>1. PICK s \in Slots : slots[s] = fd[t] /\ txOwner[s] = t
  BY DEF IInv, HolderOwns
<1>2. PICK r \in Slots : slots[r] = fd[u] /\ txOwner[r] = u
  BY DEF IInv, HolderOwns
<1>3. fd[t] \in Fds
  BY DEF IInv, FdIsKnown, Holding
<1>4. r = s
  BY <1>1, <1>2, <1>3, TxAssumption DEF IInv, OneSlotPerFd
<1> QED
  BY <1>1, <1>2, <1>4

\* Two threads are never inside the exchange of one descriptor: requests on the
\* same descriptor are serialized from the first byte sent to the last received.
THEOREM Exclusion == TxSpec => []ExchangeExclusion
BY Invariance, InvExclusion, PTL

\* mc_unlock_fd_transaction always finds a mutex, and it is the caller's.
THEOREM UnlockSafety == TxSpec => []UnlocksOwnMutex
<1>1. IInv => UnlocksOwnMutex
  <2> SUFFICES ASSUME IInv, NEW t \in Threads, pc[t] \in {"unlock_g2", "unlock_tx"}
               PROVE  tx[t] # NULL /\ txOwner[tx[t]] = t
    BY DEF UnlocksOwnMutex
  <2>1. tx[t] # NULL /\ slots[tx[t]] = fd[t] /\ fd[t] \in Fds
    BY DEF IInv, PointerIsValid, FdIsKnown
  <2>2. PICK s \in Slots : slots[s] = fd[t] /\ txOwner[s] = t
    BY DEF IInv, HolderOwns, Holding
  <2>3. tx[t] \in Slots
    BY <2>1 DEF IInv, TxTypeOK
  <2> QED
    BY <2>1, <2>2, <2>3, TxAssumption DEF IInv, OneSlotPerFd
<1> QED
  BY <1>1, Invariance, PTL

-----------------------------------------------------------------------------
\* The refinement mapping is a function of the threads' locations: where the
\* exchanges exclude one another, OwnerOf is the one thread in the exchange.
OwnerMatches ==
  \A f \in Fds :
    /\ \A t \in Threads : Holds(t, f) => OwnerOf(f) = t
    /\ (\A t \in Threads : ~Holds(t, f)) => OwnerOf(f) = NoThread

\* The owner of a descriptor is whoever is in its exchange.
LEMMA OwnerIsHolder == ExchangeExclusion => OwnerMatches
<1> SUFFICES ASSUME ExchangeExclusion, NEW f \in Fds
             PROVE  /\ \A t \in Threads : Holds(t, f) => OwnerOf(f) = t
                    /\ (\A t \in Threads : ~Holds(t, f)) => OwnerOf(f) = NoThread
  BY DEF OwnerMatches
<1>1. ASSUME NEW t \in Threads, Holds(t, f)
      PROVE  OwnerOf(f) = t
  <2>1. \A u \in Threads : Holds(u, f) => u = t
    BY <1>1 DEF ExchangeExclusion, Holds
  <2> QED
    BY <1>1, <2>1 DEF OwnerOf
<1>2. (\A t \in Threads : ~Holds(t, f)) => OwnerOf(f) = NoThread
  BY DEF OwnerOf
<1> QED
  BY <1>1, <1>2

\* So it is on both sides of a step.
LEMMA OwnerMatchesNext == IInv /\ [TxNext]_txVars => OwnerMatches /\ OwnerMatches'
<1>1. IInv => OwnerMatches
  BY InvExclusion, OwnerIsHolder
<1> QED
  BY <1>1, NextIInv, PTL

\* The abstract owner of a descriptor is the same after a step that leaves the
\* threads in its exchange alone.
LEMMA SameHoldersSameOwner ==
  ASSUME OwnerMatches, OwnerMatches', NEW f \in Fds,
         \A t \in Threads : Holds(t, f)' <=> Holds(t, f)
  PROVE  OwnerOf(f)' = OwnerOf(f)
<1>1. CASE \E t \in Threads : Holds(t, f)
  BY <1>1 DEF OwnerMatches
<1>2. CASE \A t \in Threads : ~Holds(t, f)
  BY <1>2 DEF OwnerMatches
<1> QED
  BY <1>1, <1>2

\* Every step of the lock table is an abstract Acquire (LockTx), an abstract
\* Release (UnlockTx), or invisible: the search and the claim of slots, the
\* waiting and the writing change nobody's ownership.
LEMMA StepRefines ==
  ASSUME IInv, IInv', OwnerMatches, OwnerMatches', [TxNext]_txVars
  PROVE  [Abstract!Next]_[f \in Fds |-> OwnerOf(f)]
<1> DEFINE owner == [f \in Fds |-> OwnerOf(f)]
<1> USE DEF IInv, TxTypeOK, Locations, Goto
<1>1. ASSUME \A t \in Threads, f \in Fds : Holds(t, f)' <=> Holds(t, f)
      PROVE  UNCHANGED owner
  <2>1. \A f \in Fds : OwnerOf(f)' = OwnerOf(f)
    BY <1>1, SameHoldersSameOwner
  <2> QED
    BY <2>1
<1>2. ASSUME NEW t \in Threads, NEW f \in Fds, fd[t] = f, LockTx(t)
      PROVE  Abstract!Acquire(t, f)
  <2>1. pc[t] = "lock_tx" /\ txOwner[tx[t]] = NoThread
    BY <1>2 DEF LockTx
  <2>2. tx[t] \in Slots /\ slots[tx[t]] = f
    BY <1>2, <2>1 DEF PointerIsValid
  <2>3. \A u \in Threads : ~Holds(u, f)
    BY <2>1, <2>2, TxAssumption DEF HolderOwns, OneSlotPerFd, Holds
  <2>4. OwnerOf(f) = NoThread
    BY <2>3 DEF OwnerMatches
  <2>5. \A g \in Fds : OwnerOf(g) # t
    BY <2>1, TxAssumption DEF OwnerMatches, Holds, Holding
  <2>6. Holds(t, f)'
    BY <1>2 DEF LockTx, Holds, Holding
  <2>7. OwnerOf(f)' = t
    BY <2>6 DEF OwnerMatches
  <2>8. ASSUME NEW g \in Fds, g # f
        PROVE  OwnerOf(g)' = OwnerOf(g)
    <3>1. \A u \in Threads : Holds(u, g)' <=> Holds(u, g)
      BY <1>2, <2>8 DEF LockTx, Holds, Holding
    <3> QED
      BY <3>1, SameHoldersSameOwner
  <2>9. owner' = [owner EXCEPT ![f] = t]
    BY <2>7, <2>8
  <2> QED
    BY <2>4, <2>5, <2>9 DEF Abstract!Acquire
<1>3. ASSUME NEW t \in Threads, NEW f \in Fds, fd[t] = f, UnlockTx(t)
      PROVE  Abstract!Release(t, f)
  <2>1. pc[t] = "unlock_tx"
    BY <1>3 DEF UnlockTx
  <2>2. OwnerOf(f) = t
    BY <1>3, <2>1 DEF OwnerMatches, Holds, Holding
  <2>3. \A u \in Threads : Holds(u, f) => u = t
    BY <2>2 DEF OwnerMatches
  <2>4. \A u \in Threads : ~Holds(u, f)'
    BY <1>3, <2>3 DEF UnlockTx, Holds, Holding
  <2>5. OwnerOf(f)' = NoThread
    BY <2>4 DEF OwnerMatches
  <2>6. ASSUME NEW g \in Fds, g # f
        PROVE  OwnerOf(g)' = OwnerOf(g)
    <3>1. \A u \in Threads : Holds(u, g)' <=> Holds(u, g)
      BY <1>3, <2>6 DEF UnlockTx, Holds, Holding
    <3> QED
      BY <3>1, SameHoldersSameOwner
  <2>7. owner' = [owner EXCEPT ![f] = NoThread]
    BY <2>5, <2>6
  <2> QED
    BY <2>2, <2>7 DEF Abstract!Release
<1>4. ASSUME NEW t \in Threads,
             \/ \E f \in Fds : Begin(t, f)
             \/ LockTable(t) \/ SearchSlot(t) \/ ClaimSlot(t) \/ ClaimFails(t)
             \/ UnlockTable(t)
             \/ LockWrite(t) \/ UnlockWrite(t)
             \/ BeginUnlock(t) \/ FindSlot(t)
      PROVE  UNCHANGED owner
  <2>1. fd'[t] = fd[t] \/ pc[t] = "idle"
    BY <1>4 DEF Begin, LockTable, SearchSlot, ClaimSlot, ClaimFails, UnlockTable,
                LockWrite, UnlockWrite, BeginUnlock, FindSlot
  <2>2. pc'[t] \in Holding <=> pc[t] \in Holding
    BY <1>4 DEF Begin, LockTable, SearchSlot, ClaimSlot, ClaimFails, UnlockTable,
                LockWrite, UnlockWrite, BeginUnlock, FindSlot, Holding, PointerIsValid
  <2>3. \A u \in Threads \ {t} : fd'[u] = fd[u] /\ pc'[u] = pc[u]
    BY <1>4 DEF Begin, LockTable, SearchSlot, ClaimSlot, ClaimFails, UnlockTable,
                LockWrite, UnlockWrite, BeginUnlock, FindSlot
  <2>4. \A u \in Threads, g \in Fds : Holds(u, g)' <=> Holds(u, g)
    BY <2>1, <2>2, <2>3 DEF Holds, Holding
  <2> QED
    BY <1>1, <2>4
<1>5. ASSUME UNCHANGED txVars
      PROVE  UNCHANGED owner
  <2>1. \A u \in Threads, g \in Fds : Holds(u, g)' <=> Holds(u, g)
    BY <1>5 DEF txVars, Holds
  <2> QED
    BY <1>1, <2>1
<1>6. ASSUME NEW t \in Threads, LockTx(t) \/ UnlockTx(t)
      PROVE  Abstract!Next
  <2>1. fd[t] \in Fds
    BY <1>6 DEF LockTx, UnlockTx, FdIsKnown
  <2> QED
    BY <1>2, <1>3, <1>6, <2>1 DEF Abstract!Next
<1> QED
  BY <1>4, <1>5, <1>6 DEF TxNext

\* At the start no descriptor is locked.
LEMMA InitRefines == TxInit => Abstract!Init
<1> SUFFICES ASSUME TxInit
             PROVE  [f \in Fds |-> OwnerOf(f)] = [f \in Fds |-> NoThread]
  BY DEF Abstract!Init
<1>1. \A t \in Threads, f \in Fds : ~Holds(t, f)
  BY DEF TxInit, Holds, Holding
<1> QED
  BY <1>1 DEF OwnerOf

\* The lock table implements one lock per descriptor.
THEOREM Refinement == TxSpec => ImplementsFdLock
<1>1. IInv /\ [TxNext]_txVars => [Abstract!Next]_[f \in Fds |-> OwnerOf(f)]
  BY NextIInv, OwnerMatchesNext, StepRefines
<1> QED
  BY <1>1, InitRefines, Invariance, PTL DEF TxSpec, ImplementsFdLock, Abstract!Spec
=============================================================================
