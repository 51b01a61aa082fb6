-------------------------- MODULE McConnect_proofs --------------------------
(***************************************************************************)
(* Proofs about McConnect: with one protocol and one thread that connects,  *)
(* as in main.c, g_connection_mutex excludes and every command packed under *)
(* it carries one address, for any number of threads, commands,             *)
(* connections and addresses.  (With two protocols neither holds.)          *)
(***************************************************************************)
EXTENDS McConnect, FiniteSetTheorems, TLAPS

Setting == {"set_network", "set_station", "unlock"}
Connecting == {"check", "init", "set_flag", "lock", "open"} \cup Setting
Packing == {"pack_network", "pack_station", "pack_unlock"}

\* Thread t is between a lock of the mutex and its unlock.
Holds(t) == pc[t] \in Setting \/ (pc[t] \in Packing /\ frame[t].locked)

\* Who is where: the connectors connect, and commands go to open connections.
ControlOK ==
  \A t \in Threads :
    /\ pc[t] \in Connecting => t \in Connectors /\ t \in DOMAIN call
    /\ pc[t] \in Packing \cup {"pack_lock"} => frame[t].conn \in 1 .. Len(conns)
    /\ pc[t] \in {"pack_lock", "pack_unlock"} => frame[t].locked

\* The mutex is initialised before anybody uses it, and never again.
InitOK ==
  /\ asleep = {}
  /\ \A p \in Protocols : ~initialized[p] =>
       /\ conns = <<>> /\ ~locked
       /\ \A t \in Threads : pc[t] \in {"idle", "check", "init", "set_flag"}
  /\ \A t \in Threads, p \in Protocols : pc[t] \in {"init", "set_flag"} => ~initialized[p]

\* The lock word tells whether somebody holds the mutex.
MutexOK ==
  /\ inside = {t \in Threads : Holds(t)}
  /\ inside # {} => locked
  /\ \A t, u \in inside : t = u

\* The address is that of one connect, but while it is being set.
AddressOK ==
  \A p \in Protocols :
    /\ conns # <<>> \/ (\E t \in Threads : pc[t] \in {"set_station", "unlock", "open"}) =>
         network[p] # NoAddress
    /\ network[p] = station[p] \/ \E t \in Threads : pc[t] = "set_station"
    /\ \A t \in Threads : pc[t] = "set_station" => network[p] = call[t].address

\* What a command packed under the mutex carries so far.
FrameOK ==
  \A t \in Threads : frame[t].conn # 0 /\ frame[t].locked =>
    /\ pc[t] = "pack_station" => \A p \in Protocols : frame[t].network = network[p]
    /\ pc[t] \notin {"pack_lock", "pack_network", "pack_station"} => Whole(t)

IInv == TypeOK /\ ControlOK /\ InitOK /\ MutexOK /\ AddressOK /\ FrameOK

-----------------------------------------------------------------------------
(* The invariant. *)

\* It holds before the first connect.
LEMMA InitInv == Init => IInv
<1> SUFFICES ASSUME Init
             PROVE  IInv
  OBVIOUS
<1> USE DEF Init
<1>1. TypeOK
  <2>1. NoFrame \in Frames
    BY ConnectAssumption DEF Frames, NoFrame
  <2>2. conns \in Seq(Given) /\ Len(conns) <= MaxConns
    BY ConnectAssumption
  <2>3. DOMAIN call = {}
    OBVIOUS
  <2> QED
    BY <2>1, <2>2, <2>3 DEF TypeOK, Locations
<1>2. ControlOK /\ InitOK
  BY DEF ControlOK, InitOK, Connecting, Setting, Packing
<1>3. MutexOK
  BY DEF MutexOK, Holds, Setting, Packing
<1>4. AddressOK /\ FrameOK
  BY DEF AddressOK, FrameOK, NoFrame
<1> QED
  BY <1>1, <1>2, <1>3, <1>4 DEF IInv

\* A thread that starts to pack: the other frames are as they were.
LEMMA FrameBegins ==
  ASSUME FrameOK, NEW t \in Threads, UNCHANGED network,
         pc'[t] = "pack_lock" \/ ~frame'[t].locked,
         \A u \in Threads \ {t} : pc'[u] = pc[u] /\ frame'[u] = frame[u]
  PROVE  FrameOK'
BY DEF FrameOK, Whole

\* A new frame says whether it is packed under the mutex.
LEMMA NewFrameIs ==
  ASSUME NEW t \in Threads, frame \in [Threads -> Frames], NEW c, NEW b,
         NewFrame(t, c, b)
  PROVE  frame'[t].locked = b
<1>1. frame'[t] = [NoFrame EXCEPT !.conn = c, !.locked = b]
  BY DEF NewFrame
<1> QED
  BY <1>1 DEF NoFrame

\* Every step preserves it, while one thread connects with one library.
LEMMA StepInv ==
  ASSUME NEW q, Protocols = {q}, NEW m, Connectors = {m}, IInv, [Next]_vars
  PROVE  IInv'
<1> USE DEF IInv
<1> SUFFICES ASSUME Next
             PROVE  IInv'
  BY DEF vars, TypeOK, ControlOK, InitOK, MutexOK, AddressOK, FrameOK, Holds, Whole
<1> PICK t \in Threads :
      \/ \E p \in Protocols, a \in Addresses : Connect(t, p, a)
      \/ CheckFlag(t) \/ InitMutex(t) \/ InitMutexFails(t) \/ SetFlag(t)
      \/ LockAddress(t) \/ SetNetwork(t) \/ SetStation(t) \/ UnlockAddress(t) \/ Open(t)
      \/ \E c \in 1 .. Len(conns) : Command(t, c) \/ RemoteStop(t, c)
      \/ PackLock(t) \/ PackNetwork(t) \/ PackStation(t) \/ PackUnlock(t)
  BY DEF Next
<1>. conns \in Seq(Given) /\ Len(conns) \in Nat /\ Len(conns) <= MaxConns
  BY DEF TypeOK
<1>. \A g \in Given : g.proto = q /\ g.address \in Addresses
  BY DEF Given
<1>. \A c \in 1 .. Len(conns) : conns[c] \in Given
  OBVIOUS
<1>. pc[t] \in Connecting =>
       /\ t = m /\ call[t] \in Given /\ call[t].proto = q /\ call[t].address \in Addresses
       /\ \A u \in Threads : pc[u] \in Connecting => u = t
  BY DEF TypeOK, ControlOK, Given
<1>. pc[t] \in Packing \cup {"pack_lock"} =>
       frame[t].conn \in 1 .. Len(conns) /\ conns[frame[t].conn].proto = q
  BY DEF ControlOK
<1>1. ASSUME NEW p \in Protocols, NEW a \in Addresses, Connect(t, p, a)
     PROVE  IInv'
  <2> USE <1>1 DEF Connect, Goto
  <2>1. TypeOK'
    BY DEF TypeOK, Locations, Frames, Given
  <2>2. ControlOK'
    BY DEF TypeOK, ControlOK, Connecting, Setting, Packing, Locations
  <2>3. InitOK'
    BY DEF TypeOK, ControlOK, InitOK, Connecting, Setting, Packing
  <2>4. MutexOK'
    BY DEF TypeOK, ControlOK, MutexOK, InitOK, Holds, Connecting, Setting, Packing
  <2>5. AddressOK'
    BY DEF TypeOK, ControlOK, InitOK, MutexOK, AddressOK, Holds, Connecting,
       Setting, Packing, Given
  <2>6. FrameOK'
    BY DEF TypeOK, ControlOK, MutexOK, AddressOK, FrameOK, Whole, Holds, Connecting,
       Setting, Packing
  <2> QED
    BY <2>1, <2>2, <2>3, <2>4, <2>5, <2>6
<1>2. CASE CheckFlag(t)
  <2> USE <1>2 DEF CheckFlag, Goto
  <2>1. TypeOK'
    BY DEF TypeOK, Locations, Frames, Given
  <2>2. ControlOK'
    BY DEF TypeOK, ControlOK, Connecting, Setting, Packing, Locations
  <2>3. InitOK'
    BY DEF TypeOK, ControlOK, InitOK, Connecting, Setting, Packing
  <2>4. MutexOK'
    BY DEF TypeOK, ControlOK, MutexOK, InitOK, Holds, Connecting, Setting, Packing
  <2>5. AddressOK'
    BY DEF TypeOK, ControlOK, InitOK, MutexOK, AddressOK, Holds, Connecting,
       Setting, Packing, Given
  <2>6. FrameOK'
    BY DEF TypeOK, ControlOK, MutexOK, AddressOK, FrameOK, Whole, Holds, Connecting,
       Setting, Packing
  <2> QED
    BY <2>1, <2>2, <2>3, <2>4, <2>5, <2>6
<1>3. CASE InitMutex(t)
  <2> USE <1>3 DEF InitMutex, Goto, Waiting
  <2>1. TypeOK'
    BY DEF TypeOK, Locations, Frames, Given
  <2>2. ControlOK'
    BY DEF TypeOK, ControlOK, Connecting, Setting, Packing, Locations
  <2>3. InitOK'
    BY DEF TypeOK, ControlOK, InitOK, Connecting, Setting, Packing
  <2>4. MutexOK'
    BY DEF TypeOK, ControlOK, MutexOK, InitOK, Holds, Connecting, Setting, Packing
  <2>5. AddressOK'
    BY DEF TypeOK, ControlOK, InitOK, MutexOK, AddressOK, Holds, Connecting,
       Setting, Packing, Given
  <2>6. FrameOK'
    BY DEF TypeOK, ControlOK, MutexOK, AddressOK, FrameOK, Whole, Holds, Connecting,
       Setting, Packing
  <2> QED
    BY <2>1, <2>2, <2>3, <2>4, <2>5, <2>6
<1>4. CASE InitMutexFails(t)
  <2> USE <1>4 DEF InitMutexFails, Goto
  <2>1. TypeOK'
    BY DEF TypeOK, Locations, Frames, Given
  <2>2. ControlOK'
    BY DEF TypeOK, ControlOK, Connecting, Setting, Packing, Locations
  <2>3. InitOK'
    BY DEF TypeOK, ControlOK, InitOK, Connecting, Setting, Packing
  <2>4. MutexOK'
    BY DEF TypeOK, ControlOK, MutexOK, InitOK, Holds, Connecting, Setting, Packing
  <2>5. AddressOK'
    BY DEF TypeOK, ControlOK, InitOK, MutexOK, AddressOK, Holds, Connecting,
       Setting, Packing, Given
  <2>6. FrameOK'
    BY DEF TypeOK, ControlOK, MutexOK, AddressOK, FrameOK, Whole, Holds, Connecting,
       Setting, Packing
  <2> QED
    BY <2>1, <2>2, <2>3, <2>4, <2>5, <2>6
<1>5. CASE SetFlag(t)
  <2> USE <1>5 DEF SetFlag, Goto
  <2>1. TypeOK'
    BY DEF TypeOK, Locations, Frames, Given
  <2>2. ControlOK'
    BY DEF TypeOK, ControlOK, Connecting, Setting, Packing, Locations
  <2>3. InitOK'
    BY DEF TypeOK, ControlOK, InitOK, Connecting, Setting, Packing
  <2>4. MutexOK'
    BY DEF TypeOK, ControlOK, MutexOK, InitOK, Holds, Connecting, Setting, Packing
  <2>5. AddressOK'
    BY DEF TypeOK, ControlOK, InitOK, MutexOK, AddressOK, Holds, Connecting,
       Setting, Packing, Given
  <2>6. FrameOK'
    BY DEF TypeOK, ControlOK, MutexOK, AddressOK, FrameOK, Whole, Holds, Connecting,
       Setting, Packing
  <2> QED
    BY <2>1, <2>2, <2>3, <2>4, <2>5, <2>6
<1>6. CASE LockAddress(t)
  <2> USE <1>6 DEF LockAddress, Goto, Lock
  <2>1. TypeOK'
    BY DEF TypeOK, Locations, Frames, Given
  <2>2. ControlOK'
    BY DEF TypeOK, ControlOK, Connecting, Setting, Packing, Locations
  <2>3. InitOK'
    BY DEF TypeOK, ControlOK, InitOK, Connecting, Setting, Packing
  <2>4. MutexOK'
    <3>1. inside = {}
      BY DEF MutexOK
    <3>2. \A u \in Threads : Holds(u)' <=> u = t
      BY <3>1 DEF TypeOK, ControlOK, MutexOK, Holds, Setting, Packing
    <3> QED
      BY <3>1, <3>2 DEF MutexOK
  <2>5. AddressOK'
    BY DEF TypeOK, ControlOK, InitOK, MutexOK, AddressOK, Holds, Connecting,
       Setting, Packing, Given
  <2>6. FrameOK'
    BY DEF TypeOK, ControlOK, MutexOK, AddressOK, FrameOK, Whole, Holds, Connecting,
       Setting, Packing
  <2> QED
    BY <2>1, <2>2, <2>3, <2>4, <2>5, <2>6
<1>7. CASE SetNetwork(t)
  <2> USE <1>7 DEF SetNetwork, Goto
  <2>. call[t].address \in Addresses
    BY DEF Connecting, Setting
  <2>1. TypeOK'
    BY DEF TypeOK, Locations, Frames, Given
  <2>2. ControlOK'
    BY DEF TypeOK, ControlOK, Connecting, Setting, Packing, Locations
  <2>3. InitOK'
    BY DEF TypeOK, ControlOK, InitOK, Connecting, Setting, Packing
  <2>4. MutexOK'
    BY DEF TypeOK, ControlOK, MutexOK, InitOK, Holds, Connecting, Setting, Packing
  <2>5. AddressOK'
    <3>1. call[t].address # NoAddress
      BY ConnectAssumption
    <3>2. network'[q] = call[t].address
      BY DEF TypeOK, Connecting, Setting
    <3>3. pc'[t] = "set_station" /\ \A u \in Threads : pc'[u] = "set_station" => u = t
      BY DEF TypeOK, Connecting, Setting
    <3> QED
      BY <3>1, <3>2, <3>3 DEF AddressOK
  <2>6. FrameOK'
    BY DEF TypeOK, ControlOK, MutexOK, AddressOK, FrameOK, Whole, Holds, Connecting,
       Setting, Packing
  <2> QED
    BY <2>1, <2>2, <2>3, <2>4, <2>5, <2>6
<1>8. CASE SetStation(t)
  <2> USE <1>8 DEF SetStation, Goto
  <2>. call[t].address \in Addresses
    BY DEF Connecting, Setting
  <2>1. TypeOK'
    BY DEF TypeOK, Locations, Frames, Given
  <2>2. ControlOK'
    BY DEF TypeOK, ControlOK, Connecting, Setting, Packing, Locations
  <2>3. InitOK'
    BY DEF TypeOK, ControlOK, InitOK, Connecting, Setting, Packing
  <2>4. MutexOK'
    BY DEF TypeOK, ControlOK, MutexOK, InitOK, Holds, Connecting, Setting, Packing
  <2>5. AddressOK'
    BY DEF TypeOK, ControlOK, InitOK, MutexOK, AddressOK, Holds, Connecting,
       Setting, Packing, Given
  <2>6. FrameOK'
    BY DEF TypeOK, ControlOK, MutexOK, AddressOK, FrameOK, Whole, Holds, Connecting,
       Setting, Packing
  <2> QED
    BY <2>1, <2>2, <2>3, <2>4, <2>5, <2>6
<1>9. CASE UnlockAddress(t)
  <2> USE <1>9 DEF UnlockAddress, Goto, Unlock
  <2>1. TypeOK'
    BY DEF TypeOK, Locations, Frames, Given
  <2>2. ControlOK'
    BY DEF TypeOK, ControlOK, Connecting, Setting, Packing, Locations
  <2>3. InitOK'
    BY DEF TypeOK, ControlOK, InitOK, Connecting, Setting, Packing
  <2>4. MutexOK'
    <3>1. inside = {t}
      BY DEF MutexOK, ControlOK, Holds, Setting, Packing
    <3>2. \A u \in Threads : ~Holds(u)'
      BY <3>1 DEF TypeOK, MutexOK, Holds, Setting, Packing
    <3> QED
      BY <3>1, <3>2 DEF MutexOK
  <2>5. AddressOK'
    BY DEF TypeOK, ControlOK, InitOK, MutexOK, AddressOK, Holds, Connecting,
       Setting, Packing, Given
  <2>6. FrameOK'
    BY DEF TypeOK, ControlOK, MutexOK, AddressOK, FrameOK, Whole, Holds, Connecting,
       Setting, Packing
  <2> QED
    BY <2>1, <2>2, <2>3, <2>4, <2>5, <2>6
<1>10. CASE Open(t)
  <2> USE <1>10 DEF Open, Goto
  <2>1. TypeOK'
    <3>1. conns' \in Seq(Given) /\ Len(conns') <= MaxConns
      <4>1. call[t] \in Given
        BY DEF Connecting
      <4>2. CASE conns' = Append(conns, call[t]) /\ Len(conns) < MaxConns
        <5>1. conns' \in Seq(Given) /\ Len(conns') = Len(conns) + 1
          BY <4>1, <4>2
        <5> QED
          BY <4>2, <5>1, ConnectAssumption
      <4>3. CASE UNCHANGED conns
        BY <4>3
      <4> QED
        BY <4>2, <4>3
    <3> QED
      BY <3>1 DEF TypeOK, Locations
  <2>2. ControlOK'
    BY DEF TypeOK, ControlOK, Connecting, Setting, Packing, Locations
  <2>3. InitOK'
    BY DEF TypeOK, ControlOK, InitOK, Connecting, Setting, Packing
  <2>4. MutexOK'
    BY DEF TypeOK, ControlOK, MutexOK, InitOK, Holds, Connecting, Setting, Packing
  <2>5. AddressOK'
    BY DEF TypeOK, ControlOK, InitOK, MutexOK, AddressOK, Holds, Connecting,
       Setting, Packing, Given
  <2>6. FrameOK'
    BY DEF TypeOK, ControlOK, MutexOK, AddressOK, FrameOK, Whole, Holds, Connecting,
       Setting, Packing
  <2> QED
    BY <2>1, <2>2, <2>3, <2>4, <2>5, <2>6
<1>11. ASSUME NEW c \in 1 .. Len(conns), Command(t, c)
     PROVE  IInv'
  <2>. c \in 0 .. MaxConns /\ c # 0
    BY ConnectAssumption
  <2>. conns # <<>>
    OBVIOUS
  <2>. \A p \in Protocols : initialized[p]
    BY DEF InitOK
  <2> USE <1>11 DEF Command, Goto, NewFrame, NoFrame
  <2>1. TypeOK'
    <3>1. [NoFrame EXCEPT !.conn = c, !.locked = TRUE] \in Frames
      BY DEF Frames
    <3> QED
      BY <3>1 DEF TypeOK, Locations
  <2>2. ControlOK'
    BY DEF TypeOK, ControlOK, Connecting, Setting, Packing, Locations
  <2>3. InitOK'
    BY DEF TypeOK, ControlOK, InitOK, Connecting, Setting, Packing
  <2>4. MutexOK'
    <3>1. \A u \in Threads : Holds(u)' <=> Holds(u)
      BY DEF TypeOK, Holds, Setting, Packing
    <3> QED
      BY <3>1 DEF MutexOK
  <2>5. AddressOK'
    <3>1. \A u \in Threads, s \in {"set_station", "unlock", "open"} : pc'[u] = s <=> pc[u] = s
      BY DEF TypeOK
    <3> QED
      BY <3>1 DEF AddressOK
  <2>6. FrameOK'
    <3>1. UNCHANGED network /\ pc'[t] = "pack_lock"
      BY DEF TypeOK
    <3>2. \A u \in Threads \ {t} : pc'[u] = pc[u] /\ frame'[u] = frame[u]
      BY DEF TypeOK
    <3> QED
      BY <3>1, <3>2, FrameBegins
  <2> QED
    BY <2>1, <2>2, <2>3, <2>4, <2>5, <2>6
<1>12. ASSUME NEW c \in 1 .. Len(conns), RemoteStop(t, c)
     PROVE  IInv'
  <2>. c \in 0 .. MaxConns /\ c # 0
    BY ConnectAssumption
  <2>. conns # <<>>
    OBVIOUS
  <2>. \A p \in Protocols : initialized[p]
    BY DEF InitOK
  <2> USE <1>12 DEF RemoteStop, Goto, NewFrame, NoFrame
  <2>1. TypeOK'
    <3>1. [NoFrame EXCEPT !.conn = c, !.locked = FALSE] \in Frames
      BY DEF Frames
    <3> QED
      BY <3>1 DEF TypeOK, Locations
  <2>2. ControlOK'
    BY DEF TypeOK, ControlOK, Connecting, Setting, Packing, Locations
  <2>3. InitOK'
    BY DEF TypeOK, ControlOK, InitOK, Connecting, Setting, Packing
  <2>4. MutexOK'
    <3>1. \A u \in Threads : Holds(u)' <=> Holds(u)
      BY DEF TypeOK, Holds, Setting, Packing
    <3> QED
      BY <3>1 DEF MutexOK
  <2>5. AddressOK'
    <3>1. \A u \in Threads, s \in {"set_station", "unlock", "open"} : pc'[u] = s <=> pc[u] = s
      BY DEF TypeOK
    <3> QED
      BY <3>1 DEF AddressOK
  <2>6. FrameOK'
    <3>1. ~frame'[t].locked
      BY NewFrameIs DEF TypeOK
    <3>2. UNCHANGED network
      OBVIOUS
    <3>3. \A u \in Threads \ {t} : pc'[u] = pc[u] /\ frame'[u] = frame[u]
      BY DEF TypeOK
    <3> QED
      BY <3>1, <3>2, <3>3, FrameBegins
  <2> QED
    BY <2>1, <2>2, <2>3, <2>4, <2>5, <2>6
<1>13. CASE PackLock(t)
  <2> USE <1>13 DEF PackLock, Goto, Lock
  <2>1. TypeOK'
    BY DEF TypeOK, Locations, Frames, Given
  <2>2. ControlOK'
    BY DEF TypeOK, ControlOK, Connecting, Setting, Packing, Locations
  <2>3. InitOK'
    BY DEF TypeOK, ControlOK, InitOK, Connecting, Setting, Packing
  <2>4. MutexOK'
    <3>1. inside = {}
      BY DEF MutexOK
    <3>2. \A u \in Threads : Holds(u)' <=> u = t
      BY <3>1 DEF TypeOK, ControlOK, MutexOK, Holds, Setting, Packing
    <3> QED
      BY <3>1, <3>2 DEF MutexOK
  <2>5. AddressOK'
    BY DEF TypeOK, ControlOK, InitOK, MutexOK, AddressOK, Holds, Connecting,
       Setting, Packing, Given
  <2>6. FrameOK'
    BY DEF TypeOK, ControlOK, MutexOK, AddressOK, FrameOK, Whole, Holds, Connecting,
       Setting, Packing
  <2> QED
    BY <2>1, <2>2, <2>3, <2>4, <2>5, <2>6
<1>14. CASE PackNetwork(t)
  <2> USE <1>14 DEF PackNetwork, Goto
  <2>1. TypeOK'
    <3>1. network[q] \in Addresses \cup {NoAddress} /\ frame[t] \in Frames
      BY DEF TypeOK
    <3>2. [frame[t] EXCEPT !.network = network[q]] \in Frames
      BY <3>1 DEF Frames
    <3>3. frame' = [frame EXCEPT ![t] = [frame[t] EXCEPT !.network = network[q]]]
      BY DEF Packing
    <3> QED
      BY <3>2, <3>3 DEF TypeOK, Locations
  <2>2. ControlOK'
    BY DEF TypeOK, ControlOK, Connecting, Setting, Packing, Locations
  <2>3. InitOK'
    BY DEF TypeOK, ControlOK, InitOK, Connecting, Setting, Packing
  <2>4. MutexOK'
    BY DEF TypeOK, ControlOK, MutexOK, InitOK, Holds, Connecting, Setting, Packing
  <2>5. AddressOK'
    BY DEF TypeOK, ControlOK, InitOK, MutexOK, AddressOK, Holds, Connecting,
       Setting, Packing, Given
  <2>6. FrameOK'
    BY DEF TypeOK, ControlOK, MutexOK, AddressOK, FrameOK, Whole, Holds, Connecting,
       Setting, Packing
  <2> QED
    BY <2>1, <2>2, <2>3, <2>4, <2>5, <2>6
<1>15. CASE PackStation(t)
  <2> USE <1>15 DEF PackStation, Goto
  <2>1. TypeOK'
    <3>1. station[q] \in Addresses \cup {NoAddress} /\ frame[t] \in Frames
      BY DEF TypeOK
    <3>2. [frame[t] EXCEPT !.station = station[q]] \in Frames
      BY <3>1 DEF Frames
    <3>3. frame' = [frame EXCEPT ![t] = [frame[t] EXCEPT !.station = station[q]]]
      BY DEF Packing
    <3> QED
      BY <3>2, <3>3 DEF TypeOK, Locations
  <2>2. ControlOK'
    BY DEF TypeOK, ControlOK, Connecting, Setting, Packing, Locations
  <2>3. InitOK'
    BY DEF TypeOK, ControlOK, InitOK, Connecting, Setting, Packing
  <2>4. MutexOK'
    BY DEF TypeOK, ControlOK, MutexOK, InitOK, Holds, Connecting, Setting, Packing
  <2>5. AddressOK'
    BY DEF TypeOK, ControlOK, InitOK, MutexOK, AddressOK, Holds, Connecting,
       Setting, Packing, Given
  <2>6. FrameOK'
    BY DEF TypeOK, ControlOK, MutexOK, AddressOK, FrameOK, Whole, Holds, Connecting,
       Setting, Packing
  <2> QED
    BY <2>1, <2>2, <2>3, <2>4, <2>5, <2>6
<1>16. CASE PackUnlock(t)
  <2> USE <1>16 DEF PackUnlock, Goto, Unlock
  <2>1. TypeOK'
    BY DEF TypeOK, Locations, Frames, Given
  <2>2. ControlOK'
    BY DEF TypeOK, ControlOK, Connecting, Setting, Packing, Locations
  <2>3. InitOK'
    BY DEF TypeOK, ControlOK, InitOK, Connecting, Setting, Packing
  <2>4. MutexOK'
    <3>1. inside = {t}
      BY DEF MutexOK, ControlOK, Holds, Setting, Packing
    <3>2. \A u \in Threads : ~Holds(u)'
      BY <3>1 DEF TypeOK, MutexOK, Holds, Setting, Packing
    <3> QED
      BY <3>1, <3>2 DEF MutexOK
  <2>5. AddressOK'
    BY DEF TypeOK, ControlOK, InitOK, MutexOK, AddressOK, Holds, Connecting,
       Setting, Packing, Given
  <2>6. FrameOK'
    BY DEF TypeOK, ControlOK, MutexOK, AddressOK, FrameOK, Whole, Holds, Connecting,
       Setting, Packing
  <2> QED
    BY <2>1, <2>2, <2>3, <2>4, <2>5, <2>6
<1> QED
  BY <1>1, <1>2, <1>3, <1>4, <1>5, <1>6, <1>7, <1>8, <1>9, <1>10, <1>11,
     <1>12, <1>13, <1>14, <1>15, <1>16

-----------------------------------------------------------------------------
(* The theorems. *)

\* The variables keep their types.
THEOREM TypeCorrect ==
  ASSUME NEW q, Protocols = {q}, NEW m, Connectors = {m}
  PROVE  Spec => []TypeOK
<1>1. IInv /\ [Next]_vars => IInv'
  BY StepInv
<1>2. IInv => TypeOK
  BY DEF IInv
<1> QED
  BY <1>1, <1>2, InitInv, PTL DEF Spec

\* With one protocol and one thread that connects, at most one thread is between
\* a lock of g_connection_mutex and its unlock, although the first connect
\* initialises the mutex without a lock.
THEOREM MutexExcludes ==
  ASSUME NEW q, Protocols = {q}, NEW m, Connectors = {m}
  PROVE  Spec => []MutexExclusive
<1>1. IInv /\ [Next]_vars => IInv'
  BY StepInv
<1>2. IInv => MutexExclusive
  <2> SUFFICES ASSUME IInv
               PROVE  MutexExclusive
    OBVIOUS
  <2>1. CASE inside = {}
    BY <2>1, FS_EmptySet DEF MutexExclusive
  <2>2. CASE inside # {}
    <3>1. PICK t : inside = {t}
      BY <2>2 DEF IInv, MutexOK
    <3> QED
      BY <3>1, FS_Singleton DEF MutexExclusive
  <2> QED
    BY <2>1, <2>2
<1> QED
  BY <1>1, <1>2, InitInv, PTL DEF Spec

\* With one protocol and one thread that connects, a command packed under the
\* mutex carries the address of one connect, never halves of two, although it is
\* packed while other connections are being opened.
THEOREM LockedCommandsAreWhole ==
  ASSUME NEW q, Protocols = {q}, NEW m, Connectors = {m}
  PROVE  Spec => []LockedCommandsWhole
<1>1. IInv /\ [Next]_vars => IInv'
  BY StepInv
<1>2. IInv => LockedCommandsWhole
  BY DEF IInv, FrameOK, LockedCommandsWhole, Packed
<1> QED
  BY <1>1, <1>2, InitInv, PTL DEF Spec
=============================================================================
