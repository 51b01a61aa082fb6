------------------------ MODULE McTransaction_proofs ------------------------
(***************************************************************************)
(* Transactions keep to the protocol of the lock table, for any number of  *)
(* threads, descriptors, connections, calls and retries; so what           *)
(* TxLock_proofs shows of the table holds of them.                         *)
(***************************************************************************)
EXTENDS McTransaction, TxLock_proofs, SequenceTheorems

\* Every step of a transaction, of a connect or disconnect, and of the PLC, is a
\* step of the lock table or does not touch it.
LEMMA StepImplements == [Next]_vars => [TxNext]_txVars
<1> SUFFICES ASSUME Next
             PROVE  TxNext \/ UNCHANGED txVars
  BY DEF vars
<1>1. ASSUME NEW t \in Threads, NEW f \in Fds, Call(t, f)
      PROVE  TxNext
  BY <1>1 DEF Call, TxNext
<1>2. ASSUME NEW t \in Threads,
             TableStep(t) \/ LeaveTable(t) \/ StartExchange(t) \/ FinishExchange(t)
               \/ Return(t)
      PROVE  TxNext
  BY <1>2
     DEF TableStep, LeaveTable, StartExchange, FinishExchange, Return, TxNext
<1>3. ASSUME NEW t \in Threads, StartWrite(t) \/ WriteDone(t) \/ WriteRetry(t)
      PROVE  TxNext
  BY <1>3 DEF StartWrite, WriteDone, WriteRetry, TxNext
<1>4. ASSUME NEW t \in Threads,
             SendChunk(t) \/ SendFails(t) \/ EnterRecv(t) \/ ReadHeader(t)
               \/ ReadPayload(t) \/ ReadFails(t)
      PROVE  UNCHANGED txVars
  BY <1>4
     DEF SendChunk, SendFails, EnterRecv, ReadHeader, ReadPayload, ReadFails
<1>5. ASSUME NEW t \in Threads, Connection(t)
      PROVE  UNCHANGED txVars
  BY <1>5 DEF Connection, StartConnect, OpenSocket, Disconnect
<1>6. ASSUME Plc
      PROVE  UNCHANGED txVars
  BY <1>6 DEF Plc, PlcTakeFrame, PlcSend, PlcClose
<1>7. ASSUME Done
      PROVE  UNCHANGED txVars
  BY <1>7 DEF Done, vars
<1> QED
  BY <1>1, <1>2, <1>3, <1>4, <1>5, <1>6, <1>7 DEF Next, Proceed

\* The transactions of mc_send_and_receive_transaction use the lock table as
\* TxLock says.
THEOREM UsesTxLock == Spec => ImplementsTxLock
<1>1. Init => TxInit
  BY DEF Init
<1> QED
  BY <1>1, StepImplements, PTL DEF Spec, ImplementsTxLock, TxSpec

\* Two threads never send or receive for one descriptor at the same time,
\* whatever is closed, opened and retried meanwhile.
THEOREM TransactionsExclude == Spec => []ExchangeExclusion
BY UsesTxLock, Exclusion, PTL DEF ImplementsTxLock

-----------------------------------------------------------------------------
(* Type correctness. *)

InExchange(t) == step[t] \notin {"none", "open"}

\* What the types rest on: a thread in a call has begun it, a thread inside its
\* exchange is at "held", it writes at most two chunks, and it reads from a
\* connection.
FlowOK ==
  \A t \in Threads :
    /\ pc[t] # "idle" => calls[t] # 0 /\ fd[t] \in Fds
    /\ InExchange(t) => pc[t] = "held"
    /\ step[t] = "send" => sent[t] < 2
    /\ step[t] \in {"wait_header", "wait_payload"} => sock[t] # NoConn

TypeInv == TypeOK /\ FlowOK

\* The initial values have their types.
LEMMA InitTypeInv == Init => TypeInv
<1> SUFFICES ASSUME Init
             PROVE  TypeInv
  OBVIOUS
<1>1. TxTypeOK
  BY InitIInv DEF Init, IInv
<1>2. ThreadTypeOK
  BY TransactionAssumption DEF Init, ThreadTypeOK, Steps, Results, NoConn
<1>3. NetTypeOK
  <2>1. \A S : <<>> \in Seq(S)
    BY EmptySeq
  <2> QED
    BY <2>1, TransactionAssumption DEF Init, NetTypeOK, NoConn
<1>4. HistTypeOK
  BY DEF Init, HistTypeOK
<1>5. FlowOK
  BY DEF Init, TxInit, FlowOK, InExchange
<1> QED
  BY <1>1, <1>2, <1>3, <1>4, <1>5 DEF TypeInv, TypeOK

\* A step that leaves a group of variables alone keeps their types.
LEMMA UnchangedTypes ==
  /\ ThreadTypeOK /\ UNCHANGED threadVars => ThreadTypeOK'
  /\ NetTypeOK /\ UNCHANGED netVars => NetTypeOK'
  /\ HistTypeOK /\ UNCHANGED histVars => HistTypeOK'
<1>1. ThreadTypeOK /\ UNCHANGED threadVars => ThreadTypeOK'
  BY DEF ThreadTypeOK, threadVars
<1>2. NetTypeOK /\ UNCHANGED netVars => NetTypeOK'
  BY DEF NetTypeOK, netVars
<1>3. HistTypeOK /\ UNCHANGED histVars => HistTypeOK'
  BY DEF HistTypeOK, histVars
<1> QED
  BY <1>1, <1>2, <1>3

\* A request is in the table of requests once its call has begun.
LEMMA OwnIsRequest ==
  ASSUME TypeInv, NEW t \in Threads, pc[t] # "idle"
  PROVE  Own(t) \in Requests
BY TransactionAssumption
   DEF TypeInv, TypeOK, ThreadTypeOK, FlowOK, Own, Requests

\* Every step keeps the types.
LEMMA NextTypeInv == TypeInv /\ IInv' /\ [Next]_vars => TypeInv'
<1> SUFFICES ASSUME TypeInv, IInv', [Next]_vars
             PROVE  TypeInv'
  OBVIOUS
<1> USE TransactionAssumption, TxAssumption
<1>t. TxTypeOK /\ TxTypeOK' /\ ThreadTypeOK /\ NetTypeOK /\ HistTypeOK /\ FlowOK
  BY DEF IInv, TypeInv, TypeOK
<1>1. ASSUME NEW t \in Threads, NEW f \in Fds, Call(t, f)
      PROVE  TypeInv'
  <2>1. ThreadTypeOK'
    BY <1>t, <1>1
       DEF Call, Begin, Goto, ThreadTypeOK, Steps, Results, Conns, NoConn
  <2>2. NetTypeOK'
    BY <1>t, <1>1, UnchangedTypes DEF Call
  <2>3. HistTypeOK'
    BY <1>t, <1>1 DEF Call, Begin, Goto, HistTypeOK, Conns
  <2>4. FlowOK'
    BY <1>t, <1>1
       DEF Call, Begin, Goto, FlowOK, InExchange, TxTypeOK, ThreadTypeOK,
           NetTypeOK, Conns, NoConn
  <2> QED
    BY <1>t, <2>1, <2>2, <2>3, <2>4 DEF TypeInv, TypeOK
<1>2. ASSUME NEW t \in Threads, TableStep(t)
      PROVE  TypeInv'
  <2>1. ThreadTypeOK'
    BY <1>t, <1>2, UnchangedTypes DEF TableStep, restVars
  <2>2. NetTypeOK'
    BY <1>t, <1>2, UnchangedTypes DEF TableStep, restVars
  <2>3. HistTypeOK'
    BY <1>t, <1>2, UnchangedTypes DEF TableStep, restVars
  <2>4. FlowOK'
    BY <1>t, <1>2
       DEF TableStep, LockTable, SearchSlot, ClaimSlot, ClaimFails, FindSlot,
           Goto, restVars, threadVars, FlowOK, InExchange, TxTypeOK,
           ThreadTypeOK, NetTypeOK, Conns, NoConn
  <2> QED
    BY <1>t, <2>1, <2>2, <2>3, <2>4 DEF TypeInv, TypeOK
<1>3. ASSUME NEW t \in Threads, LeaveTable(t)
      PROVE  TypeInv'
  <2>1. ThreadTypeOK'
    BY <1>t, <1>3
       DEF LeaveTable, UnlockTable, Goto, ThreadTypeOK, Steps, Results, Conns,
           NoConn
  <2>2. NetTypeOK'
    BY <1>t, <1>3, UnchangedTypes DEF LeaveTable
  <2>3. HistTypeOK'
    BY <1>t, <1>3, UnchangedTypes DEF LeaveTable
  <2>4. FlowOK'
    BY <1>t, <1>3
       DEF LeaveTable, UnlockTable, Goto, FlowOK, InExchange, TxTypeOK,
           ThreadTypeOK, NetTypeOK, Conns, NoConn
  <2> QED
    BY <1>t, <2>1, <2>2, <2>3, <2>4 DEF TypeInv, TypeOK
<1>4. ASSUME NEW t \in Threads, StartExchange(t)
      PROVE  TypeInv'
  <2>1. ThreadTypeOK'
    BY <1>t, <1>4
       DEF StartExchange, LockTx, Goto, ThreadTypeOK, Steps, Results, Conns,
           NoConn
  <2>2. NetTypeOK'
    BY <1>t, <1>4, UnchangedTypes DEF StartExchange
  <2>3. HistTypeOK'
    BY <1>t, <1>4, UnchangedTypes DEF StartExchange
  <2>4. FlowOK'
    BY <1>t, <1>4
       DEF StartExchange, LockTx, Goto, FlowOK, InExchange, TxTypeOK,
           ThreadTypeOK, NetTypeOK, Conns, NoConn
  <2> QED
    BY <1>t, <2>1, <2>2, <2>3, <2>4 DEF TypeInv, TypeOK
<1>5. ASSUME NEW t \in Threads, FinishExchange(t)
      PROVE  TypeInv'
  <2>1. ThreadTypeOK'
    BY <1>t, <1>5
       DEF FinishExchange, BeginUnlock, Goto, ThreadTypeOK, Steps, Results,
           Conns, NoConn
  <2>2. NetTypeOK'
    BY <1>t, <1>5, UnchangedTypes DEF FinishExchange
  <2>3. HistTypeOK'
    BY <1>t, <1>5, UnchangedTypes DEF FinishExchange
  <2>4. FlowOK'
    BY <1>t, <1>5
       DEF FinishExchange, BeginUnlock, Goto, FlowOK, InExchange, TxTypeOK,
           ThreadTypeOK, NetTypeOK, Conns, NoConn
  <2> QED
    BY <1>t, <2>1, <2>2, <2>3, <2>4 DEF TypeInv, TypeOK
<1>6. ASSUME NEW t \in Threads, Return(t)
      PROVE  TypeInv'
  <2>1. ThreadTypeOK'
    BY <1>t, <1>6, UnchangedTypes DEF Return, restVars
  <2>2. NetTypeOK'
    BY <1>t, <1>6, UnchangedTypes DEF Return, restVars
  <2>3. HistTypeOK'
    BY <1>t, <1>6, UnchangedTypes DEF Return, restVars
  <2>4. FlowOK'
    BY <1>t, <1>6
       DEF Return, UnlockTx, Goto, restVars, threadVars, FlowOK, InExchange,
           TxTypeOK, ThreadTypeOK, NetTypeOK, Conns, NoConn
  <2> QED
    BY <1>t, <2>1, <2>2, <2>3, <2>4 DEF TypeInv, TypeOK
<1>7. ASSUME NEW t \in Threads, StartWrite(t)
      PROVE  TypeInv'
  <2>1. ThreadTypeOK'
    BY <1>t, <1>7
       DEF StartWrite, LockWrite, ThreadTypeOK, Steps, Results, Conns, NoConn
  <2>2. NetTypeOK'
    BY <1>t, <1>7, UnchangedTypes DEF StartWrite
  <2>3. HistTypeOK'
    BY <1>t, <1>7, UnchangedTypes DEF StartWrite
  <2>4. FlowOK'
    BY <1>t, <1>7
       DEF StartWrite, LockWrite, FlowOK, InExchange, TxTypeOK, ThreadTypeOK,
           NetTypeOK, Conns, NoConn
  <2> QED
    BY <1>t, <2>1, <2>2, <2>3, <2>4 DEF TypeInv, TypeOK
<1>8. ASSUME NEW t \in Threads, SendChunk(t)
      PROVE  TypeInv'
  <2>1. ThreadTypeOK'
    <3>1. sent' = [sent EXCEPT ![t] = sent[t] + 1] /\ sent[t] \in 0 .. 2 /\ sent[t] < 2
      BY <1>t, <1>8 DEF SendChunk, FlowOK, ThreadTypeOK
    <3>2. sent' \in [Threads -> 0 .. 2]
      BY <1>t, <3>1 DEF ThreadTypeOK
    <3>3. step' \in [Threads -> Steps]
      BY <1>t, <1>8 DEF SendChunk, ThreadTypeOK, Steps
    <3> QED
      BY <1>t, <1>8, <3>2, <3>3 DEF SendChunk, ThreadTypeOK
  <2>2. NetTypeOK'
    <3> DEFINE c == conn[fd[t]]
               chunk == IF sent[t] = 0 THEN <<"head", Own(t)>> ELSE <<"tail", Own(t)>>
    <3>1. c \in Conns /\ pc[t] # "idle"
      BY <1>t, <1>8 DEF SendChunk, FlowOK, InExchange, NetTypeOK, NoConn
    <3>2. chunk \in FrameChunks
      BY <3>1, OwnIsRequest DEF FrameChunks
    <3>3. toPlc[c] \in Seq(FrameChunks)
      BY <1>t, <3>1 DEF NetTypeOK
    <3>4. Append(toPlc[c], chunk) \in Seq(FrameChunks)
      BY <3>2, <3>3, AppendProperties
    <3>5. toPlc' = [toPlc EXCEPT ![c] =
                      IF peerUp[c] THEN Append(toPlc[c], chunk) ELSE toPlc[c]]
      BY <1>8 DEF SendChunk
    <3>6. toPlc' \in [Conns -> Seq(FrameChunks)]
      <4> HIDE DEF c, chunk
      <4> QED BY <1>t, <3>1, <3>3, <3>4, <3>5 DEF NetTypeOK
    <3> QED
      BY <1>t, <1>8, <3>6 DEF SendChunk, NetTypeOK
  <2>3. HistTypeOK'
    <3>1. conn[fd[t]] \in Conns
      BY <1>t, <1>8 DEF SendChunk, FlowOK, InExchange, NetTypeOK, NoConn
    <3> QED
      BY <1>t, <1>8, <3>1 DEF SendChunk, HistTypeOK
  <2>4. FlowOK'
    <3>1. /\ UNCHANGED <<pc, fd, calls, sock>>
          /\ step[t] = "send" /\ sent[t] \in 0 .. 2 /\ sent[t] < 2
          /\ sent' = [sent EXCEPT ![t] = sent[t] + 1]
          /\ step' = [step EXCEPT ![t] = IF sent[t] = 1 THEN "write_ok" ELSE "send"]
      BY <1>t, <1>8 DEF SendChunk, FlowOK, ThreadTypeOK, txVars
    <3>2. step'[t] = "send" => sent'[t] < 2
      BY <1>t, <3>1 DEF ThreadTypeOK
    <3>3. step'[t] \in {"send", "write_ok"}
      BY <1>t, <3>1 DEF ThreadTypeOK
    <3>4. \A u \in Threads \ {t} : step'[u] = step[u] /\ sent'[u] = sent[u]
      BY <1>t, <3>1 DEF ThreadTypeOK
    <3> QED
      BY <1>t, <3>1, <3>2, <3>3, <3>4 DEF FlowOK, InExchange
  <2> QED
    BY <1>t, <2>1, <2>2, <2>3, <2>4 DEF TypeInv, TypeOK
<1>9. ASSUME NEW t \in Threads, SendFails(t)
      PROVE  TypeInv'
  <2>1. ThreadTypeOK'
    BY <1>t, <1>9
       DEF SendFails, txVars, ThreadTypeOK, Steps, Results, Conns, NoConn
  <2>2. NetTypeOK'
    BY <1>t, <1>9, UnchangedTypes DEF SendFails
  <2>3. HistTypeOK'
    BY <1>t, <1>9 DEF SendFails, txVars, HistTypeOK, Conns
  <2>4. FlowOK'
    BY <1>t, <1>9
       DEF SendFails, txVars, FlowOK, InExchange, TxTypeOK, ThreadTypeOK,
           NetTypeOK, Conns, NoConn
  <2> QED
    BY <1>t, <2>1, <2>2, <2>3, <2>4 DEF TypeInv, TypeOK
<1>10. ASSUME NEW t \in Threads, WriteDone(t)
      PROVE  TypeInv'
  <2>1. ThreadTypeOK'
    BY <1>t, <1>10
       DEF WriteDone, UnlockWrite, ThreadTypeOK, Steps, Results, Conns, NoConn
  <2>2. NetTypeOK'
    BY <1>t, <1>10, UnchangedTypes DEF WriteDone
  <2>3. HistTypeOK'
    BY <1>t, <1>10, UnchangedTypes DEF WriteDone
  <2>4. FlowOK'
    BY <1>t, <1>10
       DEF WriteDone, UnlockWrite, FlowOK, InExchange, TxTypeOK, ThreadTypeOK,
           NetTypeOK, Conns, NoConn
  <2> QED
    BY <1>t, <2>1, <2>2, <2>3, <2>4 DEF TypeInv, TypeOK
<1>11. ASSUME NEW t \in Threads, WriteRetry(t)
      PROVE  TypeInv'
  <2>1. ThreadTypeOK'
    BY <1>t, <1>11
       DEF WriteRetry, UnlockWrite, Ends, ThreadTypeOK, Steps, Results, Conns,
           NoConn
  <2>2. NetTypeOK'
    BY <1>t, <1>11, UnchangedTypes DEF WriteRetry
  <2>3. HistTypeOK'
    BY <1>t, <1>11, UnchangedTypes DEF WriteRetry
  <2>4. FlowOK'
    <3>1. UNCHANGED <<pc, fd, calls, sent, sock>>
      BY <1>11 DEF WriteRetry, UnlockWrite
    <3>2. step' = [step EXCEPT ![t] = "write_lock"] \/ step' = [step EXCEPT ![t] = "finish"]
      BY <1>11 DEF WriteRetry, Ends
    <3>3. /\ step[t] = "write_err" /\ step'[t] \in {"write_lock", "finish"}
          /\ \A u \in Threads \ {t} : step'[u] = step[u]
      BY <1>t, <1>11, <3>2 DEF WriteRetry, ThreadTypeOK
    <3> QED
      BY <1>t, <3>1, <3>3 DEF FlowOK, InExchange
  <2> QED
    BY <1>t, <2>1, <2>2, <2>3, <2>4 DEF TypeInv, TypeOK
<1>12. ASSUME NEW t \in Threads, EnterRecv(t)
      PROVE  TypeInv'
  <2>1. ThreadTypeOK'
    <3>1. fd[t] \in Fds
      BY <1>t, <1>12 DEF EnterRecv, FlowOK, InExchange
    <3>2. conn[fd[t]] \in Conns \cup {NoConn}
      BY <1>t, <3>1 DEF NetTypeOK
    <3> QED
      BY <1>t, <1>12, <3>2 DEF EnterRecv, Ends, ThreadTypeOK, Steps, Results
  <2>2. NetTypeOK'
    BY <1>t, <1>12, UnchangedTypes DEF EnterRecv
  <2>3. HistTypeOK'
    <3>1. fd[t] \in Fds
      BY <1>t, <1>12 DEF EnterRecv, FlowOK, InExchange
    <3>2. conn[fd[t]] \in Conns \cup {NoConn}
      BY <1>t, <3>1 DEF NetTypeOK
    <3> QED
      BY <1>t, <1>12, <3>2 DEF EnterRecv, HistTypeOK
  <2>4. FlowOK'
    <3>1. UNCHANGED <<pc, fd, calls, sent>>
      BY <1>12 DEF EnterRecv, txVars
    <3>2. /\ step[t] \in {"header", "payload"}
          /\ \/ step' = [step EXCEPT ![t] = "finish"] /\ UNCHANGED sock
             \/ /\ conn[fd[t]] # NoConn /\ sock' = [sock EXCEPT ![t] = conn[fd[t]]]
                /\ \/ step' = [step EXCEPT ![t] = "wait_header"]
                   \/ step' = [step EXCEPT ![t] = "wait_payload"]
      BY <1>t, <1>12 DEF EnterRecv, Ends, ThreadTypeOK
    <3>3. /\ step'[t] \in {"finish", "wait_header", "wait_payload"}
          /\ step'[t] # "finish" => sock'[t] # NoConn
          /\ \A u \in Threads \ {t} : step'[u] = step[u] /\ sock'[u] = sock[u]
      BY <1>t, <3>2 DEF ThreadTypeOK
    <3> QED
      BY <1>t, <3>1, <3>2, <3>3 DEF FlowOK, InExchange
  <2> QED
    BY <1>t, <2>1, <2>2, <2>3, <2>4 DEF TypeInv, TypeOK
<1>13. ASSUME NEW t \in Threads, ReadHeader(t)
      PROVE  TypeInv'
  <2>1. ThreadTypeOK'
    <3>1. sock[t] \in Conns
      BY <1>t, <1>13 DEF ReadHeader, FlowOK, ThreadTypeOK, NoConn
    <3>2. toClient[sock[t]] \in Seq(ResponseChunks) /\ toClient[sock[t]] # <<>>
      BY <1>t, <1>13, <3>1 DEF ReadHeader, Consume, NetTypeOK
    <3>3. Head(toClient[sock[t]]) \in ResponseChunks
      BY <3>2, HeadTailProperties
    <3>4. Head(toClient[sock[t]]).req \in Requests \cup {NoRequest}
      BY <3>3 DEF ResponseChunks
    <3>5. reply' = [reply EXCEPT ![t] = Head(toClient[sock[t]]).req]
      BY <1>13 DEF ReadHeader
    <3>6. /\ ret' = [ret EXCEPT ![t] = ret'[t]] /\ ret'[t] \in Results
          /\ step' = [step EXCEPT ![t] = step'[t]] /\ step'[t] \in Steps
      BY <1>t, <1>13 DEF ReadHeader, Ends, ThreadTypeOK, Steps, Results
    <3>7. UNCHANGED <<i, retry_times, sent, sock, calls>>
      BY <1>13 DEF ReadHeader
    <3> QED
      BY <1>t, <3>4, <3>5, <3>6, <3>7 DEF ThreadTypeOK
  <2>2. NetTypeOK'
    <3>1. sock[t] \in Conns
      BY <1>t, <1>13 DEF ReadHeader, FlowOK, ThreadTypeOK, NoConn
    <3>2. toClient[sock[t]] \in Seq(ResponseChunks) /\ toClient[sock[t]] # <<>>
      BY <1>t, <1>13, <3>1 DEF ReadHeader, Consume, NetTypeOK
    <3>3. Tail(toClient[sock[t]]) \in Seq(ResponseChunks)
      BY <3>2, HeadTailProperties
    <3> QED
      BY <1>t, <1>13, <3>3 DEF ReadHeader, Consume, NetTypeOK
  <2>3. HistTypeOK'
    BY <1>t, <1>13
       DEF ReadHeader, Consume, Ends, Failed, txVars, HistTypeOK, Conns
  <2>4. FlowOK'
    <3>1. UNCHANGED <<pc, fd, calls, sent, sock>> /\ step[t] = "wait_header"
      BY <1>13 DEF ReadHeader, txVars
    <3>2. step' = [step EXCEPT ![t] = "payload"] \/ step' = [step EXCEPT ![t] = "finish"]
      BY <1>13 DEF ReadHeader, Ends
    <3>3. /\ step'[t] \in {"payload", "finish"}
          /\ \A u \in Threads \ {t} : step'[u] = step[u]
      BY <1>t, <3>2 DEF ThreadTypeOK
    <3> QED
      BY <1>t, <3>1, <3>3 DEF FlowOK, InExchange
  <2> QED
    BY <1>t, <2>1, <2>2, <2>3, <2>4 DEF TypeInv, TypeOK
<1>14. ASSUME NEW t \in Threads, ReadPayload(t)
      PROVE  TypeInv'
  <2>1. ThreadTypeOK'
    BY <1>t, <1>14
       DEF ReadPayload, Consume, Ends, txVars, ThreadTypeOK, Steps, Results,
           Conns, NoConn
  <2>2. NetTypeOK'
    <3>1. sock[t] \in Conns
      BY <1>t, <1>14 DEF ReadPayload, FlowOK, ThreadTypeOK, NoConn
    <3>2. toClient[sock[t]] \in Seq(ResponseChunks) /\ toClient[sock[t]] # <<>>
      BY <1>t, <1>14, <3>1 DEF ReadPayload, Consume, NetTypeOK
    <3>3. Tail(toClient[sock[t]]) \in Seq(ResponseChunks)
      BY <3>2, HeadTailProperties
    <3> QED
      BY <1>t, <1>14, <3>3 DEF ReadPayload, Consume, NetTypeOK
  <2>3. HistTypeOK'
    BY <1>t, <1>14, UnchangedTypes DEF ReadPayload
  <2>4. FlowOK'
    BY <1>t, <1>14
       DEF ReadPayload, Consume, Ends, txVars, FlowOK, InExchange, TxTypeOK,
           ThreadTypeOK, NetTypeOK, Conns, NoConn
  <2> QED
    BY <1>t, <2>1, <2>2, <2>3, <2>4 DEF TypeInv, TypeOK
<1>15. ASSUME NEW t \in Threads, ReadFails(t)
      PROVE  TypeInv'
  <2>1. ThreadTypeOK'
    BY <1>t, <1>15
       DEF ReadFails, Ends, Failed, txVars, ThreadTypeOK, Steps, Results,
           Conns, NoConn
  <2>2. NetTypeOK'
    BY <1>t, <1>15, UnchangedTypes DEF ReadFails
  <2>3. HistTypeOK'
    BY <1>t, <1>15 DEF ReadFails, Ends, Failed, txVars, HistTypeOK, Conns
  <2>4. FlowOK'
    BY <1>t, <1>15
       DEF ReadFails, Ends, Failed, txVars, FlowOK, InExchange, TxTypeOK,
           ThreadTypeOK, NetTypeOK, Conns, NoConn
  <2> QED
    BY <1>t, <2>1, <2>2, <2>3, <2>4 DEF TypeInv, TypeOK
<1>16. ASSUME NEW t \in Threads, StartConnect(t)
      PROVE  TypeInv'
  <2>1. ThreadTypeOK'
    BY <1>t, <1>16
       DEF StartConnect, txVars, ThreadTypeOK, Steps, Results, Conns, NoConn
  <2>2. NetTypeOK'
    BY <1>t, <1>16, UnchangedTypes DEF StartConnect
  <2>3. HistTypeOK'
    BY <1>t, <1>16, UnchangedTypes DEF StartConnect
  <2>4. FlowOK'
    BY <1>t, <1>16
       DEF StartConnect, txVars, FlowOK, InExchange, TxTypeOK, ThreadTypeOK,
           NetTypeOK, Conns, NoConn
  <2> QED
    BY <1>t, <2>1, <2>2, <2>3, <2>4 DEF TypeInv, TypeOK
<1>17. ASSUME NEW t \in Threads, OpenSocket(t)
      PROVE  TypeInv'
  <2>1. ThreadTypeOK'
    BY <1>t, <1>17
       DEF OpenSocket, txVars, ThreadTypeOK, Steps, Results, Conns, NoConn
  <2>2. NetTypeOK'
    <3>1. CASE UNCHANGED <<opened, conn>>
      BY <1>t, <1>17, <3>1 DEF OpenSocket, NetTypeOK
    <3>2. ASSUME NEW f \in Fds, opened < MaxConns, opened' = opened + 1,
                 conn' = [conn EXCEPT ![f] = opened + 1]
          PROVE  NetTypeOK'
      <4>1. opened + 1 \in Conns /\ opened' \in 0 .. MaxConns
        BY <1>t, <3>2 DEF NetTypeOK, Conns
      <4> QED
        BY <1>t, <1>17, <3>2, <4>1 DEF OpenSocket, NetTypeOK
    <3> QED
      BY <1>17, <3>1, <3>2 DEF OpenSocket
  <2>3. HistTypeOK'
    BY <1>t, <1>17, UnchangedTypes DEF OpenSocket
  <2>4. FlowOK'
    BY <1>t, <1>17
       DEF OpenSocket, txVars, FlowOK, InExchange, TxTypeOK, ThreadTypeOK,
           NetTypeOK, Conns, NoConn
  <2> QED
    BY <1>t, <2>1, <2>2, <2>3, <2>4 DEF TypeInv, TypeOK
<1>18. ASSUME NEW t \in Threads, NEW f \in Fds, Disconnect(t, f)
      PROVE  TypeInv'
  <2>1. ThreadTypeOK'
    BY <1>t, <1>18, UnchangedTypes DEF Disconnect
  <2>2. NetTypeOK'
    BY <1>t, <1>18 DEF Disconnect, txVars, threadVars, NetTypeOK, Conns, NoConn
  <2>3. HistTypeOK'
    BY <1>t, <1>18, UnchangedTypes DEF Disconnect
  <2>4. FlowOK'
    BY <1>t, <1>18
       DEF Disconnect, txVars, threadVars, FlowOK, InExchange, TxTypeOK,
           ThreadTypeOK, NetTypeOK, Conns, NoConn
  <2> QED
    BY <1>t, <2>1, <2>2, <2>3, <2>4 DEF TypeInv, TypeOK
<1>19. ASSUME NEW c \in Conns, PlcTakeFrame(c)
      PROVE  TypeInv'
  <2>1. ThreadTypeOK'
    BY <1>t, <1>19, UnchangedTypes DEF PlcTakeFrame
  <2>2. NetTypeOK'
    <3>1. toPlc[c] \in Seq(FrameChunks) /\ Len(toPlc[c]) \in Nat /\ Len(toPlc[c]) >= 2
      BY <1>t, <1>19, LenProperties DEF PlcTakeFrame, NetTypeOK
    <3>2. \A k \in 1 .. Len(toPlc[c]) : toPlc[c][k] \in FrameChunks
      BY <3>1, ElementOfSeq
    <3>3. SubSeq(toPlc[c], 3, Len(toPlc[c])) \in Seq(FrameChunks)
      <4>1. \A k \in 3 .. Len(toPlc[c]) : toPlc[c][k] \in FrameChunks
        BY <3>1, <3>2
      <4> QED
        BY <3>1, <4>1, SubSeqProperties
    <3>4. toPlc' \in [Conns -> Seq(FrameChunks)]
      BY <1>t, <1>19, <3>3 DEF PlcTakeFrame, NetTypeOK
    <3>5. toPlc[c][1][2] \in Requests
      BY <3>1, <3>2 DEF FrameChunks
    <3>6. plcOut' \in [Conns -> Seq(ResponseChunks)]
      <4> DEFINE r == toPlc[c][1][2]
      <4>1. \A more \in BOOLEAN : /\ Answer(r, more) \in ResponseChunks
                                  /\ Answer(NoRequest, more) \in ResponseChunks
                                  /\ Payload(r) \in ResponseChunks
        BY <3>5 DEF Answer, Payload, ResponseChunks
      <4>2. /\ <<Answer(r, FALSE)>> \in Seq(ResponseChunks)
            /\ <<Answer(r, TRUE), Payload(r)>> \in Seq(ResponseChunks)
            /\ <<Answer(NoRequest, FALSE)>> \in Seq(ResponseChunks)
        <5>1. \A x, y \in ResponseChunks : <<x>> \in Seq(ResponseChunks)
                                        /\ <<x, y>> \in Seq(ResponseChunks)
          OBVIOUS
        <5> QED
          BY <4>1, <5>1
      <4>3. \/ plcOut' = [plcOut EXCEPT ![c] = <<Answer(r, FALSE)>>]
            \/ plcOut' = [plcOut EXCEPT ![c] = <<Answer(r, TRUE), Payload(r)>>]
            \/ plcOut' = [plcOut EXCEPT ![c] = <<Answer(NoRequest, FALSE)>>]
            \/ plcOut' = plcOut
        BY <1>19 DEF PlcTakeFrame, PlcTakeWhole, PlcTakeCut
      <4> QED
        BY <1>t, <4>2, <4>3 DEF NetTypeOK
    <3> QED
      BY <1>t, <1>19, <3>4, <3>6 DEF PlcTakeFrame, NetTypeOK
  <2>3. HistTypeOK'
    <3>1. /\ \/ executed' = [executed EXCEPT ![toPlc[c][1][2]] = @ + 1]
             \/ executed' = executed
          /\ mangled' = mangled \/ mangled' = mangled \cup {toPlc[c][1][2], toPlc[c][2][2]}
          /\ UNCHANGED <<fault, touched>>
      BY <1>19 DEF PlcTakeFrame, PlcTakeWhole, PlcTakeCut
    <3>2. toPlc[c][1][2] \in Requests /\ toPlc[c][2][2] \in Requests
      <4>1. toPlc[c] \in Seq(FrameChunks) /\ Len(toPlc[c]) \in Nat /\ Len(toPlc[c]) >= 2
        BY <1>t, <1>19, LenProperties DEF PlcTakeFrame, NetTypeOK
      <4>2. toPlc[c][1] \in FrameChunks /\ toPlc[c][2] \in FrameChunks
        BY <4>1, ElementOfSeq
      <4> QED
        BY <4>2 DEF FrameChunks
    <3> QED
      BY <1>t, <3>1, <3>2 DEF HistTypeOK
  <2>4. FlowOK'
    BY <1>t, <1>19
       DEF PlcTakeFrame, txVars, threadVars, FlowOK, InExchange, TxTypeOK,
           ThreadTypeOK, NetTypeOK, Conns, NoConn
  <2> QED
    BY <1>t, <2>1, <2>2, <2>3, <2>4 DEF TypeInv, TypeOK
<1>20. ASSUME NEW c \in Conns, PlcSend(c)
      PROVE  TypeInv'
  <2>1. ThreadTypeOK'
    BY <1>t, <1>20, UnchangedTypes DEF PlcSend
  <2>2. NetTypeOK'
    <3>1. plcOut[c] \in Seq(ResponseChunks) /\ plcOut[c] # <<>>
      BY <1>t, <1>20 DEF PlcSend, NetTypeOK
    <3>2. Head(plcOut[c]) \in ResponseChunks /\ Tail(plcOut[c]) \in Seq(ResponseChunks)
      BY <3>1, HeadTailProperties
    <3>3. toClient[c] \in Seq(ResponseChunks)
      BY <1>t DEF NetTypeOK
    <3>4. Append(toClient[c], Head(plcOut[c])) \in Seq(ResponseChunks)
      BY <3>2, <3>3, AppendProperties
    <3> QED
      BY <1>t, <1>20, <3>2, <3>4 DEF PlcSend, NetTypeOK
  <2>3. HistTypeOK'
    BY <1>t, <1>20, UnchangedTypes DEF PlcSend
  <2>4. FlowOK'
    BY <1>t, <1>20
       DEF PlcSend, txVars, threadVars, FlowOK, InExchange, TxTypeOK,
           ThreadTypeOK, NetTypeOK, Conns, NoConn
  <2> QED
    BY <1>t, <2>1, <2>2, <2>3, <2>4 DEF TypeInv, TypeOK
<1>21. ASSUME NEW c \in Conns, PlcClose(c)
      PROVE  TypeInv'
  <2>1. ThreadTypeOK'
    BY <1>t, <1>21, UnchangedTypes DEF PlcClose
  <2>2. NetTypeOK'
    BY <1>t, <1>21 DEF PlcClose, txVars, threadVars, NetTypeOK, Conns, NoConn
  <2>3. HistTypeOK'
    BY <1>t, <1>21, UnchangedTypes DEF PlcClose
  <2>4. FlowOK'
    BY <1>t, <1>21
       DEF PlcClose, txVars, threadVars, FlowOK, InExchange, TxTypeOK,
           ThreadTypeOK, NetTypeOK, Conns, NoConn
  <2> QED
    BY <1>t, <2>1, <2>2, <2>3, <2>4 DEF TypeInv, TypeOK
<1>22. CASE UNCHANGED vars
  <2>1. UNCHANGED <<txVars, threadVars, netVars, histVars>>
    BY <1>22 DEF vars, restVars
  <2>2. FlowOK'
    BY <1>t, <2>1 DEF FlowOK, InExchange, txVars, threadVars
  <2> QED
    BY <1>t, <2>1, <2>2, UnchangedTypes DEF TypeInv, TypeOK
<1> QED
  BY <1>1, <1>2, <1>3, <1>4, <1>5, <1>6, <1>7, <1>8, <1>9, <1>10, <1>11, <1>12,
     <1>13, <1>14, <1>15, <1>16, <1>17, <1>18, <1>19, <1>20, <1>21, <1>22
     DEF Next, Proceed, Connection, Plc, Done

\* The variables of transactions, connections and the PLC keep their types:
\* the chunks in flight are chunks of requests that were made, the retry
\* counters stay within their loops, and a send writes two chunks at most.
THEOREM McTypeCorrect == Spec => []TypeOK
<1>1. Spec => []IInv
  BY UsesTxLock, Invariance, PTL DEF ImplementsTxLock
<1>2. Init => TypeInv
  BY InitTypeInv
<1>3. TypeInv /\ IInv' /\ [Next]_vars => TypeInv'
  BY NextTypeInv
<1>4. TypeInv => TypeOK
  BY DEF TypeInv
<1> QED
  BY <1>1, <1>2, <1>3, <1>4, PTL DEF Spec

-----------------------------------------------------------------------------
(* However often a send is retried, and whatever is closed and opened       *)
(* meanwhile, the PLC carries a request out at most once, and never a        *)
(* request whose call says that it was not sent.                             *)

\* The steps of an exchange whose frame has been written as a whole.
SentSteps == {"write_ok", "header", "payload", "wait_header", "wait_payload"}

\* What a call has in ret before it knows its result.
RetOK ==
  \A t \in Threads :
    /\ pc[t] \in {"lock_g", "search", "claim", "unlock_g", "lock_tx"} => ret[t] = "none"
    /\ InExchange(t) /\ step[t] # "finish" => ret[t] = "none"
    /\ ret[t] # "none" => calls[t] # 0

\* Thread t's last call has not written its frame as a whole, and will not if it
\* has returned.
NotWritten(t) ==
  /\ ret[t] \in {"none", "FAILED", "SOCKET_SEND_FAILED"}
  /\ step[t] \notin SentSteps

Unsent(r) ==
  \/ r[2] > calls[r[1]]
  \/ r[2] = calls[r[1]] /\ NotWritten(r[1])

\* The end of r's frame is the k-th chunk on its way on connection c.
TailAt(c, k, r) ==
  c \in Conns /\ k \in 1 .. Len(toPlc[c]) /\ toPlc[c][k] = <<"tail", r>>

\* The end of a frame is sent once, by a call that does not fail to send, and is
\* on its way or has been taken by the PLC, never both.
TailsOK ==
  \A r \in Requests :
    /\ \A c, d \in Conns, k, l \in Nat :
         TailAt(c, k, r) /\ TailAt(d, l, r) => c = d /\ k = l
    /\ \A c \in Conns, k \in Nat : TailAt(c, k, r) => executed[r] = 0 /\ ~Unsent(r)
    /\ Unsent(r) => executed[r] = 0
    /\ executed[r] <= 1

OnceInv == RetOK /\ TailsOK

\* At the start nothing has been sent.
LEMMA InitOnce == Init => OnceInv
<1> SUFFICES ASSUME Init
             PROVE  OnceInv
  OBVIOUS
<1>1. RetOK
  BY DEF Init, TxInit, RetOK, InExchange
<1>2. \A c \in Conns, k \in Nat : \A r : ~TailAt(c, k, r)
  BY DEF Init, TailAt
<1> QED
  BY <1>1, <1>2 DEF Init, OnceInv, TailsOK

\* A step that neither sends nor takes chunks: it only has to leave alone what
\* has been sent.
LEMMA QuietStep ==
  ASSUME TailsOK, UNCHANGED <<toPlc, executed>>,
         \A r \in Requests : Unsent(r)' => Unsent(r)
  PROVE  TailsOK'
<1>1. \A c, k, r : TailAt(c, k, r)' <=> TailAt(c, k, r)
  BY DEF TailAt
<1> QED
  BY <1>1 DEF TailsOK

\* So does one that leaves the threads' calls alone.
LEMMA SameThreads ==
  ASSUME OnceInv, UNCHANGED <<pc, step, ret, calls, toPlc, executed>>
  PROVE  OnceInv'
<1>1. RetOK'
  BY DEF OnceInv, RetOK, InExchange
<1>2. \A r \in Requests : Unsent(r)' => Unsent(r)
  BY DEF Unsent, NotWritten
<1> QED
  BY <1>1, <1>2, QuietStep DEF OnceInv

\* A step of one thread that leaves the counts of calls alone.
LEMMA OneThread ==
  ASSUME TypeInv, TypeInv', OnceInv, NEW t \in Threads,
         \A u \in Threads \ {t} :
           pc'[u] = pc[u] /\ step'[u] = step[u] /\ ret'[u] = ret[u],
         UNCHANGED <<calls, toPlc, executed>>,
         NotWritten(t)' => NotWritten(t),
         pc'[t] \in {"lock_g", "search", "claim", "unlock_g", "lock_tx"} => ret'[t] = "none",
         InExchange(t)' /\ step'[t] # "finish" => ret'[t] = "none",
         ret'[t] # "none" => calls[t] # 0
  PROVE  OnceInv'
<1>1. RetOK'
  BY DEF OnceInv, RetOK, InExchange
<1>2. \A r \in Requests : r[1] \in Threads
  BY DEF Requests
<1>3. \A r \in Requests : Unsent(r)' => Unsent(r)
  BY <1>2 DEF Unsent, NotWritten
<1> QED
  BY <1>1, <1>3, QuietStep DEF OnceInv

\* The second search finds the slot that the first has found or claimed.
LEMMA UnlockFinds ==
  ASSUME IInv
  PROVE  \A t \in Threads : pc[t] = "unlock_g2" => tx[t] # NULL
BY DEF IInv, PointerIsValid, HolderOwns, FdIsKnown, Holding

\* The end of a frame is sent by a call that had not sent it before.
LEMMA SendOnce ==
  ASSUME TypeInv, TypeInv', OnceInv, NEW t \in Threads, SendChunk(t)
  PROVE  OnceInv'
<1> USE TransactionAssumption
<1> DEFINE c == conn[fd[t]]
           chunk == IF sent[t] = 0 THEN <<"head", Own(t)>> ELSE <<"tail", Own(t)>>
<1>t. ThreadTypeOK /\ NetTypeOK /\ HistTypeOK /\ FlowOK /\ RetOK /\ TailsOK
  BY DEF TypeInv, TypeOK, OnceInv
<1>1. /\ step[t] = "send"
      /\ step' = [step EXCEPT ![t] = IF sent[t] = 1 THEN "write_ok" ELSE "send"]
      /\ toPlc' = [toPlc EXCEPT ![c] = IF peerUp[c] THEN Append(toPlc[c], chunk) ELSE toPlc[c]]
      /\ UNCHANGED <<pc, ret, calls, executed>>
  BY DEF SendChunk, txVars
<1>2. c \in Conns /\ pc[t] # "idle"
  BY <1>t DEF SendChunk, FlowOK, InExchange, NetTypeOK, NoConn
<1>3. sent[t] \in {0, 1} /\ ret[t] = "none"
  BY <1>t, <1>1 DEF FlowOK, ThreadTypeOK, RetOK, InExchange
<1>4. Own(t) \in Requests
  BY <1>2, OwnIsRequest
<1>5. Unsent(Own(t))
  BY <1>1, <1>3 DEF Unsent, NotWritten, Own, SentSteps
<1>6. RetOK'
  BY <1>t, <1>1, <1>3 DEF RetOK, InExchange, ThreadTypeOK
<1>7. ASSUME NEW r \in Requests, Unsent(r)'
      PROVE  Unsent(r) /\ (sent[t] = 1 => r # Own(t))
  <2>1. r[1] \in Threads /\ r[2] \in Nat /\ calls[t] \in Nat
    BY <1>t DEF Requests, ThreadTypeOK
  <2>2. CASE r[1] = t
    <3>1. step'[t] = IF sent[t] = 1 THEN "write_ok" ELSE "send"
      BY <1>t, <1>1 DEF ThreadTypeOK
    <3>2. NotWritten(t) /\ (sent[t] = 1 => ~NotWritten(t)')
      BY <1>1, <1>3, <3>1 DEF NotWritten, SentSteps
    <3>3. r[2] > calls[t] \/ (r[2] = calls[t] /\ NotWritten(t)')
      BY <1>1, <1>7, <2>2 DEF Unsent
    <3>4. Unsent(r)
      BY <2>2, <3>2, <3>3 DEF Unsent
    <3>5. r = Own(t) => r[2] = calls[t]
      BY DEF Own
    <3> QED
      BY <2>1, <3>2, <3>3, <3>4, <3>5
  <2>3. CASE r[1] # t
    <3>1. step'[r[1]] = step[r[1]]
      BY <1>t, <1>1, <2>1, <2>3 DEF ThreadTypeOK
    <3> QED
      BY <1>1, <1>7, <2>3, <3>1 DEF Unsent, NotWritten, Own
  <2> QED
    BY <2>2, <2>3
<1>8. toPlc[c] \in Seq(FrameChunks) /\ Len(toPlc[c]) \in Nat
  BY <1>t, <1>2, LenProperties DEF NetTypeOK
<1>9. ASSUME NEW d \in Conns, NEW k \in Nat, NEW r \in Requests, TailAt(d, k, r)'
      PROVE  \/ TailAt(d, k, r)
             \/ d = c /\ k = Len(toPlc[c]) + 1 /\ r = Own(t) /\ sent[t] = 1
  <2>1. /\ k \in 1 .. Len(toPlc'[d]) /\ toPlc'[d][k] = <<"tail", r>>
    BY <1>9 DEF TailAt
  <2>2. CASE toPlc'[d] = toPlc[d]
    BY <2>1, <2>2 DEF TailAt
  <2>3. CASE toPlc'[d] # toPlc[d]
    <3>1. d = c /\ toPlc'[c] = Append(toPlc[c], chunk)
      BY <1>t, <1>1, <1>2, <2>3 DEF NetTypeOK
    <3>2. chunk \in FrameChunks
      BY <1>4 DEF FrameChunks
    <3>3. /\ Len(Append(toPlc[c], chunk)) = Len(toPlc[c]) + 1
          /\ \A j \in 1 .. Len(toPlc[c]) : Append(toPlc[c], chunk)[j] = toPlc[c][j]
          /\ Append(toPlc[c], chunk)[Len(toPlc[c]) + 1] = chunk
      BY <1>8, <3>2, AppendProperties
    <3>4. CASE k = Len(toPlc[c]) + 1
      <4>1. chunk = <<"tail", r>>
        BY <2>1, <3>1, <3>3, <3>4
      <4> QED
        BY <1>3, <3>1, <3>4, <4>1
    <3>5. CASE k # Len(toPlc[c]) + 1
      <4>1. k \in 1 .. Len(toPlc[c])
        BY <1>8, <2>1, <3>1, <3>3, <3>5
      <4> QED
        BY <2>1, <3>1, <3>3, <4>1 DEF TailAt
    <3> QED
      BY <3>4, <3>5
  <2> QED
    BY <2>2, <2>3
<1>10. TailsOK'
  <2> HIDE DEF c, chunk
  <2> SUFFICES ASSUME NEW r \in Requests
               PROVE  /\ \A d, e \in Conns, k, l \in Nat :
                           TailAt(d, k, r)' /\ TailAt(e, l, r)' => d = e /\ k = l
                      /\ \A d \in Conns, k \in Nat :
                           TailAt(d, k, r)' => executed'[r] = 0 /\ ~Unsent(r)'
                      /\ Unsent(r)' => executed'[r] = 0
                      /\ executed'[r] <= 1
    BY DEF TailsOK
  <2>1. \A d \in Conns, k \in Nat : ~TailAt(d, k, Own(t))
    BY <1>t, <1>4, <1>5 DEF TailsOK
  <2>2. executed[Own(t)] = 0
    BY <1>t, <1>4, <1>5 DEF TailsOK
  <2>3. executed' = executed
    BY <1>1
  <2>4. CASE r = Own(t)
    <3>1. \A d \in Conns, k \in Nat :
            TailAt(d, k, r)' => d = c /\ k = Len(toPlc[c]) + 1 /\ sent[t] = 1
      BY <1>9, <2>1, <2>4
    <3>2. sent[t] = 1 => ~Unsent(r)'
      BY <1>7, <2>4
    <3> QED
      BY <2>2, <2>3, <2>4, <3>1, <3>2
  <2>5. CASE r # Own(t)
    <3>1. \A d \in Conns, k \in Nat : TailAt(d, k, r)' => TailAt(d, k, r)
      BY <1>9, <2>5
    <3>2. Unsent(r)' => Unsent(r)
      BY <1>7
    <3> QED
      BY <1>t, <2>3, <3>1, <3>2 DEF TailsOK
  <2> QED
    BY <2>4, <2>5
<1> QED
  BY <1>6, <1>10 DEF OnceInv

\* What the PLC takes is gone: the end of a frame is not taken twice.
LEMMA TakeOnce ==
  ASSUME TypeInv, OnceInv, NEW c \in Conns, PlcTakeFrame(c)
  PROVE  OnceInv'
<1> USE TransactionAssumption
<1> DEFINE q == toPlc[c]
           r0 == q[1][2]
           whole == q[1][1] = "head" /\ q[2] = <<"tail", r0>>
<1>t. NetTypeOK /\ HistTypeOK /\ RetOK /\ TailsOK
  BY DEF TypeInv, TypeOK, OnceInv
<1>1. /\ Len(q) >= 2
      /\ toPlc' = [toPlc EXCEPT ![c] = SubSeq(q, 3, Len(q))]
      /\ executed' = IF whole THEN [executed EXCEPT ![r0] = executed[r0] + 1] ELSE executed
      /\ UNCHANGED <<pc, step, ret, calls>>
  <2>1. /\ Len(q) >= 2
        /\ toPlc' = [toPlc EXCEPT ![c] = SubSeq(q, 3, Len(q))]
        /\ UNCHANGED <<pc, step, ret, calls>>
    BY DEF PlcTakeFrame, txVars, threadVars
  <2>2. CASE PlcTakeWhole(c)
    <3>1. q[1] = <<"head", r0>> /\ q[2] = <<"tail", r0>>
      BY <2>2 DEF PlcTakeWhole
    <3>2. q[1][1] = "head"
      BY <3>1
    <3>3. executed' = [executed EXCEPT ![r0] = executed[r0] + 1]
      BY <2>2 DEF PlcTakeWhole
    <3> QED
      BY <2>1, <3>1, <3>2, <3>3
  <2>3. CASE PlcTakeCut(c)
    <3>1. ~whole /\ executed' = executed
      BY <2>3 DEF PlcTakeCut
    <3> HIDE DEF whole
    <3> QED
      BY <2>1, <3>1
  <2> QED
    BY <2>2, <2>3 DEF PlcTakeFrame
<1>2. q \in Seq(FrameChunks) /\ Len(q) \in Nat
  BY <1>t, LenProperties DEF NetTypeOK
<1>3. \A k \in 1 .. Len(q) : q[k] \in FrameChunks
  BY <1>2, ElementOfSeq
<1>4. r0 \in Requests
  BY <1>1, <1>2, <1>3 DEF FrameChunks
<1>5. RetOK'
  BY <1>t, <1>1 DEF RetOK, InExchange
<1>6. \A r \in Requests : Unsent(r)' <=> Unsent(r)
  BY <1>1 DEF Unsent, NotWritten
<1>7. ASSUME NEW d \in Conns, NEW k \in Nat, NEW r \in Requests, TailAt(d, k, r)'
      PROVE  TailAt(d, IF d = c THEN k + 2 ELSE k, r) /\ k >= 1
  <2>1. k \in 1 .. Len(toPlc'[d]) /\ toPlc'[d][k] = <<"tail", r>>
    BY <1>7 DEF TailAt
  <2>2. CASE d = c
    <3>1. toPlc'[d] = SubSeq(q, 3, Len(q))
      BY <1>t, <1>1, <2>2 DEF NetTypeOK
    <3>2. \A j \in 3 .. Len(q) : q[j] \in FrameChunks
      BY <1>2, <1>3
    <3>3. /\ Len(SubSeq(q, 3, Len(q))) = Len(q) - 2
          /\ \A j \in 1 .. Len(q) - 2 : SubSeq(q, 3, Len(q))[j] = q[3 + j - 1]
      BY <1>1, <1>2, <3>2, SubSeqProperties
    <3>4. k + 2 \in 1 .. Len(q) /\ q[k + 2] = <<"tail", r>>
      BY <1>2, <2>1, <3>1, <3>3
    <3> QED
      BY <2>1, <2>2, <3>4 DEF TailAt
  <2>3. CASE d # c
    <3>1. toPlc'[d] = toPlc[d]
      BY <1>t, <1>1, <2>3 DEF NetTypeOK
    <3> QED
      BY <2>1, <2>3, <3>1 DEF TailAt
  <2> QED
    BY <2>2, <2>3
<1>8. TailsOK'
  <2> HIDE DEF q, r0, whole
  <2> SUFFICES ASSUME NEW r \in Requests
               PROVE  /\ \A d, e \in Conns, k, l \in Nat :
                           TailAt(d, k, r)' /\ TailAt(e, l, r)' => d = e /\ k = l
                      /\ \A d \in Conns, k \in Nat :
                           TailAt(d, k, r)' => executed'[r] = 0 /\ ~Unsent(r)'
                      /\ Unsent(r)' => executed'[r] = 0
                      /\ executed'[r] <= 1
    BY DEF TailsOK
  <2>1. ASSUME NEW d \in Conns, NEW e \in Conns, NEW k \in Nat, NEW l \in Nat,
               TailAt(d, k, r)', TailAt(e, l, r)'
        PROVE  d = e /\ k = l
    <3>1. /\ TailAt(d, IF d = c THEN k + 2 ELSE k, r)
          /\ TailAt(e, IF e = c THEN l + 2 ELSE l, r)
      BY <1>7, <2>1
    <3>2. d = e /\ (IF d = c THEN k + 2 ELSE k) = (IF e = c THEN l + 2 ELSE l)
      BY <1>t, <3>1 DEF TailsOK
    <3> QED
      BY <3>2
  <2>2. CASE whole /\ r = r0
    <3>1. TailAt(c, 2, r)
      BY <1>1, <1>2, <2>2 DEF TailAt, whole, q
    <3>2. executed[r] = 0 /\ ~Unsent(r)
      BY <1>t, <3>1 DEF TailsOK
    <3>3. executed'[r] = 1
      BY <1>t, <1>1, <2>2, <3>2 DEF HistTypeOK
    <3>4. ASSUME NEW d \in Conns, NEW k \in Nat, TailAt(d, k, r)'
          PROVE  FALSE
      <4>1. TailAt(d, IF d = c THEN k + 2 ELSE k, r) /\ k >= 1
        BY <1>7, <3>4
      <4>2. d = c /\ (IF d = c THEN k + 2 ELSE k) = 2
        BY <1>t, <3>1, <4>1 DEF TailsOK
      <4> QED
        BY <4>1, <4>2
    <3> QED
      BY <1>6, <2>1, <3>2, <3>3, <3>4
  <2>3. CASE ~(whole /\ r = r0)
    <3>1. executed'[r] = executed[r]
      BY <1>t, <1>1, <2>3 DEF HistTypeOK
    <3>2. \A d \in Conns, k \in Nat : TailAt(d, k, r)' => executed[r] = 0 /\ ~Unsent(r)
      BY <1>t, <1>7 DEF TailsOK
    <3>3. (Unsent(r) => executed[r] = 0) /\ executed[r] <= 1
      BY <1>t DEF TailsOK
    <3> QED
      BY <1>6, <2>1, <3>1, <3>2, <3>3
  <2> QED
    BY <2>2, <2>3
<1> QED
  BY <1>5, <1>8 DEF OnceInv

\* Every step preserves it.
LEMMA NextOnce == TypeInv /\ TypeInv' /\ IInv /\ OnceInv /\ [Next]_vars => OnceInv'
<1> SUFFICES ASSUME TypeInv, TypeInv', IInv, OnceInv, [Next]_vars
             PROVE  OnceInv'
  OBVIOUS
<1> USE TransactionAssumption, TxAssumption
<1>t. /\ TxTypeOK /\ TxTypeOK' /\ ThreadTypeOK /\ ThreadTypeOK'
      /\ NetTypeOK /\ HistTypeOK /\ FlowOK
  BY DEF TypeInv, TypeOK
<1>r. RetOK /\ TailsOK
  BY DEF OnceInv
\* A new call has not sent anything, and its request is a new one.
<1>1. ASSUME NEW t \in Threads, NEW f \in Fds, Call(t, f)
      PROVE  OnceInv'
  <2>1. /\ calls' = [calls EXCEPT ![t] = calls[t] + 1]
        /\ ret' = [ret EXCEPT ![t] = "none"]
        /\ pc' = [pc EXCEPT ![t] = "lock_g"]
        /\ UNCHANGED <<step, toPlc, executed>>
        /\ step[t] = "none"
    BY <1>1 DEF Call, Begin, Goto, netVars
  <2>2. calls[t] \in Nat
    BY <1>t DEF ThreadTypeOK
  <2>3. RetOK'
    BY <1>t, <1>r, <2>1, <2>2 DEF RetOK, InExchange, TxTypeOK, ThreadTypeOK
  <2>4. ASSUME NEW r \in Requests, Unsent(r)'
        PROVE  Unsent(r)
    <3>1. r[1] \in Threads /\ r[2] \in Nat
      BY DEF Requests
    <3>2. CASE r[1] = t
      <4>1. calls'[t] = calls[t] + 1
        BY <1>t, <2>1 DEF ThreadTypeOK
      <4> QED
        BY <2>2, <2>4, <3>1, <3>2, <4>1 DEF Unsent
    <3>3. CASE r[1] # t
      <4>1. calls'[r[1]] = calls[r[1]] /\ ret'[r[1]] = ret[r[1]]
        BY <1>t, <2>1, <3>1, <3>3 DEF ThreadTypeOK
      <4> QED
        BY <2>1, <2>4, <4>1 DEF Unsent, NotWritten
    <3> QED
      BY <3>2, <3>3
  <2> QED
    BY <1>r, <2>1, <2>3, <2>4, QuietStep DEF OnceInv
<1>2. ASSUME NEW t \in Threads, TableStep(t)
      PROVE  OnceInv'
  <2>1. /\ UNCHANGED <<calls, toPlc, executed, step, ret>>
        /\ pc[t] \in {"lock_g", "search", "claim", "lock_g2", "find"}
        /\ pc'[t] \in {"search", "find", "claim", "unlock_g", "unlock_g2"}
        /\ pc'[t] \in {"search", "claim", "unlock_g"} =>
             pc[t] \in {"lock_g", "search", "claim"}
        /\ \A u \in Threads \ {t} : pc'[u] = pc[u]
    BY <1>2, <1>t
       DEF TableStep, LockTable, SearchSlot, ClaimSlot, ClaimFails, FindSlot, Goto,
           restVars, threadVars, netVars, histVars, TxTypeOK
  <2>2. /\ NotWritten(t)' => NotWritten(t)
        /\ pc'[t] \in {"lock_g", "search", "claim", "unlock_g", "lock_tx"} => ret'[t] = "none"
        /\ InExchange(t)' /\ step'[t] # "finish" => ret'[t] = "none"
        /\ ret'[t] # "none" => calls[t] # 0
    BY <1>r, <2>1 DEF NotWritten, RetOK, InExchange
  <2> QED
    BY <2>1, <2>2, OneThread
\* The unlock always finds its mutex, so no success becomes a failure.
<1>3. ASSUME NEW t \in Threads, LeaveTable(t)
      PROVE  OnceInv'
  <2>1. /\ UNCHANGED <<calls, toPlc, executed, step>>
        /\ ret' = [ret EXCEPT ![t] = IF tx[t] = NULL /\ ret[t] \in {"none", "SUCCESS"}
                                       THEN "FAILED" ELSE ret[t]]
        /\ \/ /\ pc[t] = "unlock_g"
              /\ pc' = [pc EXCEPT ![t] = IF tx[t] = NULL THEN "idle" ELSE "lock_tx"]
           \/ /\ pc[t] = "unlock_g2"
              /\ pc' = [pc EXCEPT ![t] = IF tx[t] = NULL THEN "idle" ELSE "unlock_tx"]
    BY <1>3 DEF LeaveTable, UnlockTable, Goto, netVars, histVars
  <2>2. pc[t] = "unlock_g2" => tx[t] # NULL
    BY UnlockFinds
  <2>3. ~InExchange(t) /\ calls[t] # 0
    BY <1>t, <2>1 DEF FlowOK
  <2>4. /\ \A u \in Threads \ {t} :
             pc'[u] = pc[u] /\ step'[u] = step[u] /\ ret'[u] = ret[u]
        /\ pc[t] = "unlock_g" => ret[t] = "none"
        /\ ret'[t] = IF tx[t] = NULL /\ ret[t] \in {"none", "SUCCESS"}
                       THEN "FAILED" ELSE ret[t]
        /\ pc'[t] \in {"idle", "lock_tx", "unlock_tx"}
        /\ pc'[t] = "lock_tx" => pc[t] = "unlock_g" /\ tx[t] # NULL
    BY <1>t, <1>r, <2>1 DEF TxTypeOK, ThreadTypeOK, RetOK
  <2>5. /\ NotWritten(t)' => NotWritten(t)
        /\ pc'[t] \in {"lock_g", "search", "claim", "unlock_g", "lock_tx"} => ret'[t] = "none"
        /\ InExchange(t)' /\ step'[t] # "finish" => ret'[t] = "none"
        /\ ret'[t] # "none" => calls[t] # 0
    BY <1>r, <2>1, <2>2, <2>3, <2>4 DEF NotWritten, RetOK, InExchange
  <2> QED
    BY <2>1, <2>4, <2>5, OneThread
<1>4. ASSUME NEW t \in Threads,
             \/ StartExchange(t) \/ FinishExchange(t) \/ Return(t) \/ StartWrite(t)
             \/ SendFails(t) \/ WriteDone(t) \/ WriteRetry(t) \/ EnterRecv(t)
             \/ ReadHeader(t) \/ ReadPayload(t) \/ ReadFails(t)
      PROVE  OnceInv'
  <2>1. UNCHANGED <<calls, toPlc, executed>>
    BY <1>4
       DEF StartExchange, FinishExchange, Return, StartWrite, SendFails, WriteDone,
           WriteRetry, EnterRecv, ReadHeader, ReadPayload, ReadFails, Consume,
           restVars, threadVars, netVars, histVars
  <2>2. \A u \in Threads \ {t} :
          pc'[u] = pc[u] /\ step'[u] = step[u] /\ ret'[u] = ret[u]
    <3>1. CASE StartExchange(t) \/ FinishExchange(t) \/ Return(t)
      BY <3>1, <1>t
         DEF StartExchange, FinishExchange, Return, LockTx, BeginUnlock, UnlockTx, Goto,
             restVars, threadVars, TxTypeOK, ThreadTypeOK
    <3>2. CASE StartWrite(t) \/ SendFails(t) \/ WriteDone(t)
      BY <3>2, <1>t
         DEF StartWrite, SendFails, WriteDone, LockWrite, UnlockWrite, txVars, ThreadTypeOK
    <3>3. CASE WriteRetry(t)
      BY <3>3, <1>t DEF WriteRetry, UnlockWrite, Ends, ThreadTypeOK
    <3>4. CASE EnterRecv(t)
      BY <3>4, <1>t DEF EnterRecv, Ends, txVars, ThreadTypeOK
    <3>5. CASE ReadHeader(t) \/ ReadPayload(t) \/ ReadFails(t)
      BY <3>5, <1>t DEF ReadHeader, ReadPayload, ReadFails, Ends, txVars, ThreadTypeOK
    <3> QED
      BY <1>4, <3>1, <3>2, <3>3, <3>4, <3>5
  <2>3. /\ NotWritten(t)' => NotWritten(t)
        /\ pc'[t] \in {"lock_g", "search", "claim", "unlock_g", "lock_tx"} => ret'[t] = "none"
        /\ InExchange(t)' /\ step'[t] # "finish" => ret'[t] = "none"
        /\ ret'[t] # "none" => calls[t] # 0
    <3>1. CASE StartExchange(t)
      BY <1>t, <1>r, <3>1
         DEF StartExchange, LockTx, Goto, TxTypeOK, ThreadTypeOK, FlowOK, RetOK, NotWritten,
             SentSteps, InExchange
    <3>2. CASE FinishExchange(t)
      BY <1>t, <1>r, <3>2
         DEF FinishExchange, BeginUnlock, Goto, TxTypeOK, ThreadTypeOK, FlowOK, RetOK,
             NotWritten, SentSteps, InExchange
    <3>3. CASE Return(t)
      BY <1>t, <1>r, <3>3
         DEF Return, UnlockTx, Goto, restVars, threadVars, TxTypeOK, ThreadTypeOK, FlowOK,
             RetOK, NotWritten, SentSteps, InExchange
    <3>4. CASE StartWrite(t) \/ SendFails(t)
      BY <1>t, <1>r, <3>4
         DEF StartWrite, SendFails, LockWrite, txVars, TxTypeOK, ThreadTypeOK, FlowOK,
             RetOK, NotWritten, SentSteps, InExchange
    <3>5. CASE WriteDone(t)
      BY <1>t, <1>r, <3>5
         DEF WriteDone, UnlockWrite, TxTypeOK, ThreadTypeOK, FlowOK, RetOK, NotWritten,
             SentSteps, InExchange
    <3>6. CASE WriteRetry(t)
      BY <1>t, <1>r, <3>6
         DEF WriteRetry, UnlockWrite, Ends, TxTypeOK, ThreadTypeOK, FlowOK, RetOK,
             NotWritten, SentSteps, InExchange
    <3>7. CASE EnterRecv(t) \/ ReadHeader(t) \/ ReadPayload(t) \/ ReadFails(t)
      <4>1. /\ step[t] \in SentSteps /\ pc'[t] = pc[t] /\ pc[t] = "held"
            /\ \/ step'[t] \in SentSteps /\ ret'[t] = ret[t]
               \/ /\ step'[t] = "finish"
                  /\ ret'[t] \in { "SUCCESS", "SOCKET_RECV_FAILED", "CONNECTION_CLOSED",
                                   "RESPONSE_HEADER_FAILED", "MALLOC_FAILED" }
        BY <1>t, <3>7
           DEF EnterRecv, ReadHeader, ReadPayload, ReadFails, Ends, txVars, ThreadTypeOK,
               FlowOK, SentSteps, InExchange
      <4>2. calls[t] # 0
        BY <1>t, <4>1 DEF FlowOK
      <4> QED
        BY <1>r, <4>1, <4>2 DEF RetOK, NotWritten, SentSteps, InExchange
    <3> QED
      BY <1>4, <3>1, <3>2, <3>3, <3>4, <3>5, <3>6, <3>7
  <2> QED
    BY <2>1, <2>2, <2>3, OneThread
<1>5. ASSUME NEW t \in Threads, SendChunk(t)
      PROVE  OnceInv'
  BY <1>5, SendOnce
<1>6. ASSUME NEW t \in Threads, Connection(t)
      PROVE  OnceInv'
  <2>1. CASE \E f \in Fds : Disconnect(t, f)
    BY <2>1, SameThreads DEF Disconnect, txVars, threadVars, histVars
  <2>2. CASE StartConnect(t) \/ OpenSocket(t)
    <3>1. /\ UNCHANGED <<pc, ret, calls, toPlc, executed>>
          /\ step'[t] \in {"none", "open"}
          /\ step[t] \in {"none", "open"}
          /\ \A u \in Threads \ {t} : step'[u] = step[u]
      BY <1>t, <2>2 DEF StartConnect, OpenSocket, txVars, netVars, histVars, ThreadTypeOK
    <3>2. /\ NotWritten(t)' => NotWritten(t)
          /\ pc'[t] \in {"lock_g", "search", "claim", "unlock_g", "lock_tx"} => ret'[t] = "none"
          /\ InExchange(t)' /\ step'[t] # "finish" => ret'[t] = "none"
          /\ ret'[t] # "none" => calls[t] # 0
      BY <1>r, <3>1 DEF NotWritten, RetOK, InExchange, SentSteps
    <3> QED
      BY <3>1, <3>2, OneThread
  <2> QED
    BY <1>6, <2>1, <2>2 DEF Connection
<1>7. ASSUME NEW c \in Conns, PlcTakeFrame(c)
      PROVE  OnceInv'
  BY <1>7, TakeOnce
<1>8. ASSUME NEW c \in Conns, PlcSend(c) \/ PlcClose(c)
      PROVE  OnceInv'
  BY <1>8, SameThreads DEF PlcSend, PlcClose, txVars, threadVars, histVars
<1>9. CASE UNCHANGED vars
  BY <1>9, SameThreads DEF vars, txVars, restVars, threadVars, netVars, histVars
<1> QED
  BY <1>1, <1>2, <1>3, <1>4, <1>5, <1>6, <1>7, <1>8, <1>9
     DEF Next, Proceed, Connection, Plc, Done

\* However often a frame is sent again, the PLC carries a request out at most once:
\* for any number of threads, connections, retries and calls.
THEOREM ExecutesOnce == Spec => []AtMostOnce
<1>1. Spec => []IInv
  BY UsesTxLock, Invariance, PTL DEF ImplementsTxLock
<1>2. Init => TypeInv /\ OnceInv
  BY InitTypeInv, InitOnce
<1>3. TypeInv /\ IInv' /\ [Next]_vars => TypeInv'
  BY NextTypeInv
<1>4. TypeInv /\ TypeInv' /\ IInv /\ OnceInv /\ [Next]_vars => OnceInv'
  BY NextOnce
<1>5. OnceInv => AtMostOnce
  BY DEF OnceInv, TailsOK, AtMostOnce
<1> QED
  BY <1>1, <1>2, <1>3, <1>4, <1>5, PTL DEF Spec

\* A call that returns that it could not send, or got no lock, is not carried out as
\* it was issued, neither before it returns nor later.
LEMMA FailedNotExecuted ==
  ASSUME TypeInv, OnceInv, NEW t \in Threads,
         ret[t] \in {"FAILED", "SOCKET_SEND_FAILED"}
  PROVE  executed[Own(t)] = 0
<1>1. step[t] \notin SentSteps /\ calls[t] # 0
  BY DEF OnceInv, RetOK, InExchange, SentSteps
<1>2. Own(t) \in Requests
  BY <1>1, TransactionAssumption DEF TypeInv, TypeOK, ThreadTypeOK, Own, Requests
<1>3. Unsent(Own(t))
  BY <1>1 DEF Unsent, NotWritten, Own
<1> QED
  BY <1>2, <1>3 DEF OnceInv, TailsOK
=============================================================================
