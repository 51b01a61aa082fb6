---------------------------- MODULE McTransaction ----------------------------
(***************************************************************************)
(* Request/response transactions over TCP connections.                     *)
(*                                                                         *)
(*   mc_send_and_receive_transaction, mc_recv_exact, mc_read_response,     *)
(*   mc_connect, mc_disconnect      melsec_mc_bin.c                        *)
(*   mc_try_send_msg                melsec_helper.c                        *)
(*   mc_write_msg, open and close   socket.c                               *)
(*                                                                         *)
(* (melsec_mc_ascii.c has the same functions over its own lock table.)     *)
(* A transaction runs between the lock and the unlock of TxLock, at its    *)
(* location "held"; step[t] says where inside.  Frames are cut to the      *)
(* grain at which the code can lose its place in the byte stream: a        *)
(* request is a "head" and a "tail", which one send may part; a response   *)
(* is a "header" (the bytes mc_read_response reads first) that may         *)
(* announce a "payload".  A descriptor names a connection, a connection    *)
(* has a number that is never used again, and the descriptor of a closed   *)
(* connection is given out again by the next connect.                      *)
(*                                                                         *)
(* The PLC and the network are external: they may be slow, split, stop or  *)
(* close, but TCP does not lose, repeat or reorder bytes.                  *)
(***************************************************************************)
EXTENDS TxLock, Sequences

CONSTANTS RetryCount,    \* config.retry_count, 3 by default
          MaxRetryTimes, \* MAX_RETRY_TIMES, 3 in the code
          MaxCalls,      \* bound: transactions of a thread
          MaxConns,      \* bound: connections opened
          NoRequest      \* no request, or the answer to a misframed one

ASSUME TransactionAssumption ==
  /\ RetryCount \in Nat
  /\ MaxRetryTimes \in Nat \ {0}
  /\ MaxCalls \in Nat
  /\ MaxConns \in Nat
  /\ NoRequest \notin Threads \X (1 .. MaxCalls)

VARIABLES
  step,        \* step[t]: where t is inside its exchange (or mc_connect)
  i,           \* i[t]: the loop of mc_send_and_receive_transaction
  retry_times, \* retry_times[t]: the loop of mc_try_send_msg
  sent,        \* sent[t]: chunks written so far by this call of mc_write_msg
  sock,        \* sock[t]: the connection t's blocked recv waits on
  ret,         \* ret[t]: result of its last transaction
  reply,       \* reply[t]: the request its response answers
  calls,       \* calls[t]: transactions it has begun
  conn,        \* conn[f]: the connection descriptor f names
  opened,      \* number of connections opened so far
  toPlc,       \* toPlc[c]: chunks sent and not yet taken by the PLC
  plcOut,      \* plcOut[c]: what the PLC still has to send of its answer
  toClient,    \* toClient[c]: chunks that recv will return
  peerUp,      \* peerUp[c]: the PLC has not closed the connection
  \* history
  executed,    \* executed[r]: how often the PLC has carried out r as issued
  mangled,     \* requests of which it took bytes in another frame, carried out or not
  fault,       \* fault[c]: on c a frame was cut or a response not read whole
  touched      \* touched[t]: connections its transaction sent on or read from

threadVars == <<step, i, retry_times, sent, sock, ret, reply, calls>>
netVars == <<conn, opened, toPlc, plcOut, toClient, peerUp>>
histVars == <<executed, mangled, fault, touched>>
restVars == <<threadVars, netVars, histVars>>
vars == <<txVars, restVars>>

Conns == 1 .. MaxConns
NoConn == 0
Requests == Threads \X (1 .. MaxCalls)
Own(t) == <<t, calls[t]>>

Steps ==
  { "none", "open",               \* no exchange; mc_connect before the socket
    "write_lock",                 \* mc_write_msg before mc_mutex_lock(&g)
    "send",                       \* its loop
    "write_ok", "write_err",      \* before its unlock, all or not all sent
    "header", "payload",          \* before recv
    "wait_header", "wait_payload",\* in recv
    "finish" }                    \* the result is known

Results == { "none", "SUCCESS", "FAILED", "SOCKET_SEND_FAILED",
             "SOCKET_RECV_FAILED", "CONNECTION_CLOSED",
             "RESPONSE_HEADER_FAILED", "MALLOC_FAILED" }

FrameChunks == {"head", "tail"} \X Requests
ResponseChunks ==
  [part : {"header", "payload"}, req : Requests \cup {NoRequest}, more : BOOLEAN]

ThreadTypeOK ==
  /\ step \in [Threads -> Steps]
  /\ i \in [Threads -> 0 .. RetryCount]
  /\ retry_times \in [Threads -> 0 .. MaxRetryTimes - 1]
  /\ sent \in [Threads -> 0 .. 2]
  /\ sock \in [Threads -> Conns \cup {NoConn}]
  /\ ret \in [Threads -> Results]
  /\ reply \in [Threads -> Requests \cup {NoRequest}]
  /\ calls \in [Threads -> 0 .. MaxCalls]

NetTypeOK ==
  /\ conn \in [Fds -> Conns \cup {NoConn}]
  /\ opened \in 0 .. MaxConns
  /\ toPlc \in [Conns -> Seq(FrameChunks)]
  /\ plcOut \in [Conns -> Seq(ResponseChunks)]
  /\ toClient \in [Conns -> Seq(ResponseChunks)]
  /\ peerUp \in [Conns -> BOOLEAN]

HistTypeOK ==
  /\ executed \in [Requests -> Nat]
  /\ mangled \in SUBSET Requests
  /\ fault \in [Conns -> BOOLEAN]
  /\ touched \in [Threads -> SUBSET Conns]

TypeOK == TxTypeOK /\ ThreadTypeOK /\ NetTypeOK /\ HistTypeOK

Init ==
  /\ TxInit
  /\ step = [t \in Threads |-> "none"]
  /\ i = [t \in Threads |-> 0]
  /\ retry_times = [t \in Threads |-> 0]
  /\ sent = [t \in Threads |-> 0]
  /\ sock = [t \in Threads |-> NoConn]
  /\ ret = [t \in Threads |-> "none"]
  /\ reply = [t \in Threads |-> NoRequest]
  /\ calls = [t \in Threads |-> 0]
  /\ conn = [f \in Fds |-> NoConn]
  /\ opened = 0
  /\ toPlc = [c \in Conns |-> <<>>]
  /\ plcOut = [c \in Conns |-> <<>>]
  /\ toClient = [c \in Conns |-> <<>>]
  /\ peerUp = [c \in Conns |-> TRUE]
  /\ executed = [r \in Requests |-> 0]
  /\ mangled = {}
  /\ fault = [c \in Conns |-> FALSE]
  /\ touched = [t \in Threads |-> {}]

-----------------------------------------------------------------------------
(* The lock around an exchange: steps of TxLock. *)

\* mc_send_and_receive_transaction is called on a connection that is open;
\* another thread may close it from here on.
Call(t, f) ==
  /\ step[t] = "none"
  /\ conn[f] # NoConn
  /\ calls[t] < MaxCalls
  /\ Begin(t, f)
  /\ calls' = [calls EXCEPT ![t] = @ + 1]
  /\ ret' = [ret EXCEPT ![t] = "none"]
  /\ reply' = [reply EXCEPT ![t] = NoRequest]
  /\ touched' = [touched EXCEPT ![t] = {}]
  /\ UNCHANGED <<step, i, retry_times, sent, sock, netVars, executed,
                 mangled, fault>>

TableStep(t) ==
  /\ LockTable(t) \/ SearchSlot(t) \/ ClaimSlot(t) \/ ClaimFails(t) \/ FindSlot(t)
  /\ UNCHANGED restVars

\* Without a tx_mutex the call ends with FAILED; an unlock that fails turns
\* SUCCESS into FAILED.
LeaveTable(t) ==
  /\ UnlockTable(t)
  /\ ret' = [ret EXCEPT ![t] =
               IF tx[t] = NULL /\ @ \in {"none", "SUCCESS"} THEN "FAILED" ELSE @]
  /\ UNCHANGED <<step, i, retry_times, sent, sock, reply, calls, netVars, histVars>>

\* The lock is taken, the configuration read and both loops are entered.
StartExchange(t) ==
  /\ LockTx(t)
  /\ step' = [step EXCEPT ![t] = "write_lock"]
  /\ i' = [i EXCEPT ![t] = 0]
  /\ retry_times' = [retry_times EXCEPT ![t] = 0]
  /\ UNCHANGED <<sent, sock, ret, reply, calls, netVars, histVars>>

FinishExchange(t) ==
  /\ step[t] = "finish"
  /\ BeginUnlock(t)
  /\ step' = [step EXCEPT ![t] = "none"]
  /\ UNCHANGED <<i, retry_times, sent, sock, ret, reply, calls, netVars, histVars>>

Return(t) == UnlockTx(t) /\ UNCHANGED restVars

-----------------------------------------------------------------------------
\* The result of the exchange is known; the unlock comes next.
Ends(t, result) ==
  /\ ret' = [ret EXCEPT ![t] = result]
  /\ step' = [step EXCEPT ![t] = "finish"]

(* Sending: mc_try_send_msg and mc_write_msg. *)

\* Mutated form: g_connection_mutex is not waited for.
StartWriteUnguarded(t) ==
  /\ step[t] = "write_lock"
  /\ gOwner' = t
  /\ step' = [step EXCEPT ![t] = "send"]
  /\ sent' = [sent EXCEPT ![t] = 0]
  /\ UNCHANGED <<slots, txOwner, pc, fd, tx>>
  /\ UNCHANGED <<i, retry_times, sock, ret, reply, calls, netVars, histVars>>

\* Mutated form: a retry goes on where the failed send stopped.
StartWriteResume(t) ==
  /\ step[t] = "write_lock"
  /\ LockWrite(t)
  /\ step' = [step EXCEPT ![t] = "send"]
  /\ sent' = [sent EXCEPT ![t] = @ % 2]
  /\ UNCHANGED <<i, retry_times, sock, ret, reply, calls, netVars, histVars>>

StartWrite(t) ==
  /\ step[t] = "write_lock"
  /\ LockWrite(t)
  /\ step' = [step EXCEPT ![t] = "send"]
  /\ sent' = [sent EXCEPT ![t] = 0]
  /\ UNCHANGED <<i, retry_times, sock, ret, reply, calls, netVars, histVars>>

\* send() takes the next chunk; what is sent to a closed peer is lost.
SendChunk(t) ==
  LET c == conn[fd[t]]
      chunk == IF sent[t] = 0 THEN <<"head", Own(t)>> ELSE <<"tail", Own(t)>>
  IN  /\ step[t] = "send"
      /\ c # NoConn
      /\ sent' = [sent EXCEPT ![t] = @ + 1]
      /\ step' = [step EXCEPT ![t] = IF sent[t] = 1 THEN "write_ok" ELSE "send"]
      /\ toPlc' = [toPlc EXCEPT ![c] = IF peerUp[c] THEN Append(@, chunk) ELSE @]
      /\ touched' = [touched EXCEPT ![t] = @ \cup {c}]
      /\ UNCHANGED <<txVars, i, retry_times, sock, ret, reply, calls,
                     conn, opened, plcOut, toClient, peerUp, executed,
                     mangled, fault>>

\* send() fails: closed descriptor, send timeout, reset.  After a first chunk
\* this leaves a cut frame on the connection.
SendFails(t) ==
  /\ step[t] = "send"
  /\ step' = [step EXCEPT ![t] = "write_err"]
  /\ fault' = [c \in Conns |-> fault[c] \/ (c = conn[fd[t]] /\ sent[t] > 0)]
  /\ UNCHANGED <<txVars, i, retry_times, sent, sock, ret, reply, calls, netVars,
                 executed, mangled, touched>>

\* Mutated form: the break of mc_try_send_msg is missing.
WriteDoneNoBreak(t) ==
  /\ step[t] = "write_ok"
  /\ UnlockWrite(t)
  /\ IF retry_times[t] + 1 < MaxRetryTimes
       THEN /\ retry_times' = [retry_times EXCEPT ![t] = @ + 1]
            /\ step' = [step EXCEPT ![t] = "write_lock"]
       ELSE /\ step' = [step EXCEPT ![t] = "header"]
            /\ UNCHANGED retry_times
  /\ UNCHANGED <<i, sent, sock, ret, reply, calls, netVars, histVars>>

\* Mutated form: a success at the last attempt counts as a failure.
WriteDoneLastFails(t) ==
  /\ step[t] = "write_ok"
  /\ UnlockWrite(t)
  /\ IF retry_times[t] + 1 = MaxRetryTimes /\ i[t] = RetryCount
       THEN Ends(t, "SOCKET_SEND_FAILED")
       ELSE /\ step' = [step EXCEPT ![t] = "header"]
            /\ UNCHANGED ret
  /\ UNCHANGED <<i, retry_times, sent, sock, reply, calls, netVars, histVars>>

\* The whole frame is written: both loops are left and the response is read.
WriteDone(t) ==
  /\ step[t] = "write_ok"
  /\ UnlockWrite(t)
  /\ step' = [step EXCEPT ![t] = "header"]
  /\ UNCHANGED <<i, retry_times, sent, sock, ret, reply, calls, netVars, histVars>>

\* Mutated form: i <= config.retry_count is tested before the last increment.
WriteRetryOnceMore(t) ==
  /\ step[t] = "write_err"
  /\ UnlockWrite(t)
  /\ \/ /\ i[t] <= RetryCount
        /\ i' = [i EXCEPT ![t] = @ + 1]
        /\ step' = [step EXCEPT ![t] = "write_lock"]
        /\ UNCHANGED <<ret, retry_times>>
     \/ /\ i[t] > RetryCount
        /\ Ends(t, "SOCKET_SEND_FAILED")
        /\ UNCHANGED <<i, retry_times>>
  /\ UNCHANGED <<sent, sock, reply, calls, netVars, histVars>>

\* Mutated form: retry_times++ is missing.
WriteRetryForever(t) ==
  /\ step[t] = "write_err"
  /\ UnlockWrite(t)
  /\ step' = [step EXCEPT ![t] = "write_lock"]
  /\ UNCHANGED <<i, retry_times, ret, sent, sock, reply, calls, netVars, histVars>>

\* Not all of the frame is written: the whole frame is tried again, up to
\* MaxRetryTimes times by mc_try_send_msg, which is called up to
\* RetryCount + 1 times (usleep in between).
WriteRetry(t) ==
  /\ step[t] = "write_err"
  /\ UnlockWrite(t)
  /\ \/ /\ retry_times[t] + 1 < MaxRetryTimes
        /\ retry_times' = [retry_times EXCEPT ![t] = @ + 1]
        /\ step' = [step EXCEPT ![t] = "write_lock"]
        /\ UNCHANGED <<i, ret>>
     \/ /\ retry_times[t] + 1 = MaxRetryTimes
        /\ i[t] < RetryCount
        /\ i' = [i EXCEPT ![t] = @ + 1]
        /\ retry_times' = [retry_times EXCEPT ![t] = 0]
        /\ step' = [step EXCEPT ![t] = "write_lock"]
        /\ UNCHANGED ret
     \/ /\ retry_times[t] + 1 = MaxRetryTimes
        /\ i[t] = RetryCount
        /\ Ends(t, "SOCKET_SEND_FAILED")
        /\ UNCHANGED <<i, retry_times>>
  /\ UNCHANGED <<sent, sock, reply, calls, netVars, histVars>>

-----------------------------------------------------------------------------
(* Receiving: mc_recv_exact and mc_read_response. *)

\* recv() looks its descriptor up once and then waits on that connection, even
\* if the descriptor is closed meanwhile.
EnterRecv(t) ==
  LET c == conn[fd[t]]
  IN  /\ step[t] \in {"header", "payload"}
      /\ \/ /\ c = NoConn
            /\ Ends(t, "SOCKET_RECV_FAILED")
            /\ UNCHANGED <<sock, touched>>
         \/ /\ c # NoConn
            /\ sock' = [sock EXCEPT ![t] = c]
            /\ touched' = [touched EXCEPT ![t] = @ \cup {c}]
            /\ step' = [step EXCEPT ![t] = IF @ = "header" THEN "wait_header"
                                                          ELSE "wait_payload"]
            /\ UNCHANGED ret
      /\ UNCHANGED <<txVars, i, retry_times, sent, reply, calls, netVars,
                     executed, mangled, fault>>

Consume(t) ==
  /\ toClient[sock[t]] # <<>>
  /\ toClient' = [toClient EXCEPT ![sock[t]] = Tail(@)]
  /\ UNCHANGED <<conn, opened, toPlc, plcOut, peerUp>>

Failed(t) == fault' = [fault EXCEPT ![sock[t]] = TRUE]

\* Mutated form: remain is taken for 0 and the payload stays in the socket.
ReadHeaderOnly(t) ==
  /\ step[t] = "wait_header"
  /\ Consume(t)
  /\ reply' = [reply EXCEPT ![t] = Head(toClient[sock[t]]).req]
  /\ Ends(t, "SUCCESS")
  /\ UNCHANGED <<txVars, i, retry_times, sent, sock, calls, histVars>>

\* mc_read_response takes the next bytes for a header, whatever they are: it
\* does not look whose answer it is, and the bytes of a payload left behind
\* give any length field.
ReadHeader(t) ==
  /\ step[t] = "wait_header"
  /\ Consume(t)
  /\ LET x == Head(toClient[sock[t]])
         more == IF x.part = "header" THEN {x.more} ELSE BOOLEAN
     IN  /\ reply' = [reply EXCEPT ![t] = x.req]
         /\ \/ /\ TRUE \in more
               /\ step' = [step EXCEPT ![t] = "payload"]
               /\ UNCHANGED <<ret, fault>>
            \/ /\ FALSE \in more
               /\ Ends(t, "SUCCESS")
               /\ UNCHANGED fault
            \/ x.part = "payload" /\ Ends(t, "RESPONSE_HEADER_FAILED") /\ Failed(t)
            \/ Ends(t, "MALLOC_FAILED") /\ Failed(t)
  /\ UNCHANGED <<txVars, i, retry_times, sent, sock, calls, executed, mangled,
                 touched>>

ReadPayload(t) ==
  /\ step[t] = "wait_payload"
  /\ Consume(t)
  /\ Ends(t, "SUCCESS")
  /\ UNCHANGED <<txVars, i, retry_times, sent, sock, reply, calls, histVars>>

\* recv() returns without the bytes asked for: the peer has closed, or the
\* receive timeout has passed, or the connection is reset.
ReadFails(t) ==
  /\ step[t] \in {"wait_header", "wait_payload"}
  /\ toClient[sock[t]] = <<>> \/ ~peerUp[sock[t]]
  /\ \/ Ends(t, "SOCKET_RECV_FAILED")
     \/ /\ toClient[sock[t]] = <<>> /\ ~peerUp[sock[t]]
        /\ Ends(t, "CONNECTION_CLOSED")
  /\ Failed(t)
  /\ UNCHANGED <<txVars, i, retry_times, sent, sock, reply, calls, netVars,
                 executed, mangled, touched>>

-----------------------------------------------------------------------------
(* Connecting and disconnecting.  What happens under g_connection_mutex in    *)
(* one go is one step, taken when the mutex is free.                          *)

\* mc_connect sets the network address under the mutex; the socket is opened
\* without it.
StartConnect(t) ==
  /\ pc[t] = "idle" /\ step[t] = "none"
  /\ opened < MaxConns
  /\ gOwner = NoThread
  /\ step' = [step EXCEPT ![t] = "open"]
  /\ UNCHANGED <<txVars, i, retry_times, sent, sock, ret, reply, calls, netVars,
                 histVars>>

\* The kernel gives the socket any descriptor not in use, or the connect fails.
OpenSocket(t) ==
  /\ step[t] = "open"
  /\ step' = [step EXCEPT ![t] = "none"]
  /\ \/ \E f \in Fds :
          /\ conn[f] = NoConn
          /\ opened < MaxConns
          /\ opened' = opened + 1
          /\ conn' = [conn EXCEPT ![f] = opened + 1]
     \/ UNCHANGED <<opened, conn>>
  /\ UNCHANGED <<txVars, i, retry_times, sent, sock, ret, reply, calls,
                 toPlc, plcOut, toClient, peerUp, histVars>>

\* mc_disconnect closes the socket under g_connection_mutex; it does not take
\* the tx_mutex, so an exchange may be going on.
Disconnect(t, f) ==
  /\ pc[t] = "idle" /\ step[t] = "none"
  /\ conn[f] # NoConn
  /\ gOwner = NoThread
  /\ conn' = [conn EXCEPT ![f] = NoConn]
  /\ UNCHANGED <<txVars, threadVars, opened, toPlc, plcOut, toClient, peerUp,
                 histVars>>

-----------------------------------------------------------------------------
(* The PLC at the other end of connection c (external). *)

Answer(r, more) == [part |-> "header", req |-> r, more |-> more]
Payload(r) == [part |-> "payload", req |-> r, more |-> FALSE]

\* A whole frame is carried out and answered.
PlcTakeWhole(c) ==
  LET r == toPlc[c][1][2]
  IN  /\ toPlc[c][1] = <<"head", r>> /\ toPlc[c][2] = <<"tail", r>>
      /\ executed' = [executed EXCEPT ![r] = @ + 1]
      /\ \/ plcOut' = [plcOut EXCEPT ![c] = <<Answer(r, FALSE)>>]
         \/ plcOut' = [plcOut EXCEPT ![c] = <<Answer(r, TRUE), Payload(r)>>]
      /\ UNCHANGED mangled

\* A 3E frame has no checksum: bytes that are not one frame, such as the start
\* of a cut one filled up with the start of the next, are carried out too where
\* their first bytes make a header.  They are answered as something nobody asked
\* for, or not at all (a payload to that answer is left out: the stream has lost
\* its place without it).
PlcTakeCut(c) ==
  LET a == toPlc[c][1]
      b == toPlc[c][2]
  IN  /\ ~(a[1] = "head" /\ b = <<"tail", a[2]>>)
      /\ mangled' = mangled \cup {a[2], b[2]}
      /\ \/ plcOut' = [plcOut EXCEPT ![c] = <<Answer(NoRequest, FALSE)>>]
         \/ UNCHANGED plcOut
      /\ UNCHANGED executed

\* The PLC cuts the stream by the length field: it takes as many bytes as a
\* frame has, whoever sent them.
PlcTakeFrame(c) ==
  /\ peerUp[c] /\ plcOut[c] = <<>> /\ Len(toPlc[c]) >= 2
  /\ toPlc' = [toPlc EXCEPT ![c] = SubSeq(@, 3, Len(@))]
  /\ PlcTakeWhole(c) \/ PlcTakeCut(c)
  /\ UNCHANGED <<txVars, threadVars, conn, opened, toClient, peerUp, fault, touched>>

PlcSend(c) ==
  /\ peerUp[c] /\ plcOut[c] # <<>>
  /\ toClient' = [toClient EXCEPT ![c] = Append(@, Head(plcOut[c]))]
  /\ plcOut' = [plcOut EXCEPT ![c] = Tail(@)]
  /\ UNCHANGED <<txVars, threadVars, conn, opened, toPlc, peerUp, histVars>>

PlcClose(c) ==
  /\ c <= opened /\ peerUp[c]
  /\ peerUp' = [peerUp EXCEPT ![c] = FALSE]
  /\ UNCHANGED <<txVars, threadVars, conn, opened, toPlc, plcOut, toClient, histVars>>

-----------------------------------------------------------------------------
\* The steps of a transaction from its call to its return.
Proceed(t) ==
  \/ TableStep(t) \/ LeaveTable(t) \/ StartExchange(t) \/ FinishExchange(t) \/ Return(t)
  \/ StartWrite(t) \/ SendChunk(t) \/ SendFails(t) \/ WriteDone(t) \/ WriteRetry(t)
  \/ EnterRecv(t) \/ ReadHeader(t) \/ ReadPayload(t) \/ ReadFails(t)

Connection(t) ==
  StartConnect(t) \/ OpenSocket(t) \/ \E f \in Fds : Disconnect(t, f)

Plc == \E c \in Conns : PlcTakeFrame(c) \/ PlcSend(c) \/ PlcClose(c)

\* Nobody is in a call: the program may stop here, and nowhere else.
Done ==
  /\ \A t \in Threads : pc[t] = "idle" /\ step[t] = "none"
  /\ UNCHANGED vars

Next ==
  \/ \E t \in Threads : (\E f \in Fds : Call(t, f)) \/ Proceed(t) \/ Connection(t)
  \/ Plc
  \/ Done

Spec == Init /\ [][Next]_vars

\* A thread inside a call keeps running: the scheduler is fair to it, send and
\* recv return (SO_SNDTIMEO and SO_RCVTIMEO are set), and a mutex that stays
\* free is got.  Nothing is assumed of the PLC, nor that anyone calls.
FairSpec == Spec /\ \A t \in Threads : WF_vars(Proceed(t))

-----------------------------------------------------------------------------
(* Properties. *)

\* None of the connections t's transaction used has met a fault.
Undisturbed(t) == \A c \in touched[t] : ~fault[c]

\* A transaction that succeeds on connections where no frame was ever cut and
\* no response left half read returns the response to its own request.
OwnReply ==
  \A t \in Threads :
    ret[t] = "SUCCESS" /\ Undisturbed(t) => reply[t] = Own(t)

\* What OwnReply rests on: between exchanges nothing is left in either
\* direction of a connection without fault, so the next one starts clean.
QuietBetweenExchanges ==
  \A f \in Fds :
    conn[f] # NoConn /\ ~fault[conn[f]] /\ (\A t \in Threads : ~Holds(t, f))
      => /\ peerUp[conn[f]] => toPlc[conn[f]] = <<>> /\ plcOut[conn[f]] = <<>>
         /\ toClient[conn[f]] = <<>>

\* The chunks of a frame follow each other on one connection, unless a send has
\* failed there: mc_disconnect and a connect that gets the same descriptor
\* never come between two sends of one frame.
FramesUncut ==
  \A c \in Conns : \A k \in 1 .. Len(toPlc[c]) :
    LET x == toPlc[c][k]
    IN  x[1] = "tail" =>
          \/ k = 1 /\ fault[c]
          \/ k > 1 /\ toPlc[c][k - 1] = <<"head", x[2]>>

\* However often the send is retried, the PLC carries a request out as it was
\* issued at most once: a frame is sent again only if its last byte never was.
AtMostOnce == \A r \in Requests : executed[r] <= 1

\* The result tells the caller what the PLC did.  Nothing of a call that got no
\* lock is carried out.  A request whose sending failed is not carried out as it
\* was issued, now or later; without fault, that is if no send stopped part way,
\* the PLC takes nothing of it for a part of another frame either.  A success
\* without fault means that it was carried out, as issued and nothing else.
ResultTellsExecution ==
  \A t \in Threads :
    /\ ret[t] = "FAILED" => executed[Own(t)] = 0 /\ Own(t) \notin mangled
    /\ ret[t] = "SOCKET_SEND_FAILED" =>
         executed[Own(t)] = 0 /\ (Undisturbed(t) => Own(t) \notin mangled)
    /\ ret[t] = "SUCCESS" /\ Undisturbed(t) =>
         executed[Own(t)] = 1 /\ Own(t) \notin mangled

\* The exchange uses the transaction locks as TxLock allows: g_connection_mutex
\* and the tx_mutex are taken and given back in the order of the lock table.
ImplementsTxLock == TxSpec

\* README.md:246: transactions on a descriptor are serialized "to prevent
\* response interleaving across threads".  A thread never gets the response to
\* a request of another thread.
NoForeignReply ==
  \A t \in Threads :
    ret[t] = "SUCCESS" /\ reply[t] # NoRequest => reply[t][1] = t

\* Whatever the PLC does, and whoever disconnects, every call returns.
EveryCallReturns == \A t \in Threads : pc[t] # "idle" ~> pc[t] = "idle"
=============================================================================
