---------------------- MODULE McTransaction_reply_proofs ----------------------
(***************************************************************************)
(* A call that succeeds has the answer to its own request, and the PLC has   *)
(* carried that out, as long as no fault was met on its connections: for     *)
(* any number of threads, whatever is closed and opened meanwhile.  The      *)
(* invariant says what can be on its way on each connection without fault.   *)
(***************************************************************************)
EXTENDS McTransaction_proofs

-----------------------------------------------------------------------------
Waiting(t) == step[t] \in {"wait_header", "wait_payload"}

\* The connection thread t's exchange is on.
Uses(t, c) ==
  InExchange(t) /\ c # NoConn /\ c = IF Waiting(t) THEN sock[t] ELSE conn[fd[t]]

Empty(c) == toPlc[c] = <<>> /\ plcOut[c] = <<>> /\ toClient[c] = <<>>

HeadOf(r) == <<"head", r>>
TailOf(r) == <<"tail", r>>

\* Request r is being sent or has been, and nothing has come back.
Asked(c, r) ==
  /\ toPlc[c] \in {<<>>, <<HeadOf(r)>>, <<HeadOf(r), TailOf(r)>>}
  /\ plcOut[c] = <<>> /\ toClient[c] = <<>>

\* The PLC has carried out r, and its whole answer is on its way.
Answered(c, r) ==
  /\ executed[r] # 0 /\ toPlc[c] = <<>>
  /\ \/ plcOut[c] = <<Answer(r, FALSE)>> /\ toClient[c] = <<>>
     \/ plcOut[c] = <<>> /\ toClient[c] = <<Answer(r, FALSE)>>
     \/ plcOut[c] = <<Answer(r, TRUE), Payload(r)>> /\ toClient[c] = <<>>
     \/ plcOut[c] = <<Payload(r)>> /\ toClient[c] = <<Answer(r, TRUE)>>
     \/ plcOut[c] = <<>> /\ toClient[c] = <<Answer(r, TRUE), Payload(r)>>

\* The header has been read.
PayloadLeft(c, r) ==
  /\ toPlc[c] = <<>>
  /\ \/ plcOut[c] = <<Payload(r)>> /\ toClient[c] = <<>>
     \/ plcOut[c] = <<>> /\ toClient[c] = <<Payload(r)>>

\* What can be on the connection of t's exchange, if it is without fault.
Talk(t, c) ==
  /\ step[t] \in {"write_lock", "write_err", "finish"} => Empty(c)
  /\ step[t] = "send" =>
       IF sent[t] = 0 THEN Empty(c)
       ELSE /\ toPlc[c] \in {<<>>, <<HeadOf(Own(t))>>}
            /\ plcOut[c] = <<>> /\ toClient[c] = <<>>
  /\ step[t] \in {"write_ok", "header", "wait_header"} => Asked(c, Own(t)) \/ Answered(c, Own(t))
  /\ step[t] \in {"payload", "wait_payload"} => Empty(c) \/ PayloadLeft(c, Own(t))

StreamOK ==
  \A c \in Conns : ~fault[c] =>
    /\ \A t \in Threads : Uses(t, c) => Talk(t, c)
    /\ (\E f \in Fds : conn[f] = c) /\ (\A t \in Threads : ~Uses(t, c)) => Empty(c)

ConnOK ==
  /\ \A f \in Fds : conn[f] <= opened
  /\ \A f, g \in Fds : conn[f] = conn[g] /\ conn[f] # NoConn => f = g
  /\ \A c \in Conns : c > opened => Empty(c)
  /\ \A t \in Threads : Waiting(t) =>
       /\ sock[t] <= opened /\ sock[t] \in touched[t]
       /\ \A f \in Fds : conn[f] = sock[t] => f = fd[t]
  /\ \A t, u \in Threads : Waiting(t) /\ Waiting(u) /\ sock[t] = sock[u] => t = u
  /\ \A t \in Threads :
       /\ step[t] \in {"send", "write_ok", "write_err"} => gOwner = t
       /\ step[t] = "send" /\ sent[t] = 1 => conn[fd[t]] # NoConn

ReplyOK ==
  \A t \in Threads :
    /\ step[t] \in {"payload", "wait_payload"} \/ ret[t] = "SUCCESS"
    /\ \A c \in touched[t] : ~fault[c]
    => reply[t] = Own(t) /\ executed[Own(t)] # 0

FramesOK ==
  /\ FramesUncut
  /\ \A c \in Conns : ~fault[c] =>
       /\ Len(toPlc[c]) <= 2
       /\ toPlc[c] # <<>> => toPlc[c][1][1] = "head"
       /\ Len(toPlc[c]) = 2 => toPlc[c][2][1] = "tail"
  /\ \A t \in Threads : step[t] = "send" /\ sent[t] = 1 =>
       LET c == conn[fd[t]] IN
       peerUp[c] => \/ toPlc[c] = <<>> /\ fault[c]
                    \/ toPlc[c] # <<>> /\ toPlc[c][Len(toPlc[c])] = HeadOf(Own(t))

RInv == ConnOK /\ StreamOK /\ ReplyOK /\ FramesOK

\* A step of thread t leaves the others where they are.
OthersKeep(t) ==
  \A u \in Threads \ {t} :
    /\ step'[u] = step[u] /\ sent'[u] = sent[u] /\ sock'[u] = sock[u]
    /\ fd'[u] = fd[u] /\ calls'[u] = calls[u] /\ ret'[u] = ret[u]
    /\ reply'[u] = reply[u] /\ touched'[u] = touched[u]

FaultsStay == \A c \in Conns : fault[c] => fault'[c]

\* A step that leaves thread u and connection c as they are.
LEMMA SameTalk ==
  ASSUME NEW u, NEW c, Talk(u, c),
         calls'[u] = calls[u], step'[u] = step[u], sent'[u] = sent[u],
         toPlc'[c] = toPlc[c], plcOut'[c] = plcOut[c], toClient'[c] = toClient[c],
         executed' = executed
  PROVE  Talk(u, c)'
<1>p. PICK r : r = Own(u)
  OBVIOUS
<1>1. Own(u)' = r
  BY <1>p DEF Own
<1>2. /\ Empty(c)' <=> Empty(c)
      /\ Asked(c, r)' <=> Asked(c, r)
      /\ Answered(c, r)' <=> Answered(c, r)
      /\ PayloadLeft(c, r)' <=> PayloadLeft(c, r)
  BY DEF Empty, Asked, Answered, PayloadLeft
<1> QED
  BY <1>p, <1>1, <1>2 DEF Talk

-----------------------------------------------------------------------------
(* Who uses a connection. *)

\* The descriptor of an open connection somebody uses is that of the user.
LEMMA UserHasFd ==
  ASSUME ConnOK, NEW t \in Threads, NEW c, Uses(t, c), NEW f \in Fds, conn[f] = c,
         fd[t] \in Fds
  PROVE  fd[t] = f
<1>1. CASE Waiting(t)
  BY <1>1 DEF ConnOK, Uses
<1>2. CASE ~Waiting(t)
  BY <1>2 DEF ConnOK, Uses
<1> QED
  BY <1>1, <1>2

\* Two threads never use the same connection.
LEMMA OneUser ==
  ASSUME ConnOK, FlowOK, ExchangeExclusion, NEW t \in Threads, NEW u \in Threads, NEW c,
         Uses(t, c), Uses(u, c)
  PROVE  t = u
<1>1. /\ pc[t] = "held" /\ pc[u] = "held" /\ fd[t] \in Fds /\ fd[u] \in Fds
  BY DEF FlowOK, Uses
<1>2. fd[t] = fd[u] => t = u
  BY <1>1 DEF ExchangeExclusion, Holding
<1>3. CASE Waiting(t) /\ Waiting(u)
  BY <1>3 DEF ConnOK, Uses
<1>4. CASE ~Waiting(t)
  <2>1. conn[fd[t]] = c
    BY <1>4 DEF Uses
  <2> QED
    BY <1>1, <1>2, <2>1, UserHasFd
<1>5. CASE ~Waiting(u)
  <2>1. conn[fd[u]] = c
    BY <1>5 DEF Uses
  <2> QED
    BY <1>1, <1>2, <2>1, UserHasFd
<1> QED
  BY <1>3, <1>4, <1>5

\* A connection opened under a thread that waits on another is used by nobody.
LEMMA OpenIsFree ==
  ASSUME TypeInv, ConnOK, StreamOK, ExchangeExclusion, NEW t \in Threads, InExchange(t),
         NEW c \in Conns, conn[fd[t]] = c, ~Uses(t, c), ~fault[c]
  PROVE  Empty(c)
<1>1. FlowOK /\ pc[t] = "held" /\ fd[t] \in Fds
  BY DEF TypeInv, FlowOK
<1>2. ASSUME NEW u \in Threads, Uses(u, c)
      PROVE  FALSE
  <2>1. pc[u] = "held" /\ fd[u] \in Fds
    BY <1>1, <1>2 DEF FlowOK, Uses
  <2>2. fd[u] = fd[t]
    BY <1>1, <1>2, <2>1, UserHasFd
  <2>3. u = t
    BY <1>1, <2>1, <2>2 DEF ExchangeExclusion, Holding
  <2> QED
    BY <1>2, <2>3
<1> QED
  BY <1>1, <1>2 DEF StreamOK

-----------------------------------------------------------------------------
(* The parts of the invariant after a step of one thread. *)

\* Connection numbers.
LEMMA ConnStep ==
  ASSUME ConnOK, NEW t \in Threads, OthersKeep(t), UNCHANGED <<conn, opened>>,
         gOwner' = gOwner \/ gOwner \in {NoThread, t},
         \A c \in Conns : c > opened => Empty(c)',
         Waiting(t)' => /\ sock'[t] <= opened /\ sock'[t] \in touched'[t]
                        /\ \A f \in Fds : conn[f] = sock'[t] => f = fd'[t]
                        /\ \A u \in Threads \ {t} : Waiting(u) => sock[u] # sock'[t],
         step'[t] \in {"send", "write_ok", "write_err"} => gOwner' = t,
         step'[t] = "send" /\ sent'[t] = 1 => conn[fd'[t]] # NoConn
  PROVE  ConnOK'
<1>1. \A u \in Threads \ {t} : Waiting(u)' <=> Waiting(u)
  BY DEF Waiting, OthersKeep
<1>2. \A u \in Threads : Waiting(u)' =>
        /\ sock'[u] <= opened /\ sock'[u] \in touched'[u]
        /\ \A f \in Fds : conn[f] = sock'[u] => f = fd'[u]
  BY <1>1 DEF ConnOK, OthersKeep
<1>3. \A u, v \in Threads : Waiting(u)' /\ Waiting(v)' /\ sock'[u] = sock'[v] => u = v
  BY <1>1 DEF ConnOK, OthersKeep
<1>4. \A u \in Threads : step'[u] \in {"send", "write_ok", "write_err"} => gOwner' = u
  BY TxAssumption DEF ConnOK, OthersKeep
<1>5. \A u \in Threads : step'[u] = "send" /\ sent'[u] = 1 => conn[fd'[u]] # NoConn
  BY DEF ConnOK, OthersKeep
<1> QED
  BY <1>2, <1>3, <1>4, <1>5 DEF ConnOK

\* What is on the way on each connection.
LEMMA StreamStep ==
  ASSUME TypeInv, ConnOK, StreamOK, ExchangeExclusion, NEW t \in Threads, OthersKeep(t),
         UNCHANGED <<conn, executed, plcOut>>, FaultsStay,
         \A c \in Conns :
           Uses(t, c) \/ (toPlc'[c] = toPlc[c] /\ toClient'[c] = toClient[c]),
         \A c \in Conns : ~fault'[c] =>
           /\ Uses(t, c)' => Talk(t, c)'
           /\ Uses(t, c) /\ ~Uses(t, c)' /\ (\E f \in Fds : conn[f] = c) => Empty(c)'
  PROVE  StreamOK'
<1>1. \A c : \A u \in Threads \ {t} : Uses(u, c)' <=> Uses(u, c)
  BY DEF Uses, InExchange, Waiting, OthersKeep
<1>2. ASSUME NEW c \in Conns, ~fault'[c]
      PROVE  /\ \A u \in Threads : Uses(u, c)' => Talk(u, c)'
             /\ (\E f \in Fds : conn[f] = c) /\ (\A u \in Threads : ~Uses(u, c)') => Empty(c)'
  <2>1. ~fault[c]
    BY <1>2 DEF FaultsStay
  <2>2. CASE Uses(t, c)
    <3>1. \A u \in Threads \ {t} : ~Uses(u, c)
      BY <2>2, OneUser DEF TypeInv
    <3> QED
      BY <1>1, <1>2, <2>2, <3>1
  <2>3. CASE ~Uses(t, c)
    <3>1. toPlc'[c] = toPlc[c] /\ toClient'[c] = toClient[c]
      BY <2>3
    <3>2. \A u \in Threads \ {t} : Talk(u, c) => Talk(u, c)'
      <4>1. ASSUME NEW u \in Threads \ {t}, Talk(u, c)
            PROVE  Talk(u, c)'
        <5>1. calls'[u] = calls[u] /\ step'[u] = step[u] /\ sent'[u] = sent[u]
          BY DEF OthersKeep
        <5> QED
          BY <3>1, <4>1, <5>1, SameTalk
      <4> QED
        BY <4>1
    <3>3. Empty(c) => Empty(c)'
      BY <3>1 DEF Empty
    <3> QED
      BY <1>1, <1>2, <2>1, <2>3, <3>2, <3>3 DEF StreamOK
  <2> QED
    BY <2>2, <2>3
<1> QED
  BY <1>2 DEF StreamOK

\* Whose answer a call has.
LEMMA ReplyStep ==
  ASSUME TypeInv, ReplyOK, NEW t \in Threads, OthersKeep(t), UNCHANGED executed, FaultsStay,
         /\ step'[t] \in {"payload", "wait_payload"} \/ ret'[t] = "SUCCESS"
         /\ \A c \in touched'[t] : ~fault'[c]
         => reply'[t] = Own(t)' /\ executed[Own(t)'] # 0
  PROVE  ReplyOK'
<1>1. \A u \in Threads : touched[u] \subseteq Conns
  BY DEF TypeInv, TypeOK, HistTypeOK
<1>2. \A u \in Threads \ {t} : Own(u)' = Own(u)
  BY DEF Own, OthersKeep
<1>3. ASSUME NEW u \in Threads, \A c \in touched'[u] : ~fault'[c],
             step'[u] \in {"payload", "wait_payload"} \/ ret'[u] = "SUCCESS"
      PROVE  reply'[u] = Own(u)' /\ executed'[Own(u)'] # 0
  <2>1. CASE u = t
    BY <1>3, <2>1
  <2>2. CASE u # t
    <3>1. \A c \in touched[u] : ~fault[c]
      BY <1>1, <1>3, <2>2 DEF OthersKeep, FaultsStay
    <3>2. reply[u] = Own(u) /\ executed[Own(u)] # 0
      BY <1>3, <2>2, <3>1 DEF ReplyOK, OthersKeep
    <3> QED
      BY <1>2, <2>2, <3>2 DEF OthersKeep
  <2> QED
    BY <2>1, <2>2
<1> QED
  BY <1>3 DEF ReplyOK

\* What is on the way to the PLC, when nothing is sent.
LEMMA FrameStep ==
  ASSUME TypeInv, ConnOK, FramesOK, NEW t \in Threads, OthersKeep(t), FaultsStay,
         UNCHANGED <<toPlc, peerUp>>,
         \A u \in Threads : step[u] = "send" /\ sent[u] = 1 => conn'[fd[u]] = conn[fd[u]],
         ~(step'[t] = "send" /\ sent'[t] = 1)
  PROVE  FramesOK'
<1>1. FramesUncut'
  BY DEF FramesOK, FramesUncut, FaultsStay
<1>2. \A c \in Conns : ~fault'[c] =>
        /\ Len(toPlc'[c]) <= 2
        /\ toPlc'[c] # <<>> => toPlc'[c][1][1] = "head"
        /\ Len(toPlc'[c]) = 2 => toPlc'[c][2][1] = "tail"
  BY DEF FramesOK, FaultsStay
<1>3. ASSUME NEW u \in Threads, step'[u] = "send" /\ sent'[u] = 1, peerUp'[conn'[fd'[u]]]
      PROVE  LET c == conn'[fd'[u]] IN
             \/ toPlc'[c] = <<>> /\ fault'[c]
             \/ toPlc'[c] # <<>> /\ toPlc'[c][Len(toPlc'[c])] = HeadOf(Own(u)')
  <2>1. u # t /\ step[u] = "send" /\ sent[u] = 1 /\ fd'[u] = fd[u] /\ Own(u)' = Own(u)
    BY <1>3 DEF OthersKeep, Own
  <2>2. \/ toPlc[conn[fd[u]]] = <<>> /\ fault[conn[fd[u]]]
        \/ /\ toPlc[conn[fd[u]]] # <<>>
           /\ toPlc[conn[fd[u]]][Len(toPlc[conn[fd[u]]])] = HeadOf(Own(u))
    BY <1>3, <2>1 DEF FramesOK
  <2>3. fault[conn[fd[u]]] /\ conn[fd[u]] \in Conns => fault'[conn[fd[u]]]
    BY DEF FaultsStay
  <2>4. conn[fd[u]] \in Conns
    <3>1. fd[u] \in Fds
      BY <2>1 DEF TypeInv, FlowOK, InExchange
    <3> QED
      BY <2>1, <3>1 DEF TypeInv, TypeOK, NetTypeOK, ConnOK
  <2> QED
    BY <2>1, <2>2, <2>3, <2>4 DEF HeadOf
<1> QED
  BY <1>1, <1>2, <1>3 DEF FramesOK

\* All of it, for a step that leaves descriptors and the PLC alone and touches no
\* connection but the one t uses.
LEMMA StepOfOne ==
  ASSUME TypeInv, RInv, ExchangeExclusion, NEW t \in Threads, OthersKeep(t),
         UNCHANGED <<conn, opened, executed, plcOut>>, FaultsStay,
         gOwner' = gOwner \/ gOwner \in {NoThread, t},
         \A c \in Conns :
           Uses(t, c) \/ (toPlc'[c] = toPlc[c] /\ toClient'[c] = toClient[c]),
         Waiting(t)' => /\ sock'[t] <= opened /\ sock'[t] \in touched'[t]
                        /\ \A f \in Fds : conn[f] = sock'[t] => f = fd'[t]
                        /\ \A u \in Threads \ {t} : Waiting(u) => sock[u] # sock'[t],
         step'[t] \in {"send", "write_ok", "write_err"} => gOwner' = t,
         step'[t] = "send" /\ sent'[t] = 1 => conn[fd'[t]] # NoConn,
         \A c \in Conns : ~fault'[c] =>
           /\ Uses(t, c)' => Talk(t, c)'
           /\ Uses(t, c) /\ ~Uses(t, c)' /\ (\E f \in Fds : conn[f] = c) => Empty(c)',
         /\ step'[t] \in {"payload", "wait_payload"} \/ ret'[t] = "SUCCESS"
         /\ \A c \in touched'[t] : ~fault'[c]
         => reply'[t] = Own(t)' /\ executed[Own(t)'] # 0,
         FramesOK'
  PROVE  RInv'
<1>1. ConnOK /\ StreamOK /\ ReplyOK
  BY DEF RInv
<1>2. \A c \in Conns : Uses(t, c) => c <= opened
  <2>1. CASE Waiting(t)
    BY <1>1, <2>1 DEF ConnOK, Uses
  <2>2. CASE ~Waiting(t)
    <3>1. InExchange(t) => fd[t] \in Fds
      BY DEF TypeInv, FlowOK
    <3> QED
      BY <1>1, <2>2, <3>1 DEF ConnOK, Uses
  <2> QED
    BY <2>1, <2>2
<1>3. \A c \in Conns : c > opened => Empty(c)'
  <2>1. \A c \in Conns : c > opened => ~Uses(t, c)
    BY <1>2 DEF Conns, TypeInv, TypeOK, NetTypeOK
  <2> QED
    BY <1>1, <2>1 DEF ConnOK, Empty
<1>4. ConnOK'
  BY <1>1, <1>3, ConnStep
<1>5. StreamOK'
  BY <1>1, StreamStep
<1>6. ReplyOK'
  BY <1>1, ReplyStep
<1> QED
  BY <1>4, <1>5, <1>6 DEF RInv

\* A step of a thread outside its exchange.
LEMMA OutsideStep ==
  ASSUME TypeInv, RInv, ExchangeExclusion, NEW t \in Threads, OthersKeep(t),
         UNCHANGED <<netVars, executed, fault>>,
         gOwner' = gOwner \/ gOwner \in {NoThread, t},
         ~InExchange(t), ~InExchange(t)',
         ret'[t] = "SUCCESS" => ret[t] = "SUCCESS" /\ UNCHANGED <<calls, reply, touched>>
  PROVE  RInv'
<1>1. step'[t] \in {"none", "open"} /\ \A c : ~Uses(t, c) /\ ~Uses(t, c)'
  BY DEF InExchange, Uses
<1>2. FaultsStay /\ UNCHANGED <<conn, opened, plcOut, toPlc, toClient, peerUp>>
  BY DEF FaultsStay, netVars
<1>3. /\ ~Waiting(t)'
      /\ step'[t] \notin {"send", "write_ok", "write_err", "payload", "wait_payload"}
  BY <1>1 DEF Waiting
<1>4. FramesOK'
  BY <1>2, <1>3, FrameStep DEF RInv
<1>5. ret'[t] = "SUCCESS" /\ (\A c \in touched'[t] : ~fault'[c])
        => reply'[t] = Own(t)' /\ executed[Own(t)'] # 0
  BY DEF RInv, ReplyOK, Own
<1> QED
  BY <1>1, <1>2, <1>3, <1>4, <1>5, StepOfOne

\* A step inside its exchange that sends and reads nothing.
LEMMA InsideStep ==
  ASSUME TypeInv, RInv, ExchangeExclusion, NEW t \in Threads, OthersKeep(t),
         UNCHANGED <<netVars, executed>>, FaultsStay,
         gOwner' = gOwner \/ gOwner \in {NoThread, t},
         Waiting(t)' => /\ sock'[t] <= opened /\ sock'[t] \in touched'[t]
                        /\ \A f \in Fds : conn[f] = sock'[t] => f = fd'[t]
                        /\ \A u \in Threads \ {t} : Waiting(u) => sock[u] # sock'[t],
         step'[t] \in {"send", "write_ok", "write_err"} => gOwner' = t,
         ~(step'[t] = "send" /\ sent'[t] = 1),
         \A c \in Conns : ~fault'[c] =>
           /\ Uses(t, c)' => Talk(t, c)'
           /\ Uses(t, c) /\ ~Uses(t, c)' /\ (\E f \in Fds : conn[f] = c) => Empty(c),
         ret'[t] # "SUCCESS",
         step'[t] \in {"payload", "wait_payload"} =>
           /\ step[t] \in {"payload", "wait_payload"} /\ touched[t] \subseteq touched'[t]
           /\ UNCHANGED <<calls, reply>>
  PROVE  RInv'
<1>1. UNCHANGED <<conn, opened, plcOut, toPlc, toClient, peerUp>>
  BY DEF netVars
<1>2. FramesOK'
  BY <1>1, FrameStep DEF RInv
<1>3. step'[t] \in {"payload", "wait_payload"} /\ (\A c \in touched'[t] : ~fault'[c])
        => reply'[t] = Own(t)' /\ executed[Own(t)'] # 0
  <2>1. touched[t] \subseteq Conns
    BY DEF TypeInv, TypeOK, HistTypeOK
  <2> QED
    BY <2>1 DEF RInv, ReplyOK, Own, FaultsStay
<1>4. \A c : Empty(c)' <=> Empty(c)
  BY <1>1 DEF Empty
<1> QED
  BY <1>1, <1>2, <1>3, <1>4, StepOfOne

-----------------------------------------------------------------------------
(* The steps of a call. *)

\* At the start nothing has been sent.
LEMMA InitReply == Init => RInv
<1> SUFFICES ASSUME Init
             PROVE  RInv
  OBVIOUS
<1>1. \A t \in Threads : step[t] = "none" /\ ~InExchange(t) /\ ret[t] = "none"
  BY DEF Init, InExchange
<1>2. \A c \in Conns : Empty(c)
  BY DEF Init, Empty
<1>3. ConnOK
  BY <1>1, <1>2 DEF Init, ConnOK, Waiting, NoConn
<1>4. StreamOK
  BY <1>1, <1>2 DEF StreamOK, Uses
<1>5. ReplyOK
  BY <1>1 DEF ReplyOK
<1>6. FramesOK
  BY <1>1 DEF Init, FramesOK, FramesUncut
<1> QED
  BY <1>3, <1>4, <1>5, <1>6 DEF RInv

\* These steps are of one thread.
LEMMA StepsOfOne ==
  ASSUME TypeInv, NEW t \in Threads,
         \/ \E f \in Fds : Call(t, f)
         \/ Proceed(t) \/ StartConnect(t)
  PROVE  OthersKeep(t)
<1>t. TxTypeOK /\ ThreadTypeOK /\ HistTypeOK
  BY DEF TypeInv, TypeOK
<1> USE DEF OthersKeep
<1>1. ASSUME NEW f \in Fds, Call(t, f)
      PROVE  OthersKeep(t)
  BY <1>1, <1>t DEF Call, Begin, TxTypeOK, ThreadTypeOK, HistTypeOK
<1>2. CASE TableStep(t)
  BY <1>2
     DEF TableStep, LockTable, SearchSlot, ClaimSlot, ClaimFails, FindSlot, restVars,
         threadVars, histVars
<1>3. CASE LeaveTable(t)
  BY <1>3, <1>t DEF LeaveTable, UnlockTable, histVars, ThreadTypeOK
<1>4. CASE StartExchange(t) \/ FinishExchange(t) \/ Return(t)
  BY <1>4, <1>t
     DEF StartExchange, FinishExchange, Return, LockTx, BeginUnlock, UnlockTx, restVars,
         threadVars, histVars, ThreadTypeOK
<1>5. CASE StartWrite(t) \/ WriteDone(t)
  BY <1>5, <1>t DEF StartWrite, WriteDone, LockWrite, UnlockWrite, histVars, ThreadTypeOK
<1>6. CASE SendChunk(t)
  BY <1>6, <1>t DEF SendChunk, txVars, ThreadTypeOK, HistTypeOK
<1>7. CASE SendFails(t)
  BY <1>7, <1>t DEF SendFails, txVars, ThreadTypeOK
<1>8. CASE WriteRetry(t)
  BY <1>8, <1>t DEF WriteRetry, UnlockWrite, Ends, histVars, ThreadTypeOK
<1>9. CASE EnterRecv(t)
  BY <1>9, <1>t DEF EnterRecv, Ends, txVars, ThreadTypeOK, HistTypeOK
<1>10. CASE ReadHeader(t)
  BY <1>10, <1>t DEF ReadHeader, Ends, txVars, ThreadTypeOK
<1>11. CASE ReadPayload(t) \/ ReadFails(t)
  BY <1>11, <1>t DEF ReadPayload, ReadFails, Ends, txVars, histVars, ThreadTypeOK
<1>12. CASE StartConnect(t)
  BY <1>12, <1>t DEF StartConnect, txVars, histVars, ThreadTypeOK
<1> QED
  BY <1>1, <1>2, <1>3, <1>4, <1>5, <1>6, <1>7, <1>8, <1>9, <1>10, <1>11, <1>12 DEF Proceed

\* The locks exclude in the next state, too.
LEMMA ExclusionNext == IInv' => ExchangeExclusion'
BY InvExclusion, PTL

\* Before the lock of the tx_mutex, after its unlock, and before the socket is opened.
LEMMA OutsideInv ==
  ASSUME TypeInv, TypeInv', IInv, OnceInv, RInv, NEW t \in Threads,
         \/ \E f \in Fds : Call(t, f)
         \/ TableStep(t) \/ LeaveTable(t) \/ Return(t) \/ StartConnect(t)
  PROVE  RInv'
<1>t. TxTypeOK /\ ThreadTypeOK /\ FlowOK /\ FlowOK' /\ TableGuarded
  BY DEF TypeInv, TypeOK, IInv
<1>x. ExchangeExclusion
  BY InvExclusion
<1>o. OthersKeep(t)
  BY StepsOfOne DEF Proceed
<1>1. ASSUME NEW f \in Fds, Call(t, f)
      PROVE  RInv'
  <2>1. /\ UNCHANGED <<netVars, executed, fault, step, gOwner>> /\ step[t] = "none"
        /\ ret'[t] = "none"
    BY <1>1, <1>t DEF Call, Begin, ThreadTypeOK
  <2> QED
    BY <1>x, <1>o, <2>1, OutsideStep DEF InExchange
<1>2. CASE TableStep(t)
  <2>1. UNCHANGED <<netVars, executed, fault, step, ret, calls, reply, touched>>
    BY <1>2 DEF TableStep, restVars, threadVars, histVars
  <2>2. pc[t] # "held"
    BY <1>2 DEF TableStep, LockTable, SearchSlot, ClaimSlot, ClaimFails, FindSlot, Goto
  <2>3. gOwner' = gOwner \/ gOwner \in {NoThread, t}
    BY <1>2 DEF TableStep, LockTable, SearchSlot, ClaimSlot, ClaimFails, FindSlot
  <2>4. ~InExchange(t) /\ ~InExchange(t)'
    BY <1>t, <2>1, <2>2 DEF FlowOK, InExchange
  <2> QED
    BY <1>x, <1>o, <2>1, <2>3, <2>4, OutsideStep
<1>3. CASE LeaveTable(t)
  <2>1. /\ UNCHANGED <<netVars, executed, fault, step, calls, reply, touched>>
        /\ ret'[t] = "SUCCESS" => ret[t] = "SUCCESS"
    BY <1>3, <1>t DEF LeaveTable, histVars, ThreadTypeOK
  <2>2. pc[t] \in {"unlock_g", "unlock_g2"}
    BY <1>3 DEF LeaveTable, UnlockTable, Goto
  <2>3. gOwner = t /\ ~InExchange(t) /\ ~InExchange(t)'
    BY <1>t, <2>1, <2>2 DEF TableGuarded, InTable, FlowOK, InExchange
  <2> QED
    BY <1>x, <1>o, <2>1, <2>3, OutsideStep
<1>4. CASE Return(t)
  <2>1. UNCHANGED <<netVars, executed, fault, step, ret, calls, reply, touched, gOwner>>
    BY <1>4 DEF Return, UnlockTx, restVars, threadVars, histVars
  <2>2. pc[t] # "held"
    BY <1>4 DEF Return, UnlockTx, Goto
  <2>3. ~InExchange(t) /\ ~InExchange(t)'
    BY <1>t, <2>1, <2>2 DEF FlowOK, InExchange
  <2> QED
    BY <1>x, <1>o, <2>1, <2>3, OutsideStep
<1>5. CASE StartConnect(t)
  <2>1. UNCHANGED <<netVars, executed, fault, ret, calls, reply, touched, gOwner>>
    BY <1>5 DEF StartConnect, txVars, histVars
  <2>2. step[t] = "none" /\ step'[t] = "open"
    BY <1>5, <1>t DEF StartConnect, ThreadTypeOK
  <2> QED
    BY <1>x, <1>o, <2>1, <2>2, OutsideStep DEF InExchange
<1> QED
  BY <1>1, <1>2, <1>3, <1>4, <1>5

\* From the lock of the tx_mutex to its unlock, but for what is sent and read.
LEMMA InsideInv ==
  ASSUME TypeInv, TypeInv', IInv, IInv', OnceInv, OnceInv', RInv, NEW t \in Threads,
         \/ StartExchange(t) \/ StartWrite(t) \/ SendFails(t) \/ WriteDone(t)
         \/ WriteRetry(t) \/ EnterRecv(t) \/ ReadFails(t)
  PROVE  RInv'
<1>t. /\ TxTypeOK /\ ThreadTypeOK /\ NetTypeOK /\ HistTypeOK /\ FlowOK /\ FlowOK' /\ RetOK /\ RetOK'
      /\ ConnOK /\ StreamOK
  BY DEF TypeInv, TypeOK, OnceInv, RInv
<1>x. ExchangeExclusion /\ ExchangeExclusion'
  BY InvExclusion, ExclusionNext
<1>o. OthersKeep(t)
  BY StepsOfOne DEF Proceed
<1>1. CASE StartExchange(t)
  <2>1. /\ UNCHANGED <<netVars, executed, fault, fd, gOwner>> /\ step'[t] = "write_lock"
        /\ pc[t] = "lock_tx" /\ pc'[t] = "held" /\ \A u \in Threads \ {t} : pc'[u] = pc[u]
        /\ ret'[t] = ret[t]
    BY <1>1, <1>t DEF StartExchange, LockTx, Goto, histVars, TxTypeOK, ThreadTypeOK
  <2>2. ~InExchange(t) /\ ret[t] = "none"
    BY <1>t, <2>1 DEF FlowOK, RetOK
  <2>3. ASSUME NEW c \in Conns, ~fault[c], Uses(t, c)'
        PROVE  Empty(c)
    <3>1. conn[fd[t]] = c /\ fd[t] \in Fds
      BY <1>t, <2>1, <2>3 DEF Uses, Waiting, FlowOK, netVars
    <3>2. ASSUME NEW u \in Threads, Uses(u, c)
          PROVE  FALSE
      <4>1. pc[u] = "held" /\ u # t /\ fd[u] \in Fds
        BY <1>t, <2>2, <3>2 DEF Uses, FlowOK
      <4>2. fd[u] = fd[t]
        BY <1>t, <3>1, <3>2, <4>1, UserHasFd
      <4>3. pc'[u] = "held" /\ fd'[u] = fd'[t]
        BY <2>1, <4>1, <4>2
      <4> QED
        BY <1>x, <2>1, <4>1, <4>3 DEF ExchangeExclusion, Holding
    <3> QED
      BY <1>t, <2>3, <3>1, <3>2 DEF StreamOK
  <2>4. \A c \in Conns : ~fault'[c] =>
           /\ Uses(t, c)' => Talk(t, c)'
           /\ Uses(t, c) /\ ~Uses(t, c)' /\ (\E f \in Fds : conn[f] = c) => Empty(c)
    BY <2>1, <2>2, <2>3 DEF Talk, Uses, Empty, netVars
  <2> QED
    BY <1>x, <1>o, <2>1, <2>2, <2>4, InsideStep DEF Waiting, FaultsStay
<1>2. CASE StartWrite(t)
  <2>1. /\ UNCHANGED <<netVars, executed, fault, fd>> /\ step[t] = "write_lock"
        /\ step'[t] = "send" /\ sent'[t] = 0 /\ gOwner = NoThread /\ gOwner' = t
        /\ ret'[t] = ret[t]
    BY <1>2, <1>t DEF StartWrite, LockWrite, histVars, ThreadTypeOK
  <2>2. ret[t] = "none"
    BY <1>t, <2>1 DEF RetOK, InExchange
  <2>3. \A c : Uses(t, c)' <=> Uses(t, c)
    BY <2>1 DEF Uses, InExchange, Waiting, netVars
  <2>4. \A c \in Conns : ~fault'[c] =>
           /\ Uses(t, c)' => Talk(t, c)'
           /\ Uses(t, c) /\ ~Uses(t, c)' /\ (\E f \in Fds : conn[f] = c) => Empty(c)
    BY <1>t, <2>1, <2>3 DEF StreamOK, Talk, Empty, netVars
  <2> QED
    BY <1>x, <1>o, <2>1, <2>2, <2>4, InsideStep DEF Waiting, FaultsStay
<1>3. CASE SendFails(t)
  <2>1. /\ UNCHANGED <<netVars, executed, fd, gOwner>> /\ step[t] = "send"
        /\ step'[t] = "write_err" /\ ret'[t] = ret[t]
        /\ \A c \in Conns : fault'[c] <=> fault[c] \/ (c = conn[fd[t]] /\ sent[t] > 0)
    BY <1>3, <1>t DEF SendFails, txVars, ThreadTypeOK
  <2>2. ret[t] = "none" /\ gOwner = t /\ sent[t] \in 0 .. 2
    BY <1>t, <2>1 DEF RetOK, InExchange, ConnOK, ThreadTypeOK
  <2>3. \A c : Uses(t, c)' <=> Uses(t, c)
    BY <2>1 DEF Uses, InExchange, Waiting, netVars
  <2>4. ASSUME NEW c \in Conns, ~fault'[c], Uses(t, c)
        PROVE  Empty(c)
    <3>1. c = conn[fd[t]]
      BY <2>1, <2>4 DEF Uses, Waiting
    <3>2. ~fault[c] /\ ~(sent[t] > 0)
      BY <2>1, <2>4, <3>1
    <3>3. sent[t] = 0
      BY <2>2, <3>2
    <3> QED
      BY <1>t, <2>1, <2>4, <3>2, <3>3 DEF StreamOK, Talk
  <2>5. \A c \in Conns : ~fault'[c] =>
           /\ Uses(t, c)' => Talk(t, c)'
           /\ Uses(t, c) /\ ~Uses(t, c)' /\ (\E f \in Fds : conn[f] = c) => Empty(c)
    BY <2>1, <2>3, <2>4 DEF Talk, Empty, netVars
  <2>6. FaultsStay
    BY <2>1 DEF FaultsStay
  <2> QED
    BY <1>x, <1>o, <2>1, <2>2, <2>5, <2>6, InsideStep DEF Waiting
<1>4. CASE WriteDone(t)
  <2>1. /\ UNCHANGED <<netVars, executed, fault, fd, calls>> /\ step[t] = "write_ok"
        /\ step'[t] = "header" /\ gOwner = t /\ ret'[t] = ret[t]
    BY <1>4, <1>t DEF WriteDone, UnlockWrite, histVars, ThreadTypeOK
  <2>2. ret[t] = "none"
    BY <1>t, <2>1 DEF RetOK, InExchange
  <2>3. \A c : Uses(t, c)' <=> Uses(t, c)
    BY <2>1 DEF Uses, InExchange, Waiting, netVars
  <2>4. \A c \in Conns : ~fault'[c] =>
           /\ Uses(t, c)' => Talk(t, c)'
           /\ Uses(t, c) /\ ~Uses(t, c)' /\ (\E f \in Fds : conn[f] = c) => Empty(c)
    BY <1>t, <2>1, <2>3 DEF StreamOK, Talk, Asked, Answered, Own, netVars
  <2> QED
    BY <1>x, <1>o, <2>1, <2>2, <2>4, InsideStep DEF Waiting, FaultsStay
<1>5. CASE WriteRetry(t)
  <2>1. /\ UNCHANGED <<netVars, executed, fault, fd>> /\ step[t] = "write_err"
        /\ step'[t] \in {"write_lock", "finish"} /\ gOwner = t
        /\ ret'[t] \in {ret[t], "SOCKET_SEND_FAILED"}
    BY <1>5, <1>t DEF WriteRetry, UnlockWrite, Ends, histVars, ThreadTypeOK
  <2>2. ret[t] = "none"
    BY <1>t, <2>1 DEF RetOK, InExchange
  <2>3. \A c : Uses(t, c)' <=> Uses(t, c)
    BY <2>1 DEF Uses, InExchange, Waiting, netVars
  <2>4. \A c \in Conns : ~fault'[c] =>
           /\ Uses(t, c)' => Talk(t, c)'
           /\ Uses(t, c) /\ ~Uses(t, c)' /\ (\E f \in Fds : conn[f] = c) => Empty(c)
    BY <1>t, <2>1, <2>3 DEF StreamOK, Talk, Empty, netVars
  <2> QED
    BY <1>x, <1>o, <2>1, <2>2, <2>4, InsideStep DEF Waiting, FaultsStay
<1>6. CASE EnterRecv(t)
  <2>1. /\ UNCHANGED <<netVars, executed, fault, fd, gOwner, calls, reply>>
        /\ step[t] \in {"header", "payload"}
    BY <1>6 DEF EnterRecv, txVars
  <2>2. ret[t] = "none" /\ fd[t] \in Fds /\ touched[t] \subseteq Conns
    BY <1>t, <2>1 DEF RetOK, InExchange, FlowOK, HistTypeOK
  <2>3. CASE conn[fd[t]] = NoConn
    <3>1. step'[t] = "finish" /\ ret'[t] = "SOCKET_RECV_FAILED"
      BY <1>6, <1>t, <2>3 DEF EnterRecv, Ends, ThreadTypeOK
    <3>2. \A c : ~Uses(t, c) /\ ~Uses(t, c)'
      BY <2>1, <2>3, <3>1 DEF Uses, Waiting, netVars
    <3> QED
      BY <1>x, <1>o, <2>1, <3>1, <3>2, InsideStep DEF Waiting, FaultsStay
  <2>4. CASE conn[fd[t]] # NoConn
    <3>1. /\ sock'[t] = conn[fd[t]] /\ touched'[t] = touched[t] \cup {conn[fd[t]]}
          /\ step'[t] = IF step[t] = "header" THEN "wait_header" ELSE "wait_payload"
          /\ ret'[t] = ret[t]
      BY <1>6, <1>t, <2>4 DEF EnterRecv, ThreadTypeOK, HistTypeOK
    <3>2. Waiting(t)' /\ ~Waiting(t) /\ InExchange(t) /\ InExchange(t)'
      BY <2>1, <3>1 DEF Waiting, InExchange
    <3>3. \A c : Uses(t, c)' <=> Uses(t, c)
      BY <2>1, <3>1, <3>2 DEF Uses, netVars
    <3>4. \A c \in Conns : ~fault'[c] =>
             /\ Uses(t, c)' => Talk(t, c)'
             /\ Uses(t, c) /\ ~Uses(t, c)' /\ (\E f \in Fds : conn[f] = c) => Empty(c)
      BY <1>t, <2>1, <3>1, <3>3
         DEF StreamOK, Talk, Empty, Asked, Answered, PayloadLeft, Own, netVars
    <3>5. ASSUME NEW u \in Threads \ {t}, Waiting(u), sock[u] = conn[fd[t]]
          PROVE  FALSE
      <4>1. fd[u] = fd[t]
        BY <1>t, <2>2, <3>5 DEF ConnOK
      <4>2. pc[u] = "held" /\ pc[t] = "held"
        BY <1>t, <2>1, <3>5 DEF FlowOK, InExchange, Waiting
      <4> QED
        BY <1>x, <4>1, <4>2 DEF ExchangeExclusion, Holding
    <3>6. /\ sock'[t] <= opened /\ sock'[t] \in touched'[t]
          /\ \A f \in Fds : conn[f] = sock'[t] => f = fd'[t]
          /\ \A u \in Threads \ {t} : Waiting(u) => sock[u] # sock'[t]
      BY <1>t, <2>1, <2>2, <2>4, <3>1, <3>5 DEF ConnOK
    <3>7. step'[t] \in {"wait_header", "wait_payload"} /\ ret'[t] # "SUCCESS"
          /\ (step'[t] = "wait_payload" => step[t] = "payload")
      BY <2>1, <2>2, <3>1
    <3> QED
      BY <1>x, <1>o, <2>1, <3>1, <3>4, <3>6, <3>7, InsideStep DEF FaultsStay
  <2> QED
    BY <2>3, <2>4
<1>7. CASE ReadFails(t)
  <2>1. /\ UNCHANGED <<netVars, executed, fd, gOwner, sock>> /\ Waiting(t)
        /\ step'[t] = "finish" /\ ret'[t] \in {"SOCKET_RECV_FAILED", "CONNECTION_CLOSED"}
        /\ fault' = [fault EXCEPT ![sock[t]] = TRUE]
    BY <1>7, <1>t DEF ReadFails, Ends, Failed, Waiting, txVars, ThreadTypeOK
  <2>2. \A c \in Conns : fault'[c] = (fault[c] \/ c = sock[t])
    BY <1>t, <2>1 DEF HistTypeOK
  <2>3. InExchange(t) /\ fd[t] \in Fds
    BY <1>t, <2>1 DEF InExchange, Waiting, FlowOK
  <2>4. ASSUME NEW c \in Conns, ~fault'[c]
        PROVE  ~Uses(t, c) /\ (Uses(t, c)' => Empty(c))
    <3>1. ~fault[c] /\ c # sock[t]
      BY <2>2, <2>4
    <3>2. ~Uses(t, c)
      BY <2>1, <3>1 DEF Uses
    <3>3. Uses(t, c)' => conn[fd[t]] = c
      BY <2>1 DEF Uses, Waiting, netVars
    <3> QED
      BY <1>t, <1>x, <2>3, <3>1, <3>2, <3>3, OpenIsFree
  <2>5. \A c \in Conns : ~fault'[c] =>
           /\ Uses(t, c)' => Talk(t, c)'
           /\ Uses(t, c) /\ ~Uses(t, c)' /\ (\E f \in Fds : conn[f] = c) => Empty(c)
    BY <2>1, <2>4 DEF Talk, Empty, netVars
  <2>6. FaultsStay
    BY <2>2 DEF FaultsStay
  <2> QED
    BY <1>x, <1>o, <2>1, <2>5, <2>6, InsideStep DEF Waiting
<1> QED
  BY <1>1, <1>2, <1>3, <1>4, <1>5, <1>6, <1>7

\* Sequences of at most two chunks.
LEMMA ShortSeqs ==
  ASSUME NEW a, NEW b
  PROVE  /\ <<a>> # <<>> /\ Head(<<a>>) = a /\ Tail(<<a>>) = <<>>
         /\ <<a, b>> # <<>> /\ Head(<<a, b>>) = a /\ Tail(<<a, b>>) = <<b>>
         /\ Append(<<>>, a) = <<a>> /\ Append(<<a>>, b) = <<a, b>>
         /\ Len(<<>>) = 0 /\ Len(<<a>>) = 1 /\ Len(<<a, b>>) = 2
         /\ <<a>>[1] = a /\ <<a, b>>[1] = a /\ <<a, b>>[2] = b
<1>1. /\ <<a>> # <<>> /\ <<a, b>> # <<>>
      /\ Len(<<>>) = 0 /\ Len(<<a>>) = 1 /\ Len(<<a, b>>) = 2
      /\ <<a>>[1] = a /\ <<a, b>>[1] = a /\ <<a, b>>[2] = b
  OBVIOUS
<1>2. Head(<<a>>) = a /\ Head(<<a, b>>) = a
  OBVIOUS
<1>3. Tail(<<a>>) = <<>>
  OBVIOUS
<1>4. Tail(<<a, b>>) = <<b>>
  OBVIOUS
<1>5. Append(<<>>, a) = <<a>>
  OBVIOUS
<1>6. Append(<<a>>, b) = <<a, b>>
  <2> DEFINE S == {a, b}
  <2>1. <<a>> \in Seq(S) /\ <<a, b>> \in Seq(S) /\ b \in S
    OBVIOUS
  <2>2. /\ Append(<<a>>, b) \in Seq(S) /\ Len(Append(<<a>>, b)) = 2
        /\ Append(<<a>>, b)[1] = a /\ Append(<<a>>, b)[2] = b
    BY <1>1, <2>1, AppendProperties
  <2>3. \A j \in 1 .. 2 : Append(<<a>>, b)[j] = <<a, b>>[j]
    BY <1>1, <2>2
  <2> HIDE DEF S
  <2> QED
    BY <1>1, <2>1, <2>2, <2>3, SeqEqual
<1> QED
  BY <1>1, <1>2, <1>3, <1>4, <1>5, <1>6

\* The exchange is over: nothing is left on its connection.
LEMMA FinishInv ==
  ASSUME TypeInv, TypeInv', IInv, RInv, NEW t \in Threads, FinishExchange(t)
  PROVE  RInv'
<1>t. /\ TxTypeOK /\ ThreadTypeOK /\ ConnOK /\ StreamOK /\ ReplyOK /\ ExchangeExclusion
  BY InvExclusion DEF TypeInv, TypeOK, RInv
<1>o. OthersKeep(t)
  BY StepsOfOne DEF Proceed
<1>1. /\ UNCHANGED <<netVars, executed, fault, touched, gOwner, fd, calls, reply, ret>>
      /\ step[t] = "finish" /\ step'[t] = "none"
  BY <1>t DEF FinishExchange, BeginUnlock, histVars, ThreadTypeOK
<1>2. UNCHANGED <<conn, opened, plcOut, toPlc, toClient, peerUp>> /\ FaultsStay
  BY <1>1 DEF netVars, FaultsStay
<1>3. FramesOK'
  BY <1>o, <1>1, <1>2, FrameStep DEF RInv
<1>4. \A c : ~Uses(t, c)'
  BY <1>1 DEF Uses, InExchange
<1>5. \A c \in Conns : ~fault'[c] /\ Uses(t, c) => Empty(c)'
  BY <1>t, <1>1, <1>2 DEF StreamOK, Talk, Empty
<1>6. ret'[t] = "SUCCESS" /\ (\A c \in touched'[t] : ~fault'[c])
        => reply'[t] = Own(t)' /\ executed[Own(t)'] # 0
  BY <1>t, <1>1 DEF ReplyOK, Own
<1> QED
  BY <1>t, <1>o, <1>1, <1>2, <1>3, <1>4, <1>5, <1>6, StepOfOne DEF Waiting

\* A header or a payload is read.
LEMMA ReadInv ==
  ASSUME TypeInv, TypeInv', IInv, OnceInv, RInv, NEW t \in Threads,
         ReadHeader(t) \/ ReadPayload(t)
  PROVE  RInv'
<1>p. PICK s : s = sock[t]
  OBVIOUS
<1> DEFINE x == Head(toClient[s])
<1>t. /\ ThreadTypeOK /\ NetTypeOK /\ HistTypeOK /\ FlowOK /\ RetOK
      /\ ConnOK /\ StreamOK /\ ReplyOK /\ ExchangeExclusion
  BY InvExclusion DEF TypeInv, TypeOK, RInv, OnceInv
<1>o. OthersKeep(t)
  BY StepsOfOne DEF Proceed
<1>1. /\ Waiting(t) /\ toClient[s] # <<>>
      /\ toClient' = [toClient EXCEPT ![s] = Tail(toClient[s])]
      /\ UNCHANGED <<conn, opened, plcOut, toPlc, peerUp, executed, touched, sock, fd,
                     calls, gOwner>>
  BY <1>p DEF ReadHeader, ReadPayload, Consume, Waiting, txVars, histVars
<1>2. /\ InExchange(t) /\ pc[t] = "held" /\ fd[t] \in Fds /\ s \in Conns /\ s # NoConn
      /\ s \in touched[t] /\ ret[t] = "none"
  BY <1>p, <1>t, <1>1 DEF Waiting, InExchange, FlowOK, ThreadTypeOK, ConnOK, RetOK
<1>3. Uses(t, s) /\ \A c : Uses(t, c) => c = s
  BY <1>p, <1>1, <1>2 DEF Uses
<1>4. toClient'[s] = Tail(toClient[s]) /\ \A c \in Conns \ {s} : toClient'[c] = toClient[c]
  BY <1>t, <1>1, <1>2 DEF NetTypeOK
<1>5. FaultsStay /\ (fault'[s] \/ UNCHANGED fault)
      /\ \A c \in Conns \ {s} : fault'[c] = fault[c]
  BY <1>p, <1>t, <1>2 DEF ReadHeader, ReadPayload, Failed, histVars, HistTypeOK, FaultsStay
<1>6. step'[t] \in {"payload", "finish"}
  BY <1>t DEF ReadHeader, ReadPayload, Ends, ThreadTypeOK
\* What was read on a connection without fault, and what is left there.
<1>7. ASSUME ~fault'[s]
      PROVE  /\ step'[t] = "finish" => Empty(s)'
             /\ step'[t] = "payload" => PayloadLeft(s, Own(t))'
             /\ (\A c \in touched[t] : ~fault[c]) => reply'[t] = Own(t) /\ executed[Own(t)] # 0
  <2>1. ~fault[s] /\ Talk(t, s)
    BY <1>t, <1>2, <1>3, <1>5, <1>7 DEF FaultsStay, StreamOK
  <2>2. CASE ReadHeader(t)
    <3>1. Answered(s, Own(t))
      BY <1>1, <2>1, <2>2 DEF ReadHeader, Talk, Asked
    <3>2. /\ reply'[t] = x.req
          /\ x.part = "header" => step'[t] = IF x.more THEN "payload" ELSE "finish"
      BY <1>p, <1>t, <1>7, <2>2, <1>2 DEF ReadHeader, Ends, Failed, ThreadTypeOK, HistTypeOK
    <3>3. CASE toClient[s] = <<Answer(Own(t), FALSE)>> /\ plcOut[s] = <<>>
      <4>1. x.req = Own(t) /\ x.part = "header" /\ ~x.more /\ toClient'[s] = <<>>
        BY <1>4, <3>3, ShortSeqs DEF Answer
      <4> QED
        BY <1>1, <3>1, <3>2, <3>3, <4>1 DEF Answered, Empty
    <3>4. CASE toClient[s] = <<Answer(Own(t), TRUE)>> /\ plcOut[s] = <<Payload(Own(t))>>
      <4>1. x.req = Own(t) /\ x.part = "header" /\ x.more /\ toClient'[s] = <<>>
        BY <1>4, <3>4, ShortSeqs DEF Answer
      <4> QED
        BY <1>1, <3>1, <3>2, <3>4, <4>1 DEF Answered, PayloadLeft, Own
    <3>5. CASE toClient[s] = <<Answer(Own(t), TRUE), Payload(Own(t))>> /\ plcOut[s] = <<>>
      <4>1. /\ x.req = Own(t) /\ x.part = "header" /\ x.more
            /\ toClient'[s] = <<Payload(Own(t))>>
        BY <1>4, <3>5, ShortSeqs DEF Answer
      <4> QED
        BY <1>1, <3>1, <3>2, <3>5, <4>1 DEF Answered, PayloadLeft, Own
    <3> QED
      BY <1>1, <3>1, <3>3, <3>4, <3>5 DEF Answered
  <2>3. CASE ReadPayload(t)
    <3>1. step[t] = "wait_payload" /\ step'[t] = "finish" /\ UNCHANGED reply
      BY <1>t, <2>3 DEF ReadPayload, Ends, ThreadTypeOK
    <3>2. PayloadLeft(s, Own(t))
      BY <1>1, <2>1, <3>1 DEF Talk, Empty
    <3>3. toClient[s] = <<Payload(Own(t))>> /\ plcOut[s] = <<>> /\ toPlc[s] = <<>>
      BY <1>1, <3>2 DEF PayloadLeft
    <3>4. toClient'[s] = <<>>
      BY <1>4, <3>3, ShortSeqs
    <3>5. Empty(s)'
      BY <1>1, <3>3, <3>4 DEF Empty
    <3> QED
      BY <1>t, <3>1, <3>5 DEF ReplyOK
  <2> QED
    BY <2>2, <2>3
<1>8. ASSUME NEW c \in Conns, ~fault'[c]
      PROVE  /\ Uses(t, c)' => Talk(t, c)'
             /\ Uses(t, c) /\ ~Uses(t, c)' /\ (\E f \in Fds : conn[f] = c) => Empty(c)'
  <2>1. Own(t)' = Own(t) /\ (Uses(t, c)' => conn[fd[t]] = c)
    BY <1>1, <1>6 DEF Uses, Waiting, Own
  <2>2. CASE c = s
    <3>1. Uses(t, c)' => Talk(t, c)'
      BY <1>6, <1>7, <1>8, <2>1, <2>2 DEF Talk, PayloadLeft
    <3>2. ASSUME NEW f \in Fds, conn[f] = c
          PROVE  Uses(t, c)' \/ Empty(c)'
      <4>1. f = fd[t]
        BY <1>p, <1>t, <1>1, <2>2, <3>2 DEF ConnOK
      <4>2. CASE step'[t] = "finish"
        BY <1>7, <1>8, <2>2, <4>2
      <4>3. CASE step'[t] = "payload"
        BY <1>1, <1>2, <2>2, <3>2, <4>1, <4>3 DEF Uses, InExchange, Waiting
      <4> QED
        BY <1>6, <4>2, <4>3
    <3> QED
      BY <3>1, <3>2
  <2>3. CASE c # s
    <3>1. ~Uses(t, c) /\ ~fault[c]
      BY <1>3, <1>5, <1>8, <2>3
    <3>2. conn[fd[t]] = c => Empty(c)
      BY <1>t, <1>2, <3>1, OpenIsFree
    <3>3. Empty(c) => Empty(c)'
      BY <1>1, <1>4, <2>3 DEF Empty
    <3> QED
      BY <1>6, <2>1, <3>1, <3>2, <3>3 DEF Talk
  <2> QED
    BY <2>2, <2>3
<1>9. (\A c \in touched'[t] : ~fault'[c]) => reply'[t] = Own(t)' /\ executed[Own(t)'] # 0
  <2>1. touched[t] \subseteq Conns
    BY <1>t DEF HistTypeOK
  <2> QED
    BY <1>1, <1>2, <1>5, <1>7, <2>1 DEF Own, FaultsStay
<1>10. FramesOK'
  BY <1>t, <1>o, <1>1, <1>5, <1>6, FrameStep DEF RInv
<1>11. \A c \in Conns : Uses(t, c) \/ (toPlc'[c] = toPlc[c] /\ toClient'[c] = toClient[c])
  BY <1>1, <1>3, <1>4
<1> HIDE DEF x
<1> QED
  BY <1>t, <1>o, <1>1, <1>5, <1>6, <1>8, <1>9, <1>10, <1>11, StepOfOne DEF Waiting

\* A chunk is sent: behind the first chunk of a frame comes its second.
LEMMA SendInv ==
  ASSUME TypeInv, TypeInv', IInv, OnceInv, RInv, NEW t \in Threads, SendChunk(t)
  PROVE  RInv'
<1>t. /\ ThreadTypeOK /\ NetTypeOK /\ HistTypeOK /\ FlowOK /\ RetOK
      /\ ConnOK /\ StreamOK /\ FramesOK /\ ExchangeExclusion
  BY InvExclusion DEF TypeInv, TypeOK, RInv, OnceInv
<1>o. OthersKeep(t)
  BY StepsOfOne DEF Proceed
<1>p. PICK c, r : c = conn[fd[t]] /\ r = Own(t)
  OBVIOUS
<1> DEFINE P == toPlc[c]
           chunk == IF sent[t] = 0 THEN HeadOf(r) ELSE TailOf(r)
<1>1. /\ step[t] = "send" /\ c # NoConn
      /\ sent' = [sent EXCEPT ![t] = sent[t] + 1]
      /\ step' = [step EXCEPT ![t] = IF sent[t] = 1 THEN "write_ok" ELSE "send"]
      /\ toPlc' = [toPlc EXCEPT ![c] = IF peerUp[c] THEN Append(P, chunk) ELSE P]
      /\ UNCHANGED <<gOwner, fd, sock, ret, reply, calls, conn, opened, plcOut, toClient,
                     peerUp, executed, fault>>
  BY <1>p DEF SendChunk, txVars, HeadOf, TailOf
<1>2. /\ fd[t] \in Fds /\ c \in Conns /\ ret[t] = "none" /\ gOwner = t
      /\ sent[t] \in {0, 1} /\ pc[t] # "idle"
  <2>1. InExchange(t)
    BY <1>1 DEF InExchange
  <2>2. fd[t] \in Fds /\ pc[t] = "held"
    BY <1>t, <2>1 DEF FlowOK
  <2>3. c \in Conns
    BY <1>p, <1>t, <1>1, <2>2 DEF NetTypeOK
  <2>4. gOwner = t
    BY <1>t, <1>1 DEF ConnOK
  <2>5. ret[t] = "none"
    BY <1>t, <1>1, <2>1 DEF RetOK
  <2>6. sent[t] \in {0, 1}
    BY <1>t, <1>1 DEF FlowOK, ThreadTypeOK
  <2> QED
    BY <2>2, <2>3, <2>4, <2>5, <2>6
<1>3. /\ sent'[t] = sent[t] + 1 /\ step'[t] = IF sent[t] = 1 THEN "write_ok" ELSE "send"
      /\ toPlc'[c] = IF peerUp[c] THEN Append(P, chunk) ELSE P
      /\ \A d \in Conns \ {c} : toPlc'[d] = toPlc[d]
      /\ Own(t)' = r
  BY <1>p, <1>t, <1>1, <1>2 DEF ThreadTypeOK, NetTypeOK, Own
<1>4. \A d : /\ Uses(t, d) <=> d = c
             /\ Uses(t, d)' <=> Uses(t, d)
  BY <1>p, <1>1, <1>2, <1>3 DEF Uses, InExchange, Waiting
<1>5. \A u \in Threads : step[u] = "send" => u = t
  BY <1>t, <1>2 DEF ConnOK
<1>6. /\ P \in Seq(FrameChunks) /\ Len(P) \in Nat /\ chunk \in FrameChunks
  <2>1. r \in Requests
    BY <1>p, <1>2, OwnIsRequest
  <2> QED
    BY <1>t, <1>2, <2>1, LenProperties DEF NetTypeOK, FrameChunks, HeadOf, TailOf
<1>7. /\ Len(Append(P, chunk)) = Len(P) + 1 /\ Append(P, chunk) # <<>>
      /\ \A k \in 1 .. Len(P) : Append(P, chunk)[k] = P[k]
      /\ Append(P, chunk)[Len(P) + 1] = chunk
  BY <1>6, AppendProperties
\* The head goes to a clean connection, the tail behind the head.
<1>8. sent[t] = 1 /\ peerUp[c] =>
        (P = <<>> /\ fault[c]) \/ (P # <<>> /\ P[Len(P)] = HeadOf(r))
  BY <1>p, <1>t, <1>1 DEF FramesOK
<1>9. ASSUME ~fault[c]
      PROVE  /\ plcOut[c] = <<>> /\ toClient[c] = <<>>
             /\ sent[t] = 0 => toPlc'[c] \in {<<>>, <<HeadOf(r)>>}
             /\ toPlc'[c] \in {<<>>, <<HeadOf(r)>>, <<HeadOf(r), TailOf(r)>>}
  <2>1. Talk(t, c)
    BY <1>t, <1>2, <1>4, <1>9 DEF StreamOK
  <2>2. CASE sent[t] = 0
    <3>1. P = <<>> /\ plcOut[c] = <<>> /\ toClient[c] = <<>>
      BY <1>1, <2>1, <2>2 DEF Talk, Empty
    <3>2. Append(P, chunk) = <<HeadOf(r)>>
      BY <2>2, <3>1, ShortSeqs
    <3> QED
      BY <1>3, <3>1, <3>2
  <2>3. CASE sent[t] = 1
    <3>1. P \in {<<>>, <<HeadOf(r)>>} /\ plcOut[c] = <<>> /\ toClient[c] = <<>>
      BY <1>p, <1>1, <2>1, <2>3 DEF Talk
    <3>2. peerUp[c] => P = <<HeadOf(r)>>
      BY <1>8, <1>9, <2>3, <3>1
    <3>3. P = <<HeadOf(r)>> => Append(P, chunk) = <<HeadOf(r), TailOf(r)>>
      <4>1. chunk = TailOf(r)
        BY <2>3
      <4>2. Append(<<HeadOf(r)>>, TailOf(r)) = <<HeadOf(r), TailOf(r)>>
        BY ShortSeqs
      <4> HIDE DEF P, chunk
      <4> QED
        BY <4>1, <4>2
    <3> HIDE DEF P, chunk
    <3> QED
      BY <1>3, <2>3, <3>1, <3>2, <3>3 DEF P
  <2> QED
    BY <1>2, <2>2, <2>3
<1>10. FramesOK'
  <2>1. ASSUME NEW d \in Conns, NEW k \in 1 .. Len(toPlc'[d]), toPlc'[d][k][1] = "tail"
        PROVE  \/ k = 1 /\ fault'[d]
               \/ k > 1 /\ toPlc'[d][k - 1] = <<"head", toPlc'[d][k][2]>>
    <3>1. CASE toPlc'[d] = toPlc[d]
      BY <1>t, <1>1, <2>1, <3>1 DEF FramesOK, FramesUncut
    <3>2. CASE toPlc'[d] # toPlc[d]
      <4>1. d = c /\ peerUp[c] /\ toPlc'[d] = Append(P, chunk)
        BY <1>3, <3>2
      <4>2. CASE k = Len(P) + 1
        <5>1. toPlc'[d][k] = chunk
          BY <1>7, <4>1, <4>2
        <5>2. chunk = TailOf(r) /\ sent[t] = 1
          BY <1>2, <2>1, <5>1 DEF HeadOf
        <5>3. CASE P = <<>> /\ fault[c]
          BY <1>1, <4>1, <4>2, <5>3
        <5>4. CASE P # <<>> /\ P[Len(P)] = HeadOf(r)
          <6>1. Len(P) >= 1
            BY <1>6, <5>4, EmptySeq
          <6>2. toPlc'[d][k - 1] = HeadOf(r)
            BY <1>6, <1>7, <4>1, <4>2, <5>4, <6>1
          <6> QED
            BY <1>6, <4>2, <5>1, <5>2, <6>1, <6>2 DEF HeadOf, TailOf
        <5> QED
          BY <1>8, <4>1, <5>2, <5>3, <5>4
      <4>3. CASE k # Len(P) + 1
        <5>1. k \in 1 .. Len(P) /\ Len(toPlc'[d]) = Len(P) + 1
          BY <1>6, <1>7, <4>1, <4>3
        <5>2. toPlc'[d][k] = P[k] /\ (k > 1 => toPlc'[d][k - 1] = P[k - 1])
          BY <1>6, <1>7, <4>1, <5>1
        <5>3. \/ k = 1 /\ fault[d]
              \/ k > 1 /\ P[k - 1] = <<"head", P[k][2]>>
          BY <1>t, <2>1, <4>1, <5>1, <5>2 DEF FramesOK, FramesUncut
        <5> QED
          BY <1>1, <5>2, <5>3
      <4> QED
        BY <4>2, <4>3
    <3> QED
      BY <3>1, <3>2
  <2>2. ASSUME NEW d \in Conns, ~fault'[d]
        PROVE  /\ Len(toPlc'[d]) <= 2
               /\ toPlc'[d] # <<>> => toPlc'[d][1][1] = "head"
               /\ Len(toPlc'[d]) = 2 => toPlc'[d][2][1] = "tail"
    <3>1. CASE d = c
      <4>1. toPlc'[c] \in {<<>>, <<HeadOf(r)>>, <<HeadOf(r), TailOf(r)>>}
        BY <1>1, <1>9, <2>2, <3>1
      <4>2. HeadOf(r)[1] = "head"
        BY DEF HeadOf
      <4>3. CASE toPlc'[c] = <<>>
        <5>1. Len(<<>>) = 0
          BY ShortSeqs
        <5> QED
          BY <3>1, <4>3, <5>1
      <4>4. CASE toPlc'[c] = <<HeadOf(r)>>
        <5>1. Len(<<HeadOf(r)>>) = 1 /\ <<HeadOf(r)>>[1] = HeadOf(r)
          BY ShortSeqs
        <5> QED
          BY <3>1, <4>2, <4>4, <5>1
      <4>5. CASE toPlc'[c] = <<HeadOf(r), TailOf(r)>>
        <5>1. /\ Len(toPlc'[c]) = 2
              /\ toPlc'[c][1] = HeadOf(r) /\ toPlc'[c][2] = TailOf(r)
          BY <4>5, ShortSeqs
        <5> QED
          BY <3>1, <4>2, <5>1 DEF TailOf
      <4> QED
        BY <4>1, <4>3, <4>4, <4>5
    <3>2. CASE d # c
      BY <1>t, <1>1, <1>3, <2>2, <3>2 DEF FramesOK
    <3> QED
      BY <3>1, <3>2
  <2>3. ASSUME NEW u \in Threads, step'[u] = "send" /\ sent'[u] = 1, peerUp'[conn'[fd'[u]]]
        PROVE  LET d == conn'[fd'[u]] IN
               \/ toPlc'[d] = <<>> /\ fault'[d]
               \/ toPlc'[d] # <<>> /\ toPlc'[d][Len(toPlc'[d])] = HeadOf(Own(u)')
    <3>1. u = t
      BY <1>o, <1>5, <2>3 DEF OthersKeep
    <3>2. conn'[fd'[u]] = c /\ sent[t] = 0 /\ peerUp[c]
      BY <1>p, <1>1, <1>2, <1>3, <2>3, <3>1
    <3>3. toPlc'[c] = Append(P, chunk) /\ chunk = HeadOf(r)
      BY <1>3, <3>2
    <3> HIDE DEF P, chunk
    <3> QED
      BY <1>3, <1>6, <1>7, <3>1, <3>2, <3>3
  <2> QED
    BY <2>1, <2>2, <2>3 DEF FramesOK, FramesUncut
<1>11. \A d \in Conns : ~fault'[d] =>
         /\ Uses(t, d)' => Talk(t, d)'
         /\ Uses(t, d) /\ ~Uses(t, d)' /\ (\E f \in Fds : conn[f] = d) => Empty(d)'
  BY <1>1, <1>2, <1>3, <1>4, <1>9 DEF Talk, Asked
<1>12. \A d \in Conns : Uses(t, d) \/ (toPlc'[d] = toPlc[d] /\ toClient'[d] = toClient[d])
  BY <1>1, <1>3, <1>4
<1>13. /\ ~Waiting(t)' /\ step'[t] \notin {"payload", "wait_payload"} /\ ret'[t] # "SUCCESS"
       /\ FaultsStay /\ gOwner' = t /\ conn[fd'[t]] # NoConn
  BY <1>p, <1>1, <1>2, <1>3 DEF Waiting, FaultsStay
<1> HIDE DEF P, chunk
<1> QED
  BY <1>t, <1>o, <1>1, <1>10, <1>11, <1>12, <1>13, StepOfOne

-----------------------------------------------------------------------------
(* Opening and closing. *)

\* A new connection gets a new number: it is clean, and nobody uses it but who holds its
\* descriptor.
LEMMA OpenInv ==
  ASSUME TypeInv, TypeInv', IInv, OnceInv, RInv, NEW t \in Threads, OpenSocket(t)
  PROVE  RInv'
<1>t. /\ ThreadTypeOK /\ NetTypeOK /\ FlowOK /\ ConnOK /\ StreamOK /\ ReplyOK /\ FramesOK
      /\ ExchangeExclusion
  BY InvExclusion DEF TypeInv, TypeOK, RInv
<1>1. /\ step[t] = "open" /\ step' = [step EXCEPT ![t] = "none"]
      /\ UNCHANGED <<txVars, sent, sock, ret, reply, calls, toPlc, plcOut, toClient, peerUp,
                     executed, fault, touched>>
  BY DEF OpenSocket, histVars
<1>2. /\ step'[t] = "none" /\ \A u \in Threads \ {t} : step'[u] = step[u]
      /\ OthersKeep(t) /\ FaultsStay
  BY <1>t, <1>1 DEF ThreadTypeOK, txVars, OthersKeep, FaultsStay
<1>3. CASE UNCHANGED <<opened, conn>>
  <2>1. ~InExchange(t) /\ ~InExchange(t)'
    BY <1>1, <1>2 DEF InExchange
  <2> QED
    BY <1>t, <1>1, <1>2, <1>3, <2>1, OutsideStep DEF netVars, txVars
<1>4. ASSUME NEW f \in Fds, conn[f] = NoConn, opened' = opened + 1,
             conn' = [conn EXCEPT ![f] = opened + 1]
      PROVE  RInv'
  <2>n. PICK n : n = opened + 1
    OBVIOUS
  <2>1. /\ opened \in Nat /\ n > opened /\ n # NoConn
        /\ conn'[f] = n /\ \A g \in Fds \ {f} : conn'[g] = conn[g]
    BY <1>t, <1>4, <2>n DEF NetTypeOK, NoConn
  <2>2. \A u \in Threads : InExchange(u) => fd[u] \in Fds
    BY <1>t DEF FlowOK
  <2>3. \A u \in Threads : step[u] = "send" /\ sent[u] = 1 => conn'[fd[u]] = conn[fd[u]]
    BY <1>t, <1>4, <2>1, <2>2 DEF ConnOK, InExchange
  <2>4. \A u \in Threads : Waiting(u)' <=> Waiting(u)
    BY <1>1, <1>2 DEF Waiting
  <2>5. \A u \in Threads : InExchange(u)' <=> InExchange(u)
    BY <1>1, <1>2 DEF InExchange
  <2>6. ASSUME NEW u \in Threads, NEW c, c # n
        PROVE  Uses(u, c)' <=> Uses(u, c)
    <3>1. CASE Waiting(u)
      BY <1>1, <2>4, <2>5, <3>1 DEF Uses
    <3>2. CASE ~Waiting(u)
      BY <1>1, <1>4, <2>1, <2>2, <2>4, <2>5, <2>6, <3>2 DEF Uses, txVars
    <3> QED
      BY <3>1, <3>2
  <2>7. ASSUME NEW u \in Threads, Uses(u, n)'
        PROVE  ~Waiting(u) /\ InExchange(u) /\ conn[fd[u]] = NoConn /\ step[u] = step'[u]
    <3>u. /\ InExchange(u)'
          /\ n = IF Waiting(u)' THEN sock'[u] ELSE conn'[fd'[u]]
      BY <2>7 DEF Uses
    <3>1. ~Waiting(u)
      <4>1. SUFFICES ASSUME Waiting(u)
                     PROVE  FALSE
        OBVIOUS
      <4>2. n = sock[u]
        BY <1>1, <2>4, <3>u, <4>1
      <4>3. sock[u] <= opened
        BY <1>t, <4>1 DEF ConnOK
      <4> QED
        BY <2>n, <2>1, <4>2, <4>3
    <3>2. InExchange(u) /\ u # t /\ fd[u] \in Fds
      BY <1>1, <2>2, <2>5, <3>u DEF InExchange
    <3>3. conn'[fd[u]] = n
      BY <1>1, <2>4, <3>u, <3>1 DEF txVars
    <3>4. conn[fd[u]] # n
      BY <1>t, <2>n, <2>1, <3>2 DEF ConnOK, NetTypeOK, Conns, NoConn
    <3> QED
      BY <1>2, <1>4, <2>1, <3>1, <3>2, <3>3, <3>4
  <2>8. n \in Conns => Empty(n)
    BY <1>t, <2>n, <2>1 DEF ConnOK
  <2>o. opened' = n
    BY <1>4, <2>n
  <2>9. ConnOK'
    <3>1. \A g \in Fds : conn'[g] <= opened'
      BY <1>t, <1>4, <2>n, <2>1, <2>o DEF ConnOK, NetTypeOK, Conns, NoConn
    <3>2. \A g \in Fds : conn[g] # n
      BY <1>t, <2>n, <2>1, <2>o DEF ConnOK, NetTypeOK, Conns, NoConn
    <3>3. \A g, h \in Fds : conn'[g] = conn'[h] /\ conn'[g] # NoConn => g = h
      BY <1>t, <2>n, <2>1, <2>o, <3>2 DEF ConnOK
    <3>4. \A c \in Conns : c > opened' => Empty(c)'
      BY <1>t, <1>1, <1>4, <2>n, <2>1, <2>o DEF ConnOK, Empty, Conns, NetTypeOK
    <3>5. ASSUME NEW u \in Threads, Waiting(u)
          PROVE  /\ sock'[u] <= opened' /\ sock'[u] \in touched'[u]
                 /\ \A g \in Fds : conn'[g] = sock'[u] => g = fd'[u]
      <4>1. sock[u] <= opened /\ sock[u] \in Nat /\ sock[u] # n
        BY <1>t, <2>n, <2>1, <2>o, <3>5 DEF ConnOK, ThreadTypeOK, Conns, NoConn
      <4>2. sock'[u] <= opened' /\ sock'[u] \in touched'[u]
        BY <1>t, <1>1, <1>4, <2>n, <2>1, <2>o, <3>5, <4>1 DEF ConnOK
      <4>3. \A g \in Fds : conn'[g] = sock'[u] => g = fd'[u]
        BY <1>t, <1>1, <2>n, <2>1, <2>o, <3>5, <4>1 DEF ConnOK, txVars
      <4> QED
        BY <4>2, <4>3
    <3>6. \A u \in Threads :
            /\ step'[u] \in {"send", "write_ok", "write_err"} => gOwner' = u
            /\ step'[u] = "send" /\ sent'[u] = 1 => conn'[fd'[u]] # NoConn
      BY <1>t, <1>1, <1>2, <2>3 DEF ConnOK, txVars
    <3>7. \A u, v \in Threads :
            Waiting(u)' /\ Waiting(v)' /\ sock'[u] = sock'[v] => u = v
      BY <1>t, <1>1, <2>4 DEF ConnOK
    <3> QED
      BY <2>4, <3>1, <3>3, <3>4, <3>5, <3>6, <3>7 DEF ConnOK
  <2>10. StreamOK'
    <3>1. ASSUME NEW c \in Conns, ~fault'[c], NEW u \in Threads, Uses(u, c)'
          PROVE  Talk(u, c)'
      <4>1. CASE c = n
        <5>1. Empty(c)' /\ step'[u] = step[u] /\ conn[fd[u]] = NoConn
          BY <1>1, <2>7, <2>8, <3>1, <4>1 DEF Empty
        <5>2. step[u] = "send" => sent[u] = 0
          BY <1>t, <5>1 DEF ConnOK, FlowOK, ThreadTypeOK
        <5> QED
          BY <1>1, <5>1, <5>2 DEF Talk, Empty, Asked
      <4>2. CASE c # n
        <5>1. Uses(u, c) /\ step'[u] = step[u]
          BY <1>1, <1>2, <2>6, <3>1, <4>2 DEF Uses, InExchange
        <5>2. Talk(u, c)
          BY <1>t, <1>1, <3>1, <5>1 DEF StreamOK
        <5> QED
          BY <1>1, <5>1, <5>2, SameTalk
      <4> QED
        BY <4>1, <4>2
    <3>2. ASSUME NEW c \in Conns, ~fault'[c], NEW g \in Fds, conn'[g] = c,
                 \A u \in Threads : ~Uses(u, c)'
          PROVE  Empty(c)'
      <4>1. CASE c = n
        BY <1>1, <2>8, <4>1 DEF Empty
      <4>2. CASE c # n
        <5>1. conn[g] = c
          BY <2>1, <3>2, <4>2
        <5>2. Empty(c)
          BY <1>t, <1>1, <2>6, <3>2, <4>2, <5>1 DEF StreamOK
        <5> QED
          BY <1>1, <5>2 DEF Empty
      <4> QED
        BY <4>1, <4>2
    <3> QED
      BY <3>1, <3>2 DEF StreamOK
  <2>11. ReplyOK'
    <3>1. /\ step'[t] \in {"payload", "wait_payload"} \/ ret'[t] = "SUCCESS"
          /\ \A c \in touched'[t] : ~fault'[c]
          => reply'[t] = Own(t)' /\ executed[Own(t)'] # 0
      BY <1>t, <1>1, <1>2 DEF ReplyOK, Own
    <3> QED
      BY <1>t, <1>1, <1>2, <3>1, ReplyStep
  <2>12. FramesOK'
    BY <1>t, <1>1, <1>2, <2>3, FrameStep
  <2> QED
    BY <2>9, <2>10, <2>11, <2>12 DEF RInv
<1> QED
  BY <1>3, <1>4 DEF OpenSocket

\* A close takes the connection from its descriptor; who waits on it still does.
LEMMA DisconnectInv ==
  ASSUME TypeInv, RInv, NEW t \in Threads, NEW f \in Fds, Disconnect(t, f)
  PROVE  RInv'
<1>t. NetTypeOK /\ FlowOK /\ ConnOK /\ StreamOK /\ ReplyOK /\ FramesOK
  BY DEF TypeInv, TypeOK, RInv
<1>1. /\ gOwner = NoThread
      /\ conn'[f] = NoConn /\ \A g \in Fds \ {f} : conn'[g] = conn[g]
      /\ UNCHANGED <<pc, fd, gOwner, step, sent, sock, ret, reply, calls, opened, toPlc,
                     plcOut, toClient, peerUp, executed, fault, touched>>
  BY <1>t DEF Disconnect, txVars, threadVars, histVars, NetTypeOK
<1>2. \A u \in Threads : step[u] \notin {"send", "write_ok", "write_err"}
  BY <1>t, <1>1, TxAssumption DEF ConnOK
<1>3. \A u \in Threads : (Waiting(u)' <=> Waiting(u)) /\ (InExchange(u)' <=> InExchange(u))
  BY <1>1 DEF Waiting, InExchange
<1>4. ASSUME NEW u \in Threads, NEW c, Uses(u, c)'
      PROVE  Uses(u, c)
  <2>1. CASE Waiting(u)
    BY <1>1, <1>3, <1>4, <2>1 DEF Uses
  <2>2. CASE ~Waiting(u)
    <3>1. InExchange(u) /\ c # NoConn /\ conn'[fd[u]] = c /\ fd[u] \in Fds
      BY <1>t, <1>1, <1>3, <1>4, <2>2 DEF Uses, FlowOK
    <3>2. conn[fd[u]] = c
      BY <1>1, <3>1
    <3> QED
      BY <2>2, <3>1, <3>2 DEF Uses
  <2> QED
    BY <2>1, <2>2
<1>5. ASSUME NEW u \in Threads, NEW c \in Conns, NEW g \in Fds, conn'[g] = c, Uses(u, c)
      PROVE  Uses(u, c)'
  <2>1. g # f /\ conn[g] = c
    BY <1>1, <1>5 DEF Conns, NoConn
  <2>2. fd[u] \in Fds
    BY <1>t, <1>5 DEF Uses, FlowOK
  <2>3. fd[u] = g
    BY <1>t, <1>5, <2>1, <2>2, UserHasFd
  <2> QED
    BY <1>1, <1>3, <1>5, <2>1, <2>3 DEF Uses
<1>6. ConnOK'
  <2>1. \A g \in Fds : conn'[g] <= opened /\ (conn'[g] # NoConn => conn'[g] = conn[g])
    BY <1>t, <1>1 DEF ConnOK, NetTypeOK, NoConn
  <2>2. \A g, h \in Fds : conn'[g] = conn'[h] /\ conn'[g] # NoConn => g = h
    BY <1>t, <2>1 DEF ConnOK
  <2>3. \A c \in Conns : c > opened => Empty(c)'
    BY <1>t, <1>1 DEF ConnOK, Empty
  <2>4. ASSUME NEW u \in Threads, Waiting(u)
        PROVE  /\ sock[u] <= opened /\ sock[u] \in touched[u]
               /\ \A g \in Fds : conn'[g] = sock[u] => g = fd[u]
    <3>1. sock[u] # NoConn
      BY <1>t, <2>4 DEF FlowOK, Waiting
    <3> QED
      BY <1>t, <2>1, <2>4, <3>1 DEF ConnOK
  <2>5. \A u, v \in Threads : Waiting(u) /\ Waiting(v) /\ sock[u] = sock[v] => u = v
    BY <1>t DEF ConnOK
  <2> QED
    BY <1>1, <1>2, <1>3, <2>1, <2>2, <2>3, <2>4, <2>5 DEF ConnOK
<1>7. StreamOK'
  <2>1. ASSUME NEW c \in Conns, ~fault'[c], NEW u \in Threads, Uses(u, c)'
        PROVE  Talk(u, c)'
    <3>1. Talk(u, c)
      BY <1>t, <1>1, <1>4, <2>1 DEF StreamOK
    <3> QED
      BY <1>1, <3>1, SameTalk
  <2>2. ASSUME NEW c \in Conns, ~fault'[c], NEW g \in Fds, conn'[g] = c,
               \A u \in Threads : ~Uses(u, c)'
        PROVE  Empty(c)'
    <3>1. conn[g] = c /\ \A u \in Threads : ~Uses(u, c)
      BY <1>1, <1>5, <2>2 DEF Conns, NoConn
    <3>2. Empty(c)
      BY <1>t, <1>1, <2>2, <3>1 DEF StreamOK
    <3> QED
      BY <1>1, <3>2 DEF Empty
  <2> QED
    BY <2>1, <2>2 DEF StreamOK
<1>8. ReplyOK'
  BY <1>t, <1>1 DEF ReplyOK, Own
<1>9. FramesOK'
  BY <1>t, <1>1, <1>2 DEF FramesOK, FramesUncut
<1> QED
  BY <1>6, <1>7, <1>8, <1>9 DEF RInv

-----------------------------------------------------------------------------
(* The PLC. *)

\* A step of the PLC on connection c.
LEMMA PlcStep ==
  ASSUME RInv, NEW c \in Conns,
         UNCHANGED <<txVars, threadVars, conn, opened, fault, touched>>,
         \A d \in Conns \ {c} :
           toPlc'[d] = toPlc[d] /\ plcOut'[d] = plcOut[d] /\ toClient'[d] = toClient[d],
         \A r \in Requests : executed[r] # 0 => executed'[r] # 0,
         \A u \in Threads : Own(u) \in Requests \/ (~InExchange(u) /\ ret[u] = "none"),
         Empty(c) => Empty(c)',
         ~fault[c] => \A u \in Threads : InExchange(u) /\ Talk(u, c) => Talk(u, c)',
         FramesOK'
  PROVE  RInv'
<1>t. ConnOK /\ StreamOK /\ ReplyOK
  BY DEF RInv
<1>1. UNCHANGED <<pc, fd, gOwner, step, sent, sock, ret, reply, calls>>
  BY DEF txVars, threadVars
<1>2. \A u \in Threads :
        /\ (Waiting(u)' <=> Waiting(u)) /\ (InExchange(u)' <=> InExchange(u))
        /\ Own(u)' = Own(u)
  BY <1>1 DEF Waiting, InExchange, Own
<1>3. \A d : \A u \in Threads : Uses(u, d)' <=> Uses(u, d)
  BY <1>1, <1>2 DEF Uses
<1>4. \A d \in Conns : Empty(d) => Empty(d)'
  BY DEF Empty
<1>5. ConnOK'
  BY <1>t, <1>1, <1>2, <1>4 DEF ConnOK
<1>6. ASSUME NEW d \in Conns, ~fault'[d], NEW u \in Threads, Uses(u, d)'
      PROVE  Talk(u, d)'
  <2>1. Talk(u, d) /\ InExchange(u) /\ ~fault[d]
    BY <1>t, <1>3, <1>6 DEF StreamOK, Uses
  <2>2. CASE d = c
    BY <2>1, <2>2
  <2>3. CASE d # c
    <3>1. executed[Own(u)] # 0 => executed'[Own(u)] # 0
      BY <2>1
    <3>2. Answered(d, Own(u)) => Answered(d, Own(u))'
      BY <1>2, <2>3, <3>1 DEF Answered
    <3>3. /\ Asked(d, Own(u)) => Asked(d, Own(u))'
          /\ PayloadLeft(d, Own(u)) => PayloadLeft(d, Own(u))'
          /\ toPlc'[d] = toPlc[d] /\ plcOut'[d] = plcOut[d] /\ toClient'[d] = toClient[d]
      BY <1>2, <2>3 DEF Asked, PayloadLeft
    <3> QED
      BY <1>1, <1>2, <1>4, <2>1, <3>2, <3>3 DEF Talk
  <2> QED
    BY <2>2, <2>3
<1>7. StreamOK'
  BY <1>t, <1>3, <1>4, <1>6 DEF StreamOK
<1>8. ReplyOK'
  <2>1. \A u \in Threads : step[u] \in {"payload", "wait_payload"} => InExchange(u)
    BY DEF InExchange
  <2> QED
    BY <1>t, <1>1, <1>2, <2>1 DEF ReplyOK
<1> QED
  BY <1>5, <1>7, <1>8 DEF RInv

\* Whoever is in an exchange or has a result has made a call.
LEMMA OwnKnown ==
  ASSUME TypeInv, OnceInv, NEW u \in Threads
  PROVE  Own(u) \in Requests \/ (~InExchange(u) /\ ret[u] = "none")
<1>1. CASE calls[u] # 0
  BY <1>1, TransactionAssumption DEF TypeInv, TypeOK, ThreadTypeOK, Own, Requests
<1>2. CASE calls[u] = 0
  BY <1>2 DEF TypeInv, FlowOK, OnceInv, RetOK
<1> QED
  BY <1>1, <1>2

\* On a connection without fault the PLC takes a whole frame, and nothing is left.
LEMMA TakeInv ==
  ASSUME TypeInv, OnceInv, RInv, NEW c \in Conns, PlcTakeFrame(c)
  PROVE  RInv'
<1> DEFINE q == toPlc[c]
<1>t. NetTypeOK /\ HistTypeOK /\ FlowOK /\ ConnOK /\ StreamOK /\ ReplyOK /\ FramesOK
  BY DEF TypeInv, TypeOK, RInv
<1>l. Len(q) \in Nat /\ Len(q) >= 2
  BY <1>t, LenProperties DEF PlcTakeFrame, NetTypeOK
<1>n. PICK n : n = Len(q)
  OBVIOUS
<1>m. n \in Nat /\ n >= 2
  BY <1>l, <1>n
<1>1. /\ toPlc' = [toPlc EXCEPT ![c] = SubSeq(q, 3, Len(q))]
      /\ UNCHANGED <<txVars, threadVars, conn, opened, toClient, peerUp, fault, touched>>
  BY DEF PlcTakeFrame
<1>2. /\ q \in Seq(FrameChunks) /\ Len(q) \in Nat
      /\ \A k \in 1 .. Len(q) : q[k] \in FrameChunks
  BY <1>t, LenProperties, ElementOfSeq DEF NetTypeOK
<1>3. /\ toPlc'[c] = SubSeq(q, 3, Len(q)) /\ toPlc'[c] \in Seq(FrameChunks)
      /\ Len(toPlc'[c]) = Len(q) - 2
      /\ \A k \in 1 .. Len(q) - 2 : toPlc'[c][k] = q[k + 2]
  <2>1. toPlc'[c] = SubSeq(q, 3, Len(q))
    BY <1>t, <1>1 DEF NetTypeOK
  <2>2. \A k \in 3 .. Len(q) : q[k] \in FrameChunks
    BY <1>2
  <2>3. /\ SubSeq(q, 3, Len(q)) \in Seq(FrameChunks)
        /\ Len(SubSeq(q, 3, Len(q))) = Len(q) - 2
        /\ \A k \in 1 .. Len(q) - 2 : SubSeq(q, 3, Len(q))[k] = q[3 + k - 1]
    BY <1>l, <1>2, <2>2, SubSeqProperties
  <2>4. \A k \in 1 .. Len(q) - 2 : 3 + k - 1 = k + 2
    BY <1>l
  <2> QED
    BY <2>1, <2>3, <2>4
<1>4. \A d \in Conns \ {c} :
        toPlc'[d] = toPlc[d] /\ plcOut'[d] = plcOut[d] /\ toClient'[d] = toClient[d]
  BY <1>t, <1>1 DEF PlcTakeFrame, PlcTakeWhole, PlcTakeCut, NetTypeOK
<1>5. q[1][2] \in Requests
  BY <1>l, <1>2 DEF FrameChunks
<1>6. /\ \A r \in Requests : executed[r] # 0 => executed'[r] # 0
      /\ q[1] = HeadOf(q[1][2]) /\ q[2] = TailOf(q[1][2]) =>
           /\ executed'[q[1][2]] # 0
           /\ \/ plcOut'[c] = <<Answer(q[1][2], FALSE)>>
              \/ plcOut'[c] = <<Answer(q[1][2], TRUE), Payload(q[1][2])>>
  <2>r. PICK r0 : r0 = q[1][2]
    OBVIOUS
  <2>1. CASE q[1] = HeadOf(r0) /\ q[2] = TailOf(r0)
    <3>1. q[1][1] = "head" /\ q[2] = <<"tail", r0>>
      BY <2>1 DEF HeadOf, TailOf
    <3>2. /\ executed' = [executed EXCEPT ![r0] = executed[r0] + 1]
          /\ \/ plcOut' = [plcOut EXCEPT ![c] = <<Answer(r0, FALSE)>>]
             \/ plcOut' = [plcOut EXCEPT ![c] = <<Answer(r0, TRUE), Payload(r0)>>]
      BY <2>r, <3>1 DEF PlcTakeFrame, PlcTakeWhole, PlcTakeCut
    <3>3. executed'[r0] # 0 /\ \A r \in Requests : executed[r] # 0 => executed'[r] # 0
      BY <1>t, <1>5, <2>r, <3>2 DEF HistTypeOK
    <3>4. \/ plcOut'[c] = <<Answer(r0, FALSE)>>
          \/ plcOut'[c] = <<Answer(r0, TRUE), Payload(r0)>>
      BY <1>t, <3>2 DEF NetTypeOK
    <3> QED
      BY <2>r, <3>3, <3>4
  <2>2. CASE ~(q[1] = HeadOf(r0) /\ q[2] = TailOf(r0))
    <3>1. executed' = executed \/ executed' = [executed EXCEPT ![r0] = executed[r0] + 1]
      BY <2>r DEF PlcTakeFrame, PlcTakeWhole, PlcTakeCut
    <3>2. \A r \in Requests : executed[r] # 0 => executed'[r] # 0
      BY <1>t, <1>5, <2>r, <3>1 DEF HistTypeOK
    <3> QED
      BY <2>r, <2>2, <3>2
  <2> QED
    BY <2>1, <2>2
<1>7. ~fault[c] => Len(q) = 2 /\ toPlc'[c] = <<>>
  <2>1. ~fault[c] => Len(q) = 2
    <3>1. ~fault[c] => n <= 2
      BY <1>t, <1>n DEF FramesOK
    <3>2. n <= 2 => n = 2
      BY <1>m
    <3> QED
      BY <1>n, <3>1, <3>2
  <2>2. Len(q) = 2 => Len(toPlc'[c]) = 0
    BY <1>3
  <2> QED
    BY <1>3, <2>1, <2>2, EmptySeq
<1>8. ~Empty(c)
  <2>1. Len(<<>>) = 0
    BY ShortSeqs
  <2> QED
    BY <1>l, <2>1 DEF Empty
\* What the exchange on c has sent is a whole frame.
<1>9. ASSUME ~fault[c], NEW u \in Threads, InExchange(u), Talk(u, c)
      PROVE  /\ step[u] \in {"write_ok", "header", "wait_header"}
             /\ q = <<HeadOf(Own(u)), TailOf(Own(u))>> /\ toClient[c] = <<>>
  <2>1. /\ Len(<<>>) = 0 /\ Len(<<HeadOf(Own(u))>>) = 1
    BY ShortSeqs
  <2>2. q # <<>> /\ q # <<HeadOf(Own(u))>>
    <3>1. n # 0 /\ n # 1
      BY <1>m
    <3> HIDE DEF q
    <3> QED
      BY <1>n, <2>1, <3>1
  <2>3. step[u] \in {"write_ok", "header", "wait_header"}
    BY <1>8, <1>9, <2>2 DEF Talk, InExchange, PayloadLeft, TypeInv, TypeOK, ThreadTypeOK, Steps
  <2>4. Asked(c, Own(u))
    BY <1>9, <2>2, <2>3 DEF Talk, Answered
  <2> QED
    BY <2>2, <2>3, <2>4 DEF Asked
<1>10. ASSUME ~fault[c], NEW u \in Threads, InExchange(u), Talk(u, c)
       PROVE  Talk(u, c)'
  <2>1. /\ step[u] \in {"write_ok", "header", "wait_header"}
        /\ q = <<HeadOf(Own(u)), TailOf(Own(u))>> /\ toClient[c] = <<>>
    BY <1>9, <1>10
  <2>2. q[1] = HeadOf(Own(u)) /\ q[2] = TailOf(Own(u)) /\ q[1][2] = Own(u)
    <3>1. q[1] = HeadOf(Own(u)) /\ q[2] = TailOf(Own(u))
      BY <2>1, ShortSeqs
    <3> QED
      BY <3>1 DEF HeadOf
  <2>3. /\ executed'[Own(u)] # 0 /\ toPlc'[c] = <<>> /\ toClient'[c] = <<>>
        /\ \/ plcOut'[c] = <<Answer(Own(u), FALSE)>>
           \/ plcOut'[c] = <<Answer(Own(u), TRUE), Payload(Own(u))>>
    BY <1>1, <1>6, <1>7, <1>10, <2>1, <2>2
  <2>4. Own(u)' = Own(u) /\ step'[u] = step[u]
    BY <1>1 DEF Own, threadVars
  <2>5. Answered(c, Own(u))'
    BY <2>3, <2>4 DEF Answered
  <2> QED
    BY <2>1, <2>4, <2>5 DEF Talk
<1>11. FramesOK'
  <2>1. ASSUME NEW d \in Conns, NEW k \in 1 .. Len(toPlc'[d]), toPlc'[d][k][1] = "tail"
        PROVE  \/ k = 1 /\ fault'[d]
               \/ k > 1 /\ toPlc'[d][k - 1] = <<"head", toPlc'[d][k][2]>>
    <3>1. CASE d = c
      <4>1. k \in 1 .. Len(q) - 2 /\ k + 2 \in 1 .. Len(q) /\ k + 2 > 1 /\ k + 2 - 1 = k + 1
        BY <1>l, <1>3, <2>1, <3>1
      <4>2. toPlc'[d][k] = q[k + 2]
        BY <1>3, <3>1, <4>1
      <4>3. q[k + 1] = <<"head", q[k + 2][2]>>
        BY <1>t, <2>1, <4>1, <4>2 DEF FramesOK, FramesUncut
      <4>4. CASE k = 1
        BY <1>1, <1>7, <3>1, <4>1, <4>4
      <4>5. CASE k # 1
        <5>1. k > 1 /\ k - 1 \in 1 .. Len(q) - 2 /\ (k - 1) + 2 = k + 1
          BY <1>l, <4>1, <4>5
        <5>2. toPlc'[d][k - 1] = q[k + 1]
          BY <1>3, <3>1, <5>1
        <5> QED
          BY <4>2, <4>3, <5>1, <5>2
      <4> QED
        BY <4>4, <4>5
    <3>2. CASE d # c
      BY <1>t, <1>1, <1>4, <2>1, <3>2 DEF FramesOK, FramesUncut
    <3> QED
      BY <3>1, <3>2
  <2>2. ASSUME NEW d \in Conns, ~fault'[d]
        PROVE  /\ Len(toPlc'[d]) <= 2
               /\ toPlc'[d] # <<>> => toPlc'[d][1][1] = "head"
               /\ Len(toPlc'[d]) = 2 => toPlc'[d][2][1] = "tail"
    <3>1. CASE d = c
      BY <1>1, <1>3, <1>7, <2>2, <3>1
    <3>2. CASE d # c
      BY <1>t, <1>1, <1>4, <2>2, <3>2 DEF FramesOK
    <3> QED
      BY <3>1, <3>2
  <2>3. ASSUME NEW u \in Threads, step[u] = "send" /\ sent[u] = 1, peerUp[conn[fd[u]]]
        PROVE  LET d == conn[fd[u]] IN
               \/ toPlc'[d] = <<>> /\ fault[d]
               \/ toPlc'[d] # <<>> /\ toPlc'[d][Len(toPlc'[d])] = HeadOf(Own(u))
    <3>1. /\ InExchange(u) /\ ~Waiting(u) /\ fd[u] \in Fds
          /\ conn[fd[u]] \in Conns /\ conn[fd[u]] # NoConn
      BY <1>t, <2>3 DEF InExchange, Waiting, FlowOK, NetTypeOK, ConnOK
    <3>2. CASE conn[fd[u]] = c
      <4>1. fault[c]
        <5>1. SUFFICES ASSUME ~fault[c]
                       PROVE  FALSE
          OBVIOUS
        <5>2. Uses(u, c)
          BY <3>1, <3>2 DEF Uses
        <5>3. Talk(u, c)
          BY <1>t, <5>1, <5>2 DEF StreamOK
        <5> QED
          BY <1>9, <2>3, <3>1, <5>1, <5>3
      <4>2. q[Len(q)] = HeadOf(Own(u))
        <5>1. Len(<<>>) = 0
          BY ShortSeqs
        <5> QED
          BY <1>t, <1>l, <2>3, <3>2, <5>1 DEF FramesOK
      <4>3. CASE Len(q) = 2
        BY <1>3, <3>2, <4>1, <4>3, EmptySeq
      <4>4. CASE Len(q) # 2
        <5>1. n - 2 \in 1 .. n - 2 /\ (n - 2) + 2 = n /\ n - 2 # 0
          <6>1. n # 2
            BY <1>n, <4>4
          <6> QED
            BY <1>m, <6>1
        <5>2. toPlc'[c][Len(toPlc'[c])] = q[Len(q)]
          BY <1>n, <1>3, <5>1
        <5>3. toPlc'[c] # <<>>
          <6>1. Len(<<>>) = 0
            BY ShortSeqs
          <6> QED
            BY <1>n, <1>3, <5>1, <6>1
        <5> QED
          BY <3>2, <4>2, <5>2, <5>3
      <4> QED
        BY <4>3, <4>4
    <3>3. CASE conn[fd[u]] # c
      BY <1>t, <1>4, <2>3, <3>1, <3>3 DEF FramesOK
    <3> QED
      BY <3>2, <3>3
  <2>4. /\ UNCHANGED <<step, sent, fd, conn, peerUp, fault>>
        /\ \A u \in Threads : Own(u)' = Own(u)
    BY <1>1 DEF txVars, threadVars, Own
  <2>5. FramesUncut'
    BY <2>1 DEF FramesUncut
  <2>6. \A u \in Threads : step'[u] = "send" /\ sent'[u] = 1 =>
          LET d == conn'[fd'[u]] IN
          peerUp'[d] => \/ toPlc'[d] = <<>> /\ fault'[d]
                        \/ toPlc'[d] # <<>> /\ toPlc'[d][Len(toPlc'[d])] = HeadOf(Own(u)')
    BY <2>3, <2>4
  <2> QED
    BY <2>2, <2>5, <2>6 DEF FramesOK, HeadOf
<1> QED
  BY <1>1, <1>4, <1>6, <1>8, <1>10, <1>11, OwnKnown, PlcStep

\* What the PLC sends goes from one end of the stream to the other.
LEMMA SendAnswerInv ==
  ASSUME TypeInv, OnceInv, RInv, NEW c \in Conns, PlcSend(c)
  PROVE  RInv'
<1>p. PICK out, in : out = plcOut[c] /\ in = toClient[c]
  OBVIOUS
<1>t. NetTypeOK /\ FramesOK
  BY DEF TypeInv, TypeOK, RInv
<1>1. /\ out # <<>>
      /\ toClient'[c] = Append(in, Head(out)) /\ plcOut'[c] = Tail(out)
      /\ \A d \in Conns \ {c} : plcOut'[d] = plcOut[d] /\ toClient'[d] = toClient[d]
      /\ UNCHANGED <<txVars, threadVars, conn, opened, toPlc, peerUp, executed, fault, touched>>
  BY <1>p, <1>t DEF PlcSend, NetTypeOK, histVars
<1>2. ASSUME NEW u \in Threads, InExchange(u), Talk(u, c)
      PROVE  Talk(u, c)'
  <2>p. PICK r : r = Own(u)
    OBVIOUS
  <2>1. Own(u)' = r /\ step'[u] = step[u] /\ toPlc'[c] = toPlc[c] /\ executed'[r] = executed[r]
    BY <1>1, <2>p DEF Own, threadVars
  <2>2. ~Empty(c) /\ ~Asked(c, r)
    BY <1>p, <1>1 DEF Empty, Asked
  <2>3. CASE step[u] \in {"write_ok", "header", "wait_header"}
    <3>1. Answered(c, r)
      BY <1>2, <2>p, <2>2, <2>3 DEF Talk
    <3>2. CASE out = <<Answer(r, FALSE)>> /\ in = <<>>
      <4>1. toClient'[c] = <<Answer(r, FALSE)>> /\ plcOut'[c] = <<>>
        BY <1>1, <3>2, ShortSeqs
      <4> QED
        BY <2>1, <2>3, <3>1, <4>1 DEF Talk, Answered
    <3>3. CASE out = <<Answer(r, TRUE), Payload(r)>> /\ in = <<>>
      <4>1. toClient'[c] = <<Answer(r, TRUE)>> /\ plcOut'[c] = <<Payload(r)>>
        BY <1>1, <3>3, ShortSeqs
      <4> QED
        BY <2>1, <2>3, <3>1, <4>1 DEF Talk, Answered
    <3>4. CASE out = <<Payload(r)>> /\ in = <<Answer(r, TRUE)>>
      <4>1. Head(out) = Payload(r) /\ Tail(out) = <<>>
        BY <3>4, ShortSeqs
      <4>2. toClient'[c] = <<Answer(r, TRUE), Payload(r)>> /\ plcOut'[c] = <<>>
        <5>1. Append(<<Answer(r, TRUE)>>, Payload(r)) = <<Answer(r, TRUE), Payload(r)>>
          BY ShortSeqs
        <5> QED
          BY <1>1, <3>4, <4>1, <5>1
      <4> QED
        BY <2>1, <2>3, <3>1, <4>2 DEF Talk, Answered
    <3> QED
      BY <1>p, <1>1, <3>1, <3>2, <3>3, <3>4 DEF Answered
  <2>4. CASE step[u] \in {"payload", "wait_payload"}
    <3>1. PayloadLeft(c, r) /\ out = <<Payload(r)>> /\ in = <<>>
      BY <1>p, <1>1, <1>2, <2>p, <2>2, <2>4 DEF Talk, PayloadLeft
    <3>2. toClient'[c] = <<Payload(r)>> /\ plcOut'[c] = <<>>
      BY <1>1, <3>1, ShortSeqs
    <3> QED
      BY <2>1, <2>4, <3>1, <3>2 DEF Talk, PayloadLeft
  <2>5. step[u] \in {"write_ok", "header", "wait_header", "payload", "wait_payload"}
    BY <1>p, <1>1, <1>2, <2>2
       DEF Talk, InExchange, TypeInv, TypeOK, ThreadTypeOK, Steps
  <2> QED
    BY <2>3, <2>4, <2>5
<1>3. ~Empty(c)
  BY <1>p, <1>1 DEF Empty
<1>4. FramesOK'
  BY <1>t, <1>1 DEF FramesOK, FramesUncut, Own, txVars, threadVars
<1> QED
  BY <1>1, <1>2, <1>3, <1>4, OwnKnown, PlcStep

\* A close by the PLC loses what is sent after it, and nothing that is on its way.
LEMMA CloseInv ==
  ASSUME TypeInv, OnceInv, RInv, NEW c \in Conns, PlcClose(c)
  PROVE  RInv'
<1>t. NetTypeOK /\ FlowOK /\ ConnOK /\ FramesOK
  BY DEF TypeInv, TypeOK, RInv
<1>1. /\ UNCHANGED <<txVars, threadVars, conn, opened, toPlc, plcOut, toClient, executed,
                     fault, touched>>
      /\ \A d \in Conns : peerUp'[d] => peerUp[d]
  BY <1>t DEF PlcClose, NetTypeOK, histVars
<1>2. \A u \in Threads : Talk(u, c) => Talk(u, c)'
  BY <1>1, SameTalk DEF threadVars
<1>3. FramesOK'
  <2>1. \A u \in Threads : step[u] = "send" /\ sent[u] = 1 => conn[fd[u]] \in Conns
    <3>1. ASSUME NEW u \in Threads, step[u] = "send", sent[u] = 1
          PROVE  conn[fd[u]] \in Conns
      <4>1. fd[u] \in Fds
        BY <1>t, <3>1 DEF FlowOK, InExchange
      <4>2. conn[fd[u]] # NoConn
        BY <1>t, <3>1 DEF ConnOK
      <4> QED
        BY <1>t, <4>1, <4>2 DEF NetTypeOK
    <3> QED
      BY <3>1
  <2> QED
    BY <1>t, <1>1, <2>1 DEF FramesOK, FramesUncut, Own, txVars, threadVars
<1>4. Empty(c) => Empty(c)'
  BY <1>1 DEF Empty
<1> QED
  BY <1>1, <1>2, <1>3, <1>4, OwnKnown, PlcStep

-----------------------------------------------------------------------------
\* Every step preserves the invariant.
LEMMA NextReply ==
  /\ TypeInv /\ TypeInv' /\ IInv /\ IInv' /\ OnceInv /\ OnceInv' /\ RInv /\ [Next]_vars
  => RInv'
<1> SUFFICES ASSUME TypeInv, TypeInv', IInv, IInv', OnceInv, OnceInv', RInv, [Next]_vars
             PROVE  RInv'
  OBVIOUS
<1>1. ASSUME NEW t \in Threads, \E f \in Fds : Call(t, f)
      PROVE  RInv'
  BY <1>1, OutsideInv
<1>2. ASSUME NEW t \in Threads, Proceed(t)
      PROVE  RInv'
  <2>1. CASE TableStep(t) \/ LeaveTable(t) \/ Return(t)
    BY <2>1, OutsideInv
  <2>2. CASE \/ StartExchange(t) \/ StartWrite(t) \/ SendFails(t) \/ WriteDone(t)
             \/ WriteRetry(t) \/ EnterRecv(t) \/ ReadFails(t)
    BY <2>2, InsideInv
  <2>3. CASE FinishExchange(t)
    BY <2>3, FinishInv
  <2>4. CASE SendChunk(t)
    BY <2>4, SendInv
  <2>5. CASE ReadHeader(t) \/ ReadPayload(t)
    BY <2>5, ReadInv
  <2> QED
    BY <1>2, <2>1, <2>2, <2>3, <2>4, <2>5 DEF Proceed
<1>3. ASSUME NEW t \in Threads, Connection(t)
      PROVE  RInv'
  <2>1. CASE StartConnect(t)
    BY <2>1, OutsideInv
  <2>2. CASE OpenSocket(t)
    BY <2>2, OpenInv
  <2>3. CASE \E f \in Fds : Disconnect(t, f)
    BY <2>3, DisconnectInv
  <2> QED
    BY <1>3, <2>1, <2>2, <2>3 DEF Connection
<1>4. ASSUME NEW c \in Conns, PlcTakeFrame(c) \/ PlcSend(c) \/ PlcClose(c)
      PROVE  RInv'
  BY <1>4, TakeInv, SendAnswerInv, CloseInv
<1>5. CASE UNCHANGED vars
  <2>1. UNCHANGED vars
    BY <1>5
  <2> USE <2>1 DEF vars, txVars, restVars, threadVars, netVars, histVars
  <2>2. /\ \A u : Own(u)' = Own(u)
        /\ \A c : Empty(c)' <=> Empty(c)
    BY DEF Own, Empty
  <2>3. \A u : (Waiting(u)' <=> Waiting(u)) /\ (\A c : Uses(u, c)' <=> Uses(u, c))
    BY DEF Waiting, Uses, InExchange
  <2>t. ASSUME NEW u, NEW c, Talk(u, c)
        PROVE  Talk(u, c)'
    BY <2>t, SameTalk
  <2>4. ConnOK'
    BY <2>2, <2>3 DEF RInv, ConnOK
  <2>5. StreamOK'
    BY <2>2, <2>3, <2>t DEF RInv, StreamOK
  <2>6. ReplyOK' /\ FramesOK'
    BY <2>2 DEF RInv, ReplyOK, FramesOK, FramesUncut
  <2> QED
    BY <2>4, <2>5, <2>6 DEF RInv
<1> QED
  BY <1>1, <1>2, <1>3, <1>4, <1>5 DEF Next, Plc, Done

\* In every behaviour of the transactions all of it holds.
LEMMA ReplyInvariant == Spec => [](TypeInv /\ IInv /\ OnceInv /\ RInv)
<1>1. Spec => []IInv
  BY UsesTxLock, Invariance, PTL DEF ImplementsTxLock
<1>2. Init => TypeInv /\ OnceInv /\ RInv
  BY InitTypeInv, InitOnce, InitReply
<1>3. TypeInv /\ IInv' /\ [Next]_vars => TypeInv'
  BY NextTypeInv
<1>4. TypeInv /\ TypeInv' /\ IInv /\ OnceInv /\ [Next]_vars => OnceInv'
  BY NextOnce
<1>5. /\ TypeInv /\ TypeInv' /\ IInv /\ IInv' /\ OnceInv /\ OnceInv' /\ RInv /\ [Next]_vars
      => RInv'
  BY NextReply
<1> QED
  BY <1>1, <1>2, <1>3, <1>4, <1>5, PTL DEF Spec

\* A transaction that succeeds on connections without fault has the answer to its own
\* request: for any number of threads, and whatever is closed, opened and given the same
\* descriptor while it waits.
THEOREM RepliesAreOwn == Spec => []OwnReply
<1>1. RInv => OwnReply
  BY DEF RInv, ReplyOK, OwnReply, Undisturbed
<1> QED
  BY <1>1, ReplyInvariant, PTL

\* Between two exchanges on a descriptor nothing is on its way on its connection, unless a
\* fault was met there.
THEOREM QuietBetween == Spec => []QuietBetweenExchanges
<1>1. ASSUME TypeInv, RInv, NEW f \in Fds, conn[f] # NoConn, ~fault[conn[f]],
             \A t \in Threads : ~Holds(t, f)
      PROVE  Empty(conn[f])
  <2>1. conn[f] \in Conns
    BY <1>1 DEF TypeInv, TypeOK, NetTypeOK
  <2>2. ASSUME NEW t \in Threads, Uses(t, conn[f])
        PROVE  FALSE
    <3>1. pc[t] = "held" /\ fd[t] \in Fds
      BY <1>1, <2>2 DEF TypeInv, FlowOK, Uses
    <3>2. fd[t] = f
      BY <1>1, <2>2, <3>1, UserHasFd DEF RInv
    <3> QED
      BY <1>1, <3>1, <3>2 DEF Holds, Holding
  <2> QED
    BY <1>1, <2>1, <2>2 DEF RInv, StreamOK
<1>2. TypeInv /\ RInv => QuietBetweenExchanges
  BY <1>1 DEF QuietBetweenExchanges, Empty
<1> QED
  BY <1>2, ReplyInvariant, PTL

\* A close or a connect never comes between the two chunks of a frame: on the way to the
\* PLC the end of a frame follows its start, unless a send has failed there.
THEOREM FramesStayWhole == Spec => []FramesUncut
<1>1. RInv => FramesUncut
  BY DEF RInv, FramesOK
<1> QED
  BY <1>1, ReplyInvariant, PTL

-----------------------------------------------------------------------------
(* What becomes of the bytes of a frame that was cut. *)

\* The bytes of a request on the way are of a call that was made, and the last call of a
\* thread has touched the connections where its own bytes are.
ChunksKnown ==
  \A c \in Conns : \A k \in 1 .. Len(toPlc[c]) :
    LET r == toPlc[c][k][2]
    IN  r[2] <= calls[r[1]] /\ (r[2] = calls[r[1]] => c \in touched[r[1]])

\* A request of which the PLC took bytes in another frame is of a call that was made, and
\* if it is the last of its thread, that has met a fault.
PartsKnown ==
  \A r \in mangled :
    r[2] <= calls[r[1]] /\ (r[2] = calls[r[1]] => \E c \in touched[r[1]] : fault[c])

\* A call touches connections inside its exchange, which ends with a result.
Touches(t) ==
  /\ touched[t] # {} => InExchange(t) \/ ret[t] \notin {"none", "FAILED"}
  /\ step[t] = "finish" => ret[t] \notin {"none", "FAILED"}

CutInv == ChunksKnown /\ PartsKnown /\ \A t \in Threads : Touches(t)

\* At the start nothing has been sent.
LEMMA InitCut == Init => CutInv
<1> SUFFICES ASSUME Init
             PROVE  CutInv
  OBVIOUS
<1>1. \A c \in Conns : \A k : k \notin 1 .. Len(toPlc[c])
  BY ShortSeqs DEF Init
<1>2. ChunksKnown
  BY <1>1 DEF ChunksKnown
<1> QED
  BY <1>2 DEF Init, CutInv, PartsKnown, Touches

\* A step of thread t that sends nothing, and begins no call.
LEMMA KeepCut ==
  ASSUME TypeInv, CutInv, NEW t \in Threads, UNCHANGED <<toPlc, mangled, calls>>, FaultsStay,
         \A u \in Threads \ {t} : /\ step'[u] = step[u] /\ ret'[u] = ret[u]
                                  /\ touched'[u] = touched[u],
         touched[t] \subseteq touched'[t], Touches(t)'
  PROVE  CutInv'
<1>t. HistTypeOK /\ NetTypeOK
  BY DEF TypeInv, TypeOK
<1>1. \A u \in Threads : touched[u] \subseteq touched'[u] /\ touched[u] \subseteq Conns
  BY <1>t DEF HistTypeOK
<1>2. \A r \in Requests : r[1] \in Threads
  BY DEF Requests
<1>3. ChunksKnown'
  <2>1. ASSUME NEW c \in Conns, NEW k \in 1 .. Len(toPlc[c])
        PROVE  toPlc[c][k][2] \in Requests
    <3>1. toPlc[c] \in Seq(FrameChunks)
      BY <1>t DEF NetTypeOK
    <3>2. toPlc[c][k] \in FrameChunks
      BY <3>1, ElementOfSeq
    <3> QED
      BY <3>2 DEF FrameChunks
  <2> QED
    BY <1>1, <1>2, <2>1 DEF CutInv, ChunksKnown
<1>4. PartsKnown'
  <2>1. mangled \subseteq Requests
    BY <1>t DEF HistTypeOK
  <2> QED
    BY <1>1, <1>2, <2>1 DEF CutInv, PartsKnown, FaultsStay
<1>5. \A u \in Threads : Touches(u)'
  BY DEF CutInv, Touches, InExchange
<1> QED
  BY <1>3, <1>4, <1>5 DEF CutInv

\* What the PLC takes on a connection without fault is a whole frame.
LEMMA CutNeedsFault ==
  ASSUME TypeInv, RInv, NEW c \in Conns, Len(toPlc[c]) >= 2, PlcTakeCut(c)
  PROVE  fault[c]
<1> DEFINE q == toPlc[c]
<1>t. NetTypeOK /\ FramesOK
  BY DEF TypeInv, TypeOK, RInv
<1>1. SUFFICES ASSUME ~fault[c]
               PROVE  FALSE
  OBVIOUS
<1>2. Len(q) \in Nat /\ Len(<<>>) = 0
  BY <1>t, LenProperties, ShortSeqs DEF NetTypeOK
<1>3. Len(q) = 2 /\ q # <<>>
  <2>1. PICK n : n = Len(q)
    OBVIOUS
  <2>2. n \in Nat /\ n >= 2 /\ n <= 2
    <3>1. n <= 2
      BY <1>t, <1>1, <2>1 DEF FramesOK
    <3>2. n \in Nat
      BY <1>2, <2>1
    <3>3. n >= 2
      <4>1. Len(q) >= 2
        OBVIOUS
      <4> HIDE DEF q
      <4> QED
        BY ONLY <2>1, <4>1
    <3> QED
      BY <3>1, <3>2, <3>3
  <2>3. n = 2
    BY <2>2
  <2>4. Len(q) = 2
    BY <2>1, <2>3
  <2>5. q # <<>>
    <3> HIDE DEF q
    <3> QED
      BY ONLY <1>2, <2>4
  <2> QED
    BY <2>4, <2>5
<1>4. q[1][1] = "head" /\ q[2][1] = "tail"
  BY <1>t, <1>1, <1>3 DEF FramesOK
<1>5. q[1] = <<"head", q[2][2]>>
  <2>1. 2 \in 1 .. Len(q) /\ 2 - 1 = 1
    BY <1>3
  <2> QED
    BY <1>t, <1>4, <2>1 DEF FramesOK, FramesUncut
<1>6. q[1] \in FrameChunks /\ q[2] \in FrameChunks
  <2>1. q \in Seq(FrameChunks) /\ 1 \in 1 .. Len(q) /\ 2 \in 1 .. Len(q)
    BY <1>t, <1>3 DEF NetTypeOK
  <2> QED
    BY <2>1, ElementOfSeq
<1>7. q[2] = <<"tail", q[1][2]>>
  BY <1>4, <1>5, <1>6 DEF FrameChunks
<1> QED
  BY <1>4, <1>7 DEF PlcTakeCut

\* A chunk is sent: it is the call's own.
LEMMA SendCut ==
  ASSUME TypeInv, OnceInv, CutInv, NEW t \in Threads, SendChunk(t)
  PROVE  CutInv'
<1>t. /\ ThreadTypeOK /\ NetTypeOK /\ HistTypeOK /\ FlowOK /\ RetOK
  BY DEF TypeInv, TypeOK, OnceInv
<1>p. PICK c, r : c = conn[fd[t]] /\ r = Own(t)
  OBVIOUS
<1>q. PICK chunk : chunk = IF sent[t] = 0 THEN <<"head", r>> ELSE <<"tail", r>>
  OBVIOUS
<1>1. /\ step[t] = "send" /\ c # NoConn
      /\ step' = [step EXCEPT ![t] = IF sent[t] = 1 THEN "write_ok" ELSE "send"]
      /\ toPlc' = [toPlc EXCEPT ![c] = IF peerUp[c] THEN Append(toPlc[c], chunk) ELSE toPlc[c]]
      /\ touched' = [touched EXCEPT ![t] = touched[t] \cup {c}]
      /\ UNCHANGED <<ret, calls, mangled, fault>>
  BY <1>p, <1>q DEF SendChunk
<1>2. c \in Conns /\ pc[t] # "idle"
  BY <1>p, <1>t, <1>1 DEF FlowOK, InExchange, NetTypeOK, NoConn
<1>3. r \in Requests /\ chunk \in FrameChunks /\ chunk[2] = r
  BY <1>p, <1>q, <1>2, OwnIsRequest DEF FrameChunks
<1>4. r[1] = t /\ r[2] = calls[t] /\ calls[t] \in Nat
  BY <1>p, <1>t DEF Own, ThreadTypeOK
<1>5. \A u \in Threads : touched[u] \subseteq touched'[u] /\ touched[u] \subseteq Conns
  BY <1>t, <1>1 DEF HistTypeOK
<1>6. c \in touched'[t]
  BY <1>t, <1>1 DEF HistTypeOK
<1>7. \A x \in Requests : x[1] \in Threads
  BY DEF Requests
<1>8. ChunksKnown'
  <2>1. ASSUME NEW d \in Conns, NEW k \in 1 .. Len(toPlc'[d])
        PROVE  \/ toPlc'[d][k][2] = r /\ d = c
               \/ k \in 1 .. Len(toPlc[d]) /\ toPlc'[d][k] = toPlc[d][k]
    <3>1. CASE toPlc'[d] = toPlc[d]
      BY <2>1, <3>1
    <3>2. CASE toPlc'[d] # toPlc[d]
      <4>1. d = c /\ toPlc'[c] = Append(toPlc[c], chunk)
        BY <1>t, <1>1, <1>2, <3>2 DEF NetTypeOK
      <4>2. toPlc[c] \in Seq(FrameChunks) /\ Len(toPlc[c]) \in Nat
        BY <1>t, <1>2, LenProperties DEF NetTypeOK
      <4>3. /\ Len(Append(toPlc[c], chunk)) = Len(toPlc[c]) + 1
            /\ \A j \in 1 .. Len(toPlc[c]) : Append(toPlc[c], chunk)[j] = toPlc[c][j]
            /\ Append(toPlc[c], chunk)[Len(toPlc[c]) + 1] = chunk
        BY <1>3, <4>2, AppendProperties
      <4>4. CASE k = Len(toPlc[c]) + 1
        BY <1>3, <4>1, <4>3, <4>4
      <4>5. CASE k # Len(toPlc[c]) + 1
        <5>1. k \in 1 .. Len(toPlc[c])
          BY <2>1, <4>1, <4>2, <4>3, <4>5
        <5> QED
          BY <4>1, <4>3, <5>1
      <4> QED
        BY <4>4, <4>5
    <3> QED
      BY <3>1, <3>2
  <2>2. ASSUME NEW d \in Conns, NEW k \in 1 .. Len(toPlc[d])
        PROVE  toPlc[d][k][2] \in Requests
    <3>1. toPlc[d] \in Seq(FrameChunks)
      BY <1>t DEF NetTypeOK
    <3>2. toPlc[d][k] \in FrameChunks
      BY <3>1, ElementOfSeq
    <3> QED
      BY <3>2 DEF FrameChunks
  <2>3. ASSUME NEW d \in Conns, NEW k \in 1 .. Len(toPlc'[d])
        PROVE  LET x == toPlc'[d][k][2]
               IN  x[2] <= calls[x[1]] /\ (x[2] = calls[x[1]] => d \in touched'[x[1]])
    <3>1. CASE toPlc'[d][k][2] = r /\ d = c
      BY <1>4, <1>6, <3>1
    <3>2. CASE k \in 1 .. Len(toPlc[d]) /\ toPlc'[d][k] = toPlc[d][k]
      BY <1>5, <1>7, <2>2, <3>2 DEF CutInv, ChunksKnown
    <3> QED
      BY <2>1, <2>3, <3>1, <3>2
  <2> QED
    BY <1>1, <2>3 DEF ChunksKnown
<1>9. PartsKnown'
  <2>1. mangled \subseteq Requests
    BY <1>t DEF HistTypeOK
  <2> QED
    BY <1>1, <1>5, <1>7, <2>1 DEF CutInv, PartsKnown
<1>10. \A u \in Threads : Touches(u)'
  <2>1. \A u \in Threads \ {t} :
          step'[u] = step[u] /\ ret'[u] = ret[u] /\ touched'[u] = touched[u]
    BY <1>t, <1>1 DEF HistTypeOK, ThreadTypeOK
  <2>2. step'[t] \in {"send", "write_ok"}
    BY <1>t, <1>1 DEF ThreadTypeOK
  <2> QED
    BY <2>1, <2>2 DEF CutInv, Touches, InExchange
<1> QED
  BY <1>8, <1>9, <1>10 DEF CutInv

\* The PLC takes two chunks: those of a cut frame are on a connection with a fault.
LEMMA TakeCut ==
  ASSUME TypeInv, RInv, CutInv, NEW c \in Conns, PlcTakeFrame(c)
  PROVE  CutInv'
<1> DEFINE q == toPlc[c]
<1>t. NetTypeOK /\ HistTypeOK
  BY DEF TypeInv, TypeOK
<1>1. /\ Len(q) >= 2 /\ q \in Seq(FrameChunks) /\ Len(q) \in Nat
      /\ toPlc' = [toPlc EXCEPT ![c] = SubSeq(q, 3, Len(q))]
      /\ UNCHANGED <<step, ret, calls, touched, fault>>
  BY <1>t, LenProperties DEF PlcTakeFrame, threadVars, NetTypeOK
<1>2. \A k \in 1 .. Len(q) : q[k] \in FrameChunks
  BY <1>1, ElementOfSeq
<1>3. ChunksKnown'
  <2>1. ASSUME NEW d \in Conns, NEW k \in 1 .. Len(toPlc'[d])
        PROVE  \E j \in 1 .. Len(toPlc[d]) : toPlc'[d][k] = toPlc[d][j]
    <3>1. CASE d = c
      <4>1. toPlc'[d] = SubSeq(q, 3, Len(q))
        BY <1>t, <1>1, <3>1 DEF NetTypeOK
      <4>2. \A j \in 3 .. Len(q) : q[j] \in FrameChunks
        BY <1>1, <1>2
      <4>3. /\ Len(SubSeq(q, 3, Len(q))) = Len(q) - 2
            /\ \A j \in 1 .. Len(q) - 2 : SubSeq(q, 3, Len(q))[j] = q[3 + j - 1]
        BY <1>1, <4>2, SubSeqProperties
      <4>4. k \in 1 .. Len(q) - 2 /\ 3 + k - 1 \in 1 .. Len(q)
        BY <1>1, <2>1, <4>1, <4>3
      <4> QED
        BY <3>1, <4>1, <4>3, <4>4
    <3>2. CASE d # c
      <4>1. toPlc'[d] = toPlc[d]
        BY <1>t, <1>1, <3>2 DEF NetTypeOK
      <4> QED
        BY <2>1, <4>1
    <3> QED
      BY <3>1, <3>2
  <2>2. ASSUME NEW d \in Conns, NEW k \in 1 .. Len(toPlc'[d])
        PROVE  LET r == toPlc'[d][k][2]
               IN  r[2] <= calls[r[1]] /\ (r[2] = calls[r[1]] => d \in touched[r[1]])
    <3>1. PICK j \in 1 .. Len(toPlc[d]) : toPlc'[d][k] = toPlc[d][j]
      BY <2>1
    <3> QED
      BY <3>1 DEF CutInv, ChunksKnown
  <2> QED
    BY <1>1, <2>2 DEF ChunksKnown
<1>4. PartsKnown'
  <2>1. CASE PlcTakeWhole(c)
    BY <1>1, <2>1 DEF CutInv, PartsKnown, PlcTakeWhole
  <2>2. CASE PlcTakeCut(c)
    <3>1. fault[c]
      BY <1>1, <2>2, CutNeedsFault
    <3>2. mangled' = mangled \cup {q[1][2], q[2][2]}
      BY <2>2 DEF PlcTakeCut
    <3>3. 1 \in 1 .. Len(q) /\ 2 \in 1 .. Len(q)
      BY <1>1
    <3>4. \A k \in {1, 2} :
            /\ q[k][2][2] <= calls[q[k][2][1]]
            /\ q[k][2][2] = calls[q[k][2][1]] => c \in touched[q[k][2][1]]
      BY <3>3 DEF CutInv, ChunksKnown
    <3>5. \A r \in {q[1][2], q[2][2]} :
            r[2] <= calls[r[1]] /\ (r[2] = calls[r[1]] => \E d \in touched[r[1]] : fault[d])
      BY <3>1, <3>4
    <3> HIDE DEF q
    <3> QED
      BY <1>1, <3>2, <3>5 DEF CutInv, PartsKnown
  <2> QED
    BY <2>1, <2>2 DEF PlcTakeFrame
<1>5. \A u \in Threads : Touches(u)'
  BY <1>1 DEF CutInv, Touches, InExchange
<1> QED
  BY <1>3, <1>4, <1>5 DEF CutInv

\* A new call has touched nothing, and its request is a new one.
LEMMA CallCut ==
  ASSUME TypeInv, CutInv, NEW t \in Threads, NEW f \in Fds, Call(t, f)
  PROVE  CutInv'
<1>t. ThreadTypeOK /\ NetTypeOK /\ HistTypeOK
  BY DEF TypeInv, TypeOK
<1>1. /\ calls' = [calls EXCEPT ![t] = calls[t] + 1]
      /\ ret' = [ret EXCEPT ![t] = "none"]
      /\ touched' = [touched EXCEPT ![t] = {}]
      /\ UNCHANGED <<step, toPlc, mangled, fault>>
      /\ step[t] = "none"
  BY DEF Call, netVars
<1>2. calls[t] \in Nat /\ calls'[t] = calls[t] + 1 /\ touched'[t] = {} /\ ret'[t] = "none"
  BY <1>t, <1>1 DEF ThreadTypeOK, HistTypeOK
<1>3. \A u \in Threads \ {t} :
        calls'[u] = calls[u] /\ touched'[u] = touched[u] /\ ret'[u] = ret[u]
  BY <1>t, <1>1 DEF ThreadTypeOK, HistTypeOK
<1>4. ASSUME NEW r \in Requests, r[2] <= calls[r[1]]
      PROVE  /\ r[2] <= calls'[r[1]]
             /\ r[2] = calls'[r[1]] => r[2] = calls[r[1]] /\ touched'[r[1]] = touched[r[1]]
  <2>1. r[1] \in Threads /\ r[2] \in Nat
    BY DEF Requests
  <2>2. CASE r[1] = t
    BY <1>2, <1>4, <2>1, <2>2
  <2>3. CASE r[1] # t
    BY <1>3, <1>4, <2>1, <2>3
  <2> QED
    BY <2>2, <2>3
<1>5. ChunksKnown'
  <2>1. ASSUME NEW c \in Conns, NEW k \in 1 .. Len(toPlc[c])
        PROVE  toPlc[c][k][2] \in Requests
    <3>1. toPlc[c] \in Seq(FrameChunks)
      BY <1>t DEF NetTypeOK
    <3>2. toPlc[c][k] \in FrameChunks
      BY <3>1, ElementOfSeq
    <3> QED
      BY <3>2 DEF FrameChunks
  <2>2. ASSUME NEW c \in Conns, NEW k \in 1 .. Len(toPlc[c])
        PROVE  LET r == toPlc[c][k][2]
               IN  r[2] <= calls'[r[1]] /\ (r[2] = calls'[r[1]] => c \in touched'[r[1]])
    <3>1. PICK r : r = toPlc[c][k][2]
      OBVIOUS
    <3>2. r \in Requests
      BY <2>1, <3>1
    <3>3. r[2] <= calls[r[1]] /\ (r[2] = calls[r[1]] => c \in touched[r[1]])
      BY <3>1 DEF CutInv, ChunksKnown
    <3> QED
      BY <1>4, <3>1, <3>2, <3>3
  <2> QED
    BY <1>1, <2>2 DEF ChunksKnown
<1>6. PartsKnown'
  <2>1. mangled \subseteq Requests
    BY <1>t DEF HistTypeOK
  <2> QED
    BY <1>1, <1>4, <2>1 DEF CutInv, PartsKnown
<1>7. \A u \in Threads : Touches(u)'
  BY <1>1, <1>2, <1>3 DEF CutInv, Touches, InExchange
<1> QED
  BY <1>5, <1>6, <1>7 DEF CutInv

\* Every step preserves it.
LEMMA NextCut ==
  TypeInv /\ IInv /\ OnceInv /\ RInv /\ CutInv /\ [Next]_vars => CutInv'
<1> SUFFICES ASSUME TypeInv, IInv, OnceInv, RInv, CutInv, [Next]_vars
             PROVE  CutInv'
  OBVIOUS
<1>t. ThreadTypeOK /\ NetTypeOK /\ HistTypeOK /\ FlowOK /\ RetOK
  BY DEF TypeInv, TypeOK, OnceInv
<1>1. ASSUME NEW t \in Threads, NEW f \in Fds, Call(t, f)
      PROVE  CutInv'
  BY <1>1, CallCut
<1>2. ASSUME NEW t \in Threads, SendChunk(t)
      PROVE  CutInv'
  BY <1>2, SendCut
<1>3. ASSUME NEW t \in Threads, Proceed(t), ~SendChunk(t)
      PROVE  CutInv'
  <2>1. \A u \in Threads \ {t} :
          step'[u] = step[u] /\ ret'[u] = ret[u] /\ touched'[u] = touched[u]
    BY <1>3, StepsOfOne DEF OthersKeep
  <2>2. CASE TableStep(t) \/ Return(t)
    <3>1. UNCHANGED <<toPlc, mangled, calls, fault, touched, step, ret>>
      BY <2>2 DEF TableStep, Return, restVars, threadVars, netVars, histVars
    <3> QED
      BY <2>1, <3>1, KeepCut DEF CutInv, Touches, InExchange, FaultsStay
  <2>3. CASE LeaveTable(t)
    <3>1. /\ UNCHANGED <<toPlc, mangled, calls, fault, touched, step>>
          /\ ret' = [ret EXCEPT ![t] = IF tx[t] = NULL /\ ret[t] \in {"none", "SUCCESS"}
                                         THEN "FAILED" ELSE ret[t]]
          /\ pc[t] \in {"unlock_g", "unlock_g2"}
      BY <2>3 DEF LeaveTable, UnlockTable, Goto, netVars, histVars
    <3>2. ~InExchange(t)
      BY <1>t, <3>1 DEF FlowOK
    <3>3. pc[t] = "unlock_g2" => tx[t] # NULL
      BY UnlockFinds
    <3>4. pc[t] = "unlock_g" => ret[t] = "none"
      BY <1>t DEF RetOK
    <3>5. ret'[t] = IF tx[t] = NULL /\ ret[t] \in {"none", "SUCCESS"}
                      THEN "FAILED" ELSE ret[t]
      BY <1>t, <3>1 DEF ThreadTypeOK
    <3>6. Touches(t)'
      BY <3>1, <3>2, <3>3, <3>4, <3>5 DEF CutInv, Touches, InExchange
    <3> QED
      BY <2>1, <3>1, <3>6, KeepCut DEF FaultsStay
  <2>4. CASE StartExchange(t) \/ StartWrite(t) \/ WriteDone(t)
    <3>1. /\ UNCHANGED <<toPlc, mangled, calls, fault, touched>>
          /\ step'[t] \in {"write_lock", "send", "header"}
      BY <1>t, <2>4
         DEF StartExchange, StartWrite, WriteDone, netVars, histVars, ThreadTypeOK
    <3>2. Touches(t)'
      BY <3>1 DEF Touches, InExchange
    <3> QED
      BY <2>1, <3>1, <3>2, KeepCut DEF FaultsStay
  <2>5. CASE SendFails(t)
    <3>1. /\ UNCHANGED <<toPlc, mangled, calls, touched>>
          /\ FaultsStay
          /\ step'[t] = "write_err"
      BY <1>t, <2>5 DEF SendFails, netVars, FaultsStay, ThreadTypeOK
    <3>2. Touches(t)'
      BY <3>1 DEF Touches, InExchange
    <3> QED
      BY <2>1, <3>1, <3>2, KeepCut
  <2>6. CASE WriteRetry(t)
    <3>1. /\ UNCHANGED <<toPlc, mangled, calls, fault, touched>>
          /\ \/ step'[t] = "write_lock"
             \/ step'[t] = "finish" /\ ret'[t] = "SOCKET_SEND_FAILED"
      BY <1>t, <2>6 DEF WriteRetry, Ends, netVars, histVars, ThreadTypeOK
    <3>2. Touches(t)'
      BY <3>1 DEF Touches, InExchange
    <3> QED
      BY <2>1, <3>1, <3>2, KeepCut DEF FaultsStay
  <2>7. CASE EnterRecv(t)
    <3>1. /\ UNCHANGED <<toPlc, mangled, calls, fault>>
          /\ touched[t] \subseteq touched'[t]
          /\ \/ step'[t] \in {"wait_header", "wait_payload"}
             \/ step'[t] = "finish" /\ ret'[t] = "SOCKET_RECV_FAILED"
      BY <1>t, <2>7 DEF EnterRecv, Ends, netVars, ThreadTypeOK, HistTypeOK
    <3>2. Touches(t)'
      BY <3>1 DEF Touches, InExchange
    <3> QED
      BY <2>1, <3>1, <3>2, KeepCut DEF FaultsStay
  <2>8. CASE ReadHeader(t) \/ ReadPayload(t) \/ ReadFails(t)
    <3>1. /\ UNCHANGED <<toPlc, mangled, calls, touched>>
          /\ \/ step'[t] = "payload"
             \/ /\ step'[t] = "finish"
                /\ ret'[t] \in { "SUCCESS", "SOCKET_RECV_FAILED", "CONNECTION_CLOSED",
                                 "RESPONSE_HEADER_FAILED", "MALLOC_FAILED" }
      BY <1>t, <2>8
         DEF ReadHeader, ReadPayload, ReadFails, Consume, Ends, netVars, histVars, ThreadTypeOK
    <3>2. FaultsStay
      BY <1>t, <2>8
         DEF ReadHeader, ReadPayload, ReadFails, Failed, histVars, HistTypeOK, FaultsStay
    <3>3. Touches(t)'
      BY <3>1 DEF Touches, InExchange
    <3> QED
      BY <2>1, <3>1, <3>2, <3>3, KeepCut
  <2>9. CASE FinishExchange(t)
    <3>1. /\ UNCHANGED <<toPlc, mangled, calls, fault, touched, ret>>
          /\ step[t] = "finish" /\ step'[t] = "none"
      BY <1>t, <2>9 DEF FinishExchange, netVars, histVars, ThreadTypeOK
    <3>2. Touches(t)'
      BY <3>1 DEF CutInv, Touches
    <3> QED
      BY <2>1, <3>1, <3>2, KeepCut DEF FaultsStay
  <2> QED
    BY <1>3, <2>2, <2>3, <2>4, <2>5, <2>6, <2>7, <2>8, <2>9 DEF Proceed
<1>4. ASSUME NEW t \in Threads, Connection(t)
      PROVE  CutInv'
  <2>1. /\ UNCHANGED <<toPlc, mangled, calls, fault, touched, ret>>
        /\ \A u \in Threads \ {t} : step'[u] = step[u]
        /\ step' = step \/ (step[t] \in {"none", "open"} /\ step'[t] \in {"none", "open"})
    BY <1>t, <1>4
       DEF Connection, StartConnect, OpenSocket, Disconnect, threadVars, netVars, histVars,
           ThreadTypeOK
  <2>2. Touches(t)'
    BY <2>1 DEF CutInv, Touches, InExchange
  <2> QED
    BY <2>1, <2>2, KeepCut DEF FaultsStay
<1>5. ASSUME NEW c \in Conns, PlcTakeFrame(c)
      PROVE  CutInv'
  BY <1>5, TakeCut
<1>6. CASE \/ \E c \in Conns : PlcSend(c) \/ PlcClose(c)
           \/ UNCHANGED vars
  <2>1. UNCHANGED <<toPlc, mangled, calls, fault, touched, step, ret>>
    BY <1>6 DEF PlcSend, PlcClose, vars, restVars, threadVars, netVars, histVars
  <2> QED
    BY <2>1 DEF CutInv, ChunksKnown, PartsKnown, Touches, InExchange
<1> QED
  BY <1>1, <1>2, <1>3, <1>4, <1>5, <1>6 DEF Next, Plc, Done

\* The result of a call tells what the PLC did with its request.  A call that got no lock
\* has no effect at all; one that could not send is not carried out as issued, and no part
\* of it in another frame unless a fault was met; a success without fault was carried out
\* once.
THEOREM ResultIsTrue == Spec => []ResultTellsExecution
<1>1. ASSUME TypeInv, OnceInv, RInv, CutInv, NEW t \in Threads, ret[t] # "none"
      PROVE  /\ ret[t] \in {"FAILED", "SOCKET_SEND_FAILED"} => executed[Own(t)] = 0
             /\ ret[t] = "SUCCESS" /\ Undisturbed(t) => executed[Own(t)] = 1
             /\ Undisturbed(t) => Own(t) \notin mangled
             /\ ret[t] = "FAILED" => Undisturbed(t)
  <2>1. ret[t] \in {"FAILED", "SOCKET_SEND_FAILED"} => executed[Own(t)] = 0
    BY <1>1, FailedNotExecuted
  <2>2. ret[t] = "SUCCESS" /\ Undisturbed(t) => executed[Own(t)] = 1
    <3>1. ret[t] = "SUCCESS" /\ Undisturbed(t) => executed[Own(t)] # 0
      BY <1>1 DEF RInv, ReplyOK, Undisturbed
    <3>2. Own(t) \in Requests
      BY <1>1, OwnKnown
    <3>3. executed[Own(t)] <= 1 /\ executed[Own(t)] \in Nat
      BY <1>1, <3>2 DEF OnceInv, TailsOK, TypeInv, TypeOK, HistTypeOK
    <3> QED
      BY <3>1, <3>3
  <2>3. Undisturbed(t) => Own(t) \notin mangled
    BY <1>1 DEF CutInv, PartsKnown, Own, Undisturbed
  <2>4. ret[t] = "FAILED" => Undisturbed(t)
    BY <1>1 DEF CutInv, Touches, OnceInv, RetOK, Undisturbed
  <2> QED
    BY <2>1, <2>2, <2>3, <2>4
<1>2. TypeInv /\ OnceInv /\ RInv /\ CutInv => ResultTellsExecution
  BY <1>1 DEF ResultTellsExecution
<1>3. Spec => []CutInv
  <2>1. Init => CutInv
    BY InitCut
  <2>2. TypeInv /\ IInv /\ OnceInv /\ RInv /\ CutInv /\ [Next]_vars => CutInv'
    BY NextCut
  <2> QED
    BY <2>1, <2>2, ReplyInvariant, PTL DEF Spec
<1> QED
  BY <1>2, <1>3, ReplyInvariant, PTL
=============================================================================
