---------------------------- MODULE McCall_proofs ----------------------------
(***************************************************************************)
(* Proofs about McCall, for any item counts and response lengths.  The      *)
(* invariant says of every stage of a call which buffers it owns, what has  *)
(* gone wrong so far and whether the PLC has carried the command out.       *)
(***************************************************************************)
EXTENDS McCall, TLAPS

Heaps == [Buffers -> Conditions]

\* The buffers bs are allocated and no others, and none was released twice.
Owns(h, bs) ==
  \A b \in Buffers : IF b \in bs THEN h[b] = "live" ELSE h[b] \in {"null", "free"}

\* The buffers of a call at each stage.
HeapOK ==
  /\ stage = "input" => Owns(heap, {})
  /\ stage \in {"address", "core"} => Owns(heap, {}) \/ Owns(heap, {"in_bytes"})
  /\ stage \in {"input", "address", "core"} => heap["in_bytes"] # "free"
  /\ stage = "core" /\ call.op \in Controls => Owns(heap, {})
  /\ stage = "pack" => Owns(heap, {"core_cmd"})
  /\ stage = "exchange" => Owns(heap, {"cmd"})
  /\ stage = "parse" => Owns(heap, {"response"})
  /\ stage \in {"unpack", "copy"} => Owns(heap, {}) \/ Owns(heap, {"read_data"})
  /\ stage \notin {"idle", "crashed"} => heap["read_data"] # "free"
  /\ stage = "crashed" => \A b \in Buffers : heap[b] # "twice"

\* What has happened to a call at each stage.
CallOK ==
  /\ call.op = "read_short" => call.n = 1
  /\ stage \in {"input", "address"} => call.op \notin Controls
  /\ stage \notin {"idle", "crashed"} => ret = "none" /\ out \in {"unset", "NULL"}
  /\ stage \in {"input", "address", "core", "pack", "exchange"} =>
       faults = {} /\ ~executed
  /\ stage = "parse" =>
       /\ faults \subseteq {"end_code", "foreign"}
       /\ "foreign" \in faults \/ (executed <=> "end_code" \notin faults)
  /\ stage = "unpack" => faults \subseteq {"foreign"} /\ Bin
  /\ stage \in {"unpack", "copy"} =>
       faults \subseteq {"memory", "foreign"} /\ (executed \/ "foreign" \in faults) /\ HasOutput
  /\ stage = "crashed" => "payload" \notin faults /\ ret = "none"

IInv ==
  /\ TypeOK /\ HeapOK /\ CallOK
  /\ ReleasedOnce /\ NoLeak /\ OutputIsAnswer /\ ErrorTellsExecution

-----------------------------------------------------------------------------
(* malloc and free. *)

\* MakeInput.
LEMMA AllocInput ==
  ASSUME NEW h \in Heaps, Owns(h, {}), h["in_bytes"] # "free"
  PROVE  /\ Alloc(h, "in_bytes") \in Heaps
         /\ Owns(Alloc(h, "in_bytes"), {"in_bytes"})
         /\ Alloc(h, "in_bytes")["read_data"] = h["read_data"]
BY DEF Owns, Heaps, Alloc, Release, Buffers, Conditions

\* The release of the input, if there is one.
LEMMA ReleaseInput ==
  ASSUME NEW h \in Heaps, Owns(h, {}) \/ Owns(h, {"in_bytes"}), h["in_bytes"] # "free"
  PROVE  /\ Release(h, {"in_bytes"}) \in Heaps
         /\ Owns(Release(h, {"in_bytes"}), {})
         /\ Release(h, {"in_bytes"})["read_data"] = h["read_data"]
BY DEF Owns, Heaps, Alloc, Release, Buffers, Conditions

\* BuildCore.
LEMMA AllocCore ==
  ASSUME NEW h \in Heaps, Owns(h, {}) \/ Owns(h, {"in_bytes"}), h["in_bytes"] # "free"
  PROVE  /\ Release(Alloc(h, "core_cmd"), {"in_bytes"}) \in Heaps
         /\ Owns(Release(Alloc(h, "core_cmd"), {"in_bytes"}), {"core_cmd"})
         /\ Release(Alloc(h, "core_cmd"), {"in_bytes"})["read_data"] = h["read_data"]
BY DEF Owns, Heaps, Alloc, Release, Buffers, Conditions

\* BuildControl: there is no input.
LEMMA AllocControl ==
  ASSUME NEW h \in Heaps, Owns(h, {})
  PROVE  /\ Alloc(h, "core_cmd") \in Heaps
         /\ Owns(Alloc(h, "core_cmd"), {"core_cmd"})
         /\ Alloc(h, "core_cmd")["read_data"] = h["read_data"]
BY DEF Owns, Heaps, Alloc, Release, Buffers, Conditions

\* Pack.
LEMMA AllocFrame ==
  ASSUME NEW h \in Heaps, Owns(h, {"core_cmd"})
  PROVE  /\ Release(Alloc(h, "cmd"), {"core_cmd"}) \in Heaps
         /\ Owns(Release(Alloc(h, "cmd"), {"core_cmd"}), {"cmd"})
         /\ Release(Alloc(h, "cmd"), {"core_cmd"})["read_data"] = h["read_data"]
         /\ Release(h, {"core_cmd"}) \in Heaps
         /\ Owns(Release(h, {"core_cmd"}), {})
BY DEF Owns, Heaps, Alloc, Release, Buffers, Conditions

\* A transaction without a response.
LEMMA ReleaseFrame ==
  ASSUME NEW h \in Heaps, Owns(h, {"cmd"})
  PROVE  /\ Release(h, {"cmd"}) \in Heaps
         /\ Owns(Release(h, {"cmd"}), {})
BY DEF Owns, Heaps, Alloc, Release, Buffers, Conditions

\* A transaction with a response.
LEMMA AllocResponse ==
  ASSUME NEW h \in Heaps, Owns(h, {"cmd"})
  PROVE  /\ Release(Alloc(h, "response"), {"cmd"}) \in Heaps
         /\ Owns(Release(Alloc(h, "response"), {"cmd"}), {"response"})
         /\ Release(Alloc(h, "response"), {"cmd"})["read_data"] = h["read_data"]
BY DEF Owns, Heaps, Alloc, Release, Buffers, Conditions

\* A payload that does not come: a release, and the second one of the
\* binary library.
LEMMA LoseResponse ==
  ASSUME NEW h \in Heaps, Owns(h, {"cmd"}),
         NEW r, r = Release(Alloc(h, "response"), {"cmd", "response"})
  PROVE  /\ r \in Heaps
         /\ Owns(r, {})
         /\ Release(r, {"response"}) \in Heaps
         /\ Release(r, {"response"})["response"] = "twice"
         /\ \A b \in Buffers \ {"response"} :
              Release(r, {"response"})[b] \in {"null", "free"}
BY DEF Owns, Heaps, Alloc, Release, Buffers, Conditions

\* Parsing that keeps no data.
LEMMA ReleaseResponse ==
  ASSUME NEW h \in Heaps, Owns(h, {"response"})
  PROVE  /\ Release(h, {"response"}) \in Heaps
         /\ Owns(Release(h, {"response"}), {})
         /\ Release(h, {"response"})["read_data"] = h["read_data"]
BY DEF Owns, Heaps, Alloc, Release, Buffers, Conditions

\* Parsing that copies the data, and keeps them or not.
LEMMA AllocData ==
  ASSUME NEW h \in Heaps, Owns(h, {"response"}), h["read_data"] # "free"
  PROVE  /\ Release(Alloc(h, "read_data"), {"response"}) \in Heaps
         /\ Owns(Release(Alloc(h, "read_data"), {"response"}), {"read_data"})
         /\ Release(Release(Alloc(h, "read_data"), {"read_data"}), {"response"}) \in Heaps
         /\ Owns(Release(Release(Alloc(h, "read_data"), {"read_data"}), {"response"}), {})
BY DEF Owns, Heaps, Alloc, Release, Buffers, Conditions

\* Copying the data out.
LEMMA ReleaseData ==
  ASSUME NEW h \in Heaps, Owns(h, {}) \/ Owns(h, {"read_data"}), h["read_data"] # "free"
  PROVE  /\ Release(h, {"read_data"}) \in Heaps
         /\ Owns(Release(h, {"read_data"}), {})
         /\ Alloc(Release(h, {"read_data"}), "out") \in Heaps
         /\ Owns(Alloc(Release(h, {"read_data"}), "out"), {"out"})
BY DEF Owns, Heaps, Alloc, Release, Buffers, Conditions

-----------------------------------------------------------------------------
(* The invariant. *)

\* It holds before the call allocates anything.
LEMMA InitInv == Init => IInv
<1> SUFFICES ASSUME Init
             PROVE  IInv
  OBVIOUS
<1> USE DEF Init
<1>1. TypeOK
  <2>1. call \in Calls
    BY DEF Calls, Writes, Reads, Controls
  <2>2. heap \in [Buffers -> Conditions]
    BY DEF Nothing, Buffers, Conditions
  <2> QED
    BY <2>1, <2>2 DEF TypeOK, Stages, Results
<1>2. HeapOK /\ CallOK
  BY DEF HeapOK, CallOK
<1>3. ReleasedOnce
  BY DEF ReleasedOnce, Nothing
<1>4. NoLeak /\ OutputIsAnswer /\ ErrorTellsExecution
  BY DEF NoLeak, OutputIsAnswer, ErrorTellsExecution, Returned
<1> QED
  BY <1>1, <1>2, <1>3, <1>4 DEF IInv

\* Every stage of the call preserves it.
LEMMA StepInv == IInv /\ [Next]_vars => IInv'
<1> SUFFICES ASSUME IInv, [Next]_vars
             PROVE  IInv'
  OBVIOUS
<1> USE DEF IInv
<1>. heap \in Heaps
  BY DEF TypeOK, Heaps
<1>1. CASE MakeInput
  <2> USE <1>1 DEF MakeInput, Goto, Return, NoMemory, Crash
  <2> DEFINE a == Alloc(heap, "in_bytes")
  <2>1. Owns(heap, {}) /\ heap["in_bytes"] # "free"
    BY DEF HeapOK
  <2>2. a \in Heaps /\ Owns(a, {"in_bytes"}) /\ a["read_data"] = heap["read_data"]
    BY <2>1, AllocInput
  <2>3. TypeOK'
    BY <2>1, <2>2 DEF TypeOK, Stages, Results, Heaps
  <2>4. HeapOK'
    BY <2>1, <2>2 DEF HeapOK, CallOK, Buffers, Owns
  <2>5. CallOK'
    BY <2>1, <2>2 DEF CallOK, HasOutput, Bin, Refused
  <2>6. ReleasedOnce'
    BY <2>1, <2>2 DEF CallOK, HeapOK, ReleasedOnce, Owns, Bin
  <2>7. NoLeak'
    BY <2>1, <2>2 DEF CallOK, HeapOK, NoLeak, Returned, Owns, Bin
  <2>8. OutputIsAnswer'
    BY <2>1, <2>2 DEF CallOK, OutputIsAnswer, Returned, HasOutput
  <2>9. ErrorTellsExecution'
    BY <2>1, <2>2 DEF CallOK, ErrorTellsExecution, Returned, HasOutput
  <2> QED
    BY <2>3, <2>4, <2>5, <2>6, <2>7, <2>8, <2>9
<1>2. CASE ParseAddress
  <2> USE <1>2 DEF ParseAddress, Goto, Return
  <2> DEFINE r == Release(heap, {"in_bytes"})
  <2>1. (Owns(heap, {}) \/ Owns(heap, {"in_bytes"})) /\ heap["in_bytes"] # "free"
    BY DEF HeapOK
  <2>2. r \in Heaps /\ Owns(r, {}) /\ r["read_data"] = heap["read_data"]
    BY <2>1, ReleaseInput
  <2>3. TypeOK'
    BY <2>1, <2>2 DEF TypeOK, Stages, Results, Heaps
  <2>4. HeapOK'
    BY <2>1, <2>2 DEF HeapOK, CallOK
  <2>5. CallOK'
    BY <2>1, <2>2 DEF CallOK, HasOutput, Bin, Refused
  <2>6. ReleasedOnce'
    BY <2>1, <2>2 DEF CallOK, HeapOK, ReleasedOnce, Owns, Bin
  <2>7. NoLeak'
    BY <2>1, <2>2 DEF CallOK, HeapOK, NoLeak, Returned, Owns, Bin
  <2>8. OutputIsAnswer'
    BY <2>1, <2>2 DEF CallOK, OutputIsAnswer, Returned, HasOutput
  <2>9. ErrorTellsExecution'
    BY <2>1, <2>2 DEF CallOK, ErrorTellsExecution, Returned, HasOutput
  <2> QED
    BY <2>3, <2>4, <2>5, <2>6, <2>7, <2>8, <2>9
<1>3. CASE BuildCore
  <2> USE <1>3 DEF BuildCore, Goto, Return, NoMemory, Crash
  <2> DEFINE ar == Release(Alloc(heap, "core_cmd"), {"in_bytes"})
             r == Release(heap, {"in_bytes"})
  <2>1. (Owns(heap, {}) \/ Owns(heap, {"in_bytes"})) /\ heap["in_bytes"] # "free"
    BY DEF HeapOK
  <2>2. ar \in Heaps /\ Owns(ar, {"core_cmd"}) /\ ar["read_data"] = heap["read_data"]
    BY <2>1, AllocCore
  <2>3. r \in Heaps /\ Owns(r, {}) /\ r["read_data"] = heap["read_data"]
    BY <2>1, ReleaseInput
  <2>4. TypeOK'
    BY <2>1, <2>2, <2>3 DEF TypeOK, Stages, Results, Heaps
  <2>5. HeapOK'
    BY <2>1, <2>2, <2>3 DEF HeapOK, CallOK, Buffers, Owns
  <2>6. CallOK'
    BY <2>1, <2>2, <2>3 DEF CallOK, HasOutput, Bin, Refused
  <2>7. ReleasedOnce'
    BY <2>1, <2>2, <2>3 DEF CallOK, HeapOK, ReleasedOnce, Owns, Bin
  <2>8. NoLeak'
    BY <2>1, <2>2, <2>3 DEF CallOK, HeapOK, NoLeak, Returned, Owns, Bin
  <2>9. OutputIsAnswer'
    BY <2>1, <2>2, <2>3 DEF CallOK, OutputIsAnswer, Returned, HasOutput
  <2>10. ErrorTellsExecution'
    BY <2>1, <2>2, <2>3 DEF CallOK, ErrorTellsExecution, Returned, HasOutput
  <2> QED
    BY <2>4, <2>5, <2>6, <2>7, <2>8, <2>9, <2>10
<1>4. CASE BuildControl
  <2> USE <1>4 DEF BuildControl, Goto, Return, NoMemory, Crash
  <2> DEFINE a == Alloc(heap, "core_cmd")
  <2>1. Owns(heap, {})
    BY DEF HeapOK
  <2>2. a \in Heaps /\ Owns(a, {"core_cmd"}) /\ a["read_data"] = heap["read_data"]
    BY <2>1, AllocControl
  <2>3. TypeOK'
    BY <2>1, <2>2 DEF TypeOK, Stages, Results, Heaps
  <2>4. HeapOK'
    BY <2>1, <2>2 DEF HeapOK, CallOK, Buffers, Owns
  <2>5. CallOK'
    BY <2>1, <2>2 DEF CallOK, HasOutput, Bin, Refused
  <2>6. ReleasedOnce'
    BY <2>1, <2>2 DEF CallOK, HeapOK, ReleasedOnce, Owns, Bin
  <2>7. NoLeak'
    BY <2>1, <2>2 DEF CallOK, HeapOK, NoLeak, Returned, Owns, Bin
  <2>8. OutputIsAnswer'
    BY <2>1, <2>2 DEF CallOK, OutputIsAnswer, Returned, HasOutput
  <2>9. ErrorTellsExecution'
    BY <2>1, <2>2 DEF CallOK, ErrorTellsExecution, Returned, HasOutput
  <2> QED
    BY <2>3, <2>4, <2>5, <2>6, <2>7, <2>8, <2>9
<1>5. CASE Pack
  <2> USE <1>5 DEF Pack, Goto, Return, NoMemory
  <2> DEFINE ar == Release(Alloc(heap, "cmd"), {"core_cmd"})
             r == Release(heap, {"core_cmd"})
  <2>1. Owns(heap, {"core_cmd"})
    BY DEF HeapOK
  <2>2. ar \in Heaps /\ Owns(ar, {"cmd"}) /\ ar["read_data"] = heap["read_data"]
    BY <2>1, AllocFrame
  <2>3. r \in Heaps /\ Owns(r, {})
    BY <2>1, AllocFrame
  <2>4. TypeOK'
    BY <2>1, <2>2, <2>3 DEF TypeOK, Stages, Results, Heaps
  <2>5. HeapOK'
    BY <2>1, <2>2, <2>3 DEF HeapOK, CallOK, Buffers, Owns
  <2>6. CallOK'
    BY <2>1, <2>2, <2>3 DEF CallOK, HasOutput, Bin, Refused
  <2>7. ReleasedOnce'
    BY <2>1, <2>2, <2>3 DEF CallOK, HeapOK, ReleasedOnce, Owns, Bin
  <2>8. NoLeak'
    BY <2>1, <2>2, <2>3 DEF CallOK, HeapOK, NoLeak, Returned, Owns, Bin
  <2>9. OutputIsAnswer'
    BY <2>1, <2>2, <2>3 DEF CallOK, OutputIsAnswer, Returned, HasOutput
  <2>10. ErrorTellsExecution'
    BY <2>1, <2>2, <2>3 DEF CallOK, ErrorTellsExecution, Returned, HasOutput
  <2> QED
    BY <2>4, <2>5, <2>6, <2>7, <2>8, <2>9, <2>10
<1>6. CASE NotSent
  <2> USE <1>6 DEF NotSent, Return
  <2> DEFINE r == Release(heap, {"cmd"})
  <2>1. Owns(heap, {"cmd"})
    BY DEF HeapOK
  <2>2. r \in Heaps /\ Owns(r, {})
    BY <2>1, ReleaseFrame
  <2>3. TypeOK'
    BY <2>1, <2>2 DEF TypeOK, Stages, Results, Heaps
  <2>4. HeapOK'
    BY <2>1, <2>2 DEF HeapOK, CallOK, Buffers, Owns
  <2>5. CallOK'
    BY <2>1, <2>2 DEF CallOK, HasOutput, Bin, Refused
  <2>6. ReleasedOnce'
    BY <2>1, <2>2 DEF CallOK, HeapOK, ReleasedOnce, Owns, Bin
  <2>7. NoLeak'
    BY <2>1, <2>2 DEF CallOK, HeapOK, NoLeak, Returned, Owns, Bin
  <2>8. OutputIsAnswer'
    BY <2>1, <2>2 DEF CallOK, OutputIsAnswer, Returned, HasOutput
  <2>9. ErrorTellsExecution'
    BY <2>1, <2>2 DEF CallOK, ErrorTellsExecution, Returned, HasOutput
  <2> QED
    BY <2>3, <2>4, <2>5, <2>6, <2>7, <2>8, <2>9
<1>7. CASE NoResponse
  <2> USE <1>7 DEF NoResponse, Return, NoMemory
  <2> DEFINE r == Release(heap, {"cmd"})
  <2>1. Owns(heap, {"cmd"})
    BY DEF HeapOK
  <2>2. r \in Heaps /\ Owns(r, {})
    BY <2>1, ReleaseFrame
  <2>3. TypeOK'
    BY <2>1, <2>2 DEF TypeOK, Stages, Results, Heaps
  <2>4. HeapOK'
    BY <2>1, <2>2 DEF HeapOK, CallOK, Buffers, Owns
  <2>5. CallOK'
    BY <2>1, <2>2 DEF CallOK, HasOutput, Bin, Refused
  <2>6. ReleasedOnce'
    BY <2>1, <2>2 DEF CallOK, HeapOK, ReleasedOnce, Owns, Bin
  <2>7. NoLeak'
    BY <2>1, <2>2 DEF CallOK, HeapOK, NoLeak, Returned, Owns, Bin
  <2>8. OutputIsAnswer'
    BY <2>1, <2>2 DEF CallOK, OutputIsAnswer, Returned, HasOutput
  <2>9. ErrorTellsExecution'
    BY <2>1, <2>2 DEF CallOK, ErrorTellsExecution, Returned, HasOutput
  <2> QED
    BY <2>3, <2>4, <2>5, <2>6, <2>7, <2>8, <2>9
<1>8. CASE PayloadLost
  <2> USE <1>8 DEF PayloadLost, Return
  <2> DEFINE r == Release(Alloc(heap, "response"), {"cmd", "response"})
             rr == Release(r, {"response"})
  <2>1. Owns(heap, {"cmd"})
    BY DEF HeapOK
  <2>2. r \in Heaps /\ Owns(r, {})
    BY <2>1, LoseResponse
  <2>3. /\ rr \in Heaps /\ rr["response"] = "twice"
       /\ \A b \in Buffers \ {"response"} : rr[b] \in {"null", "free"}
    BY <2>1, LoseResponse
  <2>4. TypeOK'
    BY <2>1, <2>2, <2>3 DEF TypeOK, Stages, Results, Heaps
  <2>5. HeapOK'
    BY <2>1, <2>2, <2>3 DEF HeapOK, CallOK, Buffers, Owns
  <2>6. CallOK'
    BY <2>1, <2>2, <2>3 DEF CallOK, HasOutput, Bin, Refused
  <2>7. ReleasedOnce'
    BY <2>1, <2>2, <2>3 DEF CallOK, HeapOK, ReleasedOnce, Owns, Bin
  <2>8. NoLeak'
    BY <2>1, <2>2, <2>3 DEF CallOK, HeapOK, NoLeak, Returned, Owns, Bin
  <2>9. OutputIsAnswer'
    BY <2>1, <2>2, <2>3 DEF CallOK, OutputIsAnswer, Returned, HasOutput
  <2>10. ErrorTellsExecution'
    BY <2>1, <2>2, <2>3 DEF CallOK, ErrorTellsExecution, Returned, HasOutput
  <2> QED
    BY <2>4, <2>5, <2>6, <2>7, <2>8, <2>9, <2>10
<1>9. ASSUME NEW n \in Lengths, Response(n)
      PROVE  IInv'
  <2> USE <1>9 DEF Response, Goto
  <2> DEFINE r == Release(Alloc(heap, "response"), {"cmd"})
  <2>1. Owns(heap, {"cmd"})
    BY DEF HeapOK
  <2>2. r \in Heaps /\ Owns(r, {"response"}) /\ r["read_data"] = heap["read_data"]
    BY <2>1, AllocResponse
  <2>3. TypeOK'
    BY <2>1, <2>2, CallAssumption DEF TypeOK, Stages, Results, Heaps
  <2>4. HeapOK'
    BY <2>1, <2>2 DEF HeapOK, CallOK, Buffers, Owns
  <2>5. CallOK'
    BY <2>1, <2>2 DEF CallOK, HasOutput, Bin, Refused
  <2>6. ReleasedOnce'
    BY <2>1, <2>2 DEF CallOK, HeapOK, ReleasedOnce, Owns, Bin
  <2>7. NoLeak'
    BY <2>1, <2>2 DEF CallOK, HeapOK, NoLeak, Returned, Owns, Bin
  <2>8. OutputIsAnswer'
    BY <2>1, <2>2 DEF CallOK, OutputIsAnswer, Returned, HasOutput
  <2>9. ErrorTellsExecution'
    BY <2>1, <2>2 DEF CallOK, ErrorTellsExecution, Returned, HasOutput
  <2> QED
    BY <2>3, <2>4, <2>5, <2>6, <2>7, <2>8, <2>9
<1>10. CASE ParseStatus
  <2> USE <1>10 DEF ParseStatus, Parsed, Goto, Return, Refused
  <2> DEFINE r == Release(heap, {"response"})
  <2>1. Owns(heap, {"response"})
    BY DEF HeapOK
  <2>2. r \in Heaps /\ Owns(r, {}) /\ r["read_data"] = heap["read_data"]
    BY <2>1, ReleaseResponse
  <2>3. TypeOK'
    BY <2>1, <2>2 DEF TypeOK, Stages, Results, Heaps
  <2>4. HeapOK'
    BY <2>1, <2>2 DEF HeapOK, CallOK, Buffers, Owns
  <2>5. CallOK'
    BY <2>1, <2>2 DEF CallOK, HasOutput, Bin
  <2>6. ReleasedOnce'
    BY <2>1, <2>2 DEF CallOK, HeapOK, ReleasedOnce, Owns, Bin
  <2>7. NoLeak'
    BY <2>1, <2>2 DEF CallOK, HeapOK, NoLeak, Returned, Owns, Bin
  <2>8. OutputIsAnswer'
    BY <2>1, <2>2 DEF CallOK, OutputIsAnswer, Returned, HasOutput
  <2>9. ErrorTellsExecution'
    BY <2>1, <2>2 DEF CallOK, ErrorTellsExecution, Returned, HasOutput
  <2> QED
    BY <2>3, <2>4, <2>5, <2>6, <2>7, <2>8, <2>9
<1>11. CASE ParseBin
  <2> USE <1>11 DEF ParseBin, Parsed, Goto, Return, NoMemory, Refused
  <2> DEFINE r == Release(heap, {"response"})
             ar == Release(Alloc(heap, "read_data"), {"response"})
             kr == Release(Release(Alloc(heap, "read_data"), {"read_data"}), {"response"})
  <2>1. Owns(heap, {"response"}) /\ heap["read_data"] # "free"
    BY DEF HeapOK
  <2>2. r \in Heaps /\ Owns(r, {}) /\ r["read_data"] = heap["read_data"]
    BY <2>1, ReleaseResponse
  <2>3. ar \in Heaps /\ Owns(ar, {"read_data"})
    BY <2>1, AllocData
  <2>4. kr \in Heaps /\ Owns(kr, {})
    BY <2>1, AllocData
  <2>5. TypeOK'
    <3>1. heap' \in Heaps
      BY <2>1, <2>2, <2>3, <2>4
    <3>2. len' \in Nat
      BY DEF TypeOK
    <3>3. faults' = faults \/ faults' = faults \cup {"memory"}
      OBVIOUS
    <3>4. stage' \in Stages /\ ret' \in Results
      BY DEF TypeOK, Stages, Results
    <3> QED
      BY <3>1, <3>2, <3>3, <3>4 DEF TypeOK, Heaps
  <2>6. HeapOK'
    BY <2>1, <2>2, <2>3, <2>4 DEF HeapOK, CallOK, Buffers, Owns
  <2>7. CallOK'
    BY <2>1, <2>2, <2>3, <2>4 DEF CallOK, HasOutput, Bin
  <2>8. ReleasedOnce'
    BY <2>1, <2>2, <2>3, <2>4 DEF CallOK, HeapOK, ReleasedOnce, Owns, Bin
  <2>9. NoLeak'
    BY <2>1, <2>2, <2>3, <2>4 DEF CallOK, HeapOK, NoLeak, Returned, Owns, Bin
  <2>10. OutputIsAnswer'
    BY <2>1, <2>2, <2>3, <2>4 DEF CallOK, OutputIsAnswer, Returned, HasOutput
  <2>11. ErrorTellsExecution'
    BY <2>1, <2>2, <2>3, <2>4 DEF CallOK, ErrorTellsExecution, Returned, HasOutput
  <2> QED
    BY <2>5, <2>6, <2>7, <2>8, <2>9, <2>10, <2>11
<1>12. CASE ParseAscii
  <2> USE <1>12 DEF ParseAscii, Parsed, Goto, Return, NoMemory, Refused
  <2> DEFINE r == Release(heap, {"response"})
             ar == Release(Alloc(heap, "read_data"), {"response"})
             kr == Release(Release(Alloc(heap, "read_data"), {"read_data"}), {"response"})
  <2>1. Owns(heap, {"response"}) /\ heap["read_data"] # "free"
    BY DEF HeapOK
  <2>2. r \in Heaps /\ Owns(r, {}) /\ r["read_data"] = heap["read_data"]
    BY <2>1, ReleaseResponse
  <2>3. ar \in Heaps /\ Owns(ar, {"read_data"})
    BY <2>1, AllocData
  <2>4. kr \in Heaps /\ Owns(kr, {})
    BY <2>1, AllocData
  <2>5. TypeOK'
    BY <2>1, <2>2, <2>3, <2>4 DEF TypeOK, Stages, Results, Heaps
  <2>6. HeapOK'
    BY <2>1, <2>2, <2>3, <2>4 DEF HeapOK, CallOK, Buffers, Owns
  <2>7. CallOK'
    BY <2>1, <2>2, <2>3, <2>4 DEF CallOK, HasOutput, Bin
  <2>8. ReleasedOnce'
    BY <2>1, <2>2, <2>3, <2>4 DEF CallOK, HeapOK, ReleasedOnce, Owns, Bin
  <2>9. NoLeak'
    BY <2>1, <2>2, <2>3, <2>4 DEF CallOK, HeapOK, NoLeak, Returned, Owns, Bin
  <2>10. OutputIsAnswer'
    BY <2>1, <2>2, <2>3, <2>4 DEF CallOK, OutputIsAnswer, Returned, HasOutput
  <2>11. ErrorTellsExecution'
    BY <2>1, <2>2, <2>3, <2>4 DEF CallOK, ErrorTellsExecution, Returned, HasOutput
  <2> QED
    BY <2>5, <2>6, <2>7, <2>8, <2>9, <2>10, <2>11
<1>13. CASE EndCodeGarbled
  <2> USE <1>13 DEF EndCodeGarbled, Parsed, Return
  <2> DEFINE r == Release(heap, {"response"})
  <2>1. Owns(heap, {"response"})
    BY DEF HeapOK
  <2>2. r \in Heaps /\ Owns(r, {}) /\ r["read_data"] = heap["read_data"]
    BY <2>1, ReleaseResponse
  <2>3. TypeOK'
    BY <2>1, <2>2 DEF TypeOK, Stages, Results, Heaps
  <2>4. HeapOK'
    BY <2>1, <2>2 DEF HeapOK, CallOK, Buffers, Owns
  <2>5. CallOK'
    BY <2>1, <2>2 DEF CallOK, HasOutput, Bin, Refused
  <2>6. ReleasedOnce'
    BY <2>1, <2>2 DEF CallOK, HeapOK, ReleasedOnce, Owns, Bin
  <2>7. NoLeak'
    BY <2>1, <2>2 DEF CallOK, HeapOK, NoLeak, Returned, Owns, Bin
  <2>8. OutputIsAnswer'
    BY <2>1, <2>2 DEF CallOK, OutputIsAnswer, Returned, HasOutput
  <2>9. ErrorTellsExecution'
    BY <2>1, <2>2 DEF CallOK, ErrorTellsExecution, Returned, HasOutput
  <2> QED
    BY <2>3, <2>4, <2>5, <2>6, <2>7, <2>8, <2>9
<1>14. CASE Unpack
  <2> USE <1>14 DEF Unpack, Goto, NoMemory
  <2>1. TypeOK'
    <3>1. 2 * len \in Nat
      BY DEF TypeOK
    <3> QED
      BY <3>1 DEF TypeOK, Stages
  <2>2. HeapOK'
    BY DEF HeapOK, CallOK, Buffers, Owns
  <2>3. CallOK'
    BY DEF CallOK, HasOutput, Bin, Refused
  <2>4. ReleasedOnce'
    BY DEF CallOK, HeapOK, ReleasedOnce, Owns, Bin
  <2>5. NoLeak'
    BY DEF CallOK, HeapOK, NoLeak, Returned, Owns, Bin
  <2>6. OutputIsAnswer'
    BY DEF CallOK, OutputIsAnswer, Returned, HasOutput
  <2>7. ErrorTellsExecution'
    BY DEF CallOK, ErrorTellsExecution, Returned, HasOutput
  <2> QED
    BY <2>1, <2>2, <2>3, <2>4, <2>5, <2>6, <2>7
<1>15. CASE CopyNothing
  <2> USE <1>15 DEF CopyNothing, Return
  <2>1. TypeOK'
    BY DEF TypeOK, Stages, Results, Heaps
  <2>2. HeapOK'
    BY DEF HeapOK, CallOK, Buffers, Owns
  <2>3. CallOK'
    BY DEF CallOK, HasOutput, Bin, Refused
  <2>4. ReleasedOnce'
    BY DEF CallOK, HeapOK, ReleasedOnce, Owns, Bin
  <2>5. NoLeak'
    BY DEF HeapOK, NoLeak, Owns, Buffers, Enough, Needed, Bin
  <2>6. OutputIsAnswer'
    <3>1. len < Needed
      BY DEF CallOK, TypeOK, Calls, Enough, Needed
    <3> QED
      BY <3>1 DEF CallOK, OutputIsAnswer, Needed, HasOutput
  <2>7. ErrorTellsExecution'
    BY DEF CallOK, ErrorTellsExecution, Returned, HasOutput
  <2> QED
    BY <2>1, <2>2, <2>3, <2>4, <2>5, <2>6, <2>7
<1>16. CASE CopyValue
  <2> USE <1>16 DEF CopyValue, Return
  <2> DEFINE r == Release(heap, {"read_data"})
  <2>1. (Owns(heap, {}) \/ Owns(heap, {"read_data"})) /\ heap["read_data"] # "free"
    BY DEF HeapOK
  <2>2. r \in Heaps /\ Owns(r, {})
    BY <2>1, ReleaseData
  <2>3. TypeOK'
    BY <2>1, <2>2 DEF TypeOK, Stages, Results, Heaps
  <2>4. HeapOK'
    BY <2>1, <2>2 DEF HeapOK, CallOK, Buffers, Owns
  <2>5. CallOK'
    BY <2>1, <2>2 DEF CallOK, HasOutput, Bin, Refused
  <2>6. ReleasedOnce'
    BY <2>1, <2>2 DEF CallOK, HeapOK, ReleasedOnce, Owns, Bin
  <2>7. NoLeak'
    BY <2>1, <2>2 DEF CallOK, HeapOK, NoLeak, Returned, Owns, Bin
  <2>8. OutputIsAnswer'
    <3>1. len < Needed /\ Enough => Bin /\ call.op = "read_short" /\ len = 1
      BY DEF CallOK, TypeOK, Calls, Enough, Needed
    <3>2. call.op = "read_bits" /\ Enough => call.n = 1 \/ 2 * len > call.n + 1
      BY DEF CallOK, TypeOK, Calls, Enough, Needed
    <3>3. HasOutput
      BY DEF HasOutput
    <3> QED
      BY <3>1, <3>2, <3>3 DEF CallOK, OutputIsAnswer, Needed, HasOutput, Bin
  <2>9. ErrorTellsExecution'
    BY <2>1, <2>2 DEF CallOK, ErrorTellsExecution, Returned, HasOutput
  <2> QED
    BY <2>3, <2>4, <2>5, <2>6, <2>7, <2>8, <2>9
<1>17. CASE CopyString
  <2> USE <1>17 DEF CopyString, Return, NoMemory
  <2> DEFINE r == Release(heap, {"read_data"})
             ra == Alloc(Release(heap, {"read_data"}), "out")
  <2>1. (Owns(heap, {}) \/ Owns(heap, {"read_data"})) /\ heap["read_data"] # "free"
    BY DEF HeapOK
  <2>2. r \in Heaps /\ Owns(r, {})
    BY <2>1, ReleaseData
  <2>3. ra \in Heaps /\ Owns(ra, {"out"})
    BY <2>1, ReleaseData
  <2>4. TypeOK'
    BY <2>1, <2>2, <2>3 DEF TypeOK, Stages, Results, Heaps
  <2>5. HeapOK'
    BY <2>1, <2>2, <2>3 DEF HeapOK, CallOK, Buffers, Owns
  <2>6. CallOK'
    BY <2>1, <2>2, <2>3 DEF CallOK, HasOutput, Bin, Refused
  <2>7. ReleasedOnce'
    BY <2>1, <2>2, <2>3 DEF CallOK, HeapOK, ReleasedOnce, Owns, Bin
  <2>8. NoLeak'
    BY <2>1, <2>2, <2>3 DEF CallOK, HeapOK, NoLeak, Returned, Owns, Bin
  <2>9. OutputIsAnswer'
    BY <2>1, <2>2, <2>3 DEF CallOK, OutputIsAnswer, Returned, HasOutput
  <2>10. ErrorTellsExecution'
    BY <2>1, <2>2, <2>3 DEF CallOK, ErrorTellsExecution, Returned, HasOutput
  <2> QED
    BY <2>4, <2>5, <2>6, <2>7, <2>8, <2>9, <2>10
<1>18. CASE CopyType
  <2> USE <1>18 DEF CopyType, Return, NoMemory
  <2> DEFINE r == Release(heap, {"read_data"})
             ra == Alloc(Release(heap, {"read_data"}), "out")
  <2>1. (Owns(heap, {}) \/ Owns(heap, {"read_data"})) /\ heap["read_data"] # "free"
    BY DEF HeapOK
  <2>2. r \in Heaps /\ Owns(r, {})
    BY <2>1, ReleaseData
  <2>3. ra \in Heaps /\ Owns(ra, {"out"})
    BY <2>1, ReleaseData
  <2>4. TypeOK'
    BY <2>1, <2>2, <2>3 DEF TypeOK, Stages, Results, Heaps
  <2>5. HeapOK'
    BY <2>1, <2>2, <2>3 DEF HeapOK, CallOK, Buffers, Owns
  <2>6. CallOK'
    BY <2>1, <2>2, <2>3 DEF CallOK, HasOutput, Bin, Refused
  <2>7. ReleasedOnce'
    BY <2>1, <2>2, <2>3 DEF CallOK, HeapOK, ReleasedOnce, Owns, Bin
  <2>8. NoLeak'
    BY <2>1, <2>2, <2>3 DEF CallOK, HeapOK, NoLeak, Returned, Owns, Bin
  <2>9. OutputIsAnswer'
    BY <2>1, <2>2, <2>3 DEF CallOK, OutputIsAnswer, Returned, HasOutput
  <2>10. ErrorTellsExecution'
    BY <2>1, <2>2, <2>3 DEF CallOK, ErrorTellsExecution, Returned, HasOutput
  <2> QED
    BY <2>4, <2>5, <2>6, <2>7, <2>8, <2>9, <2>10
<1>19. ASSUME NEW p \in Protocols, NEW o \in Writes \cup Reads \cup Controls,
              NEW k \in Counts, NEW ok \in BOOLEAN,
              Begin([proto |-> p, op |-> o, n |-> k, fd_ok |-> ok])
       PROVE  IInv'
  <2> DEFINE c == [proto |-> p, op |-> o, n |-> k, fd_ok |-> ok]
  <2>1. c \in Calls /\ Legal(c) /\ c.op \in Writes \cup Reads \cup Controls
    BY <1>19, CallAssumption DEF Begin, Calls
  <2>2. /\ call' = c /\ heap' = Nothing /\ len' = 0 /\ out' \in {"unset", "NULL"}
        /\ faults' = {} /\ executed' = FALSE
        /\ \/ stage' = First(c.op) /\ ret' = "none"
           \/ stage' = "idle" /\ ret' = "INVALID_PARAMETER"
    BY <1>19 DEF Begin
  <2> HIDE DEF c
  <2>3. /\ First(c.op) \in {"input", "address", "core"}
        /\ First(c.op) \in {"input", "address"} => c.op \notin Controls
    BY <2>1 DEF First, Writes, Reads, Controls
  <2>4. c.op = "read_short" => c.n = 1
    <3>1. c.n \in Nat \ {0}
      BY <2>1 DEF Calls
    <3>2. c.op = "read_short" => ~(c.n > 1)
      BY <2>1 DEF Legal
    <3> QED
      BY <3>1, <3>2
  <2>5. Nothing \in [Buffers -> Conditions] /\ \A b \in Buffers : Nothing[b] = "null"
    BY DEF Nothing, Conditions
  <2>6. TypeOK'
    BY <2>1, <2>2, <2>3, <2>5 DEF TypeOK, Stages, Results
  <2>7. HeapOK'
    BY <2>2, <2>3, <2>5 DEF HeapOK, Owns, Buffers
  <2>8. CallOK'
    BY <2>2, <2>3, <2>4 DEF CallOK
  <2>9. ReleasedOnce'
    BY <2>2, <2>5 DEF ReleasedOnce
  <2>10. NoLeak'
    BY <2>2, <2>5 DEF NoLeak
  <2>11. OutputIsAnswer' /\ ErrorTellsExecution'
    BY <2>2, <2>3 DEF OutputIsAnswer, ErrorTellsExecution, Returned
  <2> QED
    BY <2>6, <2>7, <2>8, <2>9, <2>10, <2>11
<1>20. CASE UNCHANGED vars
  BY <1>20 DEF vars, TypeOK, HeapOK, CallOK, ReleasedOnce, NoLeak, OutputIsAnswer,
     ErrorTellsExecution, Returned, HasOutput, Bin, Refused, Enough, Needed
<1> QED
  BY <1>1, <1>2, <1>3, <1>4, <1>5, <1>6, <1>7, <1>8, <1>9, <1>10, <1>11,
     <1>12, <1>13, <1>14, <1>15, <1>16, <1>17, <1>18, <1>19, <1>20 DEF Next

-----------------------------------------------------------------------------
(* The theorems. *)

\* Whatever the calls, whatever fails and whatever the PLC answers, the
\* variables keep their types.
THEOREM TypeCorrect == Spec => []TypeOK
<1>1. IInv => TypeOK
  BY DEF IInv
<1> QED
  BY <1>1, InitInv, StepInv, PTL DEF Spec

\* For any number of items and any length of a response: the one buffer released
\* twice is the response of a binary call whose payload does not come.
THEOREM ReleasesOnce == Spec => []ReleasedOnce
<1>1. IInv => ReleasedOnce
  BY DEF IInv
<1> QED
  BY <1>1, InitInv, StepInv, PTL DEF Spec

\* A call that returns has released what it allocated and does not hand over,
\* but for the failures and the short responses NoLeak names.
THEOREM NothingLeaks == Spec => []NoLeak
<1>1. IInv => NoLeak
  BY DEF IInv
<1> QED
  BY <1>1, InitInv, StepInv, PTL DEF Spec

\* The caller's variable is given the data of a response that is long enough,
\* but for mc_read_short and for bools there is no memory to unpack.
THEOREM OutputCorrect == Spec => []OutputIsAnswer
<1>1. IInv => OutputIsAnswer
  BY DEF IInv
<1> QED
  BY <1>1, InitInv, StepInv, PTL DEF Spec

\* The result of a call tells whether the PLC has carried its command out, as
\* ErrorTellsExecution says.
THEOREM ResultsTell == Spec => []ErrorTellsExecution
<1>1. IInv => ErrorTellsExecution
  BY DEF IInv
<1> QED
  BY <1>1, InitInv, StepInv, PTL DEF Spec
=============================================================================
