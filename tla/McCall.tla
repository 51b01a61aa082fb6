-------------------------------- MODULE McCall --------------------------------
(***************************************************************************)
(* The life of one API call and of the buffers it allocates.               *)
(*                                                                         *)
(*   read_bool_value ... write_address_data, mc_remote_*, mc_read_plc_type, *)
(*   mc_read_response, mc_read_* and mc_write_*  melsec_mc_bin.c, _batch.c  *)
(*   the same with mc_ascii_execute_raw_command  melsec_mc_ascii.c          *)
(*   build_*_core_command, mc_parse_*_response   melsec_helper.c            *)
(*                                                                         *)
(* A call makes its input buffer, parses the address, builds the core       *)
(* command, packs it, runs the transaction, parses the response and copies  *)
(* the data out; stage says which comes next.  Each malloc may fail and the *)
(* PLC may refuse, garble, shorten or withhold its answer.  What            *)
(* the bytes are is McFrame's subject, how a transaction runs is            *)
(* McTransaction's: here it is one step with its results, among them those  *)
(* McTransaction shows to be misleading, a frame sent in part that the PLC  *)
(* carries out and a response that answers another frame.  Buffers that a   *)
(* helper allocates and frees itself are left out, their failures are not.  *)
(***************************************************************************)
EXTENDS Integers

CONSTANTS
  Protocols, \* of "bin" and "ascii"
  Counts,    \* items callers read or write in one call
  Lengths    \* bytes of data (ASCII bits: characters) a response carries

ASSUME CallAssumption ==
  /\ Protocols \subseteq {"bin", "ascii"}
  /\ Counts \subseteq Nat \ {0}
  /\ Lengths \subseteq Nat

VARIABLES
  call,    \* [proto, op, n, fd_ok]: the call and whether its fd is positive
  stage,   \* what the call does next
  heap,    \* heap[b]: buffer b of this call
  len,     \* length of read_data
  ret,     \* result of the call
  out,     \* what *val holds: "unset" is what it held before the call
  \* history
  faults,  \* what went wrong during the call; "cut": a send stopped part
           \* way, "foreign": the response answers another frame
  executed \* the PLC has carried the command out

vars == <<call, stage, heap, len, ret, out, faults, executed>>

\* write_words: the calls for one number; write_batch: for several words.
Writes == {"write_bits", "write_words", "write_batch", "write_string"}
Reads == {"read_bits", "read_short", "read_words", "read_string"}
Controls == {"remote", "remote_stop", "plc_type"}

Calls == [proto : {"bin", "ascii"}, op : Writes \cup Reads \cup Controls,
          n : Nat \ {0}, fd_ok : BOOLEAN]

Stages == { "idle", "input", "address", "core", "pack", "exchange", "parse",
            "unpack", "copy", "crashed" }

Buffers == {"in_bytes", "core_cmd", "cmd", "response", "read_data", "out"}

\* "null": never allocated; "twice": released a second time.
Conditions == {"null", "live", "free", "twice"}

Results ==
  { "none", "SUCCESS", "FAILED", "INVALID_PARAMETER", "PARSE_ADDRESS_FAILED",
    "BUILD_CORE_CMD_FAILED", "MALLOC_FAILED", "RESPONSE_HEADER_FAILED",
    "SOCKET_SEND_FAILED", "SOCKET_RECV_FAILED", "CONNECTION_CLOSED" }

TypeOK ==
  /\ call \in Calls
  /\ stage \in Stages
  /\ heap \in [Buffers -> Conditions]
  /\ len \in Nat
  /\ ret \in Results
  /\ out \in {"unset", "NULL", "value", "packed", "overrun"}
  /\ faults \subseteq {"memory", "address", "payload", "end_code", "garbled",
                     "cut", "foreign"}
  /\ executed \in BOOLEAN

Nothing == [b \in Buffers |-> "null"]

Init ==
  /\ call = [proto |-> "bin", op |-> "remote", n |-> 1, fd_ok |-> FALSE]
  /\ stage = "idle"
  /\ heap = Nothing
  /\ len = 0
  /\ ret = "none"
  /\ out = "unset"
  /\ faults = {}
  /\ executed = FALSE

-----------------------------------------------------------------------------
(* malloc and RELEASE_DATA, which skips NULL and does not clear its pointer. *)

Alloc(h, b) == [h EXCEPT ![b] = "live"]

Release(h, bs) ==
  [b \in Buffers |->
     CASE b \in bs /\ h[b] = "live" -> "free"
       [] b \in bs /\ h[b] = "free" -> "twice"
       [] OTHER -> h[b]]

Goto(s, h) == stage' = s /\ heap' = h /\ UNCHANGED ret
Return(r, h) == stage' = "idle" /\ heap' = h /\ ret' = r

\* malloc returns NULL, and the code looks or does not look at the result.
NoMemory == faults' = faults \cup {"memory"}
Crash == stage' = "crashed" /\ UNCHANGED <<heap, ret>>

-----------------------------------------------------------------------------
(* The call up to its frame. *)

Bin == call.proto = "bin"

Legal(c) ==
  /\ c.proto \in Protocols /\ c.n \in Counts
  /\ c.n > 1 => c.proto = "bin" /\ c.op \in {"read_bits", "read_words", "write_bits", "write_batch"}
  /\ c.op \in {"write_batch", "remote_stop"} => c.proto = "bin"

First(op) ==
  CASE op \in Writes -> "input"
    [] op \in Reads -> "address"
    [] op \in Controls -> "core"

\* Only mc_remote_stop does not look at its arguments (the ASCII one is a
\* "remote" like the others).  A process that has crashed is started again.
Begin(c) ==
  /\ stage \in {"idle", "crashed"}
  /\ Legal(c)
  /\ call' = c
  /\ heap' = Nothing
  /\ len' = 0
  /\ out' = IF \/ c.op = "plc_type" /\ (c.fd_ok \/ c.proto = "ascii")
               \/ c.op = "read_string" /\ c.fd_ok /\ c.proto = "ascii"
              THEN "NULL" ELSE "unset"
  /\ faults' = {}
  /\ executed' = FALSE
  /\ \/ /\ c.fd_ok \/ c.op = "remote_stop"
        /\ stage' = First(c.op) /\ ret' = "none"
     \/ /\ ~c.fd_ok /\ c.op # "remote_stop"
        /\ stage' = "idle" /\ ret' = "INVALID_PARAMETER"

\* The binary calls that write one number do not look at what malloc returns.
MakeInput ==
  /\ stage = "input"
  /\ \/ Goto("address", Alloc(heap, "in_bytes")) /\ UNCHANGED faults
     \/ /\ NoMemory
        /\ IF Bin /\ call.op = "write_words" THEN Crash
           ELSE Return(IF Bin /\ call.op = "write_string"
                         THEN "BUILD_CORE_CMD_FAILED" ELSE "MALLOC_FAILED", heap)
  /\ UNCHANGED <<call, len, out, executed>>

\* mc_analysis_address refuses an empty string; the binary writes keep the
\* input they were given.
ParseAddress ==
  /\ stage = "address"
  /\ \/ Goto("core", heap) /\ UNCHANGED faults
     \/ /\ faults' = faults \cup {"address"}
        /\ Return("PARSE_ADDRESS_FAILED",
                  IF Bin THEN heap ELSE Release(heap, {"in_bytes"}))
  /\ UNCHANGED <<call, len, out, executed>>

\* Mutated form: the ASCII writes release the input only when all is well.
BuildCoreKeepsInput ==
  /\ stage = "core" /\ call.op \notin Controls
  /\ \/ /\ Goto("pack", Release(Alloc(heap, "core_cmd"), {"in_bytes"}))
        /\ UNCHANGED faults
     \/ NoMemory /\ Return("BUILD_CORE_CMD_FAILED", heap)
  /\ UNCHANGED <<call, len, out, executed>>

\* The word command of the binary library releases its input inside
\* build_write_word_core_command, if it gets its memory; the other writes do it
\* after the builder has returned.  The builders of ASCII data write to what
\* malloc returned without a look, and the ASCII library refuses a negative device
\* number here.
BuildCore ==
  /\ stage = "core" /\ call.op \notin Controls
  /\ \/ /\ Goto("pack", Release(Alloc(heap, "core_cmd"), {"in_bytes"}))
        /\ UNCHANGED faults
     \/ /\ NoMemory
        /\ Return("BUILD_CORE_CMD_FAILED",
                  IF Bin /\ call.op # "write_bits" THEN heap
                  ELSE Release(heap, {"in_bytes"}))
     \/ /\ ~Bin /\ call.op \in Writes
        /\ NoMemory /\ Crash
     \/ /\ ~Bin
        /\ faults' = faults \cup {"address"}
        /\ Return("BUILD_CORE_CMD_FAILED", Release(heap, {"in_bytes"}))
  /\ UNCHANGED <<call, len, out, executed>>

\* The fixed commands; mc_remote_stop copies to what malloc returned.
BuildControl ==
  /\ stage = "core" /\ call.op \in Controls
  /\ \/ Goto("pack", Alloc(heap, "core_cmd")) /\ UNCHANGED faults
     \/ /\ NoMemory
        /\ CASE call.op = "remote_stop" -> Crash
             [] Bin /\ call.op \in {"remote", "plc_type"} -> Return("MALLOC_FAILED", heap)
             [] OTHER -> Return("BUILD_CORE_CMD_FAILED", heap)
  /\ UNCHANGED <<call, len, out, executed>>

\* pack_mc_command, between lock and unlock of g_connection_mutex
\* (mc_remote_stop: without).
Pack ==
  /\ stage = "pack"
  /\ \/ /\ Goto("exchange", Release(Alloc(heap, "cmd"), {"core_cmd"}))
        /\ UNCHANGED faults
     \/ /\ NoMemory
        /\ Return("BUILD_CORE_CMD_FAILED", Release(heap, {"core_cmd"}))
  /\ UNCHANGED <<call, len, out, executed>>

-----------------------------------------------------------------------------
(* The transaction and its results; cmd is released, and so is the response  *)
(* of a transaction that fails, if its pointer is set.                        *)

\* The descriptor is not valid, or no lock is free for it, or the request
\* cannot be sent.  If a part of it was, the PLC may fill it up with what follows
\* on the connection, and carry that out.
NotSent ==
  /\ stage = "exchange"
  /\ \/ /\ ~call.fd_ok /\ Return("INVALID_PARAMETER", Release(heap, {"cmd"}))
        /\ UNCHANGED <<faults, executed>>
     \/ /\ call.fd_ok
        /\ \E r \in {"FAILED", "SOCKET_SEND_FAILED"} : Return(r, Release(heap, {"cmd"}))
        /\ UNCHANGED <<faults, executed>>
     \/ /\ call.fd_ok /\ Return("SOCKET_SEND_FAILED", Release(heap, {"cmd"}))
        /\ faults' = faults \cup {"cut"} /\ executed' \in BOOLEAN
  /\ UNCHANGED <<call, len, out>>

\* The request is sent and its response does not come, or has no sound length,
\* or there is no memory for it.  Whether the PLC has carried the request out
\* remains unknown.
NoResponse ==
  /\ stage = "exchange" /\ call.fd_ok
  /\ executed' \in BOOLEAN
  /\ \/ /\ \E r \in {"SOCKET_RECV_FAILED", "CONNECTION_CLOSED", "RESPONSE_HEADER_FAILED"} :
             Return(r, Release(heap, {"cmd"}))
        /\ UNCHANGED faults
     \/ /\ NoMemory
        /\ Return("MALLOC_FAILED", Release(heap, {"cmd"}))
  /\ UNCHANGED <<call, len, out>>

\* Mutated form: ASCII responses are released by both functions, too.
PayloadLostTwice ==
  /\ stage = "exchange" /\ call.fd_ok
  /\ executed' \in BOOLEAN
  /\ faults' = faults \cup {"payload"}
  /\ \E r \in {"SOCKET_RECV_FAILED", "CONNECTION_CLOSED"} :
       Return(r, Release(Release(Alloc(heap, "response"), {"cmd", "response"}), {"response"}))
  /\ UNCHANGED <<call, len, out>>

\* The header comes and the rest does not.  mc_read_response has allocated the
\* response and releases it; in the binary library response->data still points
\* to it, and the caller releases it again.
PayloadLost ==
  /\ stage = "exchange" /\ call.fd_ok
  /\ executed' \in BOOLEAN
  /\ faults' = faults \cup {"payload"}
  /\ LET released == Release(Alloc(heap, "response"), {"cmd", "response"})
     IN  \E r \in {"SOCKET_RECV_FAILED", "CONNECTION_CLOSED"} :
           Return(r, IF Bin THEN Release(released, {"response"}) ELSE released)
  /\ UNCHANGED <<call, len, out>>

\* A whole response; it may refuse the command (an end code), with data that
\* describe the error.  mc_read_response takes what comes, so that it may as well
\* be the answer to another frame, a late one or one made of parts, which says
\* nothing of this call's command.
Response(n) ==
  /\ stage = "exchange" /\ call.fd_ok
  /\ Goto("parse", Release(Alloc(heap, "response"), {"cmd"}))
  /\ len' = n
  /\ executed' \in BOOLEAN
  /\ \/ executed' /\ UNCHANGED faults
     \/ ~executed' /\ faults' = faults \cup {"end_code"}
     \/ faults' = faults \cup {"foreign"}
     \/ faults' = faults \cup {"foreign", "end_code"}
  /\ UNCHANGED <<call, out>>

-----------------------------------------------------------------------------
(* Parsing. *)

Refused == "end_code" \in faults
HasOutput == call.op \in Reads \cup {"plc_type"}

\* The response is released, whatever parsing gave.
Parsed(result, h) ==
  IF result = "SUCCESS" /\ HasOutput
    THEN Goto(IF Bin /\ call.op = "read_bits" THEN "unpack" ELSE "copy",
              Release(h, {"response"}))
    ELSE Return(result, Release(h, {"response"}))

\* Mutated form: a response of whatever kind is a success.
ParseStatusAny ==
  /\ stage = "parse" /\ ~HasOutput
  /\ Parsed("SUCCESS", heap)
  /\ UNCHANGED <<call, len, out, faults, executed>>

\* mc_parse_write_response and its ASCII twin, for calls that want no data.
ParseStatus ==
  /\ stage = "parse" /\ ~HasOutput
  /\ Parsed(IF Refused THEN "FAILED" ELSE "SUCCESS", heap)
  /\ UNCHANGED <<call, len, out, faults, executed>>

\* mc_parse_read_response copies the data, those of a refusal too, which only
\* mc_read_plc_type releases then; mc_parse_write_response does so
\* if there are more than two bytes.
Copied == IF call.op = "plc_type" THEN len > 2 ELSE len > 0

ParseBin ==
  /\ stage = "parse" /\ HasOutput /\ Bin
  /\ LET result == IF Refused THEN "FAILED" ELSE "SUCCESS"
         kept(h) == IF Refused /\ call.op = "plc_type" THEN Release(h, {"read_data"}) ELSE h
     IN  \/ ~Copied /\ len' = 0 /\ UNCHANGED faults /\ Parsed(result, heap)
         \/ Copied /\ UNCHANGED <<len, faults>> /\ Parsed(result, kept(Alloc(heap, "read_data")))
         \/ Copied /\ NoMemory /\ UNCHANGED len /\ Parsed("MALLOC_FAILED", heap)
  /\ UNCHANGED <<call, out, executed>>

\* mc_ascii_parse_read_response: nothing is allocated for a refusal, and what
\* is not hexadecimal (in a command for bits all is) is given back.
ParseAscii ==
  /\ stage = "parse" /\ HasOutput /\ ~Bin
  /\ \/ Refused /\ UNCHANGED faults /\ Parsed("FAILED", heap)
     \/ ~Refused /\ len = 0 /\ UNCHANGED faults /\ Parsed("SUCCESS", heap)
     \/ /\ ~Refused /\ len > 0 /\ UNCHANGED faults
        /\ Parsed("SUCCESS", Alloc(heap, "read_data"))
     \/ ~Refused /\ len > 0 /\ NoMemory /\ Parsed("MALLOC_FAILED", heap)
     \/ /\ ~Refused /\ len > 0 /\ call.op # "read_bits"
        /\ faults' = faults \cup {"garbled"}
        /\ Parsed("RESPONSE_HEADER_FAILED", Release(Alloc(heap, "read_data"), {"read_data"}))
  /\ UNCHANGED <<call, len, out, executed>>

\* The end code of an ASCII response is not hexadecimal.
EndCodeGarbled ==
  /\ stage = "parse" /\ ~Bin
  /\ faults' = faults \cup {"garbled"}
  /\ Parsed("RESPONSE_HEADER_FAILED", heap)
  /\ UNCHANGED <<call, len, out, executed>>

\* extract_actual_bool_data: two bools of each byte, in a new buffer that takes
\* the place of the old one.  Without memory the packed bytes stay, and nobody
\* is told.
Unpack ==
  /\ stage = "unpack"
  /\ Goto("copy", heap)
  /\ \/ len' = 2 * len /\ UNCHANGED faults
     \/ len > 0 /\ NoMemory /\ UNCHANGED len
  /\ UNCHANGED <<call, out, executed>>

-----------------------------------------------------------------------------
(* The data are copied to the caller, if they are as long as he asked for. *)

Needed == IF call.op = "read_bits" THEN call.n ELSE 2 * call.n

\* Mutated form: any data will do.
EnoughIfAny == len > 0

\* mc_read_short asks for any data at all.
Enough ==
  IF Bin /\ call.op = "read_short" THEN len > 0 ELSE len >= Needed

\* Too short: the call succeeds, *val is not touched and read_data is kept.
CopyNothing ==
  /\ stage = "copy" /\ call.op \in Reads
  /\ ~Enough
  /\ Return("SUCCESS", heap)
  /\ UNCHANGED <<call, len, out, faults, executed>>

\* Mutated form: read_data is released before it is copied.
CopyReleased ==
  /\ stage = "copy" /\ call.op \in Reads \ {"read_string"}
  /\ Enough
  /\ Return("SUCCESS", Release(heap, {"read_data"}))
  /\ out' = "dangling"
  /\ UNCHANGED <<call, len, faults, executed>>

CopyValue ==
  /\ stage = "copy" /\ call.op \in Reads \ {"read_string"}
  /\ Enough
  /\ Return("SUCCESS", Release(heap, {"read_data"}))
  /\ out' = CASE Bin /\ call.op = "read_bits" /\ "memory" \in faults -> "packed"
              [] len < Needed -> "overrun"
              [] OTHER -> "value"
  /\ UNCHANGED <<call, len, faults, executed>>

\* A string goes to a buffer the caller has to free; the binary library keeps the
\* data when there is no memory for it.
CopyString ==
  /\ stage = "copy" /\ call.op = "read_string"
  /\ Enough
  /\ \/ /\ Return("SUCCESS", Alloc(Release(heap, {"read_data"}), "out"))
        /\ out' = "value"
        /\ UNCHANGED faults
     \/ /\ NoMemory
        /\ Return("MALLOC_FAILED", IF Bin THEN heap ELSE Release(heap, {"read_data"}))
        /\ UNCHANGED out
  /\ UNCHANGED <<call, len, executed>>

\* So does the name of the PLC's type, whatever its length.
CopyType ==
  /\ stage = "copy" /\ call.op = "plc_type"
  /\ \/ /\ Return("SUCCESS", Alloc(Release(heap, {"read_data"}), "out"))
        /\ out' = "value"
        /\ UNCHANGED faults
     \/ /\ NoMemory
        /\ Return("MALLOC_FAILED", Release(heap, {"read_data"}))
        /\ UNCHANGED out
  /\ UNCHANGED <<call, len, executed>>

Next ==
  \/ \E p \in Protocols, o \in Writes \cup Reads \cup Controls, k \in Counts, ok \in BOOLEAN :
       Begin([proto |-> p, op |-> o, n |-> k, fd_ok |-> ok])
  \/ MakeInput \/ ParseAddress \/ BuildCore \/ BuildControl \/ Pack
  \/ NotSent \/ NoResponse \/ PayloadLost \/ \E n \in Lengths : Response(n)
  \/ ParseStatus \/ ParseBin \/ ParseAscii \/ EndCodeGarbled \/ Unpack
  \/ CopyNothing \/ CopyValue \/ CopyString \/ CopyType

Spec == Init /\ [][Next]_vars

-----------------------------------------------------------------------------
(* Properties. *)

Returned == stage = "idle" /\ ret # "none"

\* No buffer is released twice, with one exception: the response of a binary
\* call whose payload is lost always is (mc_read_response at melsec_mc_bin.c:948
\* and its caller at :294, :379, :449, :507, ...).  Nothing else that goes wrong
\* in either library, alone or together, ends in a second release.
ReleasedOnce ==
  \A b \in Buffers :
    heap[b] = "twice" <=> b = "response" /\ Bin /\ "payload" \in faults

\* What a call leaves allocated is what it hands to its caller, a string or a
\* type name.  ASCII calls keep this whatever fails, but for a success without
\* value (the response too short); binary calls keep it if besides no memory is
\* short, the address is a sound one and the PLC does not refuse.
NoLeak ==
  Returned /\ (Bin => faults \subseteq {"payload", "garbled", "cut", "foreign"}) =>
    \A b \in Buffers :
      heap[b] = "live" =>
        \/ b = "out" /\ ret = "SUCCESS" /\ out = "value"
        \/ b = "read_data" /\ ret = "SUCCESS" /\ ~Enough

\* The caller's variable is given a value by a success only, by every success
\* but one whose response is too short, and never by bytes that are not there
\* (but for mc_read_short).  Bools still packed, for want of memory, reach him
\* only if he asked for one, whose byte has the same truth value, or if the PLC
\* sends more bytes than the bools he asked for fill.
OutputIsAnswer ==
  Returned =>
    /\ out \notin {"unset", "NULL"} => ret = "SUCCESS" /\ HasOutput
    /\ ret = "SUCCESS" /\ HasOutput /\ out \in {"unset", "NULL"} => len < Needed
    /\ out = "overrun" => Bin /\ call.op = "read_short" /\ len = 1
    /\ out = "packed" => call.n = 1 \/ 2 * len > call.n + 1

\* What a result tells of the command.  A call that ends before its transaction,
\* or dies, has had no effect, whatever else went wrong.  A success was carried
\* out, and a refusal, or a call without a lock, was not, whatever is short or
\* lost, unless the response answers another frame; a request that could not be
\* sent was not either, unless a part of it was.  (MALLOC_FAILED tells nothing:
\* there may be no memory for the response of a command carried out.)
ErrorTellsExecution ==
  /\ stage = "crashed" => ~executed
  /\ Returned =>
       /\ ret \in {"INVALID_PARAMETER", "PARSE_ADDRESS_FAILED", "BUILD_CORE_CMD_FAILED"} =>
            ~executed
       /\ ret = "SOCKET_SEND_FAILED" => ~executed \/ "cut" \in faults
       /\ ret = "FAILED" => ~executed \/ "foreign" \in faults
       /\ ret = "SUCCESS" => executed \/ "foreign" \in faults
=============================================================================
