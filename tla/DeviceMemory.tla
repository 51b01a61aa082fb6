---------------------------- MODULE DeviceMemory ----------------------------
(***************************************************************************)
(* What the read and write calls promise, and nothing of frames: the PLC   *)
(* holds one value per device; a call that succeeds has written exactly    *)
(* the devices its address and length name, or returns exactly what they   *)
(* hold; a call that fails has changed nothing.                            *)
(***************************************************************************)
EXTENDS Integers, Sequences

CONSTANTS Cells,    \* devices of the PLC: <<letters, number>>
          Requests  \* calls: [op, first, n, values] (values of a read: <<>>)

VARIABLES mem,      \* mem[c]: value of device c
          request,  \* the call in progress, or the last one
          outcome   \* [status, values]: "none", "pending", "ok" or "failed"

vars == <<mem, request, outcome>>

Init ==
  /\ mem = [c \in Cells |-> 0]
  /\ request = [op |-> "none"]
  /\ outcome = [status |-> "none", values |-> <<>>]

\* The k-th device of request r.
Device(r, k) == <<r.first[1], r.first[2] + k - 1>>

Ask ==
  /\ outcome.status # "pending"
  /\ request' \in Requests
  /\ outcome' = [status |-> "pending", values |-> <<>>]
  /\ UNCHANGED mem

Read ==
  /\ outcome.status = "pending"
  /\ request.op = "read"
  /\ \A k \in 1 .. request.n : Device(request, k) \in Cells
  /\ outcome' = [status |-> "ok",
                 values |-> [k \in 1 .. request.n |-> mem[Device(request, k)]]]
  /\ UNCHANGED <<mem, request>>

Write ==
  /\ outcome.status = "pending"
  /\ request.op = "write"
  /\ \A k \in 1 .. request.n : Device(request, k) \in Cells
  /\ mem' = [c \in Cells |->
               IF \E k \in 1 .. request.n : c = Device(request, k)
                 THEN request.values[CHOOSE k \in 1 .. request.n : c = Device(request, k)]
                 ELSE mem[c]]
  /\ outcome' = [status |-> "ok", values |-> <<>>]
  /\ UNCHANGED request

Fail ==
  /\ outcome.status = "pending"
  /\ outcome' = [status |-> "failed", values |-> <<>>]
  /\ UNCHANGED <<mem, request>>

Next == Ask \/ Read \/ Write \/ Fail

Spec == Init /\ [][Next]_vars
=============================================================================
