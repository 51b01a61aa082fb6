------------------------------- MODULE FdLock -------------------------------
(***************************************************************************)
(* What the transaction locks of melsec_mc_bin.c and melsec_mc_ascii.c     *)
(* promise their callers, and nothing of how they do it: a file descriptor *)
(* has at most one owner, a thread owns at most one descriptor, and a      *)
(* descriptor changes hands only by being released first.                  *)
(***************************************************************************)
CONSTANTS Threads,   \* callers of the library
          Fds,       \* descriptors of open or once open connections
          NoThread   \* not in Threads: "nobody owns it"

VARIABLE owner       \* owner[f]: the thread in a transaction on f

Init == owner = [f \in Fds |-> NoThread]

Acquire(t, f) ==
  /\ owner[f] = NoThread
  /\ \A g \in Fds : owner[g] # t
  /\ owner' = [owner EXCEPT ![f] = t]

Release(t, f) ==
  /\ owner[f] = t
  /\ owner' = [owner EXCEPT ![f] = NoThread]

Next == \E t \in Threads, f \in Fds : Acquire(t, f) \/ Release(t, f)

Spec == Init /\ [][Next]_owner
=============================================================================
