---------------------------- MODULE MCTransaction ----------------------------
(* Small instances of McTransaction.  Threads are interchangeable, which the *)
(* safety runs use; the run with the liveness property does not.             *)
EXTENDS McTransaction, TLC

Perms == Permutations(Threads)
=============================================================================
