------------------------------ MODULE MCTxLock ------------------------------
(* A small instance of TxLock: more descriptors than slots. *)
EXTENDS TxLock
=============================================================================
