------------------------------ MODULE MCConnect ------------------------------
(* Small instances of McConnect: a main thread that connects, as in main.c,  *)
(* and workers that send commands.                                           *)
EXTENDS McConnect
=============================================================================
