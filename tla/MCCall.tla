-------------------------------- MODULE MCCall --------------------------------
(* A small instance of McCall: one and three items, responses of none up to   *)
(* more than enough bytes.                                                    *)
EXTENDS McCall
=============================================================================
