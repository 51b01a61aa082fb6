------------------------------- MODULE MCStress -------------------------------
(* A small instance of Stress: two threads, as many rounds as the cfg says.    *)
EXTENDS Stress, Bitwise

XorOf(a, b) == a ^^ b
=============================================================================
