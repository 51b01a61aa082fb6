------------------------------- MODULE MCFrame -------------------------------
(* A small instance of McFrame.  A nibble of one bit makes a word of four and *)
(* 64 bits of sixteen: overlapping items of all sizes fit TLC's integers.     *)
EXTENDS McFrame

Address(letters, digits, number) ==
  [letters |-> letters, digits |-> digits, cell |-> <<letters, number>>]

\* "X1A" (hexadecimal) and "D2", "D4" (decimal); the last register is D5, so
\* that long items and batches at D4 are refused.  No device has the letter K.
SmallAddresses ==
  { Address("X", <<1, 10>>, 26), Address("D", <<2>>, 2), Address("D", <<4>>, 4),
    Address("K", <<2>>, 2) }

SmallCells == {<<"X", k>> : k \in 26 .. 28} \cup {<<"D", k>> : k \in 2 .. 5}

Items == [bool |-> {0, 1}, short |-> {-2}, uint32 |-> {200}, int64 |-> {-20000}]
=============================================================================
