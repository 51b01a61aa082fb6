---------------------------- MODULE McFrame_proofs ----------------------------
(***************************************************************************)
(* Proofs about the codec: its types, that legal calls succeed, and that   *)
(* the calls implement the memory of the devices.                          *)
(*                                                                         *)
(* A number is its digits: those of a base are pairs of digits of its      *)
(* square, so that bytes make words and nibbles bytes.  From there, item   *)
(* by item and frame by frame, the words the PLC takes from a request are  *)
(* those of the values, and what a read makes of a response has the words  *)
(* the devices hold.                                                       *)
(***************************************************************************)
EXTENDS McFrame, TLAPS, SequenceTheorems

-----------------------------------------------------------------------------
(* Numbers. *)

\* Quotient and remainder: an arithmetic shift and the digit it drops.
LEMMA DivInt ==
  ASSUME NEW v \in Int, NEW b \in Nat \ {0}
  PROVE  /\ v \div b \in Int
         /\ v % b \in 0 .. b - 1
         /\ v = (v % b) + b * (v \div b)
  OBVIOUS

\* The same, as the parts of a number.
LEMMA Division ==
  ASSUME NEW v \in Int, NEW b \in Nat \ {0}
  PROVE  \E q \in Int, r \in Int : q = v \div b /\ r = v % b /\ v = r + b * q
  BY DivInt

\* They are the only ones.
LEMMA DivMod ==
  ASSUME NEW b \in Nat \ {0}, NEW q \in Int, NEW r \in 0 .. b - 1
  PROVE  (r + b * q) \div b = q /\ (r + b * q) % b = r
<1> DEFINE v == r + b * q
<1>1. v \in Int
  OBVIOUS
<1>2. PICK e \in Int : e = v \div b
  BY <1>1, DivInt
<1>3. PICK m \in 0 .. b - 1 : m = v % b
  BY <1>1, DivInt
<1>4. r + b * q = m + b * e
  BY <1>1, <1>2, <1>3, DivInt
<1>5. b * (q - e) = m - r
  BY <1>4
<1>6. m - r < b /\ m - r > - b
  BY <1>3
<1>7. q = e
  <2>1. CASE q > e
    <3>1. b * (q - e) >= b
      BY <2>1
    <3> QED BY <1>5, <1>6, <3>1
  <2>2. CASE q < e
    <3>1. b * (e - q) >= b
      BY <2>2
    <3>2. b * (q - e) = - (b * (e - q))
      OBVIOUS
    <3> QED BY <1>5, <1>6, <3>1, <3>2
  <2> QED BY <2>1, <2>2
<1>8. m = r
  BY <1>5, <1>7
<1> QED
  BY <1>2, <1>3, <1>7, <1>8

\* The last digit.
LEMMA LowDigit ==
  ASSUME NEW v \in Int, NEW b \in Nat \ {0}
  PROVE  Digit(v, b, 1) = v % b
  BY DEF Digit, Shifts

\* The other digits are those of the shifted number.
LEMMA NextDigit ==
  ASSUME NEW v \in Int, NEW b \in Nat \ {0}
  PROVE  LET q == v \div b
         IN  /\ Digit(v, b, 2) = Digit(q, b, 1) /\ Digit(v, b, 3) = Digit(q, b, 2)
             /\ Digit(v, b, 4) = Digit(q, b, 3) /\ Digit(v, b, 5) = Digit(q, b, 4)
             /\ Digit(v, b, 6) = Digit(q, b, 5) /\ Digit(v, b, 7) = Digit(q, b, 6)
             /\ Digit(v, b, 8) = Digit(q, b, 7)
  BY DEF Digit, Shifts

\* A digit is one.
LEMMA DigitRange ==
  ASSUME NEW v \in Int, NEW b \in Nat \ {0}, NEW k \in 1 .. 8
  PROVE  Digit(v, b, k) \in 0 .. b - 1
<1> DEFINE In(j) == \A u \in Int : Digit(u, b, j) \in 0 .. b - 1
<1>1. In(1)
  BY LowDigit, DivInt
<1>2. In(2)
  BY <1>1, NextDigit, DivInt
<1>3. In(3)
  BY <1>2, NextDigit, DivInt
<1>4. In(4)
  BY <1>3, NextDigit, DivInt
<1>5. In(5)
  BY <1>4, NextDigit, DivInt
<1>6. In(6)
  BY <1>5, NextDigit, DivInt
<1>7. In(7)
  BY <1>6, NextDigit, DivInt
<1>8. In(8)
  BY <1>7, NextDigit, DivInt
<1>9. k \in {1, 2, 3, 4, 5, 6, 7, 8}
  OBVIOUS
<1> QED
  BY <1>1, <1>2, <1>3, <1>4, <1>5, <1>6, <1>7, <1>8, <1>9

\* Products keep the order.
LEMMA ProductOrder ==
  ASSUME NEW b \in Int, NEW s \in Int, b >= 0, s >= 0, s <= b - 1
  PROVE  b * s >= 0 /\ b * s <= b * (b - 1)
  OBVIOUS

\* Products distribute over the sums that make a number of its digits.
LEMMA ThreeDigits ==
  ASSUME NEW b \in Int, NEW p \in Int, NEW r \in Int, NEW s \in Int
  PROVE  r + b * (s + b * p) = (r + b * s) + (b * b) * p
  OBVIOUS

\* Two digits make a digit of the squared base.
LEMMA TwoInRange ==
  ASSUME NEW b \in Nat \ {0}, NEW r \in 0 .. b - 1, NEW s \in 0 .. b - 1
  PROVE  r + b * s \in 0 .. b * b - 1 /\ b * b \in Nat \ {0}
<1>1. b * s >= 0 /\ b * s <= b * (b - 1)
  BY ProductOrder
<1>2. b * (b - 1) = b * b - b
  OBVIOUS
<1>3. b * s \in Int /\ b * b \in Int
  OBVIOUS
<1> QED
  BY <1>1, <1>2, <1>3

\* Two digits are one of the squared base, two shifts one shift of both.
LEMMA TwoDigits ==
  ASSUME NEW v \in Int, NEW b \in Nat \ {0}
  PROVE  /\ v % (b * b) = (v % b) + b * ((v \div b) % b)
         /\ v \div (b * b) = (v \div b) \div b
<1>1. PICK q \in Int, r \in 0 .. b - 1 : q = v \div b /\ r = v % b /\ v = r + b * q
  BY DivInt
<1>2. PICK p \in Int, s \in 0 .. b - 1 : p = q \div b /\ s = q % b /\ q = s + b * p
  BY DivInt
<1>3. r + b * s \in 0 .. b * b - 1 /\ b * b \in Nat \ {0}
  BY TwoInRange
<1>4. v = (r + b * s) + (b * b) * p
  <2>1. v = r + b * (s + b * p)
    BY <1>1, <1>2
  <2> QED
    BY <2>1, ThreeDigits
<1>5. v \div (b * b) = p /\ v % (b * b) = r + b * s
  BY <1>3, <1>4, DivMod
<1> QED
  BY <1>1, <1>2, <1>5

\* Two digits of a base make one of its square, wherever they stand.
LEMMA PairOfDigits ==
  ASSUME NEW v \in Int, NEW b \in Nat \ {0}
  PROVE  /\ Digit(v, b, 1) + b * Digit(v, b, 2) = Digit(v, b * b, 1)
         /\ Digit(v, b, 3) + b * Digit(v, b, 4) = Digit(v, b * b, 2)
         /\ Digit(v, b, 5) + b * Digit(v, b, 6) = Digit(v, b * b, 3)
         /\ Digit(v, b, 7) + b * Digit(v, b, 8) = Digit(v, b * b, 4)
<1>1. b * b \in Nat \ {0}
  BY TwoInRange
<1> DEFINE P(x, y, z) ==
             \A u \in Int : Digit(u, b, x) + b * Digit(u, b, y) = Digit(u, b * b, z)
<1>2. P(1, 2, 1)
  <2> SUFFICES ASSUME NEW u \in Int
               PROVE  Digit(u, b, 1) + b * Digit(u, b, 2) = Digit(u, b * b, 1)
    BY DEF P
  <2>1. PICK q \in Int : q = u \div b
    BY DivInt
  <2>2. Digit(u, b, 1) = u % b
    BY LowDigit
  <2>3. Digit(u, b, 2) = q % b
    <3>1. Digit(u, b, 2) = Digit(q, b, 1)
      BY <2>1, NextDigit
    <3> QED BY <3>1, LowDigit
  <2>4. Digit(u, b * b, 1) = u % (b * b)
    BY <1>1, LowDigit
  <2>5. u % (b * b) = (u % b) + b * (q % b)
    BY <2>1, TwoDigits
  <2> QED
    BY <2>2, <2>3, <2>4, <2>5
<1>3. ASSUME NEW u \in Int
      PROVE  LET q == (u \div b) \div b
             IN  /\ q \in Int
                 /\ Digit(u, b, 3) = Digit(q, b, 1) /\ Digit(u, b, 4) = Digit(q, b, 2)
                 /\ Digit(u, b, 5) = Digit(q, b, 3) /\ Digit(u, b, 6) = Digit(q, b, 4)
                 /\ Digit(u, b, 7) = Digit(q, b, 5) /\ Digit(u, b, 8) = Digit(q, b, 6)
                 /\ Digit(u, b * b, 2) = Digit(q, b * b, 1)
                 /\ Digit(u, b * b, 3) = Digit(q, b * b, 2)
                 /\ Digit(u, b * b, 4) = Digit(q, b * b, 3)
  <2>1. PICK w \in Int : w = u \div b
    BY DivInt
  <2>2. PICK q \in Int : q = w \div b
    BY DivInt
  <2>3. q = u \div (b * b)
    BY <2>1, <2>2, TwoDigits
  <2>4. /\ Digit(u, b, 3) = Digit(w, b, 2) /\ Digit(u, b, 4) = Digit(w, b, 3)
        /\ Digit(u, b, 5) = Digit(w, b, 4) /\ Digit(u, b, 6) = Digit(w, b, 5)
        /\ Digit(u, b, 7) = Digit(w, b, 6) /\ Digit(u, b, 8) = Digit(w, b, 7)
    BY <2>1, NextDigit
  <2>5. /\ Digit(w, b, 2) = Digit(q, b, 1) /\ Digit(w, b, 3) = Digit(q, b, 2)
        /\ Digit(w, b, 4) = Digit(q, b, 3) /\ Digit(w, b, 5) = Digit(q, b, 4)
        /\ Digit(w, b, 6) = Digit(q, b, 5) /\ Digit(w, b, 7) = Digit(q, b, 6)
    BY <2>2, NextDigit
  <2>6. /\ Digit(u, b * b, 2) = Digit(q, b * b, 1)
        /\ Digit(u, b * b, 3) = Digit(q, b * b, 2)
        /\ Digit(u, b * b, 4) = Digit(q, b * b, 3)
    BY <1>1, <2>3, NextDigit
  <2> QED
    BY <2>1, <2>2, <2>4, <2>5, <2>6
<1>4. P(3, 4, 2)
  BY <1>2, <1>3
<1>5. P(5, 6, 3)
  BY <1>3, <1>4
<1>6. P(7, 8, 4)
  BY <1>3, <1>5
<1> QED
  BY <1>2, <1>4, <1>5, <1>6

\* Even numbers have even squares.
LEMMA EvenSquare ==
  ASSUME NEW b \in Nat, b % 2 = 0
  PROVE  (b * b) % 2 = 0
<1>1. PICK h \in Nat : b = 2 * h
  OBVIOUS
<1>2. PICK m \in Nat : m = h * b
  OBVIOUS
<1>3. b * b = 2 * m
  BY <1>1, <1>2
<1> QED
  BY <1>3

\* Bytes and words.
LEMMA Sizes ==
  /\ Nibble \in Nat \ {0} /\ Byte \in Nat \ {0} /\ Word \in Nat \ {0}
  /\ Byte = Nibble * Nibble /\ Word = Byte * Byte
<1>1. Nibble \in Nat \ {0}
  BY FrameAssumption
<1>2. Byte \in Nat \ {0}
  BY <1>1, TwoInRange DEF Byte
<1>3. Word \in Nat \ {0}
  BY <1>2, TwoInRange DEF Word
<1> QED
  BY <1>1, <1>2, <1>3 DEF Byte, Word

-----------------------------------------------------------------------------
(* Items, bytes and the words of devices. *)

\* The two bytes of a word.
LEMMA BytesOfWord ==
  ASSUME NEW w \in 0 .. Word - 1
  PROVE  /\ Digit(w, Byte, 1) \in 0 .. Byte - 1 /\ Digit(w, Byte, 2) \in 0 .. Byte - 1
         /\ Digit(w, Byte, 1) \in Int /\ Digit(w, Byte, 2) \in Int
         /\ Digit(w, Byte, 1) + Byte * Digit(w, Byte, 2) = w
<1>1. w \in Int /\ Byte \in Nat \ {0} /\ Word \in Nat \ {0} /\ Word = Byte * Byte
  BY Sizes
<1>2. PICK x \in 0 .. Byte - 1, y \in 0 .. Byte - 1 :
        x = Digit(w, Byte, 1) /\ y = Digit(w, Byte, 2)
  <2>1. 1 \in 1 .. 8 /\ 2 \in 1 .. 8
    OBVIOUS
  <2> QED
    BY <1>1, <2>1, DigitRange
<1>3. x + Byte * y = Digit(w, Word, 1)
  BY <1>1, <1>2, PairOfDigits
<1>4. Digit(w, Word, 1) = w
  <2>1. w % Word = w
    BY <1>1
  <2> QED
    BY <1>1, <2>1, LowDigit
<1> QED
  BY <1>1, <1>2, <1>3, <1>4

\* The two bytes of a word in front of a number add the word to it.
LEMMA JoinWord ==
  ASSUME NEW w \in 0 .. Word - 1, NEW high \in Int
  PROVE  Digit(w, Byte, 1) + Byte * (Digit(w, Byte, 2) + Byte * high) = w + Word * high
<1>1. Byte \in Nat \ {0} /\ Word \in Nat \ {0} /\ Word = Byte * Byte
  BY Sizes
<1>2. PICK x \in Int, y \in Int :
        x = Digit(w, Byte, 1) /\ y = Digit(w, Byte, 2) /\ x + Byte * y = w
  BY BytesOfWord
<1>3. x + Byte * (y + Byte * high) = (x + Byte * y) + (Byte * Byte) * high
  BY <1>1, ThreeDigits
<1> QED
  BY <1>1, <1>2, <1>3

\* The bytes of b behind the first lo words are those of n words ws.
HoldBytes(b, lo, ws, n) ==
  \A k \in 1 .. n : /\ b[2 * (lo + k) - 1] = Digit(ws[k], Byte, 1)
                    /\ b[2 * (lo + k)] = Digit(ws[k], Byte, 2)

\* The words of the number v are ws, the low word first.
HasWords(v, ws, n) == \A k \in 1 .. n : Digit(v, Word, k) = ws[k]

\* Bytes of words, low byte and low word first, read as a number of any type.
LEMMA WordsBack ==
  ASSUME NEW n \in {1, 2, 4}, NEW ws \in [1 .. n -> 0 .. Word - 1], NEW b,
         NEW type, Len(b) = 2 * n, HoldBytes(b, 0, ws, n)
  PROVE  /\ FromBytes(b, type) \in Int
         /\ HasWords(FromBytes(b, type), ws, n)
<1>1. Byte \in Nat \ {0} /\ Word \in Nat \ {0}
  BY Sizes
<1>2. PICK sign \in Int :
        sign = IF type \in Signed /\ b[Len(b)] >= Byte \div 2 THEN -1 ELSE 0
  OBVIOUS
<1> DEFINE Two(k, high) == b[k] + Byte * (b[k + 1] + Byte * high)
           After(w, high) == w + Word * high
<1>3. ASSUME NEW k \in 1 .. n, NEW high \in Int
      PROVE  Two(2 * k - 1, high) = After(ws[k], high) /\ Two(2 * k - 1, high) \in Int
  <2>1. ws[k] \in 0 .. Word - 1
    OBVIOUS
  <2>2. PICK x \in Int, y \in Int : /\ x = b[2 * k - 1] /\ x = Digit(ws[k], Byte, 1)
                                    /\ y = b[2 * k] /\ y = Digit(ws[k], Byte, 2)
    BY <2>1, BytesOfWord DEF HoldBytes
  <2>3. (2 * k - 1) + 1 = 2 * k
    OBVIOUS
  <2>4. x + Byte * (y + Byte * high) = After(ws[k], high)
    BY <2>1, <2>2, JoinWord
  <2>5. x + Byte * (y + Byte * high) \in Int
    BY <1>1
  <2> QED
    BY <2>2, <2>3, <2>4, <2>5
<1>4. ASSUME NEW k \in 1 .. n, NEW q \in Int, NEW v \in Int, v = After(ws[k], q)
      PROVE  /\ Digit(v, Word, 1) = ws[k] /\ Digit(v, Word, 2) = Digit(q, Word, 1)
             /\ Digit(v, Word, 3) = Digit(q, Word, 2) /\ Digit(v, Word, 4) = Digit(q, Word, 3)
  <2>1. PICK base \in Nat \ {0} : base = Word
    BY <1>1
  <2>2. PICK r \in 0 .. base - 1 : r = ws[k]
    BY <2>1
  <2>3. (r + base * q) \div base = q /\ (r + base * q) % base = r
    BY DivMod
  <2>4. v \div base = q /\ v % base = r
    BY <1>4, <2>1, <2>2, <2>3
  <2> QED
    BY <2>1, <2>2, <2>4, LowDigit, NextDigit
<1> HIDE DEF After
<1>5. CASE n = 1
  <2>1. FromBytes(b, type) = Two(1, sign)
    BY <1>2, <1>5 DEF FromBytes
  <2>2. PICK v \in Int : v = Two(1, sign) /\ v = After(ws[1], sign)
    BY <1>3, <1>5
  <2>3. Digit(v, Word, 1) = ws[1]
    BY <1>4, <1>5, <2>2
  <2> QED
    BY <1>5, <2>1, <2>2, <2>3 DEF HasWords
<1>6. CASE n = 2
  <2>1. FromBytes(b, type) = Two(1, Two(3, sign))
    BY <1>2, <1>6 DEF FromBytes
  <2>2. PICK q \in Int : q = Two(3, sign) /\ q = After(ws[2], sign)
    BY <1>3, <1>6
  <2>3. PICK v \in Int : v = Two(1, q) /\ v = After(ws[1], q)
    BY <1>3, <1>6
  <2>4. Digit(v, Word, 1) = ws[1] /\ Digit(v, Word, 2) = Digit(q, Word, 1)
    BY <1>4, <1>6, <2>3
  <2>5. Digit(q, Word, 1) = ws[2]
    BY <1>4, <1>6, <2>2
  <2> QED
    BY <1>6, <2>1, <2>2, <2>3, <2>4, <2>5 DEF HasWords
<1>7. CASE n = 4
  <2>1. FromBytes(b, type) = Two(1, Two(3, Two(5, Two(7, sign))))
    BY <1>2, <1>7 DEF FromBytes
  <2>2. PICK o \in Int : o = Two(7, sign) /\ o = After(ws[4], sign)
    BY <1>3, <1>7
  <2>3. PICK p \in Int : p = Two(5, o) /\ p = After(ws[3], o)
    BY <1>3, <1>7
  <2>4. PICK q \in Int : q = Two(3, p) /\ q = After(ws[2], p)
    BY <1>3, <1>7
  <2>5. PICK v \in Int : v = Two(1, q) /\ v = After(ws[1], q)
    BY <1>3, <1>7
  <2>6. Digit(o, Word, 1) = ws[4]
    BY <1>4, <1>7, <2>2
  <2>7. Digit(p, Word, 1) = ws[3] /\ Digit(p, Word, 2) = Digit(o, Word, 1)
    BY <1>4, <1>7, <2>3
  <2>8. /\ Digit(q, Word, 1) = ws[2] /\ Digit(q, Word, 2) = Digit(p, Word, 1)
        /\ Digit(q, Word, 3) = Digit(p, Word, 2)
    BY <1>4, <1>7, <2>4
  <2>9. /\ Digit(v, Word, 1) = ws[1] /\ Digit(v, Word, 2) = Digit(q, Word, 1)
        /\ Digit(v, Word, 3) = Digit(q, Word, 2) /\ Digit(v, Word, 4) = Digit(q, Word, 3)
    BY <1>4, <1>7, <2>5
  <2>10. \A k \in 1 .. n : Digit(v, Word, k) = ws[k]
    <3>1. \A k \in 1 .. n : k \in {1, 2, 3, 4}
      BY <1>7
    <3> QED BY <2>6, <2>7, <2>8, <2>9, <3>1
  <2> QED
    BY <2>1, <2>2, <2>3, <2>4, <2>5, <2>10 DEF HasWords
<1> QED
  BY <1>5, <1>6, <1>7

\* Items have one, two or four words.
LEMMA WordsOfTypes ==
  /\ \A type \in DOMAIN Words : Words[type] \in {1, 2, 4}
  /\ "bool" \notin DOMAIN Words
  BY DEF Words

\* What is above the first bytes of a number are those of the shifted one.
LEMMA Above ==
  ASSUME NEW v \in Int, NEW b \in Nat \ {0}
  PROVE  LET q == v \div b
         IN  /\ Shifts(v, b)[1] = v
             /\ Shifts(v, b)[2] = Shifts(q, b)[1] /\ Shifts(v, b)[3] = Shifts(q, b)[2]
             /\ Shifts(v, b)[4] = Shifts(q, b)[3] /\ Shifts(v, b)[5] = Shifts(q, b)[4]
             /\ Shifts(v, b)[6] = Shifts(q, b)[5] /\ Shifts(v, b)[7] = Shifts(q, b)[6]
             /\ Shifts(v, b)[8] = Shifts(q, b)[7]
  BY DEF Shifts

\* Bytes, read as a number of a type, give one that the type has.
LEMMA TopByte ==
  ASSUME NEW type \in DOMAIN Words, NEW b, Len(b) = 2 * Words[type],
         \A k \in 1 .. 2 * Words[type] : b[k] \in 0 .. Byte - 1
  PROVE  InRange(FromBytes(b, type), type)
<1>1. PICK base \in Nat \ {0} : base = Byte /\ base % 2 = 0
  BY FrameAssumption, Sizes, EvenSquare
<1>2. PICK n \in {1, 2, 4} : n = Words[type]
  BY WordsOfTypes
<1>3. PICK sign \in {-1, 0} :
        sign = IF type \in Signed /\ b[Len(b)] >= Byte \div 2 THEN -1 ELSE 0
  OBVIOUS
<1>4. PICK x \in 0 .. base - 1 : x = b[2 * n] /\ b[Len(b)] = x
  BY <1>1, <1>2
<1>5. PICK top \in Int : top = x + base * sign
  OBVIOUS
<1>6. top \in IF type \in Signed THEN -(Byte \div 2) .. Byte \div 2 - 1 ELSE 0 .. Byte - 1
  <2>1. CASE type \in Signed /\ x >= base \div 2
    <3>1. sign = -1
      BY <1>1, <1>3, <1>4, <2>1
    <3>2. top \in -(base \div 2) .. base \div 2 - 1
      BY <1>1, <1>5, <2>1, <3>1
    <3> QED
      BY <1>1, <2>1, <3>2
  <2>2. CASE type \in Signed /\ ~(x >= base \div 2)
    <3>1. sign = 0
      BY <1>1, <1>3, <1>4, <2>2
    <3>2. top \in -(base \div 2) .. base \div 2 - 1
      BY <1>1, <1>5, <2>2, <3>1
    <3> QED
      BY <1>1, <2>2, <3>2
  <2>3. CASE type \notin Signed
    BY <1>1, <1>3, <1>5, <2>3
  <2> QED
    BY <2>1, <2>2, <2>3
<1> DEFINE Low(k, high) == b[k] + Byte * high
           Over(v, q) == /\ Shifts(v, Byte)[1] = v /\ Shifts(v, Byte)[2] = Shifts(q, Byte)[1]
                         /\ Shifts(v, Byte)[3] = Shifts(q, Byte)[2]
                         /\ Shifts(v, Byte)[4] = Shifts(q, Byte)[3]
                         /\ Shifts(v, Byte)[5] = Shifts(q, Byte)[4]
                         /\ Shifts(v, Byte)[6] = Shifts(q, Byte)[5]
                         /\ Shifts(v, Byte)[7] = Shifts(q, Byte)[6]
                         /\ Shifts(v, Byte)[8] = Shifts(q, Byte)[7]
<1>7. ASSUME NEW k \in 1 .. 2 * n, NEW q \in Int
      PROVE  \E v \in Int : v = Low(k, q) /\ Over(v, q)
  <2>1. PICK y \in 0 .. base - 1 : y = b[k]
    BY <1>1, <1>2
  <2>2. PICK v \in Int : v = y + base * q
    OBVIOUS
  <2>3. (y + base * q) \div base = q
    BY DivMod
  <2>4. q = v \div base
    BY <2>2, <2>3
  <2>5. v = Low(k, q)
    BY <1>1, <2>1, <2>2
  <2>6. /\ Shifts(v, base)[1] = v /\ Shifts(v, base)[2] = Shifts(q, base)[1]
        /\ Shifts(v, base)[3] = Shifts(q, base)[2] /\ Shifts(v, base)[4] = Shifts(q, base)[3]
        /\ Shifts(v, base)[5] = Shifts(q, base)[4] /\ Shifts(v, base)[6] = Shifts(q, base)[5]
        /\ Shifts(v, base)[7] = Shifts(q, base)[6] /\ Shifts(v, base)[8] = Shifts(q, base)[7]
    BY <2>4, Above
  <2>7. Over(v, q)
    BY <1>1, <2>6
  <2> HIDE DEF Low, Over
  <2> QED
    BY <2>5, <2>7
<1>8. ASSUME Shifts(FromBytes(b, type), Byte)[2 * n] = top
      PROVE  InRange(FromBytes(b, type), type)
  BY <1>2, <1>6, <1>8 DEF InRange
<1>9. Shifts(top, Byte)[1] = top
  BY DEF Shifts
<1>10. CASE n = 1
  <2>1. FromBytes(b, type) = Low(1, top)
    BY <1>1, <1>2, <1>3, <1>4, <1>5, <1>10 DEF FromBytes
  <2> HIDE DEF Low, Over
  <2>2. 1 \in 1 .. 2 * n
    BY <1>10
  <2>3. PICK q1 \in Int : q1 = Low(1, top) /\ Over(q1, top)
    BY ONLY <1>7, <2>2, top \in Int, Zenon
  <2>4. Shifts(q1, Byte)[2] = top
    BY <1>9, <2>3 DEF Over
  <2> QED
    BY <1>8, <1>10, <2>1, <2>3, <2>4
<1>11. CASE n = 2
  <2>1. FromBytes(b, type) = Low(1, Low(2, Low(3, top)))
    BY <1>1, <1>2, <1>3, <1>4, <1>5, <1>11 DEF FromBytes
  <2> HIDE DEF Low, Over
  <2>2. 1 \in 1 .. 2 * n /\ 2 \in 1 .. 2 * n /\ 3 \in 1 .. 2 * n
    BY <1>11
  <2>3. PICK q3 \in Int : q3 = Low(3, top) /\ Over(q3, top)
    BY ONLY <1>7, <2>2, top \in Int, Zenon
  <2>4. PICK q2 \in Int : q2 = Low(2, q3) /\ Over(q2, q3)
    BY ONLY <1>7, <2>2, q3 \in Int, Zenon
  <2>5. PICK q1 \in Int : q1 = Low(1, q2) /\ Over(q1, q2)
    BY ONLY <1>7, <2>2, q2 \in Int, Zenon
  <2>6. Shifts(q1, Byte)[4] = top
    BY <1>9, <2>3, <2>4, <2>5 DEF Over
  <2> QED
    BY <1>8, <1>11, <2>1, <2>3, <2>4, <2>5, <2>6
<1>12. CASE n = 4
  <2>1. FromBytes(b, type) = Low(1, Low(2, Low(3, Low(4, Low(5, Low(6, Low(7, top)))))))
    BY <1>1, <1>2, <1>3, <1>4, <1>5, <1>12 DEF FromBytes
  <2> HIDE DEF Low, Over
  <2>2. /\ 1 \in 1 .. 2 * n /\ 2 \in 1 .. 2 * n /\ 3 \in 1 .. 2 * n /\ 4 \in 1 .. 2 * n
        /\ 5 \in 1 .. 2 * n /\ 6 \in 1 .. 2 * n /\ 7 \in 1 .. 2 * n
    BY <1>12
  <2>3. PICK q7 \in Int : q7 = Low(7, top) /\ Over(q7, top)
    BY ONLY <1>7, <2>2, top \in Int, Zenon
  <2>4. PICK q6 \in Int : q6 = Low(6, q7) /\ Over(q6, q7)
    BY ONLY <1>7, <2>2, q7 \in Int, Zenon
  <2>5. PICK q5 \in Int : q5 = Low(5, q6) /\ Over(q5, q6)
    BY ONLY <1>7, <2>2, q6 \in Int, Zenon
  <2>6. PICK q4 \in Int : q4 = Low(4, q5) /\ Over(q4, q5)
    BY ONLY <1>7, <2>2, q5 \in Int, Zenon
  <2>7. PICK q3 \in Int : q3 = Low(3, q4) /\ Over(q3, q4)
    BY ONLY <1>7, <2>2, q4 \in Int, Zenon
  <2>8. PICK q2 \in Int : q2 = Low(2, q3) /\ Over(q2, q3)
    BY ONLY <1>7, <2>2, q3 \in Int, Zenon
  <2>9. PICK q1 \in Int : q1 = Low(1, q2) /\ Over(q1, q2)
    BY ONLY <1>7, <2>2, q2 \in Int, Zenon
  <2>10. Shifts(q1, Byte)[8] = top
    <3>1. Shifts(q7, Byte)[2] = top
      BY <1>9, <2>3 DEF Over
    <3>2. Shifts(q6, Byte)[3] = top
      BY <2>4, <3>1 DEF Over
    <3>3. Shifts(q5, Byte)[4] = top
      BY <2>5, <3>2 DEF Over
    <3>4. Shifts(q4, Byte)[5] = top
      BY <2>6, <3>3 DEF Over
    <3>5. Shifts(q3, Byte)[6] = top
      BY <2>7, <3>4 DEF Over
    <3>6. Shifts(q2, Byte)[7] = top
      BY <2>8, <3>5 DEF Over
    <3> QED
      BY <2>9, <3>6 DEF Over
  <2> QED
    BY <1>8, <1>12, <2>1, <2>3, <2>4, <2>5, <2>6, <2>7, <2>8, <2>9, <2>10
<1> QED
  BY <1>2, <1>10, <1>11, <1>12

\* Every number of a type comes back from its bytes.
LEMMA NumberBack ==
  ASSUME NEW type \in DOMAIN Words, NEW v \in Int, InRange(v, type)
  PROVE  FromBytes(ToBytes(v, 2 * Words[type]), type) = v
<1>1. PICK base \in Nat \ {0} : base = Byte /\ base % 2 = 0
  BY FrameAssumption, Sizes, EvenSquare
<1>2. PICK n \in {1, 2, 4} : n = Words[type]
  BY WordsOfTypes
<1>3. PICK b : b = ToBytes(v, 2 * n)
  OBVIOUS
<1>4. b = [k \in 1 .. 2 * n |-> Digit(v, base, k)]
  BY <1>1, <1>3 DEF ToBytes
<1>5. Len(b) = 2 * n
  <2>1. \A k \in 1 .. 8 : Digit(v, base, k) \in 0 .. base - 1
    BY DigitRange
  <2>2. \A k \in 1 .. 2 * n : Digit(v, base, k) \in Int
    BY <2>1
  <2>3. b \in [1 .. 2 * n -> Int]
    BY <1>4, <2>2
  <2>4. b \in Seq(Int)
    BY <2>3
  <2> QED
    BY <2>3, <2>4, LenProperties
<1> DEFINE s(k) == Shifts(v, base)[k]
<1>6. /\ s(1) = v /\ s(1) \in Int /\ s(2) \in Int /\ s(3) \in Int /\ s(4) \in Int
      /\ s(5) \in Int /\ s(6) \in Int /\ s(7) \in Int /\ s(8) \in Int
  BY DivInt DEF Shifts
<1>7. /\ s(2) = s(1) \div base /\ s(3) = s(2) \div base /\ s(4) = s(3) \div base
      /\ s(5) = s(4) \div base /\ s(6) = s(5) \div base /\ s(7) = s(6) \div base
      /\ s(8) = s(7) \div base
  BY DEF Shifts
<1>8. \A k \in 1 .. 2 * n : b[k] = s(k) % base
  BY <1>4 DEF Digit
<1> HIDE DEF s
<1>9. ASSUME NEW x \in Int, NEW q \in Int, q = x \div base
      PROVE  (x % base) + base * q = x
  BY <1>9, Division
<1>10. PICK top \in Int : top = s(2 * n)
  BY <1>6
<1>11. top \in IF type \in Signed THEN -(base \div 2) .. base \div 2 - 1 ELSE 0 .. base - 1
  BY <1>1, <1>2, <1>10 DEF InRange, s
<1>12. b[2 * n] = top % base
  BY <1>8, <1>10
<1>13. PICK sign \in {-1, 0} :
         sign = IF type \in Signed /\ b[Len(b)] >= Byte \div 2 THEN -1 ELSE 0
  OBVIOUS
<1>14. b[2 * n] + base * sign = top
  <2>1. CASE top >= 0
    <3>1. top \in 0 .. base - 1 /\ top % base = top
      BY <1>1, <1>11, <2>1
    <3>2. type \in Signed => top < base \div 2
      BY <1>11
    <3>3. sign = 0
      BY <1>1, <1>5, <1>12, <1>13, <3>1, <3>2
    <3> QED
      BY <1>12, <3>1, <3>3
  <2>2. CASE top < 0
    <3>1. type \in Signed /\ top \in -(base \div 2) .. -1
      BY <1>11, <2>2
    <3>2. top % base = top + base
      BY <1>1, <3>1
    <3>3. top + base >= base \div 2
      BY <1>1, <3>1
    <3>4. sign = -1
      BY <1>1, <1>5, <1>12, <1>13, <3>1, <3>2, <3>3
    <3> QED
      BY <1>12, <3>2, <3>4
  <2> QED
    BY <2>1, <2>2
<1> DEFINE Low(k, high) == b[k] + Byte * high
<1>15. Low(2 * n, sign) = top
  BY <1>1, <1>14
<1> HIDE DEF Low
<1>16. ASSUME NEW k \in 1 .. 7, k \in 1 .. 2 * n, NEW x \in Int, NEW q \in Int,
              x = s(k), q = x \div base
       PROVE  Low(k, q) = x
  <2>1. b[k] = x % base
    BY <1>8, <1>16
  <2>2. (x % base) + base * q = x
    BY <1>9, <1>16
  <2> QED
    BY <1>1, <2>1, <2>2 DEF Low
<1>17. CASE n = 1
  <2>1. FromBytes(b, type)
          = Low(1, Low(2, sign))
    BY <1>1, <1>5, <1>13, <1>17 DEF FromBytes, Low
  <2>2. Low(1, s(2)) = s(1)
    BY <1>6, <1>7, <1>16, <1>17
  <2>3. Low(2, sign) = s(2)
    BY <1>10, <1>15, <1>17
  <2> QED
    BY <1>2, <1>3, <1>6, <1>17, <2>1, <2>2, <2>3
<1>18. CASE n = 2
  <2>1. FromBytes(b, type)
          = Low(1, Low(2, Low(3, Low(4, sign))))
    BY <1>1, <1>5, <1>13, <1>18 DEF FromBytes, Low
  <2>2. Low(1, s(2)) = s(1)
    BY <1>6, <1>7, <1>16, <1>18
  <2>3. Low(2, s(3)) = s(2)
    BY <1>6, <1>7, <1>16, <1>18
  <2>4. Low(3, s(4)) = s(3)
    BY <1>6, <1>7, <1>16, <1>18
  <2>5. Low(4, sign) = s(4)
    BY <1>10, <1>15, <1>18
  <2> QED
    BY <1>2, <1>3, <1>6, <1>18, <2>1, <2>2, <2>3, <2>4, <2>5
<1>19. CASE n = 4
  <2>1. FromBytes(b, type)
          = Low(1, Low(2, Low(3, Low(4, Low(5, Low(6, Low(7, Low(8, sign))))))))
    BY <1>1, <1>5, <1>13, <1>19 DEF FromBytes, Low
  <2>2. Low(1, s(2)) = s(1)
    BY <1>6, <1>7, <1>16, <1>19
  <2>3. Low(2, s(3)) = s(2)
    BY <1>6, <1>7, <1>16, <1>19
  <2>4. Low(3, s(4)) = s(3)
    BY <1>6, <1>7, <1>16, <1>19
  <2>5. Low(4, s(5)) = s(4)
    BY <1>6, <1>7, <1>16, <1>19
  <2>6. Low(5, s(6)) = s(5)
    BY <1>6, <1>7, <1>16, <1>19
  <2>7. Low(6, s(7)) = s(6)
    BY <1>6, <1>7, <1>16, <1>19
  <2>8. Low(7, s(8)) = s(7)
    BY <1>6, <1>7, <1>16, <1>19
  <2>9. Low(8, sign) = s(8)
    BY <1>10, <1>15, <1>19
  <2> QED
    BY <1>2, <1>3, <1>6, <1>19, <2>1, <2>2, <2>3, <2>4, <2>5, <2>6, <2>7, <2>8, <2>9
<1> QED
  BY <1>2, <1>17, <1>18, <1>19

\* Numbers of a type that have the same words are the same.
LEMMA SameWords ==
  ASSUME NEW type \in DOMAIN Words, NEW v \in Int, InRange(v, type),
         NEW u \in Int, InRange(u, type),
         \A j \in 1 .. Words[type] : Digit(v, Word, j) = Digit(u, Word, j)
  PROVE  v = u
<1>1. PICK n \in {1, 2, 4} : n = Words[type]
  BY WordsOfTypes
<1>2. PICK base \in Nat \ {0} : base = Byte /\ Word = base * base
  BY Sizes
<1>3. ASSUME NEW x \in 0 .. base - 1, NEW y \in 0 .. base - 1,
             NEW r \in 0 .. base - 1, NEW s \in 0 .. base - 1,
             x + base * y = r + base * s
      PROVE  x = r /\ y = s
  <2>1. /\ (x + base * y) \div base = y /\ (x + base * y) % base = x
        /\ (r + base * s) \div base = s /\ (r + base * s) % base = r
    BY DivMod
  <2> QED
    BY <1>3, <2>1
<1> DEFINE Same(k) == Digit(v, base, k) = Digit(u, base, k)
<1>4. \A k \in 1 .. 8 : /\ Digit(v, base, k) \in 0 .. base - 1
                        /\ Digit(u, base, k) \in 0 .. base - 1
  BY DigitRange
<1>5. n >= 1 => Same(1) /\ Same(2)
  <2> SUFFICES ASSUME n >= 1
               PROVE  Same(1) /\ Same(2)
    OBVIOUS
  <2>1. Digit(v, Word, 1) = Digit(u, Word, 1)
    BY <1>1
  <2>2. /\ Digit(v, base, 1) + base * Digit(v, base, 2) = Digit(v, Word, 1)
        /\ Digit(u, base, 1) + base * Digit(u, base, 2) = Digit(u, Word, 1)
    BY <1>2, PairOfDigits
  <2>3. PICK x1 \in 0 .. base - 1, y1 \in 0 .. base - 1 :
          x1 = Digit(v, base, 1) /\ y1 = Digit(v, base, 2)
    BY <1>4
  <2>4. PICK x2 \in 0 .. base - 1, y2 \in 0 .. base - 1 :
          x2 = Digit(u, base, 1) /\ y2 = Digit(u, base, 2)
    BY <1>4
  <2>5. x1 + base * y1 = x2 + base * y2
    BY <2>1, <2>2, <2>3, <2>4
  <2>6. x1 = x2 /\ y1 = y2
    BY ONLY <1>3, <2>5, x1 \in 0 .. base - 1, y1 \in 0 .. base - 1,
            x2 \in 0 .. base - 1, y2 \in 0 .. base - 1, ZenonT(60)
  <2> QED
    BY <2>3, <2>4, <2>6
<1>6. n >= 2 => Same(3) /\ Same(4)
  <2> SUFFICES ASSUME n >= 2
               PROVE  Same(3) /\ Same(4)
    OBVIOUS
  <2>1. Digit(v, Word, 2) = Digit(u, Word, 2)
    BY <1>1
  <2>2. /\ Digit(v, base, 3) + base * Digit(v, base, 4) = Digit(v, Word, 2)
        /\ Digit(u, base, 3) + base * Digit(u, base, 4) = Digit(u, Word, 2)
    BY <1>2, PairOfDigits
  <2>3. PICK x1 \in 0 .. base - 1, y1 \in 0 .. base - 1 :
          x1 = Digit(v, base, 3) /\ y1 = Digit(v, base, 4)
    BY <1>4
  <2>4. PICK x2 \in 0 .. base - 1, y2 \in 0 .. base - 1 :
          x2 = Digit(u, base, 3) /\ y2 = Digit(u, base, 4)
    BY <1>4
  <2>5. x1 + base * y1 = x2 + base * y2
    BY <2>1, <2>2, <2>3, <2>4
  <2>6. x1 = x2 /\ y1 = y2
    BY ONLY <1>3, <2>5, x1 \in 0 .. base - 1, y1 \in 0 .. base - 1,
            x2 \in 0 .. base - 1, y2 \in 0 .. base - 1, ZenonT(60)
  <2> QED
    BY <2>3, <2>4, <2>6
<1>7. n = 4 => Same(5) /\ Same(6)
  <2> SUFFICES ASSUME n = 4
               PROVE  Same(5) /\ Same(6)
    OBVIOUS
  <2>1. Digit(v, Word, 3) = Digit(u, Word, 3)
    BY <1>1
  <2>2. /\ Digit(v, base, 5) + base * Digit(v, base, 6) = Digit(v, Word, 3)
        /\ Digit(u, base, 5) + base * Digit(u, base, 6) = Digit(u, Word, 3)
    BY <1>2, PairOfDigits
  <2>3. PICK x1 \in 0 .. base - 1, y1 \in 0 .. base - 1 :
          x1 = Digit(v, base, 5) /\ y1 = Digit(v, base, 6)
    BY <1>4
  <2>4. PICK x2 \in 0 .. base - 1, y2 \in 0 .. base - 1 :
          x2 = Digit(u, base, 5) /\ y2 = Digit(u, base, 6)
    BY <1>4
  <2>5. x1 + base * y1 = x2 + base * y2
    BY <2>1, <2>2, <2>3, <2>4
  <2>6. x1 = x2 /\ y1 = y2
    BY ONLY <1>3, <2>5, x1 \in 0 .. base - 1, y1 \in 0 .. base - 1,
            x2 \in 0 .. base - 1, y2 \in 0 .. base - 1, ZenonT(60)
  <2> QED
    BY <2>3, <2>4, <2>6
<1>8. n = 4 => Same(7) /\ Same(8)
  <2> SUFFICES ASSUME n = 4
               PROVE  Same(7) /\ Same(8)
    OBVIOUS
  <2>1. Digit(v, Word, 4) = Digit(u, Word, 4)
    BY <1>1
  <2>2. /\ Digit(v, base, 7) + base * Digit(v, base, 8) = Digit(v, Word, 4)
        /\ Digit(u, base, 7) + base * Digit(u, base, 8) = Digit(u, Word, 4)
    BY <1>2, PairOfDigits
  <2>3. PICK x1 \in 0 .. base - 1, y1 \in 0 .. base - 1 :
          x1 = Digit(v, base, 7) /\ y1 = Digit(v, base, 8)
    BY <1>4
  <2>4. PICK x2 \in 0 .. base - 1, y2 \in 0 .. base - 1 :
          x2 = Digit(u, base, 7) /\ y2 = Digit(u, base, 8)
    BY <1>4
  <2>5. x1 + base * y1 = x2 + base * y2
    BY <2>1, <2>2, <2>3, <2>4
  <2>6. x1 = x2 /\ y1 = y2
    BY ONLY <1>3, <2>5, x1 \in 0 .. base - 1, y1 \in 0 .. base - 1,
            x2 \in 0 .. base - 1, y2 \in 0 .. base - 1, ZenonT(60)
  <2> QED
    BY <2>3, <2>4, <2>6
<1>9. \A k \in 1 .. 2 * n : Digit(v, Byte, k) = Digit(u, Byte, k)
  <2>1. \A k \in 1 .. 2 * n :
          k \in {1, 2} \/ (n >= 2 /\ k \in {3, 4}) \/ (n = 4 /\ k \in {5, 6, 7, 8})
    OBVIOUS
  <2> QED
    BY <1>2, <1>5, <1>6, <1>7, <1>8, <2>1
<1>10. ToBytes(v, 2 * n) = ToBytes(u, 2 * n)
  BY <1>9 DEF ToBytes
<1> QED
  BY <1>1, <1>10, NumberBack

\* A piece of a sequence.
LEMMA Piece ==
  ASSUME NEW b, NEW lo \in Int, NEW size \in Nat \ {0}, NEW hi \in Int, hi = lo + size,
         \A m \in lo + 1 .. hi : b[m] \in Int
  PROVE  /\ Len(SubSeq(b, lo + 1, hi)) = size
         /\ \A m \in 1 .. size : SubSeq(b, lo + 1, hi)[m] = b[lo + m]
<1>1. PICK from \in Int : from = lo + 1
  OBVIOUS
<1>2. /\ Len(SubSeq(b, from, hi)) = IF from <= hi THEN hi - from + 1 ELSE 0
      /\ \A i \in 1 .. hi - from + 1 : SubSeq(b, from, hi)[i] = b[from + i - 1]
  BY <1>1, SubSeqProperties
<1>3. hi - from + 1 = size /\ from <= hi /\ \A m \in Int : from + m - 1 = lo + m
  BY <1>1
<1> QED
  BY <1>1, <1>2, <1>3

\* The bytes of one item among others.
LEMMA ItemAt ==
  ASSUME NEW type \in DOMAIN Words, NEW w \in {1, 2, 4}, w = Words[type],
         NEW lo \in Nat, NEW b,
         NEW ws \in [1 .. w -> 0 .. Word - 1], HoldBytes(b, lo, ws, w)
  PROVE  LET v == FromBytes(SubSeq(b, 2 * lo + 1, 2 * lo + 2 * w), type)
         IN  v \in Int /\ HasWords(v, ws, w) /\ InRange(v, type)
<1>1. PICK from \in Int, to \in Int, size \in Nat \ {0} :
        from = 2 * lo /\ to = 2 * lo + 2 * w /\ size = 2 * w
  OBVIOUS
<1>2. \A m \in from + 1 .. to : b[m] \in 0 .. Byte - 1
  <2> SUFFICES ASSUME NEW m \in from + 1 .. to
               PROVE  b[m] \in 0 .. Byte - 1
    OBVIOUS
  <2>1. PICK j \in 1 .. w : m = 2 * (lo + j) - 1 \/ m = 2 * (lo + j)
    <3>1. (m + 1) \div 2 - lo \in 1 .. w
      BY <1>1
    <3>2. \/ m = 2 * (lo + ((m + 1) \div 2 - lo)) - 1
          \/ m = 2 * (lo + ((m + 1) \div 2 - lo))
      BY <1>1
    <3> QED
      BY <3>1, <3>2
  <2>2. ws[j] \in 0 .. Word - 1
    OBVIOUS
  <2>3. Digit(ws[j], Byte, 1) \in 0 .. Byte - 1 /\ Digit(ws[j], Byte, 2) \in 0 .. Byte - 1
    BY <2>2, BytesOfWord
  <2> QED
    BY <2>1, <2>3 DEF HoldBytes
<1>3. PICK part : part = SubSeq(b, from + 1, to)
  OBVIOUS
<1>4. Len(part) = size /\ \A m \in 1 .. size : part[m] = b[from + m]
  <2>1. \A m \in from + 1 .. to : b[m] \in Int
    BY <1>2
  <2>2. to = from + size
    BY <1>1
  <2> QED
    BY <1>3, <2>1, <2>2, Piece, SMTT(30)
<1>5. HoldBytes(part, 0, ws, w)
  <2> SUFFICES ASSUME NEW j \in 1 .. w
               PROVE  /\ part[2 * (0 + j) - 1] = Digit(ws[j], Byte, 1)
                      /\ part[2 * (0 + j)] = Digit(ws[j], Byte, 2)
    BY DEF HoldBytes
  <2>1. 2 * j - 1 \in 1 .. size /\ 2 * j \in 1 .. size
    BY <1>1
  <2>2. from + (2 * j - 1) = 2 * (lo + j) - 1 /\ from + 2 * j = 2 * (lo + j)
    BY <1>1
  <2>3. part[2 * j - 1] = b[from + (2 * j - 1)] /\ part[2 * j] = b[from + 2 * j]
    BY <1>4, <2>1
  <2>4. 2 * (0 + j) = 2 * j
    OBVIOUS
  <2>5. part[2 * j - 1] = b[2 * (lo + j) - 1] /\ part[2 * j] = b[2 * (lo + j)]
    BY <2>2, <2>3
  <2> QED
    BY <2>4, <2>5 DEF HoldBytes
<1>6. Len(part) = 2 * w
  BY <1>1, <1>4
<1>7. /\ FromBytes(part, type) \in Int
      /\ HasWords(FromBytes(part, type), ws, w)
  BY <1>5, <1>6, WordsBack
<1>8. InRange(FromBytes(part, type), type)
  <2>1. \A m \in 1 .. size : part[m] \in 0 .. Byte - 1
    <3>1. \A m \in 1 .. size : from + m \in from + 1 .. to
      BY <1>1
    <3> QED
      BY <1>2, <1>4, <3>1
  <2>2. size = 2 * Words[type] /\ Len(part) = 2 * Words[type]
    BY <1>1, <1>4
  <2>3. \A m \in 1 .. 2 * Words[type] : part[m] \in 0 .. Byte - 1
    BY <2>1, <2>2
  <2> QED
    BY <2>2, <2>3, TopByte
<1> QED
  BY <1>1, <1>3, <1>7, <1>8

\* What the read calls make of the bytes of n items in consecutive devices are
\* values whose words these devices hold.
LEMMA ItemsBack ==
  ASSUME NEW type \in DOMAIN Words, NEW n \in Nat, NEW b,
         NEW ws \in [1 .. n * Words[type] -> 0 .. Word - 1],
         HoldBytes(b, 0, ws, n * Words[type])
  PROVE  /\ ItemsFromBytes(b, n, type) \in [1 .. n -> Int]
         /\ \A i \in 1 .. n : InRange(ItemsFromBytes(b, n, type)[i], type)
         /\ CellValues(type, ItemsFromBytes(b, n, type)) = ws
<1>1. PICK w \in {1, 2, 4} : w = Words[type]
  BY WordsOfTypes
<1> DEFINE items == ItemsFromBytes(b, n, type)
           Item(i) == FromBytes(SubSeq(b, (i - 1) * (2 * w) + 1, i * (2 * w)), type)
<1>2. items = [i \in 1 .. n |-> Item(i)]
  BY <1>1 DEF ItemsFromBytes
<1>3. ASSUME NEW i \in 1 .. n
      PROVE  /\ Item(i) \in Int
             /\ InRange(Item(i), type)
             /\ \A j \in 1 .. w : Digit(Item(i), Word, j) = ws[(i - 1) * w + j]
  <2>1. PICK lo \in Nat : /\ lo = (i - 1) * w /\ lo + w <= n * w
                          /\ (i - 1) * (2 * w) = 2 * lo /\ i * (2 * w) = 2 * lo + 2 * w
    <3>1. w = 1 \/ w = 2 \/ w = 4
      BY <1>1
    <3>2. (i - 1) * w \in Nat
      BY <3>1
    <3>3. (i - 1) * w + w <= n * w
      BY <3>1
    <3>4. (i - 1) * (2 * w) = 2 * ((i - 1) * w)
      OBVIOUS
    <3>5. i * (2 * w) = 2 * ((i - 1) * w) + 2 * w
      OBVIOUS
    <3> QED
      BY <3>2, <3>3, <3>4, <3>5
  <2>2. \A j \in 1 .. w : lo + j \in 1 .. n * w
    BY <2>1
  <2>3. PICK mine : mine = [j \in 1 .. w |-> ws[lo + j]]
    OBVIOUS
  <2>4. mine \in [1 .. w -> 0 .. Word - 1]
    BY <1>1, <2>2, <2>3
  <2>5. HoldBytes(b, lo, mine, w)
    BY <1>1, <2>2, <2>3 DEF HoldBytes
  <2>6. PICK v : v = FromBytes(SubSeq(b, 2 * lo + 1, 2 * lo + 2 * w), type)
    OBVIOUS
  <2>7. v \in Int /\ HasWords(v, mine, w) /\ InRange(v, type)
    BY <1>1, <2>4, <2>5, <2>6, ItemAt
  <2>8. v = Item(i)
    BY <2>1, <2>6
  <2> HIDE DEF Item
  <2> QED
    BY <2>1, <2>3, <2>7, <2>8 DEF HasWords
<1> HIDE DEF Item, items
<1>4. items \in [1 .. n -> Int] /\ \A i \in 1 .. n : InRange(items[i], type)
  BY <1>2, <1>3
<1>5. CellValues(type, items) = ws
  <2>1. Len(items) = n
    <3>1. items \in Seq(Int)
      BY <1>4
    <3> QED
      BY <1>4, <3>1, LenProperties
  <2>2. CellValues(type, items)
          = [k \in 1 .. w * n |-> Digit(items[(k - 1) \div w + 1], Word, ((k - 1) % w) + 1)]
    BY <1>1, <2>1, WordsOfTypes DEF CellValues
  <2>3. ASSUME NEW k \in 1 .. w * n
        PROVE  Digit(items[(k - 1) \div w + 1], Word, ((k - 1) % w) + 1) = ws[k]
    <3>1. PICK i \in 1 .. n : i = (k - 1) \div w + 1
      BY <1>1
    <3>2. PICK j \in 1 .. w : j = ((k - 1) % w) + 1
      BY <1>1
    <3>3. (i - 1) * w + j = k
      BY <3>1, <3>2
    <3> QED
      BY <1>2, <1>3, <3>1, <3>2, <3>3
  <2>4. w * n = n * Words[type]
    BY <1>1
  <2> QED
    BY <2>2, <2>3, <2>4
<1> QED
  BY <1>4, <1>5 DEF items

\* Two bytes of an item make one of its words.
LEMMA WordOfBytes ==
  ASSUME NEW v \in Int, NEW j \in 1 .. 4
  PROVE  /\ Digit(v, Byte, 2 * j - 1) \in 0 .. Byte - 1
         /\ Digit(v, Byte, 2 * j) \in 0 .. Byte - 1
         /\ Digit(v, Word, j) \in 0 .. Word - 1
         /\ Digit(v, Byte, 2 * j - 1) + Byte * Digit(v, Byte, 2 * j) = Digit(v, Word, j)
<1>1. Byte \in Nat \ {0} /\ Word \in Nat \ {0} /\ Word = Byte * Byte
  BY Sizes
<1>2. 2 * j - 1 \in 1 .. 8 /\ 2 * j \in 1 .. 8 /\ j \in 1 .. 8
  OBVIOUS
<1>3. /\ Digit(v, Byte, 2 * j - 1) \in 0 .. Byte - 1
      /\ Digit(v, Byte, 2 * j) \in 0 .. Byte - 1
      /\ Digit(v, Word, j) \in 0 .. Word - 1
  BY <1>1, <1>2, DigitRange
<1>4. j = 1 \/ j = 2 \/ j = 3 \/ j = 4
  OBVIOUS
<1>5. Digit(v, Byte, 2 * j - 1) + Byte * Digit(v, Byte, 2 * j) = Digit(v, Word, j)
  BY <1>1, <1>4, PairOfDigits
<1> QED
  BY <1>3, <1>5

\* The bytes b give the words ws, low bytes first.
GiveWords(b, ws, n) ==
  \A k \in 1 .. n : /\ b[2 * k - 1] \in 0 .. Byte - 1 /\ b[2 * k] \in 0 .. Byte - 1
                    /\ b[2 * k - 1] + Byte * b[2 * k] = ws[k]

\* The bytes of items are those of the words they have.
LEMMA ItemsAreWords ==
  ASSUME NEW type \in DOMAIN Words, NEW n \in Nat, NEW values \in [1 .. n -> Int]
  PROVE  LET b == ItemsToBytes(values, type)
             cells == CellValues(type, values)
         IN  /\ b \in [1 .. 2 * (n * Words[type]) -> 0 .. Byte - 1]
             /\ cells \in [1 .. n * Words[type] -> 0 .. Word - 1]
             /\ GiveWords(b, cells, n * Words[type])
<1>1. PICK w \in {1, 2, 4} : w = Words[type]
  BY WordsOfTypes
<1>2. Len(values) = n
  <2>1. values \in Seq(Int)
    OBVIOUS
  <2> QED
    BY <2>1, LenProperties
<1> DEFINE b == ItemsToBytes(values, type)
           cells == CellValues(type, values)
<1>3. b = [m \in 1 .. (2 * w) * n |->
             ToBytes(values[(m - 1) \div (2 * w) + 1], 2 * w)[((m - 1) % (2 * w)) + 1]]
  BY <1>1, <1>2 DEF ItemsToBytes
<1>4. cells = [k \in 1 .. w * n |->
                 Digit(values[(k - 1) \div w + 1], Word, ((k - 1) % w) + 1)]
  BY <1>1, <1>2, WordsOfTypes DEF CellValues
<1>5. (2 * w) * n = 2 * (n * w) /\ w * n = n * w
  BY <1>1
<1> HIDE DEF b, cells
<1>6. ASSUME NEW k \in 1 .. n * w
      PROVE  \E v \in Int, j \in 1 .. 4 : /\ b[2 * k - 1] = Digit(v, Byte, 2 * j - 1)
                                         /\ b[2 * k] = Digit(v, Byte, 2 * j)
                                         /\ cells[k] = Digit(v, Word, j)
  <2>1. PICK i \in 1 .. n, j \in 1 .. w : i = (k - 1) \div w + 1 /\ j = ((k - 1) % w) + 1
    <3>1. (k - 1) \div w + 1 \in 1 .. n
      BY <1>1
    <3>2. ((k - 1) % w) + 1 \in 1 .. w
      BY <1>1
    <3> QED
      BY <3>1, <3>2
  <2>2. /\ (2 * k - 2) \div (2 * w) + 1 = i /\ ((2 * k - 2) % (2 * w)) + 1 = 2 * j - 1
        /\ (2 * k - 1) \div (2 * w) + 1 = i /\ ((2 * k - 1) % (2 * w)) + 1 = 2 * j
    <3>1. CASE w = 1
      BY <2>1, <3>1
    <3>2. CASE w = 2
      BY <2>1, <3>2
    <3>3. CASE w = 4
      BY <2>1, <3>3
    <3> QED
      BY <3>1, <3>2, <3>3
  <2>3. 2 * j - 1 \in 1 .. 2 * w /\ 2 * j \in 1 .. 2 * w /\ j \in 1 .. 4
    BY <1>1
  <2>4. /\ ToBytes(values[i], 2 * w)[2 * j - 1] = Digit(values[i], Byte, 2 * j - 1)
        /\ ToBytes(values[i], 2 * w)[2 * j] = Digit(values[i], Byte, 2 * j)
    BY <2>3 DEF ToBytes
  <2>5. 2 * k - 1 \in 1 .. (2 * w) * n /\ 2 * k \in 1 .. (2 * w) * n
    BY <1>5
  <2>6. b[2 * k - 1] = ToBytes(values[i], 2 * w)[2 * j - 1]
    BY <1>3, <2>2, <2>5
  <2>7. b[2 * k] = ToBytes(values[i], 2 * w)[2 * j]
    BY <1>3, <2>2, <2>5
  <2>8. cells[k] = Digit(values[i], Word, j)
    BY <1>4, <1>5, <2>1
  <2> QED
    BY <2>3, <2>4, <2>6, <2>7, <2>8
<1>7. GiveWords(b, cells, n * w)
  BY <1>6, WordOfBytes, ZenonT(60) DEF GiveWords
<1>8. b \in [1 .. 2 * (n * w) -> 0 .. Byte - 1]
  <2>1. DOMAIN b = 1 .. 2 * (n * w) /\ b = [m \in 1 .. 2 * (n * w) |-> b[m]]
    BY <1>3, <1>5
  <2>2. ASSUME NEW m \in 1 .. 2 * (n * w)
        PROVE  b[m] \in 0 .. Byte - 1
    <3>1. PICK k \in 1 .. n * w : m = 2 * k - 1 \/ m = 2 * k
      <4>1. n * w \in Nat
        BY <1>1
      <4>2. (m + 1) \div 2 \in 1 .. n * w
        BY <4>1
      <4>3. m = 2 * ((m + 1) \div 2) - 1 \/ m = 2 * ((m + 1) \div 2)
        BY <4>1
      <4> QED
        BY <4>2, <4>3
    <3> QED
      BY <1>7, <3>1 DEF GiveWords
  <2> QED
    BY <2>1, <2>2
<1>9. cells \in [1 .. n * w -> 0 .. Word - 1]
  <2>1. \A k \in 1 .. n * w : cells[k] \in 0 .. Word - 1
    BY <1>6, WordOfBytes, ZenonT(60)
  <2> QED
    BY <1>4, <1>5, <2>1
<1> QED
  BY <1>1, <1>7, <1>8, <1>9 DEF b, cells

-----------------------------------------------------------------------------
(* The data of write commands. *)

\* The bytes of a word change places.
LEMMA SwapAt ==
  ASSUME NEW m \in Nat, NEW b, DOMAIN b = 1 .. 2 * m, NEW k \in 1 .. m
  PROVE  SwapWords(b)[2 * k - 1] = b[2 * k] /\ SwapWords(b)[2 * k] = b[2 * k - 1]
  BY DEF SwapWords

\* Swapping the bytes of words, and swapping them back.
LEMMA SwapPairs ==
  ASSUME NEW S, NEW m \in Nat, NEW b \in [1 .. 2 * m -> S]
  PROVE  /\ SwapWords(b) \in [1 .. 2 * m -> S]
         /\ \A k \in 1 .. m : /\ SwapWords(b)[2 * k - 1] = b[2 * k]
                              /\ SwapWords(b)[2 * k] = b[2 * k - 1]
         /\ SwapWords(SwapWords(b)) = b
<1>1. SwapWords(b) = [k \in 1 .. 2 * m |-> b[IF k % 2 = 1 THEN k + 1 ELSE k - 1]]
  BY DEF SwapWords
<1>2. \A k \in 1 .. 2 * m : (IF k % 2 = 1 THEN k + 1 ELSE k - 1) \in 1 .. 2 * m
  OBVIOUS
<1>3. SwapWords(b) \in [1 .. 2 * m -> S]
  BY <1>1, <1>2
<1>4. \A k \in 1 .. m : /\ SwapWords(b)[2 * k - 1] = b[2 * k]
                        /\ SwapWords(b)[2 * k] = b[2 * k - 1]
  BY <1>1
<1>5. SwapWords(SwapWords(b)) = b
  <2>1. PICK c \in [1 .. 2 * m -> S] : c = SwapWords(b)
    BY <1>3
  <2>2. SwapWords(c) = [k \in 1 .. 2 * m |-> c[IF k % 2 = 1 THEN k + 1 ELSE k - 1]]
    BY DEF SwapWords
  <2>3. ASSUME NEW k \in 1 .. 2 * m
        PROVE  c[IF k % 2 = 1 THEN k + 1 ELSE k - 1] = b[k]
    <3>1. PICK j \in 1 .. m : k = 2 * j - 1 \/ k = 2 * j
      BY (k + 1) \div 2 \in 1 .. m
    <3>2. CASE k = 2 * j - 1
      <4>1. k % 2 = 1 /\ k + 1 = 2 * j
        BY <3>2
      <4> QED
        BY <1>4, <2>1, <3>2, <4>1
    <3>3. CASE k = 2 * j
      <4>1. k % 2 # 1 /\ k - 1 = 2 * j - 1
        BY <3>3
      <4> QED
        BY <1>4, <2>1, <3>3, <4>1
    <3> QED
      BY <3>1, <3>2, <3>3
  <2> QED
    BY <2>1, <2>2, <2>3
<1> QED
  BY <1>3, <1>4, <1>5

\* The two digits of a byte.
LEMMA HexDigits ==
  ASSUME NEW m \in Nat, NEW b \in [1 .. m -> 0 .. Byte - 1]
  PROVE  /\ ToHex(b) \in [1 .. 2 * m -> 0 .. Nibble - 1]
         /\ \A k \in 1 .. m : /\ ToHex(b)[2 * k - 1] = b[k] \div Nibble
                              /\ ToHex(b)[2 * k] = b[k] % Nibble
<1>1. Nibble \in Nat \ {0} /\ Byte = Nibble * Nibble
  BY Sizes
<1>2. Len(b) = m
  <2>1. b \in Seq(Int)
    OBVIOUS
  <2> QED
    BY <2>1, LenProperties
<1>3. ToHex(b) = [k \in 1 .. 2 * m |-> IF k % 2 = 1 THEN b[(k + 1) \div 2] \div Nibble
                                                    ELSE b[(k + 1) \div 2] % Nibble]
  BY <1>2 DEF ToHex
<1>4. ASSUME NEW x \in 0 .. Byte - 1
      PROVE  x \div Nibble \in 0 .. Nibble - 1 /\ x % Nibble \in 0 .. Nibble - 1
  <2>1. x \in Int /\ x >= 0 /\ x < Nibble * Nibble
    BY <1>1
  <2>2. PICK q \in Int : q = x \div Nibble
    BY <1>1, <2>1, DivInt
  <2>3. PICK r \in 0 .. Nibble - 1 : r = x % Nibble
    BY <1>1, <2>1, DivInt
  <2>4. x = r + Nibble * q
    BY <1>1, <2>1, <2>2, <2>3, DivInt
  <2>5. q < Nibble
    <3>1. SUFFICES ASSUME q >= Nibble
                   PROVE  FALSE
      BY <1>1
    <3>2. Nibble * q >= Nibble * Nibble
      BY <1>1, <3>1
    <3>3. r + Nibble * q < Nibble * Nibble
      BY <2>1, <2>4
    <3>4. Nibble * q \in Int /\ Nibble * Nibble \in Int
      BY <1>1
    <3> QED
      BY <3>2, <3>3, <3>4
  <2>6. q >= 0
    <3>1. SUFFICES ASSUME q <= -1
                   PROVE  FALSE
      OBVIOUS
    <3>2. Nibble * q <= - Nibble
      BY <1>1, <3>1
    <3> QED
      BY <1>1, <2>1, <2>4, <3>2
  <2>7. q \in 0 .. Nibble - 1
    BY <1>1, <2>5, <2>6
  <2> QED
    BY <2>2, <2>3, <2>7
<1>5. ASSUME NEW k \in 1 .. 2 * m
      PROVE  ToHex(b)[k] \in 0 .. Nibble - 1
  <2>1. b[(k + 1) \div 2] \in 0 .. Byte - 1
    OBVIOUS
  <2> QED
    BY <1>3, <1>4, <2>1
<1>6. \A k \in 1 .. m : /\ ToHex(b)[2 * k - 1] = b[k] \div Nibble
                        /\ ToHex(b)[2 * k] = b[k] % Nibble
  <2> SUFFICES ASSUME NEW k \in 1 .. m
               PROVE  /\ ToHex(b)[2 * k - 1] = b[k] \div Nibble
                      /\ ToHex(b)[2 * k] = b[k] % Nibble
    OBVIOUS
  <2>1. /\ 2 * k - 1 \in 1 .. 2 * m /\ (2 * k - 1) % 2 = 1 /\ ((2 * k - 1) + 1) \div 2 = k
        /\ 2 * k \in 1 .. 2 * m /\ (2 * k) % 2 = 0 /\ (2 * k + 1) \div 2 = k
    OBVIOUS
  <2> QED
    BY <1>3, <2>1
<1> QED
  BY <1>3, <1>5, <1>6

\* What is written in hexadecimal is read back.
LEMMA HexBack ==
  ASSUME NEW m \in Nat, NEW b \in [1 .. m -> 0 .. Byte - 1]
  PROVE  FromHex(ToHex(b)) = b
<1>1. Nibble \in Nat \ {0}
  BY Sizes
<1>2. PICK d \in [1 .. 2 * m -> 0 .. Nibble - 1] : d = ToHex(b)
  BY HexDigits
<1>3. Len(d) = 2 * m
  <2>1. d \in Seq(Int)
    OBVIOUS
  <2> QED
    BY <2>1, LenProperties
<1>4. FromHex(d) = [k \in 1 .. m |-> d[2 * k - 1] * Nibble + d[2 * k]]
  BY <1>3 DEF FromHex
<1>5. ASSUME NEW k \in 1 .. m
      PROVE  d[2 * k - 1] * Nibble + d[2 * k] = b[k]
  <2>1. d[2 * k - 1] = b[k] \div Nibble /\ d[2 * k] = b[k] % Nibble
    BY <1>2, HexDigits
  <2>2. PICK x \in Int : x = b[k]
    OBVIOUS
  <2>3. x = (x % Nibble) + Nibble * (x \div Nibble) /\ x \div Nibble \in Int
    BY <1>1, DivInt
  <2> QED
    BY <1>1, <2>1, <2>2, <2>3
<1> QED
  BY <1>2, <1>4, <1>5

\* The PLC finds in the words of a binary frame the values of the cells.
LEMMA BinWords ==
  ASSUME NEW m \in Nat, NEW b \in [1 .. 2 * m -> 0 .. Byte - 1], NEW ws,
         GiveWords(b, ws, m), NEW f, ~f.bits, f.data = b, NEW k \in 1 .. m
  PROVE  PlcValue("bin", f, k) = ws[k]
  BY DEF GiveWords, PlcValue

\* Horner's scheme on the four digits of a word.
LEMMA FourDigits ==
  ASSUME NEW b \in Int, NEW p \in Int, NEW q \in Int, NEW r \in Int, NEW s \in Int
  PROVE  ((p * b + q) * b + r) * b + s = (s + b * r) + (b * b) * (q + b * p)
<1>1. ((p * b + q) * b + r) * b + s = s + b * (r + b * (q + b * p))
  OBVIOUS
<1> QED
  BY <1>1, ThreeDigits

\* So it does in the words of an ASCII frame.
LEMMA AsciiWords ==
  ASSUME NEW m \in Nat, NEW b \in [1 .. 2 * m -> 0 .. Byte - 1], NEW ws,
         GiveWords(b, ws, m), NEW f, ~f.bits, f.data = ToHex(SwapWords(b)), NEW k \in 1 .. m
  PROVE  PlcValue("ascii", f, k) = ws[k]
<1>1. Nibble \in Nat \ {0} /\ Byte = Nibble * Nibble
  BY Sizes
<1>2. PICK low \in Int, high \in Int :
        low = b[2 * k - 1] /\ high = b[2 * k] /\ low + Byte * high = ws[k]
  BY <1>1 DEF GiveWords
<1>3. PICK c \in [1 .. 2 * m -> 0 .. Byte - 1] : c = SwapWords(b)
  BY SwapPairs
<1>4. c = SwapWords(b) /\ c[2 * k - 1] = high /\ c[2 * k] = low
  <2>1. DOMAIN b = 1 .. 2 * m
    OBVIOUS
  <2> QED
    BY <1>2, <1>3, <2>1, SwapAt
<1>5. PICK d : d = ToHex(c)
  OBVIOUS
<1>6. /\ 2 * k - 1 \in 1 .. 2 * m /\ 2 * k \in 1 .. 2 * m
      /\ 2 * (2 * k - 1) - 1 = 4 * k - 3 /\ 2 * (2 * k - 1) = 4 * k - 2
      /\ 2 * (2 * k) - 1 = 4 * k - 1 /\ 2 * (2 * k) = 4 * k
  OBVIOUS
<1>7. PICK m2 \in Nat : m2 = 2 * m
  OBVIOUS
<1>8. \A j \in 1 .. m2 : d[2 * j - 1] = c[j] \div Nibble /\ d[2 * j] = c[j] % Nibble
  BY <1>5, <1>7, HexDigits
<1>9. /\ d[4 * k - 3] = high \div Nibble /\ d[4 * k - 2] = high % Nibble
      /\ d[4 * k - 1] = low \div Nibble /\ d[4 * k] = low % Nibble
  BY <1>4, <1>6, <1>7, <1>8
<1>10. PICK p \in Int, q \in Int :
         p = high \div Nibble /\ q = high % Nibble /\ high = q + Nibble * p
  BY ONLY <1>1, high \in Int, Division, Zenon
<1>11. PICK r \in Int, s \in Int :
         r = low \div Nibble /\ s = low % Nibble /\ low = s + Nibble * r
  BY ONLY <1>1, low \in Int, Division, Zenon
<1>12. PlcValue("ascii", f, k) = ((p * Nibble + q) * Nibble + r) * Nibble + s
  BY <1>4, <1>5, <1>9, <1>10, <1>11 DEF PlcValue
<1>13. ((p * Nibble + q) * Nibble + r) * Nibble + s = low + Byte * high
  <2>1. Nibble \in Int
    BY <1>1
  <2> QED
    BY <1>1, <1>10, <1>11, <2>1, FourDigits
<1> QED
  BY <1>2, <1>12, <1>13

\* The data of a write of items, in either protocol, hold the values of its cells.
LEMMA WriteWords ==
  ASSUME NEW p \in {"bin", "ascii"}, NEW type \in DOMAIN Words, NEW n \in Nat,
         NEW values \in [1 .. n -> Int], NEW f, ~f.bits, f.data = WriteData(p, type, values)
  PROVE  /\ Len(f.data) = (n * Words[type]) * (IF p = "bin" THEN 2 ELSE 4)
         /\ \A k \in 1 .. n * Words[type] : PlcValue(p, f, k) = CellValues(type, values)[k]
<1>1. PICK m \in Nat : m = n * Words[type]
  BY WordsOfTypes
<1>2. PICK b \in [1 .. 2 * m -> 0 .. Byte - 1] : b = ItemsToBytes(values, type)
  BY <1>1, ItemsAreWords
<1>3. PICK ws : ws = CellValues(type, values) /\ GiveWords(b, ws, m)
  BY <1>1, <1>2, ItemsAreWords
<1>4. CASE p = "bin"
  <2>1. f.data = b
    BY <1>2, <1>4, WordsOfTypes DEF WriteData
  <2>2. Len(b) = 2 * m
    <3>1. b \in Seq(Int)
      OBVIOUS
    <3> QED
      BY <3>1, LenProperties
  <2>3. \A k \in 1 .. m : PlcValue(p, f, k) = ws[k]
    BY <1>3, <1>4, <2>1, BinWords, ZenonT(60)
  <2> QED
    BY <1>1, <1>3, <1>4, <2>1, <2>2, <2>3
<1>5. CASE p = "ascii"
  <2>1. f.data = ToHex(SwapWords(b))
    BY <1>2, <1>5, WordsOfTypes DEF WriteData
  <2>2. Len(f.data) = 4 * m
    <3>1. PICK m2 \in Nat : m2 = 2 * m
      OBVIOUS
    <3>2. SwapWords(b) \in [1 .. m2 -> 0 .. Byte - 1]
      BY <3>1, SwapPairs
    <3>3. f.data \in [1 .. 2 * m2 -> 0 .. Nibble - 1]
      BY <2>1, <3>2, HexDigits, ZenonT(60)
    <3>4. f.data \in Seq(Int)
      BY <3>3, Sizes
    <3> QED
      BY <3>1, <3>3, <3>4, LenProperties
  <2>3. \A k \in 1 .. m : PlcValue(p, f, k) = ws[k]
    BY <1>3, <1>5, <2>1, AsciiWords
  <2> QED
    BY <1>1, <1>3, <1>5, <2>2, <2>3
<1> QED
  BY <1>4, <1>5

-----------------------------------------------------------------------------
(* The data of responses. *)

\* The words of a binary response are read as they are.
LEMMA ReadBin ==
  ASSUME NEW type \in DOMAIN Words, NEW n \in Nat, NEW f, ~f.bits,
         f.points = n * Words[type], NEW v \in [1 .. n * Words[type] -> 0 .. Word - 1],
         v = [k \in 1 .. f.points |-> mem[PlcCell(f, k)]]
  PROVE  /\ Values("bin", type, n, PlcData("bin", f)) \in [1 .. n -> Int]
         /\ \A i \in 1 .. n : InRange(Values("bin", type, n, PlcData("bin", f))[i], type)
         /\ CellValues(type, Values("bin", type, n, PlcData("bin", f))) = v
<1>1. PICK m \in Nat : m = n * Words[type] /\ m = f.points /\ 2 * m = n * 2 * Words[type]
  <2>1. Words[type] = 1 \/ Words[type] = 2 \/ Words[type] = 4
    BY WordsOfTypes
  <2> QED
    BY <2>1
<1>2. PICK b : b = PlcData("bin", f)
  OBVIOUS
<1>3. b = [j \in 1 .. 2 * m |-> Digit(v[(j + 1) \div 2], Byte, 2 - (j % 2))]
  BY <1>1, <1>2 DEF PlcData
<1>4. HoldBytes(b, 0, v, m)
  <2> SUFFICES ASSUME NEW k \in 1 .. m
               PROVE  /\ b[2 * (0 + k) - 1] = Digit(v[k], Byte, 1)
                      /\ b[2 * (0 + k)] = Digit(v[k], Byte, 2)
    BY DEF HoldBytes
  <2>1. /\ 2 * k - 1 \in 1 .. 2 * m /\ ((2 * k - 1) + 1) \div 2 = k
        /\ 2 - ((2 * k - 1) % 2) = 1
        /\ 2 * k \in 1 .. 2 * m /\ (2 * k + 1) \div 2 = k /\ 2 - ((2 * k) % 2) = 2
        /\ 0 + k = k
    OBVIOUS
  <2> QED
    BY <1>3, <2>1
<1>5. Len(b) = 2 * m
  <2>1. \A j \in 1 .. 2 * m : Digit(v[(j + 1) \div 2], Byte, 2 - (j % 2)) \in Int
    <3> SUFFICES ASSUME NEW j \in 1 .. 2 * m
                 PROVE  Digit(v[(j + 1) \div 2], Byte, 2 - (j % 2)) \in Int
      OBVIOUS
    <3>1. (j + 1) \div 2 \in 1 .. m /\ (2 - (j % 2) = 1 \/ 2 - (j % 2) = 2)
      OBVIOUS
    <3>2. PICK i \in 1 .. m : i = (j + 1) \div 2
      BY <3>1
    <3>3. v[i] \in 0 .. Word - 1
      BY <1>1
    <3> QED
      BY <3>1, <3>2, <3>3, BytesOfWord
  <2>2. b \in [1 .. 2 * m -> Int]
    BY <1>3, <2>1
  <2>3. b \in Seq(Int)
    BY <2>2
  <2> QED
    BY <2>2, <2>3, LenProperties
<1>6. Values("bin", type, n, b) = ItemsFromBytes(b, n, type)
  BY <1>1, <1>5, WordsOfTypes DEF Values
<1>7. PICK items : items = ItemsFromBytes(b, n, type)
  OBVIOUS
<1>8. /\ items \in [1 .. n -> Int]
      /\ \A i \in 1 .. n : InRange(items[i], type)
      /\ CellValues(type, items) = v
  BY <1>1, <1>4, <1>7, ItemsBack
<1>9. Values("bin", type, n, PlcData("bin", f)) = items
  BY <1>2, <1>6, <1>7
<1> QED
  BY <1>8, <1>9

\* Those of an ASCII response have the same bytes.
LEMMA ReadAscii ==
  ASSUME NEW type \in DOMAIN Words, NEW n \in Nat, NEW f, ~f.bits,
         f.points = n * Words[type], NEW v \in [1 .. n * Words[type] -> 0 .. Word - 1],
         v = [k \in 1 .. f.points |-> mem[PlcCell(f, k)]]
  PROVE  /\ Values("ascii", type, n, PlcData("ascii", f)) \in [1 .. n -> Int]
         /\ \A i \in 1 .. n : InRange(Values("ascii", type, n, PlcData("ascii", f))[i], type)
         /\ CellValues(type, Values("ascii", type, n, PlcData("ascii", f))) = v
<1>1. PICK m \in Nat : m = n * Words[type] /\ m = f.points /\ 2 * m = n * 2 * Words[type]
  <2>1. Words[type] = 1 \/ Words[type] = 2 \/ Words[type] = 4
    BY WordsOfTypes
  <2> QED
    BY <2>1
<1>2. PICK d : d = PlcData("ascii", f)
  OBVIOUS
<1>3. d = [j \in 1 .. 4 * m |-> Digit(v[(j + 3) \div 4], Nibble, 4 - ((j - 1) % 4))]
  BY <1>1, <1>2 DEF PlcData
<1>4. \A k \in 1 .. m : /\ d[4 * k - 3] = Digit(v[k], Nibble, 4)
                        /\ d[4 * k - 2] = Digit(v[k], Nibble, 3)
                        /\ d[4 * k - 1] = Digit(v[k], Nibble, 2)
                        /\ d[4 * k] = Digit(v[k], Nibble, 1)
  <2> SUFFICES ASSUME NEW k \in 1 .. m
               PROVE  /\ d[4 * k - 3] = Digit(v[k], Nibble, 4)
                      /\ d[4 * k - 2] = Digit(v[k], Nibble, 3)
                      /\ d[4 * k - 1] = Digit(v[k], Nibble, 2)
                      /\ d[4 * k] = Digit(v[k], Nibble, 1)
    OBVIOUS
  <2>1. /\ 4 * k - 3 \in 1 .. 4 * m /\ ((4 * k - 3) + 3) \div 4 = k
        /\ 4 - (((4 * k - 3) - 1) % 4) = 4
        /\ 4 * k - 2 \in 1 .. 4 * m /\ ((4 * k - 2) + 3) \div 4 = k
        /\ 4 - (((4 * k - 2) - 1) % 4) = 3
    OBVIOUS
  <2>2. /\ 4 * k - 1 \in 1 .. 4 * m /\ ((4 * k - 1) + 3) \div 4 = k
        /\ 4 - (((4 * k - 1) - 1) % 4) = 2
        /\ 4 * k \in 1 .. 4 * m /\ (4 * k + 3) \div 4 = k
        /\ 4 - ((4 * k - 1) % 4) = 1
    OBVIOUS
  <2> QED
    BY <1>3, <2>1, <2>2
<1>5. Len(d) = 4 * m
  <2>1. \A j \in 1 .. 4 * m : Digit(v[(j + 3) \div 4], Nibble, 4 - ((j - 1) % 4)) \in Int
    <3> SUFFICES ASSUME NEW j \in 1 .. 4 * m
                 PROVE  Digit(v[(j + 3) \div 4], Nibble, 4 - ((j - 1) % 4)) \in Int
      OBVIOUS
    <3>1. PICK i \in 1 .. m : i = (j + 3) \div 4
      OBVIOUS
    <3>2. PICK x \in 1 .. 8 : x = 4 - ((j - 1) % 4)
      OBVIOUS
    <3>3. PICK w \in Int : w = v[i]
      BY <1>1, Sizes
    <3>4. Digit(w, Nibble, x) \in 0 .. Nibble - 1
      BY Sizes, DigitRange
    <3> QED
      BY <3>1, <3>2, <3>3, <3>4, Sizes
  <2>2. d \in [1 .. 4 * m -> Int]
    BY <1>3, <2>1
  <2>3. d \in Seq(Int)
    BY <2>2
  <2> QED
    BY <2>2, <2>3, LenProperties
<1>6. PICK h : h = FromHex(d)
  OBVIOUS
<1>7. h = [j \in 1 .. 2 * m |-> d[2 * j - 1] * Nibble + d[2 * j]]
  BY <1>5, <1>6 DEF FromHex
<1>8. \A k \in 1 .. m : /\ h[2 * k - 1] = Digit(v[k], Byte, 2)
                        /\ h[2 * k] = Digit(v[k], Byte, 1)
  <2> SUFFICES ASSUME NEW k \in 1 .. m
               PROVE  h[2 * k - 1] = Digit(v[k], Byte, 2) /\ h[2 * k] = Digit(v[k], Byte, 1)
    OBVIOUS
  <2>1. PICK w \in Int : w = v[k]
    BY <1>1, Sizes
  <2>2. PICK base \in Nat \ {0} : base = Nibble /\ Byte = base * base
    BY Sizes
  <2>3. /\ Digit(w, base, 1) + base * Digit(w, base, 2) = Digit(w, base * base, 1)
        /\ Digit(w, base, 3) + base * Digit(w, base, 4) = Digit(w, base * base, 2)
    BY PairOfDigits
  <2>4. PICK d1 \in Int, d2 \in Int, d3 \in Int, d4 \in Int :
          /\ d1 = Digit(w, base, 1) /\ d2 = Digit(w, base, 2)
          /\ d3 = Digit(w, base, 3) /\ d4 = Digit(w, base, 4)
    <3>1. \A j \in 1 .. 8 : Digit(w, base, j) \in 0 .. base - 1
      BY DigitRange
    <3>2. /\ Digit(w, base, 1) \in Int /\ Digit(w, base, 2) \in Int
          /\ Digit(w, base, 3) \in Int /\ Digit(w, base, 4) \in Int
      BY <3>1
    <3> QED
      BY <3>2
  <2>5. /\ d[4 * k - 3] = d4 /\ d[4 * k - 2] = d3
        /\ d[4 * k - 1] = d2 /\ d[4 * k] = d1
    BY <1>4, <2>1, <2>2, <2>4
  <2>6. /\ 2 * k - 1 \in 1 .. 2 * m /\ 2 * (2 * k - 1) - 1 = 4 * k - 3
        /\ 2 * (2 * k - 1) = 4 * k - 2
        /\ 2 * k \in 1 .. 2 * m /\ 2 * (2 * k) - 1 = 4 * k - 1 /\ 2 * (2 * k) = 4 * k
    OBVIOUS
  <2>7. h[2 * k - 1] = d4 * base + d3 /\ h[2 * k] = d2 * base + d1
    BY <1>7, <2>2, <2>5, <2>6
  <2>8. d4 * base + d3 = d3 + base * d4 /\ d2 * base + d1 = d1 + base * d2
    OBVIOUS
  <2> QED
    BY <2>1, <2>2, <2>3, <2>4, <2>7, <2>8
<1>9. PICK b : b = SwapWords(h)
  OBVIOUS
<1>10. HoldBytes(b, 0, v, m)
  <2> SUFFICES ASSUME NEW k \in 1 .. m
               PROVE  /\ b[2 * (0 + k) - 1] = Digit(v[k], Byte, 1)
                      /\ b[2 * (0 + k)] = Digit(v[k], Byte, 2)
    BY DEF HoldBytes
  <2>1. DOMAIN h = 1 .. 2 * m
    BY <1>7
  <2>2. b[2 * k - 1] = h[2 * k] /\ b[2 * k] = h[2 * k - 1]
    BY <1>9, <2>1, SwapAt
  <2>3. 0 + k = k
    OBVIOUS
  <2> QED
    BY <1>8, <2>2, <2>3
<1>11. Len(b) = 2 * m
  <2>1. DOMAIN b = 1 .. 2 * m /\ b = [j \in 1 .. 2 * m |-> b[j]]
    BY <1>7, <1>9 DEF SwapWords
  <2>2. b \in Seq({b[j] : j \in 1 .. 2 * m})
    BY <2>1
  <2> QED
    BY <2>1, <2>2, LenProperties
<1>12. Values("ascii", type, n, d) = ItemsFromBytes(b, n, type)
  BY <1>1, <1>6, <1>9, <1>11, WordsOfTypes DEF Values
<1>13. PICK items : items = ItemsFromBytes(b, n, type)
  OBVIOUS
<1>14. /\ items \in [1 .. n -> Int]
       /\ \A i \in 1 .. n : InRange(items[i], type)
       /\ CellValues(type, items) = v
  BY <1>1, <1>10, <1>13, ItemsBack
<1>15. Values("ascii", type, n, PlcData("ascii", f)) = items
  BY <1>2, <1>12, <1>13
<1> QED
  BY <1>14, <1>15

-----------------------------------------------------------------------------
(* Bools. *)

\* A byte of two bits.
LEMMA BitsOfByte ==
  ASSUME NEW high \in {0, 1}, NEW low \in {0, 1}, NEW x, x = Nibble * high + low
  PROVE  /\ x \in Nat
         /\ Digit(x, Nibble, 2) = high /\ Digit(x, Nibble, 1) = low
         /\ (x \div Nibble) % 2 = high /\ x % 2 = low
<1>1. Nibble \in Nat \ {0} /\ Nibble % 2 = 0
  BY FrameAssumption
<1>2. PICK b \in Nat \ {0} : b = Nibble /\ b % 2 = 0 /\ b >= 2
  BY <1>1
<1>3. PICK v \in Int : v = x /\ v >= 0 /\ v = low + b * high
  BY <1>2
<1>4. low \in 0 .. b - 1 /\ high \in Int /\ low \in Int
  BY <1>2
<1>5. (low + b * high) \div b = high /\ (low + b * high) % b = low
  BY <1>4, DivMod
<1>6. v \div b = high /\ v % b = low
  BY <1>3, <1>5
<1>7. high % b = high /\ high % 2 = high
  BY <1>2
<1>8. Digit(v, b, 1) = low /\ Digit(v, b, 2) = high
  <2>1. Digit(v, b, 1) = v % b
    BY LowDigit
  <2>2. Digit(v, b, 2) = Digit(high, b, 1)
    <3>1. PICK h \in Int : h = high /\ h = v \div b
      BY <1>4, <1>6
    <3>2. Digit(v, b, 2) = Digit(h, b, 1)
      BY <3>1, NextDigit
    <3> QED
      BY <3>1, <3>2
  <2>3. Digit(high, b, 1) = high % b
    BY <1>4, LowDigit
  <2> QED
    BY <1>6, <1>7, <2>1, <2>2, <2>3
<1>9. v % 2 = low
  <2>1. CASE high = 0
    BY <1>3, <2>1
  <2>2. CASE high = 1
    BY <1>2, <1>3, <2>2
  <2> QED
    BY <2>1, <2>2
<1> QED
  BY <1>2, <1>3, <1>6, <1>7, <1>8, <1>9

\* What the PLC finds in the data of a write of bools are bools.
LEMMA WriteBits ==
  ASSUME NEW p \in {"bin", "ascii"}, NEW n \in Nat, NEW values \in [1 .. n -> {0, 1}],
         NEW f, f.bits, f.data = WriteData(p, "bool", values)
  PROVE  /\ Len(f.data) = IF p = "bin" THEN (n + 1) \div 2 ELSE n
         /\ \A k \in 1 .. n : PlcValue(p, f, k) \in {0, 1}
         /\ p = "ascii" \/ n \in {1, 3} =>
              \A k \in 1 .. n : PlcValue(p, f, k) = values[k]
<1>1. Len(values) = n
  <2>1. values \in Seq(Int)
    OBVIOUS
  <2> QED
    BY <2>1, LenProperties
<1>2. CASE p = "ascii"
  <2>1. f.data = values
    BY <1>2 DEF WriteData
  <2>2. \A k \in 1 .. n : PlcValue(p, f, k) = values[k]
    BY <1>2, <2>1 DEF PlcValue
  <2>3. \A k \in 1 .. n : values[k] \in {0, 1}
    OBVIOUS
  <2> QED
    BY <1>1, <1>2, <2>1, <2>2, <2>3
<1>3. CASE p = "bin"
  <2>1. PICK m \in Nat : m = (n + 1) \div 2
    OBVIOUS
  <2> DEFINE High(b) == IF values[(b - 1) * 2 + 1] = 1 THEN 1 ELSE 0
             Low(b) == IF (b - 1) * 2 + 1 < m /\ values[(b - 1) * 2 + 2] = 1 THEN 1 ELSE 0
  <2>2. f.data = [b \in 1 .. m |-> (IF values[(b - 1) * 2 + 1] = 1 THEN Nibble ELSE 0)
                                   + Low(b)]
    BY <1>1, <1>3, <2>1 DEF WriteData, PackBools
  <2>3. ASSUME NEW b \in 1 .. m
        PROVE  f.data[b] = Nibble * High(b) + Low(b)
    <3>1. Nibble \in Int /\ Nibble * 1 = Nibble /\ Nibble * 0 = 0
      BY Sizes
    <3>2. f.data[b] = (IF values[(b - 1) * 2 + 1] = 1 THEN Nibble ELSE 0) + Low(b)
      BY <2>2
    <3>3. (IF values[(b - 1) * 2 + 1] = 1 THEN Nibble ELSE 0) = Nibble * High(b)
      BY <3>1
    <3> QED
      BY <3>2, <3>3
  <2>4. ASSUME NEW b \in 1 .. m
        PROVE  /\ f.data[b] \in Nat
               /\ Digit(f.data[b], Nibble, 2) = High(b) /\ Digit(f.data[b], Nibble, 1) = Low(b)
    <3>1. PICK high \in {0, 1}, low \in {0, 1} : high = High(b) /\ low = Low(b)
      OBVIOUS
    <3>2. f.data[b] = Nibble * high + low
      BY <2>3, <3>1
    <3> QED
      BY <3>1, <3>2, BitsOfByte
  <2>5. Len(f.data) = m
    <3>1. f.data \in [1 .. m -> Nat]
      BY <2>2, <2>4
    <3>2. f.data \in Seq(Nat)
      BY <3>1
    <3> QED
      BY <3>1, <3>2, LenProperties
  <2> HIDE DEF High, Low
  <2>6. ASSUME NEW k \in 1 .. n
        PROVE  \E b \in 1 .. m : \/ k = 2 * b - 1 /\ PlcValue(p, f, k) = High(b)
                                 \/ k = 2 * b /\ PlcValue(p, f, k) = Low(b)
    <3>1. PICK b \in 1 .. m : b = (k + 1) \div 2
      BY <2>1
    <3>2. PlcValue(p, f, k) = Digit(f.data[b], Nibble, 1 + (k % 2))
      BY <1>3, <3>1 DEF PlcValue
    <3>3. \/ k = 2 * b - 1 /\ 1 + (k % 2) = 2
          \/ k = 2 * b /\ 1 + (k % 2) = 1
      BY <3>1
    <3> QED
      BY <2>4, <3>2, <3>3
  <2>7. ASSUME NEW k \in 1 .. n
        PROVE  PlcValue(p, f, k) \in {0, 1}
    BY <2>6 DEF High, Low
  <2>8. ASSUME n \in {1, 3}, NEW k \in 1 .. n
        PROVE  PlcValue(p, f, k) = values[k]
    <3>1. PICK b \in 1 .. m : \/ k = 2 * b - 1 /\ PlcValue(p, f, k) = High(b)
                              \/ k = 2 * b /\ PlcValue(p, f, k) = Low(b)
      BY <2>6
    <3>2. values[k] \in {0, 1}
      OBVIOUS
    <3>3. CASE k = 2 * b - 1 /\ PlcValue(p, f, k) = High(b)
      <4>1. (b - 1) * 2 + 1 = k
        BY <3>3
      <4> QED
        BY <3>2, <3>3, <4>1 DEF High
    <3>4. CASE k = 2 * b /\ PlcValue(p, f, k) = Low(b)
      <4>1. (b - 1) * 2 + 2 = k /\ (b - 1) * 2 + 1 < m
        BY <2>1, <2>8, <3>4
      <4> QED
        BY <3>2, <3>4, <4>1 DEF Low
    <3> QED
      BY <3>1, <3>3, <3>4
  <2> QED
    BY <1>3, <2>1, <2>5, <2>7, <2>8
<1> QED
  BY <1>2, <1>3

\* The first bits of a longer sequence.
LEMMA FirstBits ==
  ASSUME NEW n \in Nat, NEW b, \A k \in 1 .. n : b[k] \in {0, 1}
  PROVE  SubSeq(b, 1, n) = [k \in 1 .. n |-> b[k]]
<1>1. /\ SubSeq(b, 1, n) \in Seq({0, 1})
      /\ Len(SubSeq(b, 1, n)) = IF 1 <= n THEN n - 1 + 1 ELSE 0
      /\ \A i \in 1 .. n - 1 + 1 : SubSeq(b, 1, n)[i] = b[1 + i - 1]
  BY SubSeqProperties
<1>2. PICK s \in Seq({0, 1}) : s = SubSeq(b, 1, n)
  BY <1>1
<1>3. Len(s) = n /\ \A i \in 1 .. n : s[i] = b[i]
  BY <1>1, <1>2
<1>4. DOMAIN s = 1 .. n /\ s = [i \in 1 .. n |-> s[i]]
  BY <1>3
<1> QED
  BY <1>2, <1>3, <1>4

\* The bits of a response are read as they are, whatever their number.
LEMMA ReadBits ==
  ASSUME NEW p \in {"bin", "ascii"}, NEW n \in Nat, NEW f, f.bits, f.points = n,
         NEW v \in [1 .. n -> {0, 1}], v = [k \in 1 .. f.points |-> mem[PlcCell(f, k)]]
  PROVE  Values(p, "bool", n, PlcData(p, f)) = v
<1>1. PICK d : d = PlcData(p, f)
  OBVIOUS
<1>2. \A k \in 1 .. n : v[k] \in {0, 1}
  OBVIOUS
<1>3. CASE p = "ascii"
  <2>1. d = v
    BY <1>1, <1>3 DEF PlcData
  <2>2. Len(d) = n
    <3>1. v \in Seq({0, 1})
      OBVIOUS
    <3> QED
      BY <2>1, <3>1, LenProperties
  <2>3. Values(p, "bool", n, d) = SubSeq(v, 1, n)
    BY <1>3, <2>1, <2>2 DEF Values
  <2>4. SubSeq(v, 1, n) = [k \in 1 .. n |-> v[k]]
    BY <1>2, FirstBits
  <2> QED
    BY <1>1, <2>3, <2>4
<1>4. CASE p = "bin"
  <2>1. PICK m \in Nat : m = (n + 1) \div 2
    OBVIOUS
  <2> DEFINE Low(b) == IF 2 * b <= n THEN v[2 * b] ELSE 0
  <2>2. d = [b \in 1 .. m |-> Nibble * v[2 * b - 1] + Low(b)]
    BY <1>1, <1>4, <2>1 DEF PlcData
  <2>3. ASSUME NEW b \in 1 .. m
        PROVE  /\ d[b] \in Nat
               /\ (d[b] \div Nibble) % 2 = v[2 * b - 1] /\ d[b] % 2 = Low(b)
    <3>1. PICK high \in {0, 1}, low \in {0, 1} : high = v[2 * b - 1] /\ low = Low(b)
      <4>1. 2 * b - 1 \in 1 .. n
        BY <2>1
      <4>2. 2 * b <= n => 2 * b \in 1 .. n
        BY <2>1
      <4> QED
        BY <1>2, <4>1, <4>2
    <3>2. d[b] = Nibble * high + low
      BY <2>2, <3>1
    <3> QED
      BY <3>1, <3>2, BitsOfByte
  <2>4. Len(d) = m
    <3>1. d \in [1 .. m -> Nat]
      BY <2>2, <2>3
    <3>2. d \in Seq(Nat)
      BY <3>1
    <3> QED
      BY <3>1, <3>2, LenProperties
  <2>5. PICK bits : bits = ExtractBools(d)
    OBVIOUS
  <2>6. bits = [k \in 1 .. 2 * m |-> IF k % 2 = 1 THEN (d[(k + 1) \div 2] \div Nibble) % 2
                                                  ELSE d[(k + 1) \div 2] % 2]
    BY <2>4, <2>5 DEF ExtractBools
  <2>7. ASSUME NEW k \in 1 .. n
        PROVE  bits[k] = v[k]
    <3>1. PICK b \in 1 .. m : b = (k + 1) \div 2 /\ k \in 1 .. 2 * m
      BY <2>1
    <3>2. CASE k % 2 = 1
      <4>1. k = 2 * b - 1
        BY <3>1, <3>2
      <4> QED
        BY <2>3, <2>6, <3>1, <3>2, <4>1
    <3>3. CASE k % 2 # 1
      <4>1. k = 2 * b
        BY <3>1, <3>3
      <4>2. Low(b) = v[k]
        BY <4>1
      <4> QED
        BY <2>3, <2>6, <3>1, <3>3, <4>2
    <3> QED
      BY <3>2, <3>3
  <2>8. Len(bits) = 2 * m
    <3>1. DOMAIN bits = 1 .. 2 * m /\ bits = [j \in 1 .. 2 * m |-> bits[j]]
      BY <2>6
    <3>2. bits \in Seq({bits[j] : j \in 1 .. 2 * m})
      BY <3>1
    <3> QED
      BY <3>1, <3>2, LenProperties
  <2>9. Values(p, "bool", n, d) = SubSeq(bits, 1, n)
    BY <1>4, <2>1, <2>5, <2>8 DEF Values
  <2>10. SubSeq(bits, 1, n) = [k \in 1 .. n |-> bits[k]]
    BY <1>2, <2>7, FirstBits
  <2> QED
    BY <1>1, <2>7, <2>9, <2>10
<1> QED
  BY <1>3, <1>4

-----------------------------------------------------------------------------
(* Addresses and frames. *)

\* Device numbers are decimal or hexadecimal.
LEMMA Bases ==
  /\ \A letters \in DOMAIN FromBase : FromBase[letters] \in {10, 16}
  /\ "zero" \notin DOMAIN FromBase
  BY DEF FromBase

\* An int written in decimal or hexadecimal loses at most four digits before the
\* rest has six.
LEMMA Prefixes ==
  ASSUME NEW v \in Nat, v <= MaxInt, NEW base \in {10, 16}
  PROVE  \E s2 \in Nat, s3 \in Nat, s4 \in Nat, s5 \in Nat :
           /\ v >= s2 /\ s2 >= s3 /\ s3 >= s4 /\ s4 >= s5 /\ s5 < SixDigits(base)
           /\ {Shifts(v, base)[k] : k \in 1 .. 5} = {v, s2, s3, s4, s5}
<1>1. PICK s2 \in Nat : /\ s2 = v \div base /\ v >= s2
                        /\ 10 * s2 <= v /\ (base = 16 => 16 * s2 <= v)
  OBVIOUS
<1>2. PICK s3 \in Nat : /\ s3 = s2 \div base /\ s2 >= s3
                        /\ 10 * s3 <= s2 /\ (base = 16 => 16 * s3 <= s2)
  OBVIOUS
<1>3. PICK s4 \in Nat : /\ s4 = s3 \div base /\ s3 >= s4
                        /\ 10 * s4 <= s3 /\ (base = 16 => 16 * s4 <= s3)
  OBVIOUS
<1>4. PICK s5 \in Nat : /\ s5 = s4 \div base /\ s4 >= s5
                        /\ 10 * s5 <= s4 /\ (base = 16 => 16 * s5 <= s4)
  OBVIOUS
<1>5. s5 < SixDigits(base)
  <2>1. v <= 2147483647
    BY SMT DEF MaxInt
  <2> QED
    BY <1>1, <1>2, <1>3, <1>4, <2>1, SMT DEF SixDigits
<1>6. /\ Shifts(v, base)[1] = v /\ Shifts(v, base)[2] = s2 /\ Shifts(v, base)[3] = s3
      /\ Shifts(v, base)[4] = s4 /\ Shifts(v, base)[5] = s5
  <2>1. PICK b \in Int : b = base
    OBVIOUS
  <2> QED
    BY <1>1, <1>2, <1>3, <1>4, <2>1 DEF Shifts
<1>7. {Shifts(v, base)[k] : k \in 1 .. 5} = {v, s2, s3, s4, s5}
  <2>1. 1 .. 5 = {1, 2, 3, 4, 5}
    OBVIOUS
  <2> QED
    BY <1>6, <2>1
<1>8. v >= s2 /\ s2 >= s3 /\ s3 >= s4 /\ s4 >= s5
  BY <1>1, <1>2, <1>3, <1>4
<1> WITNESS s2 \in Nat, s3 \in Nat, s4 \in Nat, s5 \in Nat
<1> QED
  BY <1>5, <1>7, <1>8

\* The six characters of an ASCII frame hold a number of three bytes, the device's
\* own if that has six digits.
LEMMA AsciiNumber ==
  ASSUME NEW device \in {"zero"} \cup DOMAIN FromBase, NEW start \in Nat, start <= MaxInt
  PROVE  /\ AsciiStart(device, start) \in 0 .. 256 * 256 * 256 - 1
         /\ device # "zero" /\ start < SixDigits(FromBase[device]) =>
              AsciiStart(device, start) = start
<1>1. PICK base \in {10, 16} : base = IF device = "zero" THEN 10 ELSE FromBase[device]
  BY Bases
<1>2. PICK s2 \in Nat, s3 \in Nat, s4 \in Nat, s5 \in Nat :
        /\ start >= s2 /\ s2 >= s3 /\ s3 >= s4 /\ s4 >= s5 /\ s5 < SixDigits(base)
        /\ {Shifts(start, base)[k] : k \in 1 .. 5} = {start, s2, s3, s4, s5}
  BY Prefixes
<1>3. PICK limit \in Nat : limit = SixDigits(base) /\ limit <= 256 * 256 * 256
  BY DEF SixDigits
<1>4. PICK fitting : /\ fitting = {n \in {start, s2, s3, s4, s5} : n < limit}
                     /\ AsciiStart(device, start)
                          = CHOOSE n \in fitting : \A m \in fitting : m <= n
  <2>1. PICK prefixes : prefixes = {Shifts(start, base)[k] : k \in 1 .. 5}
    OBVIOUS
  <2>2. AsciiStart(device, start)
          = CHOOSE n \in {x \in prefixes : x < limit} :
              \A m \in {x \in prefixes : x < limit} : m <= n
    BY <1>1, <1>3, <2>1 DEF AsciiStart
  <2> QED
    BY <1>2, <2>1, <2>2, ZenonT(60)
<1>5. \E n \in fitting : \A m \in fitting : m <= n
  <2>1. CASE start < limit
    BY <1>2, <1>4, <2>1
  <2>2. CASE start >= limit /\ s2 < limit
    BY <1>2, <1>4, <2>2
  <2>3. CASE s2 >= limit /\ s3 < limit
    BY <1>2, <1>4, <2>3
  <2>4. CASE s3 >= limit /\ s4 < limit
    BY <1>2, <1>4, <2>4
  <2>5. CASE s4 >= limit
    BY <1>2, <1>3, <1>4, <2>5
  <2> QED
    BY <2>1, <2>2, <2>3, <2>4, <2>5
<1>6. PICK most : /\ most = AsciiStart(device, start)
                  /\ most \in fitting /\ \A m \in fitting : m <= most
  BY <1>4, <1>5
<1>7. most \in Nat /\ most < limit /\ most <= start
  <2>1. most < limit /\ (most = start \/ most = s2 \/ most = s3 \/ most = s4 \/ most = s5)
    BY <1>4, <1>6
  <2>2. start >= s2 /\ start >= s3 /\ start >= s4 /\ start >= s5
    BY <1>2
  <2> QED
    BY <2>1, <2>2
<1>8. start < limit => start <= most
  BY <1>4, <1>6
<1>9. PICK size \in Nat \ {0} : size = 256 * 256 * 256 /\ limit <= size
  BY <1>3
<1>10. device # "zero" => SixDigits(FromBase[device]) = limit
  BY <1>1, <1>3
<1>11. most \in 0 .. size - 1 /\ (start < limit => most = start)
  <2>1. PICK top \in Nat : top = most
    BY <1>7
  <2>2. top < limit /\ top <= start /\ (start < limit => start <= top)
    BY <1>7, <1>8, <2>1
  <2>3. limit <= size
    BY <1>9
  <2>4. top <= size - 1
    BY <2>2, <2>3
  <2>5. start < limit => top = start
    BY <2>2
  <2> QED
    BY <2>1, <2>4, <2>5
<1> QED
  BY <1>6, <1>9, <1>10, <1>11

\* A binary frame holds it modulo three bytes.
LEMMA BinNumber ==
  ASSUME NEW device, NEW start \in Nat
  PROVE  /\ BinStart(device, start) \in 0 .. 256 * 256 * 256 - 1
         /\ device \in DOMAIN FromBase /\ start < SixDigits(FromBase[device]) =>
              BinStart(device, start) = start
<1>1. PICK size \in Nat \ {0} : size = 256 * 256 * 256
  OBVIOUS
<1>2. ASSUME device \in DOMAIN FromBase
      PROVE  SixDigits(FromBase[device]) \in Int /\ SixDigits(FromBase[device]) <= size
  BY <1>1, <1>2, Bases DEF SixDigits
<1>3. start % size \in 0 .. size - 1 /\ (start < size => start % size = start)
  OBVIOUS
<1>4. BinStart(device, start) = start % size
  BY <1>1 DEF BinStart
<1>5. ASSUME device \in DOMAIN FromBase, start < SixDigits(FromBase[device])
      PROVE  start < size
  BY <1>2, <1>5
<1> QED
  BY <1>1, <1>3, <1>4, <1>5, ZenonT(60)

\* The calls that callers make.
IsCall(r) ==
  /\ r.op \in {"read", "write"}
  /\ r.proto \in Protocols
  /\ r.type \in Types
  /\ r.address \in Addresses
  /\ r.n \in Counts
  /\ r.values \in IF r.op = "write" THEN [1 .. r.n -> ItemsOf[r.type]] ELSE {<<>>}

\* Their arguments.
LEMMA CallTypes ==
  ASSUME NEW r, IsCall(r)
  PROVE  /\ r.proto \in {"bin", "ascii"} /\ r.n \in Nat \ {0}
         /\ r.type = "bool" \/ r.type \in DOMAIN Words
         /\ PointsOf(r.type, r.n) \in Nat \ {0}
         /\ r.op = "write" /\ r.type = "bool" => r.values \in [1 .. r.n -> {0, 1}]
         /\ r.op = "write" /\ r.type # "bool" =>
              /\ r.values \in [1 .. r.n -> Int]
              /\ \A i \in 1 .. r.n : InRange(r.values[i], r.type)
<1>1. r.proto \in {"bin", "ascii"} /\ r.n \in Nat \ {0}
  BY FrameAssumption DEF IsCall
<1>2. r.type = "bool" \/ r.type \in DOMAIN Words
  BY TypeAssumption DEF IsCall
<1>3. PointsOf(r.type, r.n) \in Nat \ {0}
  <2>1. CASE r.type = "bool"
    BY <1>1, <2>1 DEF PointsOf
  <2>2. CASE r.type # "bool"
    <3>1. Words[r.type] = 1 \/ Words[r.type] = 2 \/ Words[r.type] = 4
      BY <1>2, <2>2, WordsOfTypes
    <3>2. PointsOf(r.type, r.n) = r.n * Words[r.type]
      BY <2>2 DEF PointsOf
    <3> QED
      BY <1>1, <3>1, <3>2
  <2> QED
    BY <2>1, <2>2
<1>4. /\ r.type = "bool" => ItemsOf[r.type] \subseteq {0, 1}
      /\ r.type # "bool" => /\ ItemsOf[r.type] \subseteq Int
                            /\ \A v \in ItemsOf[r.type] : InRange(v, r.type)
  BY TypeAssumption DEF IsCall, IsItem
<1>5. r.op = "write" => r.values \in [1 .. r.n -> ItemsOf[r.type]]
  BY DEF IsCall
<1> QED
  BY <1>1, <1>2, <1>3, <1>4, <1>5

\* The fields of a frame.
LEMMA PackFields ==
  ASSUME NEW r
  PROVE  LET f == Pack(r)
             a == Analysis(r.address)
         IN  /\ f.op = r.op /\ f.device = a.device
             /\ f.bits <=> r.type = "bool"
             /\ r.proto = "bin" => f.start = BinStart(a.device, a.start)
             /\ r.proto # "bin" => f.start = AsciiStart(a.device, a.start)
             /\ f.points = PointsOf(r.type, r.n) % FieldSize
             /\ f.len = LengthField(r.proto, CoreHeader(r.proto) + Len(f.data))
             /\ r.op = "write" => f.data = WriteData(r.proto, r.type, r.values)
             /\ r.op # "write" => f.data = <<>>
  BY DEF Pack

\* The length of the data a frame carries.
LEMMA DataLength ==
  ASSUME NEW r, IsCall(r)
  PROVE  LET f == Pack(r)
             points == PointsOf(r.type, r.n)
         IN  Len(f.data) = CASE r.op = "read" -> 0
                             [] r.op = "write" /\ r.type = "bool" ->
                                  IF r.proto = "bin" THEN (points + 1) \div 2 ELSE points
                             [] OTHER -> points * (IF r.proto = "bin" THEN 2 ELSE 4)
<1>1. r.op = "read" \/ r.op = "write"
  BY DEF IsCall
<1>2. CASE r.op = "read"
  <2>1. Pack(r).data = <<>> /\ Len(<<>>) = 0
    BY <1>2, PackFields
  <2> QED
    BY <1>2, <2>1
<1>3. CASE r.op = "write" /\ r.type = "bool"
  <2>1. Pack(r).bits /\ Pack(r).data = WriteData(r.proto, "bool", r.values)
    BY <1>3, PackFields
  <2>2. Len(Pack(r).data) = IF r.proto = "bin" THEN (r.n + 1) \div 2 ELSE r.n
    <3>1. /\ r.proto \in {"bin", "ascii"} /\ r.n \in Nat \ {0}
          /\ r.values \in [1 .. r.n -> {0, 1}]
      BY <1>3, CallTypes
    <3> QED
      BY <2>1, <3>1, WriteBits
  <2>3. PointsOf(r.type, r.n) = r.n
    BY <1>3 DEF PointsOf
  <2> QED
    BY <1>3, <2>2, <2>3
<1>4. CASE r.op = "write" /\ r.type # "bool"
  <2>1. ~Pack(r).bits /\ Pack(r).data = WriteData(r.proto, r.type, r.values)
    BY <1>4, PackFields
  <2>2. Len(Pack(r).data) = (r.n * Words[r.type]) * (IF r.proto = "bin" THEN 2 ELSE 4)
    <3>1. /\ r.proto \in {"bin", "ascii"} /\ r.n \in Nat \ {0}
          /\ r.type \in DOMAIN Words /\ r.values \in [1 .. r.n -> Int]
      BY <1>4, CallTypes
    <3> QED
      BY <2>1, <3>1, WriteWords
  <2>3. PointsOf(r.type, r.n) = r.n * Words[r.type]
    BY <1>4 DEF PointsOf
  <2> QED
    BY <1>4, <2>2, <2>3
<1> QED
  BY <1>1, <1>2, <1>3, <1>4

\* The device a frame names, and its number.
LEMMA Place ==
  ASSUME NEW r, IsCall(r)
  PROVE  LET f == Pack(r)
             a == r.address
         IN  /\ f.start \in 0 .. 256 * 256 * 256 - 1
             /\ f.device \in DOMAIN FromBase => f.device = a.cell[1]
             /\ a.cell[1] \in DOMAIN FromBase /\ a.cell[2] < SixDigits(FromBase[a.cell[1]]) =>
                  f.device = a.cell[1] /\ f.start = a.cell[2]
<1>1. PICK a : a = r.address
  OBVIOUS
<1>2. /\ a.cell \in STRING \X Nat /\ a.cell[1] = a.letters
      /\ a.letters \in DOMAIN FromBase =>
           a.cell[2] = Number(a.digits, FromBase[a.letters]) /\ a.cell[2] <= MaxInt
  BY <1>1, AddressAssumption DEF IsCall
<1>3. r.proto = "bin" \/ r.proto = "ascii"
  BY CallTypes
<1>4. CASE a.letters \in DOMAIN FromBase
  <2>1. PICK start \in Nat : start = a.cell[2] /\ start <= MaxInt
    BY <1>2, <1>4
  <2>2. Analysis(a) = [device |-> a.letters, start |-> start]
    BY <1>2, <1>4, <2>1 DEF Analysis
  <2>3. /\ Pack(r).device = a.letters
        /\ r.proto = "bin" => Pack(r).start = BinStart(a.letters, start)
        /\ r.proto = "ascii" => Pack(r).start = AsciiStart(a.letters, start)
    <3>1. Analysis(a).device = a.letters /\ Analysis(a).start = start
      BY <2>2
    <3> QED
      BY <1>1, <3>1, PackFields
  <2>4. a.letters # "zero" /\ a.letters \in {"zero"} \cup DOMAIN FromBase
    BY <1>4, Bases
  <2>5. /\ Pack(r).start \in 0 .. 256 * 256 * 256 - 1
        /\ start < SixDigits(FromBase[a.letters]) => Pack(r).start = start
    <3>1. PICK device \in {"zero"} \cup DOMAIN FromBase : device = a.letters
      BY <2>4
    <3>2. /\ AsciiStart(device, start) \in 0 .. 256 * 256 * 256 - 1
          /\ device # "zero" /\ start < SixDigits(FromBase[device]) =>
               AsciiStart(device, start) = start
      BY <2>1, AsciiNumber
    <3>3. /\ BinStart(device, start) \in 0 .. 256 * 256 * 256 - 1
          /\ device \in DOMAIN FromBase /\ start < SixDigits(FromBase[device]) =>
               BinStart(device, start) = start
      BY BinNumber
    <3> HIDE DEF BinStart, AsciiStart
    <3> QED
      BY <1>3, <1>4, <2>3, <2>4, <3>1, <3>2, <3>3, ZenonT(60)
  <2> QED
    BY <1>1, <1>2, <2>1, <2>3, <2>5
<1>5. CASE a.letters \notin DOMAIN FromBase
  <2>1. Analysis(a) = [device |-> "zero", start |-> 0]
    BY <1>5 DEF Analysis
  <2>2. /\ Pack(r).device = "zero"
        /\ r.proto = "bin" => Pack(r).start = BinStart("zero", 0)
        /\ r.proto = "ascii" => Pack(r).start = AsciiStart("zero", 0)
    <3>1. Analysis(a).device = "zero" /\ Analysis(a).start = 0
      BY <2>1
    <3> QED
      BY <1>1, <3>1, PackFields
  <2>3. 0 \in Nat /\ 0 <= MaxInt
    BY SMT DEF MaxInt
  <2>4. Pack(r).start \in 0 .. 256 * 256 * 256 - 1
    <3>1. PICK device \in {"zero"} \cup DOMAIN FromBase : device = "zero"
      OBVIOUS
    <3>2. AsciiStart(device, 0) \in 0 .. 256 * 256 * 256 - 1
      BY <2>3, AsciiNumber
    <3>3. BinStart(device, 0) \in 0 .. 256 * 256 * 256 - 1
      BY <2>3, BinNumber
    <3> QED
      BY <1>3, <2>2, <3>1, <3>2, <3>3, Zenon
  <2> QED
    BY <1>1, <1>2, <1>5, <2>2, <2>4, Bases
<1> QED
  BY <1>4, <1>5

\* A number in a field is itself or has lost a multiple of the field's size.
LEMMA Wrap ==
  ASSUME NEW x \in Nat, NEW size \in Nat \ {0}
  PROVE  x % size \in 0 .. size - 1 /\ (x % size = x \/ (x % size) + size <= x)
<1>1. PICK q \in Int, r \in 0 .. size - 1 :
        r = x % size /\ q = x \div size /\ x = r + size * q
  BY DivInt
<1>2. CASE q <= 0
  <2>1. q = 0
    <3>1. SUFFICES ASSUME q <= -1
                   PROVE  FALSE
      BY <1>2
    <3>2. size * q <= - size
      BY <3>1
    <3> QED
      BY <1>1, <3>2
  <2> QED
    BY <1>1, <2>1
<1>3. CASE q >= 1
  <2>1. size * q >= size
    BY <1>3
  <2> QED
    BY <1>1, <2>1
<1> QED
  BY <1>1, <1>2, <1>3

\* What the PLC's answer says of a frame: its points are those of the call, or
\* fewer, if their number has wrapped.
LEMMA Accepted ==
  ASSUME NEW r, IsCall(r), PlcAccepts(r.proto, Pack(r))
  PROVE  LET f == Pack(r)
         IN  /\ f.points \in Nat \ {0}
             /\ f.points = PointsOf(r.type, r.n) \/ f.points + 1 < PointsOf(r.type, r.n)
             /\ \A k \in 1 .. f.points : PlcCell(f, k) \in Cells
             /\ f.device \in DOMAIN FromBase /\ f.device = r.address.cell[1]
             /\ f.start \in Nat
             /\ r.type = "bool" <=> f.device \in BitDevices
<1>1. PICK points \in Nat \ {0} : points = PointsOf(r.type, r.n)
  BY CallTypes
<1>2. PICK size \in Nat \ {0} : size = FieldSize
  BY FrameAssumption
<1>3. PICK got \in Nat : /\ got = Pack(r).points /\ got <= size - 1
                         /\ got = points \/ got + size <= points
  <2>1. /\ points % size \in 0 .. size - 1
        /\ points % size = points \/ (points % size) + size <= points
    BY Wrap
  <2>2. Pack(r).points = points % size
    BY <1>1, <1>2, PackFields
  <2> QED
    BY <2>1, <2>2
<1>4. got > 0
  BY <1>3 DEF PlcAccepts
<1>5. got = points \/ got + 1 < points
  BY <1>3, <1>4
<1>6. \A k \in 1 .. got : PlcCell(Pack(r), k) \in Cells
  BY <1>3 DEF PlcAccepts
<1>7. Pack(r).device \in DOMAIN FromBase
  <2>1. PlcCell(Pack(r), 1) \in Cells
    BY <1>4, <1>6
  <2>2. PlcCell(Pack(r), 1) \in (DOMAIN FromBase) \X Nat
    BY <2>1, CellAssumption
  <2> QED
    BY <2>2 DEF PlcCell
<1>8. Pack(r).device = r.address.cell[1] /\ Pack(r).start \in Nat
  <2>1. /\ Pack(r).start \in 0 .. 256 * 256 * 256 - 1
        /\ Pack(r).device = r.address.cell[1]
    BY <1>7, Place
  <2>2. PICK top \in Int : top = 256 * 256 * 256 - 1
    OBVIOUS
  <2>3. Pack(r).start \in 0 .. top
    BY <2>1, <2>2
  <2>4. Pack(r).start \in Nat
    BY <2>3
  <2> QED
    BY <2>1, <2>4, Zenon
<1>9. r.type = "bool" <=> Pack(r).device \in BitDevices
  BY PackFields DEF PlcAccepts
<1> QED
  BY <1>1, <1>3, <1>4, <1>5, <1>6, <1>7, <1>8, <1>9

\* Bits are values of a word.
LEMMA BitsAreWords ==
  0 \in 0 .. Word - 1 /\ 1 \in 0 .. Word - 1
<1>1. PICK b \in Int : b = Nibble /\ b >= 2
  BY FrameAssumption
<1>2. b * b >= 2 * b
  BY <1>1
<1>3. PICK c \in Int : c = Byte /\ c >= 2
  BY <1>1, <1>2 DEF Byte
<1>4. c * c >= 2 * c
  BY <1>3
<1>5. PICK w \in Int : w = Word /\ w >= 2
  BY <1>3, <1>4 DEF Word
<1> QED
  BY <1>5

\* An accepted write gives the devices the values of the call's cells, all or the
\* first of them; binary bools are what the caller wrote in calls of one or three
\* only.
LEMMA WrittenValues ==
  ASSUME NEW r, IsCall(r), PlcAccepts(r.proto, Pack(r)), r.op = "write"
  PROVE  LET f == Pack(r)
         IN  /\ \A k \in 1 .. f.points :
                  /\ PlcValue(r.proto, f, k) \in 0 .. Word - 1
                  /\ r.type = "bool" => PlcValue(r.proto, f, k) \in {0, 1}
             /\ r.type # "bool" \/ r.proto = "ascii" \/ r.n \in {1, 3} =>
                  \A k \in 1 .. f.points :
                    PlcValue(r.proto, f, k) = CellValues(r.type, r.values)[k]
<1>1. 1 .. Pack(r).points \subseteq 1 .. PointsOf(r.type, r.n)
  <2>1. PICK points \in Nat : points = PointsOf(r.type, r.n)
    BY CallTypes
  <2>2. PICK got \in Nat : got = Pack(r).points /\ (got = points \/ got + 1 < points)
    BY <2>1, Accepted
  <2> QED
    BY <2>1, <2>2
<1>2. /\ Pack(r).data = WriteData(r.proto, r.type, r.values)
      /\ Pack(r).bits <=> r.type = "bool"
  BY PackFields
<1>3. r.proto \in {"bin", "ascii"} /\ r.n \in Nat
  BY CallTypes
<1>4. CASE r.type = "bool"
  <2>1. r.values \in [1 .. r.n -> {0, 1}] /\ 1 .. Pack(r).points \subseteq 1 .. r.n
    BY <1>1, <1>4, CallTypes DEF PointsOf
  <2>2. /\ \A k \in 1 .. r.n : PlcValue(r.proto, Pack(r), k) \in {0, 1}
        /\ r.proto = "ascii" \/ r.n \in {1, 3} =>
             \A k \in 1 .. r.n : PlcValue(r.proto, Pack(r), k) = r.values[k]
    BY <1>2, <1>3, <1>4, <2>1, WriteBits
  <2>3. CellValues(r.type, r.values) = r.values
    BY <1>4 DEF CellValues
  <2> QED
    BY <1>4, <2>1, <2>2, <2>3, BitsAreWords
<1>5. CASE r.type # "bool"
  <2>1. /\ r.type \in DOMAIN Words /\ r.values \in [1 .. r.n -> Int]
        /\ 1 .. Pack(r).points \subseteq 1 .. r.n * Words[r.type]
    BY <1>1, <1>5, CallTypes DEF PointsOf
  <2>2. \A k \in 1 .. r.n * Words[r.type] :
          PlcValue(r.proto, Pack(r), k) = CellValues(r.type, r.values)[k]
    BY <1>2, <1>3, <1>5, <2>1, WriteWords
  <2>3. CellValues(r.type, r.values) \in [1 .. r.n * Words[r.type] -> 0 .. Word - 1]
    BY <1>3, <2>1, ItemsAreWords
  <2> QED
    BY <1>5, <2>1, <2>2, <2>3
<1> QED
  BY <1>4, <1>5

\* The length of a sequence given by its elements.
LEMMA LenOf ==
  ASSUME NEW m \in Nat, NEW s, DOMAIN s = 1 .. m, s = [k \in 1 .. m |-> s[k]]
  PROVE  Len(s) = m
<1>1. s \in Seq({s[k] : k \in 1 .. m})
  OBVIOUS
<1> QED
  BY <1>1, LenProperties

\* A response to fewer points than the call asked for gives no values.
LEMMA ShortResponse ==
  ASSUME NEW p \in {"bin", "ascii"}, NEW type, type = "bool" \/ type \in DOMAIN Words,
         NEW n \in Nat, NEW f, f.bits <=> type = "bool", f.points \in Nat,
         f.points + 1 < PointsOf(type, n)
  PROVE  Values(p, type, n, PlcData(p, f)) = <<>>
<1>1. PICK m \in Nat : m = f.points
  OBVIOUS
<1>2. PICK d : d = PlcData(p, f)
  OBVIOUS
<1> DEFINE v == [k \in 1 .. m |-> mem[PlcCell(f, k)]]
<1>3. CASE type = "bool"
  <2>1. m + 1 < n
    BY <1>1, <1>3 DEF PointsOf
  <2>2. CASE p = "ascii"
    <3>1. d = v
      BY <1>1, <1>2, <1>3, <2>2 DEF PlcData
    <3>2. DOMAIN d = 1 .. m /\ d = [k \in 1 .. m |-> d[k]]
      BY <3>1
    <3>3. Len(d) = m
      BY <3>2, LenOf
    <3> QED
      BY <1>2, <1>3, <2>1, <2>2, <3>3 DEF Values
  <2>3. CASE p = "bin"
    <3>1. PICK h \in Nat : h = (m + 1) \div 2 /\ 2 * h < n
      BY <2>1
    <3>2. d = [b \in 1 .. h |-> Nibble * v[2 * b - 1] + (IF 2 * b <= m THEN v[2 * b] ELSE 0)]
      BY <1>1, <1>2, <1>3, <2>3, <3>1 DEF PlcData
    <3>3. DOMAIN d = 1 .. h /\ d = [k \in 1 .. h |-> d[k]]
      BY <3>2
    <3>4. Len(d) = h
      BY <3>3, LenOf
    <3>5. PICK bits : bits = ExtractBools(d)
      OBVIOUS
    <3>6. DOMAIN bits = 1 .. 2 * h /\ bits = [k \in 1 .. 2 * h |-> bits[k]]
      BY <3>4, <3>5 DEF ExtractBools
    <3>7. Len(bits) = 2 * h
      BY <3>6, LenOf
    <3> QED
      BY <1>2, <1>3, <2>3, <3>1, <3>5, <3>7 DEF Values
  <2> QED
    BY <2>2, <2>3
<1>4. CASE type # "bool"
  <2>1. 2 * m < n * 2 * Words[type]
    <3>1. Words[type] = 1 \/ Words[type] = 2 \/ Words[type] = 4
      BY <1>4, WordsOfTypes
    <3>2. m + 1 < n * Words[type]
      BY <1>1, <1>4 DEF PointsOf
    <3> QED
      BY <3>1, <3>2
  <2>2. CASE p = "bin"
    <3>1. d = [b \in 1 .. 2 * m |-> Digit(v[(b + 1) \div 2], Byte, 2 - (b % 2))]
      BY <1>1, <1>2, <1>4, <2>2 DEF PlcData
    <3>2. DOMAIN d = 1 .. 2 * m /\ d = [k \in 1 .. 2 * m |-> d[k]]
      BY <3>1
    <3>3. Len(d) = 2 * m
      BY <3>2, LenOf
    <3>4. ~(Len(d) >= n * 2 * Words[type])
      <4>1. Words[type] \in {1, 2, 4}
        BY <1>4, WordsOfTypes
      <4>2. n * 2 * Words[type] \in Int
        BY <4>1
      <4> QED
        BY <2>1, <3>3, <4>2
    <3> QED
      BY <1>2, <1>4, <2>2, <3>4 DEF Values
  <2>3. CASE p = "ascii"
    <3>1. d = [j \in 1 .. 4 * m |-> Digit(v[(j + 3) \div 4], Nibble, 4 - ((j - 1) % 4))]
      BY <1>1, <1>2, <1>4, <2>3 DEF PlcData
    <3>2. DOMAIN d = 1 .. 4 * m /\ d = [k \in 1 .. 4 * m |-> d[k]]
      BY <3>1
    <3>3. Len(d) = 4 * m
      BY <3>2, LenOf
    <3>4. PICK b : b = SwapWords(FromHex(d))
      OBVIOUS
    <3>5. DOMAIN b = 1 .. 2 * m /\ b = [k \in 1 .. 2 * m |-> b[k]]
      BY <3>3, <3>4 DEF SwapWords, FromHex
    <3>6. Len(b) = 2 * m
      BY <3>5, LenOf
    <3>7. ~(Len(b) >= n * 2 * Words[type])
      <4>1. Words[type] \in {1, 2, 4}
        BY <1>4, WordsOfTypes
      <4>2. n * 2 * Words[type] \in Int
        BY <4>1
      <4> QED
        BY <2>1, <3>6, <4>2
    <3> QED
      BY <1>2, <1>4, <2>3, <3>4, <3>7 DEF Values
  <2> QED
    BY <2>2, <2>3
<1> QED
  BY <1>3, <1>4

-----------------------------------------------------------------------------
(* The invariant. *)

\* What the devices hold.
MemOK ==
  /\ mem \in [Cells -> 0 .. Word - 1]
  /\ \A c \in Cells : c[1] \in BitDevices => mem[c] \in {0, 1}

\* A read gives values of its type, and those that the devices of its frame hold
\* if the number of points has not wrapped; none if it has.
LEMMA ReadValues ==
  ASSUME NEW r, IsCall(r), MemOK, PlcAccepts(r.proto, Pack(r)), r.op = "read"
  PROVE  LET f == Pack(r)
             values == Values(r.proto, r.type, r.n, PlcData(r.proto, f))
         IN  /\ \A k \in DOMAIN values : IsItem(values[k], r.type)
             /\ f.points = PointsOf(r.type, r.n) =>
                  CellValues(r.type, values) = [k \in 1 .. f.points |-> mem[PlcCell(f, k)]]
             /\ f.points # PointsOf(r.type, r.n) => values = <<>>
<1>1. PICK f : f = Pack(r)
  OBVIOUS
<1>2. PICK values : values = Values(r.proto, r.type, r.n, PlcData(r.proto, f))
  OBVIOUS
<1>3. /\ f.points \in Nat \ {0}
      /\ f.points = PointsOf(r.type, r.n) \/ f.points + 1 < PointsOf(r.type, r.n)
      /\ \A k \in 1 .. f.points : PlcCell(f, k) \in Cells
      /\ r.type = "bool" <=> f.device \in BitDevices
  BY <1>1, Accepted
<1>4. f.bits <=> r.type = "bool"
  BY <1>1, PackFields
<1>5. /\ r.proto \in {"bin", "ascii"} /\ r.n \in Nat
      /\ r.type = "bool" \/ r.type \in DOMAIN Words
  BY CallTypes
<1>6. PICK v : v = [k \in 1 .. f.points |-> mem[PlcCell(f, k)]]
  OBVIOUS
<1>7. v \in [1 .. f.points -> 0 .. Word - 1]
  BY <1>3, <1>6 DEF MemOK
<1>8. r.type = "bool" => v \in [1 .. f.points -> {0, 1}]
  <2> SUFFICES ASSUME r.type = "bool", NEW k \in 1 .. f.points
               PROVE  v[k] \in {0, 1}
    BY <1>6
  <2>1. PlcCell(f, k) \in Cells /\ PlcCell(f, k)[1] \in BitDevices
    BY <1>3 DEF PlcCell
  <2> QED
    BY <1>6, <2>1 DEF MemOK
<1>9. CASE f.points # PointsOf(r.type, r.n)
  <2>1. values = <<>>
    BY <1>2, <1>3, <1>4, <1>5, <1>9, ShortResponse
  <2>2. DOMAIN values = {}
    BY <2>1
  <2> QED
    BY <1>1, <1>2, <1>9, <2>1, <2>2
<1>10. CASE f.points = PointsOf(r.type, r.n) /\ r.type = "bool"
  <2>1. f.points = r.n
    BY <1>10 DEF PointsOf
  <2>2. v \in [1 .. r.n -> {0, 1}] /\ f.bits
    BY <1>4, <1>5, <1>7, <1>8, <1>10, <2>1
  <2>3. values = v
    BY <1>2, <1>5, <1>6, <1>10, <2>1, <2>2, ReadBits
  <2>4. CellValues(r.type, values) = values
    BY <1>10 DEF CellValues
  <2> QED
    BY <1>1, <1>2, <1>6, <1>8, <1>10, <2>3, <2>4 DEF IsItem
<1>11. CASE f.points = PointsOf(r.type, r.n) /\ r.type # "bool"
  <2>1. f.points = r.n * Words[r.type]
    BY <1>11 DEF PointsOf
  <2>2. v \in [1 .. r.n * Words[r.type] -> 0 .. Word - 1]
    BY <1>7, <2>1
  <2>3. /\ values \in [1 .. r.n -> Int]
        /\ \A i \in 1 .. r.n : InRange(values[i], r.type)
        /\ CellValues(r.type, values) = v
    <3>1. CASE r.proto = "bin"
      BY <1>2, <1>4, <1>5, <1>6, <1>11, <2>1, <2>2, <3>1, ReadBin
    <3>2. CASE r.proto = "ascii"
      BY <1>2, <1>4, <1>5, <1>6, <1>11, <2>1, <2>2, <3>2, ReadAscii
    <3> QED
      BY <1>5, <3>1, <3>2
  <2>4. \A k \in DOMAIN values : IsItem(values[k], r.type)
    BY <1>11, <2>3 DEF IsItem
  <2> QED
    BY <1>1, <1>2, <1>6, <1>11, <2>3, <2>4
<1> QED
  BY <1>9, <1>10, <1>11

\* The inductive invariant: the frame is that of the call, the devices hold words
\* and bits, only a call that the PLC does not accept has failed, and a read whose
\* number of points has wrapped has no values.
IInv ==
  /\ MemOK
  /\ \/ request = [op |-> "none"] /\ frame = NoFrame /\ out = Pending
     \/ IsCall(request) /\ frame = Pack(request)
  /\ out.ret \in Results
  /\ \A k \in DOMAIN out.values : IsItem(out.values[k], request.type)
  /\ out.ret = "FAILED" => ~PlcAccepts(request.proto, frame)
  /\ out.ret = "SUCCESS" /\ request.op = "read"
       /\ frame.points # PointsOf(request.type, request.n) => out.values = <<>>

\* It holds initially.
LEMMA InitIInv == Init => IInv
<1> SUFFICES ASSUME Init
             PROVE  IInv
  OBVIOUS
<1>1. MemOK
  BY BitsAreWords DEF Init, MemOK
<1>2. out.ret = "none" /\ out.values = <<>>
  BY DEF Init, Pending
<1> QED
  BY <1>1, <1>2 DEF Init, IInv, Results

\* Begin keeps it: the frame is packed from the arguments.
LEMMA BeginIInv ==
  ASSUME IInv, NEW r, IsCall(r), Begin(r)
  PROVE  IInv'
<1>1. MemOK'
  BY DEF Begin, IInv, MemOK
<1>2. request' = r /\ frame' = Pack(r) /\ out' = Pending
  BY DEF Begin
<1>3. IsCall(r)' /\ (frame = Pack(request))'
  BY <1>2 DEF IsCall, Pack, WriteData, Analysis
<1>4. out'.ret = "none" /\ out'.values = <<>>
  BY <1>2 DEF Pending
<1> QED
  BY <1>1, <1>2, <1>3, <1>4 DEF IInv, Results

\* So does a write: it gives bit devices bits and words to the others.
LEMMA WrittenIInv ==
  ASSUME IInv, ~Idle, Written, UNCHANGED <<request, frame>>
  PROVE  IInv'
<1>1. IsCall(request) /\ frame = Pack(request)
  BY DEF IInv, Idle
<1>2. PICK f : f = frame
  OBVIOUS
<1>3. request.op = "write"
  BY <1>1, PackFields DEF Written
<1>4. PlcAccepts(request.proto, Pack(request))
  BY <1>1 DEF Written
<1>5. /\ request.type = "bool" <=> f.device \in BitDevices
      /\ \A k \in 1 .. f.points :
           /\ PlcValue(request.proto, f, k) \in 0 .. Word - 1
           /\ request.type = "bool" => PlcValue(request.proto, f, k) \in {0, 1}
  BY <1>1, <1>2, <1>3, <1>4, Accepted, WrittenValues
<1>6. mem' = [c \in Cells |->
                LET ks == {k \in 1 .. f.points : PlcCell(f, k) = c}
                IN  IF ks = {} THEN mem[c]
                    ELSE PlcValue(request.proto, f, CHOOSE k \in ks : TRUE)]
  BY <1>2 DEF Written
<1>7. ASSUME NEW c \in Cells
      PROVE  /\ mem'[c] \in 0 .. Word - 1
             /\ c[1] \in BitDevices => mem'[c] \in {0, 1}
  <2>1. PICK ks : ks = {k \in 1 .. f.points : PlcCell(f, k) = c}
    OBVIOUS
  <2>2. CASE ks = {}
    <3>1. mem'[c] = mem[c]
      BY <1>6, <2>1, <2>2
    <3> QED
      BY <3>1 DEF IInv, MemOK
  <2>3. CASE ks # {}
    <3>1. PICK k \in ks : mem'[c] = PlcValue(request.proto, f, k)
      BY <1>6, <2>1, <2>3
    <3>2. k \in 1 .. f.points /\ PlcCell(f, k) = c
      BY <2>1
    <3>3. c[1] = f.device
      BY <3>2 DEF PlcCell
    <3> QED
      BY <1>5, <3>1, <3>2, <3>3
  <2> QED
    BY <2>2, <2>3
<1>8. MemOK'
  BY <1>6, <1>7 DEF MemOK
<1>9. out'.ret = "SUCCESS" /\ out'.values = <<>>
  BY DEF Written, Pending
<1>10. IsCall(request)' /\ (frame = Pack(request))'
  <2>1. request' = request /\ frame' = frame
    OBVIOUS
  <2> QED
    BY <1>1, <2>1 DEF IsCall, Pack, WriteData, Analysis
<1> QED
  BY <1>8, <1>9, <1>10 DEF IInv, Results

\* So do the other answers.
LEMMA AnsweredIInv ==
  ASSUME IInv, ~Idle, Refused \/ ReadBack, UNCHANGED <<request, frame>>
  PROVE  IInv'
<1>1. IsCall(request) /\ frame = Pack(request)
  BY DEF IInv, Idle
<1>2. request' = request /\ frame' = frame /\ mem' = mem
  BY DEF Refused, ReadBack
<1>3. IsCall(request)' /\ (frame = Pack(request))'
  BY <1>1, <1>2 DEF IsCall, Pack, WriteData, Analysis
<1>4. MemOK'
  BY <1>2 DEF IInv, MemOK
<1>5. CASE Refused
  <2>1. out'.ret = "FAILED" /\ out'.values = <<>>
    BY <1>5 DEF Refused, Pending
  <2>2. ~PlcAccepts(request.proto, frame)'
    BY <1>2, <1>5 DEF Refused, PlcAccepts, PlcDataLength
  <2> QED
    BY <1>3, <1>4, <2>1, <2>2 DEF IInv, Results
<1>6. CASE ReadBack
  <2>1. request.op = "read" /\ PlcAccepts(request.proto, Pack(request))
    BY <1>1, <1>6, PackFields DEF ReadBack
  <2>2. /\ out'.ret = "SUCCESS"
        /\ out'.values = Values(request.proto, request.type, request.n,
                                PlcData(request.proto, Pack(request)))
    BY <1>1, <1>6 DEF ReadBack
  <2>3. \A k \in DOMAIN out'.values : IsItem(out'.values[k], request.type)
    BY <1>1, <2>1, <2>2, ReadValues DEF IInv
  <2>4. (\A k \in DOMAIN out.values : IsItem(out.values[k], request.type))'
    BY <1>2, <2>3
  <2>5. frame.points # PointsOf(request.type, request.n) => out'.values = <<>>
    BY <1>1, <2>1, <2>2, ReadValues DEF IInv
  <2>6. (frame.points # PointsOf(request.type, request.n) => out.values = <<>>)'
    BY <1>2, <2>5 DEF PointsOf
  <2> QED
    BY <1>2, <1>3, <1>4, <2>2, <2>4, <2>6 DEF IInv, Results
<1> QED
  BY <1>5, <1>6

\* The calls of Next are calls.
LEMMA NextCalls ==
  ASSUME NEW p \in Protocols, NEW type \in Types, NEW a \in Addresses, NEW n \in Counts,
         Read(p, type, a, n) \/ Write(p, type, a, n)
  PROVE  \E r : IsCall(r) /\ Begin(r)
<1>1. CASE Read(p, type, a, n)
  <2>1. PICK r : /\ r = [op |-> "read", proto |-> p, type |-> type, address |-> a, n |-> n,
                         values |-> <<>>]
                 /\ Begin(r)
    BY <1>1 DEF Read
  <2>2. IsCall(r)
    BY <2>1 DEF IsCall
  <2> QED
    BY <2>1, <2>2
<1>2. CASE Write(p, type, a, n)
  <2>1. PICK values \in [1 .. n -> ItemsOf[type]] :
          Begin([op |-> "write", proto |-> p, type |-> type, address |-> a, n |-> n,
                 values |-> values])
    BY <1>2 DEF Write
  <2>2. PICK r : r = [op |-> "write", proto |-> p, type |-> type, address |-> a, n |-> n,
                      values |-> values]
    OBVIOUS
  <2>3. IsCall(r)
    BY <2>2 DEF IsCall
  <2> QED
    BY <2>1, <2>2, <2>3
<1> QED
  BY <1>1, <1>2

\* Every step keeps the invariant.
LEMMA NextIInv == IInv /\ [Next]_vars => IInv'
<1> SUFFICES ASSUME IInv, [Next]_vars
             PROVE  IInv'
  OBVIOUS
<1>1. CASE \E p \in Protocols, type \in Types, a \in Addresses, n \in Counts :
             Read(p, type, a, n) \/ Write(p, type, a, n)
  <2>1. PICK r : IsCall(r) /\ Begin(r)
    BY <1>1, NextCalls
  <2> QED
    BY <2>1, BeginIInv
<1>2. CASE Exchange
  BY <1>2, WrittenIInv, AnsweredIInv DEF Exchange
<1>3. CASE UNCHANGED vars
  <2>1. request' = request /\ frame' = frame /\ mem' = mem /\ out' = out
    BY <1>3 DEF vars
  <2>2. MemOK'
    BY <2>1 DEF IInv, MemOK
  <2>3. IsCall(request)' <=> IsCall(request)
    BY <2>1 DEF IsCall
  <2>4. Pack(request)' = Pack(request)
    BY <2>1
  <2>5. PlcAccepts(request.proto, frame)' <=> PlcAccepts(request.proto, frame)
    BY <2>1
  <2> QED
    BY <2>1, <2>2, <2>3, <2>4, <2>5 DEF IInv
<1> QED
  BY <1>1, <1>2, <1>3 DEF Next

\* It holds in every reachable state.
LEMMA Invariance == Spec => []IInv
  BY InitIInv, NextIInv, PTL DEF Spec

-----------------------------------------------------------------------------
(* The theorems. *)

\* The codec keeps its types: lengths and counts fit their fields, numbers their
\* three bytes, devices hold words, and read calls give values of their type.
THEOREM TypeCorrect == Spec => []TypeOK
<1>1. IInv => TypeOK
  <2> SUFFICES ASSUME IInv
               PROVE  TypeOK
    OBVIOUS
  <2>1. ASSUME frame # NoFrame
        PROVE  /\ frame.len \in 0 .. FieldSize - 1
               /\ frame.points \in 0 .. FieldSize - 1
               /\ frame.start \in 0 .. 256 * 256 * 256 - 1
    <3>1. IsCall(request) /\ frame = Pack(request)
      BY <2>1 DEF IInv
    <3>2. PICK r : r = request /\ IsCall(r) /\ frame = Pack(r)
      BY <3>1
    <3>3. PICK size \in Nat \ {0} : size = FieldSize
      BY FrameAssumption
    <3>4. frame.points \in 0 .. size - 1
      <4>1. PICK points \in Nat : points = PointsOf(r.type, r.n)
        BY <3>2, CallTypes
      <4>2. points % size \in 0 .. size - 1
        OBVIOUS
      <4> QED
        BY <3>2, <3>3, <4>1, <4>2, PackFields
    <3>5. frame.len \in 0 .. size - 1
      <4>1. PICK length \in Int : length = Len(Pack(r).data)
        <5>1. PICK points \in Nat : points = PointsOf(r.type, r.n)
          BY <3>2, CallTypes
        <5>2. Len(Pack(r).data) \in {0, points, (points + 1) \div 2, points * 2, points * 4}
          BY <3>2, <5>1, DataLength
        <5> QED
          BY <5>2
      <4>2. PICK body \in Int :
              body = CoreHeader(r.proto) + length + (IF r.proto = "bin" THEN 2 ELSE 4)
        BY DEF CoreHeader
      <4>3. LengthField(r.proto, CoreHeader(r.proto) + length) = body % size
        BY <3>3, <4>2 DEF LengthField
      <4>4. body % size \in 0 .. size - 1
        BY DivInt
      <4> QED
        BY <3>2, <4>1, <4>3, <4>4, PackFields
    <3> QED
      BY <3>2, <3>3, <3>4, <3>5, Place
  <2> QED
    BY <2>1 DEF IInv, MemOK, TypeOK
<1> QED
  BY <1>1, Invariance, PTL

\* A read whose number of points does not fit its field is sent with another one;
\* whatever the PLC answers, the caller gets no values and never other ones.
THEOREM WrappedReads == Spec => []WrappedReadsGiveNothing
<1>1. IInv => WrappedReadsGiveNothing
  <2> SUFFICES ASSUME IInv, request.op = "read", out.ret = "SUCCESS",
                      PointsOf(request.type, request.n) >= FieldSize
               PROVE  out.values = <<>>
    BY DEF WrappedReadsGiveNothing
  <2>1. IsCall(request) /\ frame = Pack(request)
    BY DEF IInv, Pending
  <2>2. PICK points \in Nat : points = PointsOf(request.type, request.n)
    BY <2>1, CallTypes
  <2>3. PICK size \in Nat \ {0} : size = FieldSize
    BY FrameAssumption
  <2>4. points % size < size
    OBVIOUS
  <2>5. frame.points = points % size
    BY <2>1, <2>2, <2>3, PackFields
  <2>6. frame.points # points
    BY <2>2, <2>3, <2>4, <2>5
  <2> QED
    BY <2>2, <2>6 DEF IInv
<1> QED
  BY <1>1, Invariance, PTL

\* The PLC accepts the frame of a call on devices it has.
LEMMA LegalAccepted ==
  ASSUME NEW r, IsCall(r), 24 + 4 * PointsOf(r.type, r.n) < FieldSize,
         r.type = "bool" <=> r.address.cell[1] \in BitDevices,
         \A k \in 1 .. PointsOf(r.type, r.n) :
           <<r.address.cell[1], r.address.cell[2] + k - 1>> \in Cells
  PROVE  PlcAccepts(r.proto, Pack(r))
<1>1. PICK points \in Nat \ {0} : points = PointsOf(r.type, r.n)
  BY CallTypes
<1>2. PICK size \in Nat \ {0} : size = FieldSize
  BY FrameAssumption
<1>3. PICK f : f = Pack(r)
  OBVIOUS
<1>4. 24 + 4 * points < size
  BY <1>1, <1>2
<1>5. PICK letters \in STRING, number \in Nat :
        letters = r.address.cell[1] /\ number = r.address.cell[2]
  BY AddressAssumption DEF IsCall
<1>6. letters \in DOMAIN FromBase /\ number < SixDigits(FromBase[letters])
  <2>1. 1 \in 1 .. points /\ number + 1 - 1 = number
    OBVIOUS
  <2>2. <<letters, number>> \in Cells
    BY <1>1, <1>5, <2>1
  <2> QED
    BY <2>2, CellAssumption
<1>7. f.device = letters /\ f.start = number
  BY <1>3, <1>5, <1>6, Place
<1>8. f.points = points
  <2>1. points % size = points
    BY <1>4
  <2> QED
    BY <1>1, <1>2, <1>3, <2>1, PackFields
<1>9. f.op = r.op /\ (f.bits <=> r.type = "bool")
  BY <1>3, PackFields
<1>10. r.proto = "bin" \/ r.proto = "ascii"
  BY CallTypes
<1>11. r.op = "read" \/ r.op = "write"
  BY DEF IsCall
<1>12. PlcDataLength(r.proto, f) = Len(f.data)
  <2>1. Len(f.data) = CASE r.op = "read" -> 0
                        [] r.op = "write" /\ r.type = "bool" ->
                             IF r.proto = "bin" THEN (points + 1) \div 2 ELSE points
                        [] OTHER -> points * (IF r.proto = "bin" THEN 2 ELSE 4)
    BY <1>1, <1>3, DataLength
  <2>2. CASE r.op = "read"
    BY <1>9, <2>1, <2>2 DEF PlcDataLength
  <2>3. CASE r.op = "write" /\ r.type = "bool"
    BY <1>8, <1>9, <2>1, <2>3 DEF PlcDataLength
  <2>4. CASE r.op = "write" /\ r.type # "bool"
    BY <1>8, <1>9, <2>1, <2>4 DEF PlcDataLength
  <2> QED
    BY <1>11, <2>2, <2>3, <2>4
<1>13. PICK each \in Nat : each = (IF r.proto = "bin" THEN 2 ELSE 4) /\ each <= 4
  OBVIOUS
<1>14. PICK length \in Nat : length = Len(f.data) /\ length <= 4 * points
  <2>1. Len(f.data) \in {0, points, (points + 1) \div 2, points * 2, points * 4}
    BY <1>1, <1>3, DataLength
  <2> QED
    BY <2>1
<1>15. PICK body \in Nat : /\ body = CoreHeader(r.proto) + length + each
                           /\ body <= 24 + length
  BY <1>10, <1>13 DEF CoreHeader
<1>16. f.len = CoreHeader(r.proto) + Len(f.data) + (IF r.proto = "bin" THEN 2 ELSE 4)
  <2>1. f.len = body % size
    BY <1>2, <1>3, <1>13, <1>14, <1>15, PackFields DEF LengthField
  <2>2. body < size
    BY <1>4, <1>14, <1>15
  <2>3. body % size = body
    BY <2>2
  <2> QED
    BY <1>13, <1>14, <1>15, <2>1, <2>3
<1>17. \A k \in 1 .. f.points : PlcCell(f, k) \in Cells
  BY <1>1, <1>5, <1>7, <1>8 DEF PlcCell
<1>18. f.bits <=> f.device \in BitDevices
  BY <1>5, <1>7, <1>9
<1> QED
  BY <1>3, <1>8, <1>12, <1>16, <1>17, <1>18 DEF PlcAccepts

\* A call on devices the PLC has succeeds, whatever the numbers of its devices, its
\* type and its protocol.
THEOREM LegalCalls == Spec => []LegalCallsSucceed
<1>1. IInv => LegalCallsSucceed
  <2> SUFFICES ASSUME IInv, out.ret # "none",
                      LET r == AsCells(request)
                      IN  /\ \A k \in 1 .. r.n : Abstract!Device(r, k) \in Cells
                          /\ (request.type = "bool") <=> (r.first[1] \in BitDevices)
                          /\ 24 + 4 * r.n < FieldSize
               PROVE  out.ret = "SUCCESS"
    BY DEF LegalCallsSucceed
  <2>1. IsCall(request) /\ frame = Pack(request)
    BY DEF IInv, Pending
  <2>2. /\ AsCells(request).first = request.address.cell
        /\ AsCells(request).n = PointsOf(request.type, request.n)
    <3>1. request.op # "none"
      BY <2>1 DEF IsCall
    <3> QED
      BY <3>1 DEF AsCells
  <2>3. PlcAccepts(request.proto, Pack(request))
    BY <2>1, <2>2, LegalAccepted DEF Abstract!Device
  <2> QED
    BY <2>1, <2>3 DEF IInv, Results
<1> QED
  BY <1>1, Invariance, PTL

-----------------------------------------------------------------------------
(* The calls implement the memory. *)

\* What callers must keep to for that: numbers of devices have six digits (they
\* are cut to six characters in ASCII frames), of the binary writes of several bools
\* only those of three are packed right, and the points fit their field.
PlainCalls ==
  request.op # "none" =>
    LET cell == request.address.cell
    IN  /\ cell[1] \in DOMAIN FromBase => cell[2] < SixDigits(FromBase[cell[1]])
        /\ request.op = "write" /\ request.type = "bool" /\ request.proto = "bin" =>
             request.n \in {1, 3}

WithinLimits ==
  /\ PlainCalls
  /\ request.op # "none" => PointsOf(request.type, request.n) < FieldSize

\* No values are those of no cells.
LEMMA NoCells ==
  ASSUME NEW type, type = "bool" \/ type \in DOMAIN Words
  PROVE  CellValues(type, <<>>) = <<>>
<1>1. CASE type = "bool"
  BY <1>1 DEF CellValues
<1>2. CASE type # "bool"
  <2>1. Words[type] \in {1, 2, 4} /\ Len(<<>>) = 0
    BY <1>2, WordsOfTypes
  <2>2. 1 .. Words[type] * Len(<<>>) = {}
    BY <2>1
  <2>3. CellValues(type, <<>>)
          = [k \in 1 .. Words[type] * Len(<<>>) |->
               Digit(<<>>[(k - 1) \div Words[type] + 1], Word, ((k - 1) % Words[type]) + 1)]
    BY <1>2 DEF CellValues
  <2>4. PICK s : s = CellValues(type, <<>>)
    OBVIOUS
  <2>5. DOMAIN s = 1 .. 0 /\ s = [k \in 1 .. 0 |-> s[k]]
    BY <2>1, <2>2, <2>3, <2>4
  <2>6. s \in Seq(Int)
    BY <2>5
  <2>7. Len(s) = 0
    BY <2>5, LenOf
  <2> QED
    BY <2>4, <2>6, <2>7, EmptySeq
<1> QED
  BY <1>1, <1>2

\* A call of the library is one of the abstract memory.
LEMMA CallRefines ==
  ASSUME NEW r, IsCall(r)
  PROVE  AsCells(r) \in [op : {"read", "write"}, first : STRING \X Nat, n : Nat,
                        values : Seq(Nat)]
<1>1. r.op \in {"read", "write"} /\ r.address.cell \in STRING \X Nat
  BY AddressAssumption DEF IsCall
<1>2. /\ PointsOf(r.type, r.n) \in Nat /\ r.n \in Nat
      /\ r.type = "bool" \/ r.type \in DOMAIN Words
  BY CallTypes
<1>3. CellValues(r.type, r.values) \in Seq(Nat)
  <2>1. CASE r.op = "read"
    <3>1. r.values = <<>>
      BY <2>1 DEF IsCall
    <3>2. CellValues(r.type, <<>>) = <<>> /\ <<>> \in Seq(Nat)
      BY <1>2, NoCells
    <3> QED
      BY <3>1, <3>2
  <2>2. CASE r.op = "write" /\ r.type = "bool"
    <3>1. r.values \in [1 .. r.n -> {0, 1}] /\ CellValues(r.type, r.values) = r.values
      BY <2>2, CallTypes DEF CellValues
    <3>2. r.values \in [1 .. r.n -> Nat]
      BY <3>1
    <3> QED
      BY <1>2, <3>1, <3>2
  <2>3. CASE r.op = "write" /\ r.type # "bool"
    <3>1. PICK m \in Nat : m = r.n * Words[r.type]
      BY <1>2, <2>3, WordsOfTypes
    <3>2. CellValues(r.type, r.values) \in [1 .. m -> 0 .. Word - 1]
      BY <1>2, <2>3, <3>1, CallTypes, ItemsAreWords
    <3>3. CellValues(r.type, r.values) \in [1 .. m -> Nat]
      BY <3>2, Sizes
    <3> QED
      BY <3>3
  <2> QED
    BY <1>1, <2>1, <2>2, <2>3
<1>4. r.op # "none"
  BY <1>1
<1> QED
  BY <1>1, <1>2, <1>3, <1>4 DEF AsCells

\* Init is that of the memory.
LEMMA InitRefines == Init => Abstract!Init
<1> SUFFICES ASSUME Init
             PROVE  Abstract!Init
  OBVIOUS
<1>1. request.op = "none" /\ Status = "none"
  BY DEF Init, Status
<1>2. AsCells(request) = [op |-> "none"]
  BY <1>1 DEF Init, AsCells
<1> QED
  BY <1>1, <1>2 DEF Init, Abstract!Init

\* To begin a call is to ask.
LEMMA BeginRefines ==
  ASSUME IInv, NEW r, IsCall(r), Begin(r)
  PROVE  Abstract!Ask
<1>1. Status # "pending"
  BY DEF Begin, Idle, Status
<1>2. request' = r /\ out'.ret = "none" /\ mem' = mem
  BY DEF Begin, Pending
<1>3. r.op # "none"
  BY DEF IsCall
<1>4. Status' = "pending"
  BY <1>2, <1>3 DEF Status
<1>5. AsCells(request)' = AsCells(r)
  BY <1>2 DEF AsCells, PointsOf, CellValues
<1> QED
  BY <1>1, <1>2, <1>4, <1>5, CallRefines DEF Abstract!Ask

\* The devices of an accepted frame are those of the call, or the first of them.
LEMMA FirstDevices ==
  ASSUME IInv, PlainCalls, ~Idle, PlcAccepts(request.proto, frame)
  PROVE  /\ IsCall(request) /\ frame = Pack(request)
         /\ frame.points \in Nat /\ AsCells(request).n \in Nat
         /\ frame.points <= AsCells(request).n
         /\ AsCells(request).op = request.op
         /\ AsCells(request).n = PointsOf(request.type, request.n)
         /\ AsCells(request).values = CellValues(request.type, request.values)
         /\ \A k : PlcCell(frame, k) = Abstract!Device(AsCells(request), k)
         /\ \A k \in 1 .. frame.points : PlcCell(frame, k) \in Cells
<1>1. IsCall(request) /\ frame = Pack(request)
  BY DEF IInv, Idle
<1>2. request.op # "none"
  BY DEF Idle
<1>3. AsCells(request) = [op |-> request.op, first |-> request.address.cell,
                          n |-> PointsOf(request.type, request.n),
                          values |-> CellValues(request.type, request.values)]
  BY <1>2 DEF AsCells
<1>4. /\ frame.points \in Nat \ {0}
      /\ frame.points = PointsOf(request.type, request.n)
           \/ frame.points + 1 < PointsOf(request.type, request.n)
      /\ \A k \in 1 .. frame.points : PlcCell(frame, k) \in Cells
      /\ frame.device \in DOMAIN FromBase /\ frame.device = request.address.cell[1]
  BY <1>1, Accepted
<1>5. /\ PointsOf(request.type, request.n) \in Nat
      /\ frame.points <= PointsOf(request.type, request.n)
  <2>1. PointsOf(request.type, request.n) \in Nat
    BY <1>1, CallTypes
  <2> QED
    BY <1>4, <2>1
<1>6. frame.start = request.address.cell[2]
  BY <1>1, <1>2, <1>4, Place DEF PlainCalls
<1> QED
  BY <1>1, <1>3, <1>4, <1>5, <1>6 DEF PlcCell, Abstract!Device

\* They are all of them if the points fit their field.
LEMMA SameDevices ==
  ASSUME IInv, WithinLimits, ~Idle, PlcAccepts(request.proto, frame)
  PROVE  /\ IsCall(request) /\ frame = Pack(request)
         /\ frame.points = AsCells(request).n /\ frame.points \in Nat
         /\ AsCells(request).op = request.op
         /\ AsCells(request).values = CellValues(request.type, request.values)
         /\ \A k : PlcCell(frame, k) = Abstract!Device(AsCells(request), k)
         /\ \A k \in 1 .. frame.points : PlcCell(frame, k) \in Cells
<1>1. IsCall(request) /\ frame = Pack(request)
  BY DEF IInv, Idle
<1>2. frame.points = PointsOf(request.type, request.n)
  <2>1. PICK points \in Nat : points = PointsOf(request.type, request.n)
    BY <1>1, CallTypes
  <2>2. PICK size \in Nat \ {0} : size = FieldSize
    BY FrameAssumption
  <2>3. points < size
    BY <2>1, <2>2 DEF WithinLimits, Idle
  <2>4. points % size = points
    BY <2>3
  <2> QED
    BY <1>1, <2>1, <2>2, <2>4, PackFields
<1> QED
  BY <1>2, FirstDevices DEF WithinLimits

\* The device a point of a call names is that of no other point.
LEMMA OneDevice ==
  ASSUME NEW r, r.first[2] \in Nat, NEW j \in Nat, NEW k \in Nat,
         Abstract!Device(r, j) = Abstract!Device(r, k)
  PROVE  j = k
  BY DEF Abstract!Device

\* An accepted write is one of the memory.
LEMMA WrittenRefines ==
  ASSUME IInv, WithinLimits, ~Idle, Written, UNCHANGED <<request, frame>>
  PROVE  Abstract!Write
<1>1. /\ IsCall(request) /\ frame = Pack(request)
      /\ frame.points = AsCells(request).n /\ frame.points \in Nat
      /\ AsCells(request).op = request.op
      /\ AsCells(request).values = CellValues(request.type, request.values)
      /\ \A k : PlcCell(frame, k) = Abstract!Device(AsCells(request), k)
      /\ \A k \in 1 .. frame.points : PlcCell(frame, k) \in Cells
  BY SameDevices DEF Written
<1>2. request.op = "write" /\ request.op # "none"
  BY <1>1, PackFields DEF Written
<1>3. PICK a : a = AsCells(request)
  OBVIOUS
<1>4. \A k \in 1 .. a.n : PlcValue(request.proto, frame, k) = a.values[k]
  <2>1. request.type # "bool" \/ request.proto = "ascii" \/ request.n \in {1, 3}
    BY <1>1, <1>2, CallTypes DEF WithinLimits, PlainCalls
  <2> QED
    BY <1>1, <1>2, <1>3, <2>1, WrittenValues DEF Written
<1>5. a.first[2] \in Nat
  BY <1>1, <1>2, <1>3, CallRefines
<1>6. ASSUME NEW c \in Cells
      PROVE  mem'[c] = IF \E k \in 1 .. a.n : c = Abstract!Device(a, k)
                         THEN a.values[CHOOSE k \in 1 .. a.n : c = Abstract!Device(a, k)]
                         ELSE mem[c]
  <2>1. PICK ks : ks = {k \in 1 .. frame.points : PlcCell(frame, k) = c}
    OBVIOUS
  <2>2. mem'[c] = IF ks = {} THEN mem[c]
                             ELSE PlcValue(request.proto, frame, CHOOSE k \in ks : TRUE)
    BY <2>1 DEF Written
  <2>3. \A k : k \in ks <=> k \in 1 .. a.n /\ c = Abstract!Device(a, k)
    BY <1>1, <1>3, <2>1
  <2>4. CASE ks = {}
    BY <2>2, <2>3, <2>4
  <2>5. CASE ks # {}
    <3>1. PICK k \in ks : k = CHOOSE j \in ks : TRUE
      BY <2>5
    <3>2. PICK i \in 1 .. a.n : /\ i = CHOOSE j \in 1 .. a.n : c = Abstract!Device(a, j)
                                /\ c = Abstract!Device(a, i)
      BY <2>3, <2>5
    <3>3. k \in 1 .. a.n /\ c = Abstract!Device(a, k)
      BY <2>3
    <3>4. i \in Nat /\ k \in Nat
      BY <1>1, <1>3, <3>3
    <3>5. i = k
      BY <1>5, <3>2, <3>3, <3>4, OneDevice
    <3>6. mem'[c] = PlcValue(request.proto, frame, k)
      BY <2>2, <2>5, <3>1
    <3>7. mem'[c] = a.values[i]
      BY <1>4, <3>3, <3>5, <3>6
    <3> QED
      BY <3>2, <3>7
  <2> QED
    BY <2>4, <2>5
<1>7. mem' = [c \in Cells |->
                IF \E k \in 1 .. a.n : c = Abstract!Device(a, k)
                  THEN a.values[CHOOSE k \in 1 .. a.n : c = Abstract!Device(a, k)]
                  ELSE mem[c]]
  <2>1. DOMAIN mem' = Cells /\ mem' = [c \in Cells |-> mem'[c]]
    BY DEF Written
  <2> QED
    BY <1>6, <2>1
<1>8. Status = "pending"
  BY <1>2 DEF Idle, Status
<1>9. request' = request /\ out'.ret = "SUCCESS" /\ out'.values = <<>>
  BY DEF Written, Pending
<1>10. Status' = "ok"
  BY <1>2, <1>9 DEF Status
<1>11. AsCells(request)' = a
  BY <1>3, <1>9
<1>12. CellValues(request.type, out.values)' = <<>>
  BY <1>1, <1>9, CallTypes, NoCells
<1>13. \A k \in 1 .. a.n : Abstract!Device(a, k) \in Cells
  BY <1>1, <1>3
<1> QED
  BY <1>1, <1>2, <1>3, <1>7, <1>8, <1>10, <1>11, <1>12, <1>13 DEF Abstract!Write

\* An accepted read is one of the memory.
LEMMA ReadBackRefines ==
  ASSUME IInv, WithinLimits, ~Idle, ReadBack, UNCHANGED <<request, frame>>
  PROVE  Abstract!Read
<1>1. /\ IsCall(request) /\ frame = Pack(request)
      /\ frame.points = AsCells(request).n /\ frame.points \in Nat
      /\ AsCells(request).op = request.op
      /\ \A k : PlcCell(frame, k) = Abstract!Device(AsCells(request), k)
      /\ \A k \in 1 .. frame.points : PlcCell(frame, k) \in Cells
  BY SameDevices DEF ReadBack
<1>2. request.op = "read" /\ request.op # "none"
  BY <1>1, PackFields DEF ReadBack
<1>3. PICK a : a = AsCells(request)
  OBVIOUS
<1>4. Status = "pending"
  BY <1>2 DEF Idle, Status
<1>5. /\ request' = request /\ mem' = mem /\ out'.ret = "SUCCESS"
      /\ out'.values = Values(request.proto, request.type, request.n,
                              PlcData(request.proto, Pack(request)))
  BY <1>1 DEF ReadBack
<1>6. Status' = "ok"
  BY <1>2, <1>5 DEF Status
<1>7. AsCells(request)' = a
  BY <1>3, <1>5
<1>8. frame.points = PointsOf(request.type, request.n)
  BY <1>1, <1>2 DEF AsCells
<1>9. CellValues(request.type, out.values)'
        = [k \in 1 .. frame.points |-> mem[PlcCell(frame, k)]]
  <2>1. CellValues(request.type, out'.values)
          = [k \in 1 .. frame.points |-> mem[PlcCell(frame, k)]]
    BY <1>1, <1>2, <1>5, <1>8, ReadValues DEF IInv, ReadBack
  <2> QED
    BY <1>5, <2>1
<1>10. [k \in 1 .. frame.points |-> mem[PlcCell(frame, k)]]
         = [k \in 1 .. a.n |-> mem[Abstract!Device(a, k)]]
  BY <1>1, <1>3
<1>11. \A k \in 1 .. a.n : Abstract!Device(a, k) \in Cells
  BY <1>1, <1>3
<1> QED
  BY <1>1, <1>2, <1>3, <1>4, <1>5, <1>6, <1>7, <1>9, <1>10, <1>11 DEF Abstract!Read

\* A refused call is one that has failed.
LEMMA RefusedRefines ==
  ASSUME ~Idle, Refused, UNCHANGED <<request, frame>>
  PROVE  Abstract!Fail
<1>1. Status = "pending"
  BY DEF Idle, Status
<1>2. request' = request /\ mem' = mem /\ out'.ret = "FAILED" /\ request.op # "none"
  BY DEF Refused, Idle
<1>3. Status' = "failed"
  BY <1>2 DEF Status
<1>4. AsCells(request)' = AsCells(request)
  BY <1>2
<1> QED
  BY <1>1, <1>2, <1>3, <1>4 DEF Abstract!Fail

\* Every step is one of the memory or none.
LEMMA NextRefines ==
  IInv /\ WithinLimits /\ [Next]_vars => [Abstract!Next]_(Abstract!vars)
<1> SUFFICES ASSUME IInv, WithinLimits, [Next]_vars
             PROVE  [Abstract!Next]_(Abstract!vars)
  OBVIOUS
<1>1. CASE \E p \in Protocols, type \in Types, a \in Addresses, n \in Counts :
             Read(p, type, a, n) \/ Write(p, type, a, n)
  <2>1. PICK r : IsCall(r) /\ Begin(r)
    BY <1>1, NextCalls
  <2> QED
    BY <2>1, BeginRefines DEF Abstract!Next
<1>2. CASE Exchange
  BY <1>2, WrittenRefines, ReadBackRefines, RefusedRefines DEF Exchange, Abstract!Next
<1>3. CASE UNCHANGED vars
  <2>1. request' = request /\ mem' = mem /\ out' = out
    BY <1>3 DEF vars
  <2>2. AsCells(request)' = AsCells(request) /\ Status' = Status
    BY <2>1 DEF Status
  <2>3. CellValues(request.type, out.values)' = CellValues(request.type, out.values)
    BY <2>1
  <2> QED
    BY <2>1, <2>2, <2>3 DEF Abstract!vars
<1> QED
  BY <1>1, <1>2, <1>3 DEF Next

\* Callers that keep to the limits see a memory: a call writes or reads exactly the
\* devices it names, with the values given or held, or changes nothing.
THEOREM Refinement == Spec /\ []WithinLimits => ImplementsMemory
<1>1. Init => Abstract!Init
  BY InitRefines
<1>2. IInv /\ WithinLimits /\ [Next]_vars => [Abstract!Next]_(Abstract!vars)
  BY NextRefines
<1> QED
  BY <1>1, <1>2, Invariance, PTL DEF Spec, ImplementsMemory, Abstract!Spec

\* However long it is, a write gives the devices it names the values the caller has
\* for them, or leaves them as they are, and touches no other.  The frame of a write
\* with more points than their field holds names the first of its devices only.
THEOREM WritesNamed == Spec /\ []PlainCalls => WritesOnlyNamed
<1> DEFINE Named(c) ==
      \E k \in 1 .. AsCells(request).n :
        /\ c = Abstract!Device(AsCells(request), k)
        /\ mem'[c] = AsCells(request).values[k]
<1>1. ASSUME IInv, PlainCalls, Next, NEW c \in Cells, mem'[c] # mem[c]
      PROVE  Named(c)
  <2>1. ~Idle /\ Written
    <3>1. ASSUME NEW r, Begin(r)
          PROVE  FALSE
      BY <1>1, <3>1 DEF Begin
    <3>2. Exchange
      BY <1>1, <3>1, NextCalls DEF Next
    <3> QED
      BY <1>1, <3>2 DEF Exchange, Refused, ReadBack
  <2>2. /\ IsCall(request) /\ frame = Pack(request)
        /\ frame.points \in Nat /\ AsCells(request).n \in Nat
        /\ frame.points <= AsCells(request).n
        /\ AsCells(request).values = CellValues(request.type, request.values)
        /\ \A k : PlcCell(frame, k) = Abstract!Device(AsCells(request), k)
    BY <1>1, <2>1, FirstDevices DEF Written
  <2>3. request.op = "write" /\ request.op # "none"
    BY <2>1, <2>2, PackFields DEF Written
  <2>4. PICK ks : ks = {k \in 1 .. frame.points : PlcCell(frame, k) = c}
    OBVIOUS
  <2>5. mem'[c] = IF ks = {} THEN mem[c]
                             ELSE PlcValue(request.proto, frame, CHOOSE k \in ks : TRUE)
    BY <1>1, <2>1, <2>4 DEF Written
  <2>6. PICK k \in ks : mem'[c] = PlcValue(request.proto, frame, k)
    BY <1>1, <2>5
  <2>7. /\ k \in 1 .. frame.points /\ k \in 1 .. AsCells(request).n
        /\ c = Abstract!Device(AsCells(request), k)
    BY <2>2, <2>4
  <2>8. PlcValue(request.proto, frame, k) = CellValues(request.type, request.values)[k]
    <3>1. request.type # "bool" \/ request.proto = "ascii" \/ request.n \in {1, 3}
      BY <1>1, <2>2, <2>3, CallTypes DEF PlainCalls
    <3> QED
      BY <2>1, <2>2, <2>3, <2>7, <3>1, WrittenValues DEF Written
  <2> QED
    BY <2>2, <2>6, <2>7, <2>8
<1>2. IInv /\ PlainCalls /\ [Next]_vars => [WriteOnlyNamed]_vars
  <2>1. IInv /\ PlainCalls /\ Next => WriteOnlyNamed
    BY <1>1 DEF WriteOnlyNamed
  <2> QED
    BY <2>1
<1> QED
  BY <1>2, Invariance, PTL DEF Spec, WritesOnlyNamed

\* The devices tell the items they hold: two sequences of values of a type that
\* give them the same contents are the same.  What the memory of the devices keeps
\* is what callers see.
THEOREM CellsTell ==
  ASSUME NEW type \in {"bool"} \cup DOMAIN Words, NEW n \in Nat,
         NEW vs \in [1 .. n -> Int], NEW us \in [1 .. n -> Int],
         \A i \in 1 .. n : IsItem(vs[i], type) /\ IsItem(us[i], type),
         CellValues(type, vs) = CellValues(type, us)
  PROVE  vs = us
<1>1. CASE type = "bool"
  BY <1>1 DEF CellValues
<1>2. CASE type # "bool"
  <2>1. PICK w \in {1, 2, 4} : w = Words[type] /\ type \in DOMAIN Words
    BY <1>2, WordsOfTypes
  <2>2. Len(vs) = n /\ Len(us) = n
    <3>1. vs \in Seq(Int) /\ us \in Seq(Int)
      OBVIOUS
    <3> QED
      BY <3>1, LenProperties
  <2>3. ASSUME NEW i \in 1 .. n
        PROVE  vs[i] = us[i]
    <3>1. ASSUME NEW j \in 1 .. w
          PROVE  Digit(vs[i], Word, j) = Digit(us[i], Word, j)
      <4>1. PICK k \in 1 .. w * n : (k - 1) \div w + 1 = i /\ ((k - 1) % w) + 1 = j
        <5>1. w = 1 \/ w = 2 \/ w = 4
          OBVIOUS
        <5>2. PICK k \in Int : k = w * (i - 1) + j
          BY <5>1
        <5>3. k \in 1 .. w * n
          BY <5>1, <5>2
        <5>4. (k - 1) \div w = i - 1 /\ (k - 1) % w = j - 1
          <6>1. k - 1 = (j - 1) + w * (i - 1)
            BY <5>2
          <6>2. j - 1 \in 0 .. w - 1 /\ i - 1 \in Int /\ w \in Nat \ {0}
            OBVIOUS
          <6>3. /\ ((j - 1) + w * (i - 1)) \div w = i - 1
                /\ ((j - 1) + w * (i - 1)) % w = j - 1
            BY <6>2, DivMod
          <6> QED
            BY <6>1, <6>3
        <5> QED
          BY <5>3, <5>4
      <4>2. /\ CellValues(type, vs)[k] = Digit(vs[i], Word, j)
            /\ CellValues(type, us)[k] = Digit(us[i], Word, j)
        BY <1>2, <2>1, <2>2, <4>1 DEF CellValues
      <4> QED
        BY <4>2
    <3>2. InRange(vs[i], type) /\ InRange(us[i], type)
      BY <1>2 DEF IsItem
    <3>3. vs[i] \in Int /\ us[i] \in Int
      OBVIOUS
    <3> QED
      BY <2>1, <3>1, <3>2, <3>3, SameWords
  <2> QED
    BY <2>3
<1> QED
  BY <1>1, <1>2
=============================================================================
