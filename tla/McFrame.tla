------------------------------- MODULE McFrame -------------------------------
(***************************************************************************)
(* The codec: how a typed read or write becomes a frame, and a response    *)
(* becomes values again.                                                   *)
(*                                                                         *)
(*   mc_analysis_address                         melsec_mc_comm.c          *)
(*   build_*_core_command, the parsing of responses, the packing of bools  *)
(*                                               melsec_helper.c           *)
(*   pack_mc_command, extract_actual_bool_data, the typed calls            *)
(*                                               melsec_mc_bin.c, _batch.c *)
(*   the same for ASCII frames                   melsec_mc_ascii.c         *)
(*   number to bytes and back                    utill.c                   *)
(*                                                                         *)
(* One caller: transactions on a connection exclude each other and a       *)
(* response belongs to its request (McTransaction), so that an exchange    *)
(* with the PLC is one step here.  A device name stands for its binary     *)
(* code and its two ASCII letters; a two-byte field for its number modulo  *)
(* FieldSize; an ASCII character for its digit.  Constant headers, and the *)
(* network address (McConnect), are left out, their lengths are not.  The  *)
(* PLC is external.                                                        *)
(***************************************************************************)
EXTENDS Integers, Sequences

CONSTANTS
  Protocols,  \* of "bin" and "ascii"
  Types,      \* of "bool" and the domain of Words: the typed calls in use
  ItemsOf,    \* ItemsOf[k]: values of type k that callers write
  Counts,     \* lengths callers give to the batch calls
  Addresses,  \* [letters, digits, cell]: an address string, its letters in
              \* upper case, its digits as numbers, and the device it names
  Cells,      \* devices of the PLC: <<letters, number>>
  FieldSize,  \* values of a two-byte field, 65536 in the code
  Nibble      \* values of half a byte of data, 16 in the code

ASSUME FrameAssumption ==
  /\ Protocols \subseteq {"bin", "ascii"}
  /\ Counts \subseteq Nat \ {0}
  /\ FieldSize \in Nat \ {0}
  /\ Nibble \in Nat \ {0} /\ Nibble % 2 = 0

VARIABLES
  mem,      \* mem[c]: what device c of the PLC holds
  request,  \* the arguments of the call
  frame,    \* the request frame it has packed
  out       \* [ret, values]: its result

vars == <<mem, request, frame, out>>

Byte == Nibble * Nibble
Word == Byte * Byte

\* Words of an item; a float is the int32 of the same bits, a double the int64.
Words == [short |-> 1, ushort |-> 1, int32 |-> 2, uint32 |-> 2, int64 |-> 4, uint64 |-> 4]
Signed == {"short", "int32", "int64"}

NoFrame == [device |-> "none"]
Pending == [ret |-> "none", values |-> <<>>]
Results == {"none", "SUCCESS", "FAILED"}

-----------------------------------------------------------------------------
(* Numbers and bytes: utill.c.  The low byte comes first. *)

\* v, v >> w, v >> 2w, ..., where base = 2^w.  The shifts are arithmetic.
Shifts(v, base) ==
  LET s1 == v \div base  s2 == s1 \div base  s3 == s2 \div base  s4 == s3 \div base
      s5 == s4 \div base  s6 == s5 \div base  s7 == s6 \div base
  IN  <<v, s1, s2, s3, s4, s5, s6, s7>>

\* The k-th digit of v from the right; of the two's complement if v < 0.
Digit(v, base, k) == Shifts(v, base)[k] % base

ToBytes(v, n) == [k \in 1 .. n |-> Digit(v, Byte, k)]

\* Mutated form: the sign is forgotten.
FromBytesUnsigned(bytes, type) ==
  LET Two(k, high) == bytes[k] + Byte * (bytes[k + 1] + Byte * high)
      Four(k, high) == Two(k, Two(k + 2, high))
  IN  CASE Len(bytes) = 2 -> Two(1, 0)
        [] Len(bytes) = 4 -> Four(1, 0)
        [] Len(bytes) = 8 -> Four(1, Four(5, 0))

\* bytes2short, bytes2int32, bytes2bigInt and their unsigned forms.
FromBytes(bytes, type) ==
  LET sign == IF type \in Signed /\ bytes[Len(bytes)] >= Byte \div 2 THEN -1 ELSE 0
      Two(k, high) == bytes[k] + Byte * (bytes[k + 1] + Byte * high)
      Four(k, high) == Two(k, Two(k + 2, high))
  IN  CASE Len(bytes) = 2 -> Two(1, sign)
        [] Len(bytes) = 4 -> Four(1, sign)
        [] Len(bytes) = 8 -> Four(1, Four(5, sign))

\* The numbers a type has: above the other bytes of one there is a byte.
InRange(v, type) ==
  Shifts(v, Byte)[2 * Words[type]]
    \in IF type \in Signed THEN -(Byte \div 2) .. Byte \div 2 - 1 ELSE 0 .. Byte - 1

IsItem(v, type) == IF type = "bool" THEN v \in {0, 1} ELSE v \in Int /\ InRange(v, type)

ASSUME TypeAssumption ==
  /\ Types \subseteq {"bool"} \cup DOMAIN Words
  /\ \A type \in Types : \A v \in ItemsOf[type] : IsItem(v, type)

ItemsToBytes(values, type) ==
  LET size == 2 * Words[type]
  IN  [k \in 1 .. size * Len(values) |->
         ToBytes(values[(k - 1) \div size + 1], size)[((k - 1) % size) + 1]]

ItemsFromBytes(bytes, n, type) ==
  LET size == 2 * Words[type]
  IN  [k \in 1 .. n |->
         FromBytes(SubSeq(bytes, (k - 1) * size + 1, k * size), type)]

-----------------------------------------------------------------------------
(* Addresses: melsec_mc_comm.c. *)

\* from_base of each device mc_analysis_address knows.
FromBase ==
  [ M |-> 10, X |-> 16, Y |-> 16, D |-> 10, W |-> 16, L |-> 10, F |-> 10, V |-> 10,
    B |-> 16, R |-> 10, SN |-> 10, SS |-> 10, SC |-> 10, S |-> 10, ZR |-> 16, Z |-> 10,
    TC |-> 10, TS |-> 10, TN |-> 10, CN |-> 10, CS |-> 10, CC |-> 10 ]

\* strtol: the digits up to the first one that is none in this base.
Number(digits, base) ==
  LET read[k \in 0 .. Len(digits)] ==
        CASE k = 0 -> 0
          [] k > 0 /\ (\A j \in 1 .. k : digits[j] < base) -> read[k - 1] * base + digits[k]
          [] OTHER -> read[k - 1]
  IN  read[Len(digits)]

\* The switch has no default: an address with unknown letters is not refused
\* but gives the zeroes of memset, which name no device.  (After a T or a C with
\* an unknown second letter the number is read all the same, of no device.)
Analysis(address) ==
  IF address.letters \in DOMAIN FromBase
    THEN [device |-> address.letters,
          start |-> Number(address.digits, FromBase[address.letters])]
    ELSE [device |-> "zero", start |-> 0]

\* Numbers of six digits.
SixDigits(base) == IF base = 16 THEN 256 * 256 * 256 ELSE 1000 * 1000

\* A device of the PLC has a number that a frame can hold.
ASSUME CellAssumption ==
  /\ Cells \subseteq (DOMAIN FromBase) \X Nat
  /\ \A c \in Cells : c[2] < SixDigits(FromBase[c[1]])

MaxInt == 2147483647

\* What an address names: its letters and the number its digits write, which is
\* an int.
ASSUME AddressAssumption ==
  \A a \in Addresses :
    /\ a.cell \in STRING \X Nat
    /\ a.cell[1] = a.letters
    /\ a.letters \in DOMAIN FromBase =>
         a.cell[2] = Number(a.digits, FromBase[a.letters]) /\ a.cell[2] <= MaxInt

-----------------------------------------------------------------------------
(* Request frames. *)

\* Three bytes of the number.
BinStart(device, start) == start % (256 * 256 * 256)

\* "%06u" or "%06X" into six characters: of a longer number the first six.  A
\* number is an int, which has ten digits at most.
AsciiStart(device, start) ==
  LET base == IF device = "zero" THEN 10 ELSE FromBase[device]
      prefixes == {Shifts(start, base)[k] : k \in 1 .. 5}
      fitting == {n \in prefixes : n < SixDigits(base)}
  IN  CHOOSE n \in fitting : \A m \in fitting : m <= n

\* trans_bool_array_to_byte_data: two bools to a byte.  The second one of a
\* pair is looked at only while its index is below the number of BYTES.
PackBools(values) ==
  LET length == (Len(values) + 1) \div 2
  IN  [b \in 1 .. length |->
         LET i == b - 1
         IN  (IF values[i * 2 + 1] = 1 THEN Nibble ELSE 0)
             + (IF i * 2 + 1 < length /\ values[i * 2 + 2] = 1 THEN 1 ELSE 0)]

\* Mutated form: the words keep the byte order of the binary frame.
SwapWordsNot(bytes) == bytes

\* ASCII word data has the high byte first.
SwapWords(bytes) ==
  [k \in DOMAIN bytes |-> bytes[IF k % 2 = 1 THEN k + 1 ELSE k - 1]]

ToHex(bytes) ==
  [k \in 1 .. 2 * Len(bytes) |->
     LET b == bytes[(k + 1) \div 2] IN IF k % 2 = 1 THEN b \div Nibble ELSE b % Nibble]

FromHex(digits) ==
  [k \in 1 .. Len(digits) \div 2 |-> digits[2 * k - 1] * Nibble + digits[2 * k]]

\* Data of a write command, in bytes or in characters.
WriteData(p, type, values) ==
  CASE type = "bool" /\ p = "bin" -> PackBools(values)
    [] type = "bool" /\ p = "ascii" -> values
    [] type # "bool" /\ p = "bin" -> ItemsToBytes(values, type)
    [] type # "bool" /\ p = "ascii" -> ToHex(SwapWords(ItemsToBytes(values, type)))

\* Device points of n items: address_data.length.
PointsOf(type, n) == IF type = "bool" THEN n ELSE n * Words[type]

\* Bytes (characters) of a core command before its data.
CoreHeader(p) == IF p = "bin" THEN 10 ELSE 20

\* Mutated form: the length counts from the wrong byte.
LengthFieldShort(p, core_len) == (core_len + (IF p = "bin" THEN 0 ELSE 4)) % FieldSize

\* The length field: what follows it, the monitoring timer included.
LengthField(p, core_len) == (core_len + (IF p = "bin" THEN 2 ELSE 4)) % FieldSize

Pack(r) ==
  LET a == Analysis(r.address)
      data == IF r.op = "write" THEN WriteData(r.proto, r.type, r.values) ELSE <<>>
  IN  [ op |-> r.op,
        bits |-> r.type = "bool",
        device |-> a.device,
        start |-> IF r.proto = "bin" THEN BinStart(a.device, a.start)
                                     ELSE AsciiStart(a.device, a.start),
        points |-> PointsOf(r.type, r.n) % FieldSize,
        len |-> LengthField(r.proto, CoreHeader(r.proto) + Len(data)),
        data |-> data ]

-----------------------------------------------------------------------------
(* The PLC (external): it holds the bits and words of Cells and reads frames *)
(* as the protocol has them, the two bits of a byte in its nibbles, words     *)
(* low byte first in binary frames and high byte first in ASCII ones.  It      *)
(* refuses a frame that is not well formed, devices it does not have, and bit *)
(* commands for word devices (word commands for bit devices are left out).    *)

BitDevices == {"M", "X", "Y", "L", "F", "V", "B", "S",
               "SS", "SC", "TC", "TS", "CS", "CC"}

PlcCell(f, k) == <<f.device, f.start + k - 1>>

PlcDataLength(p, f) ==
  CASE f.op = "read" -> 0
    [] f.op = "write" /\ f.bits -> IF p = "bin" THEN (f.points + 1) \div 2 ELSE f.points
    [] OTHER -> f.points * (IF p = "bin" THEN 2 ELSE 4)

\* It cuts the stream by the length field, which may count less than the call
\* has sent; the bytes left over are not followed.
PlcAccepts(p, f) ==
  /\ f.len = CoreHeader(p) + PlcDataLength(p, f) + (IF p = "bin" THEN 2 ELSE 4)
  /\ PlcDataLength(p, f) <= Len(f.data)
  /\ f.points > 0
  /\ f.bits <=> f.device \in BitDevices
  /\ \A k \in 1 .. f.points : PlcCell(f, k) \in Cells

PlcValue(p, f, k) ==
  IF f.bits
    THEN IF p = "ascii" THEN f.data[k]
         ELSE Digit(f.data[(k + 1) \div 2], Nibble, 1 + (k % 2))
    ELSE IF p = "bin" THEN f.data[2 * k - 1] + Byte * f.data[2 * k]
         ELSE ((f.data[4 * k - 3] * Nibble + f.data[4 * k - 2]) * Nibble
               + f.data[4 * k - 1]) * Nibble + f.data[4 * k]

PlcData(p, f) ==
  LET v == [k \in 1 .. f.points |-> mem[PlcCell(f, k)]]
  IN  IF f.bits
        THEN IF p = "ascii" THEN v
             ELSE [b \in 1 .. (f.points + 1) \div 2 |->
                     Nibble * v[2 * b - 1] + (IF 2 * b <= f.points THEN v[2 * b] ELSE 0)]
        ELSE IF p = "bin"
          THEN [b \in 1 .. 2 * f.points |-> Digit(v[(b + 1) \div 2], Byte, 2 - (b % 2))]
          ELSE [d \in 1 .. 4 * f.points |-> Digit(v[(d + 3) \div 4], Nibble, 4 - ((d - 1) % 4))]

-----------------------------------------------------------------------------
(* Responses. *)

\* extract_actual_bool_data
ExtractBools(bytes) ==
  [k \in 1 .. 2 * Len(bytes) |->
     LET b == bytes[(k + 1) \div 2]
     IN  IF k % 2 = 1 THEN (b \div Nibble) % 2 ELSE b % 2]

\* What a read call makes of the data: the first n values, or nothing if the
\* response is too short.
Values(p, type, n, data) ==
  IF type = "bool"
    THEN LET bits == IF p = "bin" THEN ExtractBools(data) ELSE data
         IN  IF Len(bits) >= n THEN SubSeq(bits, 1, n) ELSE <<>>
    ELSE LET bytes == IF p = "bin" THEN data ELSE SwapWords(FromHex(data))
         IN  IF Len(bytes) >= n * 2 * Words[type] THEN ItemsFromBytes(bytes, n, type)
                                                  ELSE <<>>

-----------------------------------------------------------------------------
(* A call, in two steps: up to the packed frame, and the exchange.            *)

Idle == request.op = "none" \/ out.ret # "none"

\* Only the binary library has batch calls, and none of 64 bits.
Allowed(p, type, n) ==
  n = 1 \/ (p = "bin" /\ type # "int64" /\ type # "uint64")

Begin(r) ==
  /\ Idle
  /\ request' = r
  /\ frame' = Pack(r)
  /\ out' = Pending
  /\ UNCHANGED mem

Write(p, type, a, n) ==
  /\ Allowed(p, type, n)
  /\ \E values \in [1 .. n -> ItemsOf[type]] :
       Begin([op |-> "write", proto |-> p, type |-> type, address |-> a, n |-> n,
              values |-> values])

Read(p, type, a, n) ==
  /\ Allowed(p, type, n)
  /\ Begin([op |-> "read", proto |-> p, type |-> type, address |-> a, n |-> n,
            values |-> <<>>])

\* An end code that is not 0.
Refused ==
  /\ ~PlcAccepts(request.proto, frame)
  /\ out' = [Pending EXCEPT !.ret = "FAILED"]
  /\ UNCHANGED mem

Written ==
  /\ PlcAccepts(request.proto, frame)
  /\ frame.op = "write"
  /\ mem' = [c \in Cells |->
               LET ks == {k \in 1 .. frame.points : PlcCell(frame, k) = c}
               IN  IF ks = {} THEN mem[c]
                   ELSE PlcValue(request.proto, frame, CHOOSE k \in ks : TRUE)]
  /\ out' = [Pending EXCEPT !.ret = "SUCCESS"]

ReadBack ==
  /\ PlcAccepts(request.proto, frame)
  /\ frame.op = "read"
  /\ out' = [ret |-> "SUCCESS",
             values |-> Values(request.proto, request.type, request.n,
                               PlcData(request.proto, frame))]
  /\ UNCHANGED mem

Exchange ==
  /\ ~Idle
  /\ Refused \/ Written \/ ReadBack
  /\ UNCHANGED <<request, frame>>

Init ==
  /\ mem = [c \in Cells |-> 0]
  /\ request = [op |-> "none"]
  /\ frame = NoFrame
  /\ out = Pending

Next ==
  \/ \E p \in Protocols, type \in Types, a \in Addresses, n \in Counts :
       Read(p, type, a, n) \/ Write(p, type, a, n)
  \/ Exchange

Spec == Init /\ [][Next]_vars

-----------------------------------------------------------------------------
(* Properties. *)

TypeOK ==
  /\ mem \in [Cells -> 0 .. Word - 1]
  /\ out.ret \in Results
  /\ frame # NoFrame =>
       /\ frame.len \in 0 .. FieldSize - 1
       /\ frame.points \in 0 .. FieldSize - 1
       /\ frame.start \in 0 .. 256 * 256 * 256 - 1
  /\ \A k \in DOMAIN out.values : IsItem(out.values[k], request.type)

\* The values of cells that hold items: an item of several words has its low
\* word in the first cell.
CellValues(type, values) ==
  IF type = "bool" THEN values
  ELSE LET w == Words[type]
       IN  [k \in 1 .. w * Len(values) |->
              Digit(values[(k - 1) \div w + 1], Word, ((k - 1) % w) + 1)]

AsCells(r) ==
  IF r.op = "none" THEN r
  ELSE [op |-> r.op, first |-> r.address.cell, n |-> PointsOf(r.type, r.n),
        values |-> CellValues(r.type, r.values)]

Status ==
  CASE request.op = "none" -> "none"
    [] request.op # "none" /\ out.ret = "none" -> "pending"
    [] request.op # "none" /\ out.ret = "SUCCESS" -> "ok"
    [] OTHER -> "failed"

Abstract == INSTANCE DeviceMemory WITH
  Requests <- [op : {"read", "write"}, first : STRING \X Nat, n : Nat, values : Seq(Nat)],
  request <- AsCells(request),
  outcome <- [status |-> Status,
              values |-> IF Status = "ok" THEN CellValues(request.type, out.values)
                                          ELSE <<>>]

\* A call writes or reads exactly the devices its address and length name, with
\* the values the caller gave or the PLC holds, whichever protocol wrote them
\* and whichever reads them; a call that fails has changed nothing.
ImplementsMemory == Abstract!Spec

\* The number of points is cut to its two bytes: a read of more succeeds, but
\* gives nothing, and never the values of fewer devices.
WrappedReadsGiveNothing ==
  /\ request.op = "read"
  /\ out.ret = "SUCCESS"
  /\ PointsOf(request.type, request.n) >= FieldSize
  => out.values = <<>>

\* A write changes no device but those its call names, and gives each the value
\* the caller has for it; so does one whose number of points is cut, and which
\* writes the first of them only.
WriteOnlyNamed ==
  \A c \in Cells :
    mem'[c] # mem[c] =>
      LET r == AsCells(request)
      IN  \E k \in 1 .. r.n : c = Abstract!Device(r, k) /\ mem'[c] = r.values[k]

WritesOnlyNamed == [][WriteOnlyNamed]_vars

\* A call on devices the PLC has, whose frame fits its length field, succeeds.
LegalCallsSucceed ==
  out.ret # "none" =>
    LET r == AsCells(request)
    IN  /\ \A k \in 1 .. r.n : Abstract!Device(r, k) \in Cells
        /\ (request.type = "bool") <=> (r.first[1] \in BitDevices)
        /\ 24 + 4 * r.n < FieldSize
        => out.ret = "SUCCESS"
=============================================================================
