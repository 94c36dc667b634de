-------------------------------- MODULE Bits --------------------------------
(***************************************************************************)
(* Integers of a fixed width, as the numbers 0..2^w-1, and memory as a     *)
(* sequence of bytes.  Byte is the number of bits in a byte, a power of    *)
(* two; the other widths are named after what they are with bytes of eight *)
(* bits.                                                                   *)
(***************************************************************************)
EXTENDS Integers

CONSTANTS Byte, MemorySize

ASSUME BitsAssumption ==
  /\ Byte \in Nat \ {0} /\ \E k \in 0..Byte : Byte = 2^k
  /\ MemorySize \in Nat

W8 == Byte
W16 == 2 * Byte
W32 == 4 * Byte
W64 == 8 * Byte

Word(w) == 0..(2^w - 1)
Addresses == 0..(MemorySize - 1)

(* The low w bits of an integer                                            *)
Trunc(v, w) == v % 2^w

(* The signed number that v stands for at width w, and back at another     *)
Signed(v, w) == IF v < 2^(w - 1) THEN v ELSE v - 2^w
SExt(v, from, to) == Trunc(Signed(v, from), to)

(* The bits of a number, and the word of w bits that has those of a set    *)
BitsOf(v, w) == {i \in 0..(w - 1) : (v \div 2^i) % 2 = 1}
OfBits(set, w) == CHOOSE v \in Word(w) : BitsOf(v, w) = set

And(a, b, w) == OfBits(BitsOf(a, w) \cap BitsOf(b, w), w)
Or(a, b, w) == OfBits(BitsOf(a, w) \cup BitsOf(b, w), w)
Xor(a, b, w) == LET x == BitsOf(a, w) y == BitsOf(b, w) IN OfBits((x \cup y) \ (x \cap y), w)

(* The quotient rounded towards zero                                       *)
Magnitude(x) == IF x < 0 THEN -x ELSE x
Quotient(x, y) ==
  LET q == Magnitude(x) \div Magnitude(y)
  IN  IF (x < 0) = (y < 0) THEN q ELSE -q

ByteOf(v, i) == (v \div 2^(Byte * i)) % 2^Byte
Bytes(w) == w \div Byte
OfBytes(f, n) == CHOOSE v \in Word(Byte * n) : \A i \in 0..(n - 1) : ByteOf(v, i) = f[i]

ByteSwap(v, w) ==
  OfBytes([i \in 0..(Bytes(w) - 1) |-> ByteOf(v, Bytes(w) - 1 - i)], Bytes(w))

(* Little-endian access                                                    *)
InMemory(p, w) == p >= 0 /\ p + Bytes(w) <= MemorySize
Fetch(m, p, w) == OfBytes([i \in 0..(Bytes(w) - 1) |-> m[p + i]], Bytes(w))
Put(m, p, w, v) ==
  [a \in Addresses |-> IF a \in p..(p + Bytes(w) - 1) THEN ByteOf(v, a - p) ELSE m[a]]
=============================================================================
