------------------------------ MODULE AgcWord ------------------------------
(***************************************************************************)
(* The words of the machine: crate agc-word.  A word is 15 bits in one's   *)
(* complement, a central register is 16 bits with the sign in both bits 16 *)
(* and 15 as long as nothing has overflowed.                               *)
(***************************************************************************)
EXTENDS Integers

Word == {w \in Nat : w <= \o77777}
Register16 == {r \in Nat : r <= \o177777}

(* 15 to 16 bits by copying the sign, and back keeping bit 16.             *)
SignExtend(w) == w + (w \div \o40000) * \o100000
OverflowCorrect(r) == (r % \o40000) + (r \div \o100000) * \o40000

(* AgcWord::wrapping_add: a carry out of bit 15 comes in again at bit 1.   *)
wrapping_add(v, w) ==
  IF v + w > \o77777 THEN v + w - \o77777 ELSE v + w

is_zero(w) == w = 0 \/ w = \o77777
is_negative(w) == w >= \o40000
complement(w) == \o77777 - w

(* Host integers: both zeros are read as 0, and 0 is written as +0.        *)
MAX_MAGNITUDE == \o37777
to_i32_lossy_zero(w) == IF is_negative(w) THEN w - \o77777 ELSE w
Representable(n) == -MAX_MAGNITUDE <= n /\ n <= MAX_MAGNITUDE
from_i32(n) == IF n < 0 THEN \o77777 + n ELSE n

-----------------------------------------------------------------------------
(* Central registers, where the two sign bits differ after an overflow.    *)
has_overflow(r) == r \div \o40000 \in {1, 2}
Complement16(r) == \o177777 - r
AddRegister(r, s) ==
  IF r + s > \o177777 THEN r + s - \o177777 ELSE r + s
is_negative16(r) == r >= \o100000

(* The sign and size of a register, and what its overflow is worth: with   *)
(* has_overflow, to_i32(r) = overflow_sign(r) * 2^14 + corrected word.     *)
value16(r) == IF is_negative16(r) THEN r - \o177777 ELSE r
overflow_sign(r) == IF r \div \o40000 = 1 THEN 1 ELSE IF r \div \o40000 = 2 THEN -1 ELSE 0

-----------------------------------------------------------------------------
(* Double words: two words of one sign, the high one worth 2^14.           *)
DoubleBase == \o40000
MAX_DOUBLE == DoubleBase * DoubleBase - 1
double_from_i64(n) ==
  LET m == IF n < 0 THEN -n ELSE n
      signed(v) == from_i32(IF n < 0 THEN -v ELSE v)
      zero == IF n < 0 THEN \o77777 ELSE 0
      word(v) == IF v = 0 THEN zero ELSE signed(v)
  IN  [high |-> word(m \div DoubleBase), low |-> word(m % DoubleBase)]
=============================================================================
