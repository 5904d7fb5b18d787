------------------------------ MODULE AgcLoader ------------------------------
(***************************************************************************)
(* agc-loader: the four file formats of a rope, decoded into words in      *)
(* physical bank order, and the yaYUL format written (encode_yayul, and    *)
(* the same loop in agc-assembler's to_yayul_bytes).  A file is a sequence *)
(* of 16-bit values, one for each pair of bytes.                           *)
(***************************************************************************)
EXTENDS Naturals, Sequences

CONSTANTS FIXED_BANKS, FIXED_WORDS_PER_BANK

Locations == 0 .. FIXED_BANKS * FIXED_WORDS_PER_BANK - 1
YayulFormats == {"Yayul", "YayulParity"}
ParityFormats == {"YayulParity", "Hardware"}

(* yaYUL writes banks 2, 3, 0, 1 and then the others in order: the bank    *)
(* number with its second bit inverted, which undoes itself.               *)
Swapped(bank) == IF bank >= 4 THEN bank ELSE (bank + 2) % 4
Bank(p) == p \div FIXED_WORDS_PER_BANK
Moved(p, bank) == bank * FIXED_WORDS_PER_BANK + (p % FIXED_WORDS_PER_BANK)

encode_yayul(words) ==
  [i \in 1 .. FIXED_BANKS * FIXED_WORDS_PER_BANK |->
     2 * words[Moved(i - 1, Swapped(Bank(i - 1)))]]

Ones(raw) == Len(SelectSeq([i \in 1 .. 16 |-> (raw \div 2^(i - 1)) % 2], LAMBDA b : b = 1))
(* A word with an even number of ones fails where parity is supplied, one  *)
(* with the reserved bit set where it is not.                              *)
Refused(raw, format) ==
  IF format \in ParityFormats THEN Ones(raw) % 2 # 1
  ELSE IF format = "Yayul" THEN raw % 2 # 0 ELSE raw >= \o100000
(* The data bits; hardware keeps parity in bit 15 and data above it.       *)
Data(raw, format) ==
  IF format \in YayulFormats THEN raw \div 2
  ELSE IF format = "Hardware" THEN (raw \div \o100000) * \o40000 + (raw % \o40000)
  ELSE raw

Source(p, format) ==
  IF format \in YayulFormats THEN Moved(p, Swapped(Bank(p))) ELSE p

Decodable(file, format) ==
  /\ Len(file) = FIXED_BANKS * FIXED_WORDS_PER_BANK
  /\ \A i \in DOMAIN file : ~Refused(file[i], format)
decode_bytes(file, format) ==
  [p \in Locations |-> Data(file[Source(p, format) + 1], format)]
=============================================================================
