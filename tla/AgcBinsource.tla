---------------------------- MODULE AgcBinsource ----------------------------
(***************************************************************************)
(* assemble_binsource_reference of agc-assembler: an octal listing of a    *)
(* rope is read card by card, and accepted if every bank is there once and *)
(* in full and every bank's checksum is its number or the complement of    *)
(* its number.                                                             *)
(***************************************************************************)
EXTENDS AgcWord, Sequences, SequencesExt

CONSTANTS
  BankCount, BankWords,  \* 36 banks of 1024 words
  WordCards              \* the words a listing may have under each bank card

(* yaYUL's order of the banks needs the first four; a bank's number is a   *)
(* word that is not negative.                                              *)
ASSUME BinsourceAssumption ==
  /\ BankCount \in Nat /\ 4 <= BankCount /\ BankCount <= MAX_MAGNITUDE
  /\ BankWords \in Nat
  /\ WordCards \in [0 .. BankCount - 1 -> SUBSET Word]

Loader == INSTANCE AgcLoader
            WITH FIXED_BANKS <- BankCount, FIXED_WORDS_PER_BANK <- BankWords

NoCard == -1

VARIABLES
  banks,         \* the words read so far, by bank
  current_bank,  \* the bank of the last bank card
  unused_words,  \* the unused words counted
  verdict,       \* reading, accepted or refused
  rope           \* the file written

binvars == <<banks, current_bank, unused_words, verdict, rope>>

InitBinsource ==
  /\ banks = <<>> /\ current_bank = NoCard /\ unused_words = 0
  /\ verdict = "reading" /\ rope = <<>>

refuse ==
  verdict' = "refused" /\ UNCHANGED <<banks, current_bank, unused_words, rope>>

bank_card(bank) ==
  /\ verdict = "reading"
  /\ IF bank >= BankCount \/ bank \in DOMAIN banks THEN refuse
     ELSE /\ banks' = [b \in DOMAIN banks \cup {bank} |-> IF b = bank THEN <<>> ELSE banks[b]]
          /\ current_bank' = bank
          /\ UNCHANGED <<unused_words, verdict, rope>>

(* A word, an unused one (@), or a token that is neither.                  *)
word_card(w, unused) ==
  /\ verdict = "reading"
  /\ IF current_bank = NoCard \/ Len(banks[current_bank]) = BankWords THEN refuse
     ELSE /\ banks' = [banks EXCEPT ![current_bank] = Append(@, w)]
          /\ unused_words' = unused_words + IF unused THEN 1 ELSE 0
          /\ UNCHANGED <<current_bank, verdict, rope>>
bad_card == verdict = "reading" /\ refuse

-----------------------------------------------------------------------------
(* The checksum adds as the machine's self-check does: what overflows one  *)
(* word comes back as a unit.  Mutant: it is lost.                         *)
checksum_add_lost(v, w) ==
  LET sum == to_i32_lossy_zero(v) + to_i32_lossy_zero(w)
  IN  from_i32(IF sum > MAX_MAGNITUDE THEN sum - (MAX_MAGNITUDE + 1)
               ELSE IF sum < -MAX_MAGNITUDE THEN sum + MAX_MAGNITUDE + 1 ELSE sum)
checksum_add(v, w) ==
  LET sum == to_i32_lossy_zero(v) + to_i32_lossy_zero(w)
  IN  from_i32(IF sum > MAX_MAGNITUDE THEN sum - MAX_MAGNITUDE
               ELSE IF sum < -MAX_MAGNITUDE THEN sum + MAX_MAGNITUDE ELSE sum)

Checksum(words) ==
  LET sum[n \in 0 .. Len(words)] ==
        IF n = 0 THEN 0 ELSE checksum_add(sum[n - 1], words[n])
  IN  sum[Len(words)]
Certified(bank, words) ==
  Len(words) = BankWords /\ Checksum(words) \in {bank, complement(bank)}
Accepts(listing) ==
  /\ DOMAIN listing = 0 .. BankCount - 1
  /\ \A b \in DOMAIN listing : Certified(b, listing[b])

InOrder(listing) ==
  [p \in Loader!Locations |-> listing[p \div BankWords][(p % BankWords) + 1]]

end_of_listing ==
  /\ verdict = "reading"
  /\ IF Accepts(banks)
     THEN /\ verdict' = "accepted" /\ rope' = Loader!encode_yayul(InOrder(banks))
          /\ UNCHANGED <<banks, current_bank, unused_words>>
     ELSE refuse

NextBinsource ==
  \/ \E bank \in 0 .. BankCount : bank_card(bank)
  \/ \E w \in IF current_bank = NoCard THEN {0} ELSE WordCards[current_bank] :
       word_card(w, FALSE)
  \/ word_card(0, TRUE) \/ bad_card \/ end_of_listing
=============================================================================
