-------------------------- MODULE AgcMemoryProofs --------------------------
(***************************************************************************)
(* Machine-checked facts about AgcMemory, for every set of inputs.  The    *)
(* invariant is a fact about `central' alone plus one about channel 7:     *)
(* each path that writes a register goes through write_central_raw, and    *)
(* the lemmas show that it keeps the fact.                                 *)
(***************************************************************************)
EXTENDS MemoryStore, TLAPS

(* The register file is well formed and its selectors agree.               *)
CentralOK(c) ==
  /\ c \in [SpecialIndex -> Register16]
  /\ c[EB] = EbField(c[EB])
  /\ c[FB] = FbField(c[FB])
  /\ c[Z] <= \o7777
  /\ c[BB] = c[FB] + (c[EB] \div \o400)

MemoryInv == TypeOK /\ BanksSynchronized /\ SuperbankAgrees

(* The two word widths, as bounds.                                         *)
LEMMA Widths ==
  /\ \A w \in Word : w \in Nat /\ w <= \o77777
  /\ \A w \in Nat : w <= \o77777 => w \in Word
  /\ \A r \in Register16 : r \in Nat /\ r <= \o177777
  /\ \A r \in Nat : r <= \o177777 => r \in Register16
  BY DEF Word, Register16

(* The arithmetic of the bank fields: a field is a field of itself, and    *)
(* splitting BB into FB and EB loses nothing.                              *)
LEMMA BankFields ==
  ASSUME NEW v \in Nat, v <= \o177777
  PROVE  /\ EbField(v) \in Nat /\ EbField(v) <= \o3400
         /\ EbField(EbField(v)) = EbField(v)
         /\ FbField(v) \in Nat /\ FbField(v) <= \o76000
         /\ FbField(FbField(v)) = FbField(v)
         /\ (EbField(v) \div \o400) % \o10 = EbField(v) \div \o400
         /\ EbField(v) \div \o400 \in Nat /\ EbField(v) \div \o400 <= 7
         /\ BbField(v) \in Nat /\ BbField(v) <= \o76007
         /\ FbField(BbField(v)) = FbField(v)
         /\ BbField(v) % \o10 = v % \o10
         /\ EbField((v % \o10) * \o400) = (v % \o10) * \o400
         /\ ((v % \o10) * \o400) \div \o400 = v % \o10
         /\ (v % \o10) * \o400 \in Nat /\ (v % \o10) * \o400 <= \o3400
  BY DEF EbField, FbField, BbField

(* Editing keeps a word a word, and the sign extension of a word is a      *)
(* register value.                                                         *)
LEMMA EditedWords ==
  ASSUME NEW w \in Nat, w <= \o77777, NEW i
  PROVE  /\ Edited(i, w) \in Nat /\ Edited(i, w) <= \o77777
         /\ SignExtend(w) \in Nat /\ SignExtend(w) <= \o177777
<1>1. /\ RotateRight(w) \in Nat /\ RotateRight(w) <= \o77777
      /\ ShiftRight(w) \in Nat /\ ShiftRight(w) <= \o77777
  BY DEF RotateRight, ShiftRight
<1>2. /\ RotateLeft(w) \in Nat /\ RotateLeft(w) <= \o77777
      /\ (w \div \o200) % \o200 \in Nat /\ (w \div \o200) % \o200 <= \o77777
  BY DEF RotateLeft
<1>3. SignExtend(w) \in Nat /\ SignExtend(w) <= \o177777
  BY DEF SignExtend
<1>4. QED
  BY <1>1, <1>2, <1>3 DEF Edited

(* What a register is read as is a word.                                   *)
LEMMA SpecialReadIsWord ==
  ASSUME NEW i \in SpecialIndex, central \in [SpecialIndex -> Register16]
  PROVE  read_special(i) \in Nat /\ read_special(i) <= \o77777
<1>1. ASSUME NEW r \in Nat, r <= \o177777
      PROVE  /\ OverflowCorrect(r) \in Nat /\ OverflowCorrect(r) <= \o77777
             /\ r % \o10000 \in Nat /\ r % \o10000 <= \o77777
             /\ r % \o100000 \in Nat /\ r % \o100000 <= \o77777
  BY <1>1 DEF OverflowCorrect
<1>2. central[i] \in Nat /\ central[i] <= \o177777
  BY Widths
<1>3. QED
  BY <1>1, <1>2 DEF read_special

(* Every register write goes through write_central_raw and keeps the       *)
(* selectors agreeing.                                                     *)
LEMMA CentralWrite ==
  ASSUME NEW c \in [SpecialIndex -> Register16], CentralOK(c),
         NEW i \in 0 .. \o17, NEW raw \in Register16
  PROVE  CentralOK(write_central_raw(c, i, raw))
<1> raw \in Nat /\ raw <= \o177777
  BY Widths
<1> DEFINE d == write_central_raw(c, i, raw)
<1> USE DEF EB, FB, BB, Z, ZERO, SpecialIndex, BankRegisters
<1>0. /\ c \in [SpecialIndex -> Register16]
      /\ c[EB] \in Nat /\ c[EB] <= \o177777
      /\ c[FB] \in Nat /\ c[FB] <= \o177777
      /\ c[EB] = EbField(c[EB])
      /\ c[FB] = FbField(c[FB])
  BY DEF CentralOK, Register16
<1>1. CASE i = EB
  <2>1. d = [[c EXCEPT ![EB] = EbField(raw)]
                EXCEPT ![BB] = c[FB] + ((EbField(raw) \div \o400) % \o10)]
    BY <1>1, <1>0 DEF write_central_raw, synchronize_banks, Masked
  <2>2. /\ c[FB] + ((EbField(raw) \div \o400) % \o10) \in Register16
        /\ EbField(raw) \in Register16
    <3>1. c[FB] <= \o76000
      BY BankFields, <1>0
    <3>2. /\ (EbField(raw) \div \o400) % \o10 \in Nat
          /\ (EbField(raw) \div \o400) % \o10 <= 7
          /\ EbField(raw) \in Nat /\ EbField(raw) <= \o3400
      BY BankFields
    <3>3. QED
      BY <1>0, <3>1, <3>2 DEF Register16
  <2>3. /\ d \in [SpecialIndex -> Register16]
        /\ d[EB] = EbField(raw)
        /\ d[FB] = c[FB]
        /\ d[Z] = c[Z]
        /\ d[BB] = c[FB] + ((EbField(raw) \div \o400) % \o10)
    BY <2>1, <2>2, <1>0
  <2>4. QED
    BY <2>3, <1>0, BankFields DEF CentralOK
<1>2. CASE i = FB
  <2>1. d = [[c EXCEPT ![FB] = FbField(raw)]
                EXCEPT ![BB] = FbField(raw) + ((c[EB] \div \o400) % \o10)]
    BY <1>2, <1>0 DEF write_central_raw, synchronize_banks, Masked
  <2>2. (c[EB] \div \o400) % \o10 = c[EB] \div \o400
    BY BankFields, <1>0
  <2>3. c[EB] \div \o400 \in Nat /\ c[EB] \div \o400 <= 7
    BY BankFields, <1>0
  <2>4. FbField(raw) + (c[EB] \div \o400) \in Register16 /\ FbField(raw) \in Register16
    <3>1. FbField(raw) \in Nat /\ FbField(raw) <= \o76000
      BY BankFields
    <3>2. QED
      BY <2>3, <3>1 DEF Register16
  <2>5. /\ d \in [SpecialIndex -> Register16]
        /\ d[EB] = c[EB]
        /\ d[FB] = FbField(raw)
        /\ d[Z] = c[Z]
        /\ d[BB] = FbField(raw) + (c[EB] \div \o400)
    BY <2>1, <2>2, <2>4, <1>0
  <2>6. QED
    BY <2>5, <1>0, BankFields DEF CentralOK
<1>3. CASE i = BB
  <2>1. d = [[[c EXCEPT ![BB] = BbField(raw)]
                 EXCEPT ![EB] = (BbField(raw) % \o10) * \o400]
                 EXCEPT ![FB] = FbField(BbField(raw))]
    BY <1>3, <1>0 DEF write_central_raw, synchronize_banks, Masked
  <2>2. /\ (raw % \o10) * \o400 \in Register16
        /\ FbField(raw) \in Register16 /\ BbField(raw) \in Register16
    <3>1. /\ FbField(raw) \in Nat /\ FbField(raw) <= \o76000
          /\ BbField(raw) \in Nat /\ BbField(raw) <= \o76007
          /\ (raw % \o10) * \o400 \in Nat /\ (raw % \o10) * \o400 <= \o3400
      BY BankFields
    <3>2. QED
      BY <3>1 DEF Register16
  <2>3. /\ d \in [SpecialIndex -> Register16]
        /\ d[EB] = (raw % \o10) * \o400
        /\ d[FB] = FbField(raw)
        /\ d[Z] = c[Z]
        /\ d[BB] = BbField(raw)
    <3>1. BbField(raw) % \o10 = raw % \o10 /\ FbField(BbField(raw)) = FbField(raw)
      BY BankFields
    <3>2. /\ (BbField(raw) % \o10) * \o400 \in Register16
          /\ FbField(BbField(raw)) \in Register16
      BY <2>2, <3>1
    <3>3. /\ d \in [SpecialIndex -> Register16]
          /\ d[EB] = (BbField(raw) % \o10) * \o400
          /\ d[FB] = FbField(BbField(raw))
          /\ d[Z] = c[Z]
          /\ d[BB] = BbField(raw)
      BY <2>1, <2>2, <3>2, <1>0
    <3>4. QED
      BY <3>1, <3>3
  <2>4. BbField(raw) = FbField(raw) + (raw % \o10)
    BY DEF BbField
  <2>5. /\ EbField((raw % \o10) * \o400) = (raw % \o10) * \o400
        /\ ((raw % \o10) * \o400) \div \o400 = raw % \o10
        /\ FbField(FbField(raw)) = FbField(raw)
    BY BankFields
  <2>6. QED
    BY <2>3, <2>4, <2>5, <1>0 DEF CentralOK
<1>4. CASE i = Z
  <2>1. raw % \o10000 \in Register16 /\ raw % \o10000 <= \o7777
    BY Widths
  <2>2. d = [c EXCEPT ![Z] = raw % \o10000]
    BY <1>4 DEF write_central_raw, Masked
  <2>3. QED
    BY <2>1, <2>2, <1>0 DEF CentralOK
<1>5. CASE i \notin {EB, FB, BB, Z}
  <2>1. CASE i = ZERO
    BY <2>1 DEF write_central_raw
  <2>2. CASE i # ZERO
    <3>0. Masked(i, raw) = raw
      BY <1>5 DEF Masked
    <3>1. d = [c EXCEPT ![i] = raw]
      BY <1>5, <2>2, <3>0 DEF write_central_raw
    <3>2. raw \in Register16
      BY Widths
    <3>3. QED
      BY <1>5, <3>1, <3>2, <1>0 DEF CentralOK
  <2>3. QED
    BY <2>1, <2>2
<1>6. QED
  BY <1>1, <1>2, <1>3, <1>4, <1>5
(* The same for a program's write, which sign-extends or edits first.      *)
LEMMA SpecialWrite ==
  ASSUME NEW c, CentralOK(c), NEW i \in SpecialIndex,
         NEW w \in Nat, w <= \o77777
  PROVE  CentralOK(write_special(c, i, w))
<1>1. CASE i >= \o20
  <2>1. Edited(i, w) \in Register16
    BY EditedWords DEF Register16
  <2>2. write_special(c, i, w) = [c EXCEPT ![i] = Edited(i, w)]
    BY <1>1 DEF write_special
  <2>3. QED
    BY <1>1, <2>1, <2>2 DEF CentralOK, SpecialIndex, EB, FB, BB, Z
<1>2. CASE ~(i >= \o20)
  <2>1. i \in 0 .. \o17
    BY <1>2 DEF SpecialIndex
  <2>2. /\ SignExtend(w) \in Nat /\ SignExtend(w) <= \o177777
        /\ w <= \o177777
    BY EditedWords
  <2> DEFINE raw == IF i \in {A, L, Q} THEN SignExtend(w) ELSE w
  <2>3. raw \in Register16
    BY <2>2 DEF Register16
  <2>4. write_special(c, i, w) = write_central_raw(c, i, raw)
    BY <1>2 DEF write_special
  <2> HIDE DEF raw
  <2>5. CentralOK(write_central_raw(c, i, raw))
    <3>1. c \in [SpecialIndex -> Register16]
      BY DEF CentralOK
    <3>2. QED
      BY <2>1, <2>3, <3>1, CentralWrite
  <2>6. QED
    BY <2>4, <2>5
<1>3. QED
  BY <1>1, <1>2

(* The cleared register file is well formed.                               *)
LEMMA ClearedCentral == CentralOK([i \in SpecialIndex |-> 0])
<1>1. EbField(0) = 0 /\ FbField(0) = 0
  BY DEF EbField, FbField
<1>2. QED
  BY <1>1 DEF CentralOK, SpecialIndex, Register16, EB, FB, BB, Z

(* The cleared channels are words, and channel 7 selects no superbank.     *)
LEMMA ClearedChannels ==
  ASSUME InputAssumption
  PROVE  InputChannels \in [Channels -> Word] /\ ~SuperbankBit(InputChannels[7])
<1>1. InputChannels \in [Channels -> Word]
  BY DEF InputChannels, Word
<1>2. InputChannels[7] = 0
  BY DEF InputChannels, InputAssumption
<1>3. QED
  BY <1>1, <1>2 DEF SuperbankBit

(* The superbank flag is decoded from the bits that channel 7 keeps.       *)
LEMMA BankControlBits ==
  ASSUME NEW w \in Nat, w <= \o77777
  PROVE  /\ BankControl(w) \in Word
         /\ SuperbankBit(BankControl(w)) \in BOOLEAN
  BY DEF BankControl, SuperbankBit, Word

(* Storing in any cell that is not rope keeps the register file and the    *)
(* general cells well formed.                                              *)
LEMMA StoreKeepsCells ==
  ASSUME NEW p, NEW w \in Nat, w <= \o77777,
         CentralOK(central), erasable \in [ErasableCells -> Word],
         IsSpecial(p) => p.offset \in SpecialIndex,
         StoreAt(p, w)
  PROVE  CentralOK(central') /\ erasable' \in [ErasableCells -> Word]
<1>1. CASE IsSpecial(p)
  BY <1>1, SpecialWrite DEF StoreAt
<1>2. CASE ~IsSpecial(p)
  BY <1>2, Widths DEF StoreAt
<1>3. QED
  BY <1>1, <1>2

(* Translation never puts a special cell outside the register file.        *)
LEMMA TranslatedOffsets ==
  ASSUME NEW a \in Nat, IsSpecial(translate(a))
  PROVE  translate(a).offset \in SpecialIndex
<1>1. CASE a \in SpecialIndex
  BY <1>1 DEF translate, register
<1>2. CASE a \notin SpecialIndex /\ a < \o2000
  <2>1. translate(a).offset = a % \o400
    BY <1>2 DEF translate, erasableAt
  <2>2. translate(a).region = "erasable"
    BY <1>2 DEF translate, erasableAt
  <2>3. translate(a).offset <= \o60
    BY <2>2 DEF IsSpecial
  <2>4. a % \o400 \in Nat
    OBVIOUS
  <2>5. QED
    BY <2>1, <2>3, <2>4 DEF SpecialIndex
<1>3. CASE a \notin SpecialIndex /\ ~(a < \o2000)
  <2>1. translate(a).region = "fixed"
    BY <1>3 DEF translate, fixedAt
  <2>2. QED
    BY <2>1 DEF IsSpecial
<1>4. QED
  BY <1>1, <1>2, <1>3

(* The same invariant, with the register file's share of it in one part.   *)
LEMMA InvariantParts ==
  MemoryInv <=>
    /\ CentralOK(central)
    /\ erasable \in [ErasableCells -> Word]
    /\ fixed \in [RopeCells -> Word]
    /\ channels \in [Channels -> Word]
    /\ superbank \in BOOLEAN
    /\ SuperbankAgrees
  BY DEF MemoryInv, CentralOK, TypeOK, BanksSynchronized

(* Every word the callers store is a word, by the width it has.            *)
LEMMA CallersWords ==
  ASSUME InputAssumption
  PROVE  /\ \A w \in Words : w \in Nat /\ w <= \o77777 /\ w \in Word
         /\ \A r \in RawRegisters : r \in Register16
         /\ \A i \in Addresses : i \in Nat
  BY DEF InputAssumption, Word

(* What is read anywhere outside the rope is a word, and fits its cell.    *)
LEMMA ReadIsWord ==
  ASSUME MemoryInv, NEW p, IsSpecial(p), p.offset \in SpecialIndex
  PROVE  read_physical(p) \in Nat /\ read_physical(p) <= \o77777
<1>1. read_physical(p) = read_special(p.offset)
  BY DEF read_physical
<1>2. central \in [SpecialIndex -> Register16]
  BY InvariantParts DEF CentralOK
<1>3. QED
  BY <1>1, <1>2, SpecialReadIsWord

(* The cleared memory satisfies the invariant.                             *)
LEMMA InitKeeps == InputAssumption /\ Init => MemoryInv
<1> SUFFICES ASSUME InputAssumption, Init PROVE MemoryInv
  OBVIOUS
<1>1. CentralOK(central)
  BY ClearedCentral DEF Init
<1>2. erasable \in [ErasableCells -> Word]
  BY DEF Init, Word
<1>3. fixed \in [RopeCells -> Word]
  BY DEF Init, InputAssumption
<1>4. channels \in [Channels -> Word] /\ superbank \in BOOLEAN /\ SuperbankAgrees
  <2>1. channels = InputChannels /\ superbank = FALSE
    BY DEF Init
  <2>2. InputChannels \in [Channels -> Word] /\ ~SuperbankBit(InputChannels[7])
    BY ClearedChannels
  <2>3. QED
    BY <2>1, <2>2, Zenon DEF SuperbankAgrees
<1>5. QED
  BY <1>1, <1>2, <1>3, <1>4, InvariantParts

(* Logical accesses: reads keep the state, an operand read rewrites an     *)
(* editing register and a write stores one word.                           *)
LEMMA LogicalKeeps ==
  ASSUME InputAssumption, MemoryInv, Logical
  PROVE  MemoryInv'
<1> PICK a \in Addresses : \/ read(a) \/ read_and_edit(a)
                           \/ \E w \in Words : write(a, w)
  BY DEF Logical
<1>0. a \in Nat
  BY CallersWords
<1>1. CASE read(a)
  BY <1>1 DEF read, state, MemoryInv, TypeOK, BanksSynchronized, SuperbankAgrees
<1>2. CASE read_and_edit(a)
  <2>1. UNCHANGED <<erasable, fixed, channels, superbank>>
    BY <1>2 DEF read_and_edit
  <2>2. CentralOK(central')
    <3> DEFINE p == translate(a)
    <3>1. CASE Addressable(a) /\ IsSpecial(p) /\ p.offset \in EditingIndex
      <4>1. central' = write_special(central, p.offset, read_physical(p))
        BY <1>2, <3>1 DEF read_and_edit
      <4>2. p.offset \in SpecialIndex
        BY <1>0, <3>1, TranslatedOffsets
      <4>3. read_physical(p) \in Nat /\ read_physical(p) <= \o77777
        BY <3>1, <4>2, ReadIsWord
      <4>4. CentralOK(central) /\ central \in [SpecialIndex -> Register16]
        BY InvariantParts DEF CentralOK
      <4> HIDE DEF p
      <4>5. QED
        BY <4>1, <4>2, <4>3, <4>4, SpecialWrite
    <3>2. CASE ~(Addressable(a) /\ IsSpecial(p) /\ p.offset \in EditingIndex)
      <4>1. central' = central
        BY <1>2, <3>2 DEF read_and_edit
      <4>2. QED
        BY <4>1, InvariantParts
    <3>3. QED
      BY <3>1, <3>2
  <2>3. SuperbankAgrees'
    BY <2>1, InvariantParts DEF SuperbankAgrees
  <2>4. QED
    BY <2>1, <2>2, <2>3, InvariantParts DEF MemoryInv, CentralOK, TypeOK, BanksSynchronized
<1>3. ASSUME NEW w \in Words, write(a, w) PROVE MemoryInv'
  <2>1. UNCHANGED <<fixed, channels, superbank>>
    BY <1>3 DEF write
  <2>2. CentralOK(central') /\ erasable' \in [ErasableCells -> Word]
    <3>1. CASE a > \o7777 \/ translate(a).region = "fixed"
      <4>1. UNCHANGED <<central, erasable>>
        BY <1>3, <3>1 DEF write
      <4>2. QED
        BY <4>1, InvariantParts
    <3>2. CASE ~(a > \o7777 \/ translate(a).region = "fixed")
      <4> PICK p \in {translate(a)} : StoreAt(p, w)
        BY <1>3, <3>2 DEF write
      <4>1. p = translate(a) /\ StoreAt(p, w)
        OBVIOUS
      <4>2. IsSpecial(p) => p.offset \in SpecialIndex
        BY <1>0, <4>1, TranslatedOffsets
      <4>3. QED
        BY <4>1, <4>2, CallersWords, InvariantParts, StoreKeepsCells
    <3>3. QED
      BY <3>1, <3>2
  <2>3. SuperbankAgrees'
    BY <2>1, InvariantParts DEF SuperbankAgrees
  <2>4. QED
    BY <2>1, <2>2, <2>3, InvariantParts DEF MemoryInv, CentralOK, TypeOK, BanksSynchronized
<1>4. QED
  BY <1>1, <1>2, <1>3

(* The processor's register and channel instructions.                      *)
LEMMA ProcessorKeeps ==
  ASSUME InputAssumption, MemoryInv, Processor
  PROVE  MemoryInv'
<1>0. /\ CentralOK(central) /\ central \in [SpecialIndex -> Register16]
      /\ erasable \in [ErasableCells -> Word] /\ fixed \in [RopeCells -> Word]
      /\ channels \in [Channels -> Word] /\ superbank \in BOOLEAN
      /\ SuperbankAgrees
  BY InvariantParts DEF CentralOK
<1>1. ASSUME NEW i \in Addresses, NEW r \in RawRegisters,
             set_central_register(i, r)
      PROVE  MemoryInv'
  <2>1. UNCHANGED <<erasable, fixed, channels, superbank>>
    BY <1>1 DEF set_central_register
  <2>2. CentralOK(central')
    <3>1. CASE i < 16
      <4>1. central' = write_central_raw(central, i, r)
        BY <1>1, <3>1 DEF set_central_register
      <4>2. i \in 0 .. \o17 /\ r \in Register16
        BY <3>1, CallersWords
      <4>3. QED
        BY <4>1, <4>2, <1>0, CentralWrite
    <3>2. CASE ~(i < 16)
      BY <1>0, <1>1, <3>2 DEF set_central_register
    <3>3. QED
      BY <3>1, <3>2
  <2>3. QED
    BY <1>0, <2>1, <2>2
    DEF MemoryInv, CentralOK, TypeOK, BanksSynchronized, SuperbankAgrees
<1>2. ASSUME NEW ch \in Channels, read_channel(ch) PROVE MemoryInv'
  BY <1>2
  DEF read_channel, state, MemoryInv, TypeOK, BanksSynchronized, SuperbankAgrees
<1>3. ASSUME NEW ch \in Channels, NEW w \in Words, write_channel(ch, w)
      PROVE  MemoryInv'
  <2>0. w \in Nat /\ w <= \o77777 /\ w \in Word
    BY CallersWords
  <2>1. UNCHANGED <<erasable, fixed>>
    BY <1>3 DEF write_channel
  <2>2. CASE ch \in {L, Q}
    <3>1. central' = write_special(central, ch, w) /\ UNCHANGED <<channels, superbank>>
      BY <1>3, <2>2 DEF write_channel, L, Q
    <3>2. ch \in SpecialIndex
      BY <2>2 DEF L, Q, SpecialIndex
    <3>3. CentralOK(central')
      BY <1>0, <2>0, <3>1, <3>2, SpecialWrite
    <3>4. QED
      BY <1>0, <2>1, <3>1, <3>3
      DEF MemoryInv, CentralOK, TypeOK, BanksSynchronized, SuperbankAgrees
  <2>3. CASE ch = 7
    <3>1. /\ superbank' = SuperbankBit(BankControl(w))
          /\ channels' = [channels EXCEPT ![7] = BankControl(w)]
          /\ UNCHANGED central
      BY <1>3, <2>3 DEF write_channel, L, Q
    <3>2. BankControl(w) \in Word /\ SuperbankBit(BankControl(w)) \in BOOLEAN
      BY <2>0, BankControlBits
    <3>3. channels' \in [Channels -> Word] /\ channels'[7] = BankControl(w)
      BY <1>0, <3>1, <3>2 DEF InputAssumption
    <3>4. superbank' = SuperbankBit(channels'[7])
      BY <3>1, <3>3
    <3>5. superbank' \in BOOLEAN
      BY <3>1, <3>2
    <3>6. QED
      BY <1>0, <2>1, <3>1, <3>3, <3>4, <3>5
      DEF MemoryInv, CentralOK, TypeOK, BanksSynchronized, SuperbankAgrees
  <2>4. CASE ch \notin {L, Q, 7}
    <3>1. /\ channels' = [channels EXCEPT ![ch] = w]
          /\ UNCHANGED <<central, superbank>>
      BY <1>3, <2>4 DEF write_channel
    <3>2. channels' \in [Channels -> Word] /\ channels'[7] = channels[7]
      BY <1>0, <2>0, <2>4, <3>1 DEF InputAssumption
    <3>3. SuperbankAgrees'
      BY <1>0, <3>1, <3>2, Zenon DEF SuperbankAgrees
    <3>4. QED
      BY <1>0, <2>1, <3>1, <3>2, <3>3
      DEF MemoryInv, CentralOK, TypeOK, BanksSynchronized
  <2>5. QED
    BY <2>2, <2>3, <2>4
<1>4. QED
  BY <1>1, <1>2, <1>3 DEF Processor

(* A cell that diagnostics or faults name, inside the arrays or not.       *)
LEMMA PhysicalNames ==
  ASSUME InputAssumption
  PROVE  /\ \A c \in PhysicalCells :
              /\ c = <<c[1], c[2]>> /\ c[1] \in Nat /\ c[2] \in Nat
              /\ InErasableArray(c[1], c[2]) => c \in ErasableCells
         /\ \A c \in FlippedCells :
              /\ c = <<c[1], c[2]>> /\ c[1] \in Nat /\ c[2] \in Nat
              /\ InRopeArray(c[1], c[2]) => c \in RopeCells
  BY DEF InputAssumption

(* A flipped bit leaves a rope of words.                                    *)
LEMMA FlipKeepsRope ==
  ASSUME InputAssumption, fixed \in [RopeCells -> Word],
         NEW c \in FlippedCells, NEW w \in Words,
         inject_fixed_bit_flip(c[1], c[2], w)
  PROVE  fixed' \in [RopeCells -> Word]
<1>1. fixed' = [fixed EXCEPT ![<<c[1], c[2]>>] = w] \/ fixed' = fixed
  BY DEF inject_fixed_bit_flip
<1>2. w \in Word
  BY CallersWords
<1>3. QED
  BY ONLY fixed \in [RopeCells -> Word], <1>1, <1>2

(* Reset, rope loading and the direct access of diagnostics and faults.    *)
LEMMA MaintenanceKeeps ==
  ASSUME InputAssumption, MemoryInv, Maintenance
  PROVE  MemoryInv'
<1>0. /\ CentralOK(central)
      /\ erasable \in [ErasableCells -> Word] /\ fixed \in [RopeCells -> Word]
      /\ channels \in [Channels -> Word] /\ superbank \in BOOLEAN
      /\ SuperbankAgrees
  BY InvariantParts
<1>1. CASE reset_volatile
  <2>1. CentralOK(central')
    BY <1>1, ClearedCentral DEF reset_volatile
  <2>2. erasable' \in [ErasableCells -> Word] /\ UNCHANGED fixed
    BY <1>1 DEF reset_volatile, Word
  <2>3. channels' = InputChannels /\ superbank' = FALSE
    BY <1>1 DEF reset_volatile
  <2>4. channels' \in [Channels -> Word] /\ ~SuperbankBit(channels'[7])
    BY <2>3, ClearedChannels
  <2>5. SuperbankAgrees'
    BY <2>3, <2>4, Zenon DEF SuperbankAgrees
  <2>6. superbank' \in BOOLEAN /\ fixed' \in [RopeCells -> Word]
    BY <1>0, <2>2, <2>3
  <2>7. QED
    BY <2>1, <2>2, <2>4, <2>5, <2>6
    DEF MemoryInv, CentralOK, TypeOK, BanksSynchronized
<1>2. ASSUME NEW rope \in Ropes, load_rope(rope) PROVE MemoryInv'
  <2>1. fixed' \in [RopeCells -> Word] /\ UNCHANGED <<central, erasable, channels, superbank>>
    BY <1>2 DEF load_rope, InputAssumption
  <2>2. QED
    BY <1>0, <2>1
    DEF MemoryInv, CentralOK, TypeOK, BanksSynchronized, SuperbankAgrees
<1>3. ASSUME NEW c \in PhysicalCells,
             \/ read_erasable_physical(c[1], c[2])
             \/ \E w \in Words : write_erasable_physical(c[1], c[2], w)
      PROVE  MemoryInv'
  <2>1. CASE read_erasable_physical(c[1], c[2])
    BY <2>1
    DEF read_erasable_physical, state, MemoryInv, TypeOK, BanksSynchronized,
        SuperbankAgrees
  <2>2. ASSUME NEW w \in Words, write_erasable_physical(c[1], c[2], w)
        PROVE  MemoryInv'
    <3>1. /\ StoreAt(erasableAt(c[1], c[2]), w) \/ UNCHANGED <<central, erasable>>
          /\ UNCHANGED <<fixed, channels, superbank>>
      BY <2>2 DEF write_erasable_physical
    <3>2. c[2] \in Nat
      BY PhysicalNames
    <3>3. IsSpecial(erasableAt(c[1], c[2])) => erasableAt(c[1], c[2]).offset \in SpecialIndex
      BY <3>2 DEF IsSpecial, erasableAt, SpecialIndex
    <3>4. CentralOK(central') /\ erasable' \in [ErasableCells -> Word]
      <4>1. CASE StoreAt(erasableAt(c[1], c[2]), w)
        BY <1>0, <3>3, <4>1, CallersWords, StoreKeepsCells
      <4>2. CASE UNCHANGED <<central, erasable>>
        BY <1>0, <4>2
      <4>3. QED
        BY <3>1, <4>1, <4>2
    <3>5. QED
      BY <1>0, <3>1, <3>4
      DEF MemoryInv, CentralOK, TypeOK, BanksSynchronized, SuperbankAgrees
  <2>3. QED
    BY <1>3, <2>1, <2>2
<1>4. ASSUME NEW c \in FlippedCells, NEW w \in Words,
             inject_fixed_bit_flip(c[1], c[2], w)
      PROVE  MemoryInv'
  <2>1. fixed' \in [RopeCells -> Word]
    BY <1>0, <1>4, FlipKeepsRope
  <2>2. UNCHANGED <<central, erasable, channels, superbank>>
    BY <1>4 DEF inject_fixed_bit_flip
  <2>3. QED
    BY <1>0, <2>1, <2>2
    DEF MemoryInv, CentralOK, TypeOK, BanksSynchronized, SuperbankAgrees
<1>5. QED
  BY <1>1, <1>2, <1>3, <1>4 DEF Maintenance

(* The cells keep their widths, the three selectors keep agreeing and the  *)
(* decoded superbank flag keeps agreeing with channel 7, whatever calls    *)
(* the processor, the runtime and fault injection make.                    *)
THEOREM MemoryInvariant ==
  Spec => [](TypeOK /\ BanksSynchronized /\ SuperbankAgrees)
<1>1. Init => MemoryInv
  BY InitKeeps, InputAssumption
<1>2. MemoryInv /\ [Next]_vars => MemoryInv'
  <2> SUFFICES ASSUME MemoryInv, [Next]_vars PROVE MemoryInv'
    OBVIOUS
  <2>1. CASE Next
    BY <2>1, InputAssumption, LogicalKeeps, ProcessorKeeps, MaintenanceKeeps DEF Next
  <2>2. CASE UNCHANGED vars
    BY <2>2 DEF vars, MemoryInv, TypeOK, BanksSynchronized, SuperbankAgrees
  <2>3. QED
    BY <2>1, <2>2
<1>3. QED
  BY <1>1, <1>2, PTL DEF Spec, MemoryInv

(* In every state the selectors name an installed rope bank, so a logical  *)
(* access inside the address space never fails.                            *)
THEOREM EveryBankInstalled ==
  Spec => []BankInstalled
<1>1. MemoryInv => BankInstalled
  <2> SUFFICES ASSUME MemoryInv, NEW a \in Addresses, a <= \o7777
               PROVE  Installed(translate(a))
    BY InputAssumption DEF BankInstalled
  <2>1. fbank \in 0 .. 31
    <3>1. central[FB] \in Nat
      BY DEF MemoryInv, TypeOK, SpecialIndex, FB, Register16
    <3>2. QED
      BY <3>1 DEF fbank
  <2>2. selected_fixed_bank \in FixedBanks
    BY <2>1 DEF selected_fixed_bank, FixedBanks
  <2>3. QED
    BY <2>2, InputAssumption
    DEF translate, Installed, register, erasableAt, fixedAt, FixedBanks
<1>2. QED
  BY <1>1, MemoryInvariant, PTL DEF MemoryInv

-----------------------------------------------------------------------------
(***************************************************************************)
(* The memory implements AddressedStore: every call maps to a Put, Select, *)
(* Replace or Clear of the one store.                                      *)
(***************************************************************************)
(* A pair is made of its two parts.                                        *)
LEMMA Pairs ==
  ASSUME NEW S, NEW T, NEW c \in S \X T
  PROVE  c = <<c[1], c[2]>> /\ c[1] \in S /\ c[2] \in T
  OBVIOUS

(* The four kinds of cells of the store, and what each of them holds.      *)
LEMMA CellKinds ==
  ASSUME NEW p \in StoreCells
  PROVE  \/ \E i \in SpecialIndex : p = register(i)
         \/ \E c \in ErasableCells : p = erasableAt(c[1], c[2]) /\ ~IsSpecial(p)
         \/ \E c \in RopeCells : p = fixedAt(c[1], c[2])
         \/ \E ch \in Channels \ {L, Q} : p = channelAt(ch)
  BY DEF StoreCells, GeneralCells, RopeNames, ChannelNames

ContentsByKind ==
  /\ \A i \in SpecialIndex : Contents[register(i)] = read_special(i)
  /\ \A c \in ErasableCells :
       ~IsSpecial(erasableAt(c[1], c[2]))
         => Contents[erasableAt(c[1], c[2])] = erasable[c]
  /\ \A c \in RopeCells : Contents[fixedAt(c[1], c[2])] = fixed[c]
  /\ \A ch \in Channels \ {L, Q} : Contents[channelAt(ch)] = channels[ch]

LEMMA CellContents == ContentsByKind
<1>1. ASSUME NEW i \in SpecialIndex PROVE Contents[register(i)] = read_special(i)
  BY <1>1 DEF Contents, StoreCells, register, read_physical, IsSpecial
<1>2. ASSUME NEW c \in ErasableCells, ~IsSpecial(erasableAt(c[1], c[2]))
      PROVE  Contents[erasableAt(c[1], c[2])] = erasable[c]
  <2>1. erasableAt(c[1], c[2]) \in StoreCells
    BY <1>2 DEF StoreCells, GeneralCells
  <2>2. c = <<c[1], c[2]>>
    BY Pairs DEF ErasableCells
  <2>3. QED
    BY <1>2, <2>1, <2>2 DEF Contents, read_physical, erasableAt
<1>3. ASSUME NEW c \in RopeCells PROVE Contents[fixedAt(c[1], c[2])] = fixed[c]
  <2>1. fixedAt(c[1], c[2]) \in StoreCells
    BY DEF StoreCells, RopeNames
  <2>2. c = <<c[1], c[2]>>
    BY Pairs DEF RopeCells
  <2>3. QED
    BY <2>1, <2>2 DEF Contents, read_physical, fixedAt, IsSpecial
<1>4. ASSUME NEW ch \in Channels \ {L, Q} PROVE Contents[channelAt(ch)] = channels[ch]
  BY <1>4 DEF Contents, StoreCells, ChannelNames, channelAt
<1>5. QED
  BY <1>1, <1>2, <1>3, <1>4 DEF ContentsByKind

LEMMA CellContentsNext == ContentsByKind'
  BY CellContents, PTL

(* A cell keeps its word when the storage behind it keeps its word.        *)
LEMMA CellKept ==
  ASSUME NEW p \in StoreCells,
         \A i \in SpecialIndex : p = register(i) => central'[i] = central[i],
         \A c \in ErasableCells :
           p = erasableAt(c[1], c[2]) => erasable'[c] = erasable[c],
         \A c \in RopeCells : p = fixedAt(c[1], c[2]) => fixed'[c] = fixed[c],
         \A ch \in Channels \ {L, Q} :
           p = channelAt(ch) => channels'[ch] = channels[ch]
  PROVE  Contents'[p] = Contents[p]
<1>1. CASE \E i \in SpecialIndex : p = register(i)
  <2> PICK i \in SpecialIndex : p = register(i)
    BY <1>1
  <2>1. Contents[p] = read_special(i) /\ Contents'[p] = read_special(i)'
    BY CellContents, CellContentsNext DEF ContentsByKind
  <2>2. central'[i] = central[i]
    OBVIOUS
  <2>3. QED
    BY <2>1, <2>2 DEF read_special
<1>2. CASE \E c \in ErasableCells : p = erasableAt(c[1], c[2]) /\ ~IsSpecial(p)
  <2> PICK c \in ErasableCells : p = erasableAt(c[1], c[2]) /\ ~IsSpecial(p)
    BY <1>2
  <2>1. Contents[p] = erasable[c] /\ Contents'[p] = erasable'[c]
    BY CellContents, CellContentsNext DEF ContentsByKind
  <2>2. QED
    BY <2>1
<1>3. CASE \E c \in RopeCells : p = fixedAt(c[1], c[2])
  BY <1>3, CellContents, CellContentsNext DEF ContentsByKind
<1>4. CASE \E ch \in Channels \ {L, Q} : p = channelAt(ch)
  BY <1>4, CellContents, CellContentsNext DEF ContentsByKind
<1>5. QED
  BY CellKinds, <1>1, <1>2, <1>3, <1>4

(* A call that leaves the storage alone moves no cell.                     *)
LEMMA StorageKept ==
  ASSUME UNCHANGED <<central, erasable, fixed, channels>>
  PROVE  Store!Only({})
<1>1. \A p \in StoreCells : Contents'[p] = Contents[p]
  BY CellKept
<1>2. QED
  BY <1>1 DEF Store!Only

(* The answer of a call, as its caller sees it.                            *)
LEMMA AcceptedAnswer ==
  ASSUME NEW call, NEW p, NEW w, NEW v, result' = Answered(call, p, w, v)
  PROVE  /\ Answer'.call = call /\ Answer'.ok /\ Answer'.cell = Named(p)
         /\ Answer'.asked = w /\ Answer'.value = v
<1>1. result' = [call |-> call, ok |-> TRUE, cell |-> p, asked |-> w, value |-> v]
  BY DEF Answered
<1>2. Answer' = [result' EXCEPT !.cell = Named(result'.cell)]
  BY DEF Answer, Named, IsSpecial, register
<1>3. result'.cell = p
  BY <1>1
<1>4. Answer' = [result' EXCEPT !.cell = Named(p)]
  BY <1>2, <1>3
<1>5. QED
  BY <1>1, <1>4

(* A call that is refused leaves the store alone.                          *)
LEMMA RefusalStep ==
  ASSUME UNCHANGED <<central, erasable, fixed, channels>>,
         NEW call, result' = Failed(call)
  PROVE  Store!Next
<1>1. ~Answer'.ok
  BY DEF Answer, Failed
<1>2. Store!Refuse
  BY <1>1, StorageKept DEF Store!Refuse, Answer
<1>3. QED
  BY <1>2 DEF Store!Next

(* A call that looks at a cell.                                            *)
LEMMA LookStep ==
  ASSUME UNCHANGED <<central, erasable, fixed, channels>>,
         NEW call \in {"read", "in"}, NEW p, Named(p) \in StoreCells,
         result' = Returned(call, p, Contents[Named(p)])
  PROVE  Store!Next
<1>1. /\ Answer'.call = call /\ Answer'.ok /\ Answer'.cell = Named(p)
      /\ Answer'.value = Contents[Named(p)]
  BY AcceptedAnswer DEF Returned
<1>2. Store!Look
  BY <1>1, StorageKept DEF Store!Look, Store!Accepted, Store!named, Answer
<1>3. QED
  BY <1>2 DEF Store!Next

(* A call that stores in one cell, not a selector and not rope.            *)
LEMMA WriteStep ==
  ASSUME NEW call \in {"write", "poke", "set", "out"}, NEW p, NEW w, NEW v,
         result' = Answered(call, p, w, v),
         NEW q \in StoreCells, q = Named(p),
         q \notin {register(EB), register(FB), register(BB)}, q \notin RopeNames,
         \A d \in StoreCells : d # q => Contents'[d] = Contents[d],
         q \in PlainCells => Contents'[q] = w,
         call = "write" => v = Contents'[q]
  PROVE  Store!Next
<1>1. /\ Answer'.call = call /\ Answer'.ok /\ Answer'.cell = q
      /\ Answer'.asked = w /\ Answer'.value = v
  BY AcceptedAnswer
<1>2. Store!Only({q})
  BY DEF Store!Only
<1>3. Store!Write
  BY <1>1, <1>2
  DEF Store!Write, Store!Accepted, Store!named, Store!asked, Store!Selectors, Answer
<1>4. QED
  BY <1>3 DEF Store!Next

(* A general cell, a register that is not a selector and a channel are     *)
(* neither selectors nor rope.                                             *)
LEMMA OrdinaryCells ==
  /\ \A i \in SpecialIndex \ BankRegisters :
       /\ register(i) \notin {register(EB), register(FB), register(BB)}
       /\ register(i) \notin RopeNames
  /\ \A b, o : /\ erasableAt(b, o) \notin {register(EB), register(FB), register(BB)}
               /\ erasableAt(b, o) \notin RopeNames
  /\ \A ch : /\ channelAt(ch) \notin {register(EB), register(FB), register(BB)}
             /\ channelAt(ch) \notin RopeNames
  BY DEF register, erasableAt, channelAt, RopeNames, fixedAt, BankRegisters

(* A call that changes one register, not a selector.                       *)
LEMMA RegisterStep ==
  ASSUME UNCHANGED <<erasable, fixed, channels>>,
         NEW call \in {"write", "poke", "set", "out"}, NEW p, NEW w, NEW v,
         result' = Answered(call, p, w, v),
         NEW i \in SpecialIndex \ BankRegisters, Named(p) = register(i),
         \A j \in SpecialIndex : j # i => central'[j] = central[j],
         i >= \o24 => read_special(i)' = w,
         call = "write" => v = read_special(i)'
  PROVE  Store!Next
<1>1. /\ register(i) \notin {register(EB), register(FB), register(BB)}
      /\ register(i) \notin RopeNames /\ register(i) \in StoreCells
  BY OrdinaryCells DEF StoreCells
<1>2. ASSUME NEW d \in StoreCells, d # register(i)
      PROVE  Contents'[d] = Contents[d]
  BY <1>2, CellKept
<1>3. Contents'[register(i)] = read_special(i)'
  BY CellContentsNext DEF ContentsByKind
<1>4. register(i) \in PlainCells => i >= \o24
  <2>1. ASSUME NEW j \in \o24 .. \o60, register(i) = register(j) PROVE i >= \o24
    BY <2>1 DEF register
  <2>2. \A d \in GeneralCells \cup ChannelNames : d.region # "register"
    BY DEF GeneralCells, ChannelNames, erasableAt, channelAt
  <2>3. register(i).region = "register"
    BY DEF register
  <2>4. QED
    BY <2>1, <2>2, <2>3 DEF PlainCells
<1>5. QED
  BY <1>1, <1>2, <1>3, <1>4, WriteStep

(* A selector holds the number of the bank it selects, in its field.       *)
LEMMA SelectedBanks ==
  ASSUME NEW v \in Nat, v <= \o177777
  PROVE  /\ v = EbField(v) => v \div \o400 \in 0 .. 7 /\ v = (v \div \o400) * \o400
         /\ v = FbField(v) => v \div \o2000 \in 0 .. 31 /\ v = (v \div \o2000) * \o2000
<1>1. ASSUME v = EbField(v)
      PROVE  v \div \o400 \in 0 .. 7 /\ v = (v \div \o400) * \o400
  <2> DEFINE k == (v \div \o400) % \o10
  <2>1. k \in 0 .. 7
    OBVIOUS
  <2>2. v = k * \o400
    BY <1>1 DEF EbField
  <2> HIDE DEF k
  <2>3. v \div \o400 = k
    BY <2>1, <2>2
  <2>4. QED
    BY <2>1, <2>2, <2>3
<1>2. ASSUME v = FbField(v)
      PROVE  v \div \o2000 \in 0 .. 31 /\ v = (v \div \o2000) * \o2000
  <2> DEFINE k == (v \div \o2000) % \o40
  <2>1. k \in 0 .. 31
    OBVIOUS
  <2>2. v = k * \o2000
    BY <1>2 DEF FbField
  <2> HIDE DEF k
  <2>3. v \div \o2000 = k
    BY <2>1, <2>2
  <2>4. QED
    BY <2>1, <2>2, <2>3
<1>3. v = EbField(v) => v \div \o400 \in 0 .. 7 /\ v = (v \div \o400) * \o400
  BY <1>1
<1>4. v = FbField(v) => v \div \o2000 \in 0 .. 31 /\ v = (v \div \o2000) * \o2000
  BY <1>2
<1>5. QED
  BY <1>3, <1>4

(* The numbers of two banks, as the selectors hold them.                   *)
LEMMA BankNumbers ==
  ASSUME NEW e \in 0 .. 7, NEW f \in 0 .. 31
  PROVE  /\ (e * \o400) % \o100000 = e * \o400 /\ (e * \o400) \div \o400 = e
         /\ (f * \o2000) % \o100000 = f * \o2000 /\ (f * \o2000) \div \o2000 = f
         /\ (f * \o2000 + e) % \o100000 = f * \o2000 + e
         /\ ((e * \o400) \div \o400) % \o10 = e
  OBVIOUS

(* A selector takes the bank number in its own field of the word written,  *)
(* and the other two follow.                                               *)
LEMMA SelectorsFollow ==
  ASSUME NEW i \in BankRegisters, NEW raw \in Register16, NEW c, CentralOK(c),
         NEW e, e = IF i = EB THEN (raw \div \o400) % \o10
                    ELSE IF i = BB THEN raw % \o10 ELSE c[EB] \div \o400,
         NEW f, f = IF i \in {FB, BB} THEN (raw \div \o2000) % \o40
                    ELSE c[FB] \div \o2000,
         NEW d, d = write_central_raw(c, i, raw)
  PROVE  /\ e \in 0 .. 7 /\ f \in 0 .. 31
         /\ d[EB] = e * \o400 /\ d[FB] = f * \o2000 /\ d[BB] = f * \o2000 + e
<1> USE DEF EB, FB, BB, BankRegisters
<1>0. /\ raw \in Nat /\ raw <= \o177777
      /\ c[EB] \in Nat /\ c[EB] <= \o177777 /\ c[EB] = EbField(c[EB])
      /\ c[FB] \in Nat /\ c[FB] <= \o177777 /\ c[FB] = FbField(c[FB])
      /\ c \in [SpecialIndex -> Register16]
  BY Widths DEF CentralOK, SpecialIndex
<1>1. /\ c[EB] \div \o400 \in 0 .. 7 /\ c[EB] = (c[EB] \div \o400) * \o400
      /\ c[FB] \div \o2000 \in 0 .. 31 /\ c[FB] = (c[FB] \div \o2000) * \o2000
  BY <1>0, SelectedBanks
<1>2. /\ (raw \div \o400) % \o10 \in 0 .. 7 /\ raw % \o10 \in 0 .. 7
      /\ (raw \div \o2000) % \o40 \in 0 .. 31
  BY <1>0
<1>3. e \in 0 .. 7 /\ f \in 0 .. 31
  BY <1>1, <1>2
<1>4. CASE i = EB
  <2> DEFINE x == EbField(raw)
             y == c[FB] + ((EbField(raw) \div \o400) % \o10)
  <2>1. d = [[c EXCEPT ![EB] = x] EXCEPT ![BB] = y]
    BY <1>4 DEF write_central_raw, synchronize_banks, Masked, ZERO, Z, CentralOK, SpecialIndex
  <2>2. x = e * \o400 /\ c[FB] = f * \o2000
    BY <1>1, <1>4 DEF EbField
  <2>3. ((x \div \o400) % \o10) = e
    BY ONLY <1>3, <2>2, BankNumbers
  <2>4. y = f * \o2000 + e
    BY ONLY <2>2, <2>3
  <2> HIDE DEF x, y
  <2>5. d[EB] = x /\ d[FB] = c[FB] /\ d[BB] = y
    BY ONLY <1>0, <2>1 DEF SpecialIndex, EB, FB, BB
  <2>6. QED
    BY ONLY <1>3, <2>2, <2>4, <2>5
<1>5. CASE i = FB
  <2> DEFINE x == FbField(raw)
             y == FbField(raw) + ((c[EB] \div \o400) % \o10)
  <2>1. d = [[c EXCEPT ![FB] = x] EXCEPT ![BB] = y]
    BY <1>5 DEF write_central_raw, synchronize_banks, Masked, ZERO, Z, CentralOK, SpecialIndex
  <2>2. x = f * \o2000 /\ c[EB] = e * \o400
    BY <1>1, <1>5 DEF FbField
  <2>3. ((c[EB] \div \o400) % \o10) = e
    BY ONLY <1>3, <2>2, BankNumbers
  <2>4. y = f * \o2000 + e
    BY ONLY <2>2, <2>3
  <2> HIDE DEF x, y
  <2>5. d[FB] = x /\ d[EB] = c[EB] /\ d[BB] = y
    BY ONLY <1>0, <2>1 DEF SpecialIndex, EB, FB, BB
  <2>6. QED
    BY ONLY <1>3, <2>2, <2>4, <2>5
<1>6. CASE i = BB
  <2> DEFINE x == BbField(raw)
             y == (BbField(raw) % \o10) * \o400
             z == FbField(BbField(raw))
  <2>1. d = [[[c EXCEPT ![BB] = x] EXCEPT ![EB] = y] EXCEPT ![FB] = z]
    BY <1>6 DEF write_central_raw, synchronize_banks, Masked, ZERO, Z, CentralOK, SpecialIndex
  <2>2. /\ BbField(raw) % \o10 = raw % \o10 /\ FbField(BbField(raw)) = FbField(raw)
    BY <1>0, BankFields
  <2>3. FbField(raw) = f * \o2000 /\ BbField(raw) = f * \o2000 + e /\ raw % \o10 = e
    BY <1>6 DEF FbField, BbField
  <2>4. x = f * \o2000 + e /\ y = e * \o400 /\ z = f * \o2000
    BY ONLY <2>2, <2>3
  <2> HIDE DEF x, y, z
  <2>5. d[EB] = y /\ d[FB] = z /\ d[BB] = x
    BY ONLY <1>0, <2>1 DEF SpecialIndex, EB, FB, BB
  <2>6. QED
    BY ONLY <1>3, <2>4, <2>5
<1>7. QED
  BY <1>4, <1>5, <1>6

(* What the store shows of the selectors.                                  *)
LEMMA SelectorContents ==
  /\ \A i \in BankRegisters : Contents[register(i)] = central[i] % \o100000
  /\ \A i \in BankRegisters : Contents'[register(i)] = central'[i] % \o100000
  /\ \A i \in BankRegisters : register(i) \in StoreCells
<1>1. ASSUME NEW i \in BankRegisters
      PROVE  i \in SpecialIndex /\ i \notin {A, L, Q, Z, ZERO}
  BY DEF BankRegisters, SpecialIndex, EB, FB, BB, A, L, Q, Z, ZERO
<1>2. QED
  BY <1>1, CellContents, CellContentsNext DEF ContentsByKind, read_special, StoreCells

(* A call that writes a selector.                                          *)
LEMMA SelectorStep ==
  ASSUME UNCHANGED <<erasable, fixed, channels>>, CentralOK(central),
         NEW call \in {"write", "poke", "set"}, NEW p, NEW raw \in Register16, NEW v,
         result' = Answered(call, p, raw, v),
         NEW i \in BankRegisters, Named(p) = register(i),
         central' = write_central_raw(central, i, raw),
         call = "write" => v = read_special(i)'
  PROVE  Store!Next
<1> DEFINE e == IF i = EB THEN (raw \div \o400) % \o10
                ELSE IF i = BB THEN raw % \o10 ELSE central[EB] \div \o400
           f == IF i \in {FB, BB} THEN (raw \div \o2000) % \o40
                ELSE central[FB] \div \o2000
<1>1. /\ e \in 0 .. 7 /\ f \in 0 .. 31
      /\ central'[EB] = e * \o400 /\ central'[FB] = f * \o2000
      /\ central'[BB] = f * \o2000 + e
  BY SelectorsFollow
<1>2. /\ central[EB] \div \o400 \in 0 .. 7
      /\ central[EB] = (central[EB] \div \o400) * \o400
      /\ central[FB] \div \o2000 \in 0 .. 31
      /\ central[FB] = (central[FB] \div \o2000) * \o2000
  <2>1. /\ central[EB] \in Nat /\ central[EB] <= \o177777
        /\ central[FB] \in Nat /\ central[FB] <= \o177777
        /\ central[EB] = EbField(central[EB]) /\ central[FB] = FbField(central[FB])
    BY Widths DEF CentralOK, SpecialIndex, EB, FB
  <2>2. QED
    BY <2>1, SelectedBanks
<1>3. EB \in BankRegisters /\ FB \in BankRegisters /\ BB \in BankRegisters
  BY DEF BankRegisters
<1>4. /\ Contents[register(EB)] \div \o400 = central[EB] \div \o400
      /\ Contents[register(FB)] \div \o2000 = central[FB] \div \o2000
  <2>1. /\ central[EB] % \o100000 = central[EB]
        /\ central[FB] % \o100000 = central[FB]
    BY <1>2, BankNumbers
  <2>2. QED
    BY <1>3, <2>1, SelectorContents
<1>5. /\ Answer'.call = call /\ Answer'.ok /\ Answer'.cell = register(i)
      /\ Answer'.asked = raw /\ Answer'.value = v
  BY AcceptedAnswer
<1>6. /\ register(i) = register(EB) <=> i = EB
      /\ register(i) = register(FB) <=> i = FB
      /\ register(i) = register(BB) <=> i = BB
  BY DEF register
<1>7. Store!EbSelected = e
  BY <1>4, <1>5, <1>6 DEF Store!EbSelected, Store!named, Store!asked, Answer
<1>8. Store!FbSelected = f
  BY <1>4, <1>5, <1>6 DEF Store!FbSelected, Store!named, Store!asked, Answer
<1> HIDE DEF e, f
<1>9. /\ Contents'[register(EB)] = e * \o400
      /\ Contents'[register(FB)] = f * \o2000
      /\ Contents'[register(BB)] = f * \o2000 + e
  <2>1. /\ central'[EB] % \o100000 = e * \o400 /\ central'[FB] % \o100000 = f * \o2000
        /\ central'[BB] % \o100000 = f * \o2000 + e
    BY <1>1, BankNumbers
  <2>2. QED
    BY <1>3, <2>1, SelectorContents
<1>10. Store!Only({register(EB), register(FB), register(BB)})
  <2>1. ASSUME NEW d \in StoreCells, d \notin {register(EB), register(FB), register(BB)}
        PROVE  Contents'[d] = Contents[d]
    <3>1. ASSUME NEW j \in SpecialIndex, d = register(j) PROVE central'[j] = central[j]
      <4>1. j \notin {EB, FB, BB}
        BY <2>1, <3>1
      <4>2. central \in [SpecialIndex -> Register16]
        BY DEF CentralOK
      <4>3. QED
        BY <4>1, <4>2
        DEF write_central_raw, synchronize_banks, BankRegisters, EB, FB, BB, ZERO
    <3>2. QED
      BY <3>1, CellKept
  <2>2. QED
    BY <2>1 DEF Store!Only
<1>11. call = "write" => v = Contents'[register(i)]
  <2>1. i \in SpecialIndex
    BY DEF BankRegisters, SpecialIndex, EB, FB, BB
  <2>2. QED
    BY <2>1, CellContentsNext DEF ContentsByKind
<1>12. register(i) \in {register(EB), register(FB), register(BB)}
  BY DEF BankRegisters
<1>13. Store!Select
  BY <1>5, <1>7, <1>8, <1>9, <1>10, <1>11, <1>12
  DEF Store!Select, Store!Accepted, Store!named, Store!Selectors, Answer
<1>14. QED
  BY <1>13 DEF Store!Next

(* Writing a register at full width.                                       *)
LEMMA CentralStep ==
  ASSUME UNCHANGED <<erasable, fixed, channels>>, CentralOK(central),
         NEW call \in {"write", "poke", "set", "out"}, NEW p, NEW w, NEW v,
         result' = Answered(call, p, w, v),
         NEW i \in 0 .. \o17, NEW raw \in Register16, Named(p) = register(i),
         i \in BankRegisters => w = raw /\ call # "out",
         central' = write_central_raw(central, i, raw),
         call = "write" => v = read_special(i)'
  PROVE  Store!Next
<1>0. central \in [SpecialIndex -> Register16] /\ i \in SpecialIndex
  BY DEF CentralOK, SpecialIndex
<1>1. CASE i \in BankRegisters
  BY <1>1, SelectorStep
<1>2. CASE i \notin BankRegisters
  <2>1. \A j \in SpecialIndex : j # i => central'[j] = central[j]
    BY <1>0, <1>2 DEF write_central_raw
  <2>2. ~(i >= \o24)
    OBVIOUS
  <2>3. QED
    BY <1>0, <1>2, <2>1, <2>2, RegisterStep
<1>3. QED
  BY <1>1, <1>2

(* A program's write, which edits or sign-extends first.                   *)
LEMMA SpecialStep ==
  ASSUME UNCHANGED <<erasable, fixed, channels>>, CentralOK(central),
         NEW call \in {"write", "poke", "out"}, NEW p, NEW v,
         NEW i \in SpecialIndex, NEW w \in Nat, w <= \o77777,
         result' = Answered(call, p, w, v), Named(p) = register(i),
         i \in BankRegisters => call # "out",
         central' = write_special(central, i, w),
         call = "write" => v = read_special(i)'
  PROVE  Store!Next
<1>0. central \in [SpecialIndex -> Register16]
  BY DEF CentralOK
<1>1. CASE i >= \o20
  <2>1. central' = [central EXCEPT ![i] = Edited(i, w)]
    BY <1>1 DEF write_special
  <2>2. /\ \A j \in SpecialIndex : j # i => central'[j] = central[j]
        /\ central'[i] = Edited(i, w)
    BY <1>0, <2>1
  <2>3. i \notin BankRegisters
    BY <1>1 DEF BankRegisters, EB, FB, BB
  <2>4. ASSUME i >= \o24 PROVE read_special(i)' = w
    <3>1. central'[i] = w
      BY <2>2, <2>4 DEF Edited
    <3>2. i \notin {A, L, Q, Z, ZERO}
      BY <2>4 DEF A, L, Q, Z, ZERO
    <3>3. w % \o100000 = w
      OBVIOUS
    <3>4. QED
      BY <3>1, <3>2, <3>3 DEF read_special
  <2>5. QED
    BY <2>2, <2>3, <2>4, RegisterStep
<1>2. CASE ~(i >= \o20)
  <2> DEFINE raw == IF i \in {A, L, Q} THEN SignExtend(w) ELSE w
  <2>1. i \in 0 .. \o17
    BY <1>2 DEF SpecialIndex
  <2>2. SignExtend(w) \in Nat /\ SignExtend(w) <= \o177777
    BY EditedWords
  <2>3. raw \in Register16
    BY <2>2 DEF Register16
  <2>4. central' = write_central_raw(central, i, raw)
    BY <1>2 DEF write_special
  <2>5. i \in BankRegisters => w = raw
    BY DEF BankRegisters, EB, FB, BB, A, L, Q
  <2> HIDE DEF raw
  <2>6. QED
    BY <2>1, <2>3, <2>4, <2>5, CentralStep
<1>3. QED
  BY <1>1, <1>2

(* Storing in a register or in a general cell.                             *)
LEMMA StoreStep ==
  ASSUME UNCHANGED <<fixed, channels>>, MemoryInv,
         NEW b, NEW o, NEW p, NEW w \in Nat, w <= \o77777,
         NEW call \in {"write", "poke"}, NEW v,
         result' = Answered(call, p, w, v),
         p = register(o) \/ p = erasableAt(b, o),
         ~IsSpecial(p) => p \in GeneralCells,
         IsSpecial(p) => o \in SpecialIndex,
         StoreAt(p, w), call = "write" => v = read_physical(p)'
  PROVE  Store!Next
<1>0. CentralOK(central) /\ erasable \in [ErasableCells -> Word] /\ p.offset = o
  BY InvariantParts DEF register, erasableAt
<1>1. CASE IsSpecial(p)
  <2>1. central' = write_special(central, o, w) /\ UNCHANGED erasable
    BY <1>0, <1>1 DEF StoreAt
  <2>2. Named(p) = register(o)
    BY <1>0, <1>1 DEF Named
  <2>3. read_physical(p)' = read_special(o)'
    BY <1>0, <1>1 DEF read_physical
  <2>4. QED
    BY <1>0, <1>1, <2>1, <2>2, <2>3, SpecialStep
<1>2. CASE ~IsSpecial(p)
  <2>1. p = erasableAt(b, o) /\ p \in GeneralCells
    BY <1>2 DEF IsSpecial, register
  <2>2. erasable' = [erasable EXCEPT ![<<b, o>>] = w] /\ UNCHANGED central
    BY <1>2, <2>1 DEF StoreAt, erasableAt
  <2>3. ASSUME NEW q \in StoreCells, q # p
        PROVE  Contents'[q] = Contents[q]
    <3>1. ASSUME NEW c \in ErasableCells, q = erasableAt(c[1], c[2])
          PROVE  erasable'[c] = erasable[c]
      <4>1. c = <<c[1], c[2]>>
        BY Pairs DEF ErasableCells
      <4>2. c # <<b, o>>
        BY <2>1, <2>3, <3>1
      <4>3. QED
        BY <1>0, <2>2, <4>2
    <3>2. QED
      BY <2>2, <3>1, CellKept
  <2>4. /\ p \notin {register(EB), register(FB), register(BB)}
        /\ p \notin RopeNames /\ p \in StoreCells
    BY <1>2, <2>1, OrdinaryCells DEF StoreCells
  <2>5. Named(p) = p
    BY <1>2, <2>1 DEF Named, erasableAt
  <2>6. Contents'[p] = w
    <3>1. PICK c \in ErasableCells : p = erasableAt(c[1], c[2])
      BY <2>1 DEF GeneralCells
    <3>2. c = <<c[1], c[2]>> /\ c[1] = b /\ c[2] = o
      BY <2>1, <3>1, Pairs DEF ErasableCells, erasableAt
    <3>3. Contents'[p] = erasable'[c]
      BY <1>2, <3>1, CellContentsNext DEF ContentsByKind
    <3>4. QED
      BY <1>0, <2>2, <3>2, <3>3
  <2>7. read_physical(p)' = Contents'[p]
    BY <1>2, <2>1, <2>4 DEF Contents, erasableAt
  <2>8. QED
    BY <2>3, <2>4, <2>5, <2>6, <2>7, WriteStep
<1>3. QED
  BY <1>1, <1>2

(* What a reset and a fresh memory hold.                                   *)
ClearedState ==
  /\ central = [i \in SpecialIndex |-> 0]
  /\ erasable = [c \in ErasableCells |-> 0]
  /\ channels = InputChannels
ShowsCleared == \A p \in StoreCells \ RopeNames : Contents[p] = ClearedCells[p]

LEMMA ClearedStore == ClearedState => ShowsCleared
<1> SUFFICES ASSUME ClearedState, NEW p \in StoreCells, p \notin RopeNames
             PROVE  Contents[p] = ClearedCells[p]
  BY DEF ShowsCleared
<1>1. CASE \E i \in SpecialIndex : p = register(i)
  <2> PICK i \in SpecialIndex : p = register(i)
    BY <1>1
  <2>1. Contents[p] = read_special(i)
    BY CellContents DEF ContentsByKind
  <2>2. central[i] = 0
    BY DEF ClearedState
  <2>3. OverflowCorrect(0) = 0 /\ 0 % \o10000 = 0 /\ 0 % \o100000 = 0
    BY DEF OverflowCorrect
  <2>4. read_special(i) = 0
    BY <2>2, <2>3 DEF read_special
  <2>5. ClearedCells[p] = 0
    BY DEF ClearedCells, register
  <2>6. QED
    BY <2>1, <2>4, <2>5
<1>2. CASE \E c \in ErasableCells : p = erasableAt(c[1], c[2]) /\ ~IsSpecial(p)
  <2> PICK c \in ErasableCells : p = erasableAt(c[1], c[2]) /\ ~IsSpecial(p)
    BY <1>2
  <2>1. Contents[p] = erasable[c]
    BY CellContents DEF ContentsByKind
  <2>2. ClearedCells[p] = 0
    BY DEF ClearedCells, erasableAt
  <2>3. QED
    BY <2>1, <2>2 DEF ClearedState
<1>3. CASE \E c \in RopeCells : p = fixedAt(c[1], c[2])
  BY <1>3 DEF RopeNames
<1>4. CASE \E ch \in Channels \ {L, Q} : p = channelAt(ch)
  <2> PICK ch \in Channels \ {L, Q} : p = channelAt(ch)
    BY <1>4
  <2>1. Contents[p] = channels[ch]
    BY CellContents DEF ContentsByKind
  <2>2. ClearedCells[p] = InputChannels[ch]
    BY DEF ClearedCells, channelAt
  <2>3. QED
    BY <2>1, <2>2 DEF ClearedState
<1>5. QED
  BY CellKinds, <1>1, <1>2, <1>3, <1>4

LEMMA ClearedStoreNext == ClearedState' => ShowsCleared'
  BY ClearedStore, PTL

(* What a loaded rope shows.                                               *)
Loaded == \E image \in RopeImages : \A p \in RopeNames : Contents[p] = image[p]

HoldsRope == fixed \in Ropes

LEMMA RopeShown == HoldsRope => Loaded
<1> SUFFICES ASSUME fixed \in Ropes PROVE Loaded
  BY DEF HoldsRope
<1> DEFINE image == [p \in RopeNames |-> fixed[<<p.bank, p.offset>>]]
<1>1. image \in RopeImages
  BY DEF RopeImages
<1>2. ASSUME NEW p \in RopeNames PROVE Contents[p] = image[p]
  <2> PICK c \in RopeCells : p = fixedAt(c[1], c[2])
    BY DEF RopeNames
  <2>1. c = <<c[1], c[2]>>
    BY Pairs DEF RopeCells
  <2>2. image[p] = fixed[c]
    BY <2>1 DEF fixedAt
  <2>3. QED
    BY <2>2, CellContents DEF ContentsByKind
<1> HIDE DEF image
<1>3. QED
  BY <1>1, <1>2 DEF Loaded

LEMMA RopeShownNext == HoldsRope' => Loaded'
  BY RopeShown, PTL

(* The initial store: words everywhere, and every cell but the rope        *)
(* cleared.                                                                *)
LEMMA StoreInit == InputAssumption /\ Init => Store!Init
<1> SUFFICES ASSUME InputAssumption, Init PROVE Store!Init
  OBVIOUS
<1>0. MemoryInv
  BY InitKeeps
<1>1. ASSUME NEW p \in StoreCells PROVE Contents[p] \in Nat
  <2>1. CASE \E i \in SpecialIndex : p = register(i)
    <3> PICK i \in SpecialIndex : p = register(i)
      BY <2>1
    <3>1. Contents[p] = read_special(i)
      BY CellContents DEF ContentsByKind
    <3>2. central \in [SpecialIndex -> Register16]
      BY <1>0, InvariantParts DEF CentralOK
    <3>3. QED
      BY <3>1, <3>2, SpecialReadIsWord
  <2>2. CASE \E c \in ErasableCells : p = erasableAt(c[1], c[2]) /\ ~IsSpecial(p)
    BY <2>2, <1>0, CellContents, InvariantParts, Widths DEF ContentsByKind
  <2>3. CASE \E c \in RopeCells : p = fixedAt(c[1], c[2])
    BY <2>3, <1>0, CellContents, InvariantParts, Widths DEF ContentsByKind
  <2>4. CASE \E ch \in Channels \ {L, Q} : p = channelAt(ch)
    BY <2>4, <1>0, CellContents, InvariantParts, Widths DEF ContentsByKind
  <2>5. QED
    BY CellKinds, <2>1, <2>2, <2>3, <2>4
<1>2. Contents \in [StoreCells -> Nat]
  BY <1>1 DEF Contents
<1>3. ShowsCleared /\ Loaded
  BY ClearedStore, RopeShown DEF Init, ClearedState, HoldsRope
<1>4. QED
  BY <1>2, <1>3 DEF Store!Init, ShowsCleared, Loaded

-----------------------------------------------------------------------------
(***************************************************************************)
(* The cell that a call names.                                             *)
(***************************************************************************)
(* A name that is resolved is the name of one cell of the store, and that  *)
(* cell's word is the one the memory reads.                                *)
Resolved(p) ==
  \/ \E i \in SpecialIndex : p = register(i)
  \/ \E c \in ErasableCells :
       p = erasableAt(c[1], c[2]) /\ (IsSpecial(p) => p.offset \in SpecialIndex)
  \/ \E c \in RopeCells : p = fixedAt(c[1], c[2])

LEMMA NamedCell ==
  ASSUME NEW p, Resolved(p)
  PROVE  /\ Named(p) \in StoreCells /\ Contents[Named(p)] = read_physical(p)
         /\ ~IsSpecial(p) => Named(p) = p
         /\ IsSpecial(p) => Named(p) = register(p.offset) /\ p.offset \in SpecialIndex
<1>1. CASE \E i \in SpecialIndex : p = register(i)
  <2> PICK i \in SpecialIndex : p = register(i)
    BY <1>1
  <2>1. IsSpecial(p) /\ p.offset = i
    BY DEF IsSpecial, register
  <2>2. Named(p) = register(i) /\ read_physical(p) = read_special(i)
    BY <2>1 DEF Named, read_physical
  <2>3. QED
    BY <2>1, <2>2, CellContents DEF ContentsByKind, StoreCells
<1>2. CASE \E c \in ErasableCells :
             p = erasableAt(c[1], c[2]) /\ (IsSpecial(p) => p.offset \in SpecialIndex)
  <2> PICK c \in ErasableCells :
             p = erasableAt(c[1], c[2]) /\ (IsSpecial(p) => p.offset \in SpecialIndex)
    BY <1>2
  <2>1. CASE IsSpecial(p)
    <3>1. Named(p) = register(p.offset) /\ read_physical(p) = read_special(p.offset)
      BY <2>1 DEF Named, read_physical
    <3>2. QED
      BY <2>1, <3>1, CellContents DEF ContentsByKind, StoreCells
  <2>2. CASE ~IsSpecial(p)
    <3>1. Named(p) = p
      BY <2>2 DEF Named, erasableAt
    <3>2. c = <<c[1], c[2]>>
      BY Pairs DEF ErasableCells
    <3>3. read_physical(p) = erasable[c]
      BY <2>2, <3>2 DEF read_physical, erasableAt
    <3>4. p \in StoreCells
      BY <2>2 DEF StoreCells, GeneralCells
    <3>5. QED
      BY <2>2, <3>1, <3>3, <3>4, CellContents DEF ContentsByKind
  <2>3. QED
    BY <2>1, <2>2
<1>3. CASE \E c \in RopeCells : p = fixedAt(c[1], c[2])
  <2> PICK c \in RopeCells : p = fixedAt(c[1], c[2])
    BY <1>3
  <2>1. ~IsSpecial(p) /\ Named(p) = p
    BY DEF IsSpecial, Named, fixedAt
  <2>2. c = <<c[1], c[2]>>
    BY Pairs DEF RopeCells
  <2>3. read_physical(p) = fixed[c]
    BY <2>1, <2>2 DEF read_physical, fixedAt
  <2>4. p \in StoreCells
    BY DEF StoreCells, RopeNames
  <2>5. QED
    BY <2>1, <2>3, <2>4, CellContents DEF ContentsByKind
<1>4. QED
  BY <1>1, <1>2, <1>3 DEF Resolved

(* An address inside the address space is resolved, and what may be        *)
(* written is a register or an erasable cell.                              *)
LEMMA Translation ==
  ASSUME InputAssumption, MemoryInv, NEW a \in Addresses, a <= \o7777,
         Installed(translate(a))
  PROVE  /\ Resolved(translate(a))
         /\ translate(a).region # "fixed" =>
              \E b, o : /\ translate(a) = register(o) \/ translate(a) = erasableAt(b, o)
                        /\ translate(a).offset = o
<1>0. a \in Nat /\ central[EB] \in Nat
  <2>1. central[EB] \in Register16
    BY InvariantParts DEF CentralOK, SpecialIndex, EB
  <2>2. QED
    BY <2>1, CallersWords, Widths
<1>1. CASE a \in SpecialIndex
  BY <1>1 DEF translate, Resolved, register
<1>2. CASE a \notin SpecialIndex /\ a < \o2000
  <2> DEFINE b == IF a < \o1400 THEN a \div \o400 ELSE ebank
             o == a % \o400
  <2>1. translate(a) = erasableAt(b, o)
    BY <1>2 DEF translate
  <2>2. b \in ErasableBanks
    <3>1. a < \o1400 => a \div \o400 \in 0 .. 7
      BY <1>0
    <3>2. ebank \in 0 .. 7
      BY <1>0 DEF ebank
    <3>3. QED
      BY <3>1, <3>2 DEF ErasableBanks
  <2>3. o \in Offsets
    <3>1. InErasable(a)
      BY <1>0, <1>2 DEF InErasable, SpecialIndex
    <3>2. QED
      BY <3>1 DEF InputAssumption
  <2>4. IsSpecial(translate(a)) => translate(a).offset \in SpecialIndex
    BY <1>0, TranslatedOffsets
  <2> HIDE DEF b, o
  <2>5. <<b, o>> \in ErasableCells
    BY <2>2, <2>3 DEF ErasableCells
  <2>6. Resolved(translate(a))
    <3> DEFINE c == <<b, o>>
    <3>1. c \in ErasableCells /\ translate(a) = erasableAt(c[1], c[2])
      BY <2>1, <2>5
    <3> HIDE DEF c
    <3>2. QED
      BY <2>4, <3>1 DEF Resolved
  <2>7. translate(a).offset = o
    BY <2>1 DEF erasableAt
  <2>8. QED
    BY <2>1, <2>6, <2>7
<1>3. CASE a \notin SpecialIndex /\ ~(a < \o2000)
  <2> DEFINE b == IF a < \o4000 THEN selected_fixed_bank
                  ELSE IF a < \o6000 THEN 2 ELSE 3
             o == a % \o2000
  <2>1. translate(a) = fixedAt(b, o)
    BY <1>0, <1>3 DEF translate
  <2>2. translate(a).region = "fixed" /\ translate(a).bank = b
    BY <2>1 DEF fixedAt
  <2>3. b \in FixedBanks
    BY <2>2 DEF Installed
  <2>4. o \in FixedOffsets
    <3>1. InRope(a)
      BY <1>0, <1>3 DEF InRope, SpecialIndex
    <3>2. QED
      BY <3>1 DEF InputAssumption
  <2> HIDE DEF b, o
  <2>5. <<b, o>> \in RopeCells
    BY <2>3, <2>4 DEF RopeCells
  <2>6. Resolved(translate(a))
    <3> DEFINE c == <<b, o>>
    <3>1. c \in RopeCells /\ translate(a) = fixedAt(c[1], c[2])
      BY <2>1, <2>5
    <3> HIDE DEF c
    <3>2. QED
      BY <3>1 DEF Resolved
  <2>7. QED
    BY <2>2, <2>6
<1>4. QED
  BY <1>1, <1>2, <1>3

-----------------------------------------------------------------------------
(* Every call of the memory is a step of the store.                        *)
LEMMA LogicalStep ==
  ASSUME InputAssumption, MemoryInv, Logical PROVE Store!Next
<1> PICK a \in Addresses : \/ read(a) \/ read_and_edit(a)
                           \/ \E w \in Words : write(a, w)
  BY DEF Logical
<1>0. /\ a \in Nat /\ CentralOK(central)
      /\ central \in [SpecialIndex -> Register16]
  BY CallersWords, InvariantParts DEF CentralOK
<1>1. CASE read(a)
  <2>1. UNCHANGED <<central, erasable, fixed, channels>>
    BY <1>1 DEF read, state
  <2>2. CASE Addressable(a)
    <3> DEFINE p == translate(a)
    <3>1. result' = Returned("read", p, read_physical(p))
      BY <1>1, <2>2 DEF read
    <3>2. Resolved(p)
      BY <2>2, Translation DEF Addressable
    <3> HIDE DEF p
    <3>3. Named(p) \in StoreCells /\ read_physical(p) = Contents[Named(p)]
      BY <3>2, NamedCell
    <3>4. QED
      BY <2>1, <3>1, <3>3, LookStep
  <2>3. CASE ~Addressable(a)
    <3>1. result' = Failed("read")
      BY <1>1, <2>3 DEF read
    <3>2. QED
      BY <2>1, <3>1, RefusalStep
  <2>4. QED
    BY <2>2, <2>3
<1>2. CASE read_and_edit(a)
  <2>1. UNCHANGED <<erasable, fixed, channels>>
    BY <1>2 DEF read_and_edit
  <2>2. CASE Addressable(a)
    <3> DEFINE p == translate(a)
    <3>1. result' = Returned("edit", p, read_physical(p))
      BY <1>2, <2>2 DEF read_and_edit
    <3>2. Resolved(p)
      BY <2>2, Translation DEF Addressable
    <3>3. central' = IF IsSpecial(p) /\ p.offset \in EditingIndex
                     THEN write_special(central, p.offset, read_physical(p))
                     ELSE central
      BY <1>2, <2>2 DEF read_and_edit
    <3> HIDE DEF p
    <3>4. /\ Named(p) \in StoreCells /\ read_physical(p) = Contents[Named(p)]
          /\ IsSpecial(p) => Named(p) = register(p.offset) /\ p.offset \in SpecialIndex
      BY <3>2, NamedCell
    <3>5. /\ Answer'.call = "edit" /\ Answer'.ok /\ Answer'.cell = Named(p)
          /\ Answer'.value = Contents[Named(p)]
      BY <3>1, <3>4, AcceptedAnswer DEF Returned
    <3>6. Store!Only({Named(p)} \cap {register(i) : i \in EditingIndex})
      <4>1. CASE IsSpecial(p) /\ p.offset \in EditingIndex
        <5> DEFINE i == p.offset
        <5>1. central' = [central EXCEPT ![i] = Edited(i, read_physical(p))]
          BY <3>3, <4>1 DEF write_special, EditingIndex
        <5>2. \A j \in SpecialIndex : j # i => central'[j] = central[j]
          BY <1>0, <3>4, <4>1, <5>1
        <5>3. ASSUME NEW d \in StoreCells, d # register(i)
              PROVE  Contents'[d] = Contents[d]
          BY <2>1, <5>2, <5>3, CellKept
        <5>4. register(i) \in {Named(p)} \cap {register(k) : k \in EditingIndex}
          BY <3>4, <4>1
        <5> HIDE DEF i
        <5>5. QED
          BY <5>3, <5>4 DEF Store!Only
      <4>2. CASE ~(IsSpecial(p) /\ p.offset \in EditingIndex)
        <5>1. central' = central
          BY <3>3, <4>2
        <5>2. Store!Only({})
          BY <2>1, <5>1, StorageKept
        <5>3. QED
          BY <5>2 DEF Store!Only
      <4>3. QED
        BY <4>1, <4>2
    <3>7. Store!Rewrite
      BY <3>4, <3>5, <3>6 DEF Store!Rewrite, Store!Accepted, Store!named, Store!Only
    <3>8. QED
      BY <3>7 DEF Store!Next
  <2>3. CASE ~Addressable(a)
    <3>1. result' = Failed("edit") /\ central' = central
      BY <1>2, <2>3 DEF read_and_edit
    <3>2. QED
      BY <2>1, <3>1, RefusalStep
  <2>4. QED
    BY <2>2, <2>3
<1>3. ASSUME NEW w \in Words, write(a, w) PROVE Store!Next
  <2>1. UNCHANGED <<fixed, channels>>
    BY <1>3 DEF write
  <2>2. CASE a > \o7777 \/ translate(a).region = "fixed"
    <3>1. UNCHANGED <<central, erasable>> /\ result' = Failed("write")
      BY <1>3, <2>2 DEF write
    <3>2. QED
      BY <2>1, <3>1, RefusalStep
  <2>3. CASE ~(a > \o7777 \/ translate(a).region = "fixed")
    <3> PICK p \in {translate(a)} :
               StoreAt(p, w) /\ result' = Answered("write", p, w, read_physical(p)')
      BY <1>3, <2>3 DEF write
    <3> PICK v : v = read_physical(p)'
      OBVIOUS
    <3>0. StoreAt(p, w) /\ result' = Answered("write", p, w, v)
      OBVIOUS
    <3>1. p = translate(a) /\ a <= \o7777
      BY <1>0, <2>3
    <3>2. Installed(translate(a))
      BY <2>3 DEF Installed
    <3>3. Resolved(p) /\ \E b, o : (p = register(o) \/ p = erasableAt(b, o)) /\ p.offset = o
      BY <2>3, <3>1, <3>2, Translation
    <3> PICK b, o : (p = register(o) \/ p = erasableAt(b, o)) /\ p.offset = o
      BY <3>3
    <3>4. IsSpecial(p) => o \in SpecialIndex
      BY <3>3, NamedCell
    <3>5. ~IsSpecial(p) => p \in GeneralCells
      <4>1. SUFFICES ASSUME ~IsSpecial(p) PROVE p \in GeneralCells
        OBVIOUS
      <4>2. p.region = "erasable"
        BY <4>1 DEF IsSpecial, register, erasableAt
      <4>3. QED
        BY <3>3, <4>2 DEF Resolved, GeneralCells, register, fixedAt
    <3>6. w \in Nat /\ w <= \o77777
      BY CallersWords
    <3>7. QED
      BY <2>1, <3>0, <3>4, <3>5, <3>6, StoreStep
  <2>4. QED
    BY <2>2, <2>3
<1>4. QED
  BY <1>1, <1>2, <1>3

LEMMA ProcessorStep ==
  ASSUME InputAssumption, MemoryInv, Processor PROVE Store!Next
<1>0. CentralOK(central)
  BY InvariantParts
<1>1. ASSUME NEW i \in Addresses, NEW r \in RawRegisters,
             set_central_register(i, r)
      PROVE  Store!Next
  <2>1. UNCHANGED <<erasable, fixed, channels>>
    BY <1>1 DEF set_central_register
  <2>2. CASE i < 16
    <3>1. /\ central' = write_central_raw(central, i, r)
          /\ result' = Answered("set", register(i), r, 0)
      BY <1>1, <2>2 DEF set_central_register
    <3>2. i \in 0 .. \o17 /\ r \in Register16
      BY <2>2, CallersWords
    <3>3. Named(register(i)) = register(i)
      BY DEF Named, IsSpecial, register
    <3>4. QED
      BY <1>0, <2>1, <3>1, <3>2, <3>3, CentralStep
  <2>3. CASE ~(i < 16)
    <3>1. UNCHANGED central /\ result' = Failed("set")
      BY <1>1, <2>3 DEF set_central_register
    <3>2. QED
      BY <2>1, <3>1, RefusalStep
  <2>4. QED
    BY <2>2, <2>3
<1>2. ASSUME NEW ch \in Channels, read_channel(ch) PROVE Store!Next
  <2>1. /\ UNCHANGED <<central, erasable, fixed, channels>>
        /\ result' = Returned("in", channelAt(ch), channelWord(ch))
    BY <1>2 DEF read_channel, state
  <2>2. CASE ch \in {L, Q}
    <3>1. Named(channelAt(ch)) = register(ch)
      BY <2>2 DEF Named, channelAt
    <3>2. channelWord(ch) = read_special(ch) /\ ch \in SpecialIndex
      BY <2>2 DEF channelWord, L, Q, SpecialIndex
    <3>3. register(ch) \in StoreCells /\ Contents[register(ch)] = channelWord(ch)
      BY <3>2, CellContents DEF ContentsByKind, StoreCells
    <3>4. QED
      BY <2>1, <3>1, <3>3, LookStep
  <2>3. CASE ch \notin {L, Q}
    <3>1. Named(channelAt(ch)) = channelAt(ch)
      BY <2>3 DEF Named, IsSpecial, channelAt
    <3>2. channelWord(ch) = channels[ch]
      BY <2>3 DEF channelWord, L, Q
    <3>3. channelAt(ch) \in StoreCells /\ Contents[channelAt(ch)] = channelWord(ch)
      BY <2>3, <3>2, CellContents DEF ContentsByKind, StoreCells, ChannelNames
    <3>4. QED
      BY <2>1, <3>1, <3>3, LookStep
  <2>4. QED
    BY <2>2, <2>3
<1>3. ASSUME NEW ch \in Channels, NEW w \in Words, write_channel(ch, w)
      PROVE  Store!Next
  <2>0. w \in Nat /\ w <= \o77777 /\ channels \in [Channels -> Word]
    BY CallersWords, InvariantParts
  <2>1. UNCHANGED <<erasable, fixed>> /\ result' = Answered("out", channelAt(ch), w, 0)
    BY <1>3 DEF write_channel
  <2>2. CASE ch \in {L, Q}
    <3>1. central' = write_special(central, ch, w) /\ UNCHANGED channels
      BY <1>3, <2>2 DEF write_channel, L, Q
    <3>2. ch \in SpecialIndex /\ ch \notin BankRegisters
      BY <2>2 DEF L, Q, SpecialIndex, BankRegisters, EB, FB, BB
    <3>3. Named(channelAt(ch)) = register(ch)
      BY <2>2 DEF Named, channelAt
    <3>4. QED
      BY <1>0, <2>0, <2>1, <3>1, <3>2, <3>3, SpecialStep
  <2>3. CASE ch \notin {L, Q}
    <3>1. /\ UNCHANGED central
          /\ \A d \in Channels : d # ch => channels'[d] = channels[d]
          /\ ch # 7 => channels'[ch] = w
      BY <1>3, <2>0, <2>3 DEF write_channel
    <3>2. ASSUME NEW p \in StoreCells, p # channelAt(ch)
          PROVE  Contents'[p] = Contents[p]
      BY <2>1, <3>1, <3>2, CellKept
    <3>3. /\ channelAt(ch) \notin {register(EB), register(FB), register(BB)}
          /\ channelAt(ch) \notin RopeNames
      BY OrdinaryCells
    <3>4. channelAt(ch) \in StoreCells
      BY <2>3 DEF StoreCells, ChannelNames
    <3>5. Named(channelAt(ch)) = channelAt(ch)
      BY <2>3 DEF Named, IsSpecial, channelAt
    <3>6. ASSUME channelAt(ch) \in PlainCells PROVE Contents'[channelAt(ch)] = w
      <4>1. channelAt(ch).region = "channel"
        BY DEF channelAt
      <4>2. \A d \in GeneralCells : d.region = "erasable"
        BY DEF GeneralCells, erasableAt
      <4>3. \A i : register(i).region = "register"
        BY DEF register
      <4>4. ch # 7
        BY <3>6, <4>1, <4>2, <4>3 DEF PlainCells
      <4>5. Contents'[channelAt(ch)] = channels'[ch]
        BY <2>3, CellContentsNext DEF ContentsByKind
      <4>6. QED
        BY <3>1, <4>4, <4>5
    <3>7. QED
      BY <2>1, <3>2, <3>3, <3>4, <3>5, <3>6, WriteStep
  <2>4. QED
    BY <2>2, <2>3
<1>4. QED
  BY <1>1, <1>2, <1>3 DEF Processor

(* A call that changes rope cells only.                                    *)
LEMMA RopeOnly ==
  ASSUME UNCHANGED <<central, erasable, channels>>
  PROVE  Store!Only(RopeNames)
<1>1. ASSUME NEW p \in StoreCells, p \notin RopeNames PROVE Contents'[p] = Contents[p]
  BY <1>1, CellKept DEF RopeNames
<1>2. QED
  BY <1>1 DEF Store!Only

(* A call that reports no cell of its own.                                 *)
LEMMA DoneAnswer ==
  ASSUME NEW call, result' = Done(call)
  PROVE  Answer'.call = call /\ Answer'.ok
  BY AcceptedAnswer DEF Done

LEMMA FlipStep ==
  ASSUME InputAssumption, MemoryInv, NEW c \in FlippedCells, NEW w \in Words,
         inject_fixed_bit_flip(c[1], c[2], w)
  PROVE  Store!Next
<1>0. UNCHANGED <<central, erasable, channels>> /\ fixed \in [RopeCells -> Word]
  BY InvariantParts DEF inject_fixed_bit_flip
<1>1. CASE InRopeArray(c[1], c[2])
  <2> DEFINE p == fixedAt(c[1], c[2])
  <2>1. c = <<c[1], c[2]>> /\ c \in RopeCells
    BY <1>1, PhysicalNames
  <2>2. fixed' = [fixed EXCEPT ![c] = w] /\ result' = Returned("flip", p, w)
    BY <1>1, <2>1 DEF inject_fixed_bit_flip
  <2>3. p \in RopeNames
    BY <2>1 DEF RopeNames
  <2>4. Named(p) = p
    BY DEF Named, IsSpecial, fixedAt
  <2>5. Contents'[p] = w
    <3>1. Contents'[p] = fixed'[c]
      BY <2>1, CellContentsNext DEF ContentsByKind
    <3>2. QED
      BY <1>0, <2>1, <2>2, <3>1
  <2>6. ASSUME NEW d \in StoreCells, d # p PROVE Contents'[d] = Contents[d]
    <3>1. ASSUME NEW k \in RopeCells, d = fixedAt(k[1], k[2]) PROVE fixed'[k] = fixed[k]
      <4>1. k # c
        BY <2>6, <3>1
      <4>2. QED
        BY <1>0, <2>2, <4>1
    <3>2. QED
      BY <1>0, <3>1, CellKept
  <2> HIDE DEF p
  <2>7. Store!Only({p})
    BY <2>6 DEF Store!Only
  <2>8. /\ Answer'.call = "flip" /\ Answer'.ok /\ Answer'.cell = p /\ Answer'.value = w
    BY <2>2, <2>4, AcceptedAnswer DEF Returned
  <2>9. Store!Flip
    <3>1. Store!Accepted({"flip"})
      BY ONLY <2>8 DEF Store!Accepted
    <3>2. Store!named = p
      BY ONLY <2>8 DEF Store!named
    <3>3. QED
      BY ONLY <2>3, <2>5, <2>7, <2>8, <3>1, <3>2 DEF Store!Flip
  <2>10. QED
    BY <2>9 DEF Store!Next
<1>2. CASE ~InRopeArray(c[1], c[2])
  <2>1. result' = Failed("flip") /\ UNCHANGED fixed
    BY <1>2 DEF inject_fixed_bit_flip
  <2>2. QED
    BY <1>0, <2>1, RefusalStep
<1>3. QED
  BY <1>1, <1>2

(* A physical access names an erasable cell, or is refused.                *)
LEMMA PhysicalStep ==
  ASSUME InputAssumption, MemoryInv, NEW c \in PhysicalCells,
         \/ read_erasable_physical(c[1], c[2])
         \/ \E w \in Words : write_erasable_physical(c[1], c[2], w)
  PROVE  Store!Next
<1> DEFINE p == erasableAt(c[1], c[2])
<1>1. /\ c = <<c[1], c[2]>> /\ c[2] \in Nat /\ p.offset = c[2]
      /\ InErasableArray(c[1], c[2]) => c \in ErasableCells
  BY PhysicalNames DEF erasableAt
<1>2. IsSpecial(p) => c[2] \in SpecialIndex
  BY <1>1 DEF IsSpecial, erasableAt, SpecialIndex
<1>3. InErasableArray(c[1], c[2]) => Resolved(p) /\ p \in GeneralCells
  BY <1>1, <1>2 DEF Resolved, GeneralCells
<1>4. CASE read_erasable_physical(c[1], c[2])
  <2>1. UNCHANGED <<central, erasable, fixed, channels>>
    BY <1>4 DEF read_erasable_physical, state
  <2>2. CASE InErasableArray(c[1], c[2])
    <3>1. result' = Returned("read", p, read_physical(p))
      BY <1>4, <2>2 DEF read_erasable_physical
    <3> HIDE DEF p
    <3>2. Named(p) \in StoreCells /\ read_physical(p) = Contents[Named(p)]
      BY <1>3, <2>2, NamedCell
    <3>3. QED
      BY <2>1, <3>1, <3>2, LookStep
  <2>3. CASE ~InErasableArray(c[1], c[2])
    <3>1. result' = Failed("read")
      BY <1>4, <2>3 DEF read_erasable_physical
    <3>2. QED
      BY <2>1, <3>1, RefusalStep
  <2>4. QED
    BY <2>2, <2>3
<1>5. ASSUME NEW w \in Words, write_erasable_physical(c[1], c[2], w)
      PROVE  Store!Next
  <2>1. UNCHANGED <<fixed, channels>>
    BY <1>5 DEF write_erasable_physical
  <2>2. CASE InErasableArray(c[1], c[2])
    <3>1. StoreAt(p, w) /\ result' = Answered("poke", p, w, 0)
      BY <1>5, <2>2 DEF write_erasable_physical
    <3>2. w \in Nat /\ w <= \o77777
      BY CallersWords
    <3>3. p = erasableAt(c[1], c[2])
      OBVIOUS
    <3> HIDE DEF p
    <3>4. QED
      BY <1>2, <1>3, <2>1, <2>2, <3>1, <3>2, <3>3, StoreStep
  <2>3. CASE ~InErasableArray(c[1], c[2])
    <3>1. result' = Failed("poke") /\ UNCHANGED <<central, erasable>>
      BY <1>5, <2>3 DEF write_erasable_physical
    <3>2. QED
      BY <2>1, <3>1, RefusalStep
  <2>4. QED
    BY <2>2, <2>3
<1>6. QED
  BY <1>4, <1>5

LEMMA MaintenanceStep ==
  ASSUME InputAssumption, MemoryInv, Maintenance PROVE Store!Next
<1>1. CASE reset_volatile
  <2>1. ShowsCleared'
    BY <1>1, ClearedStoreNext DEF reset_volatile, ClearedState
  <2>2. ASSUME NEW p \in RopeNames PROVE Contents'[p] = Contents[p]
    <3>1. PICK c \in RopeCells : p = fixedAt(c[1], c[2])
      BY DEF RopeNames
    <3>2. Contents[p] = fixed[c] /\ Contents'[p] = fixed'[c]
      BY <3>1, CellContents, CellContentsNext DEF ContentsByKind
    <3>3. QED
      BY <1>1, <3>2 DEF reset_volatile
  <2>3. \A p \in StoreCells \ RopeNames : Contents'[p] = ClearedCells[p]
    BY <2>1 DEF ShowsCleared
  <2>4. Answer'.call = "reset" /\ Answer'.ok
    BY <1>1, DoneAnswer DEF reset_volatile
  <2>5. Store!Only(StoreCells \ RopeNames)
    BY <2>2 DEF Store!Only
  <2>6. Store!Clear
    BY <2>3, <2>4, <2>5 DEF Store!Clear, Store!Accepted, Answer
  <2>7. QED
    BY <2>6 DEF Store!Next
<1>2. ASSUME NEW rope \in Ropes, load_rope(rope) PROVE Store!Next
  <2>1. /\ UNCHANGED <<central, erasable, channels>> /\ fixed' \in Ropes
        /\ result' = Done("load")
    BY <1>2 DEF load_rope
  <2>2. Loaded'
    BY <2>1, RopeShownNext DEF HoldsRope
  <2>3. PICK image \in RopeImages : \A p \in RopeNames : Contents'[p] = image[p]
    BY <2>2 DEF Loaded, RopeImages, RopeNames
  <2>4. Answer'.call = "load" /\ Answer'.ok
    BY <2>1, DoneAnswer
  <2>5. Store!Replace
    BY <2>1, <2>3, <2>4, RopeOnly DEF Store!Replace, Store!Accepted, Answer
  <2>6. QED
    BY <2>5 DEF Store!Next
<1>3. ASSUME NEW c \in PhysicalCells,
             \/ read_erasable_physical(c[1], c[2])
             \/ \E w \in Words : write_erasable_physical(c[1], c[2], w)
      PROVE  Store!Next
  BY <1>3, PhysicalStep
<1>4. ASSUME NEW c \in FlippedCells, NEW w \in Words,
             inject_fixed_bit_flip(c[1], c[2], w)
      PROVE  Store!Next
  BY <1>4, FlipStep
<1>5. QED
  BY <1>1, <1>2, <1>3, <1>4 DEF Maintenance

(* The decoded superbank flag that translation uses is the bit a program   *)
(* reads back from channel 7, whichever path wrote the channel.            *)
THEOREM SuperbankDecoded == Spec => []SuperbankAgrees
  BY MemoryInvariant, PTL

(* Aliases never tear: by whatever name the processor, the runtime and the *)
(* faults reach a cell, a call answers with that cell's word, stores in    *)
(* that cell the word it was given and disturbs no other; the selectors    *)
(* move together by their fields, and a reset clears every cell but the    *)
(* rope.                                                                   *)
THEOREM MemoryImplementsStore == Spec => ImplementsStore
<1>1. Init => Store!Init
  BY StoreInit, InputAssumption
<1>2. MemoryInv /\ [Next]_vars => [Store!Next]_<<Contents, Answer>>
  <2> SUFFICES ASSUME MemoryInv, [Next]_vars
               PROVE  Store!Next \/ UNCHANGED <<Contents, Answer>>
    OBVIOUS
  <2>1. CASE Next
    BY <2>1, InputAssumption, LogicalStep, ProcessorStep, MaintenanceStep DEF Next
  <2>2. CASE UNCHANGED vars
    <3>1. \A p \in StoreCells : Contents'[p] = Contents[p]
      BY <2>2, CellKept DEF vars
    <3>2. Contents' = Contents
      BY <3>1 DEF Contents
    <3>3. Answer' = Answer
      BY <2>2 DEF vars, Answer
    <3>4. QED
      BY <3>2, <3>3
  <2>3. QED
    BY <2>1, <2>2
<1>3. Spec => []MemoryInv
  BY MemoryInvariant, PTL DEF MemoryInv
<1>4. QED
  BY <1>1, <1>2, <1>3, PTL DEF Spec, ImplementsStore, Store!Spec
=============================================================================
