------------------------ MODULE AgcArithmeticProofs ------------------------
(***************************************************************************)
(* Theorems about AgcArithmetic, for every word, register and instruction: *)
(* where TLC goes through the boundary words, these go through all.        *)
(***************************************************************************)
EXTENDS AgcArithmetic, FiniteSetTheorems, TLAPS

-----------------------------------------------------------------------------
(* Words and registers.                                                    *)
LEMMA Corrected ==
  ASSUME NEW r \in Register16
  PROVE  /\ OverflowCorrect(r) \in Word
         /\ Normal(r) \in Register16
         /\ ~has_overflow(Normal(r))
         /\ ~has_overflow(r) => Normal(r) = r
         /\ value16(Normal(r)) = value16(r) - overflow_sign(r) * DoubleBase
  BY DEF Register16, Word, OverflowCorrect, SignExtend, Normal, has_overflow, value16,
         is_negative16, overflow_sign, DoubleBase

LEMMA Extended ==
  ASSUME NEW w \in Word
  PROVE  /\ SignExtend(w) \in Register16
         /\ ~has_overflow(SignExtend(w))
         /\ OverflowCorrect(SignExtend(w)) = w
         /\ value16(SignExtend(w)) = to_i32_lossy_zero(w)
  BY DEF Register16, Word, OverflowCorrect, SignExtend, has_overflow, value16,
         is_negative16, to_i32_lossy_zero, is_negative

LEMMA Closed ==
  ASSUME NEW r \in Register16, NEW s \in Register16
  PROVE  /\ AddRegister(r, s) \in Register16
         /\ Complement16(r) \in Register16
         /\ value16(Complement16(r)) = -value16(r)
         /\ -\o77777 <= value16(r) /\ value16(r) <= \o77777
  BY DEF Register16, AddRegister, Complement16, value16, is_negative16

-----------------------------------------------------------------------------
(* The instruction set.                                                    *)
Encodes(d, extended, raw) ==
  /\ d.operand \in Nat
  /\ Code!Encodable(d.mnemonic, d.operand, extended)
  /\ Code!encode_with_context(d.mnemonic, d.operand, extended) = raw

(* A word is its opcode, its quarter and ten bits more.                    *)
LEMMA Quarters ==
  ASSUME NEW raw \in Word
  PROVE  /\ raw \in Nat /\ raw \div \o10000 \in 0 .. 7
         /\ raw % \o10000 \in Nat /\ raw % \o10000 <= \o7777
         /\ raw = (raw \div \o10000) * \o10000 + (raw % \o10000)
         /\ (raw \div \o2000) % 4 \in 0 .. 3
         /\ raw % \o2000 \in Nat /\ raw % \o2000 <= \o1777
         /\ raw = (raw \div \o10000) * \o10000 + ((raw \div \o2000) % 4) * \o2000
                    + (raw % \o2000)
<1> DEFINE q == raw \div \o2000
<1>1. raw \in Nat /\ raw <= \o77777
  BY DEF Word
<1>2. /\ q \in Nat /\ raw % \o2000 \in Nat /\ raw % \o2000 <= \o1777
      /\ raw = q * \o2000 + (raw % \o2000)
      /\ raw \div \o10000 = q \div 4
  BY <1>1
<1>3. /\ raw \div \o10000 \in 0 .. 7
      /\ raw % \o10000 \in Nat /\ raw % \o10000 <= \o7777
  BY <1>1
<1>4. raw = (raw \div \o10000) * \o10000 + (raw % \o10000)
  BY <1>1
<1> HIDE DEF q
<1>5. q % 4 \in 0 .. 3 /\ q = (q \div 4) * 4 + (q % 4)
  BY <1>2
<1>6. raw = (raw \div \o10000) * \o10000 + (q % 4) * \o2000 + (raw % \o2000)
  BY ONLY <1>1, <1>2, <1>3, <1>5
<1> QED  BY <1>1, <1>2, <1>3, <1>4, <1>5, <1>6 DEF q

LEMMA Eighths ==
  ASSUME NEW raw \in Word
  PROVE  /\ (raw \div \o1000) % 8 \in 0 .. 7
         /\ raw % \o1000 \in Nat /\ raw % \o1000 <= \o777
         /\ raw = (raw \div \o10000) * \o10000 + ((raw \div \o1000) % 8) * \o1000
                    + (raw % \o1000)
<1> DEFINE q == raw \div \o1000
<1>1. raw \in Nat /\ raw <= \o77777
  BY DEF Word
<1>2. /\ q \in Nat /\ raw % \o1000 \in Nat /\ raw % \o1000 <= \o777
      /\ raw = q * \o1000 + (raw % \o1000)
      /\ raw \div \o10000 = q \div 8 /\ raw \div \o10000 \in Nat
  BY <1>1
<1> HIDE DEF q
<1>3. q % 8 \in 0 .. 7 /\ q = (q \div 8) * 8 + (q % 8)
  BY <1>2
<1>4. raw = (raw \div \o10000) * \o10000 + (q % 8) * \o1000 + (raw % \o1000)
  BY ONLY <1>1, <1>2, <1>3
<1> QED  BY <1>2, <1>3, <1>4 DEF q

(* No mnemonic has two fields, but for INDEX, which has one as an extracode. *)
LEMMA Bases ==
  ASSUME NEW m, NEW extended \in BOOLEAN
  PROVE  /\ m \in DOMAIN Code!NoField =>
              Code!base(m, extended) = Code!NoField[m] /\ Code!LargestOperand(m, extended) = 0
         /\ m \in DOMAIN Code!ChannelField =>
              /\ Code!base(m, extended) = Code!ChannelField[m]
              /\ Code!LargestOperand(m, extended) = \o777
         /\ m \in DOMAIN Code!ErasableField /\ ~(m = "INDEX" /\ extended) =>
              /\ Code!base(m, extended) = Code!ErasableField[m]
              /\ Code!LargestOperand(m, extended) = \o1777
         /\ m \in DOMAIN Code!AddressField /\ (m = "INDEX" => extended) =>
              /\ Code!base(m, extended) = Code!AddressField[m]
              /\ Code!LargestOperand(m, extended) = \o7777
<1>1. DOMAIN Code!NoField = {"RELINT", "INHINT", "EXTEND", "RESUME"}
  BY DEF Code!NoField
<1>2. DOMAIN Code!ChannelField = {"READ", "WRITE", "RAND", "WAND", "ROR", "WOR", "RXOR", "EDRUPT"}
  BY DEF Code!ChannelField
<1>3. DOMAIN Code!ErasableField = {"CCS", "DAS", "LXCH", "INCR", "ADS", "INDEX", "DXCH", "TS",
                                   "XCH", "DV", "MSU", "QXCH", "AUG", "DIM", "SU"}
  BY DEF Code!ErasableField
<1>4. DOMAIN Code!AddressField = {"TC", "TCF", "CA", "CS", "AD", "MASK", "BZF", "DCA", "DCS",
                                  "BZMF", "MP", "INDEX"}
  BY DEF Code!AddressField
<1>5. m \in DOMAIN Code!ChannelField => m \notin DOMAIN Code!NoField
  BY <1>1, <1>2
<1>6. m \in DOMAIN Code!ErasableField => m \notin DOMAIN Code!NoField \cup DOMAIN Code!ChannelField
  BY <1>1, <1>2, <1>3
<1>7. m \in DOMAIN Code!AddressField =>
        /\ m \notin DOMAIN Code!NoField \cup DOMAIN Code!ChannelField
        /\ m # "INDEX" => m \notin DOMAIN Code!ErasableField
  BY <1>1, <1>2, <1>3, <1>4
<1> QED  BY <1>5, <1>6, <1>7 DEF Code!base, Code!LargestOperand

(* Decoding loses nothing of a word: its fields encode it again.           *)
LEMMA Fields ==
  ASSUME NEW raw \in Word, NEW extended \in BOOLEAN
  PROVE  Encodes(Code!decode(raw, extended), extended, raw)
<1> DEFINE opcode == raw \div \o10000
           quarter == (raw \div \o2000) % 4
           channel == (raw \div \o1000) % 8
           k9 == raw % \o1000
           k10 == raw % \o2000
           k12 == raw % \o10000
           d == Code!decode(raw, extended)
<1> HIDE DEF d
<1>1. /\ raw \in Nat /\ opcode \in 0 .. 7 /\ k12 \in Nat /\ k12 <= \o7777
      /\ raw = opcode * \o10000 + k12
  BY Quarters
<1>2. /\ quarter \in 0 .. 3 /\ k10 \in Nat /\ k10 <= \o1777
      /\ raw = opcode * \o10000 + quarter * \o2000 + k10
  BY Quarters
<1>3. /\ channel \in 0 .. 7 /\ k9 \in Nat /\ k9 <= \o777
      /\ raw = opcode * \o10000 + channel * \o1000 + k9
  BY Eighths
<1> DEFINE b == Code!base(d.mnemonic, extended)
           top == Code!LargestOperand(d.mnemonic, extended)
<1>4. /\ d.mnemonic \in DOMAIN Code!NoField =>
           b = Code!NoField[d.mnemonic] /\ top = 0
      /\ d.mnemonic \in DOMAIN Code!ChannelField =>
           b = Code!ChannelField[d.mnemonic] /\ top = \o777
      /\ d.mnemonic \in DOMAIN Code!ErasableField /\ ~(d.mnemonic = "INDEX" /\ extended) =>
           b = Code!ErasableField[d.mnemonic] /\ top = \o1777
      /\ d.mnemonic \in DOMAIN Code!AddressField /\ (d.mnemonic = "INDEX" => extended) =>
           b = Code!AddressField[d.mnemonic] /\ top = \o7777
  BY Bases
<1> HIDE DEF b, top
<1>5. SUFFICES d.operand \in 0 .. top /\ raw = b + d.operand
  BY DEF Encodes, Code!Encodable, Code!encode_with_context, d, b, top
<1> HIDE DEF opcode, quarter, channel, k9, k10, k12
<1>8. CASE extended
  <2>1. d =
          IF opcode = 0 THEN Code!op(Code!ChannelOps[channel + 1], k9)
          ELSE IF opcode = 1 THEN IF quarter = 0 THEN Code!op("DV", k10) ELSE Code!op("BZF", k12)
          ELSE IF opcode = 2 THEN Code!op(Code!ExtendedQuarters[quarter + 1], k10)
          ELSE IF opcode = 3 THEN Code!op("DCA", k12)
          ELSE IF opcode = 4 THEN Code!op("DCS", k12)
          ELSE IF opcode = 5 THEN Code!op("INDEX", k12)
          ELSE IF opcode = 6 THEN IF quarter = 0 THEN Code!op("SU", k10) ELSE Code!op("BZMF", k12)
          ELSE Code!op("MP", k12)
    BY <1>8 DEF d, Code!decode, Code!decodeExtended, opcode, quarter, channel, k9, k10, k12
  <2>2. CASE opcode = 0
    <3> DEFINE m == Code!ChannelOps[channel + 1]
    <3>1. m \in DOMAIN Code!ChannelField /\ Code!ChannelField[m] = channel * \o1000
      <4>1. \/ channel = 0 \/ channel = 1 \/ channel = 2 \/ channel = 3
            \/ channel = 4 \/ channel = 5 \/ channel = 6 \/ channel = 7
        BY <1>3
      <4> QED  BY <4>1 DEF Code!ChannelOps, Code!ChannelField
    <3>2. d.mnemonic = m /\ d.operand = k9
      BY <2>1, <2>2 DEF Code!op
    <3> HIDE DEF m
    <3>3. raw = Code!ChannelField[m] + k9
      BY <1>1, <1>3, <2>2, <3>1
    <3> QED  BY <1>3, <1>4, <3>1, <3>3, <3>2
  <2>3. CASE opcode = 2
    <3> DEFINE m == Code!ExtendedQuarters[quarter + 1]
    <3>1. /\ m \in DOMAIN Code!ErasableField /\ m # "INDEX"
          /\ Code!ErasableField[m] = \o20000 + quarter * \o2000
      <4>1. quarter = 0 \/ quarter = 1 \/ quarter = 2 \/ quarter = 3
        BY <1>2
      <4> QED  BY <4>1 DEF Code!ExtendedQuarters, Code!ErasableField
    <3>2. d.mnemonic = m /\ d.operand = k10
      BY <2>1, <2>3 DEF Code!op
    <3> HIDE DEF m
    <3>3. raw = Code!ErasableField[m] + k10
      BY <1>1, <1>2, <2>3, <3>1
    <3> QED  BY <1>2, <1>4, <3>1, <3>3, <3>2
  <2>4. CASE opcode \in {1, 6} /\ quarter = 0
    <3> DEFINE m == IF opcode = 1 THEN "DV" ELSE "SU"
    <3>1. /\ m \in DOMAIN Code!ErasableField /\ m # "INDEX"
          /\ raw = Code!ErasableField[m] + k10
      BY <1>1, <1>2, <2>4 DEF Code!ErasableField
    <3>2. d.mnemonic = m /\ d.operand = k10
      BY <2>1, <2>4 DEF Code!op
    <3> HIDE DEF m
    <3> QED  BY <1>2, <1>4, <3>1, <3>2
  <2>5. CASE opcode \in {3, 4, 5, 7} \/ (opcode \in {1, 6} /\ quarter # 0)
    <3> DEFINE m == IF opcode = 1 THEN "BZF" ELSE IF opcode = 3 THEN "DCA"
                    ELSE IF opcode = 4 THEN "DCS" ELSE IF opcode = 5 THEN "INDEX"
                    ELSE IF opcode = 6 THEN "BZMF" ELSE "MP"
    <3>1. d.mnemonic = m /\ d.operand = k12
      BY <2>1, <2>5 DEF Code!op
    <3>2. m \in DOMAIN Code!AddressField /\ Code!AddressField[m] = opcode * \o10000
      BY <1>1, <2>5 DEF Code!AddressField
    <3> HIDE DEF m
    <3>3. raw = Code!AddressField[m] + k12
      BY <1>1, <3>2
    <3> QED  BY <1>1, <1>4, <1>8, <3>2, <3>3, <3>1
  <2> QED  BY <1>1, <1>2, <2>2, <2>3, <2>4, <2>5
<1>9. CASE ~extended
  <2>1. d =
          IF raw = 3 THEN Code!op("RELINT", 0)
          ELSE IF raw = 4 THEN Code!op("INHINT", 0)
          ELSE IF raw = 6 THEN Code!op("EXTEND", 0)
          ELSE IF opcode = 0 THEN Code!op("TC", k12)
          ELSE IF opcode = 1 THEN IF quarter = 0 THEN Code!op("CCS", k10) ELSE Code!op("TCF", k12)
          ELSE IF opcode = 2 THEN Code!op(Code!StoreQuarters[quarter + 1], k10)
          ELSE IF opcode = 3 THEN Code!op("CA", k12)
          ELSE IF opcode = 4 THEN Code!op("CS", k12)
          ELSE IF raw = \o50017 THEN Code!op("RESUME", 0)
          ELSE IF opcode = 5 THEN Code!op(Code!ExchangeQuarters[quarter + 1], k10)
          ELSE IF opcode = 6 THEN Code!op("AD", k12)
          ELSE Code!op("MASK", k12)
    BY <1>9 DEF d, Code!decode, Code!decodeBasic, opcode, quarter, k10, k12
  <2>2. CASE raw \in {3, 4, 6, \o50017}
    <3> DEFINE m == IF raw = 3 THEN "RELINT" ELSE IF raw = 4 THEN "INHINT"
                    ELSE IF raw = 6 THEN "EXTEND" ELSE "RESUME"
    <3>1. raw = \o50017 => opcode = 5
      BY DEF opcode
    <3>2. d.mnemonic = m /\ d.operand = 0
      BY <2>1, <2>2, <3>1 DEF Code!op
    <3>3. m \in DOMAIN Code!NoField /\ raw = Code!NoField[m]
      BY <2>2 DEF Code!NoField
    <3> HIDE DEF m
    <3> QED  BY <1>1, <1>4, <3>2, <3>3
  <2> DEFINE encoded == raw \in {3, 4, 6, \o50017}
  <2>3. CASE ~encoded /\ (opcode \in {2, 5} \/ (opcode = 1 /\ quarter = 0))
    <3> DEFINE m == IF opcode = 1 THEN "CCS"
                    ELSE IF opcode = 2 THEN Code!StoreQuarters[quarter + 1]
                    ELSE Code!ExchangeQuarters[quarter + 1]
    <3>1. d.mnemonic = m /\ d.operand = k10
      BY <2>1, <2>3 DEF Code!op
    <3>2. m \in DOMAIN Code!ErasableField
          /\ Code!ErasableField[m] = opcode * \o10000 + quarter * \o2000
      <4>1. quarter = 0 \/ quarter = 1 \/ quarter = 2 \/ quarter = 3
        BY <1>2
      <4> QED  BY <2>3, <4>1
               DEF Code!StoreQuarters, Code!ExchangeQuarters, Code!ErasableField
    <3> HIDE DEF m
    <3>3. raw = Code!ErasableField[m] + k10
      BY <1>2, <3>2
    <3> QED  BY <1>2, <1>4, <1>9, <3>2, <3>3, <3>1
  <2>4. CASE ~encoded /\ (opcode \in {0, 3, 4, 6, 7} \/ (opcode = 1 /\ quarter # 0))
    <3> DEFINE m == IF opcode = 0 THEN "TC" ELSE IF opcode = 1 THEN "TCF"
                    ELSE IF opcode = 3 THEN "CA" ELSE IF opcode = 4 THEN "CS"
                    ELSE IF opcode = 6 THEN "AD" ELSE "MASK"
    <3>1. d.mnemonic = m /\ d.operand = k12
      BY <2>1, <2>4 DEF Code!op
    <3>2. m \in DOMAIN Code!AddressField /\ m # "INDEX"
          /\ Code!AddressField[m] = opcode * \o10000
      BY <1>1, <2>4 DEF Code!AddressField
    <3> HIDE DEF m
    <3>3. raw = Code!AddressField[m] + k12
      BY <1>1, <3>2
    <3> QED  BY <1>1, <1>4, <3>2, <3>3, <3>1
  <2> QED  BY <1>1, <1>2, <2>2, <2>3, <2>4
<1> QED  BY <1>8, <1>9 DEF d

(* Every instruction executed encodes to the word it was decoded from      *)
(* (Isa::decode, Isa::encode_with_context).                                *)
THEOREM DecodedEncodes == Spec => []Recodes
<1>1. Init => Recodes
  BY DEF Init, Recodes
<1>2. Recodes /\ [Next]_vars => Recodes'
  <2> SUFFICES ASSUME Recodes, [Next]_vars  PROVE Recodes'
    OBVIOUS
  <2>1. CASE UNCHANGED vars
    BY <2>1 DEF Recodes, vars
  <2>2. CASE step
    <3>1. PICK i \in Instructions :
            LET d == Code!decode(i.word, i.extended)
            IN  executed' = [mnemonic |-> d.mnemonic, operand |-> d.operand,
                             word |-> i.word, extended |-> i.extended]
      BY <2>2 DEF step
    <3>2. i.word \in Word /\ i.extended \in BOOLEAN
      BY ArithmeticAssumption
    <3>3. Encodes(Code!decode(i.word, i.extended), i.extended, i.word)
      BY <3>2, Fields
    <3> QED  BY <3>1, <3>3 DEF Recodes, Encodes
  <2> QED  BY <2>1, <2>2 DEF Next
<1> QED  BY <1>1, <1>2, PTL DEF Spec

-----------------------------------------------------------------------------
(* The operands.  A store keeps sixteen bits in the registers, an address  *)
(* in Z, words in the cells and nothing in the zero register.              *)
Stored(s) ==
  /\ s \in [Places -> Register16]
  /\ \A p \in Places : s[p] \in IF p \in FullWidth THEN Register16
                                ELSE IF p = Z THEN Code!Address ELSE Word
  /\ s[ZERO] = 0

LEMMA PlacesNamed ==
  /\ {A, L, Q, Z, ZERO} \subseteq Places
  /\ A = 0 /\ L = 1 /\ Q = 2 /\ Z = 5 /\ ZERO = 7 /\ FullWidth = {0, 1, 2}
  /\ Places \subseteq Nat
  /\ \A p \in Cells : p \in Places /\ p > 7 /\ p \notin FullWidth
<1>1. \A p \in Cells : p \in Nat /\ p > \o60
  BY ArithmeticAssumption DEF Code!Address, Code!LastAddress
<1> QED  BY <1>1 DEF Places, FullWidth, A, L, Q, Z, ZERO

LEMMA Reads ==
  ASSUME NEW s, Stored(s), NEW k \in Places
  PROVE  /\ read_register_operand(s, k) \in Register16
         /\ read_word(s, k) \in Word
         /\ s[k] \in Nat
<1>1. s[k] \in IF k \in FullWidth THEN Register16 ELSE IF k = Z THEN Code!Address ELSE Word
  BY DEF Stored
<1>2. 0 \in Register16 /\ Code!Address \subseteq Word
  BY DEF Register16, Word, Code!Address, Code!LastAddress
<1>3. read_register_operand(s, k) \in Register16
  BY <1>1, <1>2, Extended DEF read_register_operand
<1>4. read_word(s, k) \in Word
  BY <1>3, Corrected DEF read_word
<1>5. s[k] \in Nat
  <2>1. Word \subseteq Nat /\ Register16 \subseteq Nat
    BY DEF Word, Register16
  <2> QED  BY <1>1, <1>2, <2>1
<1> QED  BY <1>3, <1>4, <1>5

LEMMA Loads ==
  ASSUME NEW s, Stored(s), NEW p \in FullWidth, NEW r \in Register16
  PROVE  /\ Stored([s EXCEPT ![p] = r])
         /\ [s EXCEPT ![p] = r][p] = r
         /\ \A k \in Places \ {p} : [s EXCEPT ![p] = r][k] = s[k]
<1>1. p \in Places /\ p # ZERO
  BY PlacesNamed
<1> QED  BY <1>1 DEF Stored

LEMMA Jumps ==
  ASSUME NEW s, Stored(s), NEW n \in Nat
  PROVE  /\ Stored(set_z(s, n))
         /\ set_z(s, n)[Z] = n % \o10000
         /\ \A k \in Places \ {Z} : set_z(s, n)[k] = s[k]
<1>1. n % \o10000 \in Code!Address /\ n % \o10000 \in Register16
  BY DEF Code!Address, Code!LastAddress, Register16
<1>2. Z \in Places /\ Z # ZERO /\ Z \notin FullWidth
  BY PlacesNamed
<1> QED  BY <1>1, <1>2 DEF Stored, set_z

LEMMA Skips ==
  ASSUME NEW s, Stored(s), NEW n \in Nat
  PROVE  /\ Stored(skip(s, n))
         /\ skip(s, n)[Z] = (s[Z] + n) % \o10000
         /\ \A k \in Places \ {Z} : skip(s, n)[k] = s[k]
<1>1. s[Z] \in Nat
  BY Reads, PlacesNamed
<1> DEFINE m == s[Z] + n
<1>2. m \in Nat
  BY <1>1
<1> HIDE DEF m
<1>3. /\ Stored(set_z(s, m)) /\ set_z(s, m)[Z] = m % \o10000
      /\ \A k \in Places \ {Z} : set_z(s, m)[k] = s[k]
  BY <1>2, Jumps
<1> QED  BY <1>3 DEF skip, m

LEMMA Writes ==
  ASSUME NEW s, Stored(s), NEW k \in Places, NEW r \in Register16
  PROVE  /\ Stored(write_register_operand(s, k, r))
         /\ \A p \in Places \ {k} : write_register_operand(s, k, r)[p] = s[p]
         /\ k \in FullWidth => write_register_operand(s, k, r)[k] = r
         /\ k \in Cells => write_register_operand(s, k, r)[k] = OverflowCorrect(r)
<1> DEFINE w == OverflowCorrect(r)
<1>1. w \in Word /\ w \in Register16 /\ w % \o10000 \in Code!Address /\ w % \o10000 \in Register16
  <2>1. w \in Word
    BY Corrected
  <2> HIDE DEF w
  <2> QED  BY <2>1 DEF Word, Register16, Code!Address, Code!LastAddress
<1> HIDE DEF w
<1>2. ZERO \notin FullWidth /\ Z \notin FullWidth /\ ZERO # Z
  BY PlacesNamed
<1>3. CASE k = ZERO
  BY <1>2, <1>3, PlacesNamed DEF write_register_operand
<1>4. CASE k \in FullWidth
  BY <1>2, <1>4, Loads, PlacesNamed DEF write_register_operand
<1>5. CASE k = Z
  BY <1>1, <1>2, <1>5, PlacesNamed DEF write_register_operand, Stored, w
<1>6. CASE k \in Cells
  <2>2. k # ZERO /\ k # Z /\ k \notin FullWidth
    BY <1>6, PlacesNamed
  <2>1. write_register_operand(s, k, r) = [s EXCEPT ![k] = w]
    BY <2>2 DEF write_register_operand, w
  <2> QED  BY <1>1, <2>1, <2>2 DEF Stored, w
<1> QED  BY <1>3, <1>4, <1>5, <1>6 DEF Places

-----------------------------------------------------------------------------
(* Bit by bit.                                                             *)
LEMMA Bitwise ==
  ASSUME NEW v, NEW w, NEW gate
  PROVE  /\ BitwiseOf(v, w, gate) \in Register16
         /\ v \in Word /\ w \in Word /\ 0 \notin gate => BitwiseOf(v, w, gate) \in Word
<1> DEFINE bit(weight) == IF Bit(v, weight) + Bit(w, weight) \in gate THEN weight ELSE 0
           low == bit(1) + bit(2) + bit(4) + bit(8)
           second == bit(\o20) + bit(\o40) + bit(\o100) + bit(\o200)
           third == bit(\o400) + bit(\o1000) + bit(\o2000) + bit(\o4000)
           high == bit(\o10000) + bit(\o20000) + bit(\o40000) + bit(\o100000)
<1>1. BitwiseOf(v, w, gate) = low + second + third + high
  BY DEF BitwiseOf
<1>2. low \in Nat /\ low <= \o17
  OBVIOUS
<1>3. second \in Nat /\ second <= \o360
  OBVIOUS
<1>4. third \in Nat /\ third <= \o7400
  OBVIOUS
<1>5. high \in Nat /\ high <= \o170000
  OBVIOUS
<1>6. ASSUME v \in Word, w \in Word, 0 \notin gate  PROVE high <= \o70000
  <2>1. Bit(v, \o100000) = 0 /\ Bit(w, \o100000) = 0
    BY <1>6 DEF Bit, Word
  <2>2. bit(\o100000) = 0
    BY <1>6, <2>1
  <2> DEFINE rest == bit(\o10000) + bit(\o20000) + bit(\o40000)
  <2>3. rest \in Nat /\ rest <= \o70000
    OBVIOUS
  <2>4. high = rest + 0
    BY <2>2
  <2> HIDE DEF rest
  <2> QED  BY <2>3, <2>4
<1> HIDE DEF low, second, third, high
<1>7. low + second + third + high \in Register16
  BY <1>2, <1>3, <1>4, <1>5 DEF Register16
<1>8. high <= \o70000 => low + second + third + high \in Word
  BY <1>2, <1>3, <1>4, <1>5 DEF Word
<1> QED  BY ONLY <1>1, <1>6, <1>7, <1>8

-----------------------------------------------------------------------------
(* What the instructions keep: none leaves the representation of a store.  *)
LEMMA Numerals ==
  /\ 0 \in Register16 /\ One \in Register16 /\ MinusOne \in Register16
  /\ value16(One) = 1 /\ value16(MinusOne) = -1 /\ value16(0) = 0
  /\ A \in FullWidth /\ L \in FullWidth /\ Q \in FullWidth
  BY DEF Register16, One, MinusOne, Complement16, value16, is_negative16, FullWidth

LEMMA Chosen ==
  ASSUME NEW r \in Register16
  PROVE  /\ Away(r) \in Register16 /\ Toward(r) \in Register16
         /\ Left(r) \in Register16
         /\ Magnitude(r) \in Register16
         /\ (IF Magnitude(r) = 0 THEN 0 ELSE Magnitude(r) - 1) \in Register16
<1>1. /\ Away(r) \in Register16 /\ Toward(r) \in Register16 /\ Left(r) \in Register16
  BY Numerals DEF Away, Toward, Left
<1>2. Magnitude(r) \in Register16
  BY Closed DEF Magnitude
<1> DEFINE m == Magnitude(r)
<1> HIDE DEF m
<1>3. m \in Register16 => (IF m = 0 THEN 0 ELSE m - 1) \in Register16
  BY DEF Register16
<1> QED  BY <1>1, <1>2, <1>3 DEF m

LEMMA Carried ==
  ASSUME NEW high \in Register16, NEW low \in Register16
  PROVE  add_double_precision_carry(high, low) \in Register16
  BY Closed, Numerals DEF add_double_precision_carry

LEMMA AddersKeep ==
  ASSUME NEW s, Stored(s), NEW k \in Places
  PROVE  /\ Stored(AD(s, k)) /\ Stored(SU(s, k)) /\ Stored(ADS(s, k))
         /\ Stored(INCR(s, k)) /\ Stored(AUG(s, k)) /\ Stored(DIM(s, k))
<1> DEFINE r == read_register_operand(s, k)
<1>1. r \in Register16 /\ A \in Places /\ s[A] \in Register16 /\ A \in FullWidth
  BY Reads, PlacesNamed, Numerals DEF Stored
<1>2. ASSUME NEW x \in Register16  PROVE AddRegister(x, r) \in Register16 /\ AddRegister(r, x) \in Register16
  BY <1>1, <1>2, Closed
<1>3. Stored(AD(s, k)) /\ AD(s, k)[A] \in Register16
  BY <1>1, <1>2, Loads DEF AD
<1>4. Stored(SU(s, k))
  <2>1. AddRegister(s[A], Complement16(r)) \in Register16
    <3>1. Complement16(r) \in Register16
      BY <1>1, Closed
    <3> HIDE DEF r
    <3> QED  BY <1>1, <3>1, Closed
  <2> QED  BY <1>1, <2>1, Loads DEF SU
<1>5. Stored(ADS(s, k))
  <2> DEFINE t == AD(s, k)
  <2>1. Stored(t) /\ t[A] \in Register16
    BY <1>3
  <2> HIDE DEF t
  <2>2. Stored(write_register_operand(t, k, t[A]))
    BY <2>1, Writes
  <2> QED  BY <2>2 DEF ADS, t
<1>6. ASSUME NEW n \in Register16  PROVE Stored(Plus(s, k, n))
  <2>1. AddRegister(r, n) \in Register16
    BY <1>2, <1>6
  <2> QED  BY <2>1, Writes DEF Plus
<1>7. Stored(INCR(s, k)) /\ Stored(AUG(s, k))
  BY <1>1, <1>6, Numerals, Chosen DEF INCR, AUG
<1>8. Stored(DIM(s, k))
  BY <1>1, <1>6, Chosen DEF DIM
<1> QED  BY <1>3, <1>4, <1>5, <1>7, <1>8

LEMMA DoublesKeep ==
  ASSUME NEW s, Stored(s), NEW k \in Places, predecessor(k) \in Places
  PROVE  Stored(DAS(s, k)) /\ Stored(DXCH(s, k)) /\ Stored(DCA(s, k)) /\ Stored(DCS(s, k))
<1>1. /\ s[A] \in Register16 /\ s[L] \in Register16
      /\ A \in FullWidth /\ L \in FullWidth /\ A \in Places /\ L \in Places /\ A # L
  BY PlacesNamed, Numerals DEF Stored
<1> DEFINE r == read_register_operand(s, k)
           h == read_register_operand(s, predecessor(k))
<1>2. r \in Register16 /\ h \in Register16
  BY Reads
<1>3. ASSUME NEW a \in Register16, NEW l \in Register16
      PROVE  Stored([s EXCEPT ![A] = a, ![L] = l]) /\ Stored([s EXCEPT ![L] = l, ![A] = a])
  <2>1. Stored([s EXCEPT ![A] = a]) /\ Stored([s EXCEPT ![L] = l])
    BY <1>1, <1>3, Loads
  <2> QED  BY <1>1, <1>3, <2>1, Loads
<1> HIDE DEF r, h
<1>4. Stored(DAS(s, k))
  <2>1. CASE k = L
    <3> DEFINE low == AddRegister(s[L], s[L])
               a == add_double_precision_carry(AddRegister(s[A], s[A]), low)
               l == Normal(low)
    <3>1. low \in Register16 /\ AddRegister(s[A], s[A]) \in Register16
      BY <1>1, Closed
    <3>2. a \in Register16 /\ l \in Register16
      BY <3>1, Carried, Corrected
    <3>3. DAS(s, k) = [s EXCEPT ![A] = a, ![L] = l]
      BY <2>1 DEF DAS, DDOUBL
    <3> HIDE DEF a, l
    <3> QED  BY <1>3, <3>2, <3>3
  <2>2. CASE k # L
    <3> DEFINE low == AddRegister(s[L], r)
               high == add_double_precision_carry(AddRegister(s[A], h), low)
               a == IF overflow_sign(high) = -1 THEN MinusOne ELSE overflow_sign(high)
               l == 0
               t == [s EXCEPT ![A] = a, ![L] = l]
               u == write_register_operand(t, k, Normal(low))
    <3>1. low \in Register16 /\ AddRegister(s[A], h) \in Register16
      <4>1. ASSUME NEW x \in Register16, NEW y \in Register16
            PROVE  AddRegister(x, y) \in Register16
        BY <4>1, Closed
      <4> QED  BY <1>1, <1>2, <4>1
    <3> HIDE DEF low
    <3>2. high \in Register16 /\ Normal(low) \in Register16
      BY <3>1, Carried, Corrected
    <3> HIDE DEF high
    <3>3. a \in Register16 /\ l \in Register16
      BY Numerals DEF overflow_sign, One
    <3> HIDE DEF a, l
    <3>4. Stored(t)
      BY <1>3, <3>3
    <3> HIDE DEF t
    <3>5. Stored(u)
      BY <3>2, <3>4, Writes
    <3> HIDE DEF u
    <3>6. Stored(write_register_operand(u, predecessor(k), high))
      BY <3>2, <3>5, Writes
    <3> QED  BY <2>2, <3>6 DEF DAS, low, high, a, l, t, u, r, h
  <2> QED  BY <2>1, <2>2
<1>5. Stored(DXCH(s, k))
  <2>1. CASE k = L
    <3>1. Normal(s[L]) \in Register16
      BY <1>1, Corrected
    <3> QED  BY <1>1, <2>1, <3>1, Loads DEF DXCH
  <2>2. CASE k # L
    <3> DEFINE v == write_register_operand(s, k, s[L])
               n == Normal(r)
               t == [v EXCEPT ![L] = n]
               j == predecessor(k)
               x == read_register_operand(t, j)
               u == write_register_operand(t, j, t[A])
    <3>1. Stored(v) /\ n \in Register16 /\ j \in Places
      BY <1>1, <1>2, Writes, Corrected
    <3> HIDE DEF v, n, j
    <3>2. Stored(t)
      BY <1>1, <3>1, Loads
    <3> HIDE DEF t
    <3>3. x \in Register16 /\ t[A] \in Register16
      BY <1>1, <3>1, <3>2, Reads DEF Stored
    <3>4. Stored(u)
      BY <3>1, <3>2, <3>3, Writes
    <3> HIDE DEF u, x
    <3>5. Stored([u EXCEPT ![A] = x])
      BY <1>1, <3>3, <3>4, Loads
    <3> QED  BY <2>2, <3>5 DEF DXCH, v, n, t, j, x, u, r
  <2> QED  BY <2>1, <2>2
<1>6. ASSUME NEW c \in BOOLEAN  PROVE Stored(double_load(s, k, c))
  <2> DEFINE Through(x) == IF c THEN Complement16(x) ELSE x
  <2>1. ASSUME NEW x \in Register16
        PROVE  Through(x) \in Register16 /\ Normal(Through(x)) \in Register16
    BY <2>1, Closed, Corrected
  <2>2. /\ Through(s[A]) \in Register16 
        /\ Normal(Through(s[L])) \in Register16
        /\ Through(h) \in Register16 /\ Normal(Through(r)) \in Register16
    BY <1>1, <1>2, <2>1
  <2> DEFINE a == Through(s[A])
             l == Normal(Through(s[L]))
             b == Through(h)
             m == Normal(Through(r))
  <2>3. double_load(s, k, c) = IF k = L THEN [s EXCEPT ![A] = a, ![L] = l]
                               ELSE [s EXCEPT ![L] = m, ![A] = b]
    BY <1>1 DEF double_load, r, h
  <2>4. a \in Register16 /\ l \in Register16 /\ b \in Register16 /\ m \in Register16
    BY <2>2
  <2> HIDE DEF a, l, b, m
  <2> QED  BY <1>3, <2>3, <2>4
<1> QED  BY <1>4, <1>5, <1>6 DEF DCA, DCS

LEMMA MoversKeep ==
  ASSUME NEW s, Stored(s), NEW k \in Places
  PROVE  /\ Stored(CA(s, k)) /\ Stored(CS(s, k))
         /\ Stored(XCH(s, k)) /\ Stored(LXCH(s, k)) /\ Stored(QXCH(s, k))
         /\ Stored(transfer_to_storage(s, k))
<1> DEFINE r == read_register_operand(s, k)
<1>1. /\ r \in Register16 /\ A \in FullWidth /\ L \in FullWidth /\ Q \in FullWidth
      /\ A \in Places /\ 0 \in Register16 /\ s[A] \in Register16
  BY Reads, Numerals, PlacesNamed DEF Stored
<1>2. Stored(CA(s, k)) /\ Stored(CS(s, k))
  <2>1. Complement16(r) \in Register16
    BY <1>1, Closed
  <2> QED  BY <1>1, <2>1, Loads DEF CA, CS
<1> HIDE DEF r
<1>3. ASSUME NEW p \in FullWidth  PROVE Stored(exchange_register(s, k, p))
  <2> DEFINE t == write_register_operand(s, k, s[p])
  <2>1. Stored([s EXCEPT ![p] = 0])
    BY <1>1, Loads
  <2>2. s[p] \in Register16
    BY <1>3, PlacesNamed DEF Stored, Places
  <2>3. Stored(t)
    BY <2>2, Writes
  <2> HIDE DEF t
  <2>4. Stored([t EXCEPT ![p] = r])
    BY <1>1, <2>3, Loads
  <2> QED  BY <2>1, <2>4 DEF exchange_register, t, r
<1>4. Stored(transfer_to_storage(s, k))
  <2> DEFINE n == IF has_overflow(s[A]) THEN 1 ELSE 0
             t == write_register_operand(s, k, s[A])
             u == skip(t, n)
             a == s[A]
             z == set_z(s, a)
  <2>1. n \in Nat /\ s[A] \in Nat /\ Left(s[A]) \in Register16
    BY <1>1, Chosen DEF Register16
  <2>2. Stored(t)
    BY <1>1, Writes
  <2> HIDE DEF n, a
  <2>3. a \in Nat
    BY <2>1 DEF a
  <2>4. Stored(skip(s, n))
    BY <2>1, Skips
  <2>5. Stored(z) /\ \A p \in Places \ {Z} : z[p] = s[p]
    BY <2>3, Jumps
  <2>6. z[A] = s[A]
    BY <1>1, <2>5, PlacesNamed
  <2> HIDE DEF t, z
  <2>7. Stored(u)
    BY <2>1, <2>2, Skips
  <2> HIDE DEF u
  <2>8. /\ Stored([z EXCEPT ![A] = Left(s[A])]) /\ Stored([u EXCEPT ![A] = Left(s[A])])
    BY <1>1, <2>1, <2>5, <2>7, Loads
  <2>9. transfer_to_storage(s, k) =
          IF k = A THEN skip(s, n)
          ELSE IF k = Z THEN [z EXCEPT ![A] = Left(z[A])]
          ELSE [u EXCEPT ![A] = Left(s[A])]
    BY DEF transfer_to_storage, n, t, u, z, a
  <2> QED  BY <2>4, <2>6, <2>8, <2>9
<1> QED  BY <1>1, <1>2, <1>3, <1>4 DEF XCH, LXCH, QXCH

LEMMA BranchesKeep ==
  ASSUME NEW s, Stored(s), NEW k \in Nat
  PROVE  /\ Stored(BZF(s, k)) /\ Stored(BZMF(s, k)) /\ Stored(TC(s, k)) /\ Stored(TCF(s, k))
<1>1. /\ Stored(set_z(s, k)) /\ s[Z] \in Register16 /\ Q \in FullWidth
  BY Jumps, Numerals, PlacesNamed DEF Stored
<1> DEFINE t == [s EXCEPT ![Q] = s[Z]]
<1>2. Stored(t)
  BY <1>1, Loads
<1> HIDE DEF t
<1>3. Stored(set_z(t, k))
  BY <1>2, Jumps
<1> QED  BY <1>1, <1>3 DEF BZF, BZMF, TC, TCF, t

LEMMA ComputersKeep ==
  ASSUME NEW s, Stored(s), NEW k \in Places
  PROVE  Stored(CCS(s, k)) /\ Stored(MASK(s, k)) /\ Stored(modular_subtract(s, k))
<1> DEFINE r == read_register_operand(s, k)
           v == aWord(s)
           w == read_word(s, k)
<1>1. /\ r \in Register16 /\ w \in Word /\ v \in Word /\ A \in FullWidth /\ s[A] \in Register16
  BY Reads, Numerals, PlacesNamed, Corrected DEF Stored, aWord
<1>2. Stored(CCS(s, k))
  <2> DEFINE m == IF Magnitude(r) = 0 THEN 0 ELSE Magnitude(r) - 1
             words == IF k < EB /\ overflow_sign(r) = 1 THEN 0
                      ELSE IF k < EB /\ overflow_sign(r) = -1 THEN 2
                      ELSE IF OverflowCorrect(r) = 0 THEN 1
                      ELSE IF OverflowCorrect(r) = \o77777 THEN 3
                      ELSE IF is_negative(OverflowCorrect(r)) THEN 2 ELSE 0
             t == [s EXCEPT ![A] = m]
  <2>1. m \in Register16 /\ words \in Nat
    BY <1>1, Chosen
  <2> HIDE DEF m, words
  <2>2. Stored(t)
    BY <1>1, <2>1, Loads
  <2> HIDE DEF t
  <2>3. Stored(skip(t, words))
    BY <2>1, <2>2, Skips
  <2> QED  BY <2>3 DEF CCS, t, m, words
<1>3. Stored(MASK(s, k))
  <2> DEFINE a == IF k < EB THEN BitwiseOf(s[A], r, AndGate)
                  ELSE SignExtend(BitwiseOf(v, w, AndGate))
  <2>1. BitwiseOf(v, w, AndGate) \in Word
    <3>1. 0 \notin AndGate
      BY DEF AndGate
    <3> QED  BY <1>1, <3>1, Bitwise
  <2>2. a \in Register16
    BY <1>1, <2>1, Bitwise, Extended
  <2>3. MASK(s, k) = [s EXCEPT ![A] = a]
    BY DEF MASK
  <2> HIDE DEF a
  <2>4. Stored([s EXCEPT ![A] = a])
    BY <1>1, <2>2, Loads
  <2> QED  BY <2>3, <2>4
<1>4. Stored(modular_subtract(s, k))
  <2> DEFINE twos == (v - w) % \o100000
             a == IF twos >= \o40000 THEN twos - 1 ELSE twos
  <2>1. a \in Word
    <3>1. v \in Int /\ w \in Int
      BY <1>1 DEF Word
    <3> HIDE DEF v, w
    <3>2. twos \in Nat /\ twos <= \o77777
      BY <3>1
    <3> HIDE DEF twos
    <3> QED  BY <3>2 DEF Word
  <2>2. modular_subtract(s, k) = [s EXCEPT ![A] = SignExtend(a)]
    BY DEF modular_subtract
  <2> HIDE DEF a
  <2>3. SignExtend(a) \in Register16
    BY <2>1, Extended
  <2>4. Stored([s EXCEPT ![A] = SignExtend(a)])
    BY <1>1, <2>3, Loads
  <2> QED  BY <2>2, <2>4
<1> QED  BY <1>2, <1>3, <1>4

-----------------------------------------------------------------------------
(* Double words: a number that fits is two words of its own sign.          *)
LEMMA DoubleWord ==
  ASSUME NEW n \in Int, -MAX_DOUBLE <= n, n <= MAX_DOUBLE
  PROVE  LET d == double_from_i64(n)
         IN  /\ d.high \in Word /\ d.low \in Word
             /\ to_i32_lossy_zero(d.high) * DoubleBase + to_i32_lossy_zero(d.low) = n
             /\ is_negative(d.high) <=> n < 0
             /\ is_negative(d.low) <=> n < 0
<1> DEFINE m == IF n < 0 THEN -n ELSE n
           h == m \div DoubleBase
           l == m % DoubleBase
           word(v) == IF v = 0 THEN IF n < 0 THEN \o77777 ELSE 0
                      ELSE from_i32(IF n < 0 THEN -v ELSE v)
<1>1. m \in Nat /\ m <= \o1777777777
  BY DEF MAX_DOUBLE, DoubleBase
<1> HIDE DEF m
<1>2. /\ h \in Nat /\ h <= MAX_MAGNITUDE /\ l \in Nat /\ l <= MAX_MAGNITUDE
      /\ m = h * DoubleBase + l
  BY <1>1 DEF MAX_MAGNITUDE, DoubleBase
<1>3. double_from_i64(n) = [high |-> word(h), low |-> word(l)]
  BY DEF double_from_i64, m
<1> HIDE DEF h, l
<1>4. ASSUME NEW v \in Nat, v <= MAX_MAGNITUDE
      PROVE  /\ word(v) \in Word
             /\ to_i32_lossy_zero(word(v)) = IF n < 0 THEN -v ELSE v
             /\ is_negative(word(v)) <=> n < 0
  <2>1. CASE n < 0
    BY <1>4, <2>1 DEF MAX_MAGNITUDE, from_i32, Word, to_i32_lossy_zero, is_negative
  <2>2. CASE ~(n < 0)
    BY <1>4, <2>2 DEF MAX_MAGNITUDE, from_i32, Word, to_i32_lossy_zero, is_negative
  <2> QED  BY <2>1, <2>2
<1> HIDE DEF word
<1>5. /\ word(h) \in Word /\ to_i32_lossy_zero(word(h)) = IF n < 0 THEN -h ELSE h
      /\ is_negative(word(h)) <=> n < 0
      /\ word(l) \in Word /\ to_i32_lossy_zero(word(l)) = IF n < 0 THEN -l ELSE l
      /\ is_negative(word(l)) <=> n < 0
  BY <1>2, <1>4
<1>6. n = IF n < 0 THEN -m ELSE m
  BY DEF m
<1>7. to_i32_lossy_zero(word(h)) * DoubleBase + to_i32_lossy_zero(word(l)) = n
  BY <1>2, <1>5, <1>6 DEF DoubleBase
<1> QED  BY <1>3, <1>5, <1>7

(* Numbers of one word each have a product that fits a double word.        *)
LEMMA Magnitudes ==
  ASSUME NEW w \in Word
  PROVE  /\ to_i32_lossy_zero(w) \in Int
         /\ -MAX_MAGNITUDE <= to_i32_lossy_zero(w) /\ to_i32_lossy_zero(w) <= MAX_MAGNITUDE
         /\ is_zero(w) <=> to_i32_lossy_zero(w) = 0
         /\ to_i32_lossy_zero(w) < 0 => is_negative(w)
         /\ to_i32_lossy_zero(w) > 0 => ~is_negative(w)
  BY DEF Word, to_i32_lossy_zero, is_negative, is_zero, MAX_MAGNITUDE

LEMMA Products ==
  ASSUME NEW x \in Int, NEW y \in Int, -MAX_MAGNITUDE <= x, x <= MAX_MAGNITUDE,
         -MAX_MAGNITUDE <= y, y <= MAX_MAGNITUDE
  PROVE  /\ Size(x) * Size(y) \in Nat /\ Size(x) * Size(y) <= MAX_DOUBLE
         /\ x * y = IF (x < 0) = (y < 0) THEN Size(x) * Size(y) ELSE -(Size(x) * Size(y))
         /\ Size(x) * Size(y) = 0 <=> x = 0 \/ y = 0
<1>1. Size(x) \in Nat /\ Size(y) \in Nat /\ Size(x) <= \o37777 /\ Size(y) <= \o37777
  BY DEF Size, MAX_MAGNITUDE
<1>2. ASSUME NEW a \in Nat, NEW b \in Nat, a <= \o37777, b <= \o37777
      PROVE  a * b \in Nat /\ a * b <= MAX_DOUBLE /\ (a * b = 0 <=> a = 0 \/ b = 0)
  <2>1. a * b \in Nat /\ a * b <= \o37777 * b
    BY <1>2
  <2>2. \o37777 * b <= MAX_DOUBLE
    BY <1>2 DEF MAX_DOUBLE, DoubleBase
  <2>3. a * b = 0 <=> a = 0 \/ b = 0
    OBVIOUS
  <2> QED  BY <2>1, <2>2, <2>3 DEF MAX_DOUBLE, DoubleBase
<1>3. x * y = IF (x < 0) = (y < 0) THEN Size(x) * Size(y) ELSE -(Size(x) * Size(y))
  BY DEF Size
<1>4. Size(x) = 0 <=> x = 0
  BY DEF Size
<1>5. Size(y) = 0 <=> y = 0
  BY DEF Size
<1> QED  BY <1>1, <1>2, <1>3, <1>4, <1>5

(* MP leaves a product of one sign.                                        *)
LEMMA Multiplied ==
  ASSUME NEW s, Stored(s), NEW k \in Places
  PROVE  /\ Stored(MP(s, k))
         /\ AL(MP(s, k)) = to_i32_lossy_zero(aWord(s)) * to_i32_lossy_zero(read_word(s, k))
         /\ is_negative16(MP(s, k)[A]) = is_negative16(MP(s, k)[L])
         /\ ~has_overflow(MP(s, k)[L])
<1> DEFINE a == aWord(s)
           b == read_word(s, k)
           x == to_i32_lossy_zero(a)
           y == to_i32_lossy_zero(b)
           negative == is_negative(a) # is_negative(b)
           size == Size(x) * Size(y)
           product == IF negative THEN -size ELSE size
           d == double_from_i64(product)
           minus == product = 0 /\ negative /\ is_zero(a) /\ ~is_zero(b)
           h == IF minus THEN \o77777 ELSE d.high
           l == IF minus THEN \o77777 ELSE d.low
<1>1. a \in Word /\ b \in Word /\ A \in FullWidth /\ L \in FullWidth /\ A # L
  <2>1. s[A] \in Register16
    BY PlacesNamed DEF Stored
  <2> QED  BY <2>1, Reads, PlacesNamed, Numerals, Corrected DEF aWord
<1>2. MP(s, k) = [s EXCEPT ![A] = SignExtend(h), ![L] = SignExtend(l)]
  <2>1. MP(s, k) = IF minus THEN [s EXCEPT ![A] = SignExtend(\o77777), ![L] = SignExtend(\o77777)]
                   ELSE [s EXCEPT ![A] = SignExtend(d.high), ![L] = SignExtend(d.low)]
    BY DEF MP, Signed
  <2>2. /\ h = IF minus THEN \o77777 ELSE d.high
        /\ l = IF minus THEN \o77777 ELSE d.low
    OBVIOUS
  <2> HIDE DEF minus, d, h, l
  <2>3. CASE minus
    BY <2>1, <2>2, <2>3
  <2>4. CASE ~minus
    BY <2>1, <2>2, <2>4
  <2> QED  BY <2>3, <2>4
<1> HIDE DEF a, b
<1>3. /\ x \in Int /\ y \in Int /\ -MAX_MAGNITUDE <= x /\ x <= MAX_MAGNITUDE
      /\ -MAX_MAGNITUDE <= y /\ y <= MAX_MAGNITUDE
      /\ (is_zero(a) <=> x = 0) /\ (is_zero(b) <=> y = 0)
      /\ (x < 0 => is_negative(a)) /\ (x > 0 => ~is_negative(a))
      /\ (y < 0 => is_negative(b)) /\ (y > 0 => ~is_negative(b))
  BY <1>1, Magnitudes
<1> HIDE DEF x, y
<1>4. /\ size \in Nat /\ size <= MAX_DOUBLE
      /\ x * y = IF (x < 0) = (y < 0) THEN size ELSE -size
      /\ size = 0 <=> x = 0 \/ y = 0
  BY <1>3, Products
<1> HIDE DEF size
<1>5. product \in Int /\ -MAX_DOUBLE <= product /\ product <= MAX_DOUBLE
  BY <1>4 DEF MAX_DOUBLE, DoubleBase
<1>6. product = x * y
  <2>1. CASE size = 0
    BY <1>4, <2>1
  <2>2. CASE size # 0
    <3>1. negative <=> (x < 0) # (y < 0)
      BY <1>1, <1>3, <1>4, <2>2 DEF is_negative, Word
    <3> QED  BY <1>4, <3>1
  <2> QED  BY <2>1, <2>2
<1> HIDE DEF product
<1>7. /\ d.high \in Word /\ d.low \in Word
      /\ to_i32_lossy_zero(d.high) * DoubleBase + to_i32_lossy_zero(d.low) = product
      /\ is_negative(d.high) <=> product < 0
      /\ is_negative(d.low) <=> product < 0
  BY <1>5, DoubleWord
<1> HIDE DEF d
<1>8. /\ h \in Word /\ l \in Word
      /\ to_i32_lossy_zero(h) * DoubleBase + to_i32_lossy_zero(l) = product
      /\ is_negative(h) <=> is_negative(l)
  <2>1. CASE minus
    <3>1. h = \o77777 /\ l = \o77777 /\ product = 0
      BY <2>1
    <3> HIDE DEF h, l
    <3> QED  BY <3>1 DEF Word, to_i32_lossy_zero, is_negative, DoubleBase
  <2>2. CASE ~minus
    BY <1>7, <2>2
  <2> QED  BY <2>1, <2>2
<1> HIDE DEF h, l
<1> DEFINE hh == SignExtend(h)
           ll == SignExtend(l)
           t == [s EXCEPT ![A] = hh]
           u == [t EXCEPT ![L] = ll]
<1>9. /\ hh \in Register16 /\ ll \in Register16 /\ ~has_overflow(ll)
      /\ value16(hh) = to_i32_lossy_zero(h) /\ value16(ll) = to_i32_lossy_zero(l)
  BY <1>8, Extended
<1>10. is_negative16(hh) = is_negative16(ll)
  BY <1>8 DEF is_negative, is_negative16, SignExtend, Word
<1> HIDE DEF hh, ll
<1>11. Stored(t) /\ t[A] = hh
  BY <1>1, <1>9, Loads
<1> HIDE DEF t
<1>12. Stored(u) /\ u[L] = ll /\ \A p \in Places \ {L} : u[p] = t[p]
  BY <1>1, <1>9, <1>11, Loads
<1>13. u[A] = hh
  BY <1>1, <1>11, <1>12, PlacesNamed
<1>14. MP(s, k) = u
  BY <1>2 DEF u, t, hh, ll
<1> HIDE DEF u
<1>15. AL(u) = value16(hh) * DoubleBase + value16(ll)
  BY <1>1, <1>12, <1>13, PlacesNamed DEF AL, Number, read_register_operand
<1> QED  BY <1>6, <1>8, <1>9, <1>10, <1>12, <1>13, <1>14, <1>15 DEF x, y, a, b

-----------------------------------------------------------------------------
(* Division.  The dividend in 30 bits is a word, 14 bits more and the sign *)
(* of the word once again; its number is that of A and L.                  *)
Wide(h, m) == h * \o40000 + m + (h \div \o40000) * \o4000000000
NumberOf(h, m) == IF h >= \o40000 THEN (h - \o77777) * \o40000 + (m - \o37777)
                  ELSE h * \o40000 + m

LEMMA SameSign ==
  ASSUME NEW high \in Word, NEW low \in Register16, ~is_zero(high)
  PROVE  LET d == OneSign(high, low)
         IN  /\ d.high \in Word /\ d.low \in Nat
             /\ ~has_overflow(low) /\ ~(low = \o177777 /\ to_i32_lossy_zero(high) > 0) =>
                  NumberOf(d.high, d.low % \o40000)
                    = to_i32_lossy_zero(high) * \o40000 + value16(low)
<1> DEFINE d == OneSign(high, low)
<1>1. /\ high \in Nat /\ high < \o77777 /\ high > 0 /\ low \in Nat /\ low <= \o177777
      /\ low \div \o40000 \in {0, 1, 2, 3} /\ low % \o40000 \in Nat /\ low % \o40000 < \o40000
      /\ low = (low \div \o40000) * \o40000 + (low % \o40000)
      /\ SignOf(high) = IF high >= \o40000 THEN 1 ELSE 0
      /\ SignOf(low) = IF low \div \o40000 \in {1, 3} THEN 1 ELSE 0
  BY DEF Word, Register16, is_zero, SignOf
<1>2. to_i32_lossy_zero(high) = IF high >= \o40000 THEN high - \o77777 ELSE high
  BY DEF to_i32_lossy_zero, is_negative
<1>3. /\ has_overflow(low) <=> low \div \o40000 \in {1, 2}
      /\ value16(low) = IF low \div \o40000 \in {2, 3} THEN low - \o177777 ELSE low
  BY <1>1 DEF has_overflow, value16, is_negative16
<1>4. CASE SignOf(low) = SignOf(high)
  <2>1. d.high = high /\ d.low = low
    BY <1>4 DEF OneSign
  <2> HIDE DEF d
  <2>2. ~has_overflow(low) =>
          NumberOf(high, low % \o40000) = to_i32_lossy_zero(high) * \o40000 + value16(low)
    BY <1>1, <1>2, <1>3, <1>4 DEF NumberOf
  <2> QED  BY <1>1, <2>1, <2>2 DEF d
<1>5. CASE SignOf(low) # SignOf(high) /\ low \in {0, \o77777}
  <2>1. d.high = high /\ d.low = IF SignOf(high) = 0 THEN 0 ELSE \o77777
    BY <1>5 DEF OneSign
  <2> HIDE DEF d
  <2>2. d.low \in Nat /\ d.low % \o40000 = IF SignOf(high) = 0 THEN 0 ELSE \o37777
    BY <1>1, <2>1
  <2>3. ~has_overflow(low) => low = 0
    BY <1>3, <1>5
  <2>4. ~has_overflow(low) =>
          NumberOf(high, d.low % \o40000) = to_i32_lossy_zero(high) * \o40000 + value16(low)
    BY <1>1, <1>2, <1>3, <1>5, <2>2, <2>3 DEF NumberOf
  <2> QED  BY <2>1, <2>2, <2>4 DEF d
<1>6. CASE SignOf(low) # SignOf(high) /\ low \notin {0, \o77777} /\ SignOf(high) = 0
  <2>1. d.high = high - 1 /\ d.low = (low + \o40001) % \o100000
    BY <1>6 DEF OneSign, Borrowed
  <2> HIDE DEF d
  <2>2. high < \o40000 /\ d.high \in Word /\ d.low \in Nat
    BY <1>1, <1>6, <2>1 DEF Word
  <2>3. ASSUME ~has_overflow(low), low # \o177777
        PROVE  d.low = low - \o137777 /\ d.low < \o40000
    BY <1>1, <1>3, <1>6, <2>1, <2>3
  <2>4. ASSUME ~has_overflow(low), low # \o177777
        PROVE  NumberOf(d.high, d.low % \o40000)
                 = to_i32_lossy_zero(high) * \o40000 + value16(low)
    <3>1. d.low % \o40000 = low - \o137777
      BY <2>2, <2>3, <2>4
    <3> QED  BY <1>1, <1>2, <1>3, <1>6, <2>1, <2>2, <2>3, <2>4, <3>1 DEF NumberOf
  <2>5. to_i32_lossy_zero(high) > 0
    BY <1>1, <1>2, <2>2
  <2> QED  BY <2>2, <2>4, <2>5 DEF d
<1>7. CASE SignOf(low) # SignOf(high) /\ low \notin {0, \o77777} /\ SignOf(high) # 0
  <2>1. /\ d.high = complement(complement(high) - 1)
        /\ d.low = complement((complement(low % \o100000) + \o40001) % \o100000)
    BY <1>7 DEF OneSign, Borrowed
  <2> HIDE DEF d
  <2>2. high >= \o40000 /\ d.high = high + 1 /\ d.high \in Word
    BY <1>1, <1>7, <2>1 DEF Word, complement
  <2>3. d.low \in Nat
    BY <1>1, <2>1 DEF complement
  <2>4. ASSUME ~has_overflow(low)
        PROVE  low < \o40000 /\ d.low = low + \o37777
    <3>1. low \in Nat /\ low > 0 /\ low < \o40000
      BY <1>1, <1>3, <1>7, <2>4
    <3>2. low % \o100000 = low /\ complement(low) = \o77777 - low
      BY <3>1 DEF complement
    <3>3. (complement(low) + \o40001) % \o100000 = \o40000 - low
      BY <3>1, <3>2
    <3> QED  BY <2>1, <3>1, <3>2, <3>3 DEF complement
  <2>5. ASSUME ~has_overflow(low)
        PROVE  NumberOf(d.high, d.low % \o40000)
                 = to_i32_lossy_zero(high) * \o40000 + value16(low)
    <3>1. d.low % \o40000 = low - 1 /\ value16(low) = low
      BY <1>1, <1>3, <1>7, <2>4, <2>5
    <3> QED  BY <1>1, <1>2, <2>2, <3>1 DEF NumberOf
  <2> QED  BY <2>2, <2>3, <2>5 DEF d
<1> QED  BY <1>4, <1>5, <1>6, <1>7

(* What sp_to_decent makes of A and L, told by its word and its 14 bits.   *)
Decent(D, high, low) ==
  \E h \in Word : \E m \in Nat :
    /\ m <= \o37777 /\ D = Wide(h, m)
    /\ ~has_overflow(low) /\ ~(low = \o177777 /\ to_i32_lossy_zero(high) > 0) =>
         NumberOf(h, m) = to_i32_lossy_zero(high) * \o40000 + value16(low)

LEMMA Decents ==
  ASSUME NEW high \in Word, NEW low \in Register16
  PROVE  Decent(sp_to_decent(high, low), high, low)
<1>1. CASE is_zero(high)
  <2> DEFINE w == low % \o100000
             alone == SignExtend(w)
  <2>1. /\ low \in Nat /\ low <= \o177777 /\ w \in Nat /\ w < \o100000 /\ w \in Word
        /\ low = (low \div \o100000) * \o100000 + w /\ low \div \o100000 \in {0, 1}
    BY DEF Register16, Word
  <2>2. to_i32_lossy_zero(high) = 0
    BY <1>1 DEF is_zero, to_i32_lossy_zero, is_negative
  <2>3. sp_to_decent(high, low)
          = IF is_negative16(alone) THEN \o10000000000 - \o200000 + alone ELSE alone
    BY <1>1 DEF sp_to_decent, is_zero
  <2>4. alone = IF w >= \o40000 THEN w + \o100000 ELSE w
    <3> HIDE DEF w
    <3> QED  BY <2>1 DEF SignExtend
  <2>5. is_negative16(alone) <=> w >= \o40000
    <3> HIDE DEF w
    <3> QED  BY <2>1, <2>4 DEF is_negative16
  <2>6. ~has_overflow(low) => value16(low) = IF w >= \o40000 THEN w - \o77777 ELSE w
    <3> HIDE DEF w
    <3> QED  BY <2>1 DEF has_overflow, value16, is_negative16
  <2> HIDE DEF w, alone
  <2>7. CASE w >= \o40000
    <3>1. /\ \o77777 \in Word /\ w - \o40000 \in Nat /\ w - \o40000 <= \o37777
          /\ sp_to_decent(high, low) = Wide(\o77777, w - \o40000)
      BY <2>1, <2>3, <2>4, <2>5, <2>7 DEF Wide, Word
    <3>2. ~has_overflow(low) =>
            NumberOf(\o77777, w - \o40000) = to_i32_lossy_zero(high) * \o40000 + value16(low)
      BY <2>1, <2>2, <2>6, <2>7 DEF NumberOf
    <3> QED  BY ONLY <3>1, <3>2 DEF Decent
  <2>8. CASE ~(w >= \o40000)
    <3>1. /\ 0 \in Word /\ w \in Nat /\ w <= \o37777
          /\ sp_to_decent(high, low) = Wide(0, w)
      BY <2>1, <2>3, <2>4, <2>5, <2>8 DEF Wide, Word
    <3>2. ~has_overflow(low) =>
            NumberOf(0, w) = to_i32_lossy_zero(high) * \o40000 + value16(low)
      BY <2>1, <2>2, <2>6, <2>8 DEF NumberOf
    <3> QED  BY ONLY <3>1, <3>2 DEF Decent
  <2> QED  BY <2>7, <2>8
<1>2. CASE ~is_zero(high)
  <2> DEFINE d == OneSign(high, low)
             m == d.low % \o40000
  <2>1. /\ d.high \in Word /\ d.low \in Nat
        /\ ~has_overflow(low) /\ ~(low = \o177777 /\ to_i32_lossy_zero(high) > 0) =>
             NumberOf(d.high, m) = to_i32_lossy_zero(high) * \o40000 + value16(low)
    BY <1>2, SameSign
  <2>2. sp_to_decent(high, low)
          = (d.high * DoubleBase) + (d.low % DoubleBase) + (d.high \div DoubleBase) * \o4000000000
    BY <1>2 DEF sp_to_decent, is_zero
  <2> HIDE DEF d
  <2>3. m \in Nat /\ m <= \o37777
    BY <2>1
  <2>4. sp_to_decent(high, low) = Wide(d.high, m)
    BY <2>2 DEF Wide, DoubleBase
  <2> HIDE DEF m
  <2> QED  BY <2>1, <2>3, <2>4 DEF Decent
<1> QED  BY <1>1, <1>2

LEMMA Parts ==
  ASSUME NEW h \in Word, NEW m \in Nat, m <= \o37777
  PROVE  LET D == Wide(h, m)
             low == (D % \o40000) + ((D \div \o4000000000) % 2) * \o40000
         IN  /\ OverflowCorrect((D \div DoubleBase) % \o200000) = h
             /\ low \in Word /\ SignOf(low) = (IF h >= \o40000 THEN 1 ELSE 0)
             /\ absolute_sp(h) = Size(to_i32_lossy_zero(h))
             /\ agc_double_to_i64(D) = NumberOf(h, m)
             /\ NumberOf(h, m) \in Int
             /\ Size(NumberOf(h, m)) = absolute_sp(h) * \o40000 + absolute_sp(low)
             /\ absolute_sp(low) \in Nat /\ absolute_sp(low) < \o40000
             /\ NumberOf(h, m) < 0 => h >= \o40000
             /\ NumberOf(h, m) > 0 => h < \o40000
<1> DEFINE e == h \div \o40000
           g == h % \o40000
           D == Wide(h, m)
           low == (D % \o40000) + ((D \div \o4000000000) % 2) * \o40000
<1>1. /\ h \in Nat /\ h <= \o77777 /\ e \in {0, 1} /\ g \in Nat /\ g < \o40000
      /\ h = e * \o40000 + g /\ (e = 1 <=> h >= \o40000)
  BY DEF Word
<1> HIDE DEF e, g
<1>2. /\ D \in Nat /\ D = e * \o6000000000 + g * \o40000 + m
      /\ g * \o40000 + m \in Nat /\ g * \o40000 + m < \o2000000000
  BY <1>1 DEF Wide
<1> HIDE DEF D
<1>3. /\ D % \o40000 = m /\ D \div \o40000 = e * \o140000 + g
      /\ D \div \o4000000000 = e
      /\ D % \o2000000000 = g * \o40000 + m /\ D \div \o2000000000 = 3 * e
  <2>1. CASE e = 0
    BY <1>1, <1>2, <2>1
  <2>2. CASE e = 1
    BY <1>1, <1>2, <2>2
  <2> QED  BY <1>1, <2>1, <2>2
<1>4. low = m + e * \o40000
  BY <1>1, <1>3
<1> HIDE DEF low
<1>5. OverflowCorrect((D \div DoubleBase) % \o200000) = h
  <2>1. (D \div DoubleBase) % \o200000 = e * \o140000 + g
    BY <1>1, <1>3 DEF DoubleBase
  <2>2. (e * \o140000 + g) % \o40000 = g /\ (e * \o140000 + g) \div \o100000 = e
    BY <1>1
  <2> QED  BY <1>1, <2>1, <2>2 DEF OverflowCorrect
<1>6. low \in Word /\ SignOf(low) = IF h >= \o40000 THEN 1 ELSE 0
  BY <1>1, <1>4 DEF Word, SignOf
<1>7. absolute_sp(h) = Size(to_i32_lossy_zero(h)) /\ absolute_sp(h) = IF e = 1 THEN \o37777 - g ELSE g
  BY <1>1 DEF absolute_sp, Size, to_i32_lossy_zero, is_negative, complement
<1>8. absolute_sp(low) = IF e = 1 THEN \o37777 - m ELSE m
  BY <1>1, <1>4 DEF absolute_sp, complement
<1>9. agc_double_to_i64(D) = g * \o40000 + m - e * \o1777777777
  BY <1>1, <1>3 DEF agc_double_to_i64, MAX_DOUBLE, DoubleBase
<1>10. NumberOf(h, m) = g * \o40000 + m - e * \o1777777777
  BY <1>1 DEF NumberOf
<1> DEFINE n == g * \o40000 + m - e * \o1777777777
<1>11. /\ n \in Int
       /\ Size(n) = IF e = 1 THEN (\o37777 - g) * \o40000 + (\o37777 - m) ELSE g * \o40000 + m
       /\ n < 0 => e = 1
       /\ n > 0 => e = 0
  <2>1. CASE e = 0
    BY <1>1, <1>2, <2>1 DEF Size
  <2>2. CASE e = 1
    BY <1>1, <1>2, <2>2 DEF Size
  <2> QED  BY <1>1, <2>1, <2>2
<1>12. absolute_sp(low) \in Nat /\ absolute_sp(low) < \o40000
  BY <1>8
<1> HIDE DEF n
<1>13. NumberOf(h, m) = n /\ agc_double_to_i64(D) = NumberOf(h, m)
  BY <1>9, <1>10 DEF n
<1>14. Size(n) = absolute_sp(h) * \o40000 + absolute_sp(low)
  BY <1>1, <1>7, <1>8, <1>11
<1>15. (n < 0 => h >= \o40000) /\ (n > 0 => h < \o40000)
  BY <1>1, <1>11
<1> QED  BY ONLY <1>5, <1>6, <1>7, <1>11, <1>12, <1>13, <1>14, <1>15 DEF D, low

LEMMA Quotients ==
  ASSUME NEW n \in Nat, NEW k \in Nat, k > 0
  PROVE  /\ n \div k \in Nat /\ n % k \in Nat /\ n % k < k
         /\ n = k * (n \div k) + (n % k)
         /\ n < k * \o40000 => n \div k < \o40000
<1>1. n \div k \in Int /\ n % k \in Nat /\ n % k < k /\ n = k * (n \div k) + (n % k)
  OBVIOUS
<1> DEFINE q == n \div k
           r == n % k
<1> HIDE DEF q, r
<1>2. q \in Nat
  <2>1. CASE q < 0
    <3>1. k * q <= k * (-1)
      BY <1>1, <2>1 DEF q
    <3> QED  BY <1>1, <3>1 DEF q, r
  <2> QED  BY <1>1, <2>1 DEF q
<1>3. ASSUME n < k * \o40000  PROVE q < \o40000
  <2>1. CASE q >= \o40000
    <3>1. k * q >= k * \o40000
      BY <1>2, <2>1
    <3> QED  BY <1>1, <1>3, <3>1 DEF q, r
  <2> QED  BY <1>2, <2>1
<1> QED  BY <1>1, <1>2, <1>3 DEF q

(* The trial subtractions stay within sixteen bits.                        *)
Trying(state) == state.quotient \in Register16 /\ state.remainder \in Register16

LEMMA Shifted ==
  ASSUME NEW r \in Register16, NEW b \in {0, 1}
  PROVE  Doubled(r) \in Register16 /\ Doubled(r) + b \in Register16
<1>1. r \in Nat /\ r <= \o177777 /\ r \div \o100000 \in {0, 1}
      /\ r % \o40000 \in Nat /\ r % \o40000 <= \o37777
  BY DEF Register16
<1> QED  BY <1>1 DEF Doubled, Register16

LEMMA Tried ==
  ASSUME NEW divisor \in Register16, NEW state, Trying(state)
  PROVE  Trying(Trial(divisor, state))
<1> DEFINE q == (2 * state.quotient) % \o200000
           b == IF is_negative16(q) THEN 0 ELSE state.remainder \div \o100000
           r == Doubled(state.remainder) + b
           sum == AddRegister(r, divisor)
<1>1. q \in Register16 /\ q + 1 \in Register16
  BY DEF Trying, Register16
<1>2. b \in {0, 1}
  BY DEF Trying, Register16
<1> HIDE DEF q, b
<1>3. r \in Register16
  BY <1>2, Shifted DEF Trying
<1> HIDE DEF r
<1>4. sum \in Register16
  BY <1>3, Closed
<1> HIDE DEF sum
<1>5. Trial(divisor, state) = IF is_negative16(sum) THEN [quotient |-> q + 1, remainder |-> sum]
                              ELSE [quotient |-> q, remainder |-> r]
  BY DEF Trial, q, b, r, sum
<1> QED  BY <1>1, <1>3, <1>4, <1>5 DEF Trying

LEMMA TriedFourteen ==
  ASSUME NEW divisor \in Register16, NEW state, Trying(state)
  PROVE  Trying(Fourteen(divisor, state))
<1>1. ASSUME NEW x, Trying(x)  PROVE Trying(Two(divisor, x))
  <2> DEFINE y == Trial(divisor, x)
  <2>1. Trying(y)
    BY <1>1, Tried
  <2> HIDE DEF y
  <2> QED  BY <2>1, Tried DEF Two, y
<1>2. ASSUME NEW x, Trying(x)  PROVE Trying(Six(divisor, x))
  <2> DEFINE y == Two(divisor, x)
             z == Two(divisor, y)
  <2>1. Trying(y)
    BY <1>1, <1>2
  <2> HIDE DEF y
  <2>2. Trying(z)
    BY <1>1, <2>1
  <2> HIDE DEF z
  <2> QED  BY <1>1, <2>2 DEF Six, y, z
<1> DEFINE y == Six(divisor, state)
           z == Six(divisor, y)
<1>3. Trying(y)
  BY <1>2
<1> HIDE DEF y
<1>4. Trying(z)
  BY <1>2, <1>3
<1> HIDE DEF z
<1> QED  BY <1>1, <1>4 DEF Fourteen, y, z

LEMMA Simulated ==
  ASSUME NEW a \in Register16, NEW l \in Register16, NEW divisor \in Register16
  PROVE  /\ simulate_divide(a, l, divisor).A \in Register16
         /\ simulate_divide(a, l, divisor).L \in Register16
<1>1. ASSUME NEW x \in Register16  PROVE Complement16(x) \in Register16
  BY <1>1, Closed
<1>2. ASSUME NEW x \in Register16, NEW y \in Register16  PROVE AddRegister(x, y) \in Register16
  BY <1>2 DEF AddRegister, Register16
<1> DEFINE down == IF is_negative16(a) THEN a ELSE Complement16(a)
           dividendNegative == is_negative16(IF down = \o177777 THEN l ELSE a)
           m == IF dividendNegative THEN Complement16(l) ELSE l
           biased == AddRegister(m, \o40000)
           first == IF overflow_sign(biased) = 1 THEN down ELSE AddRegister(down, One)
           size == IF is_negative16(divisor) THEN Complement16(divisor) ELSE divisor
           quotientSign == (biased \div \o100000) * \o100000
           before == [quotient |-> Doubled(biased) + quotientSign \div \o100000,
                      remainder |-> first]
           after == Fourteen(size, before)
           q == quotientSign + (after.quotient % \o100000)
           r == after.remainder
<1>3. down \in Register16 /\ m \in Register16 /\ size \in Register16 /\ \o40000 \in Register16
  BY <1>1 DEF Register16
<1> HIDE DEF down, m, size
<1>4. biased \in Register16
  BY <1>2, <1>3
<1> HIDE DEF biased
<1>5. first \in Register16
  BY <1>2, <1>3, Numerals
<1> HIDE DEF first
<1>6. quotientSign \in {0, \o100000} /\ quotientSign \div \o100000 \in {0, 1}
  BY <1>4 DEF Register16
<1> DEFINE b == quotientSign \div \o100000
<1> HIDE DEF quotientSign
<1>7. Doubled(biased) + b \in Register16
  BY <1>4, <1>6, Shifted
<1>8. Trying(before)
  BY <1>5, <1>7 DEF Trying
<1> HIDE DEF before
<1>9. Trying(after)
  BY <1>3, <1>8, TriedFourteen
<1> HIDE DEF after
<1>10. q \in Register16 /\ r \in Register16
  <2> DEFINE x == after.quotient % \o100000
  <2>1. x \in Nat /\ x <= \o77777 /\ r \in Register16
    BY <1>9 DEF Trying, Register16
  <2> HIDE DEF x
  <2>2. quotientSign + x \in Register16
    BY <1>6, <2>1 DEF Register16
  <2> QED  BY <2>1, <2>2 DEF x
<1> HIDE DEF q, r
<1>11. simulate_divide(a, l, divisor)
         = [A |-> IF dividendNegative = is_negative16(divisor) THEN q ELSE Complement16(q),
            L |-> IF dividendNegative THEN r ELSE Complement16(r)]
  BY DEF simulate_divide, q, r, after, before, quotientSign, first, biased, size, m, down
<1> QED  BY <1>1, <1>10, <1>11

(* Host division of signed numbers, as DV uses it.                         *)
LEMMA Divisions ==
  ASSUME NEW d \in Int, NEW n \in Int, Size(n) <= \o37777, Size(d) < Size(n) * \o40000
  PROVE  LET q == Signed(Size(d) \div Size(n), (d < 0) # (n < 0))
             r == Signed(Size(d) % Size(n), d < 0)
         IN  /\ q \in Int /\ Representable(q) /\ r \in Int /\ Representable(r)
             /\ q * n + r = d /\ Size(r) < Size(n)
             /\ r # 0 => (r < 0 <=> d < 0)
<1> DEFINE x == Size(d)
           y == Size(n)
           p == x \div y
           t == x % y
           q == Signed(p, (d < 0) # (n < 0))
           r == Signed(t, d < 0)
<1>1. /\ x \in Nat /\ y \in Nat /\ x < y * \o40000 /\ y <= \o37777
      /\ d = (IF d < 0 THEN -x ELSE x) /\ n = (IF n < 0 THEN -y ELSE y)
  BY DEF Size
<1> HIDE DEF x, y
<1>2. y > 0
  BY <1>1
<1>3. p \in Nat /\ t \in Nat /\ t < y /\ x = y * p + t /\ p < \o40000
  BY ONLY <1>1, <1>2, Quotients
<1> HIDE DEF p, t
<1>4. /\ q \in Int /\ Representable(q) /\ r \in Int /\ Representable(r)
      /\ Size(r) = t /\ (r # 0 => (r < 0 <=> d < 0))
  BY <1>1, <1>3 DEF Signed, Representable, MAX_MAGNITUDE, Size
<1>5. /\ y * (-p) = -(y * p) /\ (-y) * (-p) = y * p /\ (-y) * p = -(y * p)
      /\ p * y = y * p /\ p * (-y) = -(y * p) /\ (-p) * y = -(y * p) /\ (-p) * (-y) = y * p
  BY <1>1, <1>3
<1>6. q * n + r = d
  <2>1. CASE d < 0 /\ n < 0
    BY <1>1, <1>3, <1>5, <2>1 DEF Signed
  <2>2. CASE d < 0 /\ ~(n < 0)
    BY <1>1, <1>3, <1>5, <2>2 DEF Signed
  <2>3. CASE ~(d < 0) /\ n < 0
    BY <1>1, <1>3, <1>5, <2>3 DEF Signed
  <2>4. CASE ~(d < 0) /\ ~(n < 0)
    BY <1>1, <1>3, <1>5, <2>4 DEF Signed
  <2> QED  BY <2>1, <2>2, <2>3, <2>4
<1> HIDE DEF q, r
<1> QED  BY <1>3, <1>4, <1>6 DEF q, r, p, t, x, y

LEMMA Written ==
  ASSUME NEW n \in Int, Representable(n)
  PROVE  from_i32(n) \in Word /\ to_i32_lossy_zero(from_i32(n)) = n
  BY DEF Representable, MAX_MAGNITUDE, from_i32, to_i32_lossy_zero, is_negative, Word

LEMMA Divisors ==
  ASSUME NEW s, Stored(s), NEW k \in Places, NEW aIsZero
  PROVE  /\ Divisor(s, k, aIsZero) \in Register16
         /\ k \in Cells => Divisor(s, k, aIsZero) = SignExtend(s[k]) /\ s[k] \in Word
<1>1. s[A] \in Register16 /\ s[L] \in Register16 /\ s[Z] \in Code!Address
  BY PlacesNamed DEF Stored
<1>2. ASSUME NEW x \in Register16  PROVE Complement16(x) \in Register16
  BY <1>2, Closed
<1>3. ASSUME NEW x \in Register16
      PROVE  Normal(AddRegister(x, \o40000)) \in Register16
  <2> DEFINE y == AddRegister(x, \o40000)
  <2>1. y \in Register16
    BY <1>3 DEF AddRegister, Register16
  <2> HIDE DEF y
  <2> QED  BY <2>1, Corrected DEF y
<1>4. s[Z] \in Register16 /\ s[Z] + \o100000 \in Register16 /\ s[Z] + 0 \in Register16
  <2> DEFINE z == s[Z]
  <2>1. \A x \in Code!Address : x \in Nat /\ x <= \o7777
    BY DEF Code!Address, Code!LastAddress
  <2> HIDE DEF z
  <2>2. z \in Nat /\ z <= \o7777
    BY <1>1, <2>1 DEF z
  <2>3. z \in Register16 /\ z + \o100000 \in Register16 /\ z + 0 \in Register16
    BY <2>2 DEF Register16
  <2> QED  BY <2>3 DEF z
<1>5. Divisor(s, k, aIsZero) \in Register16
  <2>1. CASE k = A
    BY <1>1, <1>2, <2>1 DEF Divisor
  <2>2. CASE k = L
    <3>1. L # A
      BY DEF L, A
    <3> QED  BY <1>1, <1>2, <1>3, <2>2, <3>1 DEF Divisor
  <2>3. CASE k = Z
    <3>1. Z # A /\ Z # L
      BY DEF L, A, Z
    <3> QED  BY <1>4, <2>3, <3>1 DEF Divisor
  <2>4. CASE k \notin {A, L, Z}
    BY <2>4, Reads DEF Divisor
  <2> QED  BY <2>1, <2>2, <2>3, <2>4
<1>6. ASSUME k \in Cells
      PROVE  Divisor(s, k, aIsZero) = SignExtend(s[k]) /\ s[k] \in Word
  <2>1. k \notin {A, L, Z, ZERO} /\ k \notin FullWidth
    BY <1>6, PlacesNamed
  <2> QED  BY <2>1 DEF Divisor, read_register_operand, Stored
<1> QED  BY <1>5, <1>6

(* DV gives registers, never a quotient out of range, and, where a cell is *)
(* larger than the dividend's high word, the quotient and the remainder.   *)
DividedExactly(s, k, a, l) ==
  LET dividend == to_i32_lossy_zero(aWord(s)) * \o40000 + value16(s[L])
      n == to_i32_lossy_zero(s[k])
  IN  (/\ k \in Cells /\ ~has_overflow(s[L]) /\ Size(dividend) < Size(n) * \o40000
       /\ ~(s[L] = \o177777 /\ to_i32_lossy_zero(aWord(s)) > 0)) =>
        /\ value16(a) * n + value16(l) = dividend
        /\ Size(value16(l)) < Size(n)
        /\ value16(l) # 0 => (value16(l) < 0 <=> dividend < 0)
        /\ ~has_overflow(l)

LEMMA DividedSoundly ==
  ASSUME NEW s, Stored(s), NEW k \in Places
  PROVE  /\ Divided(s, k).A \in Register16 /\ Divided(s, k).L \in Register16
         /\ Divided(s, k).ok
         /\ DividedExactly(s, k, Divided(s, k).A, Divided(s, k).L)
<1> DEFINE a == aWord(s)
           l == s[L]
           D == sp_to_decent(a, l)
           low == (D % \o40000) + ((D \div \o4000000000) % 2) * \o40000
           high == OverflowCorrect((D \div DoubleBase) % \o200000)
           absA == absolute_sp(high)
           absL == absolute_sp(low)
           divisor == Divisor(s, k, absA = 0)
           word == OverflowCorrect(divisor)
           absK == absolute_sp(word)
           dividend == agc_double_to_i64(D)
           n == to_i32_lossy_zero(word)
           quotient == Signed(Size(dividend) \div Size(n), (dividend < 0) # (n < 0))
           remainder == Signed(Size(dividend) % Size(n), dividend < 0)
           leaves(x, y) == [A |-> SignExtend(x), L |-> y, ok |-> TRUE]
           simulated == simulate_divide(s[A], s[L], divisor)
           largest(positive) == IF positive THEN \o37777 ELSE \o40000
           number == to_i32_lossy_zero(a) * \o40000 + value16(l)
           told == ~has_overflow(l) /\ ~(l = \o177777 /\ to_i32_lossy_zero(a) > 0)
<1>1. s[A] \in Register16 /\ l \in Register16
  BY PlacesNamed DEF Stored
<1>2. a \in Word
  BY <1>1, Corrected DEF aWord
<1>3. Divided(s, k)
        = IF absA > absK \/ (absA = absK /\ absL # 0) \/ has_overflow(divisor)
          THEN [A |-> simulated.A, L |-> simulated.L, ok |-> TRUE]
          ELSE IF absA = 0 /\ absL = 0
          THEN leaves(IF absK = 0 THEN largest(SignOf(low) = SignOf(word))
                      ELSE IF SignOf(low) = SignOf(word) THEN 0 ELSE \o77777, l)
          ELSE IF absA = absK
          THEN leaves(largest(high = word), SignExtend(high))
          ELSE IF ~Representable(quotient) THEN [A |-> s[A], L |-> s[L], ok |-> FALSE]
          ELSE leaves(from_i32(quotient),
                      SignExtend(IF remainder = 0 /\ dividend < 0 THEN \o77777
                                 ELSE from_i32(remainder)))
  BY DEF Divided
<1>4. Decent(D, a, l)
  <2> HIDE DEF a, l
  <2> QED  BY <1>1, <1>2, Decents
<1>5. /\ high \in Word /\ absA \in Nat /\ absA <= \o37777 /\ absL \in Nat /\ absL < \o40000
      /\ dividend \in Int /\ Size(dividend) = absA * \o40000 + absL
      /\ told => dividend = number
  <2> HIDE DEF a, l, D
  <2>1. PICK h \in Word : \E m \in Nat :
          /\ m <= \o37777 /\ D = Wide(h, m)
          /\ ~has_overflow(l) /\ ~(l = \o177777 /\ to_i32_lossy_zero(a) > 0) =>
               NumberOf(h, m) = to_i32_lossy_zero(a) * \o40000 + value16(l)
    BY <1>4 DEF Decent
  <2>2. PICK m \in Nat :
          /\ m <= \o37777 /\ D = Wide(h, m)
          /\ ~has_overflow(l) /\ ~(l = \o177777 /\ to_i32_lossy_zero(a) > 0) =>
               NumberOf(h, m) = to_i32_lossy_zero(a) * \o40000 + value16(l)
    BY <2>1
  <2>3. /\ high = h /\ absolute_sp(h) = Size(to_i32_lossy_zero(h))
        /\ dividend = NumberOf(h, m) /\ NumberOf(h, m) \in Int
        /\ Size(NumberOf(h, m)) = absolute_sp(h) * \o40000 + absolute_sp(low)
        /\ absolute_sp(low) \in Nat /\ absolute_sp(low) < \o40000
    BY <2>2, Parts
  <2>4. absolute_sp(h) \in Nat /\ absolute_sp(h) <= \o37777
    BY <2>3, Magnitudes DEF Size, MAX_MAGNITUDE
  <2> HIDE DEF high, low, dividend
  <2> QED  BY <2>2, <2>3, <2>4
<1> HIDE DEF D, dividend, absL, low
<1>6. divisor \in Register16 /\ (k \in Cells => divisor = SignExtend(s[k]) /\ s[k] \in Word)
  <2> DEFINE b == absA = 0
  <2> HIDE DEF b
  <2>1. /\ Divisor(s, k, b) \in Register16
        /\ k \in Cells => Divisor(s, k, b) = SignExtend(s[k]) /\ s[k] \in Word
    BY Divisors
  <2> QED  BY <2>1 DEF b
<1> HIDE DEF divisor, absA, high
<1>7. word \in Word
  BY <1>6, Corrected
<1>8. k \in Cells => ~has_overflow(divisor) /\ word = s[k]
  BY <1>6, Extended
<1> HIDE DEF word
<1>9. absK = Size(n) /\ n \in Int /\ absK <= \o37777 /\ absK \in Nat
  <2>1. n \in Int /\ -MAX_MAGNITUDE <= n /\ n <= MAX_MAGNITUDE
    BY <1>7, Magnitudes
  <2>2. absK = Size(n)
    BY <1>7 DEF absolute_sp, Size, to_i32_lossy_zero, is_negative, complement, Word
  <2> HIDE DEF n
  <2> QED  BY <2>1, <2>2 DEF Size, MAX_MAGNITUDE
<1> HIDE DEF absK, n
<1> DEFINE d == Divided(s, k)
           Goal == /\ d.A \in Register16 /\ d.L \in Register16 /\ d.ok
                   /\ DividedExactly(s, k, d.A, d.L)
<1>10. ASSUME k \in Cells, told, Size(number) < Size(to_i32_lossy_zero(s[k])) * \o40000
       PROVE  /\ absA < absK /\ ~has_overflow(divisor) /\ dividend = number
              /\ n = to_i32_lossy_zero(s[k])
  BY <1>5, <1>8, <1>9, <1>10 DEF n
<1> HIDE DEF a, l
<1> DEFINE Sized == k \in Cells /\ told /\ Size(number) < Size(to_i32_lossy_zero(s[k])) * \o40000
<1>11. DividedExactly(s, k, d.A, d.L) <=>
         (Sized => /\ value16(d.A) * to_i32_lossy_zero(s[k]) + value16(d.L) = number
                   /\ Size(value16(d.L)) < Size(to_i32_lossy_zero(s[k]))
                   /\ value16(d.L) # 0 => (value16(d.L) < 0 <=> number < 0)
                   /\ ~has_overflow(d.L))
  BY DEF DividedExactly, a, l
<1> SUFFICES Goal
  OBVIOUS
<1> HIDE DEF d, Sized
<1>12. CASE absA > absK \/ (absA = absK /\ absL # 0) \/ has_overflow(divisor)
  <2>1. d = [A |-> simulated.A, L |-> simulated.L, ok |-> TRUE]
    BY <1>3, <1>12 DEF d
  <2>2. simulated.A \in Register16 /\ simulated.L \in Register16
    BY <1>1, <1>6, Simulated DEF l
  <2> HIDE DEF simulated
  <2>3. ~Sized
    BY <1>5, <1>9, <1>10, <1>12 DEF Sized
  <2>4. d.A \in Register16 /\ d.L \in Register16 /\ d.ok
    BY <2>1, <2>2
  <2> QED  BY ONLY <1>11, <2>3, <2>4
<1>13. CASE ~(absA > absK \/ (absA = absK /\ absL # 0) \/ has_overflow(divisor))
            /\ absA = 0 /\ absL = 0
  <2> DEFINE w == IF absK = 0 THEN largest(SignOf(low) = SignOf(word))
                  ELSE IF SignOf(low) = SignOf(word) THEN 0 ELSE \o77777
  <2>1. d = leaves(w, l)
    BY <1>3, <1>13 DEF d
  <2>2. w \in Word /\ (absK # 0 => to_i32_lossy_zero(w) = 0)
    BY DEF Word, to_i32_lossy_zero, is_negative
  <2> HIDE DEF w
  <2>3. d.A = SignExtend(w) /\ d.L = l /\ d.ok
    BY <2>1
  <2>4. d.A \in Register16 /\ value16(d.A) = to_i32_lossy_zero(w)
    BY <2>2, <2>3, Extended
  <2>5. ASSUME Sized
        PROVE  /\ value16(d.A) = 0 /\ value16(d.L) = 0 /\ number = 0 /\ n # 0
               /\ ~has_overflow(d.L) /\ n = to_i32_lossy_zero(s[k]) /\ n \in Int
    <3>1. absA < absK /\ dividend = number /\ n = to_i32_lossy_zero(s[k]) /\ ~has_overflow(l)
      BY <1>10, <2>5 DEF Sized
    <3>2. value16(d.A) = 0 /\ n # 0
      BY <1>5, <1>9, <2>2, <2>4, <3>1 DEF Size
    <3>3. number = 0
      BY <1>5, <1>13, <3>1 DEF Size
    <3>4. to_i32_lossy_zero(a) \in Int /\ value16(l) \in Int
          /\ -\o40000 < value16(l) /\ value16(l) < \o40000
      BY <1>1, <1>2, <3>1, Magnitudes DEF value16, is_negative16, has_overflow, Register16
    <3>5. value16(l) = 0
      BY <3>3, <3>4
    <3> QED  BY <1>9, <2>3, <3>1, <3>2, <3>3, <3>5
  <2>6. DividedExactly(s, k, d.A, d.L)
    <3> SUFFICES ASSUME Sized
                 PROVE  /\ value16(d.A) * to_i32_lossy_zero(s[k]) + value16(d.L) = number
                        /\ Size(value16(d.L)) < Size(to_i32_lossy_zero(s[k]))
                        /\ value16(d.L) # 0 => (value16(d.L) < 0 <=> number < 0)
                        /\ ~has_overflow(d.L)
      BY <1>11
    <3> HIDE DEF number
    <3> QED  BY <2>5 DEF Size
  <2> QED  BY ONLY <1>1, <2>3, <2>4, <2>6
<1>14. CASE ~(absA > absK \/ (absA = absK /\ absL # 0) \/ has_overflow(divisor))
            /\ ~(absA = 0 /\ absL = 0) /\ absA = absK
  <2>1. d = leaves(largest(high = word), SignExtend(high))
    BY <1>3, <1>14 DEF d
  <2>2. \o37777 \in Word /\ \o40000 \in Word
    BY DEF Word
  <2>3. d.A \in Register16 /\ d.L \in Register16 /\ d.ok
    BY <1>5, <2>1, <2>2, Extended
  <2>4. ~Sized
    BY <1>5, <1>9, <1>10, <1>14 DEF Sized
  <2> QED  BY ONLY <1>11, <2>3, <2>4
<1>15. CASE ~(absA > absK \/ (absA = absK /\ absL # 0) \/ has_overflow(divisor))
            /\ ~(absA = 0 /\ absL = 0) /\ absA # absK
  <2>1. Size(dividend) < Size(n) * \o40000
    BY <1>5, <1>9, <1>15
  <2>2. /\ quotient \in Int /\ Representable(quotient)
        /\ remainder \in Int /\ Representable(remainder)
        /\ quotient * n + remainder = dividend /\ Size(remainder) < Size(n)
        /\ remainder # 0 => (remainder < 0 <=> dividend < 0)
    BY <1>5, <1>9, <2>1, Divisions
  <2> HIDE DEF quotient, remainder
  <2> DEFINE q == from_i32(quotient)
             r == IF remainder = 0 /\ dividend < 0 THEN \o77777 ELSE from_i32(remainder)
  <2>3. q \in Word /\ to_i32_lossy_zero(q) = quotient
    BY <2>2, Written
  <2>4. r \in Word /\ to_i32_lossy_zero(r) = remainder
    <3>1. CASE remainder = 0 /\ dividend < 0
      <4>1. \o77777 \in Word /\ to_i32_lossy_zero(\o77777) = 0
        BY DEF Word, to_i32_lossy_zero, is_negative
      <4> QED  BY <3>1, <4>1
    <3>2. CASE ~(remainder = 0 /\ dividend < 0)
      BY <2>2, <3>2, Written
    <3> QED  BY <3>1, <3>2
  <2>5. d = leaves(q, SignExtend(r))
    BY <1>3, <1>15, <2>2 DEF d
  <2> HIDE DEF q, r
  <2>6. /\ d.A = SignExtend(q) /\ d.L = SignExtend(r) /\ d.ok
    BY <2>5
  <2>7. /\ d.A \in Register16 /\ d.L \in Register16 /\ ~has_overflow(d.L)
        /\ value16(d.A) = quotient /\ value16(d.L) = remainder
    BY <2>3, <2>4, <2>6, Extended
  <2>8. Sized => dividend = number /\ n = to_i32_lossy_zero(s[k])
    BY <1>10 DEF Sized
  <2> HIDE DEF number
  <2> QED  BY ONLY <1>11, <2>2, <2>6, <2>7, <2>8
<1> QED  BY <1>12, <1>13, <1>14, <1>15

-----------------------------------------------------------------------------
(* Representations: the store of every state, the channels and the traps.  *)
Represented ==
  /\ Stored(store) /\ ~has_overflow(store[L])
  /\ channels \in [Channels -> Word]
  /\ armed \subseteq DOMAIN TrapBits

LEMMA StartRepresented == Init => Represented
<1> SUFFICES ASSUME Init  PROVE Represented
  OBVIOUS
<1>1. PICK a \in FirstRegisters, l \in FirstWords, q \in FirstQ, c \in [Cells -> FirstWords] :
        store = Contents(a, l, q, c)
  BY DEF Init
<1>2. PICK w \in FirstChannels : channels = [c1 \in Channels |-> w]
  BY DEF Init
<1>3. a \in Register16 /\ l \in Word /\ q \in Register16 /\ w \in Word
      /\ (\A p \in Cells : c[p] \in Word) /\ FirstAddress \in Code!Address
  BY ArithmeticAssumption
<1>4. SignExtend(l) \in Register16 /\ ~has_overflow(SignExtend(l))
  BY <1>3, Extended
<1>5. /\ A \in Places /\ L \in Places /\ Q \in Places /\ Z \in Places /\ ZERO \in Places
      /\ A # L /\ A # Q /\ L # Q /\ FullWidth = {A, L, Q}
      /\ Z \notin FullWidth /\ ZERO \notin FullWidth /\ Z # ZERO
      /\ \A p \in Cells : p \notin FullWidth /\ p # Z /\ p # ZERO
  BY PlacesNamed
<1>6. /\ store[A] = a /\ store[L] = SignExtend(l) /\ store[Q] = q /\ store[Z] = FirstAddress
      /\ store[ZERO] = 0 /\ \A p \in Cells : p \in Places /\ store[p] = c[p]
  <2> HIDE DEF A, L, Q, Z, ZERO, FullWidth
  <2> QED  BY <1>1, <1>5, PlacesNamed DEF Contents
<1>7. 0 \in Word /\ Word \subseteq Register16 /\ Code!Address \subseteq Word
  BY DEF Word, Register16, Code!Address, Code!LastAddress
<1>8. DOMAIN store = Places /\ store = [p \in Places |-> store[p]]
  BY <1>1 DEF Contents
<1>9. \A p \in Places : store[p] \in IF p \in FullWidth THEN Register16
                                     ELSE IF p = Z THEN Code!Address ELSE Word
  BY <1>3, <1>4, <1>5, <1>6, <1>7 DEF Places
<1>10. \A p \in Places : store[p] \in Register16
  BY <1>7, <1>9
<1>11. Stored(store)
  BY <1>6, <1>8, <1>9, <1>10 DEF Stored
<1>12. channels \in [Channels -> Word] /\ armed \subseteq DOMAIN TrapBits
  BY <1>2, <1>3 DEF Init
<1> QED  BY <1>4, <1>6, <1>11, <1>12 DEF Represented

(* Operands are places, those of double words with their predecessor.      *)
LEMMA Operated ==
  ASSUME NEW i \in Instructions
  PROVE  LET d == Code!decode(i.word, i.extended)
         IN  /\ d.operand \in Nat
             /\ d.mnemonic \in DOMAIN Code!ChannelField => d.operand \in {L, Q} \cup Channels
             /\ d.mnemonic \notin DOMAIN Code!ChannelField \cup {"TC", "TCF", "BZF", "BZMF"} =>
                  d.operand \in Places
             /\ d.mnemonic \in Doubles => predecessor(d.operand) \in Places
<1> DEFINE d == Code!decode(i.word, i.extended)
<1>1. i.word \in Word /\ i.extended \in BOOLEAN
  BY ArithmeticAssumption
<1>2. d.operand \in Nat
  BY <1>1, Fields DEF Encodes
<1>3. /\ Operands(d) \subseteq Places
      /\ d.mnemonic \in DOMAIN Code!ChannelField => d.operand \in {L, Q} \cup Channels
  BY ArithmeticAssumption
<1> HIDE DEF d
<1>4. ASSUME d.mnemonic \notin DOMAIN Code!ChannelField \cup {"TC", "TCF", "BZF", "BZMF"}
      PROVE  /\ d.operand \in Places
             /\ d.mnemonic \in Doubles /\ d.operand > 0 => d.operand - 1 \in Places
  BY <1>3, <1>4 DEF Operands
<1>5. ASSUME d.mnemonic \in Doubles
      PROVE  d.mnemonic \notin DOMAIN Code!ChannelField \cup {"TC", "TCF", "BZF", "BZMF"}
  BY <1>5 DEF Doubles, Code!ChannelField
<1>6. ASSUME d.mnemonic \in Doubles  PROVE predecessor(d.operand) \in Places
  <2>1. CASE d.operand = 0
    BY <2>1, PlacesNamed DEF predecessor
  <2>2. CASE d.operand # 0
    BY <1>2, <1>4, <1>5, <1>6, <2>2 DEF predecessor
  <2> QED  BY <2>1, <2>2
<1> QED  BY <1>2, <1>3, <1>4, <1>6 DEF d

(* The end of every instruction: the correction of L.                      *)
LEMMA Committed ==
  ASSUME NEW s, Stored(s), Commit(s)
  PROVE  /\ Stored(store') /\ ~has_overflow(store'[L])
         /\ store'[L] = Normal(s[L])
         /\ \A p \in Places \ {L} : store'[p] = s[p]
<1> DEFINE r == Normal(s[L])
<1>1. r \in Register16 /\ ~has_overflow(r)
  <2>1. s[L] \in Register16
    BY PlacesNamed DEF Stored
  <2> QED  BY <2>1, Corrected
<1>2. store' = [s EXCEPT ![L] = r]
  BY DEF Commit
<1> HIDE DEF r
<1>3. /\ Stored([s EXCEPT ![L] = r]) /\ [s EXCEPT ![L] = r][L] = r
      /\ \A p \in Places \ {L} : [s EXCEPT ![L] = r][p] = s[p]
  BY <1>1, Loads, Numerals
<1> QED  BY <1>1, <1>2, <1>3 DEF r

LEMMA ChannelsKeep ==
  ASSUME Represented, NEW s, Stored(s), NEW c \in {L, Q} \cup Channels
  PROVE  /\ READ(s, c) => Represented'
         /\ WRITE(s, c) => Represented'
         /\ \A gate, writes : 0 \notin gate /\ channel_logic(s, c, gate, writes) => Represented'
<1>1. channels \in [Channels -> Word] /\ armed \subseteq DOMAIN TrapBits
  BY DEF Represented
<1>2. s[A] \in Register16 /\ aWord(s) \in Word /\ A \in FullWidth
  <2>1. s[A] \in Register16
    BY PlacesNamed DEF Stored
  <2> QED  BY <2>1, Corrected, Numerals DEF aWord
<1>3. ASSUME c \in {L, Q}  PROVE c \in FullWidth /\ s[c] \in Register16 /\ c \in Places
  BY <1>3, PlacesNamed, Numerals DEF Stored
<1>4. ASSUME NEW t, Stored(t), Commit(t), UNCHANGED <<channels, armed>>
      PROVE  Represented'
  <2>1. Stored(store') /\ ~has_overflow(store'[L])
    BY <1>4, Committed
  <2> QED  BY <1>1, <1>4, <2>1 DEF Represented, Stored
<1>5. ASSUME NEW t, Stored(t), Commit(t), c \in Channels, NEW w \in Word, write_channel(c, w)
      PROVE  Represented'
  <2>1. Stored(store') /\ ~has_overflow(store'[L])
    BY <1>5, Committed
  <2>2. Latched(c, w) \in Word
    <3>1. /\ 0 \notin AndGate /\ 0 \notin OrGate
          /\ \o43777 \in Word /\ \o76000 \in Word /\ 0 \in Word /\ channels[c] \in Word
      BY <1>1, <1>5 DEF AndGate, OrGate, Word
    <3> DEFINE x == \o43777
               y == \o76000
               v == channels[c]
    <3> HIDE DEF x, y, v
    <3>2. BitwiseOf(w, x, AndGate) \in Word
      BY <1>5, <3>1, Bitwise DEF x
    <3>3. BitwiseOf(v, y, OrGate) \in Word
      BY <3>1, Bitwise DEF y, v
    <3> QED  BY <1>5, <3>1, <3>2, <3>3 DEF Latched, x, y, v
  <2>3. channels' \in [Channels -> Word]
    BY <1>1, <1>5, <2>2 DEF write_channel
  <2>4. armed' \subseteq DOMAIN TrapBits
    BY <1>1, <1>5 DEF write_channel, Arming
  <2> QED  BY <2>1, <2>3, <2>4 DEF Represented, Stored
<1>6. ASSUME READ(s, c)  PROVE Represented'
  <2> DEFINE r == IF c \in {L, Q} THEN s[c] ELSE SignExtend(channels[c])
  <2>1. r \in Register16
    BY <1>1, <1>3, Extended
  <2>2. Commit([s EXCEPT ![A] = r]) /\ UNCHANGED <<channels, armed>>
    BY <1>6 DEF READ
  <2> HIDE DEF r
  <2>3. Stored([s EXCEPT ![A] = r])
    BY <1>2, <2>1, Loads
  <2> QED  BY <1>4, <2>2, <2>3
<1>7. ASSUME WRITE(s, c)  PROVE Represented'
  <2>1. CASE c \in {L, Q}
    <3> DEFINE r == s[A]
    <3>1. Commit([s EXCEPT ![c] = r]) /\ UNCHANGED <<channels, armed>>
      BY <1>7, <2>1 DEF WRITE
    <3> HIDE DEF r
    <3>2. Stored([s EXCEPT ![c] = r])
      BY <1>2, <1>3, <2>1, Loads DEF r
    <3> QED  BY <1>4, <3>1, <3>2
  <2>2. CASE c \notin {L, Q}
    <3>1. Commit(s) /\ write_channel(c, aWord(s)) /\ c \in Channels
      BY <1>7, <2>2 DEF WRITE
    <3> QED  BY <1>2, <1>5, <3>1
  <2> QED  BY <2>1, <2>2
<1>8. ASSUME NEW gate, NEW writes, 0 \notin gate, channel_logic(s, c, gate, writes)
      PROVE  Represented'
  <2>1. CASE c \in {L, Q}
    <3> DEFINE wide == BitwiseOf(s[A], s[c], gate)
               t == [s EXCEPT ![A] = wide]
               r == IF writes THEN wide ELSE s[c]
    <3>1. Commit([s EXCEPT ![A] = wide, ![c] = IF writes THEN wide ELSE @])
          /\ UNCHANGED <<channels, armed>>
      BY <1>8, <2>1 DEF channel_logic
    <3>2. [s EXCEPT ![A] = wide, ![c] = IF writes THEN wide ELSE @] = [t EXCEPT ![c] = r]
      <4>1. c # A
        BY <2>1 DEF A, L, Q
      <4> QED  BY <4>1
    <3>3. wide \in Register16
      BY Bitwise
    <3> HIDE DEF wide
    <3>4. Stored(t)
      BY <1>2, <3>3, Loads
    <3> HIDE DEF t
    <3>5. r \in Register16
      BY <1>3, <2>1, <3>3
    <3> HIDE DEF r
    <3>6. Stored([t EXCEPT ![c] = r])
      BY <1>3, <2>1, <3>4, <3>5, Loads
    <3>7. Commit([t EXCEPT ![c] = r])
      BY <3>1, <3>2
    <3> QED  BY <1>4, <3>1, <3>6, <3>7
  <2>2. CASE c \notin {L, Q}
    <3> DEFINE v == aWord(s)
               u == channels[c]
               word == BitwiseOf(v, u, gate)
               r == SignExtend(word)
    <3>1. /\ Commit([s EXCEPT ![A] = r]) /\ c \in Channels
          /\ write_channel(c, word) \/ UNCHANGED <<channels, armed>>
      BY <1>8, <2>2 DEF channel_logic
    <3>2. v \in Word /\ u \in Word
      BY <1>1, <1>2, <3>1
    <3> HIDE DEF v, u
    <3>3. word \in Word
      BY <1>8, <3>2, Bitwise
    <3> HIDE DEF word
    <3>4. r \in Register16
      BY <3>3, Extended
    <3> HIDE DEF r
    <3>5. Stored([s EXCEPT ![A] = r])
      BY <1>2, <3>4, Loads
    <3> QED  BY <1>4, <1>5, <3>1, <3>3, <3>5
  <2> QED  BY <2>1, <2>2
<1> QED  BY <1>6, <1>7, <1>8

LEMMA ExecutedKeeps ==
  ASSUME Represented, NEW i \in Instructions, execute(Code!decode(i.word, i.extended))
  PROVE  Represented'
<1> DEFINE d == Code!decode(i.word, i.extended)
           k == d.operand
<1>1. /\ k \in Nat
      /\ d.mnemonic \in DOMAIN Code!ChannelField => k \in {L, Q} \cup Channels
      /\ d.mnemonic \notin DOMAIN Code!ChannelField \cup {"TC", "TCF", "BZF", "BZMF"} => k \in Places
      /\ d.mnemonic \in Doubles => predecessor(k) \in Places
  BY Operated
<1>2. execute(d)
  OBVIOUS
<1> HIDE DEF d
<1>3. Stored(Fetched)
  BY Skips DEF Fetched, Represented
<1>4. ASSUME NEW t, Stored(t), Commit(t), UNCHANGED <<channels, armed>>
      PROVE  Represented'
  <2>1. Stored(store') /\ ~has_overflow(store'[L])
    BY <1>4, Committed
  <2> QED  BY <1>4, <2>1 DEF Represented, Stored
<1>5. DOMAIN Code!ChannelField = {"READ", "WRITE", "RAND", "WAND", "ROR", "WOR", "RXOR", "EDRUPT"}
  BY DEF Code!ChannelField
<1>6. CASE \/ computes(d, "AD", AD) \/ computes(d, "ADS", ADS) \/ computes(d, "SU", SU)
           \/ computes(d, "INCR", INCR) \/ computes(d, "AUG", AUG) \/ computes(d, "DIM", DIM)
  <2>1. k \in Places
    BY <1>1, <1>5, <1>6 DEF computes
  <2> QED  BY <1>3, <1>4, <1>6, <2>1, AddersKeep DEF computes
<1>7. CASE \/ computes(d, "DAS", DAS) \/ computes(d, "DCA", DCA)
           \/ computes(d, "DCS", DCS) \/ computes(d, "DXCH", DXCH)
  <2>1. k \in Places /\ predecessor(k) \in Places
    BY <1>1, <1>5, <1>7 DEF computes, Doubles
  <2> QED  BY <1>3, <1>4, <1>7, <2>1, DoublesKeep DEF computes
<1>8. CASE \/ computes(d, "CA", CA) \/ computes(d, "CS", CS) \/ computes(d, "XCH", XCH)
           \/ computes(d, "LXCH", LXCH) \/ computes(d, "QXCH", QXCH)
           \/ computes(d, "TS", transfer_to_storage)
  <2>1. k \in Places
    BY <1>1, <1>5, <1>8 DEF computes
  <2> QED  BY <1>3, <1>4, <1>8, <2>1, MoversKeep DEF computes
<1>9. CASE \/ computes(d, "CCS", CCS) \/ computes(d, "MASK", MASK)
           \/ computes(d, "MSU", modular_subtract)
  <2>1. k \in Places
    BY <1>1, <1>5, <1>9 DEF computes
  <2> QED  BY <1>3, <1>4, <1>9, <2>1, ComputersKeep DEF computes
<1>10. CASE \/ computes(d, "BZF", BZF) \/ computes(d, "BZMF", BZMF)
            \/ computes(d, "TC", TC) \/ computes(d, "TCF", TCF)
  BY <1>1, <1>3, <1>4, <1>10, BranchesKeep DEF computes
<1>11. CASE computes(d, "MP", MP)
  <2>1. k \in Places
    BY <1>1, <1>5, <1>11 DEF computes
  <2> QED  BY <1>3, <1>4, <1>11, <2>1, Multiplied DEF computes
<1>12. CASE /\ d.mnemonic = "DV"
            /\ Commit(DV(Fetched, k))
            /\ failed' = ~Divided(Fetched, k).ok
            /\ UNCHANGED <<channels, armed>>
  <2> DEFINE a == Divided(Fetched, k).A
             l == Divided(Fetched, k).L
             t == [Fetched EXCEPT ![A] = a]
  <2>1. k \in Places
    BY <1>1, <1>5, <1>12
  <2>2. a \in Register16 /\ l \in Register16
    BY <1>3, <2>1, DividedSoundly
  <2>3. DV(Fetched, k) = [t EXCEPT ![L] = l]
    BY DEF DV
  <2> HIDE DEF a, l
  <2>4. Stored(t)
    BY <1>3, <2>2, Loads, Numerals
  <2> HIDE DEF t
  <2>5. Stored(DV(Fetched, k))
    BY <2>2, <2>3, <2>4, Loads, Numerals
  <2> QED  BY <1>4, <1>12, <2>5
<1>13. CASE /\ UNCHANGED failed
            /\ \/ d.mnemonic = "READ" /\ READ(Fetched, d.operand)
               \/ d.mnemonic = "WRITE" /\ WRITE(Fetched, d.operand)
               \/ d.mnemonic = "RAND" /\ channel_logic(Fetched, d.operand, AndGate, FALSE)
               \/ d.mnemonic = "ROR" /\ channel_logic(Fetched, d.operand, OrGate, FALSE)
               \/ d.mnemonic = "RXOR" /\ channel_logic(Fetched, d.operand, XorGate, FALSE)
               \/ d.mnemonic = "WAND" /\ channel_logic(Fetched, d.operand, AndGate, TRUE)
               \/ d.mnemonic = "WOR" /\ channel_logic(Fetched, d.operand, OrGate, TRUE)
  <2>1. k \in {L, Q} \cup Channels
    BY <1>1, <1>5, <1>13
  <2>2. 0 \notin AndGate /\ 0 \notin OrGate /\ 0 \notin XorGate
    BY DEF AndGate, OrGate, XorGate
  <2>3. /\ READ(Fetched, k) => Represented'
        /\ WRITE(Fetched, k) => Represented'
        /\ \A gate, writes :
             0 \notin gate /\ channel_logic(Fetched, k, gate, writes) => Represented'
    BY <1>3, <2>1, ChannelsKeep
  <2> QED  BY <1>13, <2>2, <2>3
<1> QED  BY <1>2, <1>6, <1>7, <1>8, <1>9, <1>10, <1>11, <1>12, <1>13 DEF execute

LEMMA AlwaysRepresented == Spec => []Represented
<1>1. Represented /\ [Next]_vars => Represented'
  <2> SUFFICES ASSUME Represented, [Next]_vars  PROVE Represented'
    OBVIOUS
  <2>1. CASE UNCHANGED vars
    BY <2>1 DEF Represented, Stored, vars
  <2>2. CASE step
    <3>1. PICK i \in Instructions : execute(Code!decode(i.word, i.extended))
      BY <2>2 DEF step
    <3> QED  BY <3>1, ExecutedKeeps
  <2> QED  BY <2>1, <2>2 DEF Next
<1> QED  BY <1>1, StartRepresented, PTL DEF Spec

(* Under every instruction, the registers keep sixteen bits, L keeps no    *)
(* overflow, cells and channels keep words, and address 7 stays zero.      *)
THEOREM ArithmeticTypes == Spec => []TypeOK
<1>1. Represented => TypeOK
  BY DEF Represented, Stored, TypeOK
<1> QED  BY <1>1, AlwaysRepresented, PTL

-----------------------------------------------------------------------------
(* A step that executed an instruction is one of execute, with its word.   *)
LEMMA Stepped ==
  ASSUME Represented, [Next]_vars, steps' # steps
  PROVE  \E i \in Instructions :
           LET d == Code!decode(i.word, i.extended)
           IN  executed'.mnemonic = d.mnemonic /\ K = d.operand /\ execute(d)
<1>1. step
  BY DEF Next, vars
<1>2. PICK i \in Instructions :
        LET d == Code!decode(i.word, i.extended)
        IN  /\ executed' = [mnemonic |-> d.mnemonic, operand |-> d.operand,
                            word |-> i.word, extended |-> i.extended]
            /\ execute(d)
  BY <1>1 DEF step
<1> QED  BY <1>2 DEF K

(* What each of the instructions did to the store.                         *)
LEMMA Effects ==
  ASSUME Represented, [Next]_vars, steps' # steps
  PROVE  /\ executed'.mnemonic = "AD" => K \in Places /\ Commit(AD(Fetched, K))
         /\ executed'.mnemonic = "SU" => K \in Places /\ Commit(SU(Fetched, K))
         /\ executed'.mnemonic = "INCR" => K \in Places /\ Commit(INCR(Fetched, K))
         /\ executed'.mnemonic = "AUG" => K \in Places /\ Commit(AUG(Fetched, K))
         /\ executed'.mnemonic = "DIM" => K \in Places /\ Commit(DIM(Fetched, K))
         /\ executed'.mnemonic = "DAS" =>
              K \in Places /\ predecessor(K) \in Places /\ Commit(DAS(Fetched, K))
         /\ executed'.mnemonic = "DXCH" =>
              K \in Places /\ predecessor(K) \in Places /\ Commit(DXCH(Fetched, K))
         /\ executed'.mnemonic = "XCH" => K \in Places /\ Commit(XCH(Fetched, K))
         /\ executed'.mnemonic = "LXCH" => K \in Places /\ Commit(LXCH(Fetched, K))
         /\ executed'.mnemonic = "QXCH" => K \in Places /\ Commit(QXCH(Fetched, K))
         /\ executed'.mnemonic = "TS" => K \in Places /\ Commit(transfer_to_storage(Fetched, K))
         /\ executed'.mnemonic = "CCS" => K \in Places /\ Commit(CCS(Fetched, K))
         /\ executed'.mnemonic = "MP" => K \in Places /\ Commit(MP(Fetched, K))
         /\ executed'.mnemonic = "DV" =>
              /\ K \in Places /\ Commit(DV(Fetched, K))
              /\ failed' = ~Divided(Fetched, K).ok
         /\ executed'.mnemonic # "DV" => UNCHANGED failed
<1>1. PICK i \in Instructions :
        LET d == Code!decode(i.word, i.extended)
        IN  executed'.mnemonic = d.mnemonic /\ K = d.operand /\ execute(d)
  BY Stepped
<1> DEFINE d == Code!decode(i.word, i.extended)
<1>2. executed'.mnemonic = d.mnemonic /\ K = d.operand /\ execute(d)
  BY <1>1
<1>3. /\ d.mnemonic \notin DOMAIN Code!ChannelField \cup {"TC", "TCF", "BZF", "BZMF"} =>
           d.operand \in Places
      /\ d.mnemonic \in Doubles => predecessor(d.operand) \in Places
  BY Operated
<1> HIDE DEF d
<1>4. DOMAIN Code!ChannelField = {"READ", "WRITE", "RAND", "WAND", "ROR", "WOR", "RXOR", "EDRUPT"}
  BY DEF Code!ChannelField
<1> DEFINE m == executed'.mnemonic
           k == K
<1>5. /\ d.mnemonic = m /\ d.operand = k
      /\ m \in {"AD", "SU", "INCR", "AUG", "DIM", "DAS", "DXCH", "XCH", "LXCH", "QXCH", "TS",
                "CCS", "MP", "DV"} => k \in Places
      /\ m \in {"DAS", "DXCH"} => predecessor(k) \in Places
  BY <1>2, <1>3, <1>4 DEF Doubles
<1> HIDE DEF m, k
<1>6. /\ m = "AD" => Commit(AD(Fetched, k))
      /\ m = "SU" => Commit(SU(Fetched, k))
      /\ m = "INCR" => Commit(INCR(Fetched, k))
      /\ m = "AUG" => Commit(AUG(Fetched, k))
      /\ m = "DIM" => Commit(DIM(Fetched, k))
      /\ m = "DAS" => Commit(DAS(Fetched, k))
      /\ m = "DXCH" => Commit(DXCH(Fetched, k))
  BY <1>2, <1>5 DEF execute, computes
<1>7. /\ m = "XCH" => Commit(XCH(Fetched, k))
      /\ m = "LXCH" => Commit(LXCH(Fetched, k))
      /\ m = "QXCH" => Commit(QXCH(Fetched, k))
      /\ m = "TS" => Commit(transfer_to_storage(Fetched, k))
      /\ m = "CCS" => Commit(CCS(Fetched, k))
      /\ m = "MP" => Commit(MP(Fetched, k))
      /\ m = "DV" => Commit(DV(Fetched, k)) /\ failed' = ~Divided(Fetched, k).ok
      /\ m # "DV" => UNCHANGED failed
  BY <1>2, <1>5 DEF execute, computes
<1> QED  BY ONLY <1>5, <1>6, <1>7 DEF m, k

-----------------------------------------------------------------------------
(* The numbers of sums: registers add as numbers of sixteen bits, with the *)
(* carry around, and a correction keeps what KeptOf says.                  *)
LEMMA Summed ==
  ASSUME NEW r \in Register16, NEW s \in Register16
  PROVE  /\ AddRegister(r, s) \in Register16
         /\ value16(AddRegister(r, s)) = KeptOf(A, value16(r) + value16(s))
  BY DEF AddRegister, Register16, value16, is_negative16, KeptOf

LEMMA Sized16 ==
  ASSUME NEW r \in Register16
  PROVE  /\ value16(r) \in Int /\ -\o77777 <= value16(r) /\ value16(r) <= \o77777
         /\ ~has_overflow(r) => -\o37777 <= value16(r) /\ value16(r) <= \o37777
         /\ overflow_sign(r) = IF value16(r) > \o37777 THEN 1
                               ELSE IF value16(r) < -\o37777 THEN -1 ELSE 0
         /\ is_negative16(r) => value16(r) <= 0
         /\ ~is_negative16(r) => value16(r) >= 0
         /\ value16(r) = 0 <=> r \in {0, \o177777}
         /\ has_overflow(r) <=> overflow_sign(r) # 0
  BY DEF Register16, value16, is_negative16, has_overflow, overflow_sign

LEMMA KeptNormal ==
  ASSUME NEW r \in Register16
  PROVE  value16(Normal(r)) = KeptOf(L, value16(r))
<1>1. value16(Normal(r)) = value16(r) - overflow_sign(r) * DoubleBase
  BY Corrected
<1> QED  BY <1>1, Sized16 DEF KeptOf, A, Q, L, MAX_MAGNITUDE, DoubleBase

LEMMA ReadPlaces ==
  ASSUME NEW s, Stored(s)
  PROVE  /\ \A p \in FullWidth : read_register_operand(s, p) = s[p]
         /\ \A p \in Cells : /\ read_register_operand(s, p) = SignExtend(s[p])
                             /\ ~has_overflow(read_register_operand(s, p))
                             /\ s[p] \in Word
<1>1. \A p \in FullWidth : p # ZERO
  BY PlacesNamed
<1>2. \A p \in Cells : p \in Places /\ p # ZERO /\ p # Z /\ p \notin FullWidth
  BY PlacesNamed
<1>3. \A p \in Cells : s[p] \in Word
  BY <1>2 DEF Stored
<1>4. \A w \in Word : ~has_overflow(SignExtend(w))
  BY Extended
<1> QED  BY <1>1, <1>2, <1>3, <1>4 DEF read_register_operand

LEMMA FetchedReads ==
  ASSUME Represented
  PROVE  /\ Stored(store) /\ Stored(Fetched) /\ ~has_overflow(Fetched[L])
         /\ \A p \in Places \ {Z} : /\ Fetched[p] = store[p]
                                    /\ read_register_operand(Fetched, p)
                                         = read_register_operand(store, p)
                                    /\ Number(Fetched, p) = Number(store, p)
<1>1. Stored(store) /\ ~has_overflow(store[L])
  BY DEF Represented
<1>2. Stored(Fetched) /\ \A p \in Places \ {Z} : Fetched[p] = store[p]
  BY <1>1, Skips DEF Fetched
<1>3. L \in Places \ {Z}
  BY PlacesNamed
<1>4. \A p \in Places \ {Z} : read_register_operand(Fetched, p) = read_register_operand(store, p)
  BY <1>2 DEF read_register_operand
<1> QED  BY <1>1, <1>2, <1>3, <1>4 DEF Number

(* Whatever is written to a register or a cell, a reader finds after the   *)
(* instruction what the place can keep of it.                              *)
LEMMA WrittenReads ==
  ASSUME NEW s, Stored(s), NEW k \in FullWidth \cup Cells, NEW r \in Register16,
         Commit(write_register_operand(s, k, r))
  PROVE  Number(store', k) = IF k \in {A, Q} THEN value16(r) ELSE value16(Normal(r))
<1> DEFINE t == write_register_operand(s, k, r)
<1>1. k \in Places /\ {A, L, Q} \subseteq Places
  BY PlacesNamed DEF Places
<1>2. /\ Stored(t)
      /\ k \in FullWidth => t[k] = r
      /\ k \in Cells => t[k] = OverflowCorrect(r)
  BY <1>1, Writes
<1>3. Commit(t)
  OBVIOUS
<1> HIDE DEF t
<1>4. /\ Stored(store') /\ store'[L] = Normal(t[L])
      /\ \A p \in Places \ {L} : store'[p] = t[p]
  BY <1>2, <1>3, Committed
<1>5. /\ \A p \in FullWidth : read_register_operand(store', p) = store'[p]
      /\ \A p \in Cells : read_register_operand(store', p) = SignExtend(store'[p])
  BY <1>4, ReadPlaces
<1>6. A # L /\ Q # L /\ L \notin {A, Q} /\ \A p \in Cells : p # L /\ p \notin {A, Q}
  BY PlacesNamed
<1>7. CASE k \in {A, Q}
  BY <1>1, <1>2, <1>4, <1>5, <1>6, <1>7 DEF Number, FullWidth
<1>8. CASE k = L
  BY <1>1, <1>2, <1>4, <1>5, <1>6, <1>8 DEF Number, FullWidth
<1>9. CASE k \in Cells
  BY <1>1, <1>2, <1>4, <1>5, <1>6, <1>9 DEF Number, Normal
<1> QED  BY <1>7, <1>8, <1>9 DEF FullWidth

LEMMA PlusExact ==
  ASSUME Represented, NEW k \in FullWidth \cup Cells, NEW n \in {One, MinusOne},
         Commit(Plus(Fetched, k, n))
  PROVE  Number(store', k) = KeptOf(k, Number(store, k) + value16(n))
<1> DEFINE r == read_register_operand(Fetched, k)
           x == AddRegister(r, n)
<1>1. k \in Places \ {Z}
  BY PlacesNamed DEF Places
<1>2. Stored(Fetched) /\ Number(store, k) = value16(r) /\ r \in Register16
  BY <1>1, FetchedReads, Reads DEF Number
<1>3. n \in Register16 /\ value16(n) \in {1, -1}
  BY Numerals
<1>4. Commit(write_register_operand(Fetched, k, x))
  BY DEF Plus
<1>5. k \in {A, Q} \/ ~has_overflow(r)
  <2>1. CASE k \in Cells
    BY <1>2, <2>1, ReadPlaces
  <2>2. CASE k = L
    <3>1. L \in FullWidth
      BY DEF FullWidth
    <3> QED  BY <1>2, <2>2, <3>1, ReadPlaces, FetchedReads
  <2> QED  BY <2>1, <2>2 DEF FullWidth
<1> HIDE DEF r
<1>6. x \in Register16 /\ value16(x) = KeptOf(A, value16(r) + value16(n))
  BY <1>2, <1>3, Summed
<1> HIDE DEF x
<1>7. Number(store', k) = IF k \in {A, Q} THEN value16(x) ELSE value16(Normal(x))
  BY <1>2, <1>4, <1>6, WrittenReads
<1>8. value16(Normal(x)) = KeptOf(L, value16(x))
  BY <1>6, KeptNormal
<1>9. /\ value16(r) \in Int /\ -\o77777 <= value16(r) /\ value16(r) <= \o77777
      /\ ~has_overflow(r) => -\o37777 <= value16(r) /\ value16(r) <= \o37777
  BY <1>2, Sized16
<1>10. CASE k \in {A, Q}
  BY <1>2, <1>6, <1>7, <1>10 DEF KeptOf
<1>11. CASE k \notin {A, Q}
  BY <1>2, <1>3, <1>5, <1>6, <1>7, <1>8, <1>9, <1>11 DEF KeptOf, MAX_MAGNITUDE, DoubleBase, L, A, Q
<1> QED  BY <1>10, <1>11

(* The accumulator after an addition to it.                                *)
LEMMA Accumulated ==
  ASSUME Represented, NEW r \in Register16,
         Commit([Fetched EXCEPT ![A] = AddRegister(@, r)])
  PROVE  Number(store', A) = KeptOf(A, Number(store, A) + value16(r))
<1> DEFINE a == Fetched[A]
           x == AddRegister(a, r)
           t == [Fetched EXCEPT ![A] = x]
<1>1. A \in Places \ {Z} /\ A \in FullWidth /\ A # L
  BY PlacesNamed DEF FullWidth
<1>2. Stored(Fetched) /\ Number(store, A) = value16(a) /\ a \in Register16
  <2>1. Stored(Fetched) /\ Number(store, A) = Number(Fetched, A)
    BY <1>1, FetchedReads
  <2>2. read_register_operand(Fetched, A) = a
    BY <1>1, <2>1, ReadPlaces
  <2> QED  BY <1>1, <2>1, <2>2 DEF Number, Stored
<1>3. x \in Register16 /\ value16(x) = KeptOf(A, value16(a) + value16(r))
  <2> HIDE DEF a
  <2> QED  BY <1>2, Summed
<1>4. Commit(t)
  OBVIOUS
<1> HIDE DEF x
<1>5. Stored(t) /\ t[A] = x
  <2>1. A \in FullWidth /\ x \in Register16 /\ Stored(Fetched)
    BY <1>1, <1>2, <1>3
  <2> QED  BY ONLY <2>1, Loads
<1> HIDE DEF t
<1>6. Stored(store') /\ store'[A] = x
  BY <1>1, <1>4, <1>5, Committed
<1>7. Number(store', A) = value16(x)
  BY <1>1, <1>6, ReadPlaces DEF Number
<1> QED  BY <1>2, <1>3, <1>7

(* AD, SU, INCR, AUG and DIM add the numbers of their words, one by one.   *)
THEOREM SumsAreExact == Spec => SumsExact
<1> DEFINE Claim ==
             /\ Executed({"AD"}) => Number(store', A) = KeptOf(A, Number(store, A) + Number(Fetched, K))
             /\ Executed({"SU"}) => Number(store', A) = KeptOf(A, Number(store, A) - Number(Fetched, K))
             /\ Executed({"INCR"}) /\ K \notin {Z, ZERO} =>
                  Number(store', K) = KeptOf(K, Number(store, K) + 1)
             /\ Executed({"AUG"}) /\ K \notin {Z, ZERO} =>
                  Size(Number(store', K)) = Size(KeptOf(K, Size(Number(store, K)) + 1))
             /\ Executed({"DIM"}) /\ K \notin {Z, ZERO} =>
                  Size(Number(store', K)) = IF Number(store, K) = 0 THEN 0
                                            ELSE Size(Number(store, K)) - 1
<1>1. ASSUME Represented, [Next]_vars  PROVE [Claim]_vars
  <2> USE <1>1
  <2> SUFFICES ASSUME steps' # steps  PROVE Claim
    BY DEF Executed
  <2> DEFINE k == K
             m == executed'.mnemonic
             r == read_register_operand(Fetched, k)
  <2>1. /\ m = "AD" => k \in Places /\ Commit(AD(Fetched, k))
        /\ m = "SU" => k \in Places /\ Commit(SU(Fetched, k))
        /\ m = "INCR" => k \in Places /\ Commit(INCR(Fetched, k))
        /\ m = "AUG" => k \in Places /\ Commit(AUG(Fetched, k))
        /\ m = "DIM" => k \in Places /\ Commit(DIM(Fetched, k))
    BY Effects
  <2>2. Stored(Fetched)
    BY FetchedReads
  <2>3. k \in Places => r \in Register16
    BY <2>2, Reads
  <2> HIDE DEF k, m
  <2>4. k \in Places /\ k \notin {Z, ZERO} =>
          k \in FullWidth \cup Cells /\ k \in Places \ {Z} /\ Number(store, k) = value16(r)
    BY FetchedReads DEF Places, Number
  <2>5. ASSUME m = "AD"
        PROVE  Number(store', A) = KeptOf(A, Number(store, A) + Number(Fetched, k))
    <3>1. Commit([Fetched EXCEPT ![A] = AddRegister(@, r)]) /\ r \in Register16
      BY <2>1, <2>3, <2>5 DEF AD
    <3> HIDE DEF r
    <3>2. Number(store', A) = KeptOf(A, Number(store, A) + value16(r))
      BY <3>1, Accumulated
    <3> QED  BY <3>2 DEF Number, r
  <2>6. ASSUME m = "SU"
        PROVE  Number(store', A) = KeptOf(A, Number(store, A) - Number(Fetched, k))
    <3> DEFINE c == Complement16(r)
    <3>1. Commit([Fetched EXCEPT ![A] = AddRegister(@, c)]) /\ r \in Register16
      BY <2>1, <2>3, <2>6 DEF SU
    <3>2. Number(Fetched, k) = value16(r)
      BY DEF Number
    <3> HIDE DEF r
    <3>3. c \in Register16 /\ value16(c) = -value16(r)
      BY <3>1, Closed
    <3> HIDE DEF c
    <3>4. Number(store', A) = KeptOf(A, Number(store, A) + value16(c))
      BY <3>1, <3>3, Accumulated
    <3>5. Number(store, A) \in Int /\ value16(r) \in Int
      <4>1. Stored(store) /\ A \in Places
        BY FetchedReads, PlacesNamed
      <4>2. read_register_operand(store, A) \in Register16
        BY <4>1, Reads
      <4> QED  BY <3>1, <4>2, Sized16 DEF Number
    <3>6. Number(store, A) + value16(c) = Number(store, A) - Number(Fetched, k)
      BY <3>2, <3>3, <3>5
    <3> QED  BY <3>4, <3>6
  <2>7. ASSUME m = "INCR", k \notin {Z, ZERO}
        PROVE  Number(store', k) = KeptOf(k, Number(store, k) + 1)
    <3>1. Commit(Plus(Fetched, k, One)) /\ k \in FullWidth \cup Cells
      BY <2>1, <2>4, <2>7 DEF INCR
    <3>2. Number(store', k) = KeptOf(k, Number(store, k) + value16(One))
      BY <3>1, PlusExact
    <3> QED  BY <3>2, Numerals
  <2>8. ASSUME k \in Places, k \notin {Z, ZERO}
        PROVE  /\ value16(r) = Number(store, k) /\ Number(store, k) \in Int
               /\ is_negative16(r) => Number(store, k) <= 0
               /\ ~is_negative16(r) => Number(store, k) >= 0
               /\ r \in {0, \o177777} <=> Number(store, k) = 0
               /\ -\o77777 <= Number(store, k) /\ Number(store, k) <= \o77777
               /\ k \in FullWidth \cup Cells
               /\ k \notin {A, Q} =>
                    -\o37777 <= Number(store, k) /\ Number(store, k) <= \o37777
    <3>1. /\ r \in Register16 /\ value16(r) = Number(store, k) /\ k \in FullWidth \cup Cells
          /\ k \in Places \ {Z}
      BY <2>3, <2>4, <2>8
    <3>2. k \notin {A, Q} => ~has_overflow(r)
      <4>1. L \in FullWidth
        BY DEF FullWidth
      <4>2. k = L => ~has_overflow(r)
        BY <2>2, <4>1, ReadPlaces, FetchedReads
      <4>3. k \in Cells => ~has_overflow(r)
        BY <2>2, ReadPlaces
      <4> QED  BY <3>1, <4>2, <4>3 DEF FullWidth
    <3> HIDE DEF r
    <3> QED  BY <3>1, <3>2, Sized16
  <2>9. ASSUME m = "AUG", k \notin {Z, ZERO}
        PROVE  Size(Number(store', k)) = Size(KeptOf(k, Size(Number(store, k)) + 1))
    <3>1. Commit(Plus(Fetched, k, Away(r))) /\ k \in Places
      BY <2>1, <2>9 DEF AUG
    <3> DEFINE n == Number(store, k)
    <3>2. /\ n \in Int /\ k \in FullWidth \cup Cells
          /\ is_negative16(r) => n <= 0
          /\ ~is_negative16(r) => n >= 0
      BY <2>8, <2>9, <3>1
    <3> HIDE DEF r
    <3>3. CASE is_negative16(r)
      <4>1. Number(store', k) = KeptOf(k, n + (-1))
        <5>1. Commit(Plus(Fetched, k, MinusOne))
          BY <3>1, <3>3 DEF Away
        <5> QED  BY <3>2, <5>1, PlusExact, Numerals
      <4> HIDE DEF n
      <4>2. Size(KeptOf(k, n + (-1))) = Size(KeptOf(k, Size(n) + 1))
        BY <3>2, <3>3 DEF KeptOf, Size, MAX_MAGNITUDE, DoubleBase
      <4> QED  BY <4>1, <4>2 DEF n
    <3>4. CASE ~is_negative16(r)
      <4>1. Number(store', k) = KeptOf(k, n + 1)
        <5>1. Commit(Plus(Fetched, k, One))
          BY <3>1, <3>4 DEF Away
        <5> QED  BY <3>2, <5>1, PlusExact, Numerals
      <4> HIDE DEF n
      <4>2. Size(n) = n
        BY <3>2, <3>4 DEF Size
      <4> QED  BY <4>1, <4>2 DEF n
    <3> QED  BY <3>3, <3>4
  <2>10. ASSUME m = "DIM", k \notin {Z, ZERO}
         PROVE  Size(Number(store', k)) = IF Number(store, k) = 0 THEN 0
                                          ELSE Size(Number(store, k)) - 1
    <3> DEFINE n == Number(store, k)
    <3>1. Commit(DIM(Fetched, k)) /\ k \in Places
      BY <2>1, <2>10
    <3>2. /\ n \in Int /\ k \in FullWidth \cup Cells
          /\ is_negative16(r) => n <= 0
          /\ ~is_negative16(r) => n >= 0
          /\ r \in {0, \o177777} <=> n = 0
          /\ -\o77777 <= n /\ n <= \o77777
          /\ k \notin {A, Q} => -\o37777 <= n /\ n <= \o37777
      BY <2>8, <2>10, <3>1
    <3>3. CASE r \in {0, \o177777}
      <4>1. Commit(Fetched) /\ n = 0
        BY <3>1, <3>2, <3>3 DEF DIM
      <4>2. Stored(store') /\ store'[L] = Normal(Fetched[L])
            /\ \A p \in Places \ {L} : store'[p] = Fetched[p]
        BY <2>2, <4>1, Committed
      <4>3. Normal(Fetched[L]) = Fetched[L]
        <5>1. Fetched[L] \in Register16 /\ ~has_overflow(Fetched[L])
          BY <2>2, FetchedReads, PlacesNamed DEF Stored
        <5> QED  BY <5>1, Corrected
      <4>4. k \in Places \ {Z} /\ store'[k] = Fetched[k]
        BY <2>10, <3>1, <4>2, <4>3
      <4>5. Number(store', k) = Number(Fetched, k)
        BY <4>4 DEF Number, read_register_operand
      <4>6. Number(Fetched, k) = 0
        BY <4>1, <4>4, FetchedReads
      <4> QED  BY <4>1, <4>5, <4>6 DEF Size
    <3>4. CASE r \notin {0, \o177777}
      <4>1. Commit(Plus(Fetched, k, Toward(r))) /\ n # 0
        BY <3>1, <3>2, <3>4 DEF DIM
      <4> HIDE DEF r
      <4>2. CASE is_negative16(r)
        <5>1. Commit(Plus(Fetched, k, One))
          BY <4>1, <4>2 DEF Toward
        <5>2. Number(store', k) = KeptOf(k, n + 1)
          BY <3>2, <5>1, PlusExact, Numerals
        <5> HIDE DEF n
        <5>3. KeptOf(k, n + 1) = n + 1 /\ n < 0
          BY <3>2, <4>1, <4>2 DEF KeptOf, MAX_MAGNITUDE, DoubleBase
        <5> QED  BY <3>2, <4>1, <5>2, <5>3 DEF Size, n
      <4>3. CASE ~is_negative16(r)
        <5>1. Commit(Plus(Fetched, k, MinusOne))
          BY <4>1, <4>3 DEF Toward
        <5>2. Number(store', k) = KeptOf(k, n + (-1))
          BY <3>2, <5>1, PlusExact, Numerals
        <5> HIDE DEF n
        <5>3. KeptOf(k, n + (-1)) = n - 1 /\ n > 0
          BY <3>2, <4>1, <4>3 DEF KeptOf, MAX_MAGNITUDE, DoubleBase
        <5> QED  BY <3>2, <4>1, <5>2, <5>3 DEF Size, n
      <4> QED  BY <4>2, <4>3
    <3> QED  BY <3>3, <3>4
  <2> HIDE DEF r
  <2> QED  BY <2>5, <2>6, <2>7, <2>9, <2>10 DEF Executed, k, m
<1>2. [][Claim]_vars <=> SumsExact
  BY DEF SumsExact
<1> HIDE DEF Claim
<1> QED  BY <1>1, <1>2, AlwaysRepresented, PTL DEF Spec

(* After every MP, A and L hold the exact product, in two words of one     *)
(* sign.                                                                   *)
THEOREM ProductsAreExact == Spec => ProductExact
<1> DEFINE Claim ==
             Executed({"MP"}) =>
               /\ AL(store') = to_i32_lossy_zero(aWord(store))
                                 * to_i32_lossy_zero(read_word(Fetched, K))
               /\ is_negative16(store'[A]) = is_negative16(store'[L])
<1>1. ASSUME Represented, [Next]_vars  PROVE [Claim]_vars
  <2> USE <1>1
  <2> SUFFICES ASSUME Executed({"MP"})  PROVE Claim
    OBVIOUS
  <2>1. K \in Places /\ Commit(MP(Fetched, K))
    BY Effects DEF Executed
  <2> DEFINE k == K
             t == MP(Fetched, k)
  <2> HIDE DEF k
  <2>2. Stored(Fetched) /\ aWord(Fetched) = aWord(store)
    BY FetchedReads, PlacesNamed DEF aWord
  <2>3. /\ Stored(t) /\ ~has_overflow(t[L])
        /\ AL(t) = to_i32_lossy_zero(aWord(store)) * to_i32_lossy_zero(read_word(Fetched, k))
        /\ is_negative16(t[A]) = is_negative16(t[L])
    BY <2>1, <2>2, Multiplied DEF k
  <2>4. Commit(t)
    BY <2>1 DEF k
  <2> HIDE DEF t
  <2>5. Normal(t[L]) = t[L] /\ A \in Places \ {L} /\ L \in Places
    <3>1. t[L] \in Register16 /\ A \in Places \ {L} /\ L \in Places
      BY <2>3, PlacesNamed DEF Stored
    <3> QED  BY <2>3, <3>1, Corrected
  <2>6. store'[A] = t[A] /\ store'[L] = t[L]
    BY <2>3, <2>4, <2>5, Committed
  <2>7. AL(store') = AL(t)
    BY <2>6 DEF AL, Number, read_register_operand, FullWidth, A, L, ZERO
  <2> QED  BY <2>3, <2>6, <2>7 DEF k
<1>2. [][Claim]_vars <=> ProductExact
  BY DEF ProductExact
<1> HIDE DEF Claim
<1> QED  BY <1>1, <1>2, AlwaysRepresented, PTL DEF Spec

(* No instruction fails, and DV divides wherever the quotient fits a word. *)
LEMMA NeverFails == Spec => []~failed
<1> DEFINE Working == ~failed /\ steps \in Nat
<1>1. ASSUME Represented, Working, [Next]_vars  PROVE Working'
  <2>1. CASE UNCHANGED vars
    BY <1>1, <2>1 DEF vars
  <2>2. CASE step
    <3> DEFINE k == K
    <3>1. steps' = steps + 1 /\ steps' # steps /\ steps' \in Nat
      BY <1>1, <2>2 DEF step
    <3>2. /\ executed'.mnemonic = "DV" => k \in Places /\ failed' = ~Divided(Fetched, k).ok
          /\ executed'.mnemonic # "DV" => UNCHANGED failed
      BY <1>1, <3>1, Effects
    <3> HIDE DEF k
    <3>3. Stored(Fetched)
      BY <1>1, FetchedReads
    <3>4. k \in Places => Divided(Fetched, k).ok
      BY <3>3, DividedSoundly
    <3> DEFINE fits == Divided(Fetched, k).ok
    <3> HIDE DEF fits
    <3>5. failed' = ~fits /\ fits => ~failed'
      OBVIOUS
    <3>6. ~failed'
      BY <1>1, <3>2, <3>4, <3>5 DEF fits
    <3> QED  BY <3>1, <3>6
  <2> QED  BY <1>1, <2>1, <2>2 DEF Next
<1>2. Init => Working
  BY DEF Init
<1>3. Working => ~failed
  OBVIOUS
<1> HIDE DEF Working
<1> QED  BY <1>1, <1>2, <1>3, AlwaysRepresented, PTL DEF Spec

(* DV of a dividend whose quotient fits a word leaves that quotient and    *)
(* the remainder, and no DV, nor any other instruction, fails.             *)
THEOREM DivisionsAreExact == Spec => DivisionExact
<1> DEFINE Claim ==
             /\ ~failed'
             /\ Divides =>
                  /\ Number(store', A) * Number(store, K) + Number(store', L) = Dividend
                  /\ Size(Number(store', L)) < Size(Number(store, K))
                  /\ Number(store', L) # 0 => (Number(store', L) < 0) = (Dividend < 0)
<1>1. ASSUME Represented, (~failed)', [Next]_vars  PROVE [Claim]_vars
  <2> SUFFICES ASSUME Divides
               PROVE  /\ Number(store', A) * Number(store, K) + Number(store', L) = Dividend
                      /\ Size(Number(store', L)) < Size(Number(store, K))
                      /\ Number(store', L) # 0 => (Number(store', L) < 0) = (Dividend < 0)
    BY <1>1
  <2> DEFINE k == K
             a == Divided(Fetched, k).A
             l == Divided(Fetched, k).L
             t == [Fetched EXCEPT ![A] = a]
             u == [t EXCEPT ![L] = l]
             n == to_i32_lossy_zero(store[k])
  <2>1. k \in Cells /\ Commit(DV(Fetched, k))
    BY <1>1, Effects DEF Divides, Executed
  <2>2. /\ Size(Dividend) < Size(Number(store, k)) * DoubleBase
        /\ ~(store[L] = \o177777 /\ Number(store, A) > 0)
    BY DEF Divides
  <2> HIDE DEF k
  <2>3. k \in Places \ {Z} /\ A \in Places \ {Z} /\ L \in Places \ {Z} /\ A # L
        /\ A \in FullWidth /\ L \in FullWidth
    BY <2>1, PlacesNamed DEF FullWidth
  <2>4. /\ Stored(Fetched) /\ Stored(store) /\ ~has_overflow(Fetched[L])
        /\ Fetched[A] = store[A] /\ Fetched[L] = store[L] /\ Fetched[k] = store[k]
    BY <1>1, <2>3, FetchedReads
  <2>5. a \in Register16 /\ l \in Register16 /\ DividedExactly(Fetched, k, a, l)
    BY <2>3, <2>4, DividedSoundly
  <2>6. Commit(u)
    BY <2>1 DEF DV
  <2> HIDE DEF a, l
  <2>7. Number(store, k) = n /\ n \in Int
    <3>1. read_register_operand(store, k) = SignExtend(store[k]) /\ store[k] \in Word
      BY <2>1, <2>4, ReadPlaces
    <3>2. value16(SignExtend(store[k])) = n
      BY <3>1, Extended
    <3>3. n \in Int
      BY <3>1, Magnitudes
    <3> QED  BY <3>1, <3>2, <3>3 DEF Number
  <2>8. Dividend = to_i32_lossy_zero(aWord(Fetched)) * \o40000 + value16(Fetched[L])
    <3>1. aWord(Fetched) = aWord(store) /\ Number(store, L) = value16(Fetched[L])
      BY <2>3, <2>4, ReadPlaces DEF aWord, Number
    <3> QED  BY <3>1 DEF Dividend, DoubleBase
  <2>9. ~(Fetched[L] = \o177777 /\ to_i32_lossy_zero(aWord(Fetched)) > 0)
    <3>1. store[A] \in Register16 /\ Number(store, A) = value16(store[A])
      BY <2>3, <2>4, ReadPlaces DEF Number, Stored
    <3>2. to_i32_lossy_zero(OverflowCorrect(store[A])) > 0 => value16(store[A]) > 0
      <4> DEFINE r == store[A]
      <4> HIDE DEF r
      <4>1. r \in Register16 => (to_i32_lossy_zero(OverflowCorrect(r)) > 0 => value16(r) > 0)
        BY DEF Register16, OverflowCorrect, to_i32_lossy_zero, is_negative, value16, is_negative16
      <4> QED  BY <3>1, <4>1 DEF r
    <3> QED  BY <2>2, <2>4, <3>1, <3>2 DEF aWord
  <2> HIDE DEF n
  <2>10. /\ value16(a) * n + value16(l) = Dividend
         /\ Size(value16(l)) < Size(n)
         /\ value16(l) # 0 => (value16(l) < 0 <=> Dividend < 0)
         /\ ~has_overflow(l)
    <3>1. n = to_i32_lossy_zero(Fetched[k])
      BY <2>4 DEF n
    <3> QED  BY <2>1, <2>2, <2>4, <2>5, <2>7, <2>8, <2>9, <3>1 DEF DividedExactly, DoubleBase
  <2>11. Stored(t) /\ t[A] = a
    BY <2>3, <2>4, <2>5, Loads
  <2> HIDE DEF t
  <2>12. Stored(u) /\ u[L] = l /\ u[A] = a
    BY <2>3, <2>5, <2>11, Loads
  <2> HIDE DEF u
  <2>13. Normal(l) = l
    BY <2>5, <2>10, Corrected
  <2>14. Stored(store') /\ store'[A] = a /\ store'[L] = l
    BY <2>3, <2>6, <2>12, <2>13, Committed
  <2>15. Number(store', A) = value16(a) /\ Number(store', L) = value16(l)
    BY <2>3, <2>14, ReadPlaces DEF Number
  <2>16. (value16(l) < 0 <=> Dividend < 0) <=> (Number(store', L) < 0) = (Dividend < 0)
    BY <2>15
  <2> QED  BY ONLY <2>7, <2>10, <2>15, <2>16 DEF k
<1>2. [][Claim]_vars <=> DivisionExact
  BY DEF DivisionExact
<1> HIDE DEF Claim
<1> QED  BY <1>1, <1>2, AlwaysRepresented, NeverFails, PTL DEF Spec

(* How far Z has moved, which it does modulo 2^12.                         *)
Distance(z, n) == (((z + n) % \o10000) - z) % \o10000

LEMMA Apart ==
  ASSUME NEW z \in Code!Address, NEW n \in 0 .. 3
  PROVE  Distance(z, n) = n
<1>1. \A x \in Code!Address : x \in Nat /\ x <= \o7777
  BY DEF Code!Address, Code!LastAddress
<1>2. z \in Nat /\ z <= \o7777 /\ (n = 0 \/ n = 1 \/ n = 2 \/ n = 3)
  BY <1>1
<1>3. (z + n) % \o10000 = IF z + n <= \o7777 THEN z + n ELSE z + n - \o10000
  BY <1>2
<1>4. CASE z + n <= \o7777
  BY <1>2, <1>3, <1>4 DEF Distance
<1>5. CASE ~(z + n <= \o7777)
  BY <1>2, <1>3, <1>5 DEF Distance
<1> QED  BY <1>4, <1>5

LEMMA Counted ==
  ASSUME NEW r \in Register16
  PROVE  value16(IF Magnitude(r) = 0 THEN 0 ELSE Magnitude(r) - 1)
           = IF value16(r) = 0 THEN 0 ELSE Size(value16(r)) - 1
<1>1. Magnitude(r) \in Nat /\ Magnitude(r) <= \o77777 /\ Magnitude(r) = Size(value16(r))
  BY DEF Magnitude, Register16, is_negative16, Complement16, value16, Size
<1> DEFINE m == Magnitude(r)
<1> HIDE DEF m
<1>2. m \in Nat /\ m <= \o77777 =>
        value16(IF m = 0 THEN 0 ELSE m - 1) = IF m = 0 THEN 0 ELSE m - 1
  BY DEF value16, is_negative16
<1>3. Size(value16(r)) = 0 <=> value16(r) = 0
  BY Sized16 DEF Size
<1> QED  BY <1>1, <1>2, <1>3 DEF m

(* The way that CCS takes: by the full register for A, L and Q, by the     *)
(* word for the others, which have no overflow.                            *)
Way(k, r) ==
  LET w == OverflowCorrect(r)
  IN  IF k < EB /\ overflow_sign(r) = 1 THEN 0
      ELSE IF k < EB /\ overflow_sign(r) = -1 THEN 2
      ELSE IF w = 0 THEN 1
      ELSE IF w = \o77777 THEN 3
      ELSE IF is_negative(w) THEN 2 ELSE 0

LEMMA Ways ==
  ASSUME NEW k \in Nat, NEW r \in Register16, k < EB \/ ~has_overflow(r)
  PROVE  /\ Way(k, r) \in 0 .. 3
         /\ Way(k, r) = IF value16(r) > 0 THEN 0 ELSE IF value16(r) < 0 THEN 2
                        ELSE IF r = 0 THEN 1 ELSE 3
<1>1. /\ r \in Nat /\ r <= \o177777
      /\ r \div \o40000 \in {0, 1, 2, 3} /\ r % \o40000 \in Nat /\ r % \o40000 < \o40000
      /\ r = (r \div \o40000) * \o40000 + (r % \o40000)
      /\ r \div \o100000 = IF r \div \o40000 \in {2, 3} THEN 1 ELSE 0
  BY DEF Register16
<1> DEFINE q == r \div \o40000
           m == r % \o40000
           w == OverflowCorrect(r)
<1>2. w = m + (IF q \in {2, 3} THEN \o40000 ELSE 0)
  BY <1>1 DEF OverflowCorrect
<1>3. /\ overflow_sign(r) = (IF q = 1 THEN 1 ELSE IF q = 2 THEN -1 ELSE 0)
      /\ has_overflow(r) <=> q \in {1, 2}
      /\ value16(r) = (IF q \in {2, 3} THEN r - \o177777 ELSE r)
  BY <1>1 DEF overflow_sign, has_overflow, value16, is_negative16
<1>4. Way(k, r) = IF k < EB /\ overflow_sign(r) = 1 THEN 0
                  ELSE IF k < EB /\ overflow_sign(r) = -1 THEN 2
                  ELSE IF w = 0 THEN 1
                  ELSE IF w = \o77777 THEN 3
                  ELSE IF is_negative(w) THEN 2 ELSE 0
  BY DEF Way
<1> HIDE DEF w, q, m
<1>5. q \in {0, 1, 2, 3} /\ m \in Nat /\ m < \o40000 /\ r = q * \o40000 + m
  BY <1>1 DEF q, m
<1>6. CASE q = 0
  BY <1>2, <1>3, <1>4, <1>5, <1>6 DEF is_negative
<1>7. CASE q = 1
  BY <1>2, <1>3, <1>4, <1>5, <1>7 DEF is_negative
<1>8. CASE q = 2
  BY <1>2, <1>3, <1>4, <1>5, <1>8 DEF is_negative
<1>9. CASE q = 3
  BY <1>2, <1>3, <1>4, <1>5, <1>9 DEF is_negative
<1> QED  BY <1>5, <1>6, <1>7, <1>8, <1>9

(* CCS diminishes the magnitude and branches on the sign, for every        *)
(* operand, overflowed registers and both zeros among them.                *)
THEOREM CcsCounting == Spec => CcsCounts
<1> DEFINE Claim ==
             Executed({"CCS"}) =>
               LET n == Number(Fetched, K)
                   way == (store'[Z] - Fetched[Z]) % \o10000
               IN  /\ Number(store', A) = IF n = 0 THEN 0 ELSE Size(n) - 1
                   /\ way = IF n > 0 THEN 0 ELSE IF n < 0 THEN 2
                            ELSE IF read_register_operand(Fetched, K) = 0 THEN 1 ELSE 3
<1>1. ASSUME Represented, [Next]_vars  PROVE [Claim]_vars
  <2> SUFFICES ASSUME Executed({"CCS"})  PROVE Claim
    OBVIOUS
  <2>1. K \in Places /\ Commit(CCS(Fetched, K))
    BY <1>1, Effects DEF Executed
  <2> DEFINE k == K
             r == read_register_operand(Fetched, k)
             c == IF Magnitude(r) = 0 THEN 0 ELSE Magnitude(r) - 1
             words == Way(k, r)
             t == [Fetched EXCEPT ![A] = c]
             u == skip(t, words)
  <2>2. Commit(u)
    BY <2>1 DEF CCS, Way
  <2> HIDE DEF k
  <2>3. Stored(Fetched) /\ k \in Places /\ k \in Nat
    BY <1>1, <2>1, FetchedReads, PlacesNamed DEF k
  <2>4. r \in Register16
    BY <2>3, Reads
  <2>5. k < EB \/ ~has_overflow(r)
    <3>1. CASE k \in FullWidth
      BY <3>1 DEF FullWidth, EB, A, L, Q
    <3>2. CASE k \in Cells
      BY <2>3, <3>2, ReadPlaces
    <3>3. CASE k = ZERO
      BY <3>3 DEF read_register_operand, has_overflow
    <3>4. CASE k = Z
      <4>1. r = SignExtend(Fetched[Z]) /\ Fetched[Z] \in Code!Address /\ Code!Address \subseteq Word
        <5>1. Z # ZERO /\ Z \notin FullWidth /\ Z \in Places
          BY PlacesNamed
        <5>2. Code!Address \subseteq Word
          BY DEF Word, Code!Address, Code!LastAddress
        <5> QED  BY <2>3, <3>4, <5>1, <5>2 DEF read_register_operand, Stored
      <4> QED  BY <4>1, Extended
    <3> QED  BY <2>3, <3>1, <3>2, <3>3, <3>4 DEF Places
  <2>6. Number(Fetched, k) = value16(r)
    BY DEF Number
  <2> HIDE DEF r
  <2>7. c \in Register16 /\ value16(c) = IF value16(r) = 0 THEN 0 ELSE Size(value16(r)) - 1
    BY <2>4, Chosen, Counted
  <2>8. /\ words \in 0 .. 3
        /\ words = IF value16(r) > 0 THEN 0 ELSE IF value16(r) < 0 THEN 2
                   ELSE IF r = 0 THEN 1 ELSE 3
    BY <2>3, <2>4, <2>5, Ways
  <2> HIDE DEF c, words
  <2>9. A \in FullWidth /\ A \in Places \ {L} /\ A \in Places \ {Z} /\ Z \in Places \ {L}
        /\ Z \in Places \ {A}
    BY PlacesNamed DEF FullWidth
  <2>10. Stored(t) /\ t[A] = c /\ t[Z] = Fetched[Z]
    BY <2>3, <2>7, <2>9, Loads
  <2> HIDE DEF t
  <2>11. Stored(u) /\ u[A] = c /\ u[Z] = (Fetched[Z] + words) % \o10000
    <3>1. words \in Nat
      BY <2>8
    <3> QED  BY <2>9, <2>10, <3>1, Skips
  <2> HIDE DEF u
  <2>12. Stored(store') /\ store'[A] = c /\ store'[Z] = (Fetched[Z] + words) % \o10000
    BY <2>2, <2>9, <2>11, Committed
  <2>13. Number(store', A) = value16(c)
    BY <2>9, <2>12, ReadPlaces DEF Number
  <2>14. (store'[Z] - Fetched[Z]) % \o10000 = words
    <3> DEFINE z == Fetched[Z]
    <3>1. z \in Code!Address
      BY <2>3, PlacesNamed DEF Stored
    <3> HIDE DEF z
    <3>2. Distance(z, words) = words
      <4>1. words \in 0 .. 3
        BY <2>8
      <4> QED  BY ONLY <3>1, <4>1, Apart
    <3> QED  BY <2>12, <3>2 DEF z, Distance
  <2> QED  BY <2>6, <2>7, <2>8, <2>13, <2>14 DEF k, r
<1>2. [][Claim]_vars <=> CcsCounts
  BY DEF CcsCounts
<1> HIDE DEF Claim
<1> QED  BY <1>1, <1>2, AlwaysRepresented, PTL DEF Spec

(* A TS to a cell: cell, skip and the unit left in A are together what A   *)
(* held, overflowed or not.                                                *)
THEOREM TransfersConserve == Spec => TransferConserved
<1> DEFINE Claim ==
             Executed({"TS"}) /\ K \in Cells =>
               LET skipped == (store'[Z] - Fetched[Z]) % \o10000
               IN  Number(store', K) + skipped * Number(store', A) * DoubleBase = Number(store, A)
<1>1. ASSUME Represented, [Next]_vars  PROVE [Claim]_vars
  <2> SUFFICES ASSUME Executed({"TS"}), K \in Cells  PROVE Claim
    OBVIOUS
  <2>1. Commit(transfer_to_storage(Fetched, K))
    BY <1>1, Effects DEF Executed
  <2> DEFINE k == K
             a == Fetched[A]
             n == IF has_overflow(a) THEN 1 ELSE 0
             t == write_register_operand(Fetched, k, a)
             u == skip(t, n)
             x == Left(a)
             v == [u EXCEPT ![A] = x]
  <2>2. k \in Cells
    OBVIOUS
  <2> HIDE DEF k
  <2>3. /\ k \in Places \ {A, L, Q, Z, ZERO} /\ A \in FullWidth
        /\ A \in Places \ {L, Z, k} /\ Z \in Places \ {A, L, k}
    BY <2>2, PlacesNamed DEF FullWidth
  <2>4. Stored(Fetched) /\ a \in Register16 /\ Number(store, A) = value16(a)
    <3>1. Stored(Fetched) /\ Number(store, A) = Number(Fetched, A)
      BY <1>1, <2>3, FetchedReads
    <3>2. read_register_operand(Fetched, A) = a
      BY <2>3, <3>1, ReadPlaces
    <3> QED  BY <2>3, <3>1, <3>2 DEF Number, Stored
  <2>5. Commit(v)
    BY <2>1, <2>3 DEF transfer_to_storage, k
  <2> HIDE DEF a
  <2>6. Stored(t) /\ t[k] = OverflowCorrect(a) /\ t[Z] = Fetched[Z]
    BY <2>2, <2>3, <2>4, Writes
  <2>7. n \in Nat /\ n \in 0 .. 3 /\ (n = IF overflow_sign(a) # 0 THEN 1 ELSE 0)
    BY <2>4, Sized16
  <2> HIDE DEF t, n
  <2>8. Stored(u) /\ u[k] = OverflowCorrect(a) /\ u[Z] = (Fetched[Z] + n) % \o10000
    BY <2>3, <2>6, <2>7, Skips
  <2> HIDE DEF u
  <2>9. x \in Register16 /\ value16(x) = IF overflow_sign(a) # 0 THEN overflow_sign(a) ELSE value16(a)
    <3>1. overflow_sign(a) \in {-1, 0, 1}
      BY DEF overflow_sign
    <3>2. x \in Register16
      BY <2>4, Chosen
    <3> QED  BY <3>1, <3>2, Numerals DEF Left
  <2> HIDE DEF x
  <2>10. Stored(v) /\ v[A] = x /\ v[k] = OverflowCorrect(a) /\ v[Z] = (Fetched[Z] + n) % \o10000
    BY <2>3, <2>8, <2>9, Loads
  <2> HIDE DEF v
  <2>11. /\ Stored(store') /\ store'[A] = x /\ store'[k] = OverflowCorrect(a)
         /\ store'[Z] = (Fetched[Z] + n) % \o10000
    BY <2>3, <2>5, <2>10, Committed
  <2>12. Number(store', A) = value16(x) /\ Number(store', k) = value16(Normal(a))
    BY <2>2, <2>3, <2>11, ReadPlaces DEF Number, Normal
  <2>13. (store'[Z] - Fetched[Z]) % \o10000 = n
    <3> DEFINE z == Fetched[Z]
    <3>1. z \in Code!Address
      BY <2>4, PlacesNamed DEF Stored
    <3> HIDE DEF z
    <3>2. Distance(z, n) = n
      BY <2>7, <3>1, Apart
    <3> QED  BY <2>11, <3>2 DEF z, Distance
  <2>14. value16(Normal(a)) = value16(a) - overflow_sign(a) * DoubleBase
    BY <2>4, Corrected
  <2>15. value16(a) \in Int /\ overflow_sign(a) \in {-1, 0, 1}
    BY <2>4, Sized16 DEF overflow_sign
  <2>16. Number(store', k) + n * Number(store', A) * DoubleBase = Number(store, A)
    <3>1. CASE overflow_sign(a) = 0
      BY <2>4, <2>7, <2>9, <2>12, <2>14, <2>15, <3>1 DEF DoubleBase
    <3>2. CASE overflow_sign(a) = 1
      BY <2>4, <2>7, <2>9, <2>12, <2>14, <2>15, <3>2 DEF DoubleBase
    <3>3. CASE overflow_sign(a) = -1
      BY <2>4, <2>7, <2>9, <2>12, <2>14, <2>15, <3>3 DEF DoubleBase
    <3> QED  BY <2>15, <3>1, <3>2, <3>3
  <2> QED  BY <2>13, <2>16 DEF k
<1>2. [][Claim]_vars <=> TransferConserved
  BY DEF TransferConserved
<1> HIDE DEF Claim
<1> QED  BY <1>1, <1>2, AlwaysRepresented, PTL DEF Spec

-----------------------------------------------------------------------------
(* Double sums.  A carry out of the low word is one unit of the high word. *)
LEMMA CarriedExactly ==
  ASSUME NEW high \in Register16, NEW low \in Register16, Modest(value16(high))
  PROVE  /\ add_double_precision_carry(high, low) \in Register16
         /\ value16(add_double_precision_carry(high, low))
              = value16(high) + overflow_sign(low)
<1>1. overflow_sign(low) \in {-1, 0, 1}
  BY DEF overflow_sign
<1>2. value16(high) \in Int /\ value16(One) = 1 /\ value16(MinusOne) = -1
      /\ One \in Register16 /\ MinusOne \in Register16
  BY Sized16, Numerals
<1>3. /\ AddRegister(high, One) \in Register16 /\ AddRegister(high, MinusOne) \in Register16
      /\ value16(AddRegister(high, One)) = KeptOf(A, value16(high) + value16(One))
      /\ value16(AddRegister(high, MinusOne)) = KeptOf(A, value16(high) + value16(MinusOne))
  BY <1>2, Summed
<1>4. /\ KeptOf(A, value16(high) + 1) = value16(high) + 1
      /\ KeptOf(A, value16(high) + (-1)) = value16(high) - 1
  BY <1>2 DEF KeptOf, Modest
<1> QED  BY <1>1, <1>2, <1>3, <1>4 DEF add_double_precision_carry

LEMMA SummedModestly ==
  ASSUME NEW r \in Register16, NEW s \in Register16, Modest(value16(r) + value16(s))
  PROVE  /\ AddRegister(r, s) \in Register16
         /\ value16(AddRegister(r, s)) = value16(r) + value16(s)
  BY Summed, Sized16 DEF KeptOf, Modest

LEMMA Doubled16 ==
  ASSUME NEW s, Stored(s), ~has_overflow(s[L]), Modest(2 * value16(s[A]) + 1)
  PROVE  /\ Stored(DDOUBL(s)) /\ ~has_overflow(DDOUBL(s)[L])
         /\ AL(DDOUBL(s)) = 2 * AL(s)
<1> DEFINE a == s[A]
           l == s[L]
           low == AddRegister(l, l)
           sum == AddRegister(a, a)
           high == add_double_precision_carry(sum, low)
           corrected == Normal(low)
           t == [s EXCEPT ![A] = high]
           u == [t EXCEPT ![L] = corrected]
<1>1. /\ A \in FullWidth /\ L \in FullWidth /\ A \in Places \ {L} /\ L \in Places \ {A}
      /\ a \in Register16 /\ l \in Register16
  BY PlacesNamed DEF FullWidth, Stored
<1>2. DDOUBL(s) = u
  <2>1. A # L
    BY <1>1
  <2> QED  BY <2>1 DEF DDOUBL
<1>3. AL(s) = value16(a) * DoubleBase + value16(l)
  BY <1>1, ReadPlaces DEF AL, Number
<1>4. ~has_overflow(l) /\ Modest(2 * value16(a) + 1)
  OBVIOUS
<1> HIDE DEF a, l
<1>5. /\ value16(a) \in Int /\ value16(l) \in Int
      /\ -\o37777 <= value16(l) /\ value16(l) <= \o37777
  BY <1>1, <1>4, Sized16
<1>6. low \in Register16 /\ value16(low) = 2 * value16(l)
  <2>1. Modest(value16(l) + value16(l))
    BY <1>5 DEF Modest
  <2>2. low \in Register16 /\ value16(low) = value16(l) + value16(l)
    BY <1>1, <2>1, SummedModestly
  <2> HIDE DEF low
  <2> QED  BY <1>5, <2>2
<1>7. sum \in Register16 /\ value16(sum) = 2 * value16(a) /\ Modest(value16(sum))
  <2>1. Modest(value16(a) + value16(a))
    BY <1>4, <1>5 DEF Modest
  <2>2. sum \in Register16 /\ value16(sum) = value16(a) + value16(a)
    BY <1>1, <2>1, SummedModestly
  <2> HIDE DEF sum
  <2> QED  BY <1>5, <2>1, <2>2
<1> HIDE DEF low, sum
<1>8. high \in Register16 /\ value16(high) = 2 * value16(a) + overflow_sign(low)
  BY <1>6, <1>7, CarriedExactly
<1>9. /\ corrected \in Register16 /\ ~has_overflow(corrected)
      /\ value16(corrected) = 2 * value16(l) - overflow_sign(low) * DoubleBase
  BY <1>6, Corrected
<1> HIDE DEF high, corrected
<1>10. Stored(t) /\ t[A] = high
  BY <1>1, <1>8, Loads
<1> HIDE DEF t
<1>11. Stored(u) /\ u[A] = high /\ u[L] = corrected
  BY <1>1, <1>9, <1>10, Loads
<1> HIDE DEF u
<1>12. AL(u) = value16(high) * DoubleBase + value16(corrected)
  BY <1>1, <1>11, ReadPlaces DEF AL, Number
<1>13. AL(u) = 2 * AL(s)
  <2>1. overflow_sign(low) \in {-1, 0, 1}
    BY DEF overflow_sign
  <2> QED  BY <1>3, <1>5, <1>8, <1>9, <1>12, <2>1 DEF DoubleBase
<1> QED  BY <1>2, <1>9, <1>11, <1>13

(* DAS loses nothing where no word of A and no low sum wraps around: the   *)
(* sum is in memory and, its overflow, in A; or in A and L when doubled.   *)
THEOREM DoubleSumsConserve == Spec => DoubleSumConserved
<1> DEFINE Claim ==
             Executed({"DAS"}) =>
               /\ K = L /\ Modest(2 * Number(store, A) + 1) => AL(store') = 2 * AL(store)
               /\ (/\ K \in {Q} \cup Cells
                   /\ Modest(Number(store, A) + Number(store, K - 1))
                   /\ Modest(Number(store, L) + Number(store, K))) =>
                    Number(store', A) * DoubleBase * DoubleBase + Pair(store', K)
                      = AL(store) + Pair(store, K)
<1>1. ASSUME Represented, [Next]_vars  PROVE [Claim]_vars
  <2> SUFFICES ASSUME Executed({"DAS"})  PROVE Claim
    OBVIOUS
  <2> DEFINE k == K
             j == predecessor(k)
  <2>1. k \in Places /\ j \in Places /\ Commit(DAS(Fetched, k))
    BY <1>1, Effects DEF Executed
  <2> HIDE DEF k
  <2>2. /\ {A, L, Q} \subseteq Places \ {Z} /\ A # L /\ A # Q /\ L # Q
        /\ A \in FullWidth /\ L \in FullWidth /\ Q \in FullWidth
    BY PlacesNamed DEF FullWidth
  <2>3. /\ Stored(Fetched) /\ Stored(store) /\ ~has_overflow(Fetched[L])
        /\ \A p \in Places \ {Z} : /\ Fetched[p] = store[p]
                                   /\ Number(Fetched, p) = Number(store, p)
    BY <1>1, FetchedReads
  <2>4. Number(store, A) = value16(Fetched[A]) /\ Number(store, L) = value16(Fetched[L])
    <3>1. read_register_operand(Fetched, A) = Fetched[A]
          /\ read_register_operand(Fetched, L) = Fetched[L]
      BY <2>2, <2>3, ReadPlaces
    <3>2. Number(store, A) = Number(Fetched, A) /\ Number(store, L) = Number(Fetched, L)
      BY <2>2, <2>3
    <3> QED  BY <3>1, <3>2 DEF Number
  <2>5. ASSUME k = L, Modest(2 * Number(store, A) + 1)
        PROVE  AL(store') = 2 * AL(store)
    <3> DEFINE t == DDOUBL(Fetched)
    <3>1. Commit(t)
      BY <2>1, <2>5 DEF DAS
    <3>2. Stored(t) /\ ~has_overflow(t[L]) /\ AL(t) = 2 * AL(Fetched)
      BY <2>3, <2>4, <2>5, Doubled16
    <3> HIDE DEF t
    <3>3. Normal(t[L]) = t[L]
      <4>1. t[L] \in Register16
        BY <2>2, <3>2 DEF Stored
      <4> QED  BY <3>2, <4>1, Corrected
    <3>4. Stored(store') /\ store'[A] = t[A] /\ store'[L] = t[L]
      BY <2>2, <3>1, <3>2, <3>3, Committed
    <3>5. AL(store') = AL(t)
      BY <2>2, <3>2, <3>4, ReadPlaces DEF AL, Number
    <3>6. AL(Fetched) = AL(store)
      BY <2>2, <2>3 DEF AL
    <3> QED  BY <3>2, <3>5, <3>6
  <2>6. ASSUME k \in {Q} \cup Cells,
               Modest(Number(store, A) + Number(store, k - 1)),
               Modest(Number(store, L) + Number(store, k))
        PROVE  Number(store', A) * DoubleBase * DoubleBase + Pair(store', k)
                 = AL(store) + Pair(store, k)
    <3>1. /\ j = k - 1 /\ k # L /\ k # A /\ j # A /\ j # k /\ j # Z /\ k # Z
          /\ k = Q => j = L
          /\ k \in Cells => j \in Cells
          /\ k \in FullWidth \cup Cells /\ j \in FullWidth \cup Cells
      <4>1. CASE k = Q
        BY <4>1, PlacesNamed DEF predecessor, Q, L, A, Z, FullWidth
      <4>2. CASE k \in Cells
        <5>1. k > \o60 /\ k \in Nat
          BY <4>2, ArithmeticAssumption DEF Code!Address, Code!LastAddress
        <5>2. j = k - 1 /\ j > 7
          BY <5>1 DEF predecessor
        <5>3. j \in Cells
          BY <2>1, <5>2 DEF Places, FullWidth, A, L, Q, Z, ZERO
        <5> QED  BY <4>2, <5>1, <5>2, <5>3 DEF Q, L, A, Z
      <4> QED  BY <2>6, <4>1, <4>2
    <3> HIDE DEF j
    <3> DEFINE a0 == Fetched[A]
               l0 == Fetched[L]
               rk == read_register_operand(Fetched, k)
               rj == read_register_operand(Fetched, j)
               low == AddRegister(l0, rk)
               sum == AddRegister(a0, rj)
               high == add_double_precision_carry(sum, low)
               a == IF overflow_sign(high) = -1 THEN MinusOne ELSE overflow_sign(high)
               s1 == [Fetched EXCEPT ![A] = a]
               t == [s1 EXCEPT ![L] = 0]
               n == Normal(low)
               u == write_register_operand(t, k, n)
               v == write_register_operand(u, j, high)
    <3>2. Commit(v)
      BY <2>1, <3>1 DEF DAS, j
    <3>3. /\ a0 \in Register16 /\ l0 \in Register16 /\ rk \in Register16 /\ rj \in Register16
          /\ Number(store, k) = value16(rk) /\ Number(store, j) = value16(rj)
      <4>1. a0 \in Register16 /\ l0 \in Register16
        BY <2>2, <2>3 DEF Stored
      <4>2. rk \in Register16 /\ rj \in Register16
        BY <2>1, <2>3, Reads DEF j
      <4>3. Number(store, k) = Number(Fetched, k) /\ Number(store, j) = Number(Fetched, j)
        BY <2>1, <2>3, <3>1 DEF j
      <4> QED  BY <4>1, <4>2, <4>3 DEF Number
    <3>4. Modest(value16(a0) + value16(rj)) /\ Modest(value16(l0) + value16(rk))
      BY <2>4, <2>6, <3>1, <3>3
    <3>5. /\ AL(store) = value16(a0) * DoubleBase + value16(l0)
          /\ Pair(store, k) = value16(rj) * DoubleBase + value16(rk)
      BY <2>4, <3>3 DEF AL, Pair, j
    <3> HIDE DEF a0, l0, rk, rj
    <3>6. low \in Register16 /\ value16(low) = value16(l0) + value16(rk)
      BY <3>3, <3>4, SummedModestly
    <3>7. sum \in Register16 /\ value16(sum) = value16(a0) + value16(rj) /\ Modest(value16(sum))
      BY <3>3, <3>4, SummedModestly
    <3> HIDE DEF low, sum
    <3>8. high \in Register16 /\ value16(high) = value16(sum) + overflow_sign(low)
      BY <3>6, <3>7, CarriedExactly
    <3> HIDE DEF high
    <3>9. a \in Register16 /\ value16(a) = overflow_sign(high)
      <4>1. overflow_sign(high) \in {-1, 0, 1}
        BY DEF overflow_sign
      <4> QED  BY <4>1, Numerals DEF One
    <3>10. /\ n \in Register16 /\ ~has_overflow(n) /\ Normal(n) = n
           /\ value16(n) = value16(low) - overflow_sign(low) * DoubleBase
      <4>1. n \in Register16 /\ ~has_overflow(n)
            /\ value16(n) = value16(low) - overflow_sign(low) * DoubleBase
        BY <3>6, Corrected
      <4> HIDE DEF n
      <4> QED  BY <4>1, Corrected
    <3> HIDE DEF a, n
    <3>11. Stored(s1) /\ s1[A] = a
      BY <2>2, <2>3, <3>9, Loads
    <3> HIDE DEF s1
    <3>12. Stored(t) /\ t[A] = a
      <4>1. Stored(t) /\ \A p \in Places \ {L} : t[p] = s1[p]
        BY <2>2, <3>11, Loads, Numerals
      <4> QED  BY <2>2, <3>11, <4>1
    <3> HIDE DEF t
    <3>13. /\ Stored(u) /\ u[A] = a
           /\ k \in FullWidth => u[k] = n
           /\ k \in Cells => u[k] = OverflowCorrect(n)
      <4>1. /\ Stored(u) /\ \A p \in Places \ {k} : u[p] = t[p]
            /\ k \in FullWidth => u[k] = n
            /\ k \in Cells => u[k] = OverflowCorrect(n)
        BY <2>1, <3>10, <3>12, Writes
      <4> QED  BY <2>2, <3>1, <3>12, <4>1
    <3> HIDE DEF u
    <3>14. /\ Stored(v) /\ v[A] = a /\ v[k] = u[k]
      <4>1. /\ Stored(v) /\ \A p \in Places \ {j} : v[p] = u[p]
        <5>1. j \in Places
          BY <2>1 DEF j
        <5> QED  BY <3>8, <3>13, <5>1, Writes
      <4> QED  BY <2>1, <2>2, <3>1, <3>13, <4>1
    <3>15. Number(store', j) = IF j \in {A, Q} THEN value16(high) ELSE value16(Normal(high))
      BY <3>1, <3>2, <3>8, <3>13, WrittenReads
    <3> HIDE DEF v
    <3>16. Stored(store') /\ store'[A] = a /\ store'[k] = u[k]
      BY <2>1, <2>2, <3>1, <3>2, <3>14, Committed
    <3>17. Number(store', A) = value16(a)
      BY <2>2, <3>16, ReadPlaces DEF Number
    <3>18. Number(store', k) = value16(n)
      <4>1. CASE k \in FullWidth
        BY <3>13, <3>16, <4>1, ReadPlaces DEF Number
      <4>2. CASE k \in Cells
        <5>1. Number(store', k) = value16(Normal(n))
          BY <3>13, <3>16, <4>2, ReadPlaces DEF Number, Normal
        <5> QED  BY <3>10, <5>1
      <4> QED  BY <3>1, <4>1, <4>2
    <3>19. Number(store', j) = value16(high) - overflow_sign(high) * DoubleBase
      <4>1. j \notin {A, Q}
        <5>1. CASE k = Q
          BY <2>2, <3>1, <5>1
        <5>2. CASE k \in Cells
          BY <3>1, <5>2, PlacesNamed DEF FullWidth
        <5> QED  BY <2>6, <5>1, <5>2
      <4>2. value16(Normal(high)) = value16(high) - overflow_sign(high) * DoubleBase
        BY <3>8, Corrected
      <4> QED  BY <3>15, <4>1, <4>2
    <3>20. Pair(store', k) = Number(store', j) * DoubleBase + Number(store', k)
      BY DEF Pair, j
    <3>21. /\ value16(a0) \in Int /\ value16(l0) \in Int /\ value16(rk) \in Int /\ value16(rj) \in Int
           /\ overflow_sign(low) \in {-1, 0, 1} /\ overflow_sign(high) \in {-1, 0, 1}
      BY <3>3, Sized16 DEF overflow_sign
    <3> QED  BY ONLY <3>5, <3>6, <3>7, <3>8, <3>9, <3>10, <3>17, <3>18, <3>19, <3>20, <3>21 DEF DoubleBase
  <2> QED  BY <2>5, <2>6 DEF k
<1>2. [][Claim]_vars <=> DoubleSumConserved
  BY DEF DoubleSumConserved
<1> HIDE DEF Claim
<1> QED  BY <1>1, <1>2, AlwaysRepresented, PTL DEF Spec

(* Every computing instruction is the arithmetic of its words' numbers.    *)
THEOREM ArithmeticIsExact == Spec => ArithmeticExact
  BY SumsAreExact, DoubleSumsConserve, ProductsAreExact, DivisionsAreExact, CcsCounting
     DEF ArithmeticExact

-----------------------------------------------------------------------------
(* Exchanges.  Two places that swap their words leave every word held by   *)
(* as many places as before.                                               *)
Movable == FullWidth \cup Cells
Swapped(s, t, a, b) ==
  /\ read_word(t, a) = read_word(s, b) /\ read_word(t, b) = read_word(s, a)
  /\ \A p \in Movable \ {a, b} : read_word(t, p) = read_word(s, p)

LEMMA MovableFinite == \A s, w : IsFiniteSet(Held(s, w))
<1>1. IsFiniteSet(Cells)
  <2> DEFINE last == \o7777
             addresses == 0 .. last
  <2>1. Cells \in SUBSET addresses
    BY ArithmeticAssumption DEF Code!Address, Code!LastAddress
  <2>2. 0 \in Int /\ last \in Int
    OBVIOUS
  <2> HIDE DEF last
  <2>3. IsFiniteSet(addresses)
    BY ONLY <2>2, FS_Interval
  <2> HIDE DEF addresses
  <2> QED  BY ONLY <2>1, <2>3, FS_Subset
<1>2. IsFiniteSet(FullWidth)
  <2>1. IsFiniteSet({}) /\ FullWidth = (({} \cup {A}) \cup {L}) \cup {Q}
    BY FS_EmptySet DEF FullWidth
  <2>2. IsFiniteSet({} \cup {A})
    BY ONLY <2>1, FS_AddElement
  <2>3. IsFiniteSet(({} \cup {A}) \cup {L})
    BY ONLY <2>2, FS_AddElement
  <2>4. IsFiniteSet((({} \cup {A}) \cup {L}) \cup {Q})
    BY ONLY <2>3, FS_AddElement
  <2> QED  BY <2>1, <2>4
<1>3. IsFiniteSet(Movable)
  BY <1>1, <1>2, FS_Union DEF Movable
<1>4. ASSUME NEW s, NEW w  PROVE IsFiniteSet(Held(s, w))
  <2>1. Held(s, w) \in SUBSET Movable
    BY DEF Held, Movable
  <2> QED  BY <1>3, <2>1, FS_Subset
<1> QED  BY <1>4

LEMMA SwapsHold ==
  ASSUME NEW s, NEW t, NEW a \in Movable, NEW b \in Movable, Swapped(s, t, a, b), NEW w
  PROVE  Cardinality(Held(t, w)) = Cardinality(Held(s, w))
<1> DEFINE S == Held(s, w)
           T == Held(t, w)
           other(p) == IF p = a THEN b ELSE IF p = b THEN a ELSE p
           f == [p \in S |-> other(p)]
<1>1. /\ \A p \in S : p \in Movable /\ read_word(s, p) = w
      /\ \A p \in Movable : read_word(s, p) = w => p \in S
      /\ \A p \in T : p \in Movable /\ read_word(t, p) = w
      /\ \A p \in Movable : read_word(t, p) = w => p \in T
  BY DEF Held, Movable
<1>2. \A p \in Movable : other(p) \in Movable /\ read_word(t, other(p)) = read_word(s, p)
                         /\ other(other(p)) = p
  BY DEF Swapped
<1> HIDE DEF S, T
<1>3. f \in [S -> T]
  BY <1>1, <1>2
<1>4. \A p, q \in S : f[p] = f[q] => p = q
  BY <1>1, <1>2
<1>5. ASSUME NEW q \in T  PROVE \E p \in S : f[p] = q
  <2> DEFINE p == other(q)
  <2>1. p \in Movable /\ other(p) = q /\ read_word(s, p) = w
    BY <1>1, <1>2
  <2>2. p \in S
    BY <1>1, <2>1
  <2>3. f[p] = q
    BY <2>1, <2>2
  <2> QED  BY <2>2, <2>3
<1> HIDE DEF f, other
<1>6. f \in Bijection(S, T)
  BY <1>3, <1>4, <1>5 DEF Bijection, Injection, Surjection, IsInjective
<1>7. IsFiniteSet(S)
  BY MovableFinite DEF S
<1>8. Cardinality(T) = Cardinality(S)
  BY <1>6, <1>7, FS_Bijection DEF ExistsBijection
<1> QED  BY <1>8 DEF S, T

(* One exchange of a register with a place.                                *)
Exchanged(s, k, r) == [write_register_operand(s, k, s[r]) EXCEPT ![r] = read_register_operand(s, k)]
Even(s) == Stored(s) /\ \A p \in FullWidth : ~has_overflow(s[p])

LEMMA EvenWords ==
  ASSUME NEW s, Even(s)
  PROVE  /\ \A p \in Movable : /\ read_register_operand(s, p) \in Register16
                               /\ ~has_overflow(read_register_operand(s, p))
         /\ \A p \in FullWidth : /\ read_register_operand(s, p) = s[p]
                                 /\ read_word(s, p) = OverflowCorrect(s[p])
         /\ \A p \in Cells : read_word(s, p) = s[p]
<1>1. Stored(s) /\ \A p \in FullWidth : ~has_overflow(s[p])
  BY DEF Even
<1>2. Movable \subseteq Places
  BY DEF Movable, Places
<1>3. \A w \in Word : OverflowCorrect(SignExtend(w)) = w
  BY Extended
<1> QED  BY <1>1, <1>2, <1>3, Reads, ReadPlaces DEF Movable, read_word

LEMMA ExchangeSwaps ==
  ASSUME NEW s, Even(s), NEW k \in Movable, NEW r \in FullWidth
  PROVE  Even(Exchanged(s, k, r)) /\ Swapped(s, Exchanged(s, k, r), k, r)
<1> DEFINE x == s[r]
           y == read_register_operand(s, k)
           t == write_register_operand(s, k, x)
           u == [t EXCEPT ![r] = y]
<1>1. /\ Stored(s) /\ k \in Places /\ r \in Places
      /\ x \in Register16 /\ ~has_overflow(x) /\ y \in Register16 /\ ~has_overflow(y)
      /\ OverflowCorrect(x) = read_word(s, r) /\ OverflowCorrect(y) = read_word(s, k)
      /\ r \in Movable
  <2>1. Stored(s) /\ k \in Places /\ r \in Places /\ r \in Movable
    BY DEF Even, Movable, Places
  <2>2. x \in Register16 /\ ~has_overflow(x)
    BY <2>1 DEF Even, Stored
  <2>3. y \in Register16 /\ ~has_overflow(y)
    BY EvenWords
  <2>4. OverflowCorrect(x) = read_word(s, r) /\ OverflowCorrect(y) = read_word(s, k)
    BY EvenWords DEF read_word
  <2> QED  BY <2>1, <2>2, <2>3, <2>4
<1>2. /\ \A p \in FullWidth : p \notin Cells
      /\ \A p \in Movable : p \in Places /\ (p \in FullWidth \/ p \in Cells)
  BY PlacesNamed DEF Movable, Places
<1> HIDE DEF x, y
<1>3. /\ Stored(t)
      /\ \A p \in Places \ {k} : t[p] = s[p]
      /\ k \in FullWidth => t[k] = x
      /\ k \in Cells => t[k] = OverflowCorrect(x)
  BY <1>1, Writes
<1> HIDE DEF t
<1>4. /\ Stored(u) /\ u[r] = y
      /\ \A p \in Places \ {r} : u[p] = t[p]
  BY <1>1, <1>3, Loads
<1> HIDE DEF u
<1>5. \A p \in FullWidth : ~has_overflow(u[p])
  <2> SUFFICES ASSUME NEW p \in FullWidth  PROVE ~has_overflow(u[p])
    OBVIOUS
  <2>1. p \in Places
    BY DEF Places
  <2>2. CASE p = r
    BY <1>1, <1>4, <2>2
  <2>3. CASE p # r /\ p = k
    BY <1>1, <1>3, <1>4, <2>1, <2>3
  <2>4. CASE p # r /\ p # k
    BY <1>3, <1>4, <2>1, <2>4 DEF Even
  <2> QED  BY <2>2, <2>3, <2>4
<1>6. Even(u)
  BY <1>4, <1>5 DEF Even
<1>7. read_word(u, r) = read_word(s, k)
  BY <1>1, <1>4, <1>6, EvenWords
<1>8. read_word(u, k) = read_word(s, r)
  <2>1. CASE k = r
    BY <1>7, <2>1
  <2>2. CASE k # r /\ k \in FullWidth
    BY <1>1, <1>3, <1>4, <1>6, <2>2, EvenWords
  <2>3. CASE k # r /\ k \in Cells
    BY <1>1, <1>3, <1>4, <1>6, <2>3, EvenWords
  <2> QED  BY <1>2, <2>1, <2>2, <2>3
<1>9. \A p \in Movable \ {k, r} : read_word(u, p) = read_word(s, p)
  BY <1>2, <1>3, <1>4 DEF read_word, read_register_operand
<1>10. Exchanged(s, k, r) = u
  BY DEF Exchanged, u, t, x, y
<1> QED  BY <1>6, <1>7, <1>8, <1>9, <1>10 DEF Swapped

(* Which places hold which word: the same number of them everywhere.       *)
Permuted(s, t) == \A w : Cardinality(Held(t, w)) = Cardinality(Held(s, w))

LEMMA ExchangePermutes ==
  ASSUME NEW s, Even(s), NEW k \in Movable, NEW r \in FullWidth
  PROVE  Even(Exchanged(s, k, r)) /\ Permuted(s, Exchanged(s, k, r))
<1> DEFINE t == Exchanged(s, k, r)
<1>1. Even(t) /\ Swapped(s, t, k, r)
  BY ExchangeSwaps
<1>2. r \in Movable
  BY DEF Movable
<1> HIDE DEF t
<1>3. Permuted(s, t)
  BY <1>1, <1>2, SwapsHold DEF Permuted
<1> QED  BY <1>1, <1>3 DEF t

LEMMA ExchangeRegister ==
  ASSUME NEW s, Even(s), NEW k \in Movable, NEW r \in FullWidth
  PROVE  Even(exchange_register(s, k, r)) /\ Permuted(s, exchange_register(s, k, r))
<1>1. k # ZERO
  BY PlacesNamed DEF Movable
<1>2. CASE k = r
  BY <1>2 DEF exchange_register, Permuted
<1>3. CASE k # r
  BY <1>1, <1>3, ExchangePermutes DEF exchange_register, Exchanged
<1> QED  BY <1>2, <1>3

LEMMA ExchangeDouble ==
  ASSUME NEW s, Even(s), NEW k \in Movable, predecessor(k) \in Places
  PROVE  Even(DXCH(s, k)) /\ Permuted(s, DXCH(s, k))
<1> DEFINE h == predecessor(k)
           t == Exchanged(s, k, L)
           u == Exchanged(t, h, A)
<1>1. A \in FullWidth /\ L \in FullWidth /\ L \in Places
  BY PlacesNamed DEF FullWidth
<1>2. CASE k = L
  <2>1. s[L] \in Register16 /\ ~has_overflow(s[L])
    BY <1>1 DEF Even, Stored
  <2>2. Normal(s[L]) = s[L]
    BY <2>1, Corrected
  <2>3. DXCH(s, k) = [s EXCEPT ![L] = s[L]]
    BY <1>2, <2>2 DEF DXCH
  <2>4. [s EXCEPT ![L] = s[L]] = s
    BY <1>1 DEF Even, Stored
  <2> QED  BY <2>3, <2>4 DEF Permuted
<1>3. CASE k # L
  <2>1. h \in Movable
    <3>1. CASE k \in Cells
      <4>1. k > \o60 /\ k \in Nat
        BY <3>1, ArithmeticAssumption DEF Code!Address, Code!LastAddress
      <4>2. h > 7
        BY <4>1 DEF predecessor
      <4> QED  BY <4>2 DEF Movable, Places, FullWidth, A, L, Q, Z, ZERO
    <3>2. CASE k \in FullWidth
      BY <3>2 DEF predecessor, Movable, FullWidth, A, L, Q
    <3> QED  BY <3>1, <3>2 DEF Movable
  <2>2. Normal(read_register_operand(s, k)) = read_register_operand(s, k)
    BY EvenWords, Corrected
  <2>3. DXCH(s, k) = u
    BY <1>3, <2>2 DEF DXCH, Exchanged
  <2>4. Even(t) /\ Permuted(s, t)
    BY <1>1, ExchangePermutes
  <2> HIDE DEF t, h
  <2>5. Even(u) /\ Permuted(t, u)
    BY <1>1, <2>1, <2>4, ExchangePermutes
  <2> QED  BY <2>3, <2>4, <2>5 DEF Permuted
<1> QED  BY <1>2, <1>3

(* XCH, LXCH, QXCH and DXCH rearrange the words of registers and cells,    *)
(* whatever the places they name: none is lost and none is doubled.        *)
THEOREM ExchangesArePermutations == Spec => ExchangesPermute
<1> DEFINE Claim ==
             Executed({"XCH", "LXCH", "QXCH", "DXCH"}) /\ K \in FullWidth \cup Cells
             /\ (\A r \in {A, Q} : ~has_overflow(store[r])) =>
               \A p \in FullWidth \cup Cells :
                 LET w == read_word(store, p)
                 IN  Cardinality(Held(store', w)) = Cardinality(Held(store, w))
<1>1. ASSUME Represented, [Next]_vars  PROVE [Claim]_vars
  <2> SUFFICES ASSUME Executed({"XCH", "LXCH", "QXCH", "DXCH"}), K \in FullWidth \cup Cells,
                      \A r \in {A, Q} : ~has_overflow(store[r])
               PROVE  Claim
    OBVIOUS
  <2> DEFINE k == K
  <2>1. /\ executed'.mnemonic \in {"XCH", "LXCH", "QXCH", "DXCH"}
        /\ executed'.mnemonic = "XCH" => Commit(XCH(Fetched, k))
        /\ executed'.mnemonic = "LXCH" => Commit(LXCH(Fetched, k))
        /\ executed'.mnemonic = "QXCH" => Commit(QXCH(Fetched, k))
        /\ executed'.mnemonic = "DXCH" => predecessor(k) \in Places /\ Commit(DXCH(Fetched, k))
        /\ k \in Movable
    BY <1>1, Effects DEF Executed, Movable
  <2> HIDE DEF k
  <2>2. /\ Stored(Fetched) /\ ~has_overflow(Fetched[L])
        /\ \A p \in Places \ {Z} : /\ Fetched[p] = store[p]
                                   /\ read_register_operand(Fetched, p)
                                        = read_register_operand(store, p)
    BY <1>1, FetchedReads
  <2>3. /\ Movable \subseteq Places \ {Z} /\ A \in Movable /\ Q \in Movable
        /\ A \in FullWidth /\ L \in FullWidth /\ Q \in FullWidth /\ FullWidth = {A, L, Q}
        /\ Movable \subseteq Places /\ L \in Places
    BY PlacesNamed DEF Movable, Places, FullWidth
  <2>4. Even(Fetched)
    BY <2>2, <2>3 DEF Even
  <2>5. Permuted(store, Fetched)
    <3>1. \A p \in Movable : read_word(Fetched, p) = read_word(store, p)
      BY <2>2, <2>3 DEF read_word
    <3>2. ASSUME NEW w  PROVE Held(Fetched, w) = Held(store, w)
      BY <3>1 DEF Held, Movable
    <3> QED  BY <3>2 DEF Permuted
  <2>6. PICK t : Even(t) /\ Permuted(Fetched, t) /\ Commit(t)
    <3>1. CASE executed'.mnemonic = "XCH"
      BY <2>1, <2>3, <2>4, <3>1, ExchangeRegister DEF XCH
    <3>2. CASE executed'.mnemonic = "LXCH"
      BY <2>1, <2>3, <2>4, <3>2, ExchangeRegister DEF LXCH
    <3>3. CASE executed'.mnemonic = "QXCH"
      BY <2>1, <2>3, <2>4, <3>3, ExchangeRegister DEF QXCH
    <3>4. CASE executed'.mnemonic = "DXCH"
      BY <2>1, <2>4, <3>4, ExchangeDouble
    <3> QED  BY <2>1, <3>1, <3>2, <3>3, <3>4
  <2>7. Permuted(t, store')
    <3>1. t[L] \in Register16 /\ ~has_overflow(t[L]) /\ Stored(t)
      BY <2>3, <2>6 DEF Even, Stored
    <3>2. Normal(t[L]) = t[L]
      BY <3>1, Corrected
    <3>3. store'[L] = Normal(t[L]) /\ \A p \in Places \ {L} : store'[p] = t[p]
      BY <2>6, <3>1, Committed
    <3>4. \A p \in Places : store'[p] = t[p]
      BY <3>2, <3>3
    <3>5. \A p \in Movable : read_word(store', p) = read_word(t, p)
      BY <2>3, <3>4 DEF read_word, read_register_operand
    <3>6. ASSUME NEW w  PROVE Held(store', w) = Held(t, w)
      BY <3>5 DEF Held, Movable
    <3> QED  BY <3>6 DEF Permuted
  <2>8. \A w : Cardinality(Held(store', w)) = Cardinality(Held(store, w))
    BY <2>5, <2>6, <2>7 DEF Permuted
  <2> QED  BY <2>8
<1>2. [][Claim]_vars <=> ExchangesPermute
  BY DEF ExchangesPermute
<1> HIDE DEF Claim
<1> QED  BY <1>1, <1>2, AlwaysRepresented, PTL DEF Spec

(* Every moving instruction keeps what it moves.                           *)
THEOREM MovesLoseNothing == Spec => NothingLost
  BY ExchangesArePermutations, TransfersConserve DEF NothingLost

-----------------------------------------------------------------------------
(***************************************************************************)
(* The trial subtractions.  After i of them the quotient register holds,   *)
(* from the top, the bit just shifted out, the low bits of the dividend    *)
(* still to come and i bits of quotient; the remainder register holds the  *)
(* complement of the remainder so far.  `done' is 2^i, `left' 2^(14 - i).  *)
(***************************************************************************)
Halfway(state, n, divisor, done, left, quotient, remainder, out, rest) ==
  /\ state = [quotient |-> \o100000 * out + 2 * done * rest + quotient,
              remainder |-> \o177777 - remainder]
  /\ n = (quotient * divisor + remainder) * left + rest
Reached(state, n, divisor, done, left) ==
  \E quotient \in 0 .. done - 1, remainder \in 0 .. divisor - 1, out \in {0, 1},
     rest \in 0 .. left - 1 :
    Halfway(state, n, divisor, done, left, quotient, remainder, out, rest)

(* One trial: the next bit of the dividend comes in, and the divisor is    *)
(* subtracted if it can be.                                                *)
LEMMA OneTrial ==
  ASSUME NEW divisor \in Nat, divisor <= \o37777, NEW r \in Nat, r < divisor,
         NEW q \in Nat, q <= \o177777
  PROVE  LET x == 2 * r + ((q \div \o40000) % 2)
         IN  Trial(divisor, [quotient |-> q, remainder |-> \o177777 - r]) =
               IF x >= divisor
               THEN [quotient |-> ((2 * q) % \o200000) + 1, remainder |-> \o177777 - (x - divisor)]
               ELSE [quotient |-> (2 * q) % \o200000, remainder |-> \o177777 - x]
<1> DEFINE bit == (q \div \o40000) % 2
           x == 2 * r + bit
           old == \o177777 - r
           twice == (2 * q) % \o200000
           in == Doubled(old) + IF is_negative16(twice) THEN 0 ELSE old \div \o100000
           sum == AddRegister(in, divisor)
<1>1. bit \in {0, 1} /\ (is_negative16(twice) <=> bit = 1)
  BY DEF is_negative16
<1>2. Doubled(old) = \o177776 - 2 * r /\ old \div \o100000 = 1
  BY DEF Doubled
<1> HIDE DEF bit, twice
<1>3. in = \o177777 - x /\ x \in Nat /\ x < 2 * divisor
  BY <1>1, <1>2
<1> HIDE DEF x, in
<1>4. IF x >= divisor THEN sum = \o177777 - (x - divisor) /\ is_negative16(sum)
                      ELSE ~is_negative16(sum)
  BY <1>3 DEF AddRegister, is_negative16
<1> DEFINE state == [quotient |-> q, remainder |-> old]
<1>5. state.quotient = q /\ state.remainder = old
  OBVIOUS
<1> HIDE DEF state, old
<1>6. Trial(divisor, state) = IF is_negative16(sum) THEN [quotient |-> twice + 1, remainder |-> sum]
                              ELSE [quotient |-> twice, remainder |-> in]
  BY <1>5 DEF Trial, twice, in
<1> HIDE DEF sum
<1>7. Trial(divisor, state) =
        IF x >= divisor THEN [quotient |-> twice + 1, remainder |-> \o177777 - (x - divisor)]
        ELSE [quotient |-> twice, remainder |-> \o177777 - x]
  BY <1>3, <1>4, <1>6
<1> QED  BY <1>7 DEF state, old, x, bit, twice

LEMMA TrialReaches ==
  ASSUME NEW state, NEW n \in Nat, NEW divisor \in Nat, divisor <= \o37777,
         NEW done \in Nat, NEW left \in Nat, done * left = \o20000,
         Reached(state, n, divisor, done, 2 * left)
  PROVE  Reached(Trial(divisor, state), n, divisor, 2 * done, left)
<1>0. PICK quotient \in 0 .. done - 1, remainder \in 0 .. divisor - 1, out \in {0, 1},
           rest \in 0 .. 2 * left - 1 :
        Halfway(state, n, divisor, done, 2 * left, quotient, remainder, out, rest)
  BY DEF Reached
<1>1. /\ state = [quotient |-> \o100000 * out + 2 * done * rest + quotient,
                  remainder |-> \o177777 - remainder]
      /\ n = (quotient * divisor + remainder) * (2 * left) + rest
  BY <1>0 DEF Halfway
<1> DEFINE bit == IF rest >= left THEN 1 ELSE 0
           less == rest - bit * left
           q == \o100000 * out + 2 * done * rest + quotient
           x == 2 * remainder + bit
           more == IF x >= divisor THEN 1 ELSE 0
           next == 2 * quotient + more
           over == x - more * divisor
<1>2. bit \in {0, 1} /\ less \in 0 .. left - 1 /\ rest = bit * left + less
  OBVIOUS
<1>3. done * rest = bit * \o20000 + done * less
  <2>1. done * rest = done * (bit * left) + done * less
    BY <1>2
  <2>2. done * (bit * left) = bit * \o20000
    BY <1>2
  <2> QED  BY <2>1, <2>2
<1>4. done * less \in Nat /\ done * less <= \o20000 - done
  <2>1. done * less <= done * (left - 1)
    BY <1>2
  <2> QED  BY <1>2, <2>1
<1> DEFINE shifted == done * less
<1> HIDE DEF shifted
<1>5. shifted \in Nat /\ shifted <= \o20000 - done
  BY <1>4 DEF shifted
<1>6. q = \o100000 * out + \o40000 * bit + 2 * shifted + quotient
  BY <1>3 DEF shifted
<1> HIDE DEF bit, less, q
<1>7. /\ q \in Nat /\ q <= \o177777 /\ (q \div \o40000) % 2 = bit
      /\ (2 * q) % \o200000 = \o100000 * bit + 4 * shifted + 2 * quotient
  <2>1. /\ 2 * shifted + quotient \in Nat /\ 2 * shifted + quotient < \o40000
        /\ 4 * shifted + 2 * quotient < \o100000
    BY <1>5
  <2> DEFINE low == 2 * shifted + quotient
  <2> HIDE DEF low
  <2>2. low \in Nat /\ low < \o40000 /\ q = \o100000 * out + \o40000 * bit + low
    BY <1>2, <1>5, <1>6, <2>1 DEF low
  <2>3. /\ q \in Nat /\ q <= \o177777 /\ (q \div \o40000) % 2 = bit
        /\ (2 * q) % \o200000 = \o100000 * bit + 2 * low
    BY <1>2, <2>2
  <2> QED  BY <1>5, <2>3 DEF low
<1>8. x \in Nat /\ over \in 0 .. divisor - 1 /\ more \in {0, 1} /\ x = more * divisor + over
  BY <1>2
<1>9. Trial(divisor, state) =
        [quotient |-> \o100000 * bit + 4 * shifted + next, remainder |-> \o177777 - over]
  <2>1. state = [quotient |-> q, remainder |-> \o177777 - remainder]
    BY <1>1 DEF q
  <2>2. Trial(divisor, state) =
          IF x >= divisor
          THEN [quotient |-> ((2 * q) % \o200000) + 1, remainder |-> \o177777 - (x - divisor)]
          ELSE [quotient |-> (2 * q) % \o200000, remainder |-> \o177777 - x]
    BY <1>7, <2>1, OneTrial
  <2>3. CASE x >= divisor
    <3>1. more = 1 /\ over = x - divisor
      BY <1>8, <2>3
    <3>2. ((2 * q) % \o200000) + 1 = \o100000 * bit + 4 * shifted + next
      BY <1>2, <1>5, <1>7, <3>1
    <3> QED  BY <2>2, <2>3, <3>1, <3>2
  <2>4. CASE ~(x >= divisor)
    <3>1. more = 0 /\ over = x
      BY <1>8, <2>4
    <3>2. (2 * q) % \o200000 = \o100000 * bit + 4 * shifted + next
      BY <1>2, <1>5, <1>7, <3>1
    <3> QED  BY <2>2, <2>4, <3>1, <3>2
  <2> QED  BY <2>3, <2>4
<1>10. n = (next * divisor + over) * left + less
  <2>1. 2 * (quotient * divisor + remainder) + bit = next * divisor + over
    <3>1. next * divisor = 2 * (quotient * divisor) + more * divisor
      BY <1>8
    <3> DEFINE product == quotient * divisor
               subtracted == more * divisor
    <3>2. product \in Int /\ subtracted \in Int /\ next * divisor = 2 * product + subtracted
      BY <1>8, <3>1
    <3>3. x = subtracted + over
      BY <1>8
    <3> HIDE DEF product, subtracted
    <3> QED  BY <1>2, <1>8, <3>2, <3>3 DEF product
  <2> DEFINE whole == quotient * divisor + remainder
             total == next * divisor + over
  <2>2. whole \in Int /\ total = 2 * whole + bit /\ n = whole * (2 * left) + rest
    BY <1>1, <2>1
  <2> HIDE DEF whole, total
  <2>3. n = total * left + less
    BY <1>2, <2>2
  <2> QED  BY <2>3 DEF total
<1>11. /\ next \in 0 .. 2 * done - 1
       /\ Trial(divisor, state) = [quotient |-> \o100000 * bit + 2 * (2 * done) * less + next,
                                   remainder |-> \o177777 - over]
  <2>1. 2 * (2 * done) * less = 4 * shifted
    BY <1>2 DEF shifted
  <2>2. next \in 0 .. 2 * done - 1
    BY <1>8
  <2> QED  BY <1>9, <2>1, <2>2
<1> HIDE DEF next, over, more
<1>12. Halfway(Trial(divisor, state), n, divisor, 2 * done, left, next, over, bit, less)
  BY <1>10, <1>11 DEF Halfway
<1> QED  BY <1>2, <1>8, <1>11, <1>12 DEF Reached

LEMMA FourteenReach ==
  ASSUME NEW state, NEW n \in Nat, NEW divisor \in Nat, divisor <= \o37777,
         Reached(state, n, divisor, 1, \o40000)
  PROVE  Reached(Fourteen(divisor, state), n, divisor, \o40000, 1)
<1>1. ASSUME NEW s, NEW done \in Nat, NEW left \in Nat, done * left = \o10000,
             Reached(s, n, divisor, done, 4 * left)
      PROVE  Reached(Two(divisor, s), n, divisor, 4 * done, left)
  <2> DEFINE half == 2 * left
             twice == 2 * done
  <2>1. half \in Nat /\ twice \in Nat /\ done * half = \o20000 /\ twice * left = \o20000
        /\ 4 * left = 2 * half /\ 4 * done = 2 * twice
    BY <1>1
  <2> HIDE DEF half, twice
  <2>2. Reached(Trial(divisor, s), n, divisor, 2 * done, half)
    BY <1>1, <2>1, TrialReaches
  <2>3. Reached(Trial(divisor, Trial(divisor, s)), n, divisor, 2 * twice, left)
    <3>1. Reached(Trial(divisor, s), n, divisor, twice, 2 * left)
      BY <2>2 DEF half, twice
    <3> QED  BY <2>1, <3>1, TrialReaches
  <2> QED  BY <2>1, <2>3 DEF Two
<1>2. ASSUME NEW s, Reached(s, n, divisor, 1, \o40000)
      PROVE  Reached(Six(divisor, s), n, divisor, \o100, \o400)
  <2>1. Reached(Two(divisor, s), n, divisor, 4, \o10000)
    <3>1. 1 * \o10000 = \o10000 /\ 4 * \o10000 = \o40000 /\ 4 * 1 = 4
      OBVIOUS
    <3> QED  BY <1>1, <1>2, <3>1
  <2>2. Reached(Two(divisor, Two(divisor, s)), n, divisor, \o20, \o2000)
    <3>1. 4 * \o2000 = \o10000 /\ 4 * 4 = \o20
      OBVIOUS
    <3> QED  BY <1>1, <2>1, <3>1
  <2>3. Reached(Two(divisor, Two(divisor, Two(divisor, s))), n, divisor, \o100, \o400)
    <3>1. \o20 * \o400 = \o10000 /\ 4 * \o400 = \o2000 /\ 4 * \o20 = \o100
      OBVIOUS
    <3> QED  BY <1>1, <2>2, <3>1
  <2> QED  BY <2>3 DEF Six
<1>3. ASSUME NEW s, Reached(s, n, divisor, \o100, \o400)
      PROVE  Reached(Six(divisor, s), n, divisor, \o10000, 4)
  <2>1. Reached(Two(divisor, s), n, divisor, \o400, \o100)
    <3>1. \o100 * \o100 = \o10000 /\ 4 * \o100 = \o400
      OBVIOUS
    <3> QED  BY <1>1, <1>3, <3>1
  <2>2. Reached(Two(divisor, Two(divisor, s)), n, divisor, \o2000, \o20)
    <3>1. \o400 * \o20 = \o10000 /\ 4 * \o20 = \o100 /\ 4 * \o400 = \o2000
      OBVIOUS
    <3> QED  BY <1>1, <2>1, <3>1
  <2>3. Reached(Two(divisor, Two(divisor, Two(divisor, s))), n, divisor, \o10000, 4)
    <3>1. \o2000 * 4 = \o10000 /\ 4 * 4 = \o20 /\ 4 * \o2000 = \o10000
      OBVIOUS
    <3> QED  BY <1>1, <2>2, <3>1
  <2> QED  BY <2>3 DEF Six
<1>4. Reached(Six(divisor, Six(divisor, state)), n, divisor, \o10000, 4)
  BY <1>2, <1>3
<1>5. \o10000 * 1 = \o10000 /\ 4 * 1 = 4 /\ 4 * \o10000 = \o40000
  OBVIOUS
<1>6. Reached(Two(divisor, Six(divisor, Six(divisor, state))), n, divisor, \o40000, 1)
  BY <1>1, <1>4, <1>5
<1> QED  BY <1>6 DEF Fourteen

LEMMA TrialsStart ==
  ASSUME NEW state, NEW n, NEW divisor \in Nat, NEW done \in Nat, NEW left \in Nat,
         NEW none \in Nat, none < done, none \in {0, 1},
         NEW remainder \in Nat, remainder < divisor, NEW rest \in Nat, rest < left,
         Halfway(state, n, divisor, done, left, none, remainder, none, rest)
  PROVE  Reached(state, n, divisor, done, left)
<1>1. /\ none \in 0 .. done - 1 /\ remainder \in 0 .. divisor - 1 /\ rest \in 0 .. left - 1
  OBVIOUS
<1> QED  BY <1>1, Zenon DEF Reached

LEMMA TrialsEnd ==
  ASSUME NEW state, NEW n, NEW divisor \in Nat, NEW done \in Nat, NEW left \in Nat,
         Reached(state, n, divisor, done, left)
  PROVE  \E quotient, remainder, out, rest :
           /\ quotient \in Nat /\ quotient < done
           /\ remainder \in Nat /\ remainder < divisor
           /\ out \in {0, 1} /\ rest \in Nat /\ rest < left
           /\ Halfway(state, n, divisor, done, left, quotient, remainder, out, rest)
<1>1. PICK quotient \in 0 .. done - 1, remainder \in 0 .. divisor - 1, out \in {0, 1},
           rest \in 0 .. left - 1 :
        Halfway(state, n, divisor, done, left, quotient, remainder, out, rest)
  BY Zenon DEF Reached
<1>2. /\ quotient \in Nat /\ quotient < done /\ remainder \in Nat /\ remainder < divisor
      /\ rest \in Nat /\ rest < left
  OBVIOUS
<1> QED  BY <1>1, <1>2, Zenon

(* What the trials start from: the magnitude of the dividend, with the     *)
(* low word lent one from the high word where their signs differ.          *)
Down(a) == IF is_negative16(a) THEN a ELSE Complement16(a)
Backward(a, l) == is_negative16(IF Down(a) = \o177777 THEN l ELSE a)
Upward(a, l) == IF Backward(a, l) THEN Complement16(l) ELSE l
Biased(a, l) == AddRegister(Upward(a, l), \o40000)
Lent(a, l) == IF overflow_sign(Biased(a, l)) = 1 THEN Down(a) ELSE AddRegister(Down(a), One)

(* A one borrowed from the high word leaves it one smaller.                *)
LEMMA OneBorrowed ==
  ASSUME NEW v \in Int, NEW size \in Int, 0 <= size, size <= \o37777, v < 0 => size > 0,
         NEW first,
         first = IF v < 0 THEN AddRegister(\o177777 - size, 1) ELSE \o177777 - size
  PROVE  /\ first \in Int /\ \o140000 <= first /\ first <= \o177777
         /\ \o177777 - first = (IF v < 0 THEN size - 1 ELSE size)
<1>1. CASE v < 0
  <2>1. first = AddRegister(\o177777 - size, 1)
    BY <1>1
  <2>2. first = \o177777 - size + 1
    BY ONLY <1>1, <2>1, size \in Int, 0 <= size, size <= \o37777, v < 0 => size > 0
       DEF AddRegister
  <2>3. first \in Int /\ \o140000 <= first /\ first <= \o177777 /\ \o177777 - first = size - 1
    BY ONLY <1>1, <2>2, size \in Int, 0 <= size, size <= \o37777, v < 0 => size > 0
  <2> QED  BY ONLY <1>1, <2>3
<1>2. CASE ~(v < 0)
  <2>1. first = \o177777 - size
    BY <1>2
  <2>2. first \in Int /\ \o140000 <= first /\ first <= \o177777 /\ \o177777 - first = size
    BY ONLY <2>1, size \in Int, 0 <= size, size <= \o37777
  <2> QED  BY ONLY <1>2, <2>2
<1> QED  BY ONLY <1>1, <1>2

LEMMA Prepared ==
  ASSUME NEW a \in Register16, ~has_overflow(a), NEW l \in Register16, ~has_overflow(l),
         ~(l = \o177777 /\ value16(a) > 0)
  PROVE  LET dividend == value16(a) * DoubleBase + value16(l)
         IN  /\ Biased(a, l) \in Nat /\ Biased(a, l) < \o100000
             /\ Lent(a, l) \in Nat
             /\ \o140000 <= Lent(a, l) /\ Lent(a, l) <= \o177777
             /\ Size(dividend) = (\o177777 - Lent(a, l)) * DoubleBase + (Biased(a, l) % DoubleBase)
             /\ dividend < 0 => Backward(a, l)
             /\ dividend > 0 => ~Backward(a, l)
<1> DEFINE down == Down(a)
           negative == Backward(a, l)
           low == Upward(a, l)
           biased == Biased(a, l)
           first == Lent(a, l)
           dividend == value16(a) * DoubleBase + value16(l)
           x == value16(a)
           y == value16(l)
<1>1. /\ a \in Nat /\ l \in Nat /\ (a < \o40000 \/ \o140000 <= a) /\ (l < \o40000 \/ \o140000 <= l)
      /\ a <= \o177777 /\ l <= \o177777
  BY DEF Register16, has_overflow
<1>2. /\ x \in Int /\ -\o37777 <= x /\ x <= \o37777
      /\ y \in Int /\ -\o37777 <= y /\ y <= \o37777
      /\ down = \o177777 - Size(x)
      /\ low = IF negative THEN \o177777 - l ELSE l
  <2>1. low = IF negative THEN \o177777 - l ELSE l
    BY DEF Upward, Complement16
  <2>2. /\ x = (IF a >= \o100000 THEN a - \o177777 ELSE a)
        /\ y = (IF l >= \o100000 THEN l - \o177777 ELSE l)
        /\ down = IF a >= \o100000 THEN a ELSE \o177777 - a
    BY DEF value16, is_negative16, Down, Complement16
  <2> HIDE DEF x, y, down
  <2>3. x \in Int /\ -\o37777 <= x /\ x <= \o37777
    BY ONLY <1>1, <2>2
  <2>4. y \in Int /\ -\o37777 <= y /\ y <= \o37777
    BY ONLY <1>1, <2>2
  <2>5. down = \o177777 - Size(x)
    BY ONLY <1>1, <2>2 DEF Size
  <2> QED  BY ONLY <2>1, <2>3, <2>4, <2>5
<1>3. /\ x = 0 => (negative <=> is_negative16(l))
      /\ x # 0 => (negative <=> x < 0)
  BY <1>1, <1>2 DEF value16, is_negative16, Size, Backward
<1>4. value16(low) = IF negative THEN -y ELSE y
  <2>1. y = IF l >= \o100000 THEN l - \o177777 ELSE l
    BY DEF value16, is_negative16
  <2>2. value16(low) = IF low >= \o100000 THEN low - \o177777 ELSE low
    BY DEF value16, is_negative16
  <2>3. low = IF negative THEN \o177777 - l ELSE l
    BY <1>2
  <2> DEFINE v == value16(low)
  <2>4. v = IF low >= \o100000 THEN low - \o177777 ELSE low
    BY <2>2
  <2> HIDE DEF low, negative, v, y
  <2>5. v = IF negative THEN -y ELSE y
    BY ONLY <1>1, <2>1, <2>3, <2>4
  <2> QED  BY <2>5 DEF v
<1>5. /\ low \in Nat /\ (low < \o40000 \/ \o140000 <= low) /\ low <= \o177777
      /\ \o140000 <= low /\ low # \o177777 => x # 0
      /\ low = \o177777 => x < 0
  BY <1>1, <1>2, <1>3 DEF value16, is_negative16
<1> HIDE DEF low, down, negative
<1> DEFINE v == value16(low)
<1>6. /\ biased \in Nat /\ biased < \o100000
      /\ biased % DoubleBase = (IF v < 0 THEN \o40000 + v ELSE v)
      /\ overflow_sign(biased) = 1 <=> ~(v < 0)
      /\ v \in Int /\ -\o37777 <= v /\ v <= \o37777
  <2>1. biased = IF low + \o40000 > \o177777 THEN low + \o40000 - \o177777 ELSE low + \o40000
    BY ONLY TRUE DEF Biased, AddRegister, biased, low
  <2>2. v = IF low >= \o100000 THEN low - \o177777 ELSE low
    BY DEF value16, is_negative16
  <2> HIDE DEF biased, v
  <2>3. CASE low < \o40000
    BY ONLY <2>1, <2>2, <2>3, <1>5 DEF overflow_sign, DoubleBase
  <2>4. CASE \o140000 <= low
    BY ONLY <2>1, <2>2, <2>4, <1>5 DEF overflow_sign, DoubleBase
  <2> QED  BY ONLY <1>5, <2>3, <2>4
<1>7. v < 0 => x # 0
  BY <1>5 DEF value16, is_negative16
<1>7a. first = IF overflow_sign(biased) = 1 THEN down ELSE AddRegister(down, 1)
  <2>1. One = 1
    BY DEF One
  <2> QED  BY ONLY <2>1 DEF Lent, first, biased, down
<1> HIDE DEF biased, v, x, y, first
<1>8. /\ first \in Nat
      /\ \o177777 - first = (IF v < 0 THEN Size(x) - 1 ELSE Size(x))
      /\ \o140000 <= first /\ first <= \o177777
  <2> DEFINE size == Size(x)
  <2>1. size \in Int /\ 0 <= size /\ size <= \o37777 /\ (v < 0 => size > 0)
    BY <1>2, <1>7 DEF Size
  <2>2. first = IF v < 0 THEN AddRegister(\o177777 - size, 1) ELSE \o177777 - size
    BY ONLY <1>2, <1>6, <1>7a
  <2>3. v \in Int
    BY ONLY <1>6
  <2> HIDE DEF size
  <2>4. /\ first \in Int /\ \o140000 <= first /\ first <= \o177777
        /\ \o177777 - first = (IF v < 0 THEN size - 1 ELSE size)
    BY ONLY <2>1, <2>2, <2>3, OneBorrowed
  <2>5. first \in Nat
    BY ONLY <2>4
  <2> QED  BY ONLY <2>4, <2>5 DEF size
<1>9. dividend = x * DoubleBase + y
  BY DEF x, y
<1> HIDE DEF dividend
<1>10. Size(dividend) = (\o177777 - first) * DoubleBase + (biased % DoubleBase)
  <2>1. v = IF negative THEN -y ELSE y
    BY <1>4 DEF v
  <2>2. x = 0 => v >= 0
    BY <1>6, <1>7
  <2>3. Size(dividend) = Size(x) * \o40000 + v
    BY <1>2, <1>3, <1>6, <1>9, <2>1, <2>2 DEF Size, DoubleBase
  <2> QED  BY <1>2, <1>6, <1>8, <2>3 DEF Size, DoubleBase
<1>11. (dividend < 0 => negative) /\ (dividend > 0 => ~negative)
  <2>1. x = 0 => (negative <=> is_negative16(l))
    BY <1>3
  <2>2. (y < 0 => is_negative16(l)) /\ (y > 0 => ~is_negative16(l))
    BY <1>1 DEF y, value16, is_negative16
  <2> QED  BY <1>2, <1>3, <1>9, <2>2 DEF DoubleBase
<1> QED  BY <1>6, <1>8, <1>10, <1>11 DEF dividend, first, biased, negative

(* A division is determined by its remainder's bound and sign.             *)
LEMMA OneQuotient ==
  ASSUME NEW n \in Int, NEW q \in Int, NEW r \in Int, NEW p \in Int, NEW s \in Int,
         q * n + r = p * n + s, Size(r) < Size(n), Size(s) < Size(n),
         r > 0 => s >= 0, r < 0 => s <= 0
  PROVE  q = p /\ r = s
<1>1. Size(r - s) < Size(n)
  <2>1. (r >= 0 /\ s >= 0) \/ (r <= 0 /\ s <= 0)
    OBVIOUS
  <2> QED  BY <2>1 DEF Size
<1>2. (q - p) * n = s - r
  OBVIOUS
<1>3. q - p = 0
  <2> DEFINE d == q - p
  <2>1. d \in Int /\ d * n = s - r
    BY <1>2
  <2> HIDE DEF d
  <2>2. -Size(n) < d * n /\ d * n < Size(n) /\ n # 0
    BY <1>1, <2>1 DEF Size
  <2>3. CASE d >= 1
    BY <2>1, <2>2, <2>3 DEF Size
  <2>4. CASE d <= -1
    BY <2>1, <2>2, <2>4 DEF Size
  <2> QED  BY <2>1, <2>3, <2>4 DEF d
<1> QED  BY <1>2, <1>3

(* simulate_divide divides whatever quotient fits a word.                  *)
LEMMA TrialsDivide ==
  ASSUME NEW a \in Register16, ~has_overflow(a), NEW l \in Register16, ~has_overflow(l),
         ~(l = \o177777 /\ value16(a) > 0), NEW w \in Word,
         Size(value16(a) * DoubleBase + value16(l)) < Size(to_i32_lossy_zero(w)) * DoubleBase
  PROVE  LET d == simulate_divide(a, l, SignExtend(w))
             n == to_i32_lossy_zero(w)
             dividend == value16(a) * DoubleBase + value16(l)
         IN  /\ value16(d.A) \in Int /\ value16(d.L) \in Int
             /\ value16(d.A) * n + value16(d.L) = dividend
             /\ Size(value16(d.L)) < Size(n)
             /\ value16(d.L) < 0 => dividend < 0
             /\ value16(d.L) > 0 => dividend > 0
<1> DEFINE divisor == SignExtend(w)
           n == to_i32_lossy_zero(w)
           dividend == value16(a) * DoubleBase + value16(l)
           negative == Backward(a, l)
           biased == Biased(a, l)
           first == Lent(a, l)
           size == IF is_negative16(divisor) THEN Complement16(divisor) ELSE divisor
           quotientSign == (biased \div \o100000) * \o100000
           before == [quotient |-> Doubled(biased) + quotientSign \div \o100000,
                      remainder |-> first]
           after == Fourteen(size, before)
           high == \o177777 - first
           low == biased % DoubleBase
           d == simulate_divide(a, l, divisor)
<1>1. d = [A |-> IF negative = is_negative16(divisor)
                 THEN quotientSign + (after.quotient % \o100000)
                 ELSE Complement16(quotientSign + (after.quotient % \o100000)),
           L |-> IF negative THEN after.remainder ELSE Complement16(after.remainder)]
  BY DEF simulate_divide, Down, Backward, Upward, Biased, Lent
<1>2. /\ biased \in Nat /\ biased < \o100000
      /\ first \in Nat /\ high \in Nat /\ high <= \o37777
      /\ Size(dividend) = high * DoubleBase + low
      /\ dividend < 0 => negative
      /\ dividend > 0 => ~negative
  <2>1. /\ biased \in Nat /\ biased < \o100000
        /\ first \in Nat /\ \o140000 <= first /\ first <= \o177777
        /\ Size(dividend) = high * DoubleBase + low
        /\ dividend < 0 => negative
        /\ dividend > 0 => ~negative
    BY Prepared
  <2> HIDE DEF first
  <2>2. \o177777 - first \in Nat /\ \o177777 - first <= \o37777
    BY ONLY <2>1
  <2> QED  BY <2>1, <2>2
<1>3. /\ size \in Nat /\ size <= \o37777 /\ size = Size(n) /\ n \in Int
      /\ is_negative16(divisor) <=> is_negative(w)
      /\ is_negative(w) => n = -size
      /\ ~is_negative(w) => n = size
  BY DEF Word, SignExtend, is_negative16, Complement16, Size, to_i32_lossy_zero, is_negative
<1> HIDE DEF d, size, biased, first, dividend, n, divisor
<1>4. negative \in BOOLEAN
  BY DEF is_negative16, Backward
<1> HIDE DEF negative
<1>5. low \in Nat /\ low <= \o37777 /\ quotientSign = 0 /\ Doubled(biased) + quotientSign \div \o100000 = 2 * low
  BY <1>2 DEF Doubled, DoubleBase
<1>6. first = \o177777 - high /\ high < size
  <2>1. Size(dividend) < size * DoubleBase
    BY <1>3 DEF dividend, n
  <2> QED  BY <1>2, <1>3, <1>5, <2>1 DEF DoubleBase
<1> HIDE DEF low, high, quotientSign
<1>7. Reached(before, Size(dividend), size, 1, \o40000)
  <2>1. Halfway(before, Size(dividend), size, 1, \o40000, 0, high, 0, low)
    BY <1>2, <1>3, <1>5, <1>6 DEF Halfway, DoubleBase
  <2>2. high \in Nat /\ high < size /\ low \in Nat /\ low < \o40000
    BY <1>2, <1>5, <1>6
  <2> DEFINE none == 0
             one == 1
             all == \o40000
  <2>3. /\ one \in Nat /\ all \in Nat /\ none \in Nat /\ none < one /\ none \in {0, 1}
        /\ low < all /\ Halfway(before, Size(dividend), size, one, all, none, high, none, low)
    BY <2>1, <2>2
  <2> HIDE DEF none, one, all, before
  <2>4. size \in Nat
    BY <1>3
  <2>5. ASSUME NEW state, NEW m, Halfway(state, m, size, one, all, none, high, none, low)
        PROVE  Reached(state, m, size, one, all)
    BY <2>2, <2>3, <2>4, <2>5, TrialsStart
  <2>6. ASSUME NEW m, Halfway(before, m, size, one, all, none, high, none, low)
        PROVE  Reached(before, m, size, one, all)
    BY ONLY <2>5, <2>6
  <2>7. Reached(before, Size(dividend), size, one, all)
    BY ONLY <2>3, <2>6
  <2> QED  BY <2>7 DEF one, all
<1> HIDE DEF before
<1>8. Reached(after, Size(dividend), size, \o40000, 1)
  <2>1. Size(dividend) \in Nat
    BY ONLY <1>2, <1>5 DEF DoubleBase
  <2> QED  BY <1>3, <1>7, <2>1, FourteenReach
<1> HIDE DEF after
<1>9. PICK quotient, remainder, out, rest :
        /\ quotient \in Nat /\ quotient < \o40000
        /\ remainder \in Nat /\ remainder < size
        /\ out \in {0, 1} /\ rest \in Nat /\ rest < 1
        /\ Halfway(after, Size(dividend), size, \o40000, 1, quotient, remainder, out, rest)
  BY <1>3, <1>8, TrialsEnd
<1> DEFINE product == quotient * size
<1>9a. product \in Nat
  <2>1. ASSUME NEW p \in Nat, NEW m \in Nat  PROVE p * m \in Nat
    OBVIOUS
  <2> QED  BY <1>3, <1>9, <2>1
<1>10. /\ after.quotient = \o100000 * out + quotient
       /\ after.remainder = \o177777 - remainder
       /\ Size(dividend) = product + remainder
  <2>1. /\ after.quotient = \o100000 * out + 2 * \o40000 * rest + quotient
        /\ after.remainder = \o177777 - remainder
        /\ Size(dividend) = (product + remainder) * 1 + rest
    BY <1>9 DEF Halfway
  <2> HIDE DEF product
  <2> QED  BY <1>9, <1>9a, <2>1
<1>11. quotientSign + (after.quotient % \o100000) = quotient
  BY <1>5, <1>9, <1>10
<1>12. /\ value16(d.A) = IF negative = is_negative16(divisor) THEN quotient ELSE -quotient
       /\ value16(d.L) = IF negative THEN -remainder ELSE remainder
  <2>1. d.A = IF negative = is_negative16(divisor) THEN quotient ELSE \o177777 - quotient
    BY <1>1, <1>11 DEF Complement16
  <2>2. d.L = IF negative THEN \o177777 - remainder ELSE remainder
    BY <1>1, <1>9, <1>10 DEF Complement16
  <2> QED  BY <1>3, <1>9, <2>1, <2>2 DEF value16, is_negative16
<1>13. value16(d.A) * n = IF negative THEN -product ELSE product
  <2>1. ASSUME NEW p \in Nat, NEW m \in Nat
        PROVE  (-p) * m = -(p * m) /\ p * (-m) = -(p * m) /\ (-p) * (-m) = p * m
    OBVIOUS
  <2>2. /\ (-quotient) * size = -product /\ quotient * (-size) = -product
        /\ (-quotient) * (-size) = product /\ quotient * size = product
    BY <1>3, <1>9, <2>1
  <2> HIDE DEF product
  <2>3. (negative = is_negative16(divisor)) <=> (negative <=> is_negative(w))
    BY <1>3, <1>4 DEF is_negative16
  <2>4. /\ (negative <=> is_negative(w)) => value16(d.A) = quotient
        /\ ~(negative <=> is_negative(w)) => value16(d.A) = -quotient
    BY <1>12, <2>3
  <2>5. CASE is_negative(w)
    BY <1>3, <1>9, <2>2, <2>4, <2>5
  <2>6. CASE ~is_negative(w)
    BY <1>3, <1>9, <2>2, <2>4, <2>6
  <2> QED  BY <2>5, <2>6
<1> HIDE DEF product
<1>15. dividend = IF negative THEN -(product + remainder) ELSE product + remainder
  <2>1. dividend \in Int
    BY Closed DEF dividend, DoubleBase, value16, Register16
  <2> QED  BY <1>2, <1>9, <1>9a, <1>10, <2>1 DEF Size
<1>16. /\ value16(d.A) \in Int /\ value16(d.L) \in Int
       /\ value16(d.A) * n + value16(d.L) = dividend
       /\ Size(value16(d.L)) < Size(n)
       /\ value16(d.L) < 0 => dividend < 0
       /\ value16(d.L) > 0 => dividend > 0
  BY <1>3, <1>9, <1>9a, <1>12, <1>13, <1>15 DEF Size
<1> QED  BY <1>16 DEF d, n, dividend, divisor

(* The fourteen trial subtractions of the machine's own divider and the    *)
(* quotient that the code takes where it fits give the same numbers.       *)
THEOREM DivisionsGiveTheSame == Spec => DivisionsAgree
<1> DEFINE Exactly ==
             /\ ~failed'
             /\ Divides =>
                  /\ Number(store', A) * Number(store, K) + Number(store', L) = Dividend
                  /\ Size(Number(store', L)) < Size(Number(store, K))
                  /\ Number(store', L) # 0 => (Number(store', L) < 0) = (Dividend < 0)
           Claim ==
             Divides /\ ~has_overflow(store[A]) =>
               LET d == simulate_divide(store[A], store[L], SignExtend(store[K]))
               IN  value16(d.A) = Number(store', A) /\ value16(d.L) = Number(store', L)
<1>1. ASSUME Represented, Represented', [Next]_vars, [Exactly]_vars  PROVE [Claim]_vars
  <2> SUFFICES ASSUME Divides, ~has_overflow(store[A])
               PROVE  LET d == simulate_divide(store[A], store[L], SignExtend(store[K]))
                      IN  value16(d.A) = Number(store', A) /\ value16(d.L) = Number(store', L)
    OBVIOUS
  <2> DEFINE k == K
             a == store[A]
             l == store[L]
             w == store[k]
             n == to_i32_lossy_zero(w)
             d == simulate_divide(a, l, SignExtend(w))
             q == Number(store', A)
             r == Number(store', L)
  <2>1. /\ k \in Cells
        /\ Size(Dividend) < Size(Number(store, k)) * DoubleBase
        /\ ~(l = \o177777 /\ Number(store, A) > 0)
        /\ steps' # steps
    BY DEF Divides, Executed
  <2>2. q * Number(store, k) + r = Dividend /\ Size(r) < Size(Number(store, k))
        /\ (r # 0 => (r < 0) = (Dividend < 0))
    BY <1>1, <2>1 DEF vars
  <2> HIDE DEF k
  <2>2a. (r < 0) = (Dividend < 0) => (r < 0 <=> Dividend < 0)
    OBVIOUS
  <2>3. k \in Places \ {Z} /\ A \in Places \ {Z} /\ L \in Places \ {Z}
        /\ A \in FullWidth /\ L \in FullWidth
    BY <2>1, PlacesNamed DEF FullWidth
  <2>4. Stored(store) /\ ~has_overflow(l) /\ Stored(store)'
    BY <1>1 DEF Represented
  <2>5. a \in Register16 /\ l \in Register16 /\ w \in Word /\ Number(store, k) = n /\ n \in Int
    <3>1. read_register_operand(store, k) = SignExtend(store[k]) /\ store[k] \in Word
      BY <2>1, <2>4, ReadPlaces
    <3>2. value16(SignExtend(store[k])) = n
      BY <3>1, Extended
    <3>3. n \in Int
      BY <3>1, Magnitudes
    <3> QED  BY <2>3, <2>4, <3>1, <3>2, <3>3 DEF Stored, Number
  <2>6. Number(store, A) = value16(a) /\ Number(store, L) = value16(l)
    BY <2>3, <2>4, ReadPlaces DEF Number
  <2>7. q \in Int /\ r \in Int
    <3>1. \A x \in Register16 : value16(x) \in Int
      BY Closed DEF value16, Register16
    <3>2. store'[A] \in Register16 /\ store'[L] \in Register16
      BY <2>3, <2>4 DEF Stored
    <3>3. q = value16(store'[A]) /\ r = value16(store'[L])
      BY <2>3, <2>4, ReadPlaces DEF Number
    <3> QED  BY <3>1, <3>2, <3>3
  <2>8. Dividend = value16(a) * DoubleBase + value16(l)
    <3>1. \A x \in Register16 :
            ~has_overflow(x) => to_i32_lossy_zero(OverflowCorrect(x)) = value16(x)
      BY DEF Register16, has_overflow, OverflowCorrect, to_i32_lossy_zero, is_negative,
             value16, is_negative16
    <3>2. to_i32_lossy_zero(aWord(store)) = value16(a)
      BY <2>5, <3>1 DEF aWord
    <3> QED  BY <2>6, <3>2 DEF Dividend
  <2> HIDE DEF a, l, w, d, q, r
  <2>9. /\ value16(d.A) \in Int /\ value16(d.L) \in Int
        /\ value16(d.A) * n + value16(d.L) = Dividend
        /\ Size(value16(d.L)) < Size(n)
        /\ value16(d.L) < 0 => Dividend < 0
        /\ value16(d.L) > 0 => Dividend > 0
    <3>1. Size(value16(a) * DoubleBase + value16(l)) < Size(to_i32_lossy_zero(w)) * DoubleBase
      BY <2>1, <2>5, <2>8
    <3>2. ~has_overflow(a) /\ ~(l = \o177777 /\ value16(a) > 0)
      BY <2>1, <2>6 DEF a
    <3> QED  BY <2>4, <2>5, <2>8, <3>1, <3>2, TrialsDivide DEF d
  <2>10. (value16(d.L) > 0 => r >= 0) /\ (value16(d.L) < 0 => r <= 0)
    <3>1. r # 0 => (r < 0 <=> Dividend < 0)
      BY <2>2, <2>2a
    <3> DEFINE p == value16(d.A)
               s == value16(d.L)
               D == Dividend
    <3>2. p \in Int /\ s \in Int /\ p * n + s = D
      BY <2>9
    <3>3. (s < 0 => D < 0) /\ (s > 0 => D > 0) /\ (r # 0 => (r < 0 <=> D < 0))
      BY <2>9, <3>1
    <3> HIDE DEF p, s, D
    <3>4. p * n \in Int
      BY <2>5, <3>2
    <3> HIDE DEF n
    <3>5. D \in Int
      BY <3>2, <3>4
    <3>6. (s > 0 => r >= 0) /\ (s < 0 => r <= 0)
      BY <2>7, <3>2, <3>3, <3>5
    <3> QED  BY <3>6 DEF s
  <2> HIDE DEF n
  <2>11. value16(d.A) = q /\ value16(d.L) = r
    <3> DEFINE p == value16(d.A)
               s == value16(d.L)
    <3>1. p * n + s = q * n + r /\ Size(r) < Size(n)
      BY <2>2, <2>5, <2>9
    <3>2. p \in Int /\ s \in Int /\ Size(s) < Size(n)
      BY <2>9
    <3>3. (s > 0 => r >= 0) /\ (s < 0 => r <= 0)
      BY <2>10
    <3> HIDE DEF p, s
    <3>4. p = q /\ s = r
      BY ONLY <2>5, <2>7, <3>1, <3>2, <3>3, OneQuotient
    <3> QED  BY <3>4 DEF p, s
  <2> QED  BY <2>11 DEF d, q, r, a, l, w, k
<1>2. [][Claim]_vars <=> DivisionsAgree
  BY DEF DivisionsAgree
<1>3. [][Exactly]_vars <=> DivisionExact
  BY DEF DivisionExact
<1> HIDE DEF Claim, Exactly
<1> QED  BY <1>1, <1>2, <1>3, AlwaysRepresented, DivisionsAreExact, PTL DEF Spec
=============================================================================
