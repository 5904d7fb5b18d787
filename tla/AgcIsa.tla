------------------------------- MODULE AgcIsa -------------------------------
(***************************************************************************)
(* The instruction set as the control logic sees it: crate agc-isa's       *)
(* decode, and where an instruction may leave the program counter          *)
(* (agc-cpu's execute).  The contents of A, L, Q and memory are            *)
(* abstracted: a conditional transfer may go either way, a computed one    *)
(* anywhere in ComputedTargets.                                            *)
(***************************************************************************)
EXTENDS AgcWord, Sequences

CONSTANTS
  IndexValues,     \* the words that INDEX may find in its operand
  ComputedTargets  \* the addresses a store into Z may transfer to

LastAddress == \o7777
Address == 0 .. LastAddress

ASSUME IsaAssumption ==
  IndexValues \subseteq Word /\ ComputedTargets \subseteq Address

after(a, n) == (a + n) % \o10000

-----------------------------------------------------------------------------
ChannelOps == <<"READ", "WRITE", "RAND", "WAND", "ROR", "WOR", "RXOR", "EDRUPT">>
ExtendedQuarters == <<"MSU", "QXCH", "AUG", "DIM">>
StoreQuarters == <<"DAS", "LXCH", "INCR", "ADS">>
ExchangeQuarters == <<"INDEX", "DXCH", "TS", "XCH">>

op(mnemonic, operand) == [mnemonic |-> mnemonic, operand |-> operand]

decodeExtended(raw) ==
  LET opcode == raw \div \o10000
      quarter == (raw \div \o2000) % 4
      k9 == raw % \o1000
      k10 == raw % \o2000
      k12 == raw % \o10000
  IN  IF opcode = 0 THEN op(ChannelOps[((raw \div \o1000) % 8) + 1], k9)
      ELSE IF opcode = 1 THEN IF quarter = 0 THEN op("DV", k10) ELSE op("BZF", k12)
      ELSE IF opcode = 2 THEN op(ExtendedQuarters[quarter + 1], k10)
      ELSE IF opcode = 3 THEN op("DCA", k12)
      ELSE IF opcode = 4 THEN op("DCS", k12)
      ELSE IF opcode = 5 THEN op("INDEX", k12)
      ELSE IF opcode = 6 THEN IF quarter = 0 THEN op("SU", k10) ELSE op("BZMF", k12)
      ELSE op("MP", k12)

decodeBasic(raw) ==
  LET opcode == raw \div \o10000
      quarter == (raw \div \o2000) % 4
      k10 == raw % \o2000
      k12 == raw % \o10000
  IN  IF raw = 3 THEN op("RELINT", 0)
      ELSE IF raw = 4 THEN op("INHINT", 0)
      ELSE IF raw = 6 THEN op("EXTEND", 0)
      ELSE IF opcode = 0 THEN op("TC", k12)
      ELSE IF opcode = 1 THEN IF quarter = 0 THEN op("CCS", k10) ELSE op("TCF", k12)
      ELSE IF opcode = 2 THEN op(StoreQuarters[quarter + 1], k10)
      ELSE IF opcode = 3 THEN op("CA", k12)
      ELSE IF opcode = 4 THEN op("CS", k12)
      ELSE IF raw = \o50017 THEN op("RESUME", 0)
      ELSE IF opcode = 5 THEN op(ExchangeQuarters[quarter + 1], k10)
      ELSE IF opcode = 6 THEN op("AD", k12)
      ELSE op("MASK", k12)

decode(raw, extended) == IF extended THEN decodeExtended(raw) ELSE decodeBasic(raw)

-----------------------------------------------------------------------------
(* encode_with_context: the opcode of each mnemonic, by the width of its   *)
(* operand field.  INDEX is wider as an extracode.                         *)
NoField == [RELINT |-> \o3, INHINT |-> \o4, EXTEND |-> \o6, RESUME |-> \o50017]
ChannelField ==
  [READ |-> 0, WRITE |-> \o1000, RAND |-> \o2000, WAND |-> \o3000,
   ROR |-> \o4000, WOR |-> \o5000, RXOR |-> \o6000, EDRUPT |-> \o7000]
(* Mutant: TS and XCH change places.                                       *)
ErasableField_swapped ==
  [CCS |-> \o10000, DAS |-> \o20000, LXCH |-> \o22000, INCR |-> \o24000,
   ADS |-> \o26000, INDEX |-> \o50000, DXCH |-> \o52000, TS |-> \o56000,
   XCH |-> \o54000, DV |-> \o10000, MSU |-> \o20000, QXCH |-> \o22000,
   AUG |-> \o24000, DIM |-> \o26000, SU |-> \o60000]
ErasableField ==
  [CCS |-> \o10000, DAS |-> \o20000, LXCH |-> \o22000, INCR |-> \o24000,
   ADS |-> \o26000, INDEX |-> \o50000, DXCH |-> \o52000, TS |-> \o54000,
   XCH |-> \o56000, DV |-> \o10000, MSU |-> \o20000, QXCH |-> \o22000,
   AUG |-> \o24000, DIM |-> \o26000, SU |-> \o60000]
AddressField ==
  [TC |-> 0, TCF |-> \o10000, CA |-> \o30000, CS |-> \o40000, AD |-> \o60000,
   MASK |-> \o70000, BZF |-> \o10000, DCA |-> \o30000, DCS |-> \o40000,
   BZMF |-> \o60000, MP |-> \o70000, INDEX |-> \o50000]

(* The operations that EXTEND has to precede in memory.                    *)
is_extended(m) ==
  m \in DOMAIN ChannelField
    \cup {"AUG", "BZF", "BZMF", "DCA", "DCS", "DIM", "DV", "MP", "MSU", "QXCH", "SU"}

Mnemonic == DOMAIN NoField \cup DOMAIN ChannelField
              \cup DOMAIN ErasableField \cup DOMAIN AddressField

base(m, extended) ==
  IF m \in DOMAIN NoField THEN NoField[m]
  ELSE IF m \in DOMAIN ChannelField THEN ChannelField[m]
  ELSE IF m \in DOMAIN ErasableField /\ ~(m = "INDEX" /\ extended) THEN ErasableField[m]
  ELSE AddressField[m]
LargestOperand(m, extended) ==
  IF m \in DOMAIN NoField THEN 0
  ELSE IF m \in DOMAIN ChannelField THEN \o777
  ELSE IF m \in DOMAIN ErasableField /\ ~(m = "INDEX" /\ extended) THEN \o1777
  ELSE \o7777

Encodable(m, k, extended) == k <= LargestOperand(m, extended)
encode_with_context(m, k, extended) == base(m, extended) + k

-----------------------------------------------------------------------------
(* The instructions that store in their operand; DAS and DXCH also store   *)
(* in the cell before it.                                                  *)
Stores == {"ADS", "AUG", "DAS", "DIM", "DXCH", "INCR", "LXCH", "QXCH", "TS", "XCH"}
StoresIn(d, r) ==
  /\ d.mnemonic \in Stores
  /\ d.operand = r \/ (d.mnemonic \in {"DAS", "DXCH"} /\ d.operand = r + 1)

(* Where instruction d, fetched from z, may leave the program counter.     *)
(* TS skips one word if the accumulator has overflowed.                    *)
Successors(d, z) ==
  IF d.mnemonic \in {"TC", "TCF"} THEN {d.operand}
  ELSE IF d.mnemonic \in {"BZF", "BZMF"} THEN {d.operand, after(z, 1)}
  ELSE IF d.mnemonic = "CCS" THEN {after(z, n) : n \in 1 .. 4}
  ELSE IF StoresIn(d, 5) THEN ComputedTargets \cup {after(z, 1)}
  ELSE IF d.mnemonic = "TS" THEN {after(z, 1), after(z, 2)}
  ELSE {after(z, 1)}

(* EXTEND makes the next word an extracode; INDEX passes its own prefix on. *)
ExtendsNext(d, extended) ==
  d.mnemonic = "EXTEND" \/ (d.mnemonic = "INDEX" /\ extended)
=============================================================================
