------------------------------ MODULE AgcMemory ------------------------------
(***************************************************************************)
(* The banked memory of the Block II computer: crate agc-memory.           *)
(*                                                                         *)
(* One array of central and special registers (`central'), the erasable    *)
(* banks, the rope and the input/output channels.  A logical address is    *)
(* resolved through the bank registers EB, FB and BB and through the       *)
(* superbank bit of channel 7.  The first \o61 words of erasable bank 0    *)
(* ARE the registers: the array `erasable' holds a second copy of those    *)
(* cells that no path may use.                                             *)
(*                                                                         *)
(* Each public method that changes the state or returns a word is an       *)
(* action; `result' is what the last call returned.                        *)
(***************************************************************************)
EXTENDS AgcWord

CONSTANTS
  Words,          \* the 15-bit words the callers store
  RawRegisters,   \* the 16-bit values the processor writes to registers
  Addresses,      \* the logical addresses the callers use
  Offsets,        \* the erasable offsets those addresses reach
  FixedOffsets,   \* the rope offsets those addresses reach
  Ropes,          \* the rope images the callers load
  PhysicalCells,  \* the erasable cells diagnostics and faults name, or try to
  FlippedCells,   \* the rope cells faults name, or try to
  Channels        \* the channels the callers use

ErasableBanks == 0 .. 7
FixedBanks == 0 .. 35
ErasableCells == ErasableBanks \X Offsets
RopeCells == FixedBanks \X FixedOffsets
SpecialIndex == 0 .. \o60

InErasable(a) == a \in \o61 .. \o1777
InRope(a) == \o2000 <= a /\ a <= \o7777
InErasableArray(b, o) == b \in ErasableBanks /\ o <= \o377
InRopeArray(b, o) == b \in FixedBanks /\ o <= \o1777

ASSUME InputAssumption ==
  /\ Words \subseteq Word
  /\ RawRegisters \subseteq Register16
  /\ Addresses \subseteq Nat
  /\ Offsets \subseteq 0 .. \o377
  /\ FixedOffsets \subseteq 0 .. \o1777
  /\ \A a \in Addresses : InErasable(a) => a % \o400 \in Offsets
  /\ \A a \in Addresses : InRope(a) => a % \o2000 \in FixedOffsets
  /\ Ropes \subseteq [RopeCells -> Word]
  /\ PhysicalCells \subseteq Nat \X Nat
  /\ \A c \in PhysicalCells : InErasableArray(c[1], c[2]) => c \in ErasableCells
  /\ FlippedCells \subseteq Nat \X Nat
  /\ \A c \in FlippedCells : InRopeArray(c[1], c[2]) => c \in RopeCells
  /\ Channels \subseteq 0 .. \o777
  /\ 7 \in Channels

VARIABLES
  central,    \* registers \o0..\o60: A L Q EB FB Z BB ZERO, shadows, counters
  erasable,   \* erasable[<<bank, offset>>], the general storage
  fixed,      \* fixed[<<bank, offset>>], the rope
  channels,   \* the channel array
  superbank,  \* the decoded superbank bit of channel 7
  result      \* what the last call returned

state == <<central, erasable, fixed, channels, superbank>>
vars == <<central, erasable, fixed, channels, superbank, result>>

A == \o0
L == \o1
Q == \o2
EB == \o3
FB == \o4
Z == \o5
BB == \o6
ZERO == \o7
BankRegisters == {EB, FB, BB}

(***************************************************************************)
(* The bit fields of the source, by division: v & 0o03400, v & 0o76000,    *)
(* v & 0o76007 and v & 0o160.                                              *)
(***************************************************************************)
EbField(v) == ((v \div \o400) % \o10) * \o400
FbField(v) == ((v \div \o2000) % \o40) * \o2000
BbField(v) == FbField(v) + (v % \o10)
BankControl(v) == ((v \div \o20) % \o10) * \o20
SuperbankBit(v) == (v \div \o100) % 2 = 1

RotateRight(w) == (w \div 2) + (w % 2) * \o40000
ShiftRight(w) == (w \div 2) + (w \div \o40000) * \o40000
RotateLeft(w) == ((2 * w) % \o100000) + (w \div \o40000)
EditingIndex == \o20 .. \o23

Edited(i, w) ==
  IF i = \o20 THEN RotateRight(w)
  ELSE IF i = \o21 THEN ShiftRight(w)
  ELSE IF i = \o22 THEN RotateLeft(w)
  ELSE IF i = \o23 THEN (w \div \o200) % \o200 ELSE w

-----------------------------------------------------------------------------
(***************************************************************************)
(* Address translation.                                                    *)
(***************************************************************************)
ebank == (central[EB] \div \o400) % \o10
fbank == (central[FB] \div \o2000) % \o40
(* Mutant: the superbank bit extends every bank above \o27.               *)
selected_fixed_bank_unranged ==
  IF superbank /\ fbank >= \o30 THEN fbank + \o10 ELSE fbank

selected_fixed_bank ==
  IF superbank /\ fbank \in \o30 .. \o33 THEN fbank + \o10 ELSE fbank

register(i) == [region |-> "register", bank |-> 0, offset |-> i]
erasableAt(b, o) == [region |-> "erasable", bank |-> b, offset |-> o]
fixedAt(b, o) == [region |-> "fixed", bank |-> b, offset |-> o]
channelAt(ch) == [region |-> "channel", bank |-> 0, offset |-> ch]

translate(a) ==
  IF a \in SpecialIndex THEN register(a)
  ELSE IF a < \o1400 THEN erasableAt(a \div \o400, a % \o400)
  ELSE IF a < \o2000 THEN erasableAt(ebank, a % \o400)
  ELSE IF a < \o4000 THEN fixedAt(selected_fixed_bank, a % \o2000)
  ELSE fixedAt(IF a < \o6000 THEN 2 ELSE 3, a % \o2000)

(* The register file behind a physical address, if it is one.              *)
IsSpecial(p) ==
  \/ p.region = "register"
  \/ (p.region = "erasable" /\ p.bank = 0 /\ p.offset <= \o60)

read_special(i) ==
  IF i \in {A, L, Q} THEN OverflowCorrect(central[i])
  ELSE IF i = Z THEN central[i] % \o10000
  ELSE IF i = ZERO THEN 0 ELSE central[i] % \o100000

(* A rope bank the selectors can name is readable only if it is installed. *)
Installed(p) == p.region = "fixed" => p.bank \in FixedBanks

read_physical(p) ==
  IF IsSpecial(p) THEN read_special(p.offset)
  ELSE IF p.region = "erasable" THEN erasable[<<p.bank, p.offset>>]
  ELSE fixed[<<p.bank, p.offset>>]

-----------------------------------------------------------------------------
(***************************************************************************)
(* Writing the register file, as functions of `central'.                   *)
(***************************************************************************)
(* Mutant: EB and FB follow BB, BB follows neither.                        *)
synchronize_banks_one_way(c, written) ==
  IF written = BB
  THEN [c EXCEPT ![EB] = (c[BB] % \o10) * \o400, ![FB] = FbField(c[BB])] ELSE c

synchronize_banks(c, written) ==
  IF written = BB
  THEN [c EXCEPT ![EB] = (c[BB] % \o10) * \o400, ![FB] = FbField(c[BB])]
  ELSE [c EXCEPT ![BB] = c[FB] + ((c[EB] \div \o400) % \o10)]

Masked(i, raw) ==
  IF i = Z THEN raw % \o10000
  ELSE IF i = EB THEN EbField(raw)
  ELSE IF i = FB THEN FbField(raw)
  ELSE IF i = BB THEN BbField(raw) ELSE raw

write_central_raw(c, i, raw) ==
  LET d == [c EXCEPT ![i] = Masked(i, raw)]
  IN  IF i = ZERO THEN c
      ELSE IF i \in BankRegisters THEN synchronize_banks(d, i) ELSE d

write_special(c, i, w) ==
  IF i >= \o20 THEN [c EXCEPT ![i] = Edited(i, w)]
  ELSE write_central_raw(c, i, IF i \in {A, L, Q} THEN SignExtend(w) ELSE w)

(* Storing in a cell that is not rope: a register or a general cell.       *)
(* Mutant: a store by an erasable name goes to the array even where the    *)
(* name is a register's.                                                   *)
StoreAt_behind(p, w) ==
  IF p.region = "register"
  THEN central' = write_special(central, p.offset, w) /\ UNCHANGED erasable
  ELSE erasable' = [erasable EXCEPT ![<<p.bank, p.offset>>] = w] /\ UNCHANGED central

StoreAt(p, w) ==
  IF IsSpecial(p)
  THEN central' = write_special(central, p.offset, w) /\ UNCHANGED erasable
  ELSE erasable' = [erasable EXCEPT ![<<p.bank, p.offset>>] = w] /\ UNCHANGED central

(* A call and its answer: the cell it named, the word it asked to store    *)
(* and the word it returned, 0 where there is none; or an error.           *)
Answered(call, p, asked, w) ==
  [call |-> call, ok |-> TRUE, cell |-> p, asked |-> asked, value |-> w]
Returned(call, p, w) == Answered(call, p, 0, w)
Done(call) == Answered(call, register(0), 0, 0)
Failed(call) ==
  [call |-> call, ok |-> FALSE, cell |-> register(0), asked |-> 0, value |-> 0]

Addressable(a) == a <= \o7777 /\ Installed(translate(a))

(* initialize_input_channels: discrete inputs idle high.                   *)
InputChannels ==
  [ch \in Channels |-> IF ch = \o30 THEN \o37777
                       ELSE IF ch \in \o31 .. \o33 THEN \o77777 ELSE 0]

-----------------------------------------------------------------------------
(* Memory::with_rope: volatile state cleared around a loaded rope.         *)
Init ==
  /\ central = [i \in SpecialIndex |-> 0]
  /\ erasable = [c \in ErasableCells |-> 0]
  /\ fixed \in Ropes
  /\ channels = InputChannels
  /\ superbank = FALSE
  /\ result = Failed("none")

read(a) ==
  /\ result' = IF Addressable(a)
               THEN Returned("read", translate(a), read_physical(translate(a)))
               ELSE Failed("read")
  /\ UNCHANGED state

(* An operand read rewrites the four editing registers, by either name.    *)
read_and_edit(a) ==
  LET p == translate(a) IN
  /\ result' = IF Addressable(a)
               THEN Returned("edit", p, read_physical(p)) ELSE Failed("edit")
  /\ central' = IF Addressable(a) /\ IsSpecial(p) /\ p.offset \in EditingIndex
                THEN write_special(central, p.offset, read_physical(p))
                ELSE central
  /\ UNCHANGED <<erasable, fixed, channels, superbank>>

(* The word returned is read back from the cell resolved before the store, *)
(* which may have moved the window that the address goes through.          *)
write(a, w) ==
  /\ IF a > \o7777 \/ translate(a).region = "fixed"
     THEN result' = Failed("write") /\ UNCHANGED <<central, erasable>>
     ELSE \E p \in {translate(a)} :
            /\ StoreAt(p, w)
            /\ result' = Answered("write", p, w, read_physical(p)')
  /\ UNCHANGED <<fixed, channels, superbank>>

(* The processor's own full-width register write.                          *)
set_central_register(i, raw) ==
  /\ IF i < 16
     THEN /\ central' = write_central_raw(central, i, raw)
          /\ result' = Answered("set", register(i), raw, 0)
     ELSE UNCHANGED central /\ result' = Failed("set")
  /\ UNCHANGED <<erasable, fixed, channels, superbank>>

channelWord(ch) ==
  IF ch = 1 THEN read_special(L) ELSE IF ch = 2 THEN read_special(Q) ELSE channels[ch]

read_channel(ch) ==
  /\ result' = Returned("in", channelAt(ch), channelWord(ch))
  /\ UNCHANGED state

(* Channels 1 and 2 are the registers L and Q; channel 7 selects banks.    *)
write_channel(ch, w) ==
  /\ \/ /\ ch \in {L, Q}
        /\ central' = write_special(central, ch, w)
        /\ UNCHANGED <<channels, superbank>>
     \/ /\ ch = 7
        /\ superbank' = SuperbankBit(BankControl(w))
        /\ channels' = [channels EXCEPT ![7] = BankControl(w)]
        /\ UNCHANGED central
     \/ /\ ch \notin {L, Q, 7}
        /\ channels' = [channels EXCEPT ![ch] = w]
        /\ UNCHANGED <<central, superbank>>
  /\ result' = Answered("out", channelAt(ch), w, 0)
  /\ UNCHANGED <<erasable, fixed>>

(* Mutant: the reset forgets the decoded superbank bit.                    *)
reset_volatile_partial ==
  /\ central' = [i \in SpecialIndex |-> 0]
  /\ erasable' = [c \in ErasableCells |-> 0]
  /\ channels' = InputChannels
  /\ result' = Done("reset")
  /\ UNCHANGED <<fixed, superbank>>

reset_volatile ==
  /\ central' = [i \in SpecialIndex |-> 0]
  /\ erasable' = [c \in ErasableCells |-> 0]
  /\ channels' = InputChannels
  /\ superbank' = FALSE
  /\ result' = Done("reset")
  /\ UNCHANGED fixed

load_rope(rope) ==
  /\ fixed' = rope
  /\ result' = Done("load")
  /\ UNCHANGED <<central, erasable, channels, superbank>>

(* Diagnostics and fault injection address the cells directly.             *)
read_erasable_physical(b, o) ==
  LET p == erasableAt(b, o) IN
  /\ result' = IF InErasableArray(b, o)
               THEN Returned("read", p, read_physical(p)) ELSE Failed("read")
  /\ UNCHANGED state

write_erasable_physical(b, o, w) ==
  /\ IF InErasableArray(b, o)
     THEN StoreAt(erasableAt(b, o), w) /\ result' = Answered("poke", erasableAt(b, o), w, 0)
     ELSE result' = Failed("poke") /\ UNCHANGED <<central, erasable>>
  /\ UNCHANGED <<fixed, channels, superbank>>

(* The mask of the flip is arbitrary, so is the word it leaves.            *)
inject_fixed_bit_flip(b, o, w) ==
  /\ IF InRopeArray(b, o)
     THEN /\ fixed' = [fixed EXCEPT ![<<b, o>>] = w]
          /\ result' = Returned("flip", fixedAt(b, o), w)
     ELSE result' = Failed("flip") /\ UNCHANGED fixed
  /\ UNCHANGED <<central, erasable, channels, superbank>>

Logical ==
  \E a \in Addresses :
    \/ read(a)
    \/ read_and_edit(a)
    \/ \E w \in Words : write(a, w)

Processor ==
  \/ \E i \in Addresses, r \in RawRegisters : set_central_register(i, r)
  \/ \E ch \in Channels : read_channel(ch) \/ \E w \in Words : write_channel(ch, w)

Maintenance ==
  \/ reset_volatile
  \/ \E rope \in Ropes : load_rope(rope)
  \/ \E c \in PhysicalCells :
       \/ read_erasable_physical(c[1], c[2])
       \/ \E w \in Words : write_erasable_physical(c[1], c[2], w)
  \/ \E c \in FlippedCells, w \in Words : inject_fixed_bit_flip(c[1], c[2], w)

Next == Logical \/ Processor \/ Maintenance

Spec == Init /\ [][Next]_vars
-----------------------------------------------------------------------------
(* Every cell holds what its width allows; the selectors hold their fields. *)
TypeOK ==
  /\ central \in [SpecialIndex -> Register16]
  /\ central[EB] = EbField(central[EB])
  /\ central[FB] = FbField(central[FB])
  /\ central[Z] <= \o7777
  /\ erasable \in [ErasableCells -> Word]
  /\ fixed \in [RopeCells -> Word]
  /\ channels \in [Channels -> Word]
  /\ superbank \in BOOLEAN

(* BB is always the join of FB and EB, whichever of the three was written  *)
(* last and by whichever path: a register write, a logical write, a write  *)
(* through the bank-0 window or a physical write (synchronize_banks).      *)
BanksSynchronized == central[BB] = central[FB] + (central[EB] \div \o400)

(* The decoded flag that translation uses is the bit programs read back    *)
(* from channel 7.                                                         *)
SuperbankAgrees == superbank <=> SuperbankBit(channels[7])

(* No combination of FB and superbank selects a bank that is not installed: *)
(* a logical access never fails with FixedBankUnavailable.                 *)
BankInstalled ==
  \A a \in Addresses : a <= \o7777 => Installed(translate(a))

=============================================================================
