--------------------------- MODULE AgcArithmetic ---------------------------
(***************************************************************************)
(* The data path of the processor: what agc-cpu's execute does to the      *)
(* accumulator, to L and Q, to the operand and to a channel, for every     *)
(* instruction that computes.  The control instructions (INDEX, EXTEND,    *)
(* RESUME, ...) are in AgcInterrupts, the clock in AgcScaler, the banks    *)
(* and the editing registers in AgcMemory: operands here are registers     *)
(* and plain cells, named by their logical address.                        *)
(***************************************************************************)
EXTENDS AgcWord, FiniteSets

CONSTANTS
  Cells,         \* the logical addresses of the plain cells
  Channels,      \* the channels other than L and Q
  Instructions,  \* the instruction words executed, with their context
  FirstRegisters, FirstWords, FirstQ, FirstChannels,
                 \* what A, L and the cells, Q, and the channels may hold at first
  FirstAddress,  \* where the first instruction is
  MaxSteps       \* bound on the instructions executed

Code == INSTANCE AgcIsa WITH IndexValues <- {}, ComputedTargets <- {}

A == \o0
L == \o1
Q == \o2
EB == \o3
Z == \o5
ZERO == \o7
FullWidth == {A, L, Q}
Places == FullWidth \cup {Z, ZERO} \cup Cells

(* Channel 7 selects banks (AgcMemory), 034 and 035 are the downlink       *)
(* (AgcScaler, AgcRuntime): the rest of the channels only hold a word.     *)
Doubles == {"DAS", "DCA", "DCS", "DXCH"}
Operands(d) ==
  IF d.mnemonic \in DOMAIN Code!ChannelField \/ d.mnemonic \in {"TC", "TCF", "BZF", "BZMF"}
  THEN {}
  ELSE {d.operand} \cup IF d.mnemonic \in Doubles /\ d.operand > 0
                        THEN {d.operand - 1} ELSE {}
ASSUME ArithmeticAssumption ==
  /\ Cells \subseteq {a \in Code!Address : a > \o60}
  /\ Channels \subseteq 3 .. \o777 \ {7, \o34, \o35}
  /\ Instructions \subseteq [word : Word, extended : BOOLEAN]
  /\ \A i \in Instructions :
       LET d == Code!decode(i.word, i.extended)
       IN  /\ Operands(d) \subseteq Places
           /\ d.mnemonic \in DOMAIN Code!ChannelField => d.operand \in {L, Q} \cup Channels
  /\ FirstRegisters \cup FirstQ \subseteq Register16
  /\ FirstWords \cup FirstChannels \subseteq Word
  /\ FirstAddress \in Code!Address
  /\ MaxSteps \in Nat

VARIABLES
  store,     \* A, L, Q at full width, Z, and the cells
  channels,  \* the channels
  armed,     \* the HANDRUPT traps armed by channel 013
  executed,  \* the last instruction, decoded
  failed,    \* the instruction gave CpuError::Arithmetic
  steps      \* instructions executed, up to MaxSteps

vars == <<store, channels, armed, executed, failed, steps>>

-----------------------------------------------------------------------------
(* Operands.  A register is read and written at full width, a cell through *)
(* overflow correction; address 7 reads as zero and keeps nothing.         *)
(***************************************************************************)
read_register_operand(s, k) ==
  IF k = ZERO THEN 0 ELSE IF k \in FullWidth THEN s[k] ELSE SignExtend(s[k])
read_word(s, k) == OverflowCorrect(read_register_operand(s, k))

write_register_operand(s, k, r) ==
  IF k = ZERO THEN s
  ELSE [s EXCEPT ![k] = IF k \in FullWidth THEN r
                        ELSE IF k = Z THEN OverflowCorrect(r) % \o10000
                        ELSE OverflowCorrect(r)]

aWord(s) == OverflowCorrect(s[A])
set_z(s, k) == [s EXCEPT ![Z] = k % \o10000]
skip(s, n) == set_z(s, s[Z] + n)
predecessor(k) == IF k = 0 THEN 0 ELSE k - 1   \* saturating_sub
Normal(r) == SignExtend(OverflowCorrect(r))

(* What every instruction starts from: Z names the next word.              *)
Fetched == skip(store, 1)

-----------------------------------------------------------------------------
(* Addition.                                                               *)
One == 1
MinusOne == Complement16(1)
Away(r) == IF is_negative16(r) THEN MinusOne ELSE One
Toward(r) == IF is_negative16(r) THEN One ELSE MinusOne

AD(s, k) == [s EXCEPT ![A] = AddRegister(@, read_register_operand(s, k))]
SU(s, k) == [s EXCEPT ![A] = AddRegister(@, Complement16(read_register_operand(s, k)))]
ADS(s, k) == LET t == AD(s, k) IN write_register_operand(t, k, t[A])
Plus(s, k, n) == write_register_operand(s, k, AddRegister(read_register_operand(s, k), n))
INCR(s, k) == Plus(s, k, One)
AUG(s, k) == Plus(s, k, Away(read_register_operand(s, k)))
DIM(s, k) ==
  IF read_register_operand(s, k) \in {0, \o177777} THEN s
  ELSE Plus(s, k, Toward(read_register_operand(s, k)))

add_double_precision_carry(high, low) ==
  IF overflow_sign(low) = 1 THEN AddRegister(high, One)
  ELSE IF overflow_sign(low) = -1 THEN AddRegister(high, MinusOne) ELSE high

(* DAS with K = L doubles (A, L); elsewhere the sum goes to memory and its *)
(* overflow, one unit of the next word up, stays in A.                     *)
DDOUBL(s) ==
  LET low == AddRegister(s[L], s[L])
  IN  [s EXCEPT ![A] = add_double_precision_carry(AddRegister(@, @), low),
                ![L] = Normal(low)]

(* Mutant: the carry out of the low word is dropped.                       *)
DAS_uncarried(s, k) ==
  LET low == AddRegister(s[L], read_register_operand(s, k))
      high == AddRegister(s[A], read_register_operand(s, predecessor(k)))
      t == [s EXCEPT ![A] = IF overflow_sign(high) = -1 THEN MinusOne ELSE overflow_sign(high),
                     ![L] = 0]
  IN  IF k = L THEN DDOUBL(s)
      ELSE write_register_operand(
             write_register_operand(t, k, Normal(low)), predecessor(k), high)
DAS(s, k) ==
  LET low == AddRegister(s[L], read_register_operand(s, k))
      high == add_double_precision_carry(
                AddRegister(s[A], read_register_operand(s, predecessor(k))), low)
      t == [s EXCEPT ![A] = IF overflow_sign(high) = -1 THEN MinusOne ELSE overflow_sign(high),
                     ![L] = 0]
  IN  IF k = L THEN DDOUBL(s)
      ELSE write_register_operand(
             write_register_operand(t, k, Normal(low)), predecessor(k), high)

modular_subtract(s, k) ==
  LET twos == (aWord(s) - read_word(s, k)) % \o100000
  IN  [s EXCEPT ![A] = SignExtend(IF twos >= \o40000 THEN twos - 1 ELSE twos)]

-----------------------------------------------------------------------------
(* Loads, exchanges and transfers to storage.                              *)
CA(s, k) == [s EXCEPT ![A] = read_register_operand(s, k)]
CS(s, k) == [s EXCEPT ![A] = Complement16(read_register_operand(s, k))]

double_load(s, k, complemented) ==
  LET Through(v) == IF complemented THEN Complement16(v) ELSE v IN
  IF k = L THEN [s EXCEPT ![A] = Through(@), ![L] = Normal(Through(@))]
  ELSE [s EXCEPT ![L] = Normal(Through(read_register_operand(s, k))),
                 ![A] = Through(read_register_operand(s, predecessor(k)))]
DCA(s, k) == double_load(s, k, FALSE)
DCS(s, k) == double_load(s, k, TRUE)

exchange_register(s, k, r) ==
  IF k = r THEN s
  ELSE IF k = ZERO /\ r # A THEN [s EXCEPT ![r] = 0]
  ELSE [write_register_operand(s, k, s[r]) EXCEPT ![r] = read_register_operand(s, k)]
XCH(s, k) == exchange_register(s, k, A)
LXCH(s, k) == exchange_register(s, k, L)
QXCH(s, k) == exchange_register(s, k, Q)

(* Mutant: both words are read before either is written.                   *)
DXCH_together(s, k) ==
  LET t == write_register_operand(write_register_operand(s, k, s[L]), predecessor(k), s[A])
  IN  [t EXCEPT ![L] = Normal(read_register_operand(s, k)),
                ![A] = read_register_operand(s, predecessor(k))]
DXCH(s, k) ==
  LET t == [write_register_operand(s, k, s[L]) EXCEPT
              ![L] = Normal(read_register_operand(s, k))]
      h == predecessor(k)
  IN  IF k = L THEN [s EXCEPT ![L] = Normal(@)]
      ELSE [write_register_operand(t, h, t[A]) EXCEPT ![A] = read_register_operand(t, h)]

(* TS leaves the overflow of A behind as a signed one, and skips.          *)
Left(r) == IF overflow_sign(r) = 1 THEN One ELSE IF overflow_sign(r) = -1 THEN MinusOne ELSE r
transfer_to_storage(s, k) ==
  LET skipped == skip(s, IF has_overflow(s[A]) THEN 1 ELSE 0)
  IN  IF k = A THEN skipped
      ELSE IF k = Z THEN [set_z(s, s[A]) EXCEPT ![A] = Left(@)]
      ELSE [skip(write_register_operand(s, k, s[A]), IF has_overflow(s[A]) THEN 1 ELSE 0)
              EXCEPT ![A] = Left(s[A])]

-----------------------------------------------------------------------------
(* Counting, masking and branching.                                        *)
Magnitude(r) == IF is_negative16(r) THEN Complement16(r) ELSE r
CCS(s, k) ==
  LET r == read_register_operand(s, k)
      w == OverflowCorrect(r)
      words == IF k < EB /\ overflow_sign(r) = 1 THEN 0
               ELSE IF k < EB /\ overflow_sign(r) = -1 THEN 2
               ELSE IF w = 0 THEN 1
               ELSE IF w = \o77777 THEN 3
               ELSE IF is_negative(w) THEN 2 ELSE 0
  IN  skip([s EXCEPT ![A] = IF Magnitude(r) = 0 THEN 0 ELSE Magnitude(r) - 1], words)

(* The operators &, | and ^ on sixteen bits, each bit named by its weight. *)
(* A gate is told by how many ones among its two inputs it answers to.     *)
Bit(v, weight) == (v \div weight) % 2
BitwiseOf(v, w, gate) ==
  LET bit(weight) == IF Bit(v, weight) + Bit(w, weight) \in gate THEN weight ELSE 0
      nibble(unit) == bit(unit) + bit(2 * unit) + bit(4 * unit) + bit(8 * unit)
  IN  nibble(1) + nibble(\o20) + nibble(\o400) + nibble(\o10000)
AndGate == {2}
OrGate == {1, 2}
XorGate == {1}

MASK(s, k) ==
  [s EXCEPT ![A] = IF k < EB THEN BitwiseOf(@, read_register_operand(s, k), AndGate)
                   ELSE SignExtend(BitwiseOf(aWord(s), read_word(s, k), AndGate))]
BZF(s, k) == IF s[A] \in {0, \o177777} THEN set_z(s, k) ELSE s
BZMF(s, k) == IF s[A] = 0 \/ is_negative16(s[A]) THEN set_z(s, k) ELSE s
TC(s, k) == set_z(IF k = Q THEN s ELSE [s EXCEPT ![Q] = s[Z]], k)
TCF(s, k) == set_z(s, k)

-----------------------------------------------------------------------------
(* MP: the double-length product of A and the operand, with one sign in    *)
(* both words; a zero A and an operand of the other sign give -0.          *)
Signed(n, negative) == IF negative THEN -n ELSE n
Size(n) == IF n < 0 THEN -n ELSE n
MP(s, k) ==
  LET a == aWord(s)
      b == read_word(s, k)
      negative == is_negative(a) # is_negative(b)
      product == Signed(Size(to_i32_lossy_zero(a)) * Size(to_i32_lossy_zero(b)), negative)
      d == double_from_i64(product)
      loaded(high, low) == [s EXCEPT ![A] = SignExtend(high), ![L] = SignExtend(low)]
  IN  IF product = 0 /\ negative /\ is_zero(a) /\ ~is_zero(b)
      THEN loaded(\o77777, \o77777)
      ELSE loaded(d.high, d.low)

-----------------------------------------------------------------------------
(* DV.  A and L become one 29-bit number of one sign (`decent', in 30      *)
(* bits); a divisor larger than A is divided by, any other goes through    *)
(* the machine's own 14 trial subtractions.                                *)
(***************************************************************************)
absolute_sp(w) == IF (w \div \o40000) % 2 = 1 THEN complement(w % \o100000) ELSE w % \o100000
SignOf(w) == (w \div \o40000) % 2

Borrowed(high, low) == [high |-> high - 1, low |-> (low + \o40001) % \o100000]

OneSign(high, low) ==
  IF SignOf(low) = SignOf(high) THEN [high |-> high, low |-> low]
  ELSE IF low \in {0, \o77777}
       THEN [high |-> high, low |-> IF SignOf(high) = 0 THEN 0 ELSE \o77777]
  ELSE IF SignOf(high) = 0 THEN Borrowed(high, low)
  ELSE LET b == Borrowed(complement(high), complement(low % \o100000))
       IN  [high |-> complement(b.high), low |-> complement(b.low)]

sp_to_decent(high, low) ==
  LET alone == SignExtend(low % \o100000)
      d == OneSign(high, low)
  IN  IF high \in {0, \o77777}
      THEN IF is_negative16(alone) THEN \o10000000000 - \o200000 + alone ELSE alone
      ELSE (d.high * DoubleBase) + (d.low % DoubleBase) + (d.high \div DoubleBase) * \o4000000000

agc_double_to_i64(v) ==
  LET magnitude == v % \o2000000000
  IN  IF (v \div \o2000000000) % 2 = 1 THEN magnitude - MAX_DOUBLE ELSE magnitude

Doubled(r) == (r \div \o100000) * \o100000 + 2 * (r % \o40000)
(* Mutant: the shift of the remainder does not bring its sign around.      *)
Trial_unrotated(divisor, state) ==
  LET q == (2 * state.quotient) % \o200000
      sum == AddRegister(Doubled(state.remainder), divisor)
  IN  IF is_negative16(sum) THEN [quotient |-> q + 1, remainder |-> sum]
      ELSE [quotient |-> q, remainder |-> Doubled(state.remainder)]
Trial(divisor, state) ==
  LET q == (2 * state.quotient) % \o200000
      r == Doubled(state.remainder)
           + IF is_negative16(q) THEN 0 ELSE state.remainder \div \o100000
      sum == AddRegister(r, divisor)
  IN  IF is_negative16(sum) THEN [quotient |-> q + 1, remainder |-> sum]
      ELSE [quotient |-> q, remainder |-> r]

Two(divisor, state) == Trial(divisor, Trial(divisor, state))
Six(divisor, state) == Two(divisor, Two(divisor, Two(divisor, state)))
Fourteen(divisor, state) == Two(divisor, Six(divisor, Six(divisor, state)))

simulate_divide(a, l, divisor) ==
  LET down == IF is_negative16(a) THEN a ELSE Complement16(a)
      dividendNegative == is_negative16(IF down = \o177777 THEN l ELSE a)
      biased == AddRegister(IF dividendNegative THEN Complement16(l) ELSE l, \o40000)
      first == IF overflow_sign(biased) = 1 THEN down ELSE AddRegister(down, One)
      size == IF is_negative16(divisor) THEN Complement16(divisor) ELSE divisor
      quotientSign == (biased \div \o100000) * \o100000
      before == [quotient |-> Doubled(biased) + quotientSign \div \o100000,
                 remainder |-> first]
      after == Fourteen(size, before)
      q == quotientSign + (after.quotient % \o100000)
      r == after.remainder
  IN  [A |-> IF dividendNegative = is_negative16(divisor) THEN q ELSE Complement16(q),
       L |-> IF dividendNegative THEN r ELSE Complement16(r)]

(* A, L and Z as divisors are taken with the sign that makes them larger.  *)
Divisor(s, k, aIsZero) ==
  LET negative == is_negative16(IF aIsZero THEN s[L] ELSE s[A])
  IN  IF k = A THEN IF is_negative16(s[A]) THEN s[A] ELSE Complement16(s[A])
      ELSE IF k = L
           THEN Normal(AddRegister(IF negative THEN Complement16(s[L]) ELSE s[L], \o40000))
      ELSE IF k = Z THEN s[Z] + IF negative THEN \o100000 ELSE 0
      ELSE read_register_operand(s, k)

(* What DV leaves in A and L, and whether the quotient fits a word.        *)
Divided(s, k) ==
  LET decent == sp_to_decent(aWord(s), s[L])
      low == (decent % \o40000) + ((decent \div \o4000000000) % 2) * \o40000
      high == OverflowCorrect((decent \div DoubleBase) % \o200000)
      absA == absolute_sp(high)
      absL == absolute_sp(low)
      divisor == Divisor(s, k, absA = 0)
      word == OverflowCorrect(divisor)
      absK == absolute_sp(word)
      dividend == agc_double_to_i64(decent)
      quotient == Signed(Size(dividend) \div Size(to_i32_lossy_zero(word)),
                         (dividend < 0) # (to_i32_lossy_zero(word) < 0))
      remainder == Signed(Size(dividend) % Size(to_i32_lossy_zero(word)), dividend < 0)
      leaves(a, l) == [A |-> SignExtend(a), L |-> l, ok |-> TRUE]
      simulated == simulate_divide(s[A], s[L], divisor)
      largest(positive) == IF positive THEN \o37777 ELSE \o40000
  IN  IF absA > absK \/ (absA = absK /\ absL # 0) \/ has_overflow(divisor)
      THEN [A |-> simulated.A, L |-> simulated.L, ok |-> TRUE]
      ELSE IF absA = 0 /\ absL = 0
      THEN LET same == SignOf(low) = SignOf(word)
           IN  leaves(IF absK = 0 THEN largest(same) ELSE IF same THEN 0 ELSE \o77777, s[L])
      ELSE IF absA = absK
      THEN leaves(largest(high = word), SignExtend(high))
      ELSE IF ~Representable(quotient) THEN [A |-> s[A], L |-> s[L], ok |-> FALSE]
      ELSE leaves(from_i32(quotient),
                  SignExtend(IF remainder = 0 /\ dividend < 0 THEN \o77777
                             ELSE from_i32(remainder)))

DV(s, k) == [s EXCEPT ![A] = Divided(s, k).A, ![L] = Divided(s, k).L]

-----------------------------------------------------------------------------
(* Channels.  As channels 1 and 2 the registers L and Q keep full width.   *)
(* Writing 013 arms traps with three of its bits and stores the others,    *)
(* 033 only sets its resettable bits, 077 is cleared.                      *)
(***************************************************************************)
TrapBits == [A31 |-> \o4000, B31 |-> \o10000, T32 |-> \o20000]
Arming(c, w) == IF c = \o13 THEN {t \in DOMAIN TrapBits :
                                    BitwiseOf(w, TrapBits[t], AndGate) # 0} ELSE {}
Latched(c, w) ==
  IF c = \o13 THEN BitwiseOf(w, \o43777, AndGate)
  ELSE IF c = \o33 THEN BitwiseOf(channels[c], \o76000, OrGate)
  ELSE IF c = \o77 THEN 0 ELSE w

write_channel(c, w) ==
  /\ channels' = [channels EXCEPT ![c] = Latched(c, w)]
  /\ armed' = armed \cup Arming(c, w)

(* Every instruction ends with the correction of L.  Mutant: it does not.  *)
Commit_uncorrected(s) == store' = s
Commit(s) == store' = [s EXCEPT ![L] = Normal(@)]

READ(s, c) ==
  Commit([s EXCEPT ![A] = IF c \in {L, Q} THEN s[c] ELSE SignExtend(channels[c])])
  /\ UNCHANGED <<channels, armed>>
WRITE(s, c) ==
  IF c \in {L, Q} THEN Commit([s EXCEPT ![c] = s[A]]) /\ UNCHANGED <<channels, armed>>
  ELSE Commit(s) /\ write_channel(c, aWord(s))
channel_logic(s, c, gate, writes) ==
  LET wide == BitwiseOf(s[A], s[c], gate)
      word == BitwiseOf(aWord(s), channels[c], gate)
  IN  IF c \in {L, Q}
      THEN /\ Commit([s EXCEPT ![A] = wide, ![c] = IF writes THEN wide ELSE @])
           /\ UNCHANGED <<channels, armed>>
      ELSE /\ Commit([s EXCEPT ![A] = SignExtend(word)])
           /\ IF writes THEN write_channel(c, word) ELSE UNCHANGED <<channels, armed>>

-----------------------------------------------------------------------------
(* A machine before any instruction; L is free of overflow between steps.  *)
Contents(a, l, q, c) ==
  [p \in Places |-> IF p = A THEN a ELSE IF p = L THEN SignExtend(l)
                    ELSE IF p = Q THEN q ELSE IF p = Z THEN FirstAddress
                    ELSE IF p = ZERO THEN 0 ELSE c[p]]
Init ==
  /\ \E a \in FirstRegisters, l \in FirstWords, q \in FirstQ, c \in [Cells -> FirstWords] :
       store = Contents(a, l, q, c)
  /\ \E w \in FirstChannels : channels = [c \in Channels |-> w]
  /\ armed = {}
  /\ executed = [mnemonic |-> "none", operand |-> 0, word |-> 0, extended |-> FALSE]
  /\ failed = FALSE
  /\ steps = 0

computes(d, m, Effect(_, _)) ==
  /\ d.mnemonic = m
  /\ Commit(Effect(Fetched, d.operand))
  /\ UNCHANGED <<channels, armed, failed>>

(* Cpu::execute, without the control instructions.                         *)
execute(d) ==
  \/ computes(d, "AD", AD) \/ computes(d, "ADS", ADS) \/ computes(d, "SU", SU)
  \/ computes(d, "INCR", INCR) \/ computes(d, "AUG", AUG) \/ computes(d, "DIM", DIM)
  \/ computes(d, "DAS", DAS) \/ computes(d, "MSU", modular_subtract)
  \/ computes(d, "CA", CA) \/ computes(d, "CS", CS)
  \/ computes(d, "DCA", DCA) \/ computes(d, "DCS", DCS)
  \/ computes(d, "XCH", XCH) \/ computes(d, "LXCH", LXCH) \/ computes(d, "QXCH", QXCH)
  \/ computes(d, "DXCH", DXCH) \/ computes(d, "TS", transfer_to_storage)
  \/ computes(d, "CCS", CCS) \/ computes(d, "MASK", MASK)
  \/ computes(d, "BZF", BZF) \/ computes(d, "BZMF", BZMF)
  \/ computes(d, "TC", TC) \/ computes(d, "TCF", TCF) \/ computes(d, "MP", MP)
  \/ /\ d.mnemonic = "DV"
     /\ Commit(DV(Fetched, d.operand))
     /\ failed' = ~Divided(Fetched, d.operand).ok
     /\ UNCHANGED <<channels, armed>>
  \/ /\ UNCHANGED failed
     /\ \/ d.mnemonic = "READ" /\ READ(Fetched, d.operand)
        \/ d.mnemonic = "WRITE" /\ WRITE(Fetched, d.operand)
        \/ d.mnemonic = "RAND" /\ channel_logic(Fetched, d.operand, AndGate, FALSE)
        \/ d.mnemonic = "ROR" /\ channel_logic(Fetched, d.operand, OrGate, FALSE)
        \/ d.mnemonic = "RXOR" /\ channel_logic(Fetched, d.operand, XorGate, FALSE)
        \/ d.mnemonic = "WAND" /\ channel_logic(Fetched, d.operand, AndGate, TRUE)
        \/ d.mnemonic = "WOR" /\ channel_logic(Fetched, d.operand, OrGate, TRUE)

step ==
  \E i \in Instructions :
    LET d == Code!decode(i.word, i.extended) IN
    /\ steps < MaxSteps
    /\ steps' = steps + 1
    /\ executed' = [mnemonic |-> d.mnemonic, operand |-> d.operand,
                    word |-> i.word, extended |-> i.extended]
    /\ execute(d)

Next == step
Spec == Init /\ [][Next]_vars

-----------------------------------------------------------------------------
(* Registers keep sixteen bits and L no overflow, cells and channels keep  *)
(* words: agc-word's representations are closed under every instruction.   *)
TypeOK ==
  /\ \A p \in Places : store[p] \in IF p \in FullWidth THEN Register16
                                    ELSE IF p = Z THEN Code!Address ELSE Word
  /\ ~has_overflow(store[L]) /\ store[ZERO] = 0
  /\ channels \in [Channels -> Word]
  /\ armed \subseteq DOMAIN TrapBits

(* Encoding what was decoded gives the word back: Isa::encode_with_context *)
(* and Isa::decode agree on the fields of every instruction executed.       *)
Recodes ==
  steps > 0 =>
    LET e == executed IN
    /\ Code!Encodable(e.mnemonic, e.operand, e.extended)
    /\ Code!encode_with_context(e.mnemonic, e.operand, e.extended) = e.word

-----------------------------------------------------------------------------
(* The numbers behind the words, in the step that executed an instruction. *)
Executed(mnemonics) == executed'.mnemonic \in mnemonics /\ steps' # steps
K == executed'.operand
Number(s, k) == value16(read_register_operand(s, k))
(* What a place can keep of a number: A and Q wrap around 16 bits, L and   *)
(* the cells lose what their overflow is worth.                            *)
KeptOf(k, n) ==
  IF k \in {A, Q}
  THEN IF n > \o77777 THEN n - \o177777 ELSE IF n < -\o77777 THEN n + \o177777 ELSE n
  ELSE IF n > MAX_MAGNITUDE THEN n - DoubleBase
  ELSE IF n < -MAX_MAGNITUDE THEN n + DoubleBase ELSE n
Pair(s, k) == Number(s, predecessor(k)) * DoubleBase + Number(s, k)
AL(s) == Number(s, A) * DoubleBase + Number(s, L)
Modest(n) == -\o77777 < n /\ n < \o77777

(* The adding instructions add numbers, whichever zero, sign or overflow   *)
(* their words carry: AUG and DIM move away from and towards zero by one.  *)
SumsExact ==
  [][ /\ Executed({"AD"}) => Number(store', A) = KeptOf(A, Number(store, A) + Number(Fetched, K))
      /\ Executed({"SU"}) => Number(store', A) = KeptOf(A, Number(store, A) - Number(Fetched, K))
      /\ Executed({"INCR"}) /\ K \notin {Z, ZERO} =>
           Number(store', K) = KeptOf(K, Number(store, K) + 1)
      /\ Executed({"AUG"}) /\ K \notin {Z, ZERO} =>
           Size(Number(store', K)) = Size(KeptOf(K, Size(Number(store, K)) + 1))
      /\ Executed({"DIM"}) /\ K \notin {Z, ZERO} =>
           Size(Number(store', K)) = IF Number(store, K) = 0 THEN 0
                                     ELSE Size(Number(store, K)) - 1
    ]_vars

(* DAS and its doubling form lose nothing: the double word in memory and   *)
(* the carry in A are together the sum of the two double words.            *)
DoubleSumConserved ==
  [][ Executed({"DAS"}) =>
        /\ K = L /\ Modest(2 * Number(store, A) + 1) => AL(store') = 2 * AL(store)
        /\ (/\ K \in {Q} \cup Cells
            /\ Modest(Number(store, A) + Number(store, K - 1))
            /\ Modest(Number(store, L) + Number(store, K))) =>
             Number(store', A) * DoubleBase * DoubleBase + Pair(store', K)
               = AL(store) + Pair(store, K)
    ]_vars

(* MP leaves in A and L one double word of one sign, the exact product.    *)
ProductExact ==
  [][ Executed({"MP"}) =>
        /\ AL(store') = to_i32_lossy_zero(aWord(store))
                          * to_i32_lossy_zero(read_word(Fetched, K))
        /\ is_negative16(store'[A]) = is_negative16(store'[L])
    ]_vars

(* Where the quotient fits in a word, DV gives the quotient and the        *)
(* remainder of the division of (A, L), the remainder with the sign of the *)
(* dividend.  The code takes a low word of -0 behind a positive A for a    *)
(* borrow (sp_to_decent compares 16 bits with 077777): that dividend is    *)
(* left out here.  No dividend reaches the conversions out of range, which *)
(* would stop the machine with CpuError::Arithmetic.                       *)
Dividend == to_i32_lossy_zero(aWord(store)) * DoubleBase + Number(store, L)
Divides ==
  /\ Executed({"DV"}) /\ K \in Cells
  /\ Size(Dividend) < Size(Number(store, K)) * DoubleBase
  /\ ~(store[L] = \o177777 /\ Number(store, A) > 0)
DivisionExact ==
  [][ /\ ~failed'
      /\ Divides =>
           /\ Number(store', A) * Number(store, K) + Number(store', L) = Dividend
           /\ Size(Number(store', L)) < Size(Number(store, K))
           /\ Number(store', L) # 0 => (Number(store', L) < 0) = (Dividend < 0)
    ]_vars

(* Where both apply, the division by quotient and the simulation of the    *)
(* machine's trial subtractions (simulate_divide) give the same numbers.   *)
DivisionsAgree ==
  [][ Divides /\ ~has_overflow(store[A]) =>
        LET d == simulate_divide(store[A], store[L], SignExtend(store[K]))
        IN  value16(d.A) = Number(store', A) /\ value16(d.L) = Number(store', L)
    ]_vars

(* An exchange moves words and loses none, also where the pair of DXCH     *)
(* overlaps the registers it is exchanged with.                            *)
Held(s, w) == {p \in (FullWidth \cup Cells) : read_word(s, p) = w}
ExchangesPermute ==
  [][ Executed({"XCH", "LXCH", "QXCH", "DXCH"}) /\ K \in FullWidth \cup Cells
      /\ (\A r \in {A, Q} : ~has_overflow(store[r])) =>
        \A p \in FullWidth \cup Cells :
          LET w == read_word(store, p)
          IN  Cardinality(Held(store', w)) = Cardinality(Held(store, w))
    ]_vars

(* CCS diminishes by one the magnitude of its operand and branches on its  *)
(* sign: the four ways are told apart by the full register, so that an     *)
(* overflowed one is never taken for a zero.                               *)
CcsCounts ==
  [][ Executed({"CCS"}) =>
        LET n == Number(Fetched, K)
            way == (store'[Z] - Fetched[Z]) % \o10000
        IN  /\ Number(store', A) = IF n = 0 THEN 0 ELSE Size(n) - 1
            /\ way = IF n > 0 THEN 0 ELSE IF n < 0 THEN 2
                     ELSE IF read_register_operand(Fetched, K) = 0 THEN 1 ELSE 3
    ]_vars

(* TS stores the accumulator and, if it has overflowed, skips with the     *)
(* lost unit of the next word in A: the two are what A was.                *)
TransferConserved ==
  [][ Executed({"TS"}) /\ K \in Cells =>
        LET skipped == (store'[Z] - Fetched[Z]) % \o10000
        IN  Number(store', K) + skipped * Number(store', A) * DoubleBase = Number(store, A)
    ]_vars

(* Every computing instruction is the arithmetic of the numbers that its   *)
(* words stand for (execute), and every moving one keeps them.             *)
ArithmeticExact ==
  SumsExact /\ DoubleSumConserved /\ ProductExact /\ DivisionExact /\ CcsCounts
NothingLost == ExchangesPermute /\ TransferConserved
=============================================================================
