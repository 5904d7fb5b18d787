------------------------ MODULE AgcInterruptsProofs ------------------------
(***************************************************************************)
(* Machine-checked facts about AgcInterrupts, for every program, every set *)
(* of requests and every index value.                                      *)
(***************************************************************************)
EXTENDS InterruptTransparency, TLAPS

(* Addresses and words, as bounds.                                         *)
LEMMA Bounds ==
  /\ \A a \in Address : a \in Nat /\ a <= \o7777
  /\ \A a \in Nat : a <= \o7777 => a \in Address
  /\ \A w \in Word : w \in Nat /\ w <= \o77777
  /\ \A w \in Nat : w <= \o77777 => w \in Word
<1>1. LastAddress = \o7777
  BY DEF LastAddress
<1>2. \A a : a \in Address <=> a \in Nat /\ a <= LastAddress
  <2> HIDE DEF LastAddress
  <2>1. LastAddress \in Nat
    BY <1>1
  <2>2. QED
    BY <2>1 DEF Address
<1>3. QED
  BY <1>1, <1>2 DEF Word

(* The address arithmetic stays inside the address space, and backing up   *)
(* one word undoes the advance that interrupt entry saved.                 *)
LEMMA AddressArithmetic ==
  ASSUME NEW a \in Address
  PROVE  /\ \A n \in Nat : after(a, n) \in Address
         /\ (a + \o7777) % \o10000 \in Address
         /\ (after(a, 1) + \o7777) % \o10000 = a
<1>1. a \in Nat /\ a <= \o7777
  BY Bounds
<1>2. ASSUME NEW n \in Nat PROVE after(a, n) \in Nat /\ after(a, n) <= \o7777
  BY <1>1 DEF after
<1>3. (a + \o7777) % \o10000 \in Nat /\ (a + \o7777) % \o10000 <= \o7777
  BY <1>1
<1>4. (after(a, 1) + \o7777) % \o10000 = a
  BY <1>1 DEF after
<1>5. QED
  BY <1>2, <1>3, <1>4, Bounds

(* The end-around-carry sum of two words is a word.                        *)
LEMMA SumIsWord ==
  ASSUME NEW v \in Word, NEW w \in Word
  PROVE  wrapping_add(v, w) \in Word
<1>1. v \in Nat /\ v <= \o77777 /\ w \in Nat /\ w <= \o77777
  BY Bounds
<1>2. wrapping_add(v, w) \in Nat /\ wrapping_add(v, w) <= \o77777
  BY <1>1 DEF wrapping_add
<1>3. QED
  BY <1>2, Bounds

(* Every operand field names an address.                                   *)
LEMMA OperandIsAddress ==
  ASSUME NEW raw \in Word, NEW ext \in BOOLEAN
  PROVE  decode(raw, ext).operand \in Address
<1>1. raw \in Nat /\ raw <= \o77777
  BY Bounds
<1>2. /\ raw % \o1000 \in Address /\ raw % \o2000 \in Address
      /\ raw % \o10000 \in Address /\ 0 \in Address
  <2>1. /\ raw % \o1000 \in Nat /\ raw % \o1000 <= \o7777
        /\ raw % \o2000 \in Nat /\ raw % \o2000 <= \o7777
        /\ raw % \o10000 \in Nat /\ raw % \o10000 <= \o7777
    BY <1>1
  <2>2. QED
    BY <2>1, Bounds
<1>3. decodeExtended(raw).operand \in Address
  BY <1>2 DEF decodeExtended, op
<1>4. decodeBasic(raw).operand \in Address
  BY <1>2 DEF decodeBasic, op
<1>5. QED
  BY <1>3, <1>4 DEF decode

(* Control never leaves the address space.                                 *)
LEMMA SuccessorsAreAddresses ==
  ASSUME NEW d, d.operand \in Address, NEW a \in Address
  PROVE  Successors(d, a) \subseteq Address
<1>1. \A n \in Nat : after(a, n) \in Address
  BY AddressArithmetic
<1>2. {after(a, n) : n \in 1 .. 4} \subseteq Address
  BY <1>1
<1>3. QED
  BY <1>1, <1>2, IsaAssumption DEF Successors

(* What is about to be executed is a word at an address.                   *)
LEMMA ActualIsWord ==
  ASSUME TypeOK
  PROVE  actual \in Word /\ instruction.operand \in Address
<1>1. fetched \in Word
  BY ControlAssumption DEF fetched, TypeOK
<1>2. actual \in Word
  BY <1>1, SumIsWord DEF actual, TypeOK
<1>3. QED
  BY <1>2, OperandIsAddress DEF instruction, TypeOK

(* The four fixed entry points.                                            *)
LEMMA FixedAddresses ==
  /\ Start \in Address /\ 0 \in Address /\ 0 \in Word
  /\ \A i \in Interrupt : vector(i) \in Address
<1>1. \A i \in Interrupt : vector(i) \in Nat /\ vector(i) <= \o7777
  BY DEF vector, Interrupt
<1>2. QED
  BY <1>1, Bounds DEF Start

(* The request that is answered is a pending one.                          *)
LEMMA HighestIsPending ==
  ASSUME NEW S \in SUBSET Interrupt, S # {}
  PROVE  Highest(S) \in S
<1>1. \E i \in S : \A j \in S : i <= j
  <2>1. \A i \in S : i \in Nat /\ 1 <= i /\ i <= 10
    BY DEF Interrupt
  <2>2. SUFFICES ASSUME \A i \in S : \E j \in S : ~(i <= j) PROVE FALSE
    OBVIOUS
  <2>3. 1 \notin S /\ 2 \notin S /\ 3 \notin S
    BY <2>1, <2>2
  <2>4. 4 \notin S /\ 5 \notin S /\ 6 \notin S
    BY <2>1, <2>2, <2>3
  <2>5. 7 \notin S /\ 8 \notin S
    BY <2>1, <2>2, <2>3, <2>4
  <2>6. 9 \notin S /\ 10 \notin S
    BY <2>1, <2>2, <2>3, <2>4, <2>5
  <2>7. QED
    BY <2>1, <2>3, <2>4, <2>5, <2>6
<1>2. QED
  BY <1>1 DEF Highest

(* Type correctness, for every program.                                    *)
THEOREM Typing == Spec => []TypeOK
<1>0. {Downrupt} \subseteq Interrupt
  BY DEF Interrupt, Downrupt
<1>1. Init => TypeOK
  BY <1>0, FixedAddresses, Zenon DEF Init, TypeOK
<1>2. TypeOK /\ [Next]_vars => TypeOK'
  <2> SUFFICES ASSUME TypeOK, [Next]_vars PROVE TypeOK'
    OBVIOUS
  <2> USE DEF TypeOK
  <2>0. actual \in Word /\ instruction.operand \in Address
    BY ActualIsWord
  <2>1. CASE accept_interrupt
    <3>1. z' \in Address /\ pending_interrupts' \subseteq Interrupt
      BY <2>1, FixedAddresses, HighestIsPending DEF accept_interrupt
    <3>2. zrupt' \in Address /\ brupt' \in Word
      BY <2>0, <2>1, AddressArithmetic DEF accept_interrupt, saved
    <3>3. QED
      BY <2>1, <3>1, <3>2 DEF accept_interrupt
  <2>2. CASE resume
    <3>1. (zrupt + \o7777) % \o10000 \in Address
      BY AddressArithmetic
    <3>2. /\ z' \in Address
          /\ indexed' = NoIndex
          /\ substitute_instruction' = TRUE
          /\ in_interrupt' = FALSE
          /\ extended' = FALSE
      BY <2>2, <3>1 DEF resume
    <3>3. UNCHANGED <<interrupt_enabled, pending_interrupts, zrupt, brupt, overflow>>
      BY <2>2 DEF resume
    <3>4. QED
      BY <3>2, <3>3
  <2>3. CASE execute
    <3>1. Transfers(instruction) \subseteq Address
      BY <2>0, SuccessorsAreAddresses, AddressArithmetic DEF Transfers
    <3>2. z' \in Address
      BY <2>3, <3>1 DEF execute
    <3>3. indexed' \in Word \cup {NoIndex}
      BY <2>3, IsaAssumption DEF execute
    <3>4. extended' \in BOOLEAN /\ interrupt_enabled' \in BOOLEAN
      BY <2>3 DEF execute, ExtendsNext
    <3>5. overflow' \in BOOLEAN
      BY <2>3 DEF execute, Overflows
    <3>6. QED
      BY <2>3, <3>2, <3>3, <3>4, <3>5 DEF execute
  <2>4. ASSUME NEW i \in Requesters, request_interrupt(i) PROVE TypeOK'
    BY <2>4, ControlAssumption DEF request_interrupt
  <2>5. ASSUME NEW i \in Cancelled, cancel_interrupt(i) PROVE TypeOK'
    BY <2>5 DEF cancel_interrupt
  <2>6. CASE reset
    BY <1>0, <2>6, FixedAddresses, Zenon DEF reset
  <2>7. CASE UNCHANGED vars
    BY <2>7 DEF vars
  <2>8. QED
    BY <2>1, <2>2, <2>3, <2>4, <2>5, <2>6, <2>7 DEF Next, step
<1>3. QED
  BY <1>1, <1>2, PTL DEF Spec

(* The word substituted after RESUME is executed on its own.               *)
THEOREM SubstituteIsAlone == Spec => []SubstituteAlone
<1>1. Init => SubstituteAlone
  BY DEF Init, SubstituteAlone
<1>2. SubstituteAlone /\ [Next]_vars => SubstituteAlone'
  <2> SUFFICES ASSUME SubstituteAlone, [Next]_vars PROVE SubstituteAlone'
    OBVIOUS
  <2> USE DEF SubstituteAlone
  <2>1. CASE accept_interrupt
    BY <2>1 DEF accept_interrupt
  <2>2. CASE resume
    BY <2>2 DEF resume
  <2>3. CASE execute
    BY <2>3 DEF execute
  <2>4. ASSUME NEW i, request_interrupt(i) \/ cancel_interrupt(i)
        PROVE  SubstituteAlone'
    BY <2>4 DEF request_interrupt, cancel_interrupt
  <2>5. CASE reset
    BY <2>5 DEF reset
  <2>6. CASE UNCHANGED vars
    BY <2>6 DEF vars
  <2>7. QED
    BY <2>1, <2>2, <2>3, <2>4, <2>5, <2>6 DEF Next, step
<1>3. QED
  BY <1>1, <1>2, PTL DEF Spec

(* The program is read by the same instruction set.                        *)
LEMMA SameInstructionSet ==
  /\ \A w, e : Background!decode(w, e) = decode(w, e)
  /\ \A d, a : Background!Successors(d, a) = Successors(d, a)
  /\ \A d, e : Background!ExtendsNext(d, e) = ExtendsNext(d, e)
  /\ \A v, w : Background!wrapping_add(v, w) = wrapping_add(v, w)
<1>1. \A w, e : Background!decode(w, e) = decode(w, e)
  <2> TAKE w, e
  <2>1. Background!decodeBasic(w) = decodeBasic(w)
    BY DEF decodeBasic, Background!decodeBasic, op, Background!op,
           StoreQuarters, Background!StoreQuarters,
           ExchangeQuarters, Background!ExchangeQuarters
  <2>2. Background!decodeExtended(w) = decodeExtended(w)
    BY DEF decodeExtended, Background!decodeExtended, op, Background!op,
           ChannelOps, Background!ChannelOps,
           ExtendedQuarters, Background!ExtendedQuarters
  <2>3. QED
    BY <2>1, <2>2 DEF decode, Background!decode
<1>2. \A d, a : Background!Successors(d, a) = Successors(d, a)
  BY DEF Successors, Background!Successors, StoresIn, Background!StoresIn,
         Stores, Background!Stores, after, Background!after
<1>3. \A d, e : Background!ExtendsNext(d, e) = ExtendsNext(d, e)
  BY DEF ExtendsNext, Background!ExtendsNext
<1>4. \A v, w : Background!wrapping_add(v, w) = wrapping_add(v, w)
  BY DEF wrapping_add, Background!wrapping_add
<1>5. QED
  BY <1>1, <1>2, <1>3, <1>4

(* The programs the mapping is for: EDRUPT, which overwrites ZRUPT and       *)
(* BRUPT whatever they hold, is used outside routines, and RESUME ends a   *)
(* routine and nothing else.                                               *)
WellBehaved ==
  /\ instruction.mnemonic = "EDRUPT" => ~in_interrupt
  /\ instruction.mnemonic = "RESUME" => in_interrupt

(* The instruction that was about to be executed is still the next one     *)
(* after RESUME: the address, the word and its reading are restored.       *)
THEOREM Transparency == Spec /\ []WellBehaved => ImplementsUninterrupted
<1>1. Init => Background!Init
  BY DEF Init, Background!Init, actual, fetched
<1>2. TypeOK /\ WellBehaved /\ [Next]_vars => [Background!Next]_(Background!vars)
  <2> SUFFICES ASSUME TypeOK, WellBehaved, [Next]_vars
               PROVE  [Background!Next]_(Background!vars)
    OBVIOUS
  <2> USE DEF Background!vars
  <2>1. CASE accept_interrupt
    <3>1. ~in_interrupt
      BY <2>1 DEF accept_interrupt, WellBehaved, maskable
    <3>2. /\ in_interrupt' = TRUE /\ zrupt' = after(z, 1)
          /\ brupt' = actual /\ extended' = FALSE
      BY <2>1 DEF accept_interrupt, saved
    <3>3. (after(z, 1) + \o7777) % \o10000 = z
      BY AddressArithmetic DEF TypeOK
    <3>4. CASE instruction.mnemonic = "EDRUPT"
      <4>1. decode(actual, extended).mnemonic = "EDRUPT"
        BY <3>4 DEF instruction
      <4>2. (~in_interrupt /\ extended) = extended
        BY <3>1 DEF TypeOK
      <4>3. Background!Trap
        BY <3>1, <3>2, <3>3, <4>1, <4>2, SameInstructionSet DEF Background!Trap
      <4>4. QED
        BY <4>3 DEF Background!Next
    <3>5. CASE instruction.mnemonic # "EDRUPT"
      <4>1. ~extended
        BY <2>1, <3>5 DEF accept_interrupt, maskable
      <4>2. QED
        BY <3>1, <3>2, <3>3, <4>1
    <3>6. QED
      BY <3>4, <3>5
  <2>2. CASE resume
    <3>1. in_interrupt
      BY <2>2 DEF resume, WellBehaved
    <3>2. /\ in_interrupt' = FALSE /\ z' = (zrupt + \o7777) % \o10000
          /\ extended' = FALSE /\ indexed' = NoIndex
          /\ substitute_instruction' = TRUE /\ brupt' = brupt
      BY <2>2 DEF resume
    <3>3. actual' = brupt
      BY <3>2 DEF actual, fetched
    <3>4. QED
      BY <3>1, <3>2, <3>3
  <2>3. CASE execute /\ in_interrupt
    BY <2>3 DEF execute
  <2>4. CASE execute /\ ~in_interrupt
    <3> DEFINE d == instruction
    <3>1. /\ in_interrupt' = FALSE /\ substitute_instruction' = FALSE
          /\ extended' = ExtendsNext(d, extended)
          /\ d.mnemonic \notin {"RESUME", "EDRUPT"}
      BY <2>4 DEF execute, NotAccepted
    <3>2. z' \in Successors(d, z)
      <4>1. z' \in Transfers(d)
        BY <2>4 DEF execute
      <4>2. Transfers(d) \subseteq Successors(d, z)
        BY DEF Transfers, Successors
      <4>3. QED
        BY <4>1, <4>2
    <3>3. IF d.mnemonic = "INDEX"
          THEN \E x \in IndexValues : actual' = wrapping_add(Program[z'], x)
          ELSE actual' = Program[z']
      <4>1. CASE d.mnemonic = "INDEX"
        <5>1. indexed' \in IndexValues /\ indexed' # NoIndex
          BY <2>4, <4>1, IsaAssumption, ControlAssumption DEF execute
        <5>2. actual' = wrapping_add(Program[z'], indexed')
          BY <3>1, <5>1 DEF actual, fetched
        <5>3. QED
          BY <4>1, <5>1, <5>2
      <4>2. CASE d.mnemonic # "INDEX"
        BY <2>4, <3>1, <4>2 DEF execute, actual, fetched
      <4>3. QED
        BY <4>1, <4>2
    <3>4. d = decode(actual, extended)
      BY DEF instruction
    <3> HIDE DEF d
    <3>5. Background!Execute
      <4>1. (~in_interrupt /\ extended) = extended
        BY <2>4 DEF TypeOK
      <4>2. (~in_interrupt /\ extended)' = ExtendsNext(d, extended)
        BY <3>1 DEF ExtendsNext
      <4>3. /\ (IF in_interrupt THEN brupt ELSE actual) = actual
            /\ (IF in_interrupt THEN (zrupt + \o7777) % \o10000 ELSE z) = z
            /\ (IF in_interrupt THEN brupt ELSE actual)' = actual'
            /\ (IF in_interrupt THEN (zrupt + \o7777) % \o10000 ELSE z)' = z'
        BY <2>4, <3>1
      <4>4. QED
        BY <3>1, <3>2, <3>3, <3>4, <4>1, <4>2, <4>3, SameInstructionSet
        DEF Background!Execute
    <3>6. QED
      BY <3>5 DEF Background!Next
  <2>5. ASSUME NEW i, request_interrupt(i) \/ cancel_interrupt(i)
        PROVE  UNCHANGED Background!vars
    BY <2>5 DEF request_interrupt, cancel_interrupt, actual, fetched
  <2>6. CASE reset
    <3>1. Background!Restart
      BY <2>6 DEF reset, Background!Restart, actual, fetched
    <3>2. QED
      BY <3>1 DEF Background!Next
  <2>7. CASE UNCHANGED vars
    BY <2>7 DEF vars, actual, fetched
  <2>8. QED
    BY <2>1, <2>2, <2>3, <2>4, <2>5, <2>6, <2>7 DEF Next, step
<1>3. QED
  BY <1>1, <1>2, Typing, PTL DEF Spec, ImplementsUninterrupted, Background!Spec
=============================================================================
