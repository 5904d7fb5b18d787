--------------------------- MODULE AgcInterrupts ---------------------------
(***************************************************************************)
(* The control logic of the processor: crate agc-cpu's step without its    *)
(* data path and its clock.  A step fetches the next word (from memory, or *)
(* from BRUPT just after RESUME), adds the pending index, decodes it under *)
(* the pending EXTEND, and then either enters an interrupt INSTEAD of it   *)
(* or executes it.                                                         *)
(*                                                                         *)
(* Requests come from the counters, the peripherals and the fault engine   *)
(* at any moment between two steps.                                        *)
(***************************************************************************)
EXTENDS AgcIsa, FiniteSets

CONSTANTS
  Program,    \* the word at every address that is executed
  Requesters, \* the interrupts that may be requested
  Cancelled,  \* those that fault injection may cancel
  NoIndex     \* no index is pending

Interrupt == 1 .. 10
Downrupt == 8
Start == \o4000
vector(i) == \o4000 + 4 * i

ASSUME ControlAssumption ==
  /\ Program \in [Address -> Word]
  /\ Requesters \subseteq Interrupt
  /\ Cancelled \subseteq Interrupt
  /\ NoIndex \notin Word

VARIABLES
  z,                      \* the program counter
  extended,               \* the next word is an extracode
  indexed,                \* the word to add to the next one, or NoIndex
  substitute_instruction, \* the next word comes from BRUPT
  interrupt_enabled,      \* RELINT since the last INHINT
  in_interrupt,           \* an interrupt was entered and not resumed
  pending_interrupts,     \* the requests not yet accepted
  zrupt,                  \* the saved program counter
  brupt,                  \* the saved instruction
  overflow                \* the two sign bits of A differ

vars == <<z, extended, indexed, substitute_instruction, interrupt_enabled,
          in_interrupt, pending_interrupts, zrupt, brupt, overflow>>

-----------------------------------------------------------------------------
fetched == IF substitute_instruction THEN brupt ELSE Program[z]
actual == IF indexed = NoIndex THEN fetched ELSE wrapping_add(fetched, indexed)
instruction == decode(actual, extended)

maskable ==
  /\ interrupt_enabled
  /\ ~in_interrupt
  /\ ~extended
  /\ ~overflow
  /\ actual \notin {3, 4, 6}

(* The word BRUPT receives: the one that was about to be executed.         *)
(* Mutant: the word before the index was added.                            *)
saved_unindexed == fetched
saved == actual

(* Mutant: the last request in the priority order is answered first.       *)
Lowest(S) == CHOOSE i \in S : \A j \in S : i >= j
Highest(S) == CHOOSE i \in S : \A j \in S : i <= j

Init ==
  /\ z = Start
  /\ extended = FALSE
  /\ indexed = NoIndex
  /\ substitute_instruction = FALSE
  /\ interrupt_enabled = TRUE
  /\ in_interrupt = FALSE
  /\ pending_interrupts = {Downrupt}
  /\ zrupt = 0
  /\ brupt = 0
  /\ overflow = FALSE

(* EDRUPT enters whatever the masks say, and through vector 0 if nothing   *)
(* is pending.                                                             *)
accept_interrupt ==
  /\ instruction.mnemonic = "EDRUPT" \/ (maskable /\ pending_interrupts # {})
  /\ IF pending_interrupts = {}
     THEN z' = 0 /\ UNCHANGED pending_interrupts
     ELSE /\ z' = vector(Highest(pending_interrupts))
          /\ pending_interrupts' = pending_interrupts \ {Highest(pending_interrupts)}
  /\ zrupt' = after(z, 1)
  /\ brupt' = saved
  /\ in_interrupt' = TRUE
  /\ indexed' = NoIndex
  /\ substitute_instruction' = FALSE
  /\ extended' = FALSE
  /\ UNCHANGED <<interrupt_enabled, overflow>>

NotAccepted ==
  /\ instruction.mnemonic # "EDRUPT"
  /\ ~(maskable /\ pending_interrupts # {})

(* Mutant: RESUME leaves the processor inside the interrupt.               *)
resume_inside ==
  /\ NotAccepted
  /\ instruction.mnemonic = "RESUME"
  /\ z' = (zrupt + \o7777) % \o10000
  /\ substitute_instruction' = TRUE
  /\ extended' = FALSE
  /\ indexed' = NoIndex
  /\ UNCHANGED <<in_interrupt, interrupt_enabled, pending_interrupts, zrupt, brupt,
                 overflow>>

(* RESUME backs up to the interrupted address and substitutes BRUPT once.  *)
resume ==
  /\ NotAccepted
  /\ instruction.mnemonic = "RESUME"
  /\ z' = (zrupt + \o7777) % \o10000
  /\ substitute_instruction' = TRUE
  /\ in_interrupt' = FALSE
  /\ extended' = FALSE
  /\ indexed' = NoIndex
  /\ UNCHANGED <<interrupt_enabled, pending_interrupts, zrupt, brupt, overflow>>

(* Whether A holds an overflow afterwards: kept by what does not touch A,  *)
(* lost by a load of a word, anything after an addition or a full register, *)
(* which the double operations on L reach as the cell above their first.    *)
KeepsA == {"AUG", "BZF", "BZMF", "DIM", "EXTEND", "INCR", "INDEX", "INHINT",
           "LXCH", "QXCH", "RELINT", "TC", "TCF", "WRITE"}
Overflows(d) ==
  IF d.mnemonic \in KeepsA /\ ~StoresIn(d, 0) THEN {overflow}
  ELSE IF \/ d.mnemonic \in {"AD", "ADS", "DAS", "SU"}
          \/ d.operand <= 2
          \/ d.mnemonic \in {"DCA", "DCS", "DXCH"} /\ d.operand = 3 THEN BOOLEAN
  ELSE {FALSE}

(* Transfer of control: TS skips only when A has overflowed.               *)
Transfers(d) ==
  IF d.mnemonic = "TS" /\ ~StoresIn(d, 5)
  THEN {after(z, IF overflow THEN 2 ELSE 1)} ELSE Successors(d, z)

execute ==
  LET d == instruction IN
  /\ NotAccepted
  /\ d.mnemonic # "RESUME"
  /\ z' \in Transfers(d)
  /\ substitute_instruction' = FALSE
  /\ extended' = ExtendsNext(d, extended)
  /\ IF d.mnemonic = "INDEX" THEN indexed' \in IndexValues ELSE indexed' = NoIndex
  /\ interrupt_enabled' = (d.mnemonic = "RELINT" \/
                             (interrupt_enabled /\ d.mnemonic # "INHINT"))
  /\ overflow' \in Overflows(d)
  /\ UNCHANGED <<in_interrupt, pending_interrupts, zrupt, brupt>>

step == accept_interrupt \/ resume \/ execute

request_interrupt(i) ==
  /\ i \notin pending_interrupts
  /\ pending_interrupts' = pending_interrupts \cup {i}
  /\ UNCHANGED <<z, extended, indexed, substitute_instruction,
                 interrupt_enabled, in_interrupt, zrupt, brupt, overflow>>

cancel_interrupt(i) ==
  /\ i \in pending_interrupts
  /\ pending_interrupts' = pending_interrupts \ {i}
  /\ UNCHANGED <<z, extended, indexed, substitute_instruction,
                 interrupt_enabled, in_interrupt, zrupt, brupt, overflow>>

reset ==
  /\ z' = Start
  /\ extended' = FALSE
  /\ indexed' = NoIndex
  /\ substitute_instruction' = FALSE
  /\ interrupt_enabled' = TRUE
  /\ in_interrupt' = FALSE
  /\ pending_interrupts' = {Downrupt}
  /\ zrupt' = 0
  /\ brupt' = 0
  /\ overflow' = FALSE

Next ==
  \/ step
  \/ \E i \in Requesters : request_interrupt(i)
  \/ \E i \in Cancelled : cancel_interrupt(i)
  \/ reset

(* The runtime steps the processor for as long as it runs.                 *)
Spec == Init /\ [][Next]_vars
FairSpec == Spec /\ WF_vars(step)
-----------------------------------------------------------------------------
TypeOK ==
  /\ z \in Address
  /\ extended \in BOOLEAN
  /\ indexed \in Word \cup {NoIndex}
  /\ substitute_instruction \in BOOLEAN
  /\ interrupt_enabled \in BOOLEAN
  /\ in_interrupt \in BOOLEAN
  /\ pending_interrupts \subseteq Interrupt
  /\ zrupt \in Address
  /\ brupt \in Word
  /\ overflow \in BOOLEAN

(* The word substituted after RESUME is executed on its own: no prefix of  *)
(* the interrupt routine applies to it, and it is used once (resume,       *)
(* execute, accept_interrupt).                                             *)
SubstituteAlone ==
  substitute_instruction => ~in_interrupt /\ ~extended /\ indexed = NoIndex

(* The highest request is answered, unless it is cancelled or the machine  *)
(* is reset: interrupt routines end and inhibited stretches end.           *)
HighestServed == \A i \in Requesters :
  (\A j \in Requesters : i <= j) =>
    (i \in pending_interrupts) ~> (i \notin pending_interrupts)
=============================================================================
