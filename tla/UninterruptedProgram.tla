------------------------ MODULE UninterruptedProgram ------------------------
(***************************************************************************)
(* What a program may rely on: it runs as if there were no interrupts.     *)
(* Each step executes the next instruction word, already indexed and in    *)
(* its basic or extended reading, and leaves the next one.                 *)
(***************************************************************************)
EXTENDS AgcIsa

CONSTANTS
  Program,  \* the word at every address
  Start     \* where execution starts

VARIABLES
  at,         \* the address of the next instruction
  word,       \* the word that will be executed, index included
  isExtended  \* whether it is read as an extracode

Init == at = Start /\ word = Program[Start] /\ isExtended = FALSE

Execute ==
  LET d == decode(word, isExtended) IN
  /\ d.mnemonic \notin {"RESUME", "EDRUPT"}
  /\ at' \in Successors(d, at)
  /\ isExtended' = ExtendsNext(d, isExtended)
  /\ IF d.mnemonic = "INDEX"
     THEN \E x \in IndexValues : word' = wrapping_add(Program[at'], x)
     ELSE word' = Program[at']

(* EDRUPT asks for a routine; back from it, its word is read as basic.     *)
Trap ==
  /\ decode(word, isExtended).mnemonic = "EDRUPT"
  /\ isExtended' = FALSE
  /\ UNCHANGED <<at, word>>

Restart == at' = Start /\ word' = Program[Start] /\ isExtended' = FALSE

Next == Execute \/ Trap \/ Restart

vars == <<at, word, isExtended>>
Spec == Init /\ [][Next]_vars
=============================================================================
