----------------------- MODULE InterruptTransparency -----------------------
(***************************************************************************)
(* AgcInterrupts implements UninterruptedProgram.  While a routine runs,   *)
(* the program stands where it was interrupted: at the address before      *)
(* ZRUPT, about to execute the word in BRUPT.                              *)
(***************************************************************************)
EXTENDS AgcInterrupts

Background == INSTANCE UninterruptedProgram WITH
  at <- IF in_interrupt THEN (zrupt + \o7777) % \o10000 ELSE z,
  word <- IF in_interrupt THEN brupt ELSE actual,
  isExtended <- ~in_interrupt /\ extended

(* No instruction of the program is lost, repeated, separated from its     *)
(* EXTEND or INDEX, or executed at another address, wherever interrupts    *)
(* enter and however often they chain (accept_interrupt, resume).          *)
ImplementsUninterrupted == Background!Spec
=============================================================================
