----------------------------- MODULE AgcSymbols -----------------------------
(***************************************************************************)
(* agc-symbols: the value of a symbol, the address an instruction can      *)
(* carry for it, and the table in which a name is defined once.            *)
(***************************************************************************)
EXTENDS AgcWord

Fixed(bank, offset) == [kind |-> "fixed", bank |-> bank, offset |-> offset]
Erasable(bank, offset) == [kind |-> "erasable", bank |-> bank, offset |-> offset]
Constant(value) == [kind |-> "constant", value |-> value]
Absolute(value) == [kind |-> "absolute", value |-> value]

(* The bitwise or of the code, for an offset of at most 02000: the word    *)
(* after a bank's last one gets the window's own bit, 02000, twice.        *)
Window(start, offset) ==
  IF offset = \o2000 /\ start \in {\o2000, \o6000} THEN start ELSE start + offset
ErasableWindow(start, offset) ==
  IF offset = \o400 /\ start \in {\o400, \o1400} THEN start ELSE start + offset

(* The address of a memory symbol as seen from its own bank.  Mutant: the  *)
(* two unswitched banks share a window.                                    *)
logical_address_one_window(v) ==
  IF v.kind = "fixed" THEN Window(IF v.bank \in {2, 3} THEN \o4000 ELSE \o2000, v.offset)
  ELSE ErasableWindow(IF v.bank <= 2 THEN v.bank * \o400 ELSE \o1400, v.offset)
logical_address(v) ==
  IF v.kind = "fixed"
  THEN Window(IF v.bank = 2 THEN \o4000 ELSE IF v.bank = 3 THEN \o6000 ELSE \o2000, v.offset)
  ELSE ErasableWindow(IF v.bank <= 2 THEN v.bank * \o400 ELSE \o1400, v.offset)

(* What an operand that names the symbol is worth (evaluate_operand).      *)
worth(v) == IF v.kind \in {"constant", "absolute"} THEN v.value ELSE logical_address(v)

(* SymbolTable::define rejects a name that has a definition.               *)
Defines(symbols, name) == name \notin DOMAIN symbols
define(symbols, name, value) ==
  IF Defines(symbols, name)
  THEN [n \in DOMAIN symbols \cup {name} |-> IF n = name THEN value ELSE symbols[n]]
  ELSE symbols
=============================================================================
