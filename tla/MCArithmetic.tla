---------------------------- MODULE MCArithmetic ----------------------------
(***************************************************************************)
(* Every computing instruction with registers, Z, the zero register and a  *)
(* pair of cells as operands, from the words where a carry, a sign or an   *)
(* overflow changes: one instruction from each of these machines.          *)
(***************************************************************************)
EXTENDS AgcArithmetic

High == \o100
Low == \o101
MCCells == {High, Low}
MCChannels == {5, \o13, \o33, \o77}

Ordinary == {"AD", "CA", "CS", "MASK", "CCS", "INCR", "ADS", "TS", "XCH", "LXCH"}
ExtraCodes == {"SU", "MP", "DV", "MSU", "QXCH", "AUG", "DIM"}
Encoded(mnemonics, operands, extended) ==
  {[word |-> Code!encode_with_context(m, k, extended), extended |-> extended] :
     m \in mnemonics, k \in operands}

MCInstructions ==
  Encoded(Ordinary, {A, L, Q, Low}, FALSE)
  \cup Encoded({"CA", "TS", "INCR", "LXCH"}, {Z, ZERO}, FALSE)
  \cup Encoded({"DAS", "DXCH"}, {A, L, Q, Low}, FALSE)
  \cup Encoded({"TC"}, {Q, \o2000}, FALSE) \cup Encoded({"TCF"}, {\o4000}, FALSE)
  \cup Encoded(ExtraCodes, {A, L, Q, Low}, TRUE) \cup Encoded({"DV"}, {Z, ZERO}, TRUE)
  \cup Encoded({"DCA", "DCS"}, {A, L, Q, Low}, TRUE)
  \cup Encoded({"BZF", "BZMF"}, {\o4000}, TRUE)
  \cup Encoded({"READ", "WRITE", "RAND", "ROR", "RXOR", "WAND", "WOR"},
               {L} \cup MCChannels, TRUE)

(* Boundary words, and registers with either overflow.                     *)
MCWords == {0, 1, \o25252, \o37777, \o40000, \o65432, \o77775, \o77777}
MCRegisters == {0, 2, \o25252, \o37777, \o40000, \o77776,
                \o100001, \o137777, \o140000, \o177776, \o177777}
MCFirstQ == {\o40001, \o177776}
MCFirstChannels == {\o52525}
=============================================================================
