------------------------------ MODULE MCMemory ------------------------------
(***************************************************************************)
(* An instance of AgcMemory: the selectors, a register that ignores writes, *)
(* an editing register and a counter, under their own names, through the   *)
(* window with bank 0 selected and by physical address; the cells of bank  *)
(* 7 at the same offsets; the last word of the rope windows.  Two of the  *)
(* cells that diagnostics and faults name are not there.                   *)
(***************************************************************************)
EXTENDS MemoryStore

(* Every bit at once: erasable bank 7, fixed bank \o37, every bank-control bit *)
(* of channel 7, and the word at which the discrete inputs idle.           *)
MCWords == {\o77777}
(* Fixed bank \o31, which the superbank bit extends, and bits of no field. *)
MCRegisters == {\o163407}
MCAddresses ==
  {ZERO, EB, FB, BB, \o23, \o30, \o1403, \o1430, \o3777, \o7777, \o10000}
MCOffsets == {3, \o30}
MCFixedOffsets == {\o1777}
MCChannels == {1, 7, \o31}
MCCells == {<<0, 3>>, <<0, \o30>>, <<7, \o30>>, <<8, 3>>}
MCFlippedCells == {<<3, \o1777>>, <<36, 0>>}
MCRopes == {[c \in FixedBanks \X FixedOffsets |->
              IF c[1] = 3 THEN \o77777 ELSE c[1]]}
=============================================================================
