---------------------------- MODULE MCInterrupts ----------------------------
(***************************************************************************)
(* An instance of AgcInterrupts: a loop with an inhibited stretch, an      *)
(* indexed extracode, an indexed transfer, an addition that may overflow,  *)
(* both kinds of skip and an EDRUPT; each interrupt has a routine of its   *)
(* own, and A holds RESUME for an EDRUPT that finds nothing pending.       *)
(***************************************************************************)
EXTENDS InterruptTransparency

MCRequesters == {1, 5, 8}
MCIndexValues == {0, 1}

INHINT == 4
RELINT == 3
EXTEND == 6
RESUME == \o50017
EDRUPT == \o7000
INDEX == \o50100
CA == \o31000
CCS == \o11000
TCF(k) == \o10000 + k
BZF(k) == \o10000 + k  \* read as an extracode

(* A routine that prefixes, one that masks and unmasks, one that indexes.  *)
Routines ==
  [i \in MCRequesters |-> IF i = 1 THEN <<EXTEND, \o71000, RESUME>>
                          ELSE IF i = 5 THEN <<INHINT, RELINT, RESUME>>
                          ELSE <<INDEX, CA, RESUME>>]
RoutineWord(a) ==
  LET i == (a - \o4000) \div 4
  IN  IF a % 4 < 3 /\ i \in MCRequesters THEN Routines[i][(a % 4) + 1] ELSE TCF(\o5000)

(* EDRUPT is resumed in its basic reading, as TC \o7000.  CCS may skip its  *)
(* EXTEND, and then it is no EDRUPT at all.                                *)
Loop == <<INHINT, EXTEND, INDEX, BZF(\o5005), CA, CA, RELINT, INDEX, TCF(\o5011),
          \o61000, \o55000, CCS, EXTEND, EDRUPT, TCF(\o5000), TCF(\o5000)>>

MCProgram ==
  [a \in Address |-> IF a \in \o5000 .. \o5017 THEN Loop[a - \o5000 + 1]
                     ELSE IF a = 0 THEN RESUME ELSE RoutineWord(a)]

=============================================================================
