--------------------------- MODULE MCExperiments ---------------------------
(* An instance of AgcExperiments: every program that a machine of one      *)
(* visible bit, one cell and one request can have, four deeds to a state.   *)
EXTENDS AgcExperiments

Core(a, cell, request) == [a |-> a, bank |-> 0, cell |-> cell, request |-> request]
MCStartCore == Core(0, 0, FALSE)

At(region, bank, offset) == [region |-> region, bank |-> bank, offset |-> offset]
Access(kind, physical, value) == [kind |-> kind, physical |-> physical, value |-> value]
FetchAt(a) == Access("fetch", At("F", 2, a), 0)
Cell(kind, v) == Access(kind, At("E", 0, 61), v)

Deed(kind, mnemonic, cycles, core, memory, io, interrupts) ==
  [kind |-> kind, mnemonic |-> mnemonic, instruction |-> 0, cycles |-> cycles,
   core |-> core, memory |-> memory, io |-> io, interrupts |-> interrupts]

(* Load the cell, store the complement, write a channel, request.          *)
Deeds(a, cell) ==
  {Deed("instruction", "CA", 2, Core(cell, cell, FALSE),
        <<FetchAt(a), Cell("read", cell)>>, {}, {}),
   Deed("instruction", "TS", 2, Core(1 - a, 1 - a, FALSE),
        <<FetchAt(a), Cell("write", 1 - a)>>, {}, {}),
   Deed("instruction", "WRITE", 2, Core(1 - a, cell, FALSE),
        <<FetchAt(a), Access("read", At("R", 0, 0), a)>>, {<<TRUE, 11, a>>}, {}),
   Deed("instruction", "TCF", 1, Core(1 - a, cell, TRUE),
        <<FetchAt(a)>>, {}, {[action |-> "requested", number |-> 5]})}
Entry(a, cell) ==
  Deed("interrupt-entry", "INTERRUPT", 2, Core(1 - a, cell, FALSE),
       <<FetchAt(a)>>, {}, {[action |-> "entered", number |-> 5]})

Bits == 0 .. 1
Cores == {Core(a, c, r) : a \in Bits, c \in Bits, r \in BOOLEAN}
AllDeeds == UNION {Deeds(a, c) : a \in Bits, c \in Bits}
MCPrograms ==
  {[x \in Cores |-> IF x.request THEN Entry(x.a, x.cell) ELSE choice[<<x.a, x.cell>>]] :
     choice \in {f \in [Bits \X Bits -> AllDeeds] :
                   \A p \in Bits \X Bits : f[p] \in Deeds(p[1], p[2])}}

MCGoals == {Core(1, 0, FALSE), Core(0, 1, FALSE), Core(1, 1, FALSE)}
Effect(kind, Change(_)) == [kind |-> kind, effect |-> [x \in Cores |-> Change(x)]]
MCFaultCases ==
  {Effect("flip", LAMBDA x : Core(x.a, 1 - x.cell, x.request)),
   Effect("register", LAMBDA x : Core(0, x.cell, x.request)),
   Effect("drop", LAMBDA x : Core(x.a, x.cell, FALSE))}
MCInjections ==
  {[anchor |-> k, offset |-> n] : k \in {"instruction", "goal"}, n \in {-1, 0, 2}}
=============================================================================
