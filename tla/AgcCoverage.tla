---------------------------- MODULE AgcCoverage ----------------------------
(***************************************************************************)
(* The coverage of a trace: crate agc-coverage.  An accumulator observes   *)
(* the events of a stream one at a time; the report is made of its counts. *)
(* A count that goes by a key (a location, a bank, a channel, a vector) is *)
(* the set of what was counted: the number of the event and, of an access, *)
(* its number in the event, with the key.  `Cardinality' is the sum of     *)
(* such a count over its keys.                                             *)
(***************************************************************************)
EXTENDS AgcTrace, SequencesExt

NewCoverage ==
  [total_events |-> 0, instruction_events |-> 0, interrupt_entries |-> 0,
   first_cycle |-> NoIndex, last_cycle |-> 0,
   physical_fetches |-> {}, forms |-> {},
   memory_fetches |-> 0, memory_reads |-> 0, memory_writes |-> 0,
   banks |-> {}, registers |-> {}, offsets |-> {},
   channels |-> {}, interrupts |-> {}, bank_words |-> {}]

Accesses(e, kind) == {k \in DOMAIN e.memory : e.memory[k].kind = kind}

(* observe_instruction: an instruction has a fetch to report, its first.   *)
FetchOf(e) == e.memory[Least(Accesses(e, "fetch"))].physical

observe_instruction(c, e) ==
  IF e.kind = "interrupt-entry"
  THEN [c EXCEPT !.interrupt_entries = @ + 1]
  ELSE [c EXCEPT !.instruction_events = @ + 1,
                 !.physical_fetches = @ \cup {<<c.total_events, FetchOf(e)>>},
                 !.forms = @ \cup {<<c.total_events, e.mnemonic, e.cycle_end - e.cycle_start>>}]

(* observe_memory: a register is read by a fetch too.  Mutant: a bank does  *)
(* not count its fetches.                                                  *)
Region(physical) == <<physical.region, physical.bank>>
Direction(access) == IF access.kind = "write" THEN "write" ELSE "read"
InRegisters(e) == {k \in DOMAIN e.memory : e.memory[k].physical.region = "R"}
InBanks_unfetched(e) == DOMAIN e.memory \ (InRegisters(e) \cup Accesses(e, "fetch"))
InBanks(e) == DOMAIN e.memory \ InRegisters(e)

observe_memory(c, e) ==
  LET At(k) == e.memory[k].physical
  IN  [c EXCEPT
        !.memory_fetches = @ + Cardinality(Accesses(e, "fetch")),
        !.memory_reads = @ + Cardinality(Accesses(e, "read")),
        !.memory_writes = @ + Cardinality(Accesses(e, "write")),
        !.registers = @ \cup {<<c.total_events, k, At(k).offset, Direction(e.memory[k])>> :
                                k \in InRegisters(e)},
        !.banks = @ \cup {<<c.total_events, k, Region(At(k)), e.memory[k].kind>> :
                            k \in InBanks(e)},
        !.offsets = @ \cup {<<Region(At(k)), At(k).offset>> : k \in InBanks(e)}]

observe_event(c, e) ==
  LET n == c.total_events + 1
      d == [c EXCEPT
             !.total_events = n, !.last_cycle = e.cycle_end,
             !.first_cycle = IF @ = NoIndex THEN e.cycle_start ELSE @,
             !.bank_words = @ \cup {e.before.bank, e.after.bank},
             !.channels = @ \cup ({n} \X e.io), !.interrupts = @ \cup ({n} \X e.interrupts)]
  IN  observe_memory(observe_instruction(d, e), e)

(* What the report derives from the counts.                                *)
cycle_span(c) == c.last_cycle - c.first_cycle
memory_operations(c) == c.memory_fetches + c.memory_reads + c.memory_writes
rope_fetches(c) == {x[2] : x \in {f \in c.physical_fetches : f[2].region = "F"}}
entries_seen(c) == Cardinality({x \in c.interrupts : x[2].action = "entered"})
=============================================================================
