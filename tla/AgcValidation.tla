--------------------------- MODULE AgcValidation ---------------------------
(***************************************************************************)
(* The comparison of traces: crate agc-validation.  Two runs of ApolloRS   *)
(* are compared field by field; a run is also compared with the trace that *)
(* yaAGC exports, which is external: it has fewer fields and logs an       *)
(* interrupt on the first of its two cycles.                               *)
(***************************************************************************)
EXTENDS AgcTrace

(* The fields in the order of compare_event, and what a difference means.  *)
Fields ==
  <<[name |-> "sequence", class |-> "Timing"], [name |-> "pc", class |-> "Decode"],
    [name |-> "instruction", class |-> "Decode"], [name |-> "mnemonic", class |-> "Decode"],
    [name |-> "cycle_start", class |-> "Timing"], [name |-> "cycle_end", class |-> "Timing"],
    [name |-> "before.bank", class |-> "Banking"], [name |-> "before", class |-> "Arithmetic"],
    [name |-> "memory", class |-> "Addressing"], [name |-> "io", class |-> "Io"],
    [name |-> "interrupts", class |-> "Interrupt"],
    [name |-> "after.bank", class |-> "Banking"], [name |-> "after", class |-> "Arithmetic"]>>

Field(e, name) ==
  IF name = "before.bank" THEN e.before.bank
  ELSE IF name = "after.bank" THEN e.after.bank ELSE e[name]

DiffersIn(l, r) ==
  {k \in DOMAIN Fields : Field(l, Fields[k].name) # Field(r, Fields[k].name)}

Same == [event |-> NoIndex, class |-> "None"]
LengthDiffers(n) == [event |-> n, class |-> "Timing"]

compare_traces(left, right) ==
  LET D == {k \in 1 .. Shorter(left, right) : DiffersIn(left[k], right[k]) # {}}
  IN  IF D # {}
      THEN [event |-> Least(D) - 1,
            class |-> Fields[Least(DiffersIn(left[Least(D)], right[Least(D)]))].class]
      ELSE IF Len(left) # Len(right) THEN LengthDiffers(Shorter(left, right)) ELSE Same

-----------------------------------------------------------------------------
(* One event against a row of the oracle.                                  *)
Entered(e) == {i \in e.interrupts : i.action = "entered"}

expected_cycle(row) ==
  IF row.kind = "interrupt-entry" THEN row.cycle + 1 ELSE row.cycle

compare_yaagc_event(e, row) ==
  IF e.kind # row.kind THEN "Interrupt"
  ELSE IF e.cycle_end # expected_cycle(row) THEN "Timing"
  ELSE IF <<e.pc, e.instruction>> # <<row.pc, row.instruction>> THEN "Decode"
  ELSE LET registers == IF row.kind = "instruction" THEN e.before ELSE e.after
       IN  IF registers.a # row.a THEN "Arithmetic"
           ELSE IF registers.bank # row.bank THEN "Banking"
           ELSE IF row.kind = "interrupt-entry" /\ Entered(e) # row.interrupts
           THEN "Interrupt" ELSE "None"

compare_yaagc_reference(log, reference, allow_stream_prefix) ==
  LET shared == Shorter(log, reference)
      D == {k \in 1 .. shared : compare_yaagc_event(log[k], reference[k]) # "None"}
      first == IF D # {}
               THEN [event |-> Least(D) - 1,
                     class |-> compare_yaagc_event(log[Least(D)], reference[Least(D)])]
               ELSE IF Len(log) # Len(reference) /\ ~allow_stream_prefix
               THEN LengthDiffers(shared) ELSE Same
  IN  [matched_events |-> IF D = {} THEN shared ELSE Least(D) - 1,
       complete |-> Len(log) = Len(reference), first |-> first]
=============================================================================
