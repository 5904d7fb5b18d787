--------------------------- MODULE AgcExperiments ---------------------------
(***************************************************************************)
(* Paired fault experiments: crate agc-experiments, with the evidence it   *)
(* rests on (AgcTrace, AgcValidation, AgcCoverage).  A baseline and a      *)
(* faulted run start from one state; the fault is injected at a boundary   *)
(* that may be found in the baseline; the traces and what the runs         *)
(* achieved are compared and the outcome is classified.  The trace of the  *)
(* baseline is also written to a file, read back and measured.             *)
(*                                                                         *)
(* The processor is some deterministic machine: `program' gives what it    *)
(* does in each state of its core.  A snapshot shows all of the core but   *)
(* the erasable cell and the pending request.  The file, and yaAGC, are    *)
(* outside.                                                                *)
(***************************************************************************)
EXTENDS AgcValidation, AgcCoverage

CONSTANTS
  Programs,    \* what the processor does in each core state
  StartCore,   \* the core at the start
  Goals,       \* the core states that meet an obligation of the mission
  FaultCases,  \* the faults, with their effect on a core
  Injections,  \* the injection points: an anchor and an offset
  Limit,       \* the instruction budget of both runs
  MaxEvents    \* bound: no run has more events

(* Every core state has a next one, reached with one fetch; only an        *)
(* interrupt entry is called INTERRUPT, and it alone enters a vector.  A   *)
(* fault leads to a core state.                                            *)
Physical(p) == p = [region |-> p.region, bank |-> p.bank, offset |-> p.offset]
Machine(p) ==
  /\ StartCore \in DOMAIN p
  /\ \A c \in DOMAIN p :
       LET of(kind) == {k \in DOMAIN p[c].memory : p[c].memory[k].kind = kind}
           entered == {i \in p[c].interrupts : i.action = "entered"}
           entry == p[c].kind = "interrupt-entry"
       IN  /\ p[c].core \in DOMAIN p
           /\ p[c].cycles \in Nat
           /\ p[c].kind \in {"instruction", "interrupt-entry"}
           /\ entry <=> p[c].mnemonic = "INTERRUPT"
           /\ IsFiniteSet(DOMAIN p[c].memory) /\ IsFiniteSet(p[c].interrupts)
           /\ \A k \in DOMAIN p[c].memory :
                /\ p[c].memory[k].kind \in {"fetch", "read", "write"}
                /\ Physical(p[c].memory[k].physical)
           /\ Cardinality(of("fetch")) = 1
           /\ Cardinality(entered) = IF entry THEN 1 ELSE 0
  /\ \A f \in FaultCases : \A c \in DOMAIN p : f.effect[c] \in DOMAIN p

(* FaultMatrixSpec::validate: a budget, and faults in range.               *)
ASSUME ExperimentAssumption ==
  /\ Limit \in Nat \ {0} /\ MaxEvents \in Nat \ {0}
  /\ \A p \in Programs : Machine(p)

VARIABLES
  stage,      \* where the experiment is
  program,
  case,       \* the fault and its injection point
  boundary,   \* the resolved injection boundary
  baseline,   \* the baseline run
  faulted,    \* the faulted run
  reference,  \* the trace that yaAGC has exported
  file,       \* the lines of the trace file
  damaged,    \* the file was altered after it was written
  reader,     \* TraceJsonReader
  log_read,   \* the events it has returned
  coverage    \* CoverageAccumulator

vars == <<stage, program, case, boundary, baseline, faulted, reference, file, damaged,
          reader, log_read, coverage>>
reading == <<file, damaged, reader, log_read, coverage>>

NewRun ==
  [core |-> StartCore, cycles |-> 0, instructions |-> 0, trace_sequence |-> 0,
   trace |-> <<>>, taken |-> FALSE, failed |-> FALSE, applied |-> <<>>,
   met |-> {}, first_met |-> NoIndex, writes |-> 0]

NotResolved == NoIndex
NoCase == <<>>
Init ==
  /\ stage = "baseline"
  /\ program \in Programs
  /\ case = NoCase
  /\ boundary = NotResolved
  /\ baseline = NewRun /\ faulted = NewRun
  /\ reference = <<>>
  /\ file = <<>> /\ damaged = FALSE
  /\ reader = NewReader /\ log_read = <<>> /\ coverage = NewCoverage

-----------------------------------------------------------------------------
(* One step of a run.  The machine has moved before the event is pushed;   *)
(* if the log refuses it, nothing is counted and the run fails.            *)
Snapshot(core) == [a |-> core.a, bank |-> core.bank]
EventOf(run) ==
  LET d == program[run.core] IN
  [sequence |-> run.trace_sequence, kind |-> d.kind, mnemonic |-> d.mnemonic,
   pc |-> run.core.a, instruction |-> d.instruction,
   cycle_start |-> run.cycles, cycle_end |-> run.cycles + d.cycles,
   before |-> Snapshot(run.core), after |-> Snapshot(d.core),
   memory |-> d.memory, io |-> d.io, interrupts |-> d.interrupts]

WritesIn(memory) == Cardinality({k \in DOMAIN memory : memory[k].kind = "write"})

(* What the mission observes after the step (agc-mission): an obligation   *)
(* may be met by a state of memory that no trace shows.                    *)
Observed(run) ==
  [run EXCEPT !.met = @ \cup ({run.core} \cap Goals),
              !.first_met = IF @ = NoIndex /\ run.core \in Goals
                            THEN run.instructions ELSE @]

Stepped(run) ==
  LET e == EventOf(run)
      moved == [run EXCEPT !.core = program[run.core].core, !.cycles = e.cycle_end]
  IN  IF Accepts(run.trace, e)
      THEN Observed([moved EXCEPT
             !.trace = Append(@, e), !.trace_sequence = @ + 1,
             !.instructions = IF e.kind = "instruction" THEN @ + 1 ELSE @,
             !.writes = @ + WritesIn(e.memory)])
      ELSE [moved EXCEPT !.failed = TRUE]

Runs(run) ==
  ~run.failed /\ run.instructions < Limit /\ run.trace_sequence < MaxEvents
Done(run) == ~run.failed /\ run.instructions = Limit

baseline_step ==
  /\ stage = "baseline" /\ Runs(baseline)
  /\ baseline' = Stepped(baseline)
  /\ UNCHANGED <<stage, program, case, boundary, faulted, reference, reading>>

(* Cpu::take_trace, by a host that shares the processor.                   *)
take_trace ==
  /\ stage = "baseline" /\ Runs(baseline) /\ ~baseline.taken
  /\ baseline' = [baseline EXCEPT !.trace = <<>>, !.taken = TRUE]
  /\ UNCHANGED <<stage, program, case, boundary, faulted, reference, reading>>

(* resolve_injection: an anchor has to be in the baseline's evidence and   *)
(* the boundary within the budget; otherwise the experiment is refused.    *)
Base(injection) ==
  IF injection.anchor = "instruction" THEN 0 ELSE baseline.first_met
Resolvable(injection) ==
  /\ Base(injection) # NoIndex
  /\ Base(injection) + injection.offset \in 0 .. Limit - 1

resolve_injection ==
  /\ stage = "baseline" /\ Done(baseline) /\ ~baseline.taken
  /\ \E fault \in FaultCases, injection \in Injections :
       /\ Resolvable(injection)
       /\ case' = <<fault, injection>>
       /\ boundary' = Base(injection) + injection.offset
  /\ stage' = "faulted"
  /\ UNCHANGED <<program, baseline, faulted, reference, reading>>

(* The engine applies the fault at its boundary, before the step.          *)
(* Mutant: one boundary early.                                             *)
DueIn_early(run) == boundary <= run.instructions + 1 /\ run.applied = <<>>
DueIn(run) == boundary <= run.instructions /\ run.applied = <<>>

apply_fault ==
  LET f == case[1]
      c == f.effect[faulted.core]
  IN
  /\ stage = "faulted" /\ Runs(faulted) /\ DueIn(faulted)
  /\ faulted' = [faulted EXCEPT !.core = c,
       !.applied = <<[kind |-> f.kind, word |-> IF c = faulted.core THEN 0 ELSE 1]>>]
  /\ UNCHANGED <<stage, program, case, boundary, baseline, reference, reading>>

faulted_step ==
  /\ stage = "faulted" /\ Runs(faulted) /\ ~DueIn(faulted)
  /\ faulted' = Stepped(faulted)
  /\ UNCHANGED <<stage, program, case, boundary, baseline, reference, reading>>

-----------------------------------------------------------------------------
(* What yaAGC exports of an event, exactly or with one field changed.      *)
Exported(e) ==
  LET registers == IF e.kind = "instruction" THEN e.before ELSE e.after IN
  [kind |-> e.kind, pc |-> e.pc, instruction |-> e.instruction,
   cycle |-> IF e.kind = "instruction" THEN e.cycle_end ELSE e.cycle_end - 1,
   a |-> registers.a, bank |-> registers.bank,
   interrupts |-> IF e.kind = "instruction" THEN {} ELSE Entered(e)]
Exact(log) == [k \in DOMAIN log |-> Exported(log[k])]
Exports(log) ==
  LET rows == Exact(log) IN
  {rows, SubSeq(rows, 1, Len(rows) - 1)}
    \cup {[rows EXCEPT ![k].a = @ + 1] : k \in DOMAIN rows}
    \cup {[rows EXCEPT ![k].cycle = @ + 1] : k \in DOMAIN rows}

compare ==
  /\ stage = "faulted" /\ Done(faulted)
  /\ stage' = "compared"
  /\ reference' \in Exports(baseline.trace)
  /\ UNCHANGED <<program, case, boundary, baseline, faulted, reading>>

trace_comparison == compare_traces(baseline.trace, faulted.trace)
equivalent == trace_comparison = Same

(* compare_recovery.                                                       *)
LastAfter(log) == log[Len(log)].after
first_divergence == first_difference(baseline.trace, faulted.trace)
registers_recovered == LastAfter(baseline.trace) = LastAfter(faulted.trace)

instruction_boundary_at_event(log, n) ==
  Cardinality({k \in 1 .. n : log[k].kind = "instruction"})

(* Mutant: no dropped interrupt counts as activated.                       *)
fault_target_activated_by_kind(applied) ==
  \E k \in DOMAIN applied : applied[k].kind # "drop"
fault_target_activated(applied) ==
  \E k \in DOMAIN applied : ~(applied[k].kind = "drop" /\ applied[k].word = 0)

acceptance_differences ==
  {f \in {"met", "first_met", "writes"} : baseline[f] # faulted[f]}

outcome ==
  IF ~fault_target_activated(faulted.applied) THEN "NotActivated"
  ELSE IF equivalent THEN "Masked"
  ELSE IF Cardinality(faulted.met) < Cardinality(baseline.met) THEN "MissionDegraded"
  ELSE IF acceptance_differences # {} THEN "MissionEvidenceChanged"
  ELSE IF registers_recovered THEN "Recovered" ELSE "PersistentStateDivergence"

-----------------------------------------------------------------------------
(* The file: one line for each event; blank lines are skipped, and a line  *)
(* that was cut cannot be parsed.                                          *)
BlankLine == Nothing
CutLine == [sequence |-> -2]
Damages(lines) ==
  {RemoveAt(lines, k) : k \in DOMAIN lines}
    \cup {InsertAt(lines, k, lines[k]) : k \in DOMAIN lines}
    \cup {SubSeq(lines, 1, k - 1) \o <<CutLine>> : k \in DOMAIN lines}
    \cup {[lines EXCEPT ![k] = lines[k + 1], ![k + 1] = lines[k]] :
            k \in 1 .. Len(lines) - 1}

write_json_lines ==
  /\ stage = "baseline" /\ Done(baseline)
  /\ stage' = "reading"
  /\ file' \in {baseline.trace, <<BlankLine>> \o baseline.trace}
                 \cup Damages(baseline.trace)
  /\ damaged' = (file' \in Damages(baseline.trace))
  /\ UNCHANGED <<program, case, boundary, baseline, faulted, reference, reader, log_read,
                 coverage>>

Line == Head(file)
Reading == stage = "reading" /\ reader.state = "open"
outside == <<stage, program, case, boundary, baseline, faulted, reference, damaged>>

end_of_file ==
  /\ Reading /\ file = <<>>
  /\ reader' = [reader EXCEPT !.state = "finished"]
  /\ UNCHANGED <<outside, file, log_read, coverage>>

skip_blank ==
  /\ Reading /\ file # <<>>
  /\ Line = BlankLine
  /\ file' = Tail(file)
  /\ UNCHANGED <<outside, reader, log_read, coverage>>

Acceptable(rd, line) == IF line = CutLine THEN FALSE ELSE InOrder(rd, line)

refuse_line ==
  /\ Reading /\ file # <<>>
  /\ Line # BlankLine /\ ~Acceptable(reader, Line)
  /\ reader' = [reader EXCEPT !.state = "failed"]
  /\ UNCHANGED <<outside, file, log_read, coverage>>

next_event ==
  /\ Reading /\ file # <<>>
  /\ Line # BlankLine /\ Acceptable(reader, Line)
  /\ file' = Tail(file)
  /\ reader' = Advanced(reader, Line)
  /\ log_read' = Append(log_read, Line)
  /\ coverage' = observe_event(coverage, Line)
  /\ UNCHANGED outside

Next ==
  \/ baseline_step \/ take_trace \/ resolve_injection \/ apply_fault \/ faulted_step
  \/ compare \/ write_json_lines \/ end_of_file \/ skip_blank \/ refuse_line \/ next_event
Spec == Init /\ [][Next]_vars
-----------------------------------------------------------------------------
(* A log is a run without a gap from its first event on, whatever has been *)
(* taken from the processor, and counts what the processor has committed   *)
(* unless something was taken (TraceLog::push, Cpu::step).                 *)
LogWellFormed ==
  \A run \in {baseline, faulted} :
    /\ \A k \in DOMAIN run.trace : run.trace[k].sequence = k - 1
    /\ \A k \in 2 .. Len(run.trace) :
         run.trace[k].cycle_start = run.trace[k - 1].cycle_end
    /\ ~run.taken => /\ ~run.failed
                     /\ instruction_boundary_at_event(run.trace, Len(run.trace)) =
                          run.instructions

(* The reader returns the written events in order until it meets the first *)
(* line that is missing, doubled, out of place or cut, and refuses the     *)
(* rest; only lines missing at the end go unnoticed (next_event).          *)
ReadsPrefixOrFails ==
  stage = "reading" =>
    /\ log_read = SubSeq(baseline.trace, 1, Len(log_read))
    /\ reader.state = "finished" =>
         Len(log_read) >= Len(baseline.trace) - (IF damaged THEN 1 ELSE 0)
    /\ reader.state = "failed" => damaged

(* The counts of the report agree with each other and with the machine:    *)
(* each event is counted once in every breakdown, and the cycles of a      *)
(* complete trace are those of the run (CoverageAccumulator).              *)
CoverageAddsUp ==
  /\ coverage.total_events = Len(log_read)
  /\ coverage.instruction_events + coverage.interrupt_entries = coverage.total_events
  /\ Cardinality(coverage.physical_fetches) = coverage.instruction_events
  /\ Cardinality(coverage.forms) = coverage.instruction_events
  /\ coverage.memory_fetches = coverage.total_events
  /\ Cardinality(coverage.banks) + Cardinality(coverage.registers)
       = memory_operations(coverage)
  /\ entries_seen(coverage) = coverage.interrupt_entries
  /\ Cardinality(rope_fetches(coverage)) <= Cardinality(coverage.offsets)
  /\ log_read # <<>> /\ Len(log_read) = Len(baseline.trace) =>
       cycle_span(coverage) = baseline.cycles

(* No run differs before its fault: the reported latency is exact, though  *)
(* it is a saturating difference.  The two comparisons that a result       *)
(* carries name the same event, and the comparison with yaAGC accepts a    *)
(* trace exactly when every exported row is that of the trace              *)
(* (run_luminary_p63_fault_matrix, compare_yaagc_reference).               *)
VerdictsSound ==
  stage = "compared" =>
    /\ trace_comparison.event = first_divergence
    /\ ~equivalent =>
         instruction_boundary_at_event(faulted.trace, first_divergence) >= boundary
    /\ \A allowed \in BOOLEAN :
         LET report == compare_yaagc_reference(baseline.trace, reference, allowed)
             shared == Shorter(baseline.trace, reference)
             agree == first_difference(Exact(baseline.trace), reference)
         IN  /\ report.first = Same <=>
                  agree = NoIndex \/ (allowed /\ agree = shared)
             /\ agree # NoIndex => report.matched_events = agree

(* What a class of outcome claims is so: a fault that was not activated    *)
(* has changed nothing at all, a masked one no register, a degraded        *)
(* mission has lost an obligation, and a recovered run ends in the         *)
(* baseline's registers with its evidence (classify).                      *)
OutcomeSound ==
  stage = "compared" =>
    /\ outcome = "NotActivated" => [faulted EXCEPT !.applied = <<>>] = baseline
    /\ outcome = "Masked" =>
         LastAfter(faulted.trace) = LastAfter(baseline.trace)
           /\ faulted.cycles = baseline.cycles
    /\ outcome = "MissionDegraded" => baseline.met \ faulted.met # {}
    /\ outcome = "Recovered" =>
         /\ first_divergence # NoIndex
         /\ LastAfter(faulted.trace) = LastAfter(baseline.trace)
         /\ faulted.met = baseline.met /\ faulted.writes = baseline.writes
=============================================================================
