------------------------ MODULE AgcExperimentsProofs ------------------------
(***************************************************************************)
(* Theorems about AgcExperiments: for any machine, any fault and any       *)
(* injection point, what the logs of the runs are, and what the verdicts   *)
(* of an experiment mean.                                                  *)
(***************************************************************************)
EXTENDS AgcExperiments, SequenceTheorems, FiniteSetTheorems, WellFoundedInduction, TLAPS

(* The events that a machine can emit: by its number, the core state it    *)
(* is emitted in and the cycle.                                            *)
EventAt(n, c, t) ==
  LET d == program[c] IN
  [sequence |-> n, kind |-> d.kind, mnemonic |-> d.mnemonic,
   pc |-> c.a, instruction |-> d.instruction,
   cycle_start |-> t, cycle_end |-> t + d.cycles,
   before |-> Snapshot(c), after |-> Snapshot(d.core),
   memory |-> d.memory, io |-> d.io, interrupts |-> d.interrupts]
Event == {EventAt(n, c, t) : n \in Nat, c \in DOMAIN program, t \in Nat}

Applied == Seq([kind : {f.kind : f \in FaultCases}, word : {0, 1}])
Met == {S \in SUBSET DOMAIN program : IsFiniteSet(S)}
Core == DOMAIN program
Trace == Seq(Event)
Run ==
  [core : Core, cycles : Nat, instructions : Nat, trace_sequence : Nat,
   trace : Trace, taken : BOOLEAN, failed : BOOLEAN, applied : Applied,
   met : Met, first_met : Int, writes : Nat]

LEMMA SameRun ==
  ASSUME NEW r \in Run, NEW s \in Run,
         r.core = s.core, r.cycles = s.cycles, r.instructions = s.instructions,
         r.trace_sequence = s.trace_sequence, r.trace = s.trace, r.taken = s.taken,
         r.failed = s.failed, r.applied = s.applied, r.met = s.met,
         r.first_met = s.first_met, r.writes = s.writes
  PROVE  r = s
  BY DEF Run

LEMMA EventFields ==
  ASSUME program \in Programs, NEW e \in Event
  PROVE  /\ e.sequence \in Nat /\ e.cycle_start \in Nat /\ e.cycle_end \in Nat
         /\ e.kind \in {"instruction", "interrupt-entry"}
         /\ e.kind = "interrupt-entry" <=> e.mnemonic = "INTERRUPT"
<1>1. PICK n \in Nat, c \in DOMAIN program, t \in Nat : e = EventAt(n, c, t)
  BY DEF Event
<1>2. /\ e.sequence = n /\ e.cycle_start = t /\ e.cycle_end = t + program[c].cycles
      /\ e.kind = program[c].kind /\ e.mnemonic = program[c].mnemonic
  BY <1>1 DEF EventAt
<1>3. /\ program[c].cycles \in Nat
      /\ program[c].kind \in {"instruction", "interrupt-entry"}
      /\ program[c].kind = "interrupt-entry" <=> program[c].mnemonic = "INTERRUPT"
  <2>1. Machine(program)
    BY ExperimentAssumption
  <2> QED  BY <2>1, Zenon DEF Machine
<1> QED  BY <1>2, <1>3

(* What a step does to each field.                                         *)
Follows(r, s) ==
  LET d == program[r.core]
      e == EventOf(r)
  IN  /\ e = EventAt(r.trace_sequence, r.core, r.cycles) /\ e \in Event
      /\ e.sequence = r.trace_sequence
      /\ e.cycle_start = r.cycles /\ e.cycle_end = r.cycles + d.cycles
      /\ s \in Run
      /\ s.core = d.core /\ s.cycles = r.cycles + d.cycles
      /\ s.taken = r.taken /\ s.applied = r.applied
      /\ Accepts(r.trace, e) =>
           /\ s.trace = Append(r.trace, e) /\ s.trace_sequence = r.trace_sequence + 1
           /\ s.instructions = IF e.kind = "instruction"
                               THEN r.instructions + 1 ELSE r.instructions
           /\ s.failed = r.failed
           /\ s.met = r.met \cup ({d.core} \cap Goals)
           /\ s.first_met = IF r.first_met = NoIndex /\ d.core \in Goals
                            THEN s.instructions ELSE r.first_met
           /\ s.writes = r.writes + WritesIn(e.memory)
      /\ ~Accepts(r.trace, e) =>
           /\ s.trace = r.trace /\ s.trace_sequence = r.trace_sequence
           /\ s.instructions = r.instructions /\ s.failed = TRUE
           /\ s.met = r.met /\ s.first_met = r.first_met /\ s.writes = r.writes

LEMMA SteppedFields ==
  ASSUME program \in Programs, NEW r \in Run
  PROVE  Follows(r, Stepped(r))
<1> DEFINE d == program[r.core]
           e == EventOf(r)
           c == d.core
           t == r.cycles + d.cycles
           moved == [r EXCEPT !.core = c, !.cycles = t]
           log == Append(moved.trace, e)
           m == moved.trace_sequence + 1
           n == IF e.kind = "instruction" THEN moved.instructions + 1 ELSE moved.instructions
           w == moved.writes + WritesIn(e.memory)
           counted == [moved EXCEPT !.trace = log, !.trace_sequence = m, !.instructions = n,
                                    !.writes = w]
           met == counted.met \cup ({counted.core} \cap Goals)
           first == IF counted.first_met = NoIndex /\ counted.core \in Goals
                    THEN counted.instructions ELSE counted.first_met
<1>1. /\ e = EventAt(r.trace_sequence, r.core, r.cycles)
      /\ e.sequence = r.trace_sequence /\ e.cycle_start = r.cycles
      /\ e.cycle_end = t /\ e.memory = d.memory
  BY DEF EventOf, EventAt
<1>2. /\ r.core \in Core /\ c \in Core /\ d.cycles \in Nat
      /\ IsFiniteSet(DOMAIN d.memory) /\ r.cycles \in Nat /\ r.trace_sequence \in Nat
  <2>1. Machine(program)
    BY ExperimentAssumption
  <2>2. \A k \in DOMAIN program : /\ program[k].core \in DOMAIN program
                                 /\ program[k].cycles \in Nat
                                 /\ IsFiniteSet(DOMAIN program[k].memory)
    BY <2>1, Zenon DEF Machine
  <2>3. r.core \in Core /\ r.cycles \in Nat /\ r.trace_sequence \in Nat
    BY DEF Run
  <2> QED  BY <2>2, <2>3 DEF Core
<1>3. e \in Event
  BY <1>1, <1>2 DEF Event, Core
<1>4. WritesIn(e.memory) \in Nat
  BY <1>1, <1>2, FS_Subset, FS_CardinalityType DEF WritesIn
<1>5. Stepped(r) = IF Accepts(r.trace, e) THEN Observed(counted)
                   ELSE [moved EXCEPT !.failed = TRUE]
  BY <1>1 DEF Stepped
<1>6. Observed(counted) = [counted EXCEPT !.met = met, !.first_met = first]
  BY DEF Observed
<1>7. t \in Nat
  BY <1>2
<1> HIDE DEF d, e, c, t
<1>8. /\ moved \in Run /\ moved.core = c /\ moved.cycles = t
      /\ moved.instructions = r.instructions /\ moved.trace_sequence = r.trace_sequence
      /\ moved.trace = r.trace /\ moved.taken = r.taken /\ moved.failed = r.failed
      /\ moved.applied = r.applied /\ moved.met = r.met
      /\ moved.first_met = r.first_met /\ moved.writes = r.writes
  BY ONLY <1>2, <1>7, r \in Run DEF Run
<1> HIDE DEF moved
<1>9. /\ moved.trace \in Trace /\ moved.instructions \in Nat
      /\ moved.trace_sequence \in Nat /\ moved.writes \in Nat
      /\ moved.met \in Met /\ moved.first_met \in Int /\ moved.core \in Core
  BY <1>8 DEF Run
<1>10. n \in Nat /\ log \in Trace /\ m \in Nat /\ w \in Nat
  BY <1>3, <1>4, <1>9 DEF Trace
<1> HIDE DEF n, log, m, w
<1>11. /\ counted \in Run /\ counted.core = moved.core /\ counted.cycles = moved.cycles
       /\ counted.instructions = n /\ counted.trace_sequence = m
       /\ counted.trace = log /\ counted.taken = moved.taken
       /\ counted.failed = moved.failed /\ counted.applied = moved.applied
       /\ counted.met = moved.met /\ counted.first_met = moved.first_met
       /\ counted.writes = w
  BY ONLY <1>8, <1>10 DEF Run
<1> HIDE DEF counted
<1>12. met \in Met /\ first \in Int
  <2>1. met = IF counted.core \in Goals THEN counted.met \cup {counted.core} ELSE counted.met
    OBVIOUS
  <2>2. /\ IsFiniteSet(counted.met) /\ counted.met \subseteq Core
        /\ counted.core \in Core
    BY <1>9, <1>11 DEF Met, Core
  <2>3. IsFiniteSet(counted.met \cup {counted.core})
    BY ONLY <2>2, FS_AddElement
  <2>4. met \in Met
    <3> HIDE DEF met
    <3> QED  BY <2>1, <2>2, <2>3 DEF Met, Core
  <2> QED  BY <1>9, <1>10, <1>11, <2>4
<1> HIDE DEF met, first
<1>13. LET s == Observed(counted)
       IN  /\ s \in Run /\ s.core = counted.core /\ s.cycles = counted.cycles
           /\ s.instructions = counted.instructions
           /\ s.trace_sequence = counted.trace_sequence /\ s.trace = counted.trace
           /\ s.taken = counted.taken /\ s.failed = counted.failed
           /\ s.applied = counted.applied /\ s.met = met /\ s.first_met = first
           /\ s.writes = counted.writes
  BY ONLY <1>6, <1>11, <1>12 DEF Run
<1>14. LET s == [moved EXCEPT !.failed = TRUE]
       IN  /\ s \in Run /\ s.core = moved.core /\ s.cycles = moved.cycles
           /\ s.instructions = moved.instructions
           /\ s.trace_sequence = moved.trace_sequence /\ s.trace = moved.trace
           /\ s.taken = moved.taken /\ s.failed = TRUE
           /\ s.applied = moved.applied /\ s.met = moved.met
           /\ s.first_met = moved.first_met /\ s.writes = moved.writes
  BY ONLY <1>8 DEF Run
<1>15. CASE Accepts(r.trace, e)
  BY <1>1, <1>3, <1>5, <1>8, <1>11, <1>13, <1>15 DEF n, d, e, c, t, log, m, w, met, first, Follows
<1>16. CASE ~Accepts(r.trace, e)
  BY <1>1, <1>3, <1>5, <1>8, <1>14, <1>16 DEF d, e, c, t, Follows
<1> QED  BY <1>15, <1>16

-----------------------------------------------------------------------------
(* Counting the instructions among the first n events of a log.            *)
LEMMA Counting ==
  ASSUME NEW log, NEW n \in Nat
  PROVE  /\ instruction_boundary_at_event(log, n) \in Nat
         /\ instruction_boundary_at_event(log, 0) = 0
         /\ instruction_boundary_at_event(log, n + 1) =
              IF log[n + 1].kind = "instruction"
              THEN instruction_boundary_at_event(log, n) + 1
              ELSE instruction_boundary_at_event(log, n)
<1> DEFINE K(j) == {k \in 1 .. j : log[k].kind = "instruction"}
<1>1. IsFiniteSet(1 .. n)
  BY FS_Interval
<1>2. IsFiniteSet(K(n)) /\ K(0) = {} /\ n + 1 \notin K(n)
  BY <1>1, FS_Subset, K(n) \in SUBSET (1 .. n)
<1>3. K(n + 1) = IF log[n + 1].kind = "instruction" THEN K(n) \cup {n + 1} ELSE K(n)
  OBVIOUS
<1>4. Cardinality(K(n)) \in Nat /\ Cardinality({}) = 0
  BY <1>2, FS_CardinalityType, FS_EmptySet
<1>5. Cardinality(K(n) \cup {n + 1}) = Cardinality(K(n)) + 1
  BY <1>2, FS_AddElement
<1>6. \A j : instruction_boundary_at_event(log, j) = Cardinality(K(j))
  BY DEF instruction_boundary_at_event
<1> HIDE DEF K
<1> QED  BY <1>2, <1>3, <1>4, <1>5, <1>6

LEMMA CountingTheSame ==
  ASSUME NEW log, NEW other, NEW n \in Nat, \A k \in 1 .. n : log[k] = other[k]
  PROVE  instruction_boundary_at_event(log, n) = instruction_boundary_at_event(other, n)
  BY DEF instruction_boundary_at_event

LEMMA CountingFurther ==
  ASSUME NEW log, NEW m \in Nat, NEW n \in Nat, m <= n
  PROVE  instruction_boundary_at_event(log, m) <= instruction_boundary_at_event(log, n)
<1> DEFINE K(j) == {k \in 1 .. j : log[k].kind = "instruction"}
<1>1. IsFiniteSet(K(n))
  <2>1. IsFiniteSet(1 .. n) /\ K(n) \in SUBSET (1 .. n)
    BY FS_Interval
  <2> HIDE DEF K
  <2> QED  BY <2>1, FS_Subset
<1>2. K(m) \in SUBSET K(n)
  OBVIOUS
<1> HIDE DEF K
<1>3. Cardinality(K(m)) <= Cardinality(K(n))
  BY <1>1, <1>2, FS_Subset
<1> QED  BY <1>3 DEF K, instruction_boundary_at_event

(* A run whose log is complete, in order and in step with its counters,    *)
(* from the first event on or, after a take, empty.                        *)
InSequence(log) ==
  /\ \A k \in 1 .. Len(log) : log[k].sequence = k - 1
  /\ \A k \in 2 .. Len(log) : log[k].cycle_start = log[k - 1].cycle_end
Abreast(r) ==
  r.trace # <<>> => /\ r.trace_sequence = Len(r.trace)
                    /\ r.cycles = r.trace[Len(r.trace)].cycle_end
Whole(r) ==
  ~r.taken => /\ ~r.failed /\ r.trace_sequence = Len(r.trace)
              /\ instruction_boundary_at_event(r.trace, Len(r.trace)) = r.instructions
Sound(r) == r \in Run /\ InSequence(r.trace) /\ Abreast(r) /\ Whole(r)

LEMMA NewRunSound ==
  ASSUME program \in Programs
  PROVE  Sound(NewRun)
<1>1. StartCore \in Core
  BY ExperimentAssumption DEF Core, Machine
<1>2. {} \in Met /\ <<>> \in Trace /\ <<>> \in Applied
  BY FS_EmptySet DEF Met, Trace, Applied
<1>3. NewRun \in Run
  BY ONLY <1>1, <1>2 DEF NewRun, NoIndex, Run
<1>4. instruction_boundary_at_event(<<>>, 0) = 0
  BY Counting
<1> QED  BY <1>3, <1>4 DEF Sound, InSequence, Abreast, Whole, NewRun

(* The one event is refused that follows a take.                           *)
LEMMA StepAccepted ==
  ASSUME program \in Programs, NEW r, Sound(r)
  PROVE  Accepts(r.trace, EventOf(r)) <=> r.trace # <<>> \/ r.trace_sequence = 0
<1>1. r \in Run
  BY DEF Sound
<1>2. /\ EventOf(r).sequence = r.trace_sequence
      /\ EventOf(r).cycle_start = r.cycles
  BY <1>1, SteppedFields DEF Follows
<1>3. CASE r.trace = <<>>
  BY <1>2, <1>3 DEF Accepts
<1>4. CASE r.trace # <<>>
  <2>1. r.trace \in Seq(Event)
    BY <1>1 DEF Run, Trace
  <2>2. Len(r.trace) \in 1 .. Len(r.trace) /\ Len(r.trace) \in Nat
    BY <1>4, <2>1
  <2>3. r.trace[Len(r.trace)].sequence = Len(r.trace) - 1
    BY <2>2 DEF Sound, InSequence
  <2>4. r.cycles \in Nat /\ r.trace_sequence = Len(r.trace)
        /\ r.cycles = r.trace[Len(r.trace)].cycle_end
    BY <1>1, <1>4 DEF Sound, Abreast, Run
  <2> QED  BY <1>2, <1>4, <2>2, <2>3, <2>4 DEF Accepts
<1> QED  BY <1>3, <1>4

LEMMA StepSound ==
  ASSUME program \in Programs, NEW r, Sound(r)
  PROVE  /\ Sound(Stepped(r))
         /\ ~r.taken => Accepts(r.trace, EventOf(r))
<1> DEFINE s == Stepped(r)
           e == EventOf(r)
           n == Len(r.trace)
<1>1. r \in Run /\ r.trace \in Seq(Event) /\ r.trace_sequence \in Nat /\ n \in Nat
      /\ r.taken \in BOOLEAN
  BY DEF Sound, Run, Trace
<1>2. ~r.taken => Accepts(r.trace, e)
  BY <1>1, StepAccepted DEF Sound, Whole
<1>3. /\ e \in Event /\ e.sequence = r.trace_sequence /\ e.cycle_start = r.cycles
      /\ s \in Run /\ s.cycles = e.cycle_end /\ s.taken = r.taken
  BY <1>1, SteppedFields DEF Follows
<1>4. CASE Accepts(r.trace, e)
  <2>1. /\ s.trace = Append(r.trace, e) /\ s.trace_sequence = r.trace_sequence + 1
        /\ s.instructions = IF e.kind = "instruction" THEN r.instructions + 1
                            ELSE r.instructions
        /\ s.failed = r.failed
    BY <1>1, <1>4, SteppedFields DEF Follows
  <2>2. /\ s.trace # <<>> /\ Len(s.trace) = n + 1 /\ s.trace[n + 1] = e
        /\ \A k \in 1 .. n : s.trace[k] = r.trace[k]
    BY <1>1, <1>3, <2>1
  <2>3. r.trace_sequence = n
    BY <1>4, <1>1, StepAccepted DEF Sound, Abreast
  <2>4. n # 0 => r.trace[n].cycle_end = r.cycles
    BY <1>1 DEF Sound, Abreast
  <2>5. InSequence(s.trace)
    <3>1. ASSUME NEW k \in 1 .. Len(s.trace)  PROVE s.trace[k].sequence = k - 1
      <4>1. CASE k = n + 1
        BY <1>1, <1>3, <2>2, <2>3, <4>1
      <4>2. CASE k \in 1 .. n
        BY <2>2, <4>2 DEF Sound, InSequence
      <4> QED  BY <1>1, <2>2, <3>1, <4>1, <4>2
    <3>2. ASSUME NEW k \in 2 .. Len(s.trace)
          PROVE  s.trace[k].cycle_start = s.trace[k - 1].cycle_end
      <4>1. CASE k = n + 1
        BY <1>1, <1>3, <2>2, <2>4, <3>2, <4>1
      <4>2. CASE k \in 2 .. n
        <5>1. k - 1 \in 1 .. n /\ k \in 1 .. n
          BY <1>1, <4>2
        <5> QED  BY <2>2, <4>2, <5>1 DEF Sound, InSequence
      <4> QED  BY <1>1, <2>2, <3>2, <4>1, <4>2
    <3> QED  BY <3>1, <3>2 DEF InSequence
  <2>6. Abreast(s)
    <3>1. Len(s.trace) = s.trace_sequence
      BY <2>1, <2>2, <2>3
    <3>2. s.cycles = s.trace[Len(s.trace)].cycle_end
      BY <1>3, <2>2
    <3> QED  BY <3>1, <3>2 DEF Abreast
  <2>7. ASSUME ~r.taken
        PROVE  instruction_boundary_at_event(s.trace, Len(s.trace)) = s.instructions
    <3>1. instruction_boundary_at_event(r.trace, n) = r.instructions
      BY <2>7 DEF Sound, Whole
    <3>2. instruction_boundary_at_event(s.trace, n) = r.instructions
      BY <1>1, <2>2, <3>1, CountingTheSame
    <3>3. instruction_boundary_at_event(s.trace, n + 1) =
            IF e.kind = "instruction" THEN r.instructions + 1 ELSE r.instructions
      <4> HIDE DEF s, n, e
      <4> QED  BY <1>1, <2>2, <3>2, Counting
    <3> QED  BY <2>1, <2>2, <3>3
  <2>8. Whole(s)
    BY <1>1, <1>3, <2>1, <2>2, <2>3, <2>7 DEF Sound, Whole
  <2> QED  BY <1>2, <1>3, <2>5, <2>6, <2>8 DEF Sound
<1>5. CASE ~Accepts(r.trace, e)
  <2>1. s.trace = r.trace /\ s.trace_sequence = r.trace_sequence
    BY <1>1, <1>5, SteppedFields DEF Follows
  <2>2. r.taken /\ r.trace = <<>>
    BY <1>1, <1>2, <1>5, StepAccepted
  <2> QED  BY <1>2, <1>3, <2>1, <2>2 DEF Sound, Abreast, Whole
<1> QED  BY <1>4, <1>5

-----------------------------------------------------------------------------
(* Both runs are sound, and the case is one that was resolved.             *)
RunsInv ==
  /\ program \in Programs
  /\ Sound(baseline) /\ Sound(faulted)
  /\ ~faulted.taken
  /\ stage \in {"baseline", "reading", "faulted", "compared"}
  /\ stage \in {"faulted", "compared"} =>
       /\ case[1] \in FaultCases
       /\ boundary \in 0 .. Limit - 1
       /\ Done(baseline) /\ ~baseline.taken

LEMMA RunsInitial == Init => RunsInv
<1> SUFFICES ASSUME Init  PROVE RunsInv
  OBVIOUS
<1>1. program \in Programs /\ baseline = NewRun /\ faulted = NewRun /\ stage = "baseline"
  BY DEF Init
<1>2. Sound(NewRun)
  BY <1>1, NewRunSound
<1>3. ~NewRun.taken
  BY DEF NewRun
<1> QED  BY <1>1, <1>2, <1>3 DEF RunsInv

LEMMA TakeSound ==
  ASSUME NEW r, Sound(r)
  PROVE  Sound([r EXCEPT !.trace = <<>>, !.taken = TRUE])
<1> DEFINE s == [r EXCEPT !.trace = <<>>, !.taken = TRUE]
<1>1. <<>> \in Trace
  BY DEF Trace
<1>2. s \in Run /\ s.trace = <<>> /\ s.taken
  BY <1>1 DEF Sound, Run
<1> HIDE DEF s
<1>3. Sound(s)
  BY <1>2 DEF Sound, InSequence, Abreast, Whole
<1> QED  BY <1>3 DEF s

(* What the fault does: the core is another, and the fault is recorded.    *)
Injected(r, s) ==
  /\ s \in Run
  /\ s.applied = <<[kind |-> case[1].kind,
                    word |-> IF case[1].effect[r.core] = r.core THEN 0 ELSE 1]>>
  /\ s.core = case[1].effect[r.core]
  /\ s.cycles = r.cycles /\ s.instructions = r.instructions
  /\ s.trace_sequence = r.trace_sequence /\ s.trace = r.trace /\ s.taken = r.taken
  /\ s.failed = r.failed /\ s.met = r.met /\ s.first_met = r.first_met
  /\ s.writes = r.writes

LEMMA FaultInjects ==
  ASSUME program \in Programs, case[1] \in FaultCases, faulted \in Run, apply_fault
  PROVE  Injected(faulted, faulted')
<1> DEFINE c == case[1].effect[faulted.core]
           a == <<[kind |-> case[1].kind, word |-> IF c = faulted.core THEN 0 ELSE 1]>>
<1>1. faulted' = [faulted EXCEPT !.core = c, !.applied = a]
  BY DEF apply_fault
<1>2. c \in Core
  <2>1. faulted.core \in DOMAIN program
    BY DEF Run, Core
  <2> QED  BY <2>1, ExperimentAssumption DEF Core, Machine
<1>3. a \in Applied
  BY DEF Applied
<1>4. /\ a = <<[kind |-> case[1].kind,
                word |-> IF case[1].effect[faulted.core] = faulted.core THEN 0 ELSE 1]>>
      /\ c = case[1].effect[faulted.core]
  OBVIOUS
<1> HIDE DEF c, a
<1>5. LET s == faulted' IN
      /\ s \in Run /\ s.applied = a /\ s.core = c
      /\ s.cycles = faulted.cycles /\ s.instructions = faulted.instructions
      /\ s.trace_sequence = faulted.trace_sequence /\ s.trace = faulted.trace
      /\ s.taken = faulted.taken /\ s.failed = faulted.failed /\ s.met = faulted.met
      /\ s.first_met = faulted.first_met /\ s.writes = faulted.writes
  BY ONLY <1>1, <1>2, <1>3, faulted \in Run DEF Run
<1> QED  BY <1>4, <1>5 DEF Injected

LEMMA InjectedSound ==
  ASSUME NEW r, NEW s, Sound(r), Injected(r, s)
  PROVE  Sound(s)
  BY DEF Sound, InSequence, Abreast, Whole, Injected

(* What is said of a run rests on the run and the program alone.           *)
LEMMA SoundDoesNotMove ==
  ASSUME program' = program, NEW r
  PROVE  /\ (r \in Run)' <=> r' \in Run
         /\ Sound(r)' <=> Sound(r')
  BY DEF Sound, Run, Core, Trace, Met, Applied, Event, EventAt

LEMMA RunsInductive == RunsInv /\ [Next]_vars => RunsInv'
<1> SUFFICES ASSUME RunsInv, [Next]_vars  PROVE RunsInv'
  OBVIOUS
<1>1. program' = program
  BY DEF Next, vars, baseline_step, take_trace, resolve_injection, apply_fault, faulted_step,
         compare, write_json_lines, end_of_file, skip_blank, refuse_line, next_event, outside
<1>2. (Sound(baseline)' <=> Sound(baseline')) /\ (Sound(faulted)' <=> Sound(faulted'))
  BY <1>1, SoundDoesNotMove
<1>3. CASE baseline_step
  <2>1. Sound(baseline')
    BY <1>3, StepSound DEF RunsInv, baseline_step
  <2> QED  BY <1>1, <1>2, <1>3, <2>1 DEF RunsInv, baseline_step, reading
<1>4. CASE take_trace
  <2>1. Sound(baseline')
    BY <1>4, TakeSound DEF RunsInv, take_trace
  <2> QED  BY <1>1, <1>2, <1>4, <2>1 DEF RunsInv, take_trace, reading
<1>5. CASE resolve_injection
  BY <1>1, <1>2, <1>5 DEF RunsInv, resolve_injection, Resolvable, Done
<1>6. CASE apply_fault
  <2>1. Sound(faulted') /\ faulted'.taken = faulted.taken
    <3>1. stage = "faulted"
      BY <1>6 DEF apply_fault
    <3>2. case[1] \in FaultCases /\ faulted \in Run /\ Sound(faulted)
      BY <3>1 DEF RunsInv, Sound
    <3>3. Injected(faulted, faulted')
      BY <1>6, <3>2, FaultInjects DEF RunsInv
    <3> QED  BY <3>2, <3>3, InjectedSound DEF Injected
  <2> QED  BY <1>1, <1>2, <1>6, <2>1 DEF RunsInv, apply_fault, Done
<1>7. CASE faulted_step
  <2>1. Sound(faulted') /\ faulted'.taken = faulted.taken
    BY <1>7, StepSound, SteppedFields DEF RunsInv, faulted_step, Sound, Follows
  <2> QED  BY <1>1, <1>2, <1>7, <2>1 DEF RunsInv, faulted_step, Done
<1>8. CASE compare
  BY <1>1, <1>2, <1>8 DEF RunsInv, compare, Done
<1>9. CASE write_json_lines
  BY <1>1, <1>2, <1>9 DEF RunsInv, write_json_lines
<1>10. CASE end_of_file \/ skip_blank \/ refuse_line \/ next_event \/ UNCHANGED vars
  <2>1. UNCHANGED <<stage, program, case, boundary, baseline, faulted>>
    BY <1>10 DEF end_of_file, skip_blank, refuse_line, next_event, outside, vars
  <2> QED  BY <1>2, <2>1 DEF RunsInv, Done
<1> QED  BY <1>3, <1>4, <1>5, <1>6, <1>7, <1>8, <1>9, <1>10 DEF Next

LEMMA RunsInvariant == Spec => []RunsInv
  BY RunsInitial, RunsInductive, PTL DEF Spec

(* Every log is a run of events without a gap, from the first on, that     *)
(* counts what the processor has committed, whatever the host has taken    *)
(* (TraceLog::push, Cpu::step).                                            *)
THEOREM LogsWellFormed == Spec => []LogWellFormed
<1>1. RunsInv => LogWellFormed
  <2> SUFFICES ASSUME RunsInv, NEW run \in {baseline, faulted}
               PROVE  /\ \A k \in DOMAIN run.trace : run.trace[k].sequence = k - 1
                      /\ \A k \in 2 .. Len(run.trace) :
                           run.trace[k].cycle_start = run.trace[k - 1].cycle_end
                      /\ ~run.taken =>
                           /\ ~run.failed
                           /\ instruction_boundary_at_event(run.trace, Len(run.trace)) =
                                run.instructions
    BY DEF LogWellFormed
  <2>1. Sound(run)
    BY DEF RunsInv
  <2>2. DOMAIN run.trace = 1 .. Len(run.trace)
    BY <2>1 DEF Sound, Run, Trace
  <2> QED  BY <2>1, <2>2 DEF Sound, InSequence, Whole
<1> QED  BY <1>1, RunsInvariant, PTL

-----------------------------------------------------------------------------
(* The lines of the file while it is read.  Of an undamaged file what is   *)
(* left is the rest of the trace.  A damaged one holds lines of the trace  *)
(* and cut ones; it ends in a cut line or is too short by one at most.     *)
TraceLine(line) == \E k \in 1 .. Len(baseline.trace) : line = baseline.trace[k]
Rest == SubSeq(baseline.trace, Len(log_read) + 1, Len(baseline.trace))
Undamaged ==
  file = Rest \/ (log_read = <<>> /\ file = <<BlankLine>> \o baseline.trace)
Damaged ==
  /\ file \in Seq(Event \cup {CutLine})
  /\ \A k \in 1 .. Len(file) : file[k] = CutLine \/ TraceLine(file[k])
  /\ \/ Len(file) + Len(log_read) >= Len(baseline.trace) - 1
     \/ file # <<>> /\ file[Len(file)] = CutLine

(* The reader has returned the trace up to a point and remembers its last  *)
(* event.                                                                  *)
Remembers ==
  /\ reader.previous_sequence = Len(log_read) - 1
  /\ log_read # <<>> => reader.previous_cycle_end = log_read[Len(log_read)].cycle_end
Returned ==
  /\ Len(log_read) <= Len(baseline.trace)
  /\ \A k \in 1 .. Len(log_read) : log_read[k] = baseline.trace[k]
ReaderType ==
  /\ reader \in [previous_sequence : Int, previous_cycle_end : Nat,
                 state : {"open", "finished", "failed"}]
  /\ log_read \in Seq(Event)
  /\ damaged \in BOOLEAN
ReaderInv ==
  /\ ReaderType
  /\ stage # "reading" => reader = NewReader /\ log_read = <<>>
  /\ stage = "reading" =>
       /\ Remembers
       /\ Returned
       /\ reader.state = "failed" => damaged
       /\ reader.state = "open" => IF damaged THEN Damaged ELSE Undamaged
       /\ reader.state = "finished" =>
            Len(log_read) >= Len(baseline.trace) - (IF damaged THEN 1 ELSE 0)

(* The events of a trace are told apart by their numbers, and from the     *)
(* other lines.                                                            *)
LEMMA TraceLines ==
  ASSUME program \in Programs, Sound(baseline), NEW k \in 1 .. Len(baseline.trace)
  PROVE  /\ baseline.trace[k] \in Event
         /\ baseline.trace[k].sequence = k - 1
         /\ baseline.trace[k] # BlankLine /\ baseline.trace[k] # CutLine
<1>1. baseline.trace \in Seq(Event)
  BY DEF Sound, Run, Trace
<1>2. baseline.trace[k] \in Event
  BY <1>1
<1>3. baseline.trace[k].sequence = k - 1
  BY DEF Sound, InSequence
<1>4. k \in Nat /\ k > 0
  BY <1>1
<1>5. BlankLine.sequence = -1 /\ CutLine.sequence = -2
  BY DEF BlankLine, CutLine, Nothing
<1>6. baseline.trace[k].sequence # -1 /\ baseline.trace[k].sequence # -2
  BY <1>3, <1>4
<1> QED  BY <1>2, <1>3, <1>5, <1>6

(* A piece of a sequence, and two sequences joined.                        *)
LEMMA Piece ==
  ASSUME NEW S, NEW log \in Seq(S), NEW i \in Int, NEW j \in Int,
         1 <= i, i <= j + 1, j <= Len(log)
  PROVE  /\ SubSeq(log, i, j) \in Seq(S)
         /\ Len(SubSeq(log, i, j)) = j - i + 1
         /\ \A k \in 1 .. j - i + 1 : SubSeq(log, i, j)[k] = log[i + k - 1]
<1>1. \A k \in i .. j : log[k] \in S
  OBVIOUS
<1>2. /\ SubSeq(log, i, j) \in Seq(S)
      /\ Len(SubSeq(log, i, j)) = IF i <= j THEN j - i + 1 ELSE 0
      /\ \A k \in 1 .. j - i + 1 : SubSeq(log, i, j)[k] = log[i + k - 1]
  BY ONLY <1>1, SubSeqProperties, i \in Int, j \in Int
<1> QED  BY <1>2

(* Each way to damage a file leaves such lines.                            *)
LEMMA DamagedFile ==
  ASSUME NEW S, NEW log \in Seq(S), NEW lines \in Damages(log)
  PROVE  /\ lines \in Seq(S \cup {CutLine})
         /\ \A k \in 1 .. Len(lines) :
              lines[k] = CutLine \/ \E j \in 1 .. Len(log) : lines[k] = log[j]
         /\ \/ Len(lines) >= Len(log) - 1
            \/ lines # <<>> /\ lines[Len(lines)] = CutLine
<1> DEFINE n == Len(log)
<1>1. n \in Nat /\ DOMAIN log = 1 .. n
  OBVIOUS
<1>2. CASE \E k \in DOMAIN log : lines = RemoveAt(log, k)
  <2>1. PICK k \in 1 .. n : lines = SubSeq(log, 1, k - 1) \o SubSeq(log, k + 1, n)
    BY <1>1, <1>2 DEF RemoveAt
  <2> DEFINE a == SubSeq(log, 1, k - 1)
             b == SubSeq(log, k + 1, n)
  <2>2. /\ a \in Seq(S) /\ b \in Seq(S) /\ Len(a) = k - 1 /\ Len(b) = n - k
        /\ \A j \in 1 .. k - 1 : a[j] = log[j]
        /\ \A j \in 1 .. n - k : b[j] = log[k + 1 + j - 1]
    <3>1. /\ a \in Seq(S) /\ Len(a) = k - 1 - 1 + 1
          /\ \A j \in 1 .. k - 1 - 1 + 1 : a[j] = log[1 + j - 1]
      BY <1>1, Piece
    <3> DEFINE i == k + 1
    <3>2. i \in Int /\ 1 <= i /\ i <= n + 1
      BY <1>1
    <3> HIDE DEF i
    <3>3. /\ SubSeq(log, i, n) \in Seq(S) /\ Len(SubSeq(log, i, n)) = n - i + 1
          /\ \A j \in 1 .. n - i + 1 : SubSeq(log, i, n)[j] = log[i + j - 1]
      BY <1>1, <3>2, Piece
    <3>4. b = SubSeq(log, i, n)
      BY DEF i
    <3> HIDE DEF b
    <3>5. /\ b \in Seq(S) /\ Len(b) = n - (k + 1) + 1
          /\ \A j \in 1 .. n - (k + 1) + 1 : b[j] = log[k + 1 + j - 1]
      BY <3>3, <3>4 DEF i
    <3> HIDE DEF a, b
    <3> QED  BY <1>1, <3>1, <3>5
  <2> HIDE DEF a, b
  <2>3. lines = a \o b
    BY <2>1 DEF a, b
  <2>n. /\ lines \in Seq(S) /\ Len(lines) = Len(a) + Len(b)
        /\ \A j \in 1 .. Len(a) + Len(b) :
             lines[j] = IF j <= Len(a) THEN a[j] ELSE b[j - Len(a)]
    <3>1. a \in Seq(S) /\ b \in Seq(S)
      BY <2>2
    <3> QED  BY ONLY <2>3, <3>1, ConcatProperties
  <2>4. lines \in Seq(S) /\ Len(lines) = n - 1
    BY <1>1, <2>2, <2>n
  <2>5. ASSUME NEW j \in 1 .. Len(lines)
        PROVE  \E i \in 1 .. n : lines[j] = log[i]
    <3>1. CASE j <= k - 1
      <4>1. j \in 1 .. k - 1 /\ j \in 1 .. n
        BY <1>1, <3>1
      <4>2. lines[j] = a[j]
        BY ONLY <1>1, <2>2, <2>n, <2>4, <4>1, k \in 1 .. n, j \in 1 .. Len(lines)
      <4> QED  BY <2>2, <4>1, <4>2
    <3>2. CASE j > k - 1
      <4>1. lines[j] = b[j - (k - 1)] /\ j - (k - 1) \in 1 .. n - k
        BY ONLY <1>1, <2>2, <2>n, <2>4, <3>2, k \in 1 .. n, j \in 1 .. Len(lines)
      <4>2. lines[j] = log[j + 1] /\ j + 1 \in 1 .. n
        BY <1>1, <2>2, <2>4, <4>1
      <4> QED  BY <4>2
    <3> QED  BY <1>1, <2>4, <3>1, <3>2
  <2> QED  BY <1>1, <2>4, <2>5
<1>3. CASE \E k \in DOMAIN log : lines = InsertAt(log, k, log[k])
  <2>1. PICK k \in 1 .. n :
          lines = SubSeq(log, 1, k - 1) \o <<log[k]>> \o SubSeq(log, k, n)
    BY <1>1, <1>3 DEF InsertAt
  <2> DEFINE a == SubSeq(log, 1, k - 1)
             b == SubSeq(log, k, n)
             c == a \o <<log[k]>>
  <2>2. /\ a \in Seq(S) /\ b \in Seq(S) /\ Len(a) = k - 1 /\ Len(b) = n - k + 1
        /\ \A j \in 1 .. k - 1 : a[j] = log[j]
        /\ \A j \in 1 .. n - k + 1 : b[j] = log[j + k - 1]
        /\ log[k] \in S
    BY <1>1
  <2> HIDE DEF a, b
  <2>3. /\ c \in Seq(S) /\ Len(c) = k
        /\ \A j \in 1 .. k : c[j] = log[j]
    BY <1>1, <2>2
  <2>4. lines = c \o b
    BY <2>1 DEF a, b
  <2> HIDE DEF c
  <2>n. /\ lines \in Seq(S) /\ Len(lines) = Len(c) + Len(b)
        /\ \A j \in 1 .. Len(c) + Len(b) :
             lines[j] = IF j <= Len(c) THEN c[j] ELSE b[j - Len(c)]
    <3>1. b \in Seq(S) /\ c \in Seq(S)
      BY <2>2, <2>3
    <3> QED  BY ONLY <2>4, <3>1, ConcatProperties
  <2>5. lines \in Seq(S) /\ Len(lines) = n + 1
    BY <1>1, <2>2, <2>3, <2>n
  <2>6. ASSUME NEW j \in 1 .. Len(lines)
        PROVE  \E i \in 1 .. n : lines[j] = log[i]
    <3>1. CASE j <= k
      <4>1. j \in 1 .. k /\ j \in 1 .. n
        BY <1>1, <3>1
      <4>2. lines[j] = c[j]
        BY ONLY <2>3, <2>n, <2>5, <4>1, k \in 1 .. n, j \in 1 .. Len(lines), <1>1
      <4> QED  BY <2>3, <4>1, <4>2
    <3>2. CASE j > k
      <4>1. lines[j] = b[j - k] /\ j - k \in 1 .. n - k + 1
        BY ONLY <1>1, <2>2, <2>3, <2>n, <2>5, <3>2, k \in 1 .. n, j \in 1 .. Len(lines)
      <4>2. lines[j] = log[j - 1] /\ j - 1 \in 1 .. n
        BY <1>1, <2>2, <2>5, <3>2, <4>1
      <4> QED  BY <4>2
    <3> QED  BY <1>1, <2>5, <3>1, <3>2
  <2> QED  BY <1>1, <2>5, <2>6
<1>4. CASE \E k \in DOMAIN log : lines = SubSeq(log, 1, k - 1) \o <<CutLine>>
  <2>1. PICK k \in 1 .. n : lines = SubSeq(log, 1, k - 1) \o <<CutLine>>
    BY <1>1, <1>4
  <2> DEFINE a == SubSeq(log, 1, k - 1)
  <2>2. /\ a \in Seq(S \cup {CutLine}) /\ Len(a) = k - 1
        /\ \A j \in 1 .. k - 1 : a[j] = log[j]
    BY <1>1
  <2> HIDE DEF a
  <2>3. lines = a \o <<CutLine>>
    BY <2>1 DEF a
  <2>4. /\ lines \in Seq(S \cup {CutLine}) /\ Len(lines) = k /\ lines[k] = CutLine
        /\ \A j \in 1 .. k - 1 : lines[j] = log[j]
    <3>1. <<CutLine>> \in Seq(S \cup {CutLine}) /\ Len(<<CutLine>>) = 1
      OBVIOUS
    <3>2. /\ lines \in Seq(S \cup {CutLine}) /\ Len(lines) = Len(a) + 1
          /\ \A j \in 1 .. Len(a) + 1 :
               lines[j] = IF j <= Len(a) THEN a[j] ELSE <<CutLine>>[j - Len(a)]
      BY ONLY <2>2, <2>3, <3>1, ConcatProperties
    <3> QED  BY <1>1, <2>2, <3>2
  <2> QED  BY <1>1, <2>4
<1>5. CASE \E k \in 1 .. n - 1 : lines = [log EXCEPT ![k] = log[k + 1], ![k + 1] = log[k]]
  <2>1. PICK k \in 1 .. n - 1 : lines = [log EXCEPT ![k] = log[k + 1], ![k + 1] = log[k]]
    BY <1>5
  <2>2. log[k] \in S /\ log[k + 1] \in S /\ k \in 1 .. n /\ k + 1 \in 1 .. n
    BY <1>1
  <2>3. lines \in Seq(S) /\ Len(lines) = n
    BY <1>1, <2>1, <2>2
  <2>4. \A j \in 1 .. n : lines[j] = IF j = k + 1 THEN log[k]
                                   ELSE IF j = k THEN log[k + 1] ELSE log[j]
    BY <1>1, <2>1, <2>2
  <2> QED  BY <1>1, <2>2, <2>3, <2>4
<1> QED  BY <1>2, <1>3, <1>4, <1>5 DEF Damages

(* The rest of the trace begins with the event after the last returned.    *)
LEMMA RestOfTrace ==
  ASSUME NEW S, NEW log \in Seq(S), NEW m \in Nat, m <= Len(log)
  PROVE  LET rest == SubSeq(log, m + 1, Len(log)) IN
         /\ rest \in Seq(S)
         /\ rest = <<>> <=> m = Len(log)
         /\ rest # <<>> => /\ m + 1 \in 1 .. Len(log)
                           /\ Head(rest) = log[m + 1]
                           /\ Tail(rest) = SubSeq(log, m + 2, Len(log))
<1> DEFINE i == m + 1
           n == Len(log)
           rest == SubSeq(log, i, n)
<1>1. i \in Int /\ 1 <= i /\ i <= n + 1 /\ n \in Nat
  OBVIOUS
<1> HIDE DEF i
<1>2. rest \in Seq(S) /\ Len(rest) = n - i + 1
  BY <1>1, Piece
<1>3. ASSUME i <= n
      PROVE  Head(rest) = log[i] /\ Tail(rest) = SubSeq(log, i + 1, n)
  <2>1. i \in 1 .. Len(log) /\ n \in i .. Len(log)
    BY <1>1, <1>3
  <2> QED  BY <2>1, HeadTailOfSubSeq
<1>4. i <= n \/ i = n + 1
  BY <1>1
<1> HIDE DEF rest
<1>5. /\ rest = <<>> <=> i = n + 1
      /\ rest # <<>> => i <= n
  BY <1>1, <1>2, <1>4
<1>6. i + 1 = m + 2 /\ i = m + 1
  BY DEF i
<1>7. rest # <<>> => i \in 1 .. n
  BY <1>1, <1>5
<1>8. rest = <<>> <=> m = n
  BY <1>1, <1>5, <1>6
<1>9. rest = SubSeq(log, m + 1, n)
  BY DEF rest, i
<1> QED  BY <1>2, <1>3, <1>5, <1>6, <1>7, <1>8, <1>9

LEMMA ReaderInitial == Init => ReaderInv
<1> SUFFICES ASSUME Init  PROVE ReaderInv
  OBVIOUS
<1>1. NewReader \in [previous_sequence : Int, previous_cycle_end : Nat,
                    state : {"open", "finished", "failed"}]
  BY DEF NewReader
<1>2. stage = "baseline" /\ reader = NewReader /\ log_read = <<>> /\ damaged = FALSE
  BY DEF Init
<1>3. <<>> \in Seq(Event) /\ FALSE \in BOOLEAN
  OBVIOUS
<1>4. ReaderType
  BY ONLY <1>1, <1>2, <1>3 DEF ReaderType
<1> QED  BY <1>2, <1>4 DEF ReaderInv

LEMMA FileWritten ==
  ASSUME RunsInv, ReaderInv, write_json_lines
  PROVE  ReaderInv'
<1> DEFINE T == baseline.trace
           n == Len(T)
<1>1. /\ stage = "baseline" /\ stage' = "reading"
      /\ file' \in {T, <<BlankLine>> \o T} \cup Damages(T)
      /\ damaged' = (file' \in Damages(T))
      /\ baseline' = baseline /\ program' = program /\ reader' = reader
      /\ log_read' = log_read
  BY DEF write_json_lines
<1>2. reader = NewReader /\ log_read = <<>> /\ Len(log_read) = 0
  BY <1>1 DEF ReaderInv
<1>3. T \in Seq(Event) /\ n \in Nat
  BY DEF RunsInv, Sound, Run, Trace
<1>4. Event' = Event
  BY <1>1 DEF Event, EventAt
<1>5. ReaderType'
  BY <1>1, <1>4 DEF ReaderInv, ReaderType
<1>6. Remembers' /\ Returned'
  BY <1>1, <1>2, <1>3 DEF Remembers, Returned, NewReader
<1>7. reader'.state = "open"
  BY <1>1, <1>2 DEF NewReader
<1>8. CASE damaged'
  <2>1. /\ file' \in Seq(Event \cup {CutLine})
        /\ \A k \in 1 .. Len(file') :
             file'[k] = CutLine \/ \E j \in 1 .. Len(T) : file'[k] = T[j]
        /\ \/ Len(file') >= Len(T) - 1
           \/ file' # <<>> /\ file'[Len(file')] = CutLine
    BY <1>1, <1>3, <1>8, DamagedFile
  <2>2. Len(file') + Len(log_read') = Len(file')
    BY <1>1, <1>2, <2>1
  <2>3. Damaged'
    BY <1>1, <1>4, <2>1, <2>2 DEF Damaged, TraceLine
  <2> QED  BY <1>1, <1>5, <1>6, <1>7, <1>8, <2>3 DEF ReaderInv
<1>9. CASE ~damaged'
  <2>1. file' = T \/ file' = <<BlankLine>> \o T
    BY <1>1, <1>9
  <2>2. SubSeq(T, 1, Len(T)) = T
    BY <1>3
  <2>3. Len(log_read) + 1 = 1
    BY <1>2
  <2>4. Undamaged'
    BY <1>1, <1>2, <2>1, <2>2, <2>3 DEF Undamaged, Rest
  <2> QED  BY <1>1, <1>5, <1>6, <1>7, <1>9, <2>4 DEF ReaderInv
<1> QED  BY <1>8, <1>9

(* What the first line of an open file is.                                 *)
LEMMA FirstLine ==
  ASSUME RunsInv, ReaderInv, Reading, file # <<>>
  PROVE  /\ damaged => Line = CutLine \/ TraceLine(Line)
         /\ ~damaged /\ Line # BlankLine =>
              /\ Len(log_read) + 1 \in 1 .. Len(baseline.trace)
              /\ Line = baseline.trace[Len(log_read) + 1]
              /\ file = Rest
              /\ Tail(file) = SubSeq(baseline.trace, Len(log_read) + 2, Len(baseline.trace))
         /\ Line = BlankLine => /\ ~damaged /\ log_read = <<>>
                                /\ Tail(file) = baseline.trace
<1> DEFINE T == baseline.trace
           m == Len(log_read)
<1>1. /\ T \in Seq(Event) /\ m \in Nat /\ m <= Len(T)
      /\ damaged \in BOOLEAN
  BY DEF RunsInv, Sound, Run, Trace, ReaderInv, ReaderType, Reading, Returned
<1>2. IF damaged THEN Damaged ELSE Undamaged
  BY DEF ReaderInv, Reading
<1>3. CASE damaged
  <2>1. /\ file \in Seq(Event \cup {CutLine})
        /\ \A k \in 1 .. Len(file) : file[k] = CutLine \/ TraceLine(file[k])
    BY <1>2, <1>3 DEF Damaged
  <2>2. Line = file[1] /\ 1 \in 1 .. Len(file)
    BY <2>1 DEF Line
  <2>3. Line = CutLine \/ TraceLine(Line)
    BY <2>1, <2>2
  <2>4. CutLine # BlankLine
    <3>1. CutLine.sequence = -2 /\ BlankLine.sequence = -1
      BY DEF CutLine, BlankLine, Nothing
    <3> QED  BY <3>1
  <2>5. Line # BlankLine
    BY <2>3, <2>4, TraceLines DEF TraceLine, RunsInv
  <2> QED  BY <1>3, <2>3, <2>5
<1>4. CASE ~damaged /\ file = Rest
  <2>1. /\ m + 1 \in 1 .. Len(T) /\ Head(file) = T[m + 1]
        /\ Tail(file) = SubSeq(T, m + 2, Len(T))
    BY <1>1, <1>4, RestOfTrace DEF Rest
  <2>2. Line # BlankLine
    BY <2>1, TraceLines DEF Line, RunsInv
  <2> QED  BY <1>4, <2>1, <2>2 DEF Line
<1>5. CASE ~damaged /\ log_read = <<>> /\ file = <<BlankLine>> \o T
  <2>1. Head(file) = BlankLine /\ Tail(file) = T
    BY <1>1, <1>5
  <2> QED  BY <1>5, <2>1 DEF Line
<1> QED  BY <1>1, <1>2, <1>3, <1>4, <1>5 DEF Undamaged

LEMMA Finished ==
  ASSUME RunsInv, ReaderInv, end_of_file
  PROVE  ReaderInv'
<1> DEFINE T == baseline.trace
           m == Len(log_read)
<1>1. /\ Reading /\ file = <<>> /\ reader' = [reader EXCEPT !.state = "finished"]
      /\ UNCHANGED <<stage, program, baseline, damaged, file, log_read>>
  BY DEF end_of_file, outside
<1>2. Event' = Event
  BY <1>1 DEF Event, EventAt
<1>3. /\ T \in Seq(Event) /\ m \in Nat /\ m <= Len(T)
      /\ damaged \in BOOLEAN
  BY <1>1 DEF RunsInv, Sound, Run, Trace, ReaderInv, ReaderType, Reading, Returned
<1>4. m >= Len(T) - (IF damaged THEN 1 ELSE 0)
  <2>1. CASE damaged
    <3>1. Len(file) + m >= Len(T) - 1 /\ Len(file) = 0
      BY <1>1, <2>1 DEF ReaderInv, Reading, Damaged
    <3> QED  BY <1>3, <2>1, <3>1
  <2>2. CASE ~damaged
    <3>1. CASE file = Rest
      <4>1. m = Len(T)
        BY <1>1, <1>3, <3>1, RestOfTrace DEF Rest
      <4> QED  BY <1>3, <2>2, <4>1
    <3>2. CASE file = <<BlankLine>> \o T
      <4>1. <<BlankLine>> \o T # <<>>
        BY <1>3
      <4> QED  BY <1>1, <3>2, <4>1
    <3> QED  BY <1>1, <2>2, <3>1, <3>2 DEF ReaderInv, Reading, Undamaged
  <2> QED  BY <1>3, <2>1, <2>2
<1>5. /\ reader' \in [previous_sequence : Int, previous_cycle_end : Nat,
                      state : {"open", "finished", "failed"}]
      /\ reader'.state = "finished"
      /\ reader'.previous_sequence = reader.previous_sequence
      /\ reader'.previous_cycle_end = reader.previous_cycle_end
  BY <1>1 DEF ReaderInv, ReaderType
<1> QED  BY <1>1, <1>2, <1>4, <1>5
         DEF ReaderInv, ReaderType, Reading, Remembers, Returned

LEMMA Skipped ==
  ASSUME RunsInv, ReaderInv, skip_blank
  PROVE  ReaderInv'
<1> DEFINE T == baseline.trace
<1>1. /\ Reading /\ file # <<>> /\ Line = BlankLine /\ file' = Tail(file)
      /\ UNCHANGED <<stage, program, baseline, damaged, reader, log_read>>
  BY DEF skip_blank, outside
<1>2. ~damaged /\ log_read = <<>> /\ file' = T
  BY <1>1, FirstLine
<1>3. Event' = Event
  BY <1>1 DEF Event, EventAt
<1>4. SubSeq(T, 1, Len(T)) = T /\ Len(log_read) + 1 = 1
  BY <1>2 DEF RunsInv, Sound, Run, Trace
<1>5. Undamaged'
  BY <1>1, <1>2, <1>4 DEF Undamaged, Rest
<1> QED  BY <1>1, <1>2, <1>3, <1>5 DEF ReaderInv, ReaderType, Reading, Remembers, Returned

(* The event that follows is the only one that is accepted.                *)
LEMMA OnlyTheNext ==
  ASSUME RunsInv, ReaderInv, Reading, NEW k \in 1 .. Len(baseline.trace)
  PROVE  InOrder(reader, baseline.trace[k]) <=> k = Len(log_read) + 1
<1> DEFINE T == baseline.trace
           m == Len(log_read)
<1>1. /\ T \in Seq(Event) /\ m \in Nat /\ m <= Len(T) /\ k \in Nat
      /\ reader.previous_sequence = m - 1
      /\ m # 0 => reader.previous_cycle_end = log_read[m].cycle_end
  BY DEF RunsInv, Sound, Run, Trace, ReaderInv, ReaderType, Reading, Returned, Remembers
<1>2. T[k].sequence = k - 1
  BY TraceLines DEF RunsInv
<1>3. ASSUME k = m + 1, m # 0
      PROVE  T[k].cycle_start >= reader.previous_cycle_end
  <2>1. m \in 1 .. Len(T) /\ log_read[m] = T[m]
    BY <1>1, <1>3 DEF ReaderInv, Reading, Returned
  <2>2. T[k].cycle_start = T[k - 1].cycle_end
    BY <1>1, <1>3 DEF RunsInv, Sound, InSequence
  <2>3. T[m].cycle_end \in Nat
    BY <1>1, <2>1, EventFields DEF RunsInv
  <2>4. k - 1 = m
    BY <1>1, <1>3
  <2> QED  BY <1>1, <1>3, <2>1, <2>2, <2>3, <2>4
<1> QED  BY <1>1, <1>2, <1>3 DEF InOrder

LEMMA Refused ==
  ASSUME RunsInv, ReaderInv, refuse_line
  PROVE  ReaderInv'
<1>1. /\ Reading /\ file # <<>> /\ Line # BlankLine /\ ~Acceptable(reader, Line)
      /\ reader' = [reader EXCEPT !.state = "failed"]
      /\ UNCHANGED <<stage, program, baseline, damaged, file, log_read>>
  BY DEF refuse_line, outside
<1>2. damaged
  <2> SUFFICES ASSUME ~damaged  PROVE FALSE
    OBVIOUS
  <2>1. /\ Len(log_read) + 1 \in 1 .. Len(baseline.trace)
        /\ Line = baseline.trace[Len(log_read) + 1]
    BY <1>1, FirstLine
  <2>2. Line # CutLine
    BY <2>1, TraceLines DEF RunsInv
  <2>3. InOrder(reader, Line)
    BY <1>1, <2>1, OnlyTheNext
  <2> QED  BY <1>1, <2>2, <2>3 DEF Acceptable
<1>3. Event' = Event
  BY <1>1 DEF Event, EventAt
<1>4. /\ reader' \in [previous_sequence : Int, previous_cycle_end : Nat,
                      state : {"open", "finished", "failed"}]
      /\ reader'.state = "failed"
      /\ reader'.previous_sequence = reader.previous_sequence
      /\ reader'.previous_cycle_end = reader.previous_cycle_end
  BY <1>1 DEF ReaderInv, ReaderType
<1> QED  BY <1>1, <1>2, <1>3, <1>4 DEF ReaderInv, ReaderType, Reading, Remembers, Returned

LEMMA NextRead ==
  ASSUME RunsInv, ReaderInv, next_event
  PROVE  ReaderInv'
<1> DEFINE T == baseline.trace
           n == Len(T)
           m == Len(log_read)
<1>1. /\ Reading /\ file # <<>> /\ Line # BlankLine /\ Acceptable(reader, Line)
      /\ file' = Tail(file) /\ reader' = Advanced(reader, Line)
      /\ log_read' = Append(log_read, Line)
      /\ UNCHANGED <<stage, program, baseline, damaged>>
  BY DEF next_event, outside
<1>2. /\ T \in Seq(Event) /\ log_read \in Seq(Event) /\ m \in Nat /\ n \in Nat
      /\ m <= n /\ damaged \in BOOLEAN
      /\ \A k \in 1 .. m : log_read[k] = T[k]
  BY <1>1 DEF RunsInv, Sound, Run, Trace, ReaderInv, ReaderType, Reading, Returned
<1>3. Event' = Event
  BY <1>1 DEF Event, EventAt
<1>4. Line # CutLine /\ InOrder(reader, Line)
  BY <1>1 DEF Acceptable
<1>5. m + 1 \in 1 .. n /\ Line = T[m + 1]
  <2>1. CASE ~damaged
    BY <1>1, <2>1, FirstLine
  <2>2. CASE damaged
    <3>1. PICK k \in 1 .. n : Line = T[k]
      BY <1>1, <1>4, <2>2, FirstLine DEF TraceLine
    <3>2. k = m + 1
      BY <1>1, <1>4, <3>1, OnlyTheNext
    <3> QED  BY <3>1, <3>2
  <2> QED  BY <1>2, <2>1, <2>2
<1>6. Line \in Event /\ Line.sequence = m
  BY <1>2, <1>5, TraceLines DEF RunsInv
<1>7. /\ Len(log_read') = m + 1 /\ log_read' \in Seq(Event) /\ log_read' # <<>>
      /\ log_read'[m + 1] = Line
      /\ \A k \in 1 .. m : log_read'[k] = log_read[k]
  BY <1>1, <1>2, <1>6
<1>8. Returned'
  BY <1>1, <1>2, <1>5, <1>7 DEF Returned
<1>9. Line.sequence \in Int /\ Line.cycle_end \in Nat
  BY <1>6, EventFields DEF RunsInv
<1>10. /\ reader' \in [previous_sequence : Int, previous_cycle_end : Nat,
                       state : {"open", "finished", "failed"}]
       /\ reader'.state = "open"
       /\ reader'.previous_sequence = Line.sequence
       /\ reader'.previous_cycle_end = Line.cycle_end
  <2>1. reader.state = "open" /\ reader' = [reader EXCEPT !.previous_sequence = Line.sequence,
                                                  !.previous_cycle_end = Line.cycle_end]
    BY <1>1 DEF Reading, Advanced
  <2> QED  BY <1>9, <2>1 DEF ReaderInv, ReaderType
<1>11. Remembers'
  BY <1>2, <1>6, <1>7, <1>10 DEF Remembers
<1>12. IF damaged THEN Damaged' ELSE Undamaged'
  <2>1. CASE damaged
    <3>1. Damaged
      BY <1>1, <2>1 DEF ReaderInv, Reading
    <3>2. /\ file \in Seq(Event \cup {CutLine}) /\ file # <<>>
          /\ \A k \in 1 .. Len(file) : file[k] = CutLine \/ TraceLine(file[k])
      BY <1>1, <3>1 DEF Damaged
    <3>3. /\ file' \in Seq(Event \cup {CutLine}) /\ Len(file') = Len(file) - 1
          /\ \A k \in 1 .. Len(file') : file'[k] = file[k + 1]
          /\ Len(file) \in Nat /\ Len(file) > 0
          /\ Line = file[1]
      BY <1>1, <3>2 DEF Line
    <3>4. ASSUME NEW k \in 1 .. Len(file')
          PROVE  file'[k] = CutLine \/ TraceLine(file'[k])
      <4>1. k + 1 \in 1 .. Len(file) /\ file'[k] = file[k + 1]
        BY <3>3
      <4> QED  BY <3>2, <4>1
    <3>5. CASE Len(file) + m >= n - 1
      <4>1. Len(file') + Len(log_read') >= n - 1
        BY <1>2, <1>7, <3>3, <3>5
      <4> QED  BY <1>1, <1>3, <2>1, <3>3, <3>4, <4>1 DEF Damaged, TraceLine
    <3>6. CASE file[Len(file)] = CutLine
      <4>1. Len(file) # 1
        BY <1>4, <3>3, <3>6
      <4>2. Len(file') \in 1 .. Len(file') /\ Len(file') + 1 = Len(file)
        BY <3>3, <4>1
      <4>3. file' # <<>> /\ file'[Len(file')] = CutLine
        BY <3>3, <3>6, <4>2
      <4> QED  BY <1>1, <1>3, <2>1, <3>3, <3>4, <4>3 DEF Damaged, TraceLine
    <3> QED  BY <3>1, <3>5, <3>6 DEF Damaged
  <2>2. CASE ~damaged
    <3>1. file' = SubSeq(T, m + 2, n)
      BY <1>1, <2>2, FirstLine
    <3>2. Len(log_read') + 1 = m + 2
      BY <1>2, <1>7
    <3> QED  BY <1>1, <2>2, <3>1, <3>2 DEF Undamaged, Rest
  <2> QED  BY <2>1, <2>2
<1>13. ReaderType'
  BY <1>1, <1>2, <1>3, <1>7, <1>10 DEF ReaderType
<1>14. stage' = "reading"
  BY <1>1 DEF Reading
<1> QED  BY <1>1, <1>8, <1>10, <1>11, <1>12, <1>13, <1>14 DEF ReaderInv

LEMMA ReaderInductive == RunsInv /\ ReaderInv /\ [Next]_vars => ReaderInv'
<1> SUFFICES ASSUME RunsInv, ReaderInv, [Next]_vars  PROVE ReaderInv'
  OBVIOUS
<1>1. CASE \/ baseline_step \/ take_trace \/ resolve_injection \/ apply_fault
           \/ faulted_step \/ compare
  <2>1. /\ UNCHANGED <<program, file, damaged, reader, log_read>>
        /\ stage # "reading" /\ stage' # "reading"
    BY <1>1 DEF baseline_step, take_trace, resolve_injection, apply_fault, faulted_step,
                compare, reading
  <2>2. Event' = Event
    BY <2>1 DEF Event, EventAt
  <2> QED  BY <2>1, <2>2 DEF ReaderInv, ReaderType
<1>2. CASE UNCHANGED vars
  <2>1. Event' = Event
    BY <1>2 DEF vars, Event, EventAt
  <2> QED  BY <1>2, <2>1 DEF vars, ReaderInv, ReaderType, Remembers, Returned, Damaged,
                             Undamaged, Rest, TraceLine
<1> QED  BY <1>1, <1>2, FileWritten, Finished, Skipped, Refused, NextRead DEF Next

LEMMA ReaderInvariant == Spec => [](RunsInv /\ ReaderInv)
<1>1. RunsInv /\ ReaderInv /\ [Next]_vars => (RunsInv /\ ReaderInv)'
  BY RunsInductive, ReaderInductive
<1> QED  BY <1>1, RunsInitial, ReaderInitial, PTL DEF Spec

(* The reader returns the trace as it was written, up to the first line    *)
(* that is missing, doubled, out of place or cut, and refuses the rest: a   *)
(* file that is read to its end lacks at most its last line, and nothing   *)
(* is refused that was not altered (TraceJsonReader::next_event).          *)
THEOREM ReaderExact == Spec => []ReadsPrefixOrFails
<1>1. RunsInv /\ ReaderInv => ReadsPrefixOrFails
  <2> SUFFICES ASSUME RunsInv, ReaderInv, stage = "reading"
               PROVE  log_read = SubSeq(baseline.trace, 1, Len(log_read))
    BY DEF ReadsPrefixOrFails, ReaderInv
  <2> DEFINE m == Len(log_read)
             S == SubSeq(baseline.trace, 1, m)
  <2>1. /\ log_read \in Seq(Event) /\ baseline.trace \in Seq(Event) /\ m \in Nat
        /\ m <= Len(baseline.trace)
        /\ \A k \in 1 .. m : log_read[k] = baseline.trace[k]
    BY DEF ReaderInv, ReaderType, Returned, RunsInv, Sound, Run, Trace
  <2>2. S \in Seq(Event) /\ Len(S) = m /\ \A k \in 1 .. m : S[k] = baseline.trace[k]
    BY <2>1
  <2> HIDE DEF S
  <2>3. log_read = S
    BY <2>1, <2>2
  <2> QED  BY <2>3 DEF S
<1> QED  BY <1>1, ReaderInvariant, PTL

-----------------------------------------------------------------------------
(* A complete baseline is the end of a path: every run on it is the step   *)
(* of the one before, and its log is the beginning of the baseline's.      *)
Begins(short, long) ==
  Len(short) <= Len(long) /\ \A k \in 1 .. Len(short) : short[k] = long[k]
IsPath(h, n) ==
  /\ h[0] = NewRun
  /\ \A i \in 0 .. n : /\ Sound(h[i]) /\ ~h[i].taken /\ h[i].applied = <<>>
                       /\ Begins(h[i].trace, h[n].trace)
  /\ \A i \in 0 .. n - 1 : Runs(h[i]) /\ h[i + 1] = Stepped(h[i])

(* Runs that differ at most in the fault that was recorded.                *)
Alike(r, s) ==
  /\ r.core = s.core /\ r.cycles = s.cycles /\ r.instructions = s.instructions
  /\ r.trace_sequence = s.trace_sequence /\ r.trace = s.trace /\ r.taken = s.taken
  /\ r.failed = s.failed /\ r.met = s.met /\ r.first_met = s.first_met
  /\ r.writes = s.writes

(* Before its fault the faulted run is on the baseline's path; after a     *)
(* fault that changed nothing it is alike; and in any case the logs agree  *)
(* up to an event that comes after the boundary.                           *)
Ahead(h, n) ==
  /\ faulted.applied = <<>> /\ faulted.instructions <= boundary
  /\ \E i \in 0 .. n : faulted = h[i]
Parted ==
  \E a \in 0 .. Len(baseline.trace) :
    /\ a <= Len(faulted.trace)
    /\ \A k \in 1 .. a : faulted.trace[k] = baseline.trace[k]
    /\ instruction_boundary_at_event(faulted.trace, a) >= boundary
Past(h, n) ==
  /\ Len(faulted.applied) = 1
  /\ faulted.applied[1].word = 0 => \E i \in 0 .. n : Alike(faulted, h[i])
  /\ Parted
Follower(h, n) == Ahead(h, n) \/ Past(h, n)

PathInv ==
  /\ stage = "baseline" => faulted = NewRun
  /\ ~baseline.taken =>
       \E n \in Nat : \E h \in [0 .. n -> Run] :
         /\ IsPath(h, n) /\ h[n] = baseline
         /\ stage \in {"faulted", "compared"} => Follower(h, n)
  /\ stage = "compared" => Done(faulted) /\ reference \in Exports(baseline.trace)

(* A path does not change with the state.                                  *)
LEMMA PathStays ==
  ASSUME program' = program, NEW n, NEW h
  PROVE  Run' = Run /\ (IsPath(h, n)' <=> IsPath(h, n))
<1>1. Event' = Event
  BY DEF Event, EventAt
<1>2. Run' = Run
  BY <1>1 DEF Run, Core, Trace, Met, Applied
<1>3. ASSUME NEW r  PROVE Sound(r)' <=> Sound(r)
  BY SoundDoesNotMove
<1>4. ASSUME NEW r  PROVE Stepped(r)' = Stepped(r)
  BY DEF Stepped, EventOf
<1> QED  BY <1>2, <1>3, <1>4 DEF IsPath

LEMMA PathBegins ==
  ASSUME program \in Programs
  PROVE  \E n \in Nat : \E h \in [0 .. n -> Run] : IsPath(h, n) /\ h[n] = NewRun
<1> DEFINE h == [i \in 0 .. 0 |-> NewRun]
<1>1. Sound(NewRun) /\ NewRun \in Run
  BY NewRunSound DEF Sound
<1>2. ~NewRun.taken /\ NewRun.applied = <<>> /\ NewRun.trace = <<>>
  BY DEF NewRun
<1>3. h \in [0 .. 0 -> Run] /\ h[0] = NewRun
  BY <1>1
<1>4. IsPath(h, 0)
  <2> HIDE DEF h
  <2>1. Begins(<<>>, <<>>)
    BY DEF Begins
  <2> QED  BY <1>1, <1>2, <1>3, <2>1 DEF IsPath
<1> QED  BY <1>3, <1>4

LEMMA PathGoesOn ==
  ASSUME program \in Programs, NEW n \in Nat, NEW h \in [0 .. n -> Run],
         IsPath(h, n), Runs(h[n])
  PROVE  \E m \in Nat : \E g \in [0 .. m -> Run] :
           IsPath(g, m) /\ g[m] = Stepped(h[n])
<1> DEFINE r == h[n]
           s == Stepped(r)
           g == [i \in 0 .. n + 1 |-> IF i = n + 1 THEN s ELSE h[i]]
<1>1. Sound(r) /\ ~r.taken /\ r.applied = <<>> /\ r \in Run
  BY DEF IsPath
<1>2. Sound(s) /\ Accepts(r.trace, EventOf(r))
  BY <1>1, StepSound
<1>3. /\ s \in Run /\ s.taken = r.taken /\ s.applied = r.applied
      /\ s.trace = Append(r.trace, EventOf(r))
  BY <1>1, <1>2, SteppedFields DEF Follows
<1>4. r.trace \in Seq(Event) /\ EventOf(r) \in Event
  BY <1>1, SteppedFields DEF Run, Trace, Follows
<1>5. Begins(r.trace, s.trace) /\ Begins(s.trace, s.trace)
  BY <1>3, <1>4 DEF Begins
<1>6. ASSUME NEW i \in 0 .. n  PROVE Begins(h[i].trace, s.trace)
  <2>1. Begins(h[i].trace, r.trace)
    BY DEF IsPath
  <2>2. h[i].trace \in Seq(Event)
    BY DEF Run, Trace
  <2>3. s.trace \in Seq(Event)
    BY <1>3 DEF Run, Trace
  <2> QED  BY <1>4, <1>5, <2>1, <2>2, <2>3 DEF Begins
<1> HIDE DEF s
<1>7. /\ g \in [0 .. n + 1 -> Run] /\ g[n + 1] = s
      /\ \A i \in 0 .. n : g[i] = h[i]
  BY <1>3
<1> HIDE DEF g
<1>8. IsPath(g, n + 1)
  <2>1. g[0] = NewRun
    BY <1>7 DEF IsPath
  <2>2. ASSUME NEW i \in 0 .. n + 1
        PROVE  /\ Sound(g[i]) /\ ~g[i].taken /\ g[i].applied = <<>>
               /\ Begins(g[i].trace, g[n + 1].trace)
    <3>1. CASE i = n + 1
      BY <1>1, <1>2, <1>3, <1>5, <1>7, <3>1
    <3>2. CASE i \in 0 .. n
      BY <1>6, <1>7, <3>2 DEF IsPath
    <3> QED  BY <2>2, <3>1, <3>2
  <2>3. ASSUME NEW i \in 0 .. n
        PROVE  Runs(g[i]) /\ g[i + 1] = Stepped(g[i])
    <3>1. CASE i = n
      BY <1>7, <3>1 DEF s
    <3>2. CASE i \in 0 .. n - 1
      <4>1. i + 1 \in 0 .. n
        BY <3>2
      <4> QED  BY <1>7, <3>2, <4>1 DEF IsPath
    <3> QED  BY <2>3, <3>1, <3>2
  <2> QED  BY <2>1, <2>2, <2>3 DEF IsPath
<1>9. n + 1 \in Nat
  OBVIOUS
<1> QED  BY <1>7, <1>8, <1>9 DEF s

LEMMA AlikeSteps ==
  ASSUME program \in Programs, NEW r \in Run, NEW s \in Run, Alike(r, s)
  PROVE  Alike(Stepped(r), Stepped(s))
<1>1. EventOf(r) = EventOf(s)
  BY DEF Alike, EventOf
<1>2. Follows(r, Stepped(r)) /\ Follows(s, Stepped(s))
  BY SteppedFields
<1>3. CASE Accepts(r.trace, EventOf(r))
  BY ONLY Alike(r, s), <1>1, <1>2, <1>3 DEF Follows, Alike
<1>4. CASE ~Accepts(r.trace, EventOf(r))
  <2> DEFINE LeftOff(x, y) ==
               /\ y.core = program[x.core].core
               /\ y.cycles = x.cycles + program[x.core].cycles /\ y.taken = x.taken
               /\ y.trace = x.trace /\ y.trace_sequence = x.trace_sequence
               /\ y.instructions = x.instructions /\ y.failed = TRUE
               /\ y.met = x.met /\ y.first_met = x.first_met /\ y.writes = x.writes
  <2>1. LeftOff(r, Stepped(r))
    BY ONLY <1>2, <1>4 DEF Follows
  <2>2. ~Accepts(s.trace, EventOf(s))
    BY ONLY Alike(r, s), <1>1, <1>4 DEF Alike
  <2>3. LeftOff(s, Stepped(s))
    BY ONLY <1>2, <2>2 DEF Follows
  <2> QED  BY ONLY Alike(r, s), <2>1, <2>3 DEF Alike
<1> QED  BY ONLY <1>3, <1>4

LEMMA PathInitial == Init => PathInv
<1> SUFFICES ASSUME Init  PROVE PathInv
  OBVIOUS
<1>1. stage = "baseline" /\ baseline = NewRun /\ faulted = NewRun /\ program \in Programs
  BY DEF Init
<1> QED  BY <1>1, PathBegins DEF PathInv

LEMMA PathBaseline ==
  ASSUME RunsInv, PathInv, baseline_step
  PROVE  PathInv'
<1>1. /\ stage = "baseline" /\ Runs(baseline) /\ baseline' = Stepped(baseline)
      /\ UNCHANGED <<stage, program, faulted>>
  BY DEF baseline_step
<1>2. baseline'.taken = baseline.taken
  BY <1>1, SteppedFields DEF RunsInv, Sound, Follows
<1>3. ASSUME ~baseline.taken
      PROVE  \E m \in Nat : \E g \in [0 .. m -> Run] : IsPath(g, m) /\ g[m] = baseline'
  <2>n. PICK n \in Nat : \E h \in [0 .. n -> Run] : IsPath(h, n) /\ h[n] = baseline
    BY <1>3 DEF PathInv
  <2>1. PICK h \in [0 .. n -> Run] : IsPath(h, n) /\ h[n] = baseline
    BY <2>n
  <2> QED  BY <1>1, <2>1, PathGoesOn DEF RunsInv
<1>4. ~baseline'.taken =>
        \E m \in Nat : \E g \in [0 .. m -> Run'] : IsPath(g, m)' /\ g[m] = baseline'
  <2>1. Run' = Run
    BY <1>1, PathStays
  <2> QED  BY <1>1, <1>2, <1>3, <2>1, PathStays
<1> QED  BY <1>1, <1>4 DEF PathInv

(* The fault: the runs part, if at all, at the end of the faulted log.     *)
LEMMA PathFault ==
  ASSUME RunsInv, PathInv, apply_fault
  PROVE  PathInv'
<1>1. /\ stage = "faulted" /\ DueIn(faulted) /\ Runs(faulted)
      /\ UNCHANGED <<stage, program, case, boundary, baseline>>
  BY DEF apply_fault
<1>2. Injected(faulted, faulted')
  BY <1>1, FaultInjects DEF RunsInv, Sound
<1>n. PICK n \in Nat : \E h \in [0 .. n -> Run] :
        IsPath(h, n) /\ h[n] = baseline /\ Follower(h, n)
  BY <1>1 DEF PathInv, RunsInv
<1>3. PICK h \in [0 .. n -> Run] :
        IsPath(h, n) /\ h[n] = baseline /\ Follower(h, n)
  BY <1>n
<1>4. faulted.applied = <<>> /\ boundary <= faulted.instructions
  BY <1>1 DEF DueIn
<1>5. PICK i \in 0 .. n : faulted = h[i]
  BY <1>3, <1>4 DEF Follower, Ahead, Past
<1>6. /\ faulted.trace \in Seq(Event) /\ baseline.trace \in Seq(Event)
      /\ Begins(faulted.trace, baseline.trace)
  BY <1>3, <1>5 DEF IsPath, RunsInv, Sound, Run, Trace
<1>7. instruction_boundary_at_event(faulted.trace, Len(faulted.trace)) = faulted.instructions
  BY DEF RunsInv, Sound, Whole
<1>8. faulted'.trace = faulted.trace /\ Len(faulted'.applied) = 1
  BY <1>2 DEF Injected
<1>9. Parted'
  <2>1. Len(faulted.trace) \in 0 .. Len(baseline.trace)
    BY <1>6 DEF Begins
  <2>2. \A k \in 1 .. Len(faulted.trace) : faulted.trace[k] = baseline.trace[k]
    BY <1>6 DEF Begins
  <2> QED  BY <1>1, <1>4, <1>7, <1>8, <2>1, <2>2 DEF Parted
<1>10. ASSUME faulted'.applied[1].word = 0  PROVE Alike(faulted', h[i])
  <2>1. faulted'.core = faulted.core
    BY <1>2, <1>10 DEF Injected
  <2> QED  BY <1>2, <1>5, <2>1 DEF Injected, Alike
<1>11. Past(h, n)'
  BY <1>8, <1>9, <1>10 DEF Past
<1>12. IsPath(h, n)' /\ Run' = Run
  BY <1>1, <1>3, PathStays
<1> QED  BY <1>1, <1>3, <1>11, <1>12 DEF PathInv, Follower

(* A step of the faulted run: along the path before the fault, alongside   *)
(* it after one that changed nothing.                                      *)
LEMMA PathFaulted ==
  ASSUME RunsInv, PathInv, faulted_step
  PROVE  PathInv'
<1>1. /\ stage = "faulted" /\ ~DueIn(faulted) /\ Runs(faulted)
      /\ faulted' = Stepped(faulted)
      /\ UNCHANGED <<stage, program, case, boundary, baseline>>
  BY DEF faulted_step
<1>n. PICK n \in Nat : \E h \in [0 .. n -> Run] :
        IsPath(h, n) /\ h[n] = baseline /\ Follower(h, n)
  BY <1>1 DEF PathInv, RunsInv
<1>2. PICK h \in [0 .. n -> Run] :
        IsPath(h, n) /\ h[n] = baseline /\ Follower(h, n)
  BY <1>n
<1>3. /\ faulted \in Run /\ Follows(faulted, faulted')
      /\ Accepts(faulted.trace, EventOf(faulted))
  BY <1>1, SteppedFields, StepSound DEF RunsInv, Sound
<1>4. /\ faulted'.trace = Append(faulted.trace, EventOf(faulted))
      /\ faulted'.applied = faulted.applied
      /\ faulted.trace \in Seq(Event) /\ faulted.instructions \in Nat
      /\ faulted'.instructions \in {faulted.instructions, faulted.instructions + 1}
  BY <1>3 DEF Follows, Run, Trace
<1>5. ASSUME NEW i \in 0 .. n, h[i].instructions = faulted.instructions
      PROVE  i \in 0 .. n - 1
  <2>1. h[n].instructions = Limit
    BY <1>1, <1>2 DEF RunsInv, Done
  <2>2. faulted.instructions # Limit
    BY <1>1, <1>4, ExperimentAssumption DEF Runs
  <2> QED  BY <1>5, <2>1, <2>2
<1>6. CASE Ahead(h, n)
  <2>1. PICK i \in 0 .. n : faulted = h[i]
    BY <1>6 DEF Ahead
  <2>2. i \in 0 .. n - 1 /\ i + 1 \in 0 .. n
    BY <1>5, <2>1
  <2>3. faulted' = h[i + 1]
    BY <1>1, <1>2, <2>1, <2>2 DEF IsPath
  <2>4. faulted.applied = <<>> /\ ~(boundary <= faulted.instructions)
    BY <1>1, <1>6 DEF Ahead, DueIn
  <2>5. boundary \in Int
    BY <1>1, ExperimentAssumption DEF RunsInv
  <2>6. faulted'.applied = <<>> /\ faulted'.instructions <= boundary
    BY <1>4, <2>4, <2>5
  <2>7. Ahead(h, n)'
    BY <1>1, <2>2, <2>3, <2>6 DEF Ahead
  <2> QED  BY <1>1, <1>2, <2>7, PathStays DEF PathInv, Follower
<1>7. CASE Past(h, n)
  <2>1. Parted'
    <3>1. PICK a \in 0 .. Len(baseline.trace) :
            /\ a <= Len(faulted.trace)
            /\ \A k \in 1 .. a : faulted.trace[k] = baseline.trace[k]
            /\ instruction_boundary_at_event(faulted.trace, a) >= boundary
      BY <1>7 DEF Past, Parted
    <3>2. baseline.trace \in Seq(Event) /\ a \in Nat /\ EventOf(faulted) \in Event
      BY <1>3 DEF RunsInv, Sound, Run, Trace, Follows
    <3>3. /\ a <= Len(faulted'.trace)
          /\ \A k \in 1 .. a : faulted'.trace[k] = faulted.trace[k]
      BY <1>4, <3>1, <3>2
    <3>4. instruction_boundary_at_event(faulted'.trace, a) =
            instruction_boundary_at_event(faulted.trace, a)
      BY <3>2, <3>3, CountingTheSame
    <3> QED  BY <1>1, <3>1, <3>3, <3>4 DEF Parted
  <2>2. ASSUME faulted'.applied[1].word = 0
        PROVE  \E i \in 0 .. n : Alike(faulted', h[i])
    <3>1. PICK i \in 0 .. n : Alike(faulted, h[i])
      BY <1>4, <1>7, <2>2 DEF Past
    <3>2. i \in 0 .. n - 1 /\ i + 1 \in 0 .. n
      BY <1>5, <3>1 DEF Alike
    <3>3. h[i + 1] = Stepped(h[i])
      BY <1>2, <3>2 DEF IsPath
    <3>4. Alike(Stepped(faulted), Stepped(h[i]))
      BY <1>3, <3>1, AlikeSteps DEF RunsInv
    <3> QED  BY <1>1, <3>2, <3>3, <3>4
  <2>3. Past(h, n)'
    BY <1>4, <1>7, <2>1, <2>2 DEF Past
  <2> QED  BY <1>1, <1>2, <2>3, PathStays DEF PathInv, Follower
<1> QED  BY <1>2, <1>6, <1>7 DEF Follower

LEMMA PathInductive == RunsInv /\ PathInv /\ [Next]_vars => PathInv'
<1> SUFFICES ASSUME RunsInv, PathInv, [Next]_vars  PROVE PathInv'
  OBVIOUS
<1>1. CASE take_trace
  <2>1. stage = "baseline" /\ UNCHANGED <<stage, faulted>> /\ baseline'.taken
    <3>1. /\ baseline' = [baseline EXCEPT !.trace = <<>>, !.taken = TRUE]
          /\ stage = "baseline" /\ UNCHANGED <<stage, faulted>>
      BY <1>1 DEF take_trace
    <3> QED  BY <3>1 DEF RunsInv, Sound, Run
  <2> QED  BY <2>1 DEF PathInv
<1>2. CASE resolve_injection
  <2>1. /\ stage = "baseline" /\ stage' = "faulted" /\ ~baseline.taken
        /\ boundary' \in 0 .. Limit - 1
        /\ UNCHANGED <<program, baseline, faulted>>
    BY <1>2 DEF resolve_injection, Resolvable
  <2>n. PICK n \in Nat : \E h \in [0 .. n -> Run] : IsPath(h, n) /\ h[n] = baseline
    BY <2>1 DEF PathInv
  <2>2. PICK h \in [0 .. n -> Run] : IsPath(h, n) /\ h[n] = baseline
    BY <2>n
  <2>3. faulted = NewRun /\ NewRun.applied = <<>> /\ NewRun.instructions = 0
    BY <2>1 DEF PathInv, NewRun
  <2>4. 0 \in 0 .. n /\ faulted' = h[0]
    BY <2>1, <2>2, <2>3 DEF IsPath
  <2>5. 0 <= boundary'
    BY <2>1
  <2>6. Ahead(h, n)'
    BY <2>1, <2>3, <2>4, <2>5 DEF Ahead
  <2> QED  BY <2>1, <2>2, <2>6, PathStays DEF PathInv, Follower
<1>3. CASE compare
  <2>1. /\ stage = "faulted" /\ stage' = "compared" /\ Done(faulted)
        /\ reference' \in Exports(baseline.trace)
        /\ UNCHANGED <<program, case, boundary, baseline, faulted>>
    BY <1>3 DEF compare
  <2>2. Exports(baseline.trace)' = Exports(baseline.trace) /\ Done(faulted)'
    BY <2>1 DEF Done
  <2>n. PICK n \in Nat : \E h \in [0 .. n -> Run] :
        IsPath(h, n) /\ h[n] = baseline /\ Follower(h, n)
    BY <2>1 DEF PathInv, RunsInv
  <2>3. PICK h \in [0 .. n -> Run] :
        IsPath(h, n) /\ h[n] = baseline /\ Follower(h, n)
    BY <2>n
  <2>4. Follower(h, n)'
    BY <2>1, <2>3 DEF Follower, Ahead, Past, Parted
  <2> QED  BY <2>1, <2>2, <2>3, <2>4, PathStays DEF PathInv
<1>4. CASE write_json_lines
  <2>1. /\ stage = "baseline" /\ stage' = "reading"
        /\ UNCHANGED <<program, baseline, faulted>>
    BY <1>4 DEF write_json_lines
  <2> QED  BY <2>1, PathStays DEF PathInv
<1>5. CASE end_of_file \/ skip_blank \/ refuse_line \/ next_event \/ UNCHANGED vars
  <2>1. UNCHANGED <<stage, program, case, boundary, baseline, faulted, reference>>
    BY <1>5 DEF end_of_file, skip_blank, refuse_line, next_event, outside, vars
  <2>2. (stage = "compared" => Done(faulted) /\ reference \in Exports(baseline.trace))'
    BY <2>1 DEF PathInv, Done
  <2>3. ASSUME ~baseline.taken
        PROVE  \E n \in Nat : \E h \in [0 .. n -> Run'] :
                 /\ IsPath(h, n)' /\ h[n] = baseline'
                 /\ stage' \in {"faulted", "compared"} => Follower(h, n)'
    <3>n. PICK n \in Nat : \E h \in [0 .. n -> Run] :
            /\ IsPath(h, n) /\ h[n] = baseline
            /\ stage \in {"faulted", "compared"} => Follower(h, n)
      BY <2>3 DEF PathInv
    <3>1. PICK h \in [0 .. n -> Run] :
            /\ IsPath(h, n) /\ h[n] = baseline
            /\ stage \in {"faulted", "compared"} => Follower(h, n)
      BY <3>n
    <3>2. Follower(h, n)' <=> Follower(h, n)
      BY <2>1 DEF Follower, Ahead, Past, Parted
    <3> QED  BY <2>1, <3>1, <3>2, PathStays
  <2> QED  BY <2>1, <2>2, <2>3 DEF PathInv
<1> QED  BY <1>1, <1>2, <1>3, <1>4, <1>5, PathBaseline, PathFault, PathFaulted DEF Next

LEMMA PathInvariant == Spec => [](RunsInv /\ PathInv)
<1>1. RunsInv /\ PathInv /\ [Next]_vars => (RunsInv /\ PathInv)'
  BY RunsInductive, PathInductive
<1> QED  BY <1>1, RunsInitial, PathInitial, PTL DEF Spec

-----------------------------------------------------------------------------
(* The least element of a set of positions.                                *)
LEMMA LeastIsLeast ==
  ASSUME NEW D \in SUBSET Nat, D # {}
  PROVE  Least(D) \in D /\ \A j \in D : Least(D) <= j
<1> DEFINE R == OpToRel(<, Nat)
<1>1. IsWellFoundedOn(R, Nat)
  BY NatLessThanWellFounded, Zenon
<1>2. \E x \in D : \A y \in D : ~(<<y, x>> \in R)
  <2> HIDE DEF R
  <2> QED  BY <1>1, WFMin, Zenon
<1>3. PICK x \in D : \A y \in D : ~(<<y, x>> \in R)
  BY <1>2
<1>4. \A y \in D : ~(y < x)
  BY <1>3 DEF OpToRel
<1>5. \A y \in D : x <= y
  BY <1>4
<1> QED  BY <1>5 DEF Least

(* Where two sequences first differ.                                       *)
LEMMA FirstDifference ==
  ASSUME NEW S, NEW left \in Seq(S), NEW right \in Seq(S)
  PROVE  LET fd == first_difference(left, right) IN
         /\ fd = NoIndex <=> left = right
         /\ fd # NoIndex =>
              /\ fd \in Nat
              /\ \A a \in Nat : a <= Len(left) /\ a <= Len(right)
                                /\ (\A k \in 1 .. a : left[k] = right[k]) => a <= fd
<1> DEFINE s == Shorter(left, right)
           D == {k \in 1 .. s : left[k] # right[k]}
           fd == first_difference(left, right)
<1>1. /\ Len(left) \in Nat /\ Len(right) \in Nat /\ s \in Nat
      /\ s <= Len(left) /\ s <= Len(right) /\ s \in {Len(left), Len(right)}
  BY DEF Shorter
<1>2. fd = IF D # {} THEN Least(D) - 1
           ELSE IF Len(left) # Len(right) THEN s ELSE NoIndex
  BY DEF first_difference
<1>3. D \in SUBSET Nat /\ D \in SUBSET (1 .. s)
  BY <1>1
<1>4. CASE D # {}
  <2>1. Least(D) \in D /\ \A j \in D : Least(D) <= j
    <3> HIDE DEF D
    <3> QED  BY <1>3, <1>4, LeastIsLeast
  <2>2. Least(D) \in 1 .. s /\ left[Least(D)] # right[Least(D)]
    BY <2>1
  <2> DEFINE d == Least(D)
  <2> HIDE DEF d
  <2>3. fd = d - 1 /\ d \in 1 .. s /\ left[d] # right[d]
    BY <1>2, <1>4, <2>2 DEF d
  <2>4. left # right /\ fd \in Nat /\ fd # NoIndex
    BY <1>1, <2>3 DEF NoIndex
  <2>5. ASSUME NEW a \in Nat, \A k \in 1 .. a : left[k] = right[k]
        PROVE  a <= fd
    <3>1. d \notin 1 .. a
      BY <2>3, <2>5
    <3> QED  BY <1>1, <2>3, <2>5, <3>1
  <2> QED  BY <2>4, <2>5
<1>5. CASE D = {} /\ Len(left) # Len(right)
  BY <1>1, <1>2, <1>5 DEF NoIndex
<1>6. CASE D = {} /\ Len(left) = Len(right)
  <2>1. s = Len(left) /\ \A k \in 1 .. s : left[k] = right[k]
    BY <1>1, <1>6
  <2>2. left = right
    BY <1>6, <2>1
  <2> QED  BY <1>2, <1>6, <2>2
<1> QED  BY <1>4, <1>5, <1>6

(* No field that is compared differs only if the events are equal: the     *)
(* kind, which is not compared, shows in the mnemonic.                     *)
LEMMA EventsCompared ==
  ASSUME program \in Programs, NEW l \in Event, NEW r \in Event
  PROVE  DiffersIn(l, r) = {} <=> l = r
<1>1. ASSUME DiffersIn(l, r) = {}  PROVE l = r
  <2>1. DOMAIN Fields = 1 .. 13
    BY DEF Fields
  <2>2. \A k \in 1 .. 13 : Field(l, Fields[k].name) = Field(r, Fields[k].name)
    BY <1>1, <2>1 DEF DiffersIn
  <2>3. l.sequence = r.sequence
    <3>1. Fields[1].name = "sequence"
      BY DEF Fields
    <3>2. Field(l, "sequence") = l.sequence /\ Field(r, "sequence") = r.sequence
      BY DEF Field
    <3> QED  BY <2>2, <3>1, <3>2
  <2>4. l.pc = r.pc
    <3>1. Fields[2].name = "pc"
      BY DEF Fields
    <3>2. Field(l, "pc") = l.pc /\ Field(r, "pc") = r.pc
      BY DEF Field
    <3> QED  BY <2>2, <3>1, <3>2
  <2>5. l.instruction = r.instruction
    <3>1. Fields[3].name = "instruction"
      BY DEF Fields
    <3>2. Field(l, "instruction") = l.instruction /\ Field(r, "instruction") = r.instruction
      BY DEF Field
    <3> QED  BY <2>2, <3>1, <3>2
  <2>6. l.mnemonic = r.mnemonic
    <3>1. Fields[4].name = "mnemonic"
      BY DEF Fields
    <3>2. Field(l, "mnemonic") = l.mnemonic /\ Field(r, "mnemonic") = r.mnemonic
      BY DEF Field
    <3> QED  BY <2>2, <3>1, <3>2
  <2>7. l.cycle_start = r.cycle_start
    <3>1. Fields[5].name = "cycle_start"
      BY DEF Fields
    <3>2. Field(l, "cycle_start") = l.cycle_start /\ Field(r, "cycle_start") = r.cycle_start
      BY DEF Field
    <3> QED  BY <2>2, <3>1, <3>2
  <2>8. l.cycle_end = r.cycle_end
    <3>1. Fields[6].name = "cycle_end"
      BY DEF Fields
    <3>2. Field(l, "cycle_end") = l.cycle_end /\ Field(r, "cycle_end") = r.cycle_end
      BY DEF Field
    <3> QED  BY <2>2, <3>1, <3>2
  <2>10. l.before = r.before
    <3>1. Fields[8].name = "before"
      BY DEF Fields
    <3>2. Field(l, "before") = l.before /\ Field(r, "before") = r.before
      BY DEF Field
    <3> QED  BY <2>2, <3>1, <3>2
  <2>11. l.memory = r.memory
    <3>1. Fields[9].name = "memory"
      BY DEF Fields
    <3>2. Field(l, "memory") = l.memory /\ Field(r, "memory") = r.memory
      BY DEF Field
    <3> QED  BY <2>2, <3>1, <3>2
  <2>12. l.io = r.io
    <3>1. Fields[10].name = "io"
      BY DEF Fields
    <3>2. Field(l, "io") = l.io /\ Field(r, "io") = r.io
      BY DEF Field
    <3> QED  BY <2>2, <3>1, <3>2
  <2>13. l.interrupts = r.interrupts
    <3>1. Fields[11].name = "interrupts"
      BY DEF Fields
    <3>2. Field(l, "interrupts") = l.interrupts /\ Field(r, "interrupts") = r.interrupts
      BY DEF Field
    <3> QED  BY <2>2, <3>1, <3>2
  <2>15. l.after = r.after
    <3>1. Fields[13].name = "after"
      BY DEF Fields
    <3>2. Field(l, "after") = l.after /\ Field(r, "after") = r.after
      BY DEF Field
    <3> QED  BY <2>2, <3>1, <3>2
  <2>16. l.kind = r.kind
    BY <2>6, EventFields
  <2> QED  BY <2>3, <2>4, <2>5, <2>6, <2>7, <2>8, <2>10, <2>11, <2>12, <2>13, <2>15, <2>16
           DEF Event, EventAt
<1>2. l = r => DiffersIn(l, r) = {}
  BY DEF DiffersIn
<1> QED  BY <1>1, <1>2

(* The two comparisons of a result name the same event.                    *)
LEMMA TracesCompared ==
  ASSUME program \in Programs, NEW left \in Seq(Event), NEW right \in Seq(Event)
  PROVE  /\ compare_traces(left, right).event = first_difference(left, right)
         /\ compare_traces(left, right) = Same <=> left = right
<1> DEFINE s == Shorter(left, right)
           D == {k \in 1 .. s : DiffersIn(left[k], right[k]) # {}}
           E == {k \in 1 .. s : left[k] # right[k]}
           c == compare_traces(left, right)
<1>1. s \in Nat /\ s <= Len(left) /\ s <= Len(right)
  BY DEF Shorter
<1>2. ASSUME NEW k \in 1 .. s
      PROVE  DiffersIn(left[k], right[k]) = {} <=> left[k] = right[k]
  BY <1>1, EventsCompared
<1>3. D = E
  BY <1>2
<1>4. c.event = first_difference(left, right)
  <2>1. c = IF D # {}
            THEN [event |-> Least(D) - 1,
                  class |-> Fields[Least(DiffersIn(left[Least(D)], right[Least(D)]))].class]
            ELSE IF Len(left) # Len(right) THEN LengthDiffers(s) ELSE Same
    BY DEF compare_traces
  <2>2. first_difference(left, right) =
          IF E # {} THEN Least(E) - 1
          ELSE IF Len(left) # Len(right) THEN s ELSE NoIndex
    BY DEF first_difference
  <2>3. c.event = IF D # {} THEN Least(D) - 1
                  ELSE IF Len(left) # Len(right) THEN s ELSE NoIndex
    <3> HIDE DEF D, s, c
    <3> QED  BY <2>1 DEF LengthDiffers, Same
  <2> HIDE DEF D, E, s, c
  <2> QED  BY <1>3, <2>2, <2>3
<1>5. left = right => c = Same
  <2>1. ASSUME left = right  PROVE D = {} /\ Len(left) = Len(right)
    BY <1>3, <2>1
  <2> QED  BY <2>1 DEF compare_traces
<1>6. c = Same => first_difference(left, right) = NoIndex
  BY <1>4 DEF Same
<1> HIDE DEF c
<1> QED  BY <1>4, <1>5, <1>6, FirstDifference DEF c

-----------------------------------------------------------------------------
(* What is known when the runs are compared: both are complete, the fault  *)
(* has been applied, and if it changed nothing the runs are alike.         *)
LEMMA Compared ==
  ASSUME RunsInv, PathInv, stage = "compared"
  PROVE  /\ Done(baseline) /\ Done(faulted) /\ baseline.applied = <<>>
         /\ Len(faulted.applied) = 1
         /\ faulted.applied[1].word = 0 => Alike(faulted, baseline)
         /\ Parted
<1>1. Done(baseline) /\ Done(faulted) /\ boundary \in 0 .. Limit - 1
  BY DEF RunsInv, PathInv
<1>n. PICK n \in Nat : \E h \in [0 .. n -> Run] :
        IsPath(h, n) /\ h[n] = baseline /\ Follower(h, n)
  BY DEF PathInv, RunsInv
<1>2. PICK h \in [0 .. n -> Run] : IsPath(h, n) /\ h[n] = baseline /\ Follower(h, n)
  BY <1>n
<1>3. baseline.applied = <<>>
  BY <1>2 DEF IsPath
<1>4. ~Ahead(h, n)
  <2>1. faulted.instructions = Limit /\ Limit \in Nat
    BY <1>1, ExperimentAssumption DEF Done
  <2> QED  BY <1>1, <2>1 DEF Ahead
<1>5. Past(h, n)
  BY <1>2, <1>4 DEF Follower
<1>6. ASSUME NEW i \in 0 .. n, Alike(faulted, h[i])  PROVE i = n
  <2>1. h[i].instructions = Limit
    BY <1>1, <1>6 DEF Alike, Done
  <2>2. i \in 0 .. n - 1 => h[i].instructions < Limit
    BY <1>2 DEF IsPath, Runs
  <2>3. i \notin 0 .. n - 1
    BY <2>1, <2>2, ExperimentAssumption
  <2> QED  BY <2>3
<1> QED  BY <1>1, <1>2, <1>3, <1>5, <1>6 DEF Past

(* A complete run has a log, whose last event ends with the run.           *)
LEMMA CompleteLog ==
  ASSUME NEW r, Sound(r), ~r.taken, Done(r)
  PROVE  /\ r.trace # <<>>
         /\ r.cycles = r.trace[Len(r.trace)].cycle_end
<1>1. r.instructions = Limit /\ Limit # 0
  BY ExperimentAssumption DEF Done
<1>2. instruction_boundary_at_event(<<>>, 0) = 0
  BY Counting
<1>3. r.trace # <<>>
  BY <1>1, <1>2 DEF Sound, Whole
<1> QED  BY <1>3 DEF Sound, Abreast

(* What a class of outcome claims is so: a fault that was not activated    *)
(* has changed nothing at all, a masked one no register and no cycle, a    *)
(* degraded mission has lost an obligation, and a recovered run ends in    *)
(* the baseline's registers with its evidence (classify).                  *)
THEOREM OutcomesSound == Spec => []OutcomeSound
<1> SUFFICES ASSUME RunsInv, PathInv, stage = "compared"
             PROVE  /\ outcome = "NotActivated" => [faulted EXCEPT !.applied = <<>>] = baseline
                    /\ outcome = "Masked" =>
                         LastAfter(faulted.trace) = LastAfter(baseline.trace)
                           /\ faulted.cycles = baseline.cycles
                    /\ outcome = "MissionDegraded" => baseline.met \ faulted.met # {}
                    /\ outcome = "Recovered" =>
                         /\ first_divergence # NoIndex
                         /\ LastAfter(faulted.trace) = LastAfter(baseline.trace)
                         /\ faulted.met = baseline.met /\ faulted.writes = baseline.writes
  <2>1. RunsInv /\ PathInv => OutcomeSound
    BY DEF OutcomeSound
  <2> QED  BY <2>1, PathInvariant, PTL
<1>1. /\ Sound(baseline) /\ Sound(faulted) /\ ~baseline.taken /\ ~faulted.taken
      /\ Done(baseline) /\ Done(faulted) /\ baseline \in Run /\ faulted \in Run
      /\ baseline.trace \in Seq(Event) /\ faulted.trace \in Seq(Event)
      /\ program \in Programs
  BY DEF RunsInv, PathInv, Sound, Run, Trace
<1>2. /\ equivalent <=> baseline.trace = faulted.trace
      /\ first_divergence = NoIndex <=> baseline.trace = faulted.trace
  BY <1>1, TracesCompared, FirstDifference
     DEF equivalent, trace_comparison, first_divergence
<1>3. ASSUME outcome = "NotActivated"
      PROVE  [faulted EXCEPT !.applied = <<>>] = baseline
  <2>1. ~fault_target_activated(faulted.applied)
    BY <1>3 DEF outcome
  <2>2. 1 \in DOMAIN faulted.applied
    <3>1. Len(faulted.applied) = 1 /\ faulted.applied \in Applied
      BY <1>1, Compared DEF Run
    <3> QED  BY <3>1 DEF Applied
  <2>3. faulted.applied[1].word = 0
    BY <2>1, <2>2 DEF fault_target_activated
  <2>4. Alike(faulted, baseline) /\ baseline.applied = <<>>
    BY <2>3, Compared
  <2> DEFINE f == [faulted EXCEPT !.applied = <<>>]
  <2>5. <<>> \in Applied
    BY DEF Applied
  <2>6. /\ f \in Run /\ f.core = faulted.core /\ f.cycles = faulted.cycles
        /\ f.instructions = faulted.instructions
        /\ f.trace_sequence = faulted.trace_sequence /\ f.trace = faulted.trace
        /\ f.taken = faulted.taken /\ f.failed = faulted.failed /\ f.applied = <<>>
        /\ f.met = faulted.met /\ f.first_met = faulted.first_met
        /\ f.writes = faulted.writes
    BY ONLY <1>1, <2>5 DEF Run
  <2> HIDE DEF f
  <2>7. f = baseline
    BY <1>1, <2>4, <2>6, SameRun DEF Alike
  <2> QED  BY <2>7 DEF f
<1>4. ASSUME outcome = "Masked"
      PROVE  /\ LastAfter(faulted.trace) = LastAfter(baseline.trace)
             /\ faulted.cycles = baseline.cycles
  <2>1. equivalent
    BY <1>4 DEF outcome
  <2>2. baseline.trace = faulted.trace
    BY <1>2, <2>1
  <2> QED  BY <1>1, <2>2, CompleteLog DEF LastAfter
<1>5. ASSUME outcome = "MissionDegraded"  PROVE baseline.met \ faulted.met # {}
  <2>1. Cardinality(faulted.met) < Cardinality(baseline.met)
    BY <1>5 DEF outcome
  <2>2. IsFiniteSet(faulted.met) /\ IsFiniteSet(baseline.met)
    BY <1>1 DEF Run, Met
  <2>3. Cardinality(faulted.met) \in Nat /\ Cardinality(baseline.met) \in Nat
    BY <2>2, FS_CardinalityType
  <2>4. baseline.met \in SUBSET faulted.met => Cardinality(baseline.met) <= Cardinality(faulted.met)
    BY <2>2, FS_Subset
  <2> QED  BY <2>1, <2>3, <2>4
<1>6. ASSUME outcome = "Recovered"
      PROVE  /\ first_divergence # NoIndex
             /\ LastAfter(faulted.trace) = LastAfter(baseline.trace)
             /\ faulted.met = baseline.met /\ faulted.writes = baseline.writes
  <2>1. ~equivalent /\ acceptance_differences = {} /\ registers_recovered
    BY <1>6 DEF outcome
  <2>2. baseline["met"] = faulted["met"] /\ baseline["writes"] = faulted["writes"]
    BY <2>1 DEF acceptance_differences
  <2> QED  BY <1>2, <2>1, <2>2 DEF registers_recovered
<1> QED  BY <1>3, <1>4, <1>5, <1>6

-----------------------------------------------------------------------------
(* A row of the oracle that is exact but for its cycle and its A register  *)
(* is accepted only if it is exact.                                        *)
Row(e, x, y) ==
  [kind |-> e.kind, pc |-> e.pc, instruction |-> e.instruction, cycle |-> x, a |-> y,
   bank |-> (IF e.kind = "instruction" THEN e.before ELSE e.after).bank,
   interrupts |-> IF e.kind = "instruction" THEN {} ELSE Entered(e)]
LEMMA RowsCompared ==
  ASSUME program \in Programs, NEW e \in Event, NEW x \in Int, NEW y
  PROVE  compare_yaagc_event(e, Row(e, x, y)) = "None" <=> Exported(e) = Row(e, x, y)
<1>1. e.kind \in {"instruction", "interrupt-entry"} /\ e.cycle_end \in Nat
  BY EventFields
<1>2. CASE e.kind = "instruction"
  BY <1>1, <1>2 DEF compare_yaagc_event, expected_cycle, Exported, Row
<1>3. CASE e.kind = "interrupt-entry"
  BY <1>1, <1>3 DEF compare_yaagc_event, expected_cycle, Exported, Row
<1> QED  BY <1>1, <1>2, <1>3

LEMMA ExportedIsRow ==
  ASSUME program \in Programs, NEW e \in Event
  PROVE  /\ Exported(e).cycle \in Int
         /\ Exported(e) = Row(e, Exported(e).cycle, Exported(e).a)
         /\ [Exported(e) EXCEPT !.a = @ + 1] = Row(e, Exported(e).cycle, Exported(e).a + 1)
         /\ [Exported(e) EXCEPT !.cycle = @ + 1] = Row(e, Exported(e).cycle + 1, Exported(e).a)
<1>1. e.cycle_end \in Nat
  BY EventFields
<1>2. Exported(e).cycle \in Int
  BY <1>1 DEF Exported
<1>3. Exported(e) = Row(e, Exported(e).cycle, Exported(e).a)
  BY DEF Exported, Row
<1> DEFINE c == Exported(e).cycle
           a == Exported(e).a
<1> HIDE DEF c, a
<1>4. Exported(e) = Row(e, c, a)
  BY <1>3 DEF c, a
<1>5. [Row(e, c, a) EXCEPT !.a = @ + 1] = Row(e, c, a + 1)
  BY DEF Row
<1>6. [Row(e, c, a) EXCEPT !.cycle = @ + 1] = Row(e, c + 1, a)
  BY DEF Row
<1> QED  BY <1>2, <1>3, <1>4, <1>5, <1>6 DEF c, a

(* Every row that is exported is such a row of its event.                  *)
LEMMA ExportsAreRows ==
  ASSUME program \in Programs, NEW log \in Seq(Event), log # <<>>,
         NEW rows \in Exports(log)
  PROVE  /\ Len(rows) \in Nat
         /\ Len(rows) <= Len(log)
         /\ \A k \in 1 .. Len(rows) : \E x \in Int : \E y : rows[k] = Row(log[k], x, y)
<1> DEFINE n == Len(log)
           exact == Exact(log)
           R == {Exported(e) : e \in Event}
           IsRow(r, k) == \E x \in Int : \E y : r = Row(log[k], x, y)
<1>1. n \in Nat /\ n >= 1 /\ DOMAIN log = 1 .. n
  OBVIOUS
<1>2. exact = [k \in 1 .. n |-> Exported(log[k])]
  BY <1>1 DEF Exact
<1>3. /\ exact \in Seq(R) /\ Len(exact) = n /\ DOMAIN exact = 1 .. n
      /\ \A k \in 1 .. n : exact[k] = Exported(log[k])
  BY <1>1, <1>2
<1>4. ASSUME NEW k \in 1 .. n
      PROVE  /\ IsRow(exact[k], k)
             /\ IsRow([exact[k] EXCEPT !.a = @ + 1], k)
             /\ IsRow([exact[k] EXCEPT !.cycle = @ + 1], k)
  <2> DEFINE e == log[k]
             c == Exported(e).cycle
             a == Exported(e).a
  <2>1. e \in Event /\ exact[k] = Exported(e)
    BY <1>1, <1>3
  <2> HIDE DEF e
  <2>2. /\ c \in Int
        /\ Exported(e) = Row(e, c, a)
        /\ [Exported(e) EXCEPT !.a = @ + 1] = Row(e, c, a + 1)
        /\ [Exported(e) EXCEPT !.cycle = @ + 1] = Row(e, c + 1, a)
    BY ONLY program \in Programs, <2>1, ExportedIsRow
  <2> HIDE DEF c, a
  <2>3. c + 1 \in Int
    BY <2>2
  <2> QED  BY ONLY <2>1, <2>2, <2>3 DEF e
<1> HIDE DEF exact, IsRow
<1>5. CASE rows = exact
  BY <1>1, <1>3, <1>4, <1>5 DEF IsRow
<1>6. CASE rows = SubSeq(exact, 1, Len(exact) - 1)
  <2>1. /\ Len(rows) = n - 1
        /\ \A k \in 1 .. n - 1 : rows[k] = exact[k]
    BY <1>1, <1>3, <1>6
  <2>2. ASSUME NEW k \in 1 .. Len(rows)  PROVE IsRow(rows[k], k)
    <3>1. k \in 1 .. n /\ rows[k] = exact[k]
      BY <1>1, <2>1
    <3> QED  BY <1>4, <3>1
  <2> QED  BY <1>1, <2>1, <2>2 DEF IsRow
<1>7. ASSUME NEW k \in 1 .. n, NEW r, IsRow(r, k), rows = [exact EXCEPT ![k] = r]
      PROVE  /\ Len(rows) = n
             /\ \A j \in 1 .. n : IsRow(rows[j], j)
  <2>1. DOMAIN rows = 1 .. n /\ rows \in [1 .. n -> R \cup {r}]
    BY <1>3, <1>7
  <2>2. Len(rows) = n
    BY <1>1, <2>1
  <2>3. ASSUME NEW j \in 1 .. n  PROVE IsRow(rows[j], j)
    BY <1>3, <1>4, <1>7
  <2> QED  BY <2>2, <2>3
<1>8. CASE \E k \in DOMAIN exact : rows = [exact EXCEPT ![k].a = @ + 1]
  <2>1. PICK k \in 1 .. n : rows = [exact EXCEPT ![k] = [exact[k] EXCEPT !.a = @ + 1]]
    BY <1>3, <1>8
  <2> DEFINE r == [exact[k] EXCEPT !.a = @ + 1]
  <2>2. IsRow(r, k) /\ rows = [exact EXCEPT ![k] = r]
    BY <1>4, <2>1
  <2> HIDE DEF r
  <2>3. /\ Len(rows) = n
        /\ \A j \in 1 .. n : IsRow(rows[j], j)
    BY ONLY <1>7, <2>2
  <2> QED  BY <1>1, <2>3 DEF IsRow
<1>9. CASE \E k \in DOMAIN exact : rows = [exact EXCEPT ![k].cycle = @ + 1]
  <2>1. PICK k \in 1 .. n : rows = [exact EXCEPT ![k] = [exact[k] EXCEPT !.cycle = @ + 1]]
    BY <1>3, <1>9
  <2> DEFINE r == [exact[k] EXCEPT !.cycle = @ + 1]
  <2>2. IsRow(r, k) /\ rows = [exact EXCEPT ![k] = r]
    BY <1>4, <2>1
  <2> HIDE DEF r
  <2>3. /\ Len(rows) = n
        /\ \A j \in 1 .. n : IsRow(rows[j], j)
    BY ONLY <1>7, <2>2
  <2> QED  BY <1>1, <2>3 DEF IsRow
<1>10. \/ rows = exact \/ rows = SubSeq(exact, 1, Len(exact) - 1)
       \/ \E k \in DOMAIN exact : rows = [exact EXCEPT ![k].a = @ + 1]
       \/ \E k \in DOMAIN exact : rows = [exact EXCEPT ![k].cycle = @ + 1]
  BY DEF Exports, exact
<1> QED  BY <1>5, <1>6, <1>8, <1>9, <1>10

(* The comparison with yaAGC accepts a trace exactly when every exported   *)
(* row is that of the trace, and says how many rows are.                   *)
LEMMA ReferenceCompared ==
  ASSUME program \in Programs, NEW log \in Seq(Event), log # <<>>,
         NEW rows \in Exports(log), NEW allowed \in BOOLEAN
  PROVE  LET report == compare_yaagc_reference(log, rows, allowed)
             shared == Shorter(log, rows)
             agree == first_difference(Exact(log), rows)
         IN  /\ report.first = Same <=>
                  agree = NoIndex \/ (allowed /\ agree = shared)
             /\ agree # NoIndex => report.matched_events = agree
<1> DEFINE exact == Exact(log)
           shared == Shorter(log, rows)
           agree == first_difference(exact, rows)
           report == compare_yaagc_reference(log, rows, allowed)
           D == {k \in 1 .. shared : compare_yaagc_event(log[k], rows[k]) # "None"}
           E == {k \in 1 .. shared : exact[k] # rows[k]}
<1>1. /\ Len(log) \in Nat /\ Len(rows) \in Nat /\ shared \in Nat
      /\ shared <= Len(log) /\ shared <= Len(rows) /\ DOMAIN log = 1 .. Len(log)
  BY ExportsAreRows DEF Shorter
<1>2. /\ Len(exact) = Len(log)
      /\ \A k \in 1 .. Len(log) : exact[k] = Exported(log[k])
  BY <1>1 DEF Exact
<1>3. shared = Shorter(exact, rows)
  BY <1>2 DEF Shorter
<1>4. D = E
  <2>1. ASSUME NEW k \in 1 .. shared
        PROVE  compare_yaagc_event(log[k], rows[k]) = "None" <=> exact[k] = rows[k]
    <3>1. k \in 1 .. Len(log) /\ k \in 1 .. Len(rows) /\ log[k] \in Event
      BY <1>1
    <3>2. PICK x \in Int : \E y : rows[k] = Row(log[k], x, y)
      BY <3>1, ExportsAreRows
    <3>3. PICK y : rows[k] = Row(log[k], x, y)
      BY <3>2
    <3> QED  BY <1>2, <3>1, <3>3, RowsCompared
  <2> QED  BY <2>1
<1>5. agree = IF E # {} THEN Least(E) - 1
              ELSE IF Len(log) # Len(rows) THEN shared ELSE NoIndex
  BY <1>2, <1>3 DEF first_difference
<1>6. /\ report.first =
           IF D # {}
           THEN [event |-> Least(D) - 1,
                 class |-> compare_yaagc_event(log[Least(D)], rows[Least(D)])]
           ELSE IF Len(log) # Len(rows) /\ ~allowed THEN LengthDiffers(shared) ELSE Same
      /\ report.matched_events = IF D = {} THEN shared ELSE Least(D) - 1
  BY DEF compare_yaagc_reference
<1>7. D # {} => Least(D) \in 1 .. shared
  <2>1. D \in SUBSET Nat /\ D \in SUBSET (1 .. shared)
    BY <1>1
  <2> HIDE DEF D
  <2> QED  BY <2>1, LeastIsLeast
<1> HIDE DEF D, E, report, agree, shared, exact
<1>8. CASE D # {}
  <2>1. Least(D) - 1 \in Nat /\ Least(D) - 1 < shared
    BY <1>1, <1>7, <1>8
  <2>2. report.first # Same
    BY <1>6, <1>8, <2>1 DEF Same, NoIndex
  <2>3. agree = Least(D) - 1
    BY <1>4, <1>5, <1>8
  <2>4. agree # NoIndex /\ agree # shared /\ report.matched_events = agree
    BY <1>1, <1>6, <1>8, <2>1, <2>3 DEF NoIndex
  <2> QED  BY <2>2, <2>4 DEF report, agree, shared, exact
<1>9. CASE D = {}
  <2>1. agree = IF Len(log) # Len(rows) THEN shared ELSE NoIndex
    BY <1>4, <1>5, <1>9
  <2>2. report.matched_events = shared
    BY <1>6, <1>9
  <2>3. report.first = Same <=> ~(Len(log) # Len(rows) /\ ~allowed)
    BY <1>1, <1>6, <1>9 DEF Same, LengthDiffers, NoIndex
  <2>4. shared # NoIndex
    BY <1>1 DEF NoIndex
  <2> QED  BY <2>1, <2>2, <2>3, <2>4 DEF report, agree, shared, exact
<1> QED  BY <1>8, <1>9

(* No run differs before its fault, so the reported latency is exact; the  *)
(* two comparisons that a result carries name the same event; and the      *)
(* comparison with yaAGC accepts a trace exactly when every exported row   *)
(* is that of the trace (run_luminary_p63_fault_matrix,                    *)
(* compare_yaagc_reference).                                               *)
THEOREM VerdictsHold == Spec => []VerdictsSound
<1> SUFFICES ASSUME RunsInv, PathInv, stage = "compared"
             PROVE  /\ trace_comparison.event = first_divergence
                    /\ ~equivalent =>
                         instruction_boundary_at_event(faulted.trace, first_divergence)
                           >= boundary
                    /\ \A allowed \in BOOLEAN :
                         LET report == compare_yaagc_reference(baseline.trace, reference,
                                                               allowed)
                             shared == Shorter(baseline.trace, reference)
                             agree == first_difference(Exact(baseline.trace), reference)
                         IN  /\ report.first = Same <=>
                                  agree = NoIndex \/ (allowed /\ agree = shared)
                             /\ agree # NoIndex => report.matched_events = agree
  <2>1. RunsInv /\ PathInv => VerdictsSound
    BY DEF VerdictsSound
  <2> QED  BY <2>1, PathInvariant, PTL
<1>1. /\ Sound(baseline) /\ Sound(faulted) /\ ~baseline.taken /\ Done(baseline)
      /\ baseline.trace \in Seq(Event) /\ faulted.trace \in Seq(Event)
      /\ program \in Programs /\ reference \in Exports(baseline.trace)
      /\ boundary \in 0 .. Limit - 1
  BY DEF RunsInv, PathInv, Sound, Run, Trace
<1>2. /\ trace_comparison.event = first_divergence
      /\ equivalent <=> baseline.trace = faulted.trace
  BY <1>1, TracesCompared DEF equivalent, trace_comparison, first_divergence
<1>3. ASSUME ~equivalent
      PROVE  instruction_boundary_at_event(faulted.trace, first_divergence) >= boundary
  <2>1. PICK a \in 0 .. Len(baseline.trace) :
          /\ a <= Len(faulted.trace)
          /\ \A k \in 1 .. a : faulted.trace[k] = baseline.trace[k]
          /\ instruction_boundary_at_event(faulted.trace, a) >= boundary
    BY Compared DEF Parted
  <2>2. a \in Nat /\ a <= Len(baseline.trace)
    BY <1>1
  <2> DEFINE fd == first_difference(baseline.trace, faulted.trace)
  <2>3. fd \in Nat /\ a <= fd
    BY <1>1, <1>2, <1>3, <2>1, <2>2, FirstDifference
  <2>4. fd = first_divergence
    BY DEF first_divergence
  <2> HIDE DEF fd
  <2>5. instruction_boundary_at_event(faulted.trace, a)
          <= instruction_boundary_at_event(faulted.trace, fd)
    BY <2>2, <2>3, CountingFurther
  <2>6. /\ instruction_boundary_at_event(faulted.trace, a) \in Nat
        /\ instruction_boundary_at_event(faulted.trace, fd) \in Nat /\ boundary \in Int
    BY <1>1, <2>2, <2>3, Counting, ExperimentAssumption
  <2>7. instruction_boundary_at_event(faulted.trace, fd) >= boundary
    BY ONLY <2>1, <2>5, <2>6
  <2> QED  BY <2>4, <2>7
<1>4. baseline.trace # <<>>
  BY <1>1, CompleteLog
<1> QED  BY <1>1, <1>2, <1>3, <1>4, ReferenceCompared
-----------------------------------------------------------------------------
(***************************************************************************)
(* The coverage of the log that was read.                                  *)
(***************************************************************************)
CoverageFields ==
  {"total_events", "instruction_events", "interrupt_entries", "first_cycle", "last_cycle",
   "physical_fetches", "forms", "memory_fetches", "memory_reads", "memory_writes",
   "banks", "registers", "offsets", "channels", "interrupts", "bank_words"}
Accumulator(c) == c = [f \in CoverageFields |-> c[f]]

(* Sets without a common element add up.                                   *)
LEMMA Disjoint ==
  ASSUME NEW S, IsFiniteSet(S), NEW T, IsFiniteSet(T), S \cap T = {}
  PROVE  IsFiniteSet(S \cup T) /\ Cardinality(S \cup T) = Cardinality(S) + Cardinality(T)
<1>1. /\ IsFiniteSet(S \cup T)
      /\ Cardinality(S \cup T) = Cardinality(S) + Cardinality(T) - Cardinality(S \cap T)
  BY FS_Union
<1>2. Cardinality(S \cap T) = 0
  BY FS_EmptySet
<1>3. Cardinality(S) \in Nat /\ Cardinality(T) \in Nat
  BY FS_CardinalityType
<1> QED  BY <1>1, <1>2, <1>3

(* Distinct values of a function are as many as its arguments.             *)
LEMMA Distinct ==
  ASSUME NEW S, IsFiniteSet(S), NEW F, F = [k \in S |-> F[k]],
         \A j, k \in S : F[j] = F[k] => j = k
  PROVE  /\ IsFiniteSet({F[k] : k \in S})
         /\ Cardinality({F[k] : k \in S}) = Cardinality(S)
<1> DEFINE T == {F[k] : k \in S}
<1>1. F \in [S -> T]
  OBVIOUS
<1>2. F \in Injection(S, T)
  BY <1>1 DEF Injection, IsInjective
<1>3. F \in Surjection(S, T)
  BY <1>1 DEF Surjection
<1>4. ExistsBijection(S, T)
  BY <1>2, <1>3 DEF ExistsBijection, Bijection
<1> QED  BY <1>4, FS_Bijection

(* What an event gives to be counted.                                      *)
LEMMA EventCounts ==
  ASSUME program \in Programs, NEW e \in Event
  PROVE  /\ IsFiniteSet(DOMAIN e.memory) /\ IsFiniteSet(e.interrupts)
         /\ \A k \in DOMAIN e.memory :
              e.memory[k].kind \in {"fetch", "read", "write"} /\ Physical(e.memory[k].physical)
         /\ Cardinality(Accesses(e, "fetch")) = 1
         /\ Cardinality({i \in e.interrupts : i.action = "entered"})
              = IF e.kind = "interrupt-entry" THEN 1 ELSE 0
         /\ e.kind \in {"instruction", "interrupt-entry"}
<1>1. PICK n \in Nat, c \in DOMAIN program, t \in Nat : e = EventAt(n, c, t)
  BY DEF Event
<1>2. e.memory = program[c].memory /\ e.interrupts = program[c].interrupts
      /\ e.kind = program[c].kind
  BY <1>1 DEF EventAt
<1> DEFINE M == program[c].memory
           I == program[c].interrupts
<1>3. /\ IsFiniteSet(DOMAIN M) /\ IsFiniteSet(I)
      /\ \A k \in DOMAIN M :
           M[k].kind \in {"fetch", "read", "write"} /\ Physical(M[k].physical)
      /\ Cardinality({k \in DOMAIN M : M[k].kind = "fetch"}) = 1
      /\ Cardinality({i \in I : i.action = "entered"})
           = IF program[c].kind = "interrupt-entry" THEN 1 ELSE 0
      /\ program[c].kind \in {"instruction", "interrupt-entry"}
  <2>1. Machine(program)
    BY ExperimentAssumption
  <2> QED  BY <2>1, Zenon DEF Machine
<1>4. e.memory = M /\ e.interrupts = I
  BY <1>2
<1> HIDE DEF M, I
<1> QED  BY <1>2, <1>3, <1>4 DEF Accesses

(* Each access of an event has one kind and is of a register or a bank.    *)
LEMMA AccessesCounted ==
  ASSUME program \in Programs, NEW e \in Event
  PROVE  /\ \A kind \in {"fetch", "read", "write"} :
              Cardinality(Accesses(e, kind)) \in Nat
         /\ IsFiniteSet(InBanks(e)) /\ IsFiniteSet(InRegisters(e))
         /\ Cardinality(InBanks(e)) + Cardinality(InRegisters(e)) =
              Cardinality(Accesses(e, "fetch")) + Cardinality(Accesses(e, "read"))
                + Cardinality(Accesses(e, "write"))
<1> DEFINE D == DOMAIN e.memory
           F == Accesses(e, "fetch")
           R == Accesses(e, "read")
           W == Accesses(e, "write")
           B == InBanks(e)
           G == InRegisters(e)
<1>1. IsFiniteSet(D)
  BY EventCounts
<1>2. F \in SUBSET D /\ R \in SUBSET D /\ W \in SUBSET D /\ B \in SUBSET D /\ G \in SUBSET D
  BY DEF Accesses, InBanks, InRegisters
<1>3. D = B \cup G /\ B \cap G = {}
  BY <1>2 DEF InBanks
<1>4. D = (F \cup R) \cup W /\ F \cap R = {} /\ (F \cup R) \cap W = {}
  <2>1. \A k \in D : e.memory[k].kind \in {"fetch", "read", "write"}
    BY EventCounts
  <2> QED  BY <2>1 DEF Accesses
<1> HIDE DEF D, F, R, W, B, G
<1>5. IsFiniteSet(F) /\ IsFiniteSet(R) /\ IsFiniteSet(W) /\ IsFiniteSet(B) /\ IsFiniteSet(G)
  BY <1>1, <1>2, FS_Subset
<1>6. Cardinality(D) = Cardinality(B) + Cardinality(G)
  BY <1>3, <1>5, Disjoint
<1>7. IsFiniteSet(F \cup R) /\ Cardinality(F \cup R) = Cardinality(F) + Cardinality(R)
  BY <1>4, <1>5, Disjoint
<1>8. Cardinality(D) = Cardinality(F \cup R) + Cardinality(W)
  BY <1>4, <1>5, <1>7, Disjoint
<1>9. Cardinality(F) \in Nat /\ Cardinality(R) \in Nat /\ Cardinality(W) \in Nat
  BY <1>5, FS_CardinalityType
<1> QED  BY <1>5, <1>6, <1>7, <1>8, <1>9 DEF F, R, W, B, G

(* What an event adds to the counts of accesses.                           *)
OfRegisters(e, n) ==
  {<<n, k, e.memory[k].physical.offset, Direction(e.memory[k])>> : k \in InRegisters(e)}
OfBanks(e, n) ==
  {<<n, k, Region(e.memory[k].physical), e.memory[k].kind>> : k \in InBanks(e)}
OffsetsOf(e) ==
  {<<Region(e.memory[k].physical), e.memory[k].physical.offset>> : k \in InBanks(e)}

(* What one event adds to each count.                                      *)
Added(c, e, o) ==
  LET n == c.total_events + 1
      entry == e.kind = "interrupt-entry"
  IN  /\ Accumulator(o)
      /\ o.total_events = n
      /\ o.instruction_events = IF entry THEN c.instruction_events ELSE c.instruction_events + 1
      /\ o.interrupt_entries = IF entry THEN c.interrupt_entries + 1 ELSE c.interrupt_entries
      /\ o.first_cycle = IF c.first_cycle = NoIndex THEN e.cycle_start ELSE c.first_cycle
      /\ o.last_cycle = e.cycle_end
      /\ o.physical_fetches = IF entry THEN c.physical_fetches
                              ELSE c.physical_fetches \cup {<<n, FetchOf(e)>>}
      /\ o.forms = IF entry THEN c.forms
                   ELSE c.forms \cup {<<n, e.mnemonic, e.cycle_end - e.cycle_start>>}
      /\ o.memory_fetches = c.memory_fetches + Cardinality(Accesses(e, "fetch"))
      /\ o.memory_reads = c.memory_reads + Cardinality(Accesses(e, "read"))
      /\ o.memory_writes = c.memory_writes + Cardinality(Accesses(e, "write"))
      /\ o.registers = c.registers \cup OfRegisters(e, n)
      /\ o.banks = c.banks \cup OfBanks(e, n)
      /\ o.offsets = c.offsets \cup OffsetsOf(e)
      /\ o.interrupts = c.interrupts \cup ({n} \X e.interrupts)

LEMMA EventAdded ==
  ASSUME NEW c, Accumulator(c), NEW e
  PROVE  Added(c, e, observe_event(c, e))
<1> DEFINE n == c.total_events + 1
           first == IF c.first_cycle = NoIndex THEN e.cycle_start ELSE c.first_cycle
           words == c.bank_words \cup {e.before.bank, e.after.bank}
           io == c.channels \cup ({n} \X e.io)
           entered == c.interrupts \cup ({n} \X e.interrupts)
           d == [c EXCEPT !.total_events = n, !.last_cycle = e.cycle_end,
                          !.first_cycle = first, !.bank_words = words,
                          !.channels = io, !.interrupts = entered]
           i == observe_instruction(d, e)
           o == observe_memory(i, e)
           fetch == <<n, FetchOf(e)>>
           form == <<n, e.mnemonic, e.cycle_end - e.cycle_start>>
           entry == e.kind = "interrupt-entry"
<1>1. observe_event(c, e) = o
  BY DEF observe_event
<1> HIDE DEF n, first, words, io, entered
<1>2. /\ Accumulator(d)
      /\ d.total_events = n /\ d.last_cycle = e.cycle_end /\ d.first_cycle = first
      /\ d.interrupts = entered
      /\ d.instruction_events = c.instruction_events
      /\ d.interrupt_entries = c.interrupt_entries
      /\ d.physical_fetches = c.physical_fetches /\ d.forms = c.forms
      /\ d.memory_fetches = c.memory_fetches /\ d.memory_reads = c.memory_reads
      /\ d.memory_writes = c.memory_writes
      /\ d.registers = c.registers /\ d.banks = c.banks /\ d.offsets = c.offsets
  BY DEF Accumulator, CoverageFields
<1> HIDE DEF d
<1>3. /\ i = IF entry THEN [d EXCEPT !.interrupt_entries = d.interrupt_entries + 1]
             ELSE [d EXCEPT !.instruction_events = d.instruction_events + 1,
                            !.physical_fetches = d.physical_fetches \cup {fetch},
                            !.forms = d.forms \cup {form}]
  BY <1>2 DEF observe_instruction
<1> HIDE DEF i, fetch, form, entry
<1>4. /\ Accumulator(i)
      /\ i.total_events = n /\ i.last_cycle = e.cycle_end /\ i.first_cycle = first
      /\ i.interrupts = entered
      /\ i.instruction_events = IF entry THEN d.instruction_events ELSE d.instruction_events + 1
      /\ i.interrupt_entries = IF entry THEN d.interrupt_entries + 1 ELSE d.interrupt_entries
      /\ i.physical_fetches = IF entry THEN d.physical_fetches
                              ELSE d.physical_fetches \cup {fetch}
      /\ i.forms = IF entry THEN d.forms ELSE d.forms \cup {form}
      /\ i.memory_fetches = d.memory_fetches /\ i.memory_reads = d.memory_reads
      /\ i.memory_writes = d.memory_writes
      /\ i.registers = d.registers /\ i.banks = d.banks /\ i.offsets = d.offsets
  BY <1>2, <1>3 DEF Accumulator, CoverageFields
<1> DEFINE At(k) == e.memory[k].physical
           fetches == i.memory_fetches + Cardinality(Accesses(e, "fetch"))
           reads == i.memory_reads + Cardinality(Accesses(e, "read"))
           writes == i.memory_writes + Cardinality(Accesses(e, "write"))
           registers == i.registers \cup
             {<<i.total_events, k, At(k).offset, Direction(e.memory[k])>> : k \in InRegisters(e)}
           banks == i.banks \cup
             {<<i.total_events, k, Region(At(k)), e.memory[k].kind>> : k \in InBanks(e)}
           offsets == i.offsets \cup {<<Region(At(k)), At(k).offset>> : k \in InBanks(e)}
<1>5. o = [i EXCEPT !.memory_fetches = fetches, !.memory_reads = reads,
                    !.memory_writes = writes, !.registers = registers, !.banks = banks,
                    !.offsets = offsets]
  BY DEF observe_memory
<1> HIDE DEF o, fetches, reads, writes, registers, banks, offsets
<1>6. /\ Accumulator(o)
      /\ o.total_events = i.total_events /\ o.last_cycle = i.last_cycle
      /\ o.first_cycle = i.first_cycle /\ o.interrupts = i.interrupts
      /\ o.instruction_events = i.instruction_events
      /\ o.interrupt_entries = i.interrupt_entries
      /\ o.physical_fetches = i.physical_fetches /\ o.forms = i.forms
      /\ o.memory_fetches = fetches /\ o.memory_reads = reads /\ o.memory_writes = writes
      /\ o.registers = registers /\ o.banks = banks /\ o.offsets = offsets
  BY <1>4, <1>5 DEF Accumulator, CoverageFields
<1>7. /\ registers = c.registers \cup OfRegisters(e, n)
      /\ banks = c.banks \cup OfBanks(e, n)
      /\ offsets = c.offsets \cup OffsetsOf(e)
  BY <1>2, <1>4 DEF registers, banks, offsets, OfRegisters, OfBanks, OffsetsOf
<1> QED  BY <1>1, <1>2, <1>4, <1>6, <1>7
         DEF Added, n, first, entered, entry, fetch, form, fetches, reads, writes

(* The counts of n events: what was counted is told apart by the event,    *)
(* and every rope fetch is an access of its bank.                          *)
Counted(S, n) == IsFiniteSet(S) /\ \A x \in S : x[1] \in 1 .. n
CountsAgree(c) ==
  /\ c.total_events \in Nat
  /\ c.instruction_events \in Nat /\ c.interrupt_entries \in Nat
  /\ c.memory_fetches \in Nat /\ c.memory_reads \in Nat /\ c.memory_writes \in Nat
  /\ Counted(c.physical_fetches, c.total_events) /\ Counted(c.forms, c.total_events)
  /\ Counted(c.banks, c.total_events) /\ Counted(c.registers, c.total_events)
  /\ Counted(c.interrupts, c.total_events)
  /\ IsFiniteSet(c.offsets)
  /\ c.instruction_events + c.interrupt_entries = c.total_events
  /\ Cardinality(c.physical_fetches) = c.instruction_events
  /\ Cardinality(c.forms) = c.instruction_events
  /\ c.memory_fetches = c.total_events
  /\ Cardinality(c.banks) + Cardinality(c.registers) = memory_operations(c)
  /\ entries_seen(c) = c.interrupt_entries
  /\ \A x \in c.physical_fetches :
       Physical(x[2]) /\ (x[2].region = "F" => <<Region(x[2]), x[2].offset>> \in c.offsets)

(* What the next event gives is counted beside what was.                   *)
LEMMA CountedBeside ==
  ASSUME NEW n \in Nat, NEW S, Counted(S, n), NEW T, IsFiniteSet(T), \A x \in T : x[1] = n + 1
  PROVE  /\ Counted(S \cup T, n + 1)
         /\ Cardinality(S \cup T) = Cardinality(S) + Cardinality(T)
<1>1. S \cap T = {}
  <2> SUFFICES ASSUME NEW x \in S, x \in T  PROVE FALSE
    OBVIOUS
  <2>1. x[1] \in 1 .. n /\ x[1] = n + 1
    BY DEF Counted
  <2> QED  BY <2>1
<1>2. \A x \in S \cup T : x[1] \in 1 .. n + 1
  <2> SUFFICES ASSUME NEW x \in S \cup T  PROVE x[1] \in 1 .. n + 1
    OBVIOUS
  <2>1. CASE x \in S
    <3>1. x[1] \in 1 .. n
      BY <2>1 DEF Counted
    <3> QED  BY <3>1
  <2>2. CASE x \in T
    <3>1. x[1] = n + 1
      BY <2>2
    <3> QED  BY <3>1
  <2> QED  BY <2>1, <2>2
<1> QED  BY <1>1, <1>2, Disjoint DEF Counted

(* Events and accesses, the first number apart, as many as their keys.     *)
LEMMA AccessesAdded ==
  ASSUME program \in Programs, NEW e \in Event, NEW n
  PROVE  /\ IsFiniteSet(OfRegisters(e, n))
         /\ Cardinality(OfRegisters(e, n)) = Cardinality(InRegisters(e))
         /\ \A x \in OfRegisters(e, n) : x[1] = n
         /\ IsFiniteSet(OfBanks(e, n)) /\ Cardinality(OfBanks(e, n)) = Cardinality(InBanks(e))
         /\ \A x \in OfBanks(e, n) : x[1] = n
         /\ IsFiniteSet(OffsetsOf(e))
<1> DEFINE At(k) == e.memory[k].physical
           register == [k \in InRegisters(e) |->
                          <<n, k, At(k).offset, Direction(e.memory[k])>>]
           bank == [k \in InBanks(e) |-> <<n, k, Region(At(k)), e.memory[k].kind>>]
           offset == [k \in InBanks(e) |-> <<Region(At(k)), At(k).offset>>]
           O == {offset[k] : k \in InBanks(e)}
<1>1. IsFiniteSet(InRegisters(e)) /\ IsFiniteSet(InBanks(e))
  BY AccessesCounted
<1>2. /\ \A j, k \in InRegisters(e) : register[j] = register[k] => j = k
      /\ \A j, k \in InBanks(e) : bank[j] = bank[k] => j = k
  OBVIOUS
<1>3. /\ IsFiniteSet({register[k] : k \in InRegisters(e)})
      /\ Cardinality({register[k] : k \in InRegisters(e)}) = Cardinality(InRegisters(e))
      /\ IsFiniteSet({bank[k] : k \in InBanks(e)})
      /\ Cardinality({bank[k] : k \in InBanks(e)}) = Cardinality(InBanks(e))
  <2>1. register = [k \in InRegisters(e) |-> register[k]]
    OBVIOUS
  <2>2. bank = [k \in InBanks(e) |-> bank[k]]
    OBVIOUS
  <2> HIDE DEF register, bank
  <2> QED  BY <1>1, <1>2, <2>1, <2>2, Distinct
<1>4. IsFiniteSet(O)
  <2>1. offset \in Surjection(InBanks(e), O)
    BY DEF Surjection
  <2> HIDE DEF offset, O
  <2> QED  BY <1>1, <2>1, FS_Surjection
<1>5. /\ {register[k] : k \in InRegisters(e)} = OfRegisters(e, n)
      /\ {bank[k] : k \in InBanks(e)} = OfBanks(e, n)
      /\ O = OffsetsOf(e)
  BY DEF OfRegisters, OfBanks, OffsetsOf
<1>6. (\A x \in OfRegisters(e, n) : x[1] = n) /\ (\A x \in OfBanks(e, n) : x[1] = n)
  BY DEF OfRegisters, OfBanks
<1> HIDE DEF register, bank, O
<1> QED  BY <1>3, <1>4, <1>5, <1>6

(* The one fetch of an event is where the report has it.                   *)
LEMMA FetchCounted ==
  ASSUME program \in Programs, NEW e \in Event
  PROVE  /\ Physical(FetchOf(e))
         /\ FetchOf(e).region = "F" =>
              <<Region(FetchOf(e)), FetchOf(e).offset>> \in OffsetsOf(e)
<1> DEFINE S == Accesses(e, "fetch")
<1>1. IsFiniteSet(S)
  <2>1. S \in SUBSET DOMAIN e.memory /\ IsFiniteSet(DOMAIN e.memory)
    BY EventCounts DEF Accesses
  <2> QED  BY <2>1, FS_Subset
<1>2. PICK k : S = {k}
  BY <1>1, EventCounts, FS_Singleton
<1>3. Least(S) = k
  <2>1. Least({k}) \in {k}
    BY DEF Least
  <2> QED  BY <1>2, <2>1
<1>4. k \in DOMAIN e.memory /\ FetchOf(e) = e.memory[k].physical
  BY <1>2, <1>3 DEF FetchOf, Accesses
<1>5. FetchOf(e).region = "F" => k \in InBanks(e)
  BY <1>4 DEF InBanks, InRegisters
<1>6. Physical(e.memory[k].physical)
  BY <1>4, EventCounts
<1> QED  BY <1>4, <1>5, <1>6 DEF OffsetsOf

(* A set tagged with the number of its event.                              *)
LEMMA Tagged ==
  ASSUME NEW I, IsFiniteSet(I), NEW n
  PROVE  IsFiniteSet({n} \X I) /\ Cardinality({n} \X I) = Cardinality(I)
<1> DEFINE F == [i \in I |-> <<n, i>>]
<1>1. {F[i] : i \in I} = {n} \X I
  OBVIOUS
<1>2. F = [i \in I |-> F[i]] /\ \A i, j \in I : F[i] = F[j] => i = j
  OBVIOUS
<1> HIDE DEF F
<1> QED  BY <1>1, <1>2, Distinct

(* observe adds one event to every breakdown.                              *)
LEMMA ObservationCounted ==
  ASSUME program \in Programs, NEW c, Accumulator(c), CountsAgree(c), NEW e \in Event
  PROVE  Accumulator(observe_event(c, e)) /\ CountsAgree(observe_event(c, e))
<1> DEFINE o == observe_event(c, e)
           m == c.total_events
           n == m + 1
           entry == e.kind = "interrupt-entry"
           fetch == <<n, FetchOf(e)>>
           form == <<n, e.mnemonic, e.cycle_end - e.cycle_start>>
           G == OfRegisters(e, n)
           B == OfBanks(e, n)
           O == OffsetsOf(e)
           I == e.interrupts
           Vectored == {i \in I : i.action = "entered"}
           Seen(S) == {x \in S : x[2].action = "entered"}
<1>1. /\ Accumulator(o) /\ o.total_events = n
      /\ o.instruction_events = IF entry THEN c.instruction_events ELSE c.instruction_events + 1
      /\ o.interrupt_entries = IF entry THEN c.interrupt_entries + 1 ELSE c.interrupt_entries
      /\ o.physical_fetches = IF entry THEN c.physical_fetches
                              ELSE c.physical_fetches \cup {fetch}
      /\ o.forms = IF entry THEN c.forms ELSE c.forms \cup {form}
      /\ o.memory_fetches = c.memory_fetches + Cardinality(Accesses(e, "fetch"))
      /\ o.memory_reads = c.memory_reads + Cardinality(Accesses(e, "read"))
      /\ o.memory_writes = c.memory_writes + Cardinality(Accesses(e, "write"))
      /\ o.registers = c.registers \cup G /\ o.banks = c.banks \cup B
      /\ o.offsets = c.offsets \cup O
      /\ o.interrupts = c.interrupts \cup ({n} \X I)
  <2>1. Added(c, e, o)
    BY EventAdded
  <2> QED  BY <2>1 DEF Added
<1>2. m \in Nat /\ n \in Nat
  BY DEF CountsAgree
<1> HIDE DEF o, n
<1>3. /\ Cardinality(Accesses(e, "fetch")) = 1
      /\ Cardinality(Accesses(e, "read")) \in Nat /\ Cardinality(Accesses(e, "write")) \in Nat
      /\ Cardinality(Vectored) = IF entry THEN 1 ELSE 0
      /\ entry \in BOOLEAN
  BY EventCounts, AccessesCounted
<1>4. /\ o.total_events \in Nat
      /\ o.instruction_events \in Nat /\ o.interrupt_entries \in Nat
      /\ o.memory_fetches \in Nat /\ o.memory_reads \in Nat /\ o.memory_writes \in Nat
      /\ o.instruction_events + o.interrupt_entries = o.total_events
      /\ o.memory_fetches = o.total_events
  <2>1. /\ c.instruction_events \in Nat /\ c.interrupt_entries \in Nat
        /\ c.memory_fetches \in Nat /\ c.memory_reads \in Nat /\ c.memory_writes \in Nat
        /\ c.instruction_events + c.interrupt_entries = m /\ c.memory_fetches = m
    BY DEF CountsAgree
  <2> HIDE DEF m, entry
  <2> QED  BY ONLY <1>1, <1>2, <1>3, <2>1 DEF n
<1>5. ASSUME NEW S, Counted(S, m), Cardinality(S) = c.instruction_events, NEW x, x[1] = n,
             NEW T, T = IF entry THEN S ELSE S \cup {x}
      PROVE  Counted(T, n) /\ Cardinality(T) = o.instruction_events
  <2>1. /\ IsFiniteSet({x}) /\ Cardinality({x}) = 1
        /\ \A y \in {x} : y[1] = m + 1
    BY <1>5, FS_Singleton DEF n
  <2> HIDE DEF m, entry
  <2>2. /\ Counted(S \cup {x}, m + 1)
        /\ Cardinality(S \cup {x}) = Cardinality(S) + 1
    BY <1>2, <1>5, <2>1, CountedBeside
  <2>3. Counted(S, m + 1)
    BY <1>2, <1>5 DEF Counted
  <2> QED  BY <1>1, <1>5, <2>2, <2>3 DEF n
<1>6. /\ Counted(o.physical_fetches, n) /\ Counted(o.forms, n)
      /\ Cardinality(o.physical_fetches) = o.instruction_events
      /\ Cardinality(o.forms) = o.instruction_events
  <2>1. /\ Counted(c.physical_fetches, m) /\ Counted(c.forms, m)
        /\ Cardinality(c.physical_fetches) = c.instruction_events
        /\ Cardinality(c.forms) = c.instruction_events
    BY DEF CountsAgree
  <2>2. fetch[1] = n /\ form[1] = n
    OBVIOUS
  <2> HIDE DEF fetch, form, m, entry
  <2> QED  BY <1>1, <1>5, <2>1, <2>2
<1>7. /\ IsFiniteSet(G) /\ Cardinality(G) = Cardinality(InRegisters(e))
      /\ IsFiniteSet(B) /\ Cardinality(B) = Cardinality(InBanks(e))
      /\ IsFiniteSet(O)
      /\ (\A x \in G : x[1] = n) /\ (\A x \in B : x[1] = n)
  BY AccessesAdded
<1>8. /\ Counted(o.registers, n) /\ Counted(o.banks, n)
      /\ Cardinality(o.banks) + Cardinality(o.registers) = memory_operations(o)
  <2> HIDE DEF G, B, m
  <2>1. Counted(c.registers, m) /\ Counted(c.banks, m)
        /\ Cardinality(c.banks) + Cardinality(c.registers)
             = c.memory_fetches + c.memory_reads + c.memory_writes
        /\ c.memory_fetches \in Nat /\ c.memory_reads \in Nat /\ c.memory_writes \in Nat
    BY DEF CountsAgree, memory_operations, m
  <2>2. /\ Counted(c.registers \cup G, n)
        /\ Cardinality(c.registers \cup G) = Cardinality(c.registers) + Cardinality(G)
    <3>1. IsFiniteSet(G) /\ Counted(c.registers, m) /\ \A x \in G : x[1] = m + 1
      BY <1>7, <2>1 DEF n
    <3> QED  BY ONLY <1>2, <3>1, CountedBeside DEF n
  <2>3. /\ Counted(c.banks \cup B, n)
        /\ Cardinality(c.banks \cup B) = Cardinality(c.banks) + Cardinality(B)
    BY <1>2, <1>7, <2>1, CountedBeside DEF n
  <2>4. /\ Cardinality(c.registers) \in Nat /\ Cardinality(c.banks) \in Nat
        /\ Cardinality(G) \in Nat /\ Cardinality(B) \in Nat
    BY <1>7, <2>1, FS_CardinalityType DEF Counted
  <2>5. Cardinality(B) + Cardinality(G) = Cardinality(Accesses(e, "fetch"))
          + Cardinality(Accesses(e, "read")) + Cardinality(Accesses(e, "write"))
    BY <1>7, AccessesCounted
  <2>6. Cardinality(o.banks) + Cardinality(o.registers)
          = o.memory_fetches + o.memory_reads + o.memory_writes
    BY ONLY <1>1, <1>3, <2>1, <2>2, <2>3, <2>4, <2>5
  <2> QED  BY <1>1, <2>2, <2>3, <2>6 DEF memory_operations
<1>9. Counted(o.interrupts, n) /\ entries_seen(o) = o.interrupt_entries
  <2> HIDE DEF m
  <2>1. /\ Counted(c.interrupts, m) /\ Cardinality(Seen(c.interrupts)) = c.interrupt_entries
        /\ c.interrupt_entries \in Nat
    BY DEF CountsAgree, entries_seen, m
  <2>2. IsFiniteSet(I) /\ Vectored \in SUBSET I
    BY EventCounts
  <2>3. IsFiniteSet(Vectored)
    BY <2>2, FS_Subset
  <2>4. /\ IsFiniteSet({n} \X I)
        /\ IsFiniteSet({n} \X Vectored) /\ Cardinality({n} \X Vectored) = Cardinality(Vectored)
    BY <2>2, <2>3, Tagged
  <2>5. Counted(c.interrupts \cup ({n} \X I), n)
    <3>1. \A x \in {n} \X I : x[1] = n
      OBVIOUS
    <3> QED  BY <1>2, <2>1, <2>4, <3>1, CountedBeside DEF n
  <2>6. Seen(c.interrupts \cup ({n} \X I)) = Seen(c.interrupts) \cup ({n} \X Vectored)
    OBVIOUS
  <2>7. Counted(Seen(c.interrupts), m)
    <3>1. Seen(c.interrupts) \in SUBSET c.interrupts
      OBVIOUS
    <3> QED  BY <2>1, <3>1, FS_Subset DEF Counted
  <2>8. Cardinality(Seen(c.interrupts) \cup ({n} \X Vectored))
          = c.interrupt_entries + Cardinality(Vectored)
    <3>1. \A x \in {n} \X Vectored : x[1] = n
      OBVIOUS
    <3> HIDE DEF Vectored
    <3> QED  BY <1>2, <2>1, <2>4, <2>7, <3>1, CountedBeside DEF n
  <2>9. Seen(o.interrupts) = Seen(c.interrupts) \cup ({n} \X Vectored)
    BY <1>1, <2>6
  <2>10. entries_seen(o) = c.interrupt_entries + Cardinality(Vectored)
    BY <2>8, <2>9 DEF entries_seen
  <2> HIDE DEF Vectored
  <2> QED  BY <1>1, <1>3, <2>1, <2>5, <2>10
<1>10. IsFiniteSet(o.offsets)
  <2>1. IsFiniteSet(c.offsets)
    BY DEF CountsAgree
  <2> HIDE DEF O
  <2>2. IsFiniteSet(O)
    BY <1>7
  <2>3. IsFiniteSet(c.offsets \cup O)
    BY ONLY <2>1, <2>2, FS_Union
  <2> QED  BY <1>1, <2>3
<1>11. \A x \in o.physical_fetches :
         Physical(x[2]) /\ (x[2].region = "F" => <<Region(x[2]), x[2].offset>> \in o.offsets)
  <2> SUFFICES ASSUME NEW x \in o.physical_fetches
               PROVE  /\ Physical(x[2])
                      /\ x[2].region = "F" => <<Region(x[2]), x[2].offset>> \in o.offsets
    OBVIOUS
  <2>1. x \in c.physical_fetches \/ x = fetch
    BY <1>1
  <2>2. CASE x \in c.physical_fetches
    BY <1>1, <2>2 DEF CountsAgree
  <2>3. CASE x = fetch
    <3>1. x[2] = FetchOf(e)
      BY <2>3
    <3>2. /\ Physical(FetchOf(e))
          /\ FetchOf(e).region = "F" => <<Region(FetchOf(e)), FetchOf(e).offset>> \in O
      BY FetchCounted
    <3> HIDE DEF O
    <3> QED  BY <1>1, <3>1, <3>2
  <2> QED  BY <2>1, <2>2, <2>3
<1> QED  BY <1>1, <1>4, <1>6, <1>8, <1>9, <1>10, <1>11 DEF CountsAgree, o

(* The rope is fetched from at no more places than its banks are used.     *)
LEMMA RopeFetched ==
  ASSUME NEW c, CountsAgree(c)
  PROVE  Cardinality(rope_fetches(c)) <= Cardinality(c.offsets)
<1> DEFINE R == rope_fetches(c)
           F == [p \in R |-> <<Region(p), p.offset>>]
<1>1. \A p \in R : Physical(p) /\ F[p] \in c.offsets
  BY DEF CountsAgree, rope_fetches
<1>2. \A p, q \in R : F[p] = F[q] => p = q
  BY <1>1 DEF Physical, Region
<1>3. F \in Injection(R, c.offsets)
  BY <1>1, <1>2 DEF Injection, IsInjective
<1>4. IsFiniteSet(c.offsets)
  BY DEF CountsAgree
<1> HIDE DEF F, R
<1>5. Cardinality(R) <= Cardinality(c.offsets)
  BY <1>3, <1>4, FS_Injection
<1> QED  BY <1>5 DEF R

(* The first event of a log starts the clock.                              *)
StartInv ==
  /\ baseline.trace_sequence = 0 => baseline.cycles = 0
  /\ baseline.trace # <<>> => baseline.trace[1].cycle_start = 0

(* The accumulator holds the counts of what the reader has returned.       *)
CoverInv ==
  /\ StartInv
  /\ Accumulator(coverage) /\ CountsAgree(coverage)
  /\ coverage.total_events = Len(log_read)
  /\ log_read = <<>> => coverage.first_cycle = NoIndex
  /\ log_read # <<>> => /\ coverage.first_cycle = log_read[1].cycle_start
                        /\ coverage.last_cycle = log_read[Len(log_read)].cycle_end

LEMMA CoverInitial == Init => CoverInv
<1> SUFFICES ASSUME Init  PROVE CoverInv
  OBVIOUS
<1>1. /\ baseline = NewRun /\ log_read = <<>> /\ coverage = NewCoverage
  BY DEF Init
<1>2. StartInv
  BY <1>1 DEF StartInv, NewRun
<1>3. Accumulator(NewCoverage)
  BY DEF Accumulator, NewCoverage, CoverageFields
<1>4. NewCoverage.total_events = 0 /\ NewCoverage.first_cycle = NoIndex
  BY DEF NewCoverage
<1>5. CountsAgree(NewCoverage)
  <2>1. IsFiniteSet({}) /\ Cardinality({}) = 0
    BY FS_EmptySet
  <2>2. \A n : Counted({}, n)
    BY <2>1 DEF Counted
  <2>3. entries_seen(NewCoverage) = 0
    BY <2>1 DEF entries_seen, NewCoverage
  <2>4. memory_operations(NewCoverage) = 0
    BY DEF memory_operations, NewCoverage
  <2> QED  BY <2>1, <2>2, <2>3, <2>4 DEF CountsAgree, NewCoverage
<1> QED  BY <1>1, <1>2, <1>3, <1>4, <1>5 DEF CoverInv

LEMMA StepStarts ==
  ASSUME program \in Programs, Sound(baseline), StartInv, baseline' = Stepped(baseline)
  PROVE  StartInv'
<1> DEFINE r == baseline
           s == Stepped(r)
           e == EventOf(r)
<1>1. r \in Run /\ r.trace \in Seq(Event) /\ r.trace_sequence \in Nat
  BY DEF Sound, Run, Trace
<1>2. Follows(r, s)
  BY <1>1, SteppedFields
<1>3. Accepts(r.trace, e) <=> r.trace # <<>> \/ r.trace_sequence = 0
  BY StepAccepted
<1>4. CASE Accepts(r.trace, e)
  <2>1. /\ s.trace = Append(r.trace, e) /\ s.trace_sequence = r.trace_sequence + 1
        /\ e.cycle_start = r.cycles /\ e \in Event
    BY <1>2, <1>4 DEF Follows
  <2>2. s.trace_sequence # 0
    BY <1>1, <2>1
  <2>3. s.trace[1].cycle_start = 0
    <3>1. CASE r.trace = <<>>
      <4>1. s.trace[1] = e
        BY <2>1, <3>1
      <4> QED  BY <1>3, <1>4, <2>1, <3>1, <4>1 DEF StartInv
    <3>2. CASE r.trace # <<>>
      <4>1. s.trace[1] = r.trace[1]
        BY <1>1, <2>1, <3>2
      <4> QED  BY <3>2, <4>1 DEF StartInv
    <3> QED  BY <3>1, <3>2
  <2> QED  BY <2>2, <2>3 DEF StartInv
<1>5. CASE ~Accepts(r.trace, e)
  <2>1. s.trace = r.trace /\ s.trace_sequence = r.trace_sequence
    BY <1>2, <1>5 DEF Follows
  <2>2. r.trace = <<>> /\ r.trace_sequence # 0
    BY <1>3, <1>5
  <2> QED  BY <2>1, <2>2 DEF StartInv
<1> QED  BY <1>4, <1>5

LEMMA CoverageRead ==
  ASSUME RunsInv, ReaderInv, CoverInv, next_event
  PROVE  CoverInv'
<1> DEFINE m == Len(log_read)
           o == observe_event(coverage, Line)
<1>1. /\ log_read' = Append(log_read, Line) /\ coverage' = o
      /\ baseline' = baseline /\ program' = program
  BY DEF next_event, outside
<1>2. Event' = Event
  BY <1>1 DEF Event, EventAt
<1>3. log_read \in Seq(Event) /\ log_read' \in Seq(Event) /\ m \in Nat
  BY <1>2, NextRead DEF ReaderInv, ReaderType
<1>4. /\ Len(log_read') = m + 1 /\ log_read' # <<>> /\ log_read'[m + 1] = Line
      /\ m # 0 => log_read'[1] = log_read[1]
      /\ (log_read = <<>>) <=> (m = 0)
  BY <1>1, <1>3
<1>5. Line \in Event
  BY <1>3, <1>4
<1> HIDE DEF o
<1>6. Accumulator(o) /\ CountsAgree(o) /\ Added(coverage, Line, o)
  BY <1>5, ObservationCounted, EventAdded DEF CoverInv, RunsInv, o
<1>7. o.total_events = m + 1 /\ o.last_cycle = Line.cycle_end
  BY <1>6 DEF Added, CoverInv
<1>8. o.first_cycle = log_read'[1].cycle_start
  <2>1. o.first_cycle = IF coverage.first_cycle = NoIndex THEN Line.cycle_start
                        ELSE coverage.first_cycle
    BY <1>6 DEF Added
  <2>2. CASE m = 0
    BY <1>4, <2>1, <2>2 DEF CoverInv
  <2>3. CASE m # 0
    <3>1. coverage.first_cycle = log_read[1].cycle_start /\ log_read[1] \in Event
      BY <1>3, <1>4, <2>3 DEF CoverInv
    <3>2. log_read[1].cycle_start \in Nat
      BY <3>1, EventFields DEF RunsInv
    <3>3. coverage.first_cycle # NoIndex
      BY <3>1, <3>2 DEF NoIndex
    <3> QED  BY <1>4, <2>1, <2>3, <3>1, <3>3
  <2> QED  BY <2>2, <2>3
<1>9. StartInv'
  BY <1>1 DEF CoverInv, StartInv
<1> QED  BY <1>1, <1>4, <1>6, <1>7, <1>8, <1>9 DEF CoverInv

LEMMA CoverInductive == RunsInv /\ ReaderInv /\ CoverInv /\ [Next]_vars => CoverInv'
<1> SUFFICES ASSUME RunsInv, ReaderInv, CoverInv, [Next]_vars  PROVE CoverInv'
  OBVIOUS
<1>1. CASE baseline_step
  <2>1. StartInv'
    BY <1>1, StepStarts DEF baseline_step, RunsInv, CoverInv
  <2> QED  BY <1>1, <2>1 DEF baseline_step, reading, CoverInv
<1>2. CASE take_trace
  <2>1. baseline \in Run /\ baseline' = [baseline EXCEPT !.trace = <<>>, !.taken = TRUE]
    BY <1>2 DEF take_trace, RunsInv, Sound
  <2>2. /\ baseline'.trace = <<>> /\ baseline'.cycles = baseline.cycles
        /\ baseline'.trace_sequence = baseline.trace_sequence
    BY <2>1 DEF Run
  <2> QED  BY <1>2, <2>2 DEF take_trace, reading, CoverInv, StartInv
<1>3. CASE \/ resolve_injection \/ apply_fault \/ faulted_step \/ compare
           \/ write_json_lines \/ end_of_file \/ skip_blank \/ refuse_line
           \/ UNCHANGED vars
  <2>1. UNCHANGED <<baseline, log_read, coverage>>
    BY <1>3 DEF resolve_injection, apply_fault, faulted_step, compare, write_json_lines,
                end_of_file, skip_blank, refuse_line, reading, outside, vars
  <2> QED  BY <2>1 DEF CoverInv, StartInv
<1> QED  BY <1>1, <1>2, <1>3, CoverageRead DEF Next

LEMMA CoverInvariant == Spec => [](RunsInv /\ ReaderInv /\ CoverInv)
<1>1. RunsInv /\ ReaderInv /\ CoverInv /\ [Next]_vars => CoverInv'
  BY CoverInductive
<1> QED  BY <1>1, CoverInitial, ReaderInvariant, PTL DEF Spec

(* The counts of the coverage report agree with each other and with the    *)
(* machine: each event is counted once in every breakdown, each access by  *)
(* its kind and in one place, each interrupt entry by its event, a place   *)
(* of the rope that was fetched is a used one, and the cycles of a         *)
(* complete trace are those of the run (CoverageAccumulator).              *)
THEOREM CountsAddUp == Spec => []CoverageAddsUp
<1>1. RunsInv /\ ReaderInv /\ CoverInv => CoverageAddsUp
  <2> SUFFICES ASSUME RunsInv, ReaderInv, CoverInv  PROVE CoverageAddsUp
    OBVIOUS
  <2> DEFINE T == baseline.trace
             m == Len(log_read)
  <2>1. Cardinality(rope_fetches(coverage)) <= Cardinality(coverage.offsets)
    BY RopeFetched DEF CoverInv
  <2>2. ASSUME log_read # <<>>, m = Len(T)
        PROVE  cycle_span(coverage) = baseline.cycles
    <3>1. /\ log_read \in Seq(Event) /\ T \in Seq(Event) /\ baseline.cycles \in Nat
          /\ \A k \in 1 .. m : log_read[k] = T[k]
      BY <2>2 DEF ReaderInv, ReaderType, Returned, RunsInv, Sound, Run, Trace
    <3>2. 1 \in 1 .. m /\ m \in 1 .. m /\ T # <<>>
      BY <2>2, <3>1
    <3>3. coverage.first_cycle = T[1].cycle_start /\ coverage.last_cycle = T[m].cycle_end
      BY <2>2, <3>1, <3>2 DEF CoverInv
    <3>4. T[1].cycle_start = 0
      BY <3>2 DEF CoverInv, StartInv
    <3>5. T[m].cycle_end = baseline.cycles
      BY <2>2, <3>2 DEF RunsInv, Sound, Abreast
    <3>6. coverage.last_cycle - coverage.first_cycle = baseline.cycles
      BY ONLY <3>1, <3>3, <3>4, <3>5
    <3> QED  BY <3>6 DEF cycle_span
  <2> QED  BY <2>1, <2>2 DEF CoverageAddsUp, CoverInv, CountsAgree
<1> QED  BY <1>1, CoverInvariant, PTL
=============================================================================
