# ApolloRS, modelled in TLA+

ApolloRS (`src/`) executes Apollo Guidance Computer programs: a word-exact
Block II machine, a deterministic runtime around it, fault campaigns, mission
evidence, comparison tools and the assembler that builds the ropes, in 27 Rust
crates. This directory keeps a TLA+ model of it, the TLC runs that check the
model on small instances, and proofs, checked by TLAPS, of what matters most for
every instance.

Contents: [inventory](#the-system) · [modules](#modules-and-the-code) ·
[runs](#what-the-runs-check) · [bounds](#bounds) · [fairness](#fairness) ·
[proofs](#what-is-proved) · [disagreements](#where-the-code-disagrees) ·
[not modelled](#not-modelled) · [plan](#plan)

Check a run with `tlc -config memory.cfg MCMemory`, a proof with
`tlapm AgcMemoryProofs.tla`. `PROJECT.json` lists the runs, the theorems, the
source lines behind every definition, and for each property a *mutant*: a
plausible bug in a definition (`X_something` beside `X`) that makes the run
fail.

## The system

The program is single-threaded: concurrency is between what the processor does
in a step and what its environment does between steps. Within one step the
clock advances in machine cycles (MCTs), and timers, events and faults act on
shared state in an order that the code fixes. That order, the boundaries
between steps and the steps that fail halfway are what is hard to test; in the
tools, it is what follows from many legal steps: directives that move a
location counter, an overlay applied in two ways, a file that lost a line.

| Layer | Crate | State and operations | What makes it correct |
|---|---|---|---|
| values | `agc-word` | 15-bit one's-complement words, 16-bit registers, double words; add, complement, sign-extend, overflow-correct | end-around carry, two zeros, conversions that lose nothing |
| | `agc-fixed` | scaled integers over words; stateless | conversions bounded |
| machine | `agc-isa` | `decode` of every word, basic or extended; `encode`; disassemble | encoding is inverse to decoding |
| | `agc-memory` | registers, erasable banks, rope, channels, superbank bit; logical and physical reads and writes, channel I/O, reset | one content per cell under all its names; selectors agree; no access outside installed banks |
| | `agc-cpu` | prefixes (`extended`, `indexed`), `substitute_instruction`, interrupt masks and requests, clock, scaler, counters, DOWNRUPT, HANDRUPT traps, data path; `step`, `run`, `reset`, interrupt requests | a program runs under interrupts as it would alone; no cycle or tick lost; each request made when due; arithmetic exact |
| runtime | `agc-runtime` | event queue keyed by (cycle, sequence), peripheral state, downlink frames; `schedule`, `step`, `run` | events in order, on time, before the instruction; counters agree with the hardware state |
| | `agc-faults` | scheduled faults by (instruction, sequence), stuck channels, audit trail; `schedule`, `step`, `run` | each fault at its boundary, once; forced values released; the trail tells the truth |
| | `agc-dsky` | relay words, lamps, key codes, V37 model; fed by the trace | display equals relay state; the V37 model accepts what the rope accepts |
| | `agc-mission` | scenario, key sequence, evidence, milestones, acceptance; `run` loops over the fault engine | a key waits for its acknowledgement; what is reported has happened |
| | `agc-experiments` | baseline and faulted runs from one template; resolve injection, compare, classify | no difference before the fault; what a class claims is so |
| source | `agc-source`, `agc-ast`, `agc-parser`, `agc-ir` | files, records | loss-preserving text |
| | `agc-overlay` | ordered edits with preconditions, aliases; in memory or materialized | both ways give one text |
| | `agc-symbols` | symbol table | one definition for each symbol |
| build | `agc-assembler` | include stack, location counter, banks, equates, image; native, reference and binsource routes | no word assembled twice; addresses agree between passes and with the memory |
| | `agc-loader` | 36 banks, four formats, parity | what is loaded is what was written |
| | `agc-xref`, `agc-transpiler` | reports and text from a parse | — |
| evidence | `agc-trace` | append-only log, streaming reader, first difference | sequence and cycle order; a damaged file is refused |
| | `agc-coverage` | accumulator over the trace | the breakdowns add up |
| | `agc-validation` | comparison of traces and with yaAGC's rows | accepted exactly when they agree |
| | `agc-conformance`, `agc-reports`, `apollors-cli` | generated test rope, provenance, commands | — |
| bounded | `agc-interpreter` | a stack machine of its own | stack and program bounds |

**How they interact.** `MissionController::run` supplies inputs and calls
`FaultEngine::step`, which applies the due faults, forces stuck channels and
calls `Runtime::step`, which applies the due events and calls `Cpu::step`;
peripherals share state with the processor through `Memory` channels and cells
and through `request_interrupt`. What comes back up is a `StepOutcome` with a
trace event, which the runtime (downlink), the display and the mission evidence
consume; the logs of two runs go to `agc-validation` and `agc-experiments`, and
a file of them through `TraceJsonReader` to `agc-coverage`. The rope comes from
`agc-loader`, which reads what one of the three routes of `agc-assembler` wrote.

## Modules and the code

```text
AgcWord ─┬─ AgcMemory ─── MemoryStore ──implements── AddressedStore
         ├─ AgcIsa ─┬─ AgcInterrupts ─ InterruptTransparency ─┐ implements
         │          ├─ UninterruptedProgram ◄─────────────────┘
         │          └─ AgcArithmetic
         ├─ AgcScaler
         ├─ AgcRuntime ── AgcFaults ─┬─ AgcMission ──implements── KeyLine
         │   AgcDsky ────────────────┘
         ├─ AgcTrace ─┬─ AgcValidation ─┬─ AgcExperiments
         │            └─ AgcCoverage ───┘
         └─ AgcOverlay, AgcSymbols ─ AgcAssembler ─┬─ AgcBuild
                         AgcLoader ─ AgcBinsource ─┘
```

Each run has an instance module `MC…` with its constants and, where something is
proved, a module `XProofs`. Names of actions and variables are those of the code.

### The machine

**`AgcWord`** (`agc-word`): words, registers, double words and what converts
between them and integers.

**`AgcMemory`** (`agc-memory`): `central`, `erasable`, `fixed`, `channels` and
`superbank` are the fields of `Memory`; each public method that changes state
or returns a word is an action, and `result` is the last call: the cell it
resolved, the word it asked to store and the word it returned, or an error. Bit
masks are written as divisions. `inject_fixed_bit_flip` takes the resulting word
instead of the mask.
**`AddressedStore`** is what the memory promises: a store of cells, each named
once, and calls that answer with the word of the cell they name and disturb that
cell alone. A plain cell keeps the word as it was given; an operand read may
rewrite an editing register; the three selectors move together, each by its own
field of the word; only `flip` and `load` touch the rope; and a reset leaves every
other cell cleared. What a store leaves in a cell that masks or edits (A, Z, an
editing register, channel 7) is left open.
**`MemoryStore`** maps the first to the second: a cell of the store is read
through `read_physical`, a register has one name whether it was reached as a
register, as a cell of bank 0 or as channel 1 or 2.

**`AgcIsa`** (`agc-isa`, and where `agc-cpu`'s `execute` may leave Z): `decode`
with the fields of the code and `encode_with_context`; `Successors` and
`ExtendsNext` are the control effect of each mnemonic, for the next module.
**`AgcInterrupts`** (`agc-cpu`): one action for each outcome of `Cpu::step`:
`accept_interrupt`, `resume` and `execute`; `request_interrupt`,
`cancel_interrupt` and `reset` come from outside. A conditional transfer may go
either way, and `overflow` abstracts A's two sign bits.
**`UninterruptedProgram`** is the program alone; **`InterruptTransparency`**
maps one to the other: while a routine runs, the program stands at ZRUPT − 1
about to execute the word in BRUPT.

**`AgcScaler`** (`agc-cpu`'s clock): a step is broken up at every MCT, because
DOWNRUPT, the scaler and cycle stealing act inside it. `stage` is where in
`Cpu::step` the processor is, `deferred` the MCTs to pass before the next ready
point, `delay` the MCTs that the counters stole at this one. `tick` is one turn
of the loop in `service_scaler`. `ticks` is history.

**`AgcArithmetic`** (`agc-cpu`'s data path): an operator for each instruction on
a `store` of registers and cells, and the action `step` that decodes a word,
executes it and ends with the correction of L. DV keeps its two algorithms: the
quotient where it fits, `simulate_divide` (fourteen trial subtractions) where it
does not. Its properties are stated in integers: `value16` is the number that a
register stands for, `AL` that of the pair (A, L).

### The runtime

**`AgcRuntime`** (`agc-runtime`): `keys` is the local of `apply_due_events`
that a step collects; `deliver` applies one event, `reject_event` is the `?`
that leaves the step, `execute` and `enter_interrupt` are the two outcomes of
`Cpu::step`, reduced to what the queue can see. `downlink_words` is the
processor's own record of a pair, `pending_downlink_1/2` are the runtime's.

**`AgcFaults`** (`agc-faults`, composed with `AgcRuntime`): a step of the engine
is `begin_engine_step`, one `apply_fault` or `reject_fault` for each due fault,
`enforce_channels` (which starts the runtime's step), the runtime's own actions,
and `retain` in the action that ends it. A fault is rejected as `apply` does: an
address of fixed memory, an erasable or rope location that is not installed, a
register, channel or timer that is not one, a jump that fits no word. Of an accepted
rope flip the engine keeps the record; the rope is in `AgcMemory`. `injected` is
history: no guard reads it.

**`AgcDsky`** (`agc-dsky`): the key codes, the V37 program-change model as a
table of transitions, and what a word on channels 010, 011, 013 and 0163 does to
the display. **`AgcMission`** (`agc-mission`, composed with both): `offer_input`,
`offer_key` and `offered` are the top of the loop in `run`; the engine's actions
follow; `interrupt_step` and `instruction_step` end a pass with
`observe_evidence`, the display and the frame. `aborted` is a run that returned
an error. The rope is external: `rope` is the part of Luminary that the code
observes, KEYRUPT1 reading channel 015 and leaving a job, CHARIN, `MODREG`,
P63LM and its five words, interleaved with other instructions.
**`KeyLine`** is what the operator is promised: keys arrive one at a time, as
typed.

### The evidence

**`AgcTrace`**, **`AgcValidation`**, **`AgcCoverage`**: what a log accepts, what
the reader accepts (the reader itself sets no flag when it refuses a line:
that a refusal ends the reading is what both callers make of it with `?`,
`agc-trace/src/lib.rs:188` and `agc-coverage/src/lib.rs:625`), the comparison of two events and of an event with a row of
yaAGC, the accumulator. A count that the code keeps by a key (location, bank,
channel, vector) is the set of what was counted, so that its sum over the keys is
its cardinality. **`AgcExperiments`** (`agc-experiments`) holds the state:
a baseline run, an injection point resolved in it, a faulted run, then the
comparison; or the trace file written, possibly damaged, and read back. The
processor is *any* deterministic machine over the instance's core states, with a
cell and a request that no snapshot shows. `take_trace` may happen at any point
of the baseline.

### The build

**`AgcAssembler`** (`agc-assembler`'s native route, `agc-ir`'s operands): one
action for each file entered, line, record of the first pass, round of equates
and record of the second pass. An operand field is a sequence of tokens: the first
is a number, a symbol or neither, and then the field is an expression, which
`evaluate_expression` adds, subtracts or looks up. `Unstarred` is the spelling of
operations with trailing stars, which `Mnemonic::parse` strips and the test for
EXTEND does not. The location counter moves by the low sixteen bits of a record's
count, as `advance(emits as u16)`. An overlay is checked when it is loaded, the
model checks it in the action that starts the expansion. **`AgcOverlay`**, **`AgcSymbols`**: the operators
it calls. **`AgcBinsource`**: the listing of octal words with its banks and
checksums, for any bank count and size. **`AgcLoader`**: the four formats.
**`AgcBuild`** composes them: `route` is the way taken, `staged` the tree given to
yaYUL (external: its four results are arbitrary). It uses `AgcMemory`'s
`translate` to ask where the *machine* would find an operand.

## What the runs check

| Run | Instance | Properties |
|---|---|---|
| `memory` | EB, FB, BB, ZERO, an editing register and a counter, by name, through the bank-0 window and by physical address; the same offsets of bank 7; the last word of the rope's windows; channels 1, 7 and 031; an erasable and a rope cell that are not there | `BanksSynchronized`, `SuperbankAgrees`, `BankInstalled`, `ImplementsStore` |
| `interrupts` | a 16-word loop with an INHINT…RELINT stretch, EXTEND INDEX BZF, an indexed TCF, TS after AD, CCS and EDRUPT; three routines | `ImplementsUninterrupted`, `SubstituteAlone`, `HighestServed` |
| `scaler` | instructions of 2 and 6 MCTs, counters that overflow every other time, traps, downlink pairs, stores in TIME6, channel 13 and inputs, for 900 MCTs (33 ticks) | `Conserved`, `NeverTwoBehind`, `CountersKeepTime`, `DownruptOnTime`, `TrapsFire`, `Time6CountsDown` |
| `arithmetic` | every computing, moving and channel instruction on A, L, Q, Z, ZERO, a pair of cells and four channels; eight boundary words, eleven register values with either overflow (924,938 states) | `ArithmeticExact`, `DivisionsAgree`, `NothingLost`, `Recodes`, types |
| `runtime_events` | eight events, two invalid, at cycles 0, 2, 3 | `EventsInOrder`, `NoneEarly`, `NoneOverdue`, `EventsLeave`, `PulsesConserved` |
| `faults_campaign` | twelve faults, five invalid, at boundaries 0 and 2, with host events | `AppliedAtBoundary`, `InjectedBeforeInstruction`, `StuckReleased` |
| `mission` | the P63 sequence, radar interrupts, relay words, an invalid input, a dropped KEYRUPT1 or a timer jump (53,809 states) | `SequenceCompletes`, `ImplementsKeyLine`, `ReportSound`, `DisplayShowsLastWords`, types |
| `evidence` | each of the 256 programs of a machine with eight core states, three faults, six injection points, every file with one damage, every export with one changed field (136,071 states) | `LogWellFormed`, `ReadsPrefixOrFails`, `CoverageAddsUp`, `VerdictsSound`, `OutcomeSound` |
| `build` | 24³ programs of three free lines before a library, 9³ of them also under five more overlays; listings of four banks of two words (1,445,156 states) | `ImageIsRecords`, `ReferencesReach`, `RoutesAgree`, `ListingCertified` |

What they show. The machine and the runtime keep their promises in every
interleaving of the instance; `ImplementsUninterrupted`, `ImplementsStore` and
`ImplementsKeyLine` are refinements: the detailed module implements the abstract
one under the mapping named above. The key sequence completes whatever else
interrupts, unless the run fails or a fault takes its request. A trace that was
read back is a prefix of what was written, and only lines missing at its end go
unnoticed. The classes of outcomes say what happened, with the two limits
[below](#where-the-code-disagrees). An accepted image holds the words of each record
where it was placed: data read back as the value of the operand, a word decodes as
the instruction of the source, both words of a pair in their order
(`ImageIsRecords`); an instruction on a label reaches it through the memory's own
translation.

Two properties name what they leave to the disagreements below: `PulsesConserved`
says that each pulse count below −16383 gains exactly one unit, `ImageIsRecords`
what a branch to erasable memory is (`Issued`), and it does not say what an
instruction is that the assembler takes behind an EXTEND although it has no
extended form, or behind an `EXTEND*` (`InContext`), nor what a TC or INDEX on the
address of RELINT, INHINT, EXTEND or RESUME is (`Reserved`).

Three more runs each find one promise broken: `runtime_downlink`,
`mission_keys`, `build_pairs`.

## Bounds

- *Memory*: the word written has every bit set, so every selector field, every
  bank-control bit and every edit occurs; the register value selects another
  fixed bank, one that the superbank bit extends, and sets bits of no field. The
  addresses reach every region and every alias, and two of the cells that maintenance
  names do not exist. No bound is needed.
- *Interrupts*: the program is fixed, the interrupts are three of the ten: one
  above, one between and one below, which is what priority tells apart.
- *Scaler*: `Phases` 8 for 32, `CounterMax` 1 for 2^14 − 1, `ScalerSize` 8 for
  2^14 and `DownruptDelay` 20 for 1706 keep the order of phases, overflows
  and carries but bring them within `MaxCycles`. Requests come until `BusyCycles`
  (three ticks); after that only the counters go on (`QuietLater`). `TickCost` 80
  and `MctGain` 3 are the code's. Exploration stops at `MaxCycles`, hence
  `CHECK_DEADLOCK FALSE`: the processor itself never stops.
- *Arithmetic*: `MaxSteps` 1, from every combination of the boundary words: an
  instruction depends on nothing but the store. The words are those where a
  carry, a sign, a zero or an overflow changes, and two of mixed bits.
- *Runtime*: `MaxEvents` 2 suffices for order, failure with one behind, and
  scheduling between steps; `Horizon` 3 is past every scheduled cycle. At the
  horizon the clock saturates instead of stopping, so liveness is not cut off.
  Only `HostInputs` are scheduled; `Inputs` also holds what faults inject.
- *Faults*: `MaxFaults` 2, `MaxEvents` 1 beside what faults inject; the
  instruction count saturates at `Horizon` too.
- *Mission*: the seven keys of the code's own scenario, one input, one fault.
  `Horizon` 6 leaves room for two frames and for the gap between keys; after it
  the clock stands and the sequence goes on. A finished or aborted run stops.
- *Evidence*: `Limit` 5 instructions let every program return to a state it has
  been in; `MaxEvents` 9 is never reached by a run of 5. Runs that are done stop.
- *Build*: a free line is one of 24 (bank directives, SETLOC forward, backward,
  to a register and by an expression, labels, extracodes with and without EXTEND and
  EXTEND with a star, equates, constants of one and two words and by an expression, a
  branch to erasable memory, includes of an alias, of itself and twice of the
  library). Banks of the
  listing have two words; the assembler's have 02000. A build stops when done.

## Fairness

`WF(step)` in `AgcInterrupts` and `AgcRuntime` and `WF(engine_step)` in
`AgcFaults`: `Runtime::run`, `FaultEngine::run` and `MissionController::run` call
`step` in a loop until their budget is spent, and nothing in a step waits.
Nothing is assumed of the host, of the peripherals or of which interrupts come.
`HighestServed` is a property of programs whose routines resume, as those of the
runs do.

`FairMission` has `WF` of the same loop, and two assumptions about the rope, which
is outside the code: its executive comes back to the job that is ready
(`SF(instruction_step /\ RopeProgress)`), and interrupts are enabled again and
again (`SF(interrupt_step)`). Without them a rope that only loops would never
read a key; with them nothing in the controller keeps a sequence from
completing.

## What is proved

Every theorem holds for all values of the constants that satisfy the named
assumption of its module; TLC evaluates those assumptions in the runs. What a
theorem assumes beyond them stands in its statement.

- **`AgcMemoryProofs`**. `MemoryInvariant`: types, `BanksSynchronized` and
  `SuperbankAgrees` are one inductive invariant (`MemoryInv`): BB cannot be
  shown to follow the others without knowing that EB and FB hold only their
  fields, and those only hold because each write masks. `EveryBankInstalled`
  follows from it: no logical access fails with `FixedBankUnavailable`.
  `MemoryImplementsStore` is the refinement: under `MemoryInv` every call leaves the
  storage alone (`LookStep`), stores in the cell it names what `AddressedStore` asks
  of that cell (`WriteStep`, `RegisterStep`, `StoreStep`), moves the selectors by the
  field of the one that was named (`SelectedBanks`, `SelectorStep`), replaces rope
  words (`FlipStep`, `RopeShown`) or clears all others (`ClearedStore`), with one lemma
  for each group of calls (`LogicalStep`, `ProcessorStep`, `MaintenanceStep`). That
  the cell which changed is the one that the answer names rests on `NamedCell` and
  `Translation`: whichever name reached it, the mapping gives it its one place.
- **`AgcInterruptsProofs`**. `Typing` and `SubstituteIsAlone` by induction.
  `Transparency`: every program implements itself without interrupts, provided
  (`WellBehaved`) that EDRUPT is executed outside routines only and RESUME inside
  only. The step proof maps `accept_interrupt`, `resume` and what a routine does
  to stutters, an EDRUPT to the program's `Trap` (its word is executed again in
  the basic reading) and every other `execute` to one step of the program.
- **`AgcScalerProofs`**. `ClockInv` joins `Conserved` with what each stage knows
  of `deferred` and `delay`: at most eight MCTs pass between two ready points,
  24 thirds against the 80 of a tick, which is why a ready point finds at most
  one tick (`ClockKeepsUp`). `DownruptNotMissed` (no cycle passes over a due
  DOWNRUPT) and `DownruptExact` follow from looking at the due time in every MCT.
  `CountersTellTime`: with the ranges of scaler and counters (`TimeInv`) the
  property is inductive, for any number of phases that divides the scaler, since
  then the scaler's phase is that of `ticks`. It assumes that programs store in no
  counter but TIME6, as those of the run; a stored counter tells another time.
  `EveryTrapFires` and `Time6Exact` are facts about one tick under the types.
- **`AgcFaultsProofs`**, of the runtime and the engine around it. `QueueInv`:
  keys are unique, the collected keys are the due events not yet handled, and
  the clock has not moved since they were collected. From it `NothingOverdue`,
  `DeliveredInOrder` and `DeliveredOnTime`, for any events, any number of them,
  rejected ones included. That the queue has a first key at all needs the
  well-ordering of the natural numbers (`LeastKey`). `PulsesCounted`: a counter
  moves with the hardware by one's-complement addition of the encoded count, for
  every sixteen-bit count; one below −16383 is encoded one unit too high (see the
  next section). `EngineInv` extends `QueueInv`: an
  injected event still queued is due in the present cycle, so `InjectedInTime`.
  `FaultInv` says that scheduled faults lie at or after the present instruction
  count, with equality allowed only until the count moves, so
  `FaultsAtBoundary`. `CampaignTyped` adds the types of the trail and of the
  stuck channels.
- **`AgcMissionProofs`**. `DisplayFaithful` is inductive with the display's types:
  each digit is written by one relay only. `FramesInv`: the frames rise, none is
  later than the instruction count, and every multiple of the interval up to that
  count has one; hence `FramesComplete`. `GuidanceIsStarted`: a write that was
  recorded as expected is of a word that P63LM has written by then (`GuidanceInv`),
  so the last of the five says that all are. `MissionTyped` rests on the types of
  the runtime and of the campaign.
  `KeysInTurn` is the refinement to `KeyLine`. Its invariant `LineInv` says where
  the last key is: queued (`KeyQueued`), in channel 015 with its request
  (`KeyRequested`), in the routine that reads it (`InRoutine`) or with a job on its
  way to CHARIN (`JobUnseen`); all before it have been read and seen there
  (`InTurn`, `ReadSoFar`), and nothing forces the channel (`Unstuck`).
  It holds where the operator alone has the keyboard (`OnlyOperatorTypes`: no key,
  channel 015 or KEYRUPT1 from the scenario, the faults or the program's outputs):
  `mission_keys` is what happens otherwise. `ReportsSound` puts the three parts of
  `ReportSound` together, the request for P63 from `LineInv`.
- **`AgcExperimentsProofs`**. `RunsInv`: both runs are `Sound`, their logs in
  sequence, whole and abreast of the processor; hence `LogsWellFormed`.
  `ReaderInv`: what was read is the beginning of the trace, and what is left of the
  file is the rest of it or, if damaged, lines of the trace and cut lines that are
  too few by one at most; hence `ReaderExact`. `PathInv`: a complete baseline is
  the end of a path of runs, each the step of the one before; the faulted run is
  on that path up to its fault, alike in all but the trail after a fault that
  changed nothing, and parted from it at an event behind the boundary otherwise;
  hence `OutcomesSound` and `VerdictsHold`. `CoverInv`: the accumulator holds the
  counts of the events that the reader has returned (`CountsAgree`), each tagged
  with the number of its event, so that what the next event adds is counted beside
  what was there (`CountedBeside`) and the sums follow; every rope fetch is among
  the offsets of its bank; and the log's first event is at cycle 0 (`StartInv`);
  hence `CountsAddUp`. Programs are any deterministic machine (`Machine`), with any
  core states, that fetches one word in each event and enters a vector in an
  interrupt entry only.
- **`AgcArithmeticProofs`**. The run has eight boundary words; the theorems have
  all. `ArithmeticTypes`: the inductive invariant is `Represented` (each place
  holds what its width allows, and L no overflow). On it rest the action
  properties, each over every operand: `SumsAreExact`, `DoubleSumsConserve`,
  `ProductsAreExact`, `DivisionsAreExact` and `CcsCounting`, together
  `ArithmeticIsExact`; `ExchangesArePermutations` and `TransfersConserve`, together
  `MovesLoseNothing`. They cite a few lemmas about words: end-around addition is
  addition of the words' numbers up to the overflow that the place keeps
  (`KeptOf`), correction takes away one unit of 2^14, a swap of two places keeps
  the number of places that hold a word. `DivisionsGiveTheSame`: after i trial
  subtractions (`Reached`) quotient, remainder and the bits still to come make up
  the dividend; the state after fourteen is a quotient and a remainder smaller
  than the divisor, and there is one such pair for each sign (`OneQuotient`).
  `DecodedEncodes` goes through the mnemonics.

- **`AgcBuildProofs`**. The run has three free lines in one small tree; the
  theorems have any tree, overlay, entry and listing (`SourcesAssumption` says what
  a path, a line and an overlay are; `BinsourceAssumption` that there are the four
  banks that yaYUL's order names).
  - `ImageHoldsRecords` and `ReferencesLand` rest on `AssemblyInv`, in four parts.
    `TextInv` and `RecordsInv` are types: that of a symbol's value survives the
    equates' rounds (`RoundTyped`). `PlacesInv` is the first pass: a record is
    placed when its turn comes, and *as long as there is no diagnostic* a label has
    the place of its record and what stands behind an EXTEND comes next to it in
    memory. `EmitInv` is the second: again without a diagnostic, the image is what
    the records so far extend over, each word the code of its record. What that code
    is worth is shown apart: the word encoded for an instruction decodes as that
    instruction (`InstructionsHeld`, by `ExtendedDecodes`, `BasicDecodes` and
    `FieldlessDecodes`), the words emitted for data have the value of the operand
    (`EmittedData`, `DoubleReadsBack`). Neither can be
    shown of an accepted build alone, because the collisions that refuse one
    (AGCA005, AGCA050) are found long before its end. A label is reached because the
    address that the symbols give, decoded from the word and translated by
    `AgcMemory` with the label's bank selected, is the label's cell (`LabelReached`).
  - `RoutesAssembleOneText`: `ExpandInv` says that the records so far are what the
    open files have read. Each of these but the last stands behind an include that
    leads to the next (`Nested`), and has read its lines up to there, each from where
    it was entered (`Reading`); no file is open twice, so there are no more of them
    than files (`OpenFiles`) and the text of the entry, read to that depth, is
    complete (`ReadingEnds`). `StagedInv` says what is staged. The two trees read
    alike to every depth (`FilesReadAlike`), by the least depth at which they would
    not, since an alias's copy has the text of the file that the include leads to
    natively (`IncludesMeet`).
  - `AcceptedIsCertified`: `ListingInv` holds the cards' types and that an accepted
    listing passed the checksums. The loader reads back what was written
    (`WrittenIsRead`) since yaYUL's order of the banks is its own inverse, and a word
    changes the sum by the difference, up to the modulus of end-around addition
    (`SumsShift`, `ChangeUnseen`).

The fourteen trials are written as a composition (`Two`, `Six`, `Fourteen`) and
the bitwise gates over the set of bit positions, because the prover cannot unfold
a recursive operator. Where a definition recurs over data (checksums, rounds of
equates, included texts) it is a recursive function, and a proof of what it
computes looks at the least argument for which it would not (`LeastNatural`).

Model-checked only: liveness (`HighestServed`, `EventsLeave`, `StuckReleased`,
`SequenceCompletes`), which is out of the prover's reach.

## Where the code disagrees

With a run:

| Run | What it shows |
|---|---|
| `runtime_downlink` | `capture_output` takes both pending words out at every channel write, also when only one is there: no downlink frame is ever recorded. |
| `mission_keys` | The V37 model is fed the code that was *requested*, not the one that the rope read: a key of the scenario between two keys of the sequence, delivered before the first is read, makes the two differ. |
| `build_pairs` | DCA, DCS, DAS and DXCH on a label are assembled with the label's address; the processor takes the address as that of the second cell, so it reaches one cell too low. |

Met while modelling, without a run of their own. The models do what the code does.

- Division (`agc-cpu/src/lib.rs:1426`): L holds −0 in sixteen bits and is compared
  with fifteen: behind a positive A it counts as a borrow, and the dividend is
  2^14 too small. `DivisionExact` leaves this dividend out.
- Pulses (`agc-runtime/src/lib.rs:383-386`): any `i16` count is added to
  `hardware.imu`; one of −16384 or less fits no word and is encoded by its
  two's-complement bits, so the counter moves by one pulse fewer. The run has such
  a count, and `PulsesConserved` says exactly this of each.
- Stuck channels (`agc-faults/src/lib.rs:173`, `:175`; the comment at `:48` says
  "Force a channel to a value before a number of instructions."): events of the
  same step overwrite the forced channel before the instruction; interrupt
  entries use up the instructions; a count of zero forces once.
- Audit trail (`agc-faults/src/lib.rs:264`): a register fault records the word
  before EB masks it.
- Outcomes (`agc-experiments/src/lib.rs:189-201`): a fault that does not alter its
  target counts as activated unless it is a dropped interrupt; one obligation lost
  and another gained is not a degradation, nor is a loss in a run whose trace is
  equal.
- yaAGC (`agc-validation/src/lib.rs:287`): `complete` compares lengths only, and so
  can be true of a report that diverged.
- Milestones (`agc-mission/src/lib.rs:850`): an interrupt entry fetches the word it
  interrupts, so P63LM is reported when it is about to be executed.
- Overlay (`agc-overlay/src/lib.rs:333-346`): an alias file is copied before the
  edits, which go by path: a replacement that has edits differs between the two
  routes. It is copied to its path below the root, while the native route takes the
  alias from the directory of the including file (`agc-assembler/src/lib.rs:750`):
  in a file of another directory yaYUL does not find it; and an entry that only an
  alias names is found by yaYUL alone. `RoutesAgree` leaves these out
  (`EditsAnAlias`, `AliasesElsewhere`).
- Branches (`agc-isa/src/lib.rs:403`): BZF, BZMF and TCF on an erasable address have
  the words of DV, SU and CCS, and no diagnostic refuses them. The image properties say
  what such a word is (`Issued`).
- Symbols (`agc-symbols/src/lib.rs:42`): a label behind the last word of a bank
  resolves to the bank's first word. `ReferencesReach` leaves it out.
- Operands (`agc-ir/src/lib.rs:80`): only the first token of a field is read if
  it is a number or a symbol: `LABEL +1` with a space loses its offset.
- Prefixes (`agc-assembler/src/lib.rs:905`): `EXTEND`, `INDEX X`, `MP Y` is refused
  (AGCA032) although the machine keeps the prefix over an extended INDEX, and
  `EXTEND`, `CA X` is accepted. `EXTEND*` is assembled as EXTEND
  (`agc-isa/src/lib.rs:182`) but gives no context to what stands behind it
  (`agc-assembler/src/lib.rs:926`): an extracode there is refused, a basic
  instruction is not.
- Banks (`agc-assembler/src/lib.rs:1054`): a bank taken up again restarts at its
  first word, and its records collide (AGCA005) with those there.
- Checksums (`agc-assembler/src/lib.rs:566`): a change by a multiple of 2^14 − 1
  goes unseen, as `ListingCertified` says.

## Not modelled

- *Data in the control logic.* `AgcInterrupts` leaves what a program computes open
  (transfers go either way, `overflow` is over-approximated), so its safety
  results hold for every data. Programs do not modify themselves nor store in
  ZRUPT and BRUPT; stores in Z go to `ComputedTargets`. `AgcArithmetic` has no
  editing registers, banks or downlink channels: those are in `AgcMemory`,
  `AgcScaler` and `AgcRuntime`.
- *Clock.* Channels 3 and 4 are not written by programs, counters only with
  `StoredTimes`. Break- and watchpoints, which end `run` early, are left out.
- *Runtime.* The processor is its clock, requests and one channel write per
  instruction. The radar's shadow words and the read-only observers are left out.
- *Faults.* Masks are given by the word they produce; what an accepted rope flip
  does to the rope is in `AgcMemory`.
- *Mission.* Initialization patches, the landing frames' contents and the
  milestones beside `MODREG` and P63LM.
- *Evidence.* A trace event keeps the fields that comparisons and counts tell
  apart; the JSON and TSV text is a value.
- *Build.* The spelling of numbers and names, diagnostics' text, hashes, line
  endings. Equates follow each other through symbols only.
- *Whole crates*: `agc-fixed`, `agc-ast` and `agc-reports` are data without control;
  `agc-parser`, `agc-xref`, `agc-transpiler`, `agc-source` and `apollors-cli` are
  text and I/O; `agc-conformance` is a test suite of the processor;
  `agc-interpreter` is a stack machine that no crate runs.

## Plan

1. *Done*: memory, control logic, clock, runtime, faults, with their proofs.
2. *Done*: mission with display and keyboard; trace, coverage, validation and
   experiments; arithmetic; assembler, overlay, symbols, binsource and loader.
3. *Done*: the refinements to `AddressedStore` and `KeyLine`; traps, TIME6 and
   counters; pulses; types and reports of campaigns and missions; logs, readers,
   coverage and verdicts of experiments; the whole data path.
4. *Done*: the proofs of the build: image, references, routes and listings. Every
   invariant that a run checks is a theorem.
5. `AgcInterrupts` with the data path of `AgcArithmetic`, so that programs compute
   their transfers; `agc-interpreter`.
