----------------------------- MODULE AgcMission -----------------------------
(***************************************************************************)
(* The mission controller: crate agc-mission.  It supplies the scenario's  *)
(* inputs and the keys of an operator, steps the fault engine (AgcFaults,  *)
(* which steps the runtime), feeds the display (AgcDsky) and gathers       *)
(* evidence from the trace of every step.                                  *)
(*                                                                         *)
(* The rope is outside: `rope' is the part of Luminary that the controller *)
(* observes.  KEYRUPT1 reads channel 015 and leaves a job; the job runs    *)
(* CHARIN; V37E63E selects program 63 and P63LM writes five words.         *)
(*                                                                         *)
(* A run ends when the instruction budget is spent, so every state between *)
(* two steps is the end of some run.                                       *)
(***************************************************************************)
EXTENDS AgcFaults, AgcDsky

CONSTANTS
  Scenarios,        \* the inputs that a run may be given, by instruction
  SequenceKeys,     \* the codes of the operator's sequence
  StartCycle,       \* the earliest cycle of the first key
  MinimumGap,       \* the least number of cycles between two keys
  FrameInterval,    \* instructions between two frames
  Codes             \* the codes of the keys

P63Keys == <<\o21, 3, 7, \o34, 6, 3, \o34>>
InitializationWords == 5   \* WHICH, DVTHRUSH, DVCNTR, WCHPHASE, FLPASS0

(* MissionScenario::validate.                                              *)
ASSUME MissionAssumption ==
  /\ Scenarios \subseteq Seq([instruction : Nat, event : Inputs])
  /\ \A scenario \in Scenarios : \A i, j \in DOMAIN scenario :
       i < j => scenario[i].instruction <= scenario[j].instruction
  /\ SequenceKeys \in Seq(0 .. \o37)
  /\ \A k \in DOMAIN SequenceKeys : [kind |-> "key", code |-> SequenceKeys[k]] \in Inputs
  /\ \A v \in Inputs : v.kind = "key" => v.code \in Codes
  /\ StartCycle \in Nat /\ MinimumGap \in Nat \ {0} /\ FrameInterval \in Nat \ {0}

VARIABLES
  inputs,          \* the scenario's inputs
  input_index,     \* those supplied
  dsky_index,      \* the operator's keys supplied
  next_dsky_cycle, \* not before this cycle the next one
  offering,        \* the loop is at its top, supplying inputs
  aborted,         \* the run has returned an error
  evidence,        \* KeyEvidence, in the order the keys were supplied
  pinball,         \* the readable model of V37, or Unused
  milestones,      \* MODREG=63 and P63LM: seen or not
  guidance_writes, \* the initialization words seen written, in order
  sampled,         \* the instruction counts of the frames
  dsky,            \* the display
  relay_words,     \* history: the last word written to each relay
  rope             \* the observed part of the rope

controller == <<inputs, input_index, dsky_index, next_dsky_cycle, offering, aborted>>
record == <<evidence, pinball, milestones, guidance_writes, sampled>>
display == <<dsky, relay_words>>
mission == <<controller, record, display, rope>>
missionvars == <<allvars, mission>>

Unused == [AwaitVerb EXCEPT !.state = "unused"]
NoWrite == [name |-> 0, expected |-> TRUE]
NewRope ==
  [routine |-> "none", word |-> None, jobs |-> <<>>, at |-> "elsewhere",
   substitute |-> FALSE, read |-> <<>>, typed |-> <<>>, modreg |-> 0,
   started |-> FALSE, written |-> 0]

InitMission ==
  /\ InitFaults
  /\ inputs \in Scenarios
  /\ input_index = 0 /\ dsky_index = 0
  /\ next_dsky_cycle = StartCycle
  /\ offering = TRUE
  /\ aborted = FALSE
  /\ evidence = <<>>
  /\ pinball = IF SequenceKeys = P63Keys THEN AwaitVerb ELSE Unused
  /\ milestones = {}
  /\ guidance_writes = <<>>
  /\ sampled = <<>>
  /\ dsky = Dark
  /\ relay_words = [r \in 1 .. 15 |-> None]
  /\ rope = NewRope

-----------------------------------------------------------------------------
(* Supplying inputs, before each step: those of the scenario that are due, *)
(* then a key if the last one has been acknowledged.                       *)
InputDue ==
  /\ input_index < Len(inputs)
  /\ inputs[input_index + 1].instruction <= instructions

Supplied(c) == [code |-> c, keyrupt |-> FALSE, charin |-> FALSE]

offer_input ==
  LET v == inputs[input_index + 1].event IN
  /\ offering /\ ~aborted
  /\ InputDue
  /\ Enqueue(cycles, v)
  /\ evidence' = IF v.kind = "key" THEN Append(evidence, Supplied(v.code)) ELSE evidence
  /\ input_index' = input_index + 1
  /\ UNCHANGED <<stage, keys, machine, frames, clock, campaign, inputs, dsky_index,
                 next_dsky_cycle, offering, aborted, pinball, milestones,
                 guidance_writes, sampled, display, rope>>

(* Mutants: a key waits for the gap only; for KEYRUPT1 only.               *)
Acknowledged_unasked == TRUE
Acknowledged_by_keyrupt == evidence # <<>> => evidence[Len(evidence)].keyrupt
Acknowledged ==
  evidence # <<>> => evidence[Len(evidence)].keyrupt /\ evidence[Len(evidence)].charin

KeyDue ==
  /\ dsky_index < Len(SequenceKeys)
  /\ cycles >= next_dsky_cycle
  /\ Acknowledged

offer_key ==
  LET c == SequenceKeys[dsky_index + 1] IN
  /\ offering /\ ~aborted
  /\ ~InputDue /\ KeyDue
  /\ Enqueue(cycles, [kind |-> "key", code |-> c])
  /\ evidence' = Append(evidence, Supplied(c))
  /\ dsky_index' = dsky_index + 1
  /\ next_dsky_cycle' = Stopped(cycles + MinimumGap)
  /\ UNCHANGED <<stage, keys, machine, frames, clock, campaign, inputs, input_index,
                 offering,
                 aborted, pinball, milestones, guidance_writes, sampled,
                 display, rope>>

offered ==
  /\ offering /\ ~aborted
  /\ ~InputDue /\ ~KeyDue
  /\ offering' = FALSE
  /\ UNCHANGED <<allvars, inputs, input_index, dsky_index, next_dsky_cycle, aborted, record,
                 display, rope>>

-----------------------------------------------------------------------------
(* observe_evidence, from the trace of a step: the interrupt it entered,   *)
(* the place of its first memory access, the word it wrote.                *)
(***************************************************************************)
FirstKey(wanted) ==
  IF wanted = {} THEN 0 ELSE CHOOSE k \in wanted : \A j \in wanted : k <= j
NotEntered(list) == {k \in DOMAIN list : ~list[k].keyrupt}
NotAccepted(list) == {k \in DOMAIN list : list[k].keyrupt /\ ~list[k].charin}

AfterEntry(number) ==
  LET k == FirstKey(NotEntered(evidence))
  IN  IF number = Key1 /\ k # 0 THEN [evidence EXCEPT ![k].keyrupt = TRUE] ELSE evidence

Seen(first) ==
  (IF rope'.modreg = 63 THEN {"MODREG=63"} ELSE {})
    \cup (IF first = "P63LM" THEN {"P63LM"} ELSE {})

observe(number, first, write) ==
  LET list == AfterEntry(number)
      k == IF first = "CHARIN" THEN FirstKey(NotAccepted(list)) ELSE 0
      fed == k # 0 /\ pinball # Unused
      rejected == fed /\ ~Acceptable(pinball, list[k].code)
  IN  /\ evidence' = IF k = 0 THEN list ELSE [list EXCEPT ![k].charin = TRUE]
      /\ pinball' = IF fed /\ ~rejected THEN accept_code(pinball, list[k].code) ELSE pinball
      /\ aborted' = rejected
      /\ milestones' = IF rejected THEN milestones ELSE milestones \cup Seen(first)
      /\ guidance_writes' =
           IF /\ ~rejected /\ write # NoWrite
              /\ "P63LM" \in milestones'
              /\ \A j \in DOMAIN guidance_writes : guidance_writes[j].name # write.name
           THEN Append(guidance_writes, write) ELSE guidance_writes

(* A frame is kept once per instruction count, interrupt entries included. *)
FrameDue(n) ==
  n % FrameInterval = 0 /\ (sampled = <<>> \/ sampled[Len(sampled)] # n)
sample ==
  sampled' = IF ~aborted' /\ FrameDue(instructions')
             THEN Append(sampled, instructions') ELSE sampled

(* The display sees the channel writes of the step.                        *)
consume_trace ==
  \/ channels' = channels /\ UNCHANGED display
  \/ \E o \in Outputs :
       /\ channels' = [channels EXCEPT ![o[1]] = o[2]]
       /\ dsky' = write_channel_dsky(dsky, o[1], o[2])
       /\ relay_words' = IF o[1] = \o10 /\ Relay(o[2]) # 0
                         THEN [relay_words EXCEPT ![Relay(o[2])] = o[2]] ELSE relay_words

-----------------------------------------------------------------------------
(* The rope.  An interrupt is entered outside routines only; its entry     *)
(* fetches the word it interrupts, and after RESUME that word comes from   *)
(* BRUPT.                                                                  *)
Fetch == IF rope.substitute THEN "BRUPT"
         ELSE IF rope.routine = "none" THEN rope.at ELSE "elsewhere"
Highest == CHOOSE i \in pending_interrupts : \A j \in pending_interrupts : i <= j
Enters ==
  rope' = [rope EXCEPT !.routine = IF Highest = Key1 THEN "key" ELSE "other",
                       !.word = None, !.substitute = FALSE]
Written(i) == [name |-> i, expected |-> TRUE]

(* One instruction of a routine, and one of the interrupted program.       *)
RoutineReads ==
  /\ rope.routine = "key" /\ rope.word = None
  /\ rope' = [rope EXCEPT !.word = channels[\o15], !.read = Append(@, channels[\o15])]
RoutineResumes ==
  /\ rope.routine = "other" \/ (rope.routine = "key" /\ rope.word # None)
  /\ rope' = [rope EXCEPT !.routine = "none", !.word = None, !.substitute = TRUE,
                !.jobs = IF rope.routine = "key" THEN Append(@, rope.word) ELSE @]
Runs(next) == rope.routine = "none" /\ rope' = [next EXCEPT !.substitute = FALSE]
CharinRuns ==
  /\ rope.at = "CHARIN"
  /\ Runs([rope EXCEPT !.typed = Append(@, Head(rope.jobs)), !.jobs = Tail(@),
                       !.at = "elsewhere"])
P63lmRuns ==
  /\ rope.at = "P63LM"
  /\ Runs([rope EXCEPT !.started = TRUE, !.at = "elsewhere"])
JobStarts ==
  /\ rope.at = "elsewhere" /\ rope.jobs # <<>>
  /\ Runs([rope EXCEPT !.at = "CHARIN"])
ProgramSelected ==
  /\ rope.at = "elsewhere" /\ rope.typed = P63Keys /\ rope.modreg = 0
  /\ Runs([rope EXCEPT !.modreg = 63])
ProgramStarts ==
  /\ rope.at = "elsewhere" /\ rope.modreg = 63 /\ ~rope.started
  /\ Runs([rope EXCEPT !.at = "P63LM"])
RopeProgress ==
  \/ RoutineReads \/ RoutineResumes \/ CharinRuns \/ P63lmRuns
  \/ JobStarts \/ ProgramSelected \/ ProgramStarts
WordWritten ==
  /\ rope.at = "elsewhere" /\ rope.started /\ rope.written < InitializationWords
  /\ Runs([rope EXCEPT !.written = @ + 1])
(* Any other instruction; another program may write the same words.        *)
Elsewhere == rope.at = "elsewhere" /\ Runs(rope)

rope_step ==
  \/ RopeProgress /\ observe(0, Fetch, NoWrite)
  \/ WordWritten /\ observe(0, Fetch, Written(rope'.written))
  \/ Elsewhere /\ observe(0, Fetch, NoWrite)
  \/ /\ rope.routine = "other" /\ UNCHANGED rope
     /\ observe(0, Fetch, [name |-> InitializationWords, expected |-> FALSE])

-----------------------------------------------------------------------------
(* One pass of the loop: a step of the engine and what is learnt from it.  *)
Returned ==
  /\ offering' = TRUE
  /\ UNCHANGED <<inputs, input_index, dsky_index, next_dsky_cycle>>

engine_part ==
  /\ ~offering /\ ~aborted
  /\ \/ begin_engine_step \/ apply_fault \/ enforce_channels
     \/ deliver /\ UNCHANGED campaign
  /\ UNCHANGED mission

engine_fails ==
  /\ ~offering /\ ~aborted
  /\ (reject_fault \/ (reject_event /\ UNCHANGED campaign))
  /\ aborted' = TRUE
  /\ UNCHANGED <<inputs, input_index, dsky_index, next_dsky_cycle, offering, record, display,
                 rope>>

interrupt_step ==
  /\ ~offering /\ ~aborted
  /\ rope.routine = "none" /\ pending_interrupts # {}
  /\ enter_interrupt /\ retain
  /\ Enters
  /\ observe(Highest, Fetch, NoWrite)
  /\ sample /\ Returned /\ UNCHANGED display

instruction_step ==
  /\ ~offering /\ ~aborted
  /\ execute /\ retain
  /\ rope_step
  /\ consume_trace /\ sample /\ Returned

controller_step == offer_input \/ offer_key \/ offered \/ engine_part \/ engine_fails
NextMission ==
  \/ controller_step \/ interrupt_step \/ instruction_step
  \/ \E n \in Boundaries, f \in Faults :
       schedule_fault(n, f) /\ instructions = 0 /\ offering /\ UNCHANGED mission

(* The controller loops without a pause; the rope goes on with its work    *)
(* and enables interrupts again and again.                                 *)
SpecMission == InitMission /\ [][NextMission]_missionvars
FairMission ==
  /\ SpecMission
  /\ WF_missionvars(controller_step \/ interrupt_step \/ instruction_step)
  /\ SF_missionvars(instruction_step /\ RopeProgress)
  /\ SF_missionvars(interrupt_step)
-----------------------------------------------------------------------------
(* What a run that ends here reports.                                      *)
keyboard_sequence_verified ==
  /\ evidence # <<>>
  /\ \A k \in DOMAIN evidence : evidence[k].keyrupt /\ evidence[k].charin

pinball_reconstruction_matches_rope ==
  pinball # Unused /\ pinball.program_register \notin {NoProgram}
    /\ pinball.program_register = rope.modreg

verified_p63_request ==
  /\ keyboard_sequence_verified
  /\ pinball_reconstruction_matches_rope
  /\ {"MODREG=63", "P63LM"} \subseteq milestones

(* Mutant: the words may have any value.                                   *)
landing_guidance_started_any_value ==
  \E at \in [1 .. InitializationWords -> DOMAIN guidance_writes] :
    \A i \in 1 .. InitializationWords :
      guidance_writes[at[i]].name = i /\ (i > 1 => at[i - 1] < at[i])
landing_guidance_started ==
  \E at \in [1 .. InitializationWords -> DOMAIN guidance_writes] :
    \A i \in 1 .. InitializationWords :
      /\ guidance_writes[at[i]] = Written(i)
      /\ i > 1 => at[i - 1] < at[i]

reported_frames ==
  IF sampled = <<>> \/ sampled[Len(sampled)] # instructions
  THEN Append(sampled, instructions) ELSE sampled

-----------------------------------------------------------------------------
KeyEvidence == [code : Codes, keyrupt : BOOLEAN, charin : BOOLEAN]

TypeMission ==
  /\ TypeFaults
  /\ input_index \in 0 .. Len(inputs)
  /\ dsky_index \in 0 .. Len(SequenceKeys)
  /\ evidence \in Seq(KeyEvidence)
  /\ pinball # Unused => /\ pinball.verb_register \in {NoProgram, 37}
                         /\ pinball.program_register \in {NoProgram} \cup 0 .. 99
  /\ milestones \subseteq {"MODREG=63", "P63LM"}
  /\ dsky.registers \in [Positions -> 0 .. Blank]
  /\ dsky.lamps \subseteq LampNames
  /\ {rope.read[k] : k \in DOMAIN rope.read} \subseteq Word

Requested == [k \in DOMAIN evidence |-> evidence[k].code]
AsAccepted(e) == e.charin
Fed == LET accepted == SelectSeq(evidence, AsAccepted)
       IN  [k \in DOMAIN accepted |-> accepted[k].code]

(* The readable model of V37 is "fed only keys accepted by rope CHARIN":   *)
(* the codes handed to it are words that KEYRUPT1 read, in that order      *)
(* (observe_evidence takes them from the list of requested keys).          *)
FedAsRead ==
  /\ Len(Fed) <= Len(rope.read)
  /\ Fed = SubSeq(rope.read, 1, Len(Fed))

(* The keyboard is the operator's: no scenario, fault or program strikes a *)
(* key, writes its channel or requests its interrupt.                      *)
Foreign(v) ==
  /\ v.kind # "key"
  /\ v.kind = "channel" => v.channel # \o15
  /\ v.kind = "interrupt" => v.interrupt # Key1
OnlyOperatorTypes ==
  /\ \A scenario \in Scenarios : \A k \in DOMAIN scenario : Foreign(scenario[k].event)
  /\ \A f \in Faults : /\ f.kind = "inject" => Foreign(f.event)
                       /\ f.kind = "stuck" => f.channel # \o15
  /\ \A o \in Outputs : o[1] # \o15
  /\ Key1 \notin Raised

(* Keys reach the rope one at a time, each as it was requested and before  *)
(* the next is (the acknowledgements that run waits for).                  *)
Line == INSTANCE KeyLine WITH Codes <- Codes, typed <- Requested, received <- rope.read
ImplementsKeyLine == Line!Spec

(* What a report claims is so (run).  Landing guidance has started only    *)
(* after P63LM itself has written its five words, whatever else writes     *)
(* them or is interrupted.                                                 *)
GuidanceReported ==
  landing_guidance_started => rope.started /\ rope.written = InitializationWords

(* A verified request means that the rope has read every key as it was     *)
(* requested and is at the program's start or past it (an interrupt entry  *)
(* there fetches its first word too, and leaves it to be executed).        *)
RequestReported ==
  verified_p63_request =>
    rope.read = Requested /\ (rope.started \/ rope.at = "P63LM")

(* There is one frame for every multiple of the interval, in order,        *)
(* although interrupt entries do not advance the count.                    *)
FramesReported ==
  ~aborted =>
    /\ \A i, j \in DOMAIN reported_frames :
         i < j => reported_frames[i] < reported_frames[j]
    /\ \A n \in 1 .. instructions :
         n % FrameInterval = 0 => \E k \in DOMAIN reported_frames : reported_frames[k] = n
(* The three claims of a report.                                           *)
ReportSound == GuidanceReported /\ RequestReported /\ FramesReported

(* Every digit shows what the last word for its own relay says, whatever   *)
(* was written to the relays around it (write_relay).                      *)
DrivenBy(p) == IF p = 0 THEN 8 ELSE 7 - (p - 1) \div 2
DisplayShowsLastWords ==
  \A p \in Positions :
    LET w == relay_words[DrivenBy(p)]
    IN  dsky.registers[p] = IF w = None THEN Blank
                            ELSE IF p % 2 = 1 THEN Upper(w) ELSE Lower(w)

(* The operator's keys are all supplied, read and acknowledged in the end, *)
(* unless the run fails or a fault has dropped the request of one (run).   *)
Dropped ==
  \E k \in DOMAIN applied : applied[k].fault = [kind |-> "drop", interrupt |-> Key1]
SequenceCompletes ==
  <>(aborted \/ Dropped \/ (dsky_index = Len(SequenceKeys) /\ keyboard_sequence_verified))
=============================================================================
