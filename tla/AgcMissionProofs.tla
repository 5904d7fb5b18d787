-------------------------- MODULE AgcMissionProofs --------------------------
(***************************************************************************)
(* Theorems about AgcMission: for any scenario, any operator's sequence    *)
(* and any campaign of faults, what a run shows and what it reports.       *)
(***************************************************************************)
EXTENDS AgcMission, AgcFaultsProofs

(* The controller's own steps leave what is learnt from the rope alone.    *)
LEMMA OnlyStepsObserve ==
  ASSUME [NextMission]_missionvars, ~interrupt_step, ~instruction_step
  PROVE  /\ UNCHANGED <<pinball, milestones, guidance_writes, sampled, display, rope>>
         /\ UNCHANGED <<instructions, inputs>>
         /\ aborted' = aborted \/ aborted'
<1> USE DEF mission, controller, record, allvars, vars, clock
<1>1. CASE offer_input
  BY <1>1 DEF offer_input
<1>2. CASE offer_key
  BY <1>2 DEF offer_key
<1>3. CASE offered
  BY <1>3 DEF offered
<1>4. CASE engine_part
  BY <1>4 DEF engine_part, begin_engine_step, apply_fault, enforce_channels, deliver
<1>5. CASE engine_fails
  BY <1>5 DEF engine_fails, reject_fault, reject_event
<1>6. CASE \E n \in Boundaries, f \in Faults :
             schedule_fault(n, f) /\ instructions = 0 /\ offering /\ UNCHANGED mission
  BY <1>6 DEF schedule_fault
<1>7. CASE UNCHANGED missionvars
  BY <1>7 DEF missionvars
<1> QED  BY <1>1, <1>2, <1>3, <1>4, <1>5, <1>6, <1>7 DEF NextMission, controller_step

-----------------------------------------------------------------------------
(***************************************************************************)
(* The display.                                                            *)
(***************************************************************************)
DisplayTypes ==
  /\ {"registers", "lamps"} \subseteq DOMAIN dsky
  /\ dsky.registers \in [Positions -> 0 .. Blank]
  /\ dsky.lamps \subseteq LampNames
  /\ relay_words \in [1 .. 15 -> Word \cup {None}]
DisplayInv == DisplayTypes /\ DisplayShowsLastWords

(* The relay word that drives a digit, and the digits that it drives.      *)
LEMMA Driven ==
  ASSUME NEW p \in Positions
  PROVE  /\ DrivenBy(p) \in 1 .. 8
         /\ DrivenBy(p) = 8 <=> p = 0
         /\ \A r \in 1 .. 7 :
              /\ DrivenBy(p) = r <=> p = Linear(r) + 1 \/ p = Linear(r) + 2
              /\ p = Linear(r) + 1 => p % 2 = 1
              /\ p = Linear(r) + 2 => p % 2 = 0
<1>1. p \in Nat /\ p <= 14
  BY DEF Positions
<1>2. CASE p = 0
  BY <1>2 DEF DrivenBy, Linear
<1>3. CASE p # 0
  <2> DEFINE h == (p - 1) \div 2
  <2>1. h \in Nat /\ (p - 1 = 2 * h \/ p - 1 = 2 * h + 1)
    BY <1>1, <1>3
  <2>2. p - 1 = 2 * h => p % 2 = 1
    BY <1>1, <2>1
  <2>3. p - 1 = 2 * h + 1 => p % 2 = 0
    BY <1>1, <2>1
  <2>4. DrivenBy(p) = 7 - h
    BY <1>3 DEF DrivenBy
  <2> HIDE DEF h
  <2>5. h <= 6
    BY <1>1, <2>1
  <2> QED  BY <1>1, <1>3, <2>1, <2>2, <2>3, <2>4, <2>5 DEF Linear
<1> QED  BY <1>2, <1>3

LEMMA Decoded == \A c : decode_digit(c) \in 0 .. Blank
<1>1. ASSUME NEW c, \E d \in 0 .. 9 : SegmentCodes[d + 1] = c  PROVE decode_digit(c) \in 0 .. 9
  BY <1>1, Zenon DEF decode_digit
<1>2. ASSUME NEW c, ~\E d \in 0 .. 9 : SegmentCodes[d + 1] = c  PROVE decode_digit(c) = Blank
  BY <1>2, Zenon DEF decode_digit
<1> QED  BY <1>1, <1>2 DEF Blank

(* What a relay word does to the digits, whatever the display showed.      *)
LEMMA RelayWritten ==
  ASSUME NEW d, NEW w \in Word, {"registers", "lamps"} \subseteq DOMAIN d,
         DOMAIN d.registers = Positions, d.registers = [p \in Positions |-> d.registers[p]],
         d.lamps \subseteq LampNames
  PROVE  LET e == write_relay(d, w)
             r == Relay(w)
         IN  /\ DOMAIN e = DOMAIN d
             /\ e.lamps \subseteq LampNames
             /\ e.registers = [p \in Positions |->
                  IF DrivenBy(p) = r
                  THEN IF p % 2 = 1 THEN Upper(w) ELSE Lower(w)
                  ELSE d.registers[p]]
<1> DEFINE r == Relay(w)
           e == [d EXCEPT !.last_relay_word = w]
           x == write_relay(d, w)
           shown == [p \in Positions |->
                  IF DrivenBy(p) = r
                  THEN IF p % 2 = 1 THEN Upper(w) ELSE Lower(w)
                  ELSE d.registers[p]]
<1>1. DOMAIN e = DOMAIN d /\ e.registers = d.registers /\ e.lamps = d.lamps
  OBVIOUS
<1>2. r \in Nat
  BY DEF Relay, Word
<1>3. x = IF r \in 1 .. 7
          THEN [e EXCEPT !.registers = [p \in Positions |->
                  IF p = Linear(r) + 1 THEN Upper(w)
                  ELSE IF p = Linear(r) + 2 THEN Lower(w) ELSE d.registers[p]]]
          ELSE IF r = 8 THEN [e EXCEPT !.registers[0] = Lower(w), !.minus[0] = Lit(w, \o2000)]
          ELSE IF \E n \in DOMAIN Pairs : Pairs[n] = r
          THEN [e EXCEPT !.pairs = [n \in DOMAIN Pairs |->
                  IF Pairs[n] = r THEN <<Upper(w), Lower(w)>> ELSE d.pairs[n]]]
          ELSE IF r = 12 THEN [e EXCEPT !.lamps = Switched(d.lamps, RelayLamps, w)] ELSE e
  BY DEF write_relay
<1> HIDE DEF r, e, x
<1>4. CASE r \in 1 .. 7
  <2>1. x = [e EXCEPT !.registers = [p \in Positions |->
                  IF p = Linear(r) + 1 THEN Upper(w)
                  ELSE IF p = Linear(r) + 2 THEN Lower(w) ELSE d.registers[p]]]
    BY <1>3, <1>4
  <2>2. \A p \in Positions :
          (IF p = Linear(r) + 1 THEN Upper(w)
           ELSE IF p = Linear(r) + 2 THEN Lower(w) ELSE d.registers[p]) = shown[p]
    BY <1>4, Driven
  <2>3. x.registers = shown /\ DOMAIN x = DOMAIN d /\ x.lamps = d.lamps
    BY <1>1, <2>1, <2>2
  <2> QED  BY <2>3 DEF x, r
<1>5. CASE r = 8
  <2>1. x = [e EXCEPT !.registers[0] = Lower(w), !.minus[0] = Lit(w, \o2000)]
    BY <1>3, <1>5
  <2>2. x.registers = [d.registers EXCEPT ![0] = Lower(w)]
        /\ DOMAIN x = DOMAIN d /\ x.lamps = d.lamps
    BY <1>1, <2>1
  <2>3. \A p \in Positions : shown[p] = IF p = 0 THEN Lower(w) ELSE d.registers[p]
    BY <1>5, Driven
  <2>4. x.registers = shown
    BY <2>2, <2>3
  <2> QED  BY <2>2, <2>4 DEF x, r
<1>6. CASE r \notin 1 .. 8
  <2>1. shown = d.registers
    BY <1>6, Driven
  <2>2. x.registers = d.registers /\ DOMAIN x = DOMAIN d
    BY <1>1, <1>2, <1>3, <1>6
  <2>3. x.lamps \subseteq LampNames
    <3>1. Switched(d.lamps, RelayLamps, w) \subseteq LampNames
      BY DEF Switched, LampNames
    <3>2. x.lamps = d.lamps \/ x.lamps = Switched(d.lamps, RelayLamps, w)
      BY <1>1, <1>2, <1>3, <1>6
    <3> QED  BY <3>1, <3>2
  <2> QED  BY <2>1, <2>2, <2>3 DEF x, r
<1> QED  BY <1>2, <1>4, <1>5, <1>6
(* The other output channels leave the digits alone.                       *)
LEMMA OthersWritten ==
  ASSUME NEW d, NEW ch, NEW w, {"registers", "lamps"} \subseteq DOMAIN d,
         d.lamps \subseteq LampNames, ch # \o10
  PROVE  LET e == write_channel_dsky(d, ch, w)
         IN  DOMAIN e = DOMAIN d /\ e.lamps \subseteq LampNames /\ e.registers = d.registers
<1>1. /\ Switched(d.lamps, WordLamps, w) \subseteq LampNames
      /\ Switched(d.lamps, ExtendedLamps, w) \subseteq LampNames
  BY DEF Switched, LampNames
<1>2. LET e == write_lamps(d, w)
      IN  DOMAIN e = DOMAIN d /\ e.lamps \subseteq LampNames /\ e.registers = d.registers
  BY <1>1 DEF write_lamps
<1>3. LET e == [d EXCEPT !.flash = Lit(w, \o1000)]
      IN  DOMAIN e = DOMAIN d /\ e.lamps \subseteq LampNames /\ e.registers = d.registers
  OBVIOUS
<1>4. LET e == [d EXCEPT !.lamps = Switched(@, ExtendedLamps, w)]
      IN  DOMAIN e = DOMAIN d /\ e.lamps \subseteq LampNames /\ e.registers = d.registers
  BY <1>1
<1> QED  BY <1>2, <1>3, <1>4 DEF write_channel_dsky

LEMMA DisplayWritten ==
  ASSUME DisplayInv, NEW o \in Outputs,
         dsky' = write_channel_dsky(dsky, o[1], o[2]),
         relay_words' = IF o[1] = \o10 /\ Relay(o[2]) # 0
                        THEN [relay_words EXCEPT ![Relay(o[2])] = o[2]] ELSE relay_words
  PROVE  DisplayInv'
<1> DEFINE w == o[2]
           r == Relay(w)
<1>1. w \in Word /\ w # None
  BY RuntimeAssumption
<1>2. r \in 0 .. 15
  BY <1>1 DEF Word, Relay
<1>3. \A p \in Positions : DrivenBy(p) \in 1 .. 8 /\ DrivenBy(p) # 0
  BY Driven
<1>4. Upper(w) \in 0 .. Blank /\ Lower(w) \in 0 .. Blank
  BY Decoded DEF Upper, Lower
<1> HIDE DEF w, r
<1>5. CASE o[1] = \o10
  <2>1. dsky' = write_relay(dsky, w)
    BY <1>5 DEF write_channel_dsky, w
  <2> DEFINE shown == [p \in Positions |->
                  IF DrivenBy(p) = r
                  THEN IF p % 2 = 1 THEN Upper(w) ELSE Lower(w)
                  ELSE dsky.registers[p]]
  <2>2. /\ DOMAIN dsky' = DOMAIN dsky
        /\ dsky'.lamps \subseteq LampNames
        /\ dsky'.registers = shown
    BY <1>1, <2>1, RelayWritten DEF DisplayInv, DisplayTypes, r
  <2>3. shown \in [Positions -> 0 .. Blank]
    BY <1>4 DEF DisplayInv, DisplayTypes
  <2>4. relay_words' = IF r # 0 THEN [relay_words EXCEPT ![r] = w] ELSE relay_words
    BY <1>5 DEF r, w
  <2>5. relay_words' \in [1 .. 15 -> Word \cup {None}]
    BY <1>1, <1>2, <2>4 DEF DisplayInv, DisplayTypes
  <2>6. ASSUME NEW p \in Positions
        PROVE  dsky'.registers[p] =
                 IF relay_words'[DrivenBy(p)] = None THEN Blank
                 ELSE IF p % 2 = 1 THEN Upper(relay_words'[DrivenBy(p)])
                 ELSE Lower(relay_words'[DrivenBy(p)])
    <3>1. CASE DrivenBy(p) = r
      <4>1. relay_words'[DrivenBy(p)] = w
        BY <1>2, <1>3, <2>4, <3>1 DEF DisplayInv, DisplayTypes
      <4>2. dsky'.registers[p] = IF p % 2 = 1 THEN Upper(w) ELSE Lower(w)
        BY <2>2, <3>1
      <4> QED  BY <1>1, <4>1, <4>2
    <3>2. CASE DrivenBy(p) # r
      <4>1. relay_words'[DrivenBy(p)] = relay_words[DrivenBy(p)]
        BY <1>2, <1>3, <2>4, <3>2 DEF DisplayInv, DisplayTypes
      <4>2. dsky'.registers[p] = dsky.registers[p]
        BY <2>2, <3>2
      <4> QED  BY <4>1, <4>2 DEF DisplayInv, DisplayShowsLastWords
    <3> QED  BY <3>1, <3>2
  <2>7. DisplayTypes'
    BY <2>2, <2>3, <2>5 DEF DisplayInv, DisplayTypes
  <2> QED  BY <2>6, <2>7 DEF DisplayInv, DisplayShowsLastWords
<1>6. CASE o[1] # \o10
  <2>1. /\ DOMAIN dsky' = DOMAIN dsky /\ dsky'.lamps \subseteq LampNames
        /\ dsky'.registers = dsky.registers /\ relay_words' = relay_words
    BY <1>6, OthersWritten DEF DisplayInv, DisplayTypes
  <2> QED  BY <2>1 DEF DisplayInv, DisplayTypes, DisplayShowsLastWords
<1> QED  BY <1>5, <1>6

LEMMA DisplayInductive == DisplayInv /\ [NextMission]_missionvars => DisplayInv'
<1> SUFFICES ASSUME DisplayInv, [NextMission]_missionvars PROVE DisplayInv'
  OBVIOUS
<1>1. ASSUME UNCHANGED display  PROVE DisplayInv'
  BY <1>1 DEF display, DisplayInv, DisplayTypes, DisplayShowsLastWords
<1>2. CASE interrupt_step
  BY <1>1, <1>2 DEF interrupt_step
<1>3. CASE instruction_step
  BY <1>1, <1>3, DisplayWritten DEF instruction_step, consume_trace
<1>4. CASE ~interrupt_step /\ ~instruction_step
  BY <1>1, <1>4, OnlyStepsObserve
<1> QED  BY <1>2, <1>3, <1>4

LEMMA DisplayInitial == InitMission => DisplayInv
<1> SUFFICES ASSUME InitMission PROVE DisplayInv
  OBVIOUS
<1>1. /\ {"registers", "lamps"} \subseteq DOMAIN dsky /\ dsky.lamps = {}
      /\ dsky.registers = [p \in Positions |-> Blank]
      /\ relay_words = [r \in 1 .. 15 |-> None]
  BY DEF InitMission, Dark
<1>2. DisplayTypes
  BY <1>1 DEF DisplayTypes, Blank
<1>3. \A p \in Positions : relay_words[DrivenBy(p)] = None
  <2>1. \A p \in Positions : DrivenBy(p) \in 1 .. 15
    BY Driven
  <2> QED  BY <1>1, <2>1
<1>4. DisplayShowsLastWords
  BY <1>1, <1>3 DEF DisplayShowsLastWords
<1> QED  BY <1>2, <1>4 DEF DisplayInv

(* Every digit shows what the last word for its own relay says, whatever   *)
(* words and channels the program writes around it (write_relay).          *)
THEOREM DisplayFaithful == SpecMission => []DisplayShowsLastWords
<1>1. DisplayInv => DisplayShowsLastWords
  BY DEF DisplayInv
<1> QED  BY <1>1, DisplayInitial, DisplayInductive, PTL DEF SpecMission
-----------------------------------------------------------------------------
(***************************************************************************)
(* The frames.                                                             *)
(***************************************************************************)
Rising(list) == \A i, j \in DOMAIN list : i < j => list[i] < list[j]
UpTo(list, n) == \A i \in DOMAIN list : list[i] <= n
Covers(list, n) ==
  \A m \in 1 .. n : m % FrameInterval = 0 => \E k \in DOMAIN list : list[k] = m
FramesInv ==
  /\ instructions \in Nat /\ instructions <= Horizon
  /\ sampled \in Seq(Nat)
  /\ Rising(sampled)
  /\ UpTo(sampled, instructions)
  /\ ~aborted => Covers(sampled, instructions)

(* A number no smaller than the last, and other than it, goes on rising.   *)
LEMMA RisingAppended ==
  ASSUME NEW list \in Seq(Nat), NEW n \in Nat, Rising(list), UpTo(list, n),
         list = <<>> \/ list[Len(list)] # n
  PROVE  /\ Append(list, n) \in Seq(Nat)
         /\ Rising(Append(list, n)) /\ UpTo(Append(list, n), n)
         /\ \A k \in DOMAIN list : k \in DOMAIN Append(list, n) /\ Append(list, n)[k] = list[k]
         /\ Len(list) + 1 \in DOMAIN Append(list, n) /\ Append(list, n)[Len(list) + 1] = n
<1> DEFINE l == Len(list)
           longer == Append(list, n)
<1>1. l \in Nat /\ DOMAIN list = 1 .. l /\ \A k \in 1 .. l : list[k] \in Nat
  OBVIOUS
<1>2. /\ longer \in Seq(Nat) /\ DOMAIN longer = 1 .. (l + 1)
      /\ \A k \in 1 .. l : longer[k] = list[k]
      /\ longer[l + 1] = n
  OBVIOUS
<1>3. l # 0 => list # <<>>
  BY <1>1
<1> HIDE DEF l, longer
<1>4. ASSUME NEW k \in 1 .. l  PROVE list[k] < n
  <2>1. list[l] # n /\ l \in 1 .. l
    BY <1>1, <1>3, <1>4 DEF l
  <2>2. list[l] <= n /\ list[k] <= n
    BY <1>1, <2>1 DEF UpTo
  <2>3. k = l \/ list[k] < list[l]
    BY <1>1, <2>1 DEF Rising
  <2> QED  BY <1>1, <2>1, <2>2, <2>3
<1>5. Rising(longer)
  <2>1. ASSUME NEW i \in 1 .. (l + 1), NEW j \in 1 .. (l + 1), i < j
        PROVE  longer[i] < longer[j]
    <3>1. i \in 1 .. l
      BY <1>1, <2>1
    <3>2. CASE j = l + 1
      BY <1>2, <1>4, <3>1, <3>2
    <3>3. CASE j \in 1 .. l
      BY <1>1, <1>2, <2>1, <3>1, <3>3 DEF Rising
    <3> QED  BY <1>1, <3>2, <3>3
  <2> QED  BY <1>2, <2>1 DEF Rising
<1>6. UpTo(longer, n)
  <2>1. ASSUME NEW k \in 1 .. (l + 1)  PROVE longer[k] <= n
    <3>1. CASE k = l + 1
      BY <1>2, <3>1
    <3>2. CASE k \in 1 .. l
      BY <1>1, <1>2, <1>4, <3>2
    <3> QED  BY <1>1, <3>1, <3>2
  <2> QED  BY <1>2, <2>1 DEF UpTo
<1> QED  BY <1>1, <1>2, <1>5, <1>6 DEF l, longer

(* A step of the processor, sampled or not.                                *)
LEMMA SampleKeepsFrames ==
  ASSUME FramesInv, ~aborted, sample, instructions' \in Nat, instructions' <= Horizon,
         instructions <= instructions', instructions' <= instructions + 1
  PROVE  FramesInv'
<1> DEFINE n == instructions
           m == instructions'
<1>1. /\ n \in Nat /\ m \in Nat /\ n <= m /\ m <= n + 1 /\ m <= Horizon
      /\ sampled \in Seq(Nat) /\ Rising(sampled) /\ UpTo(sampled, n) /\ Covers(sampled, n)
  BY DEF FramesInv
<1>2. sampled' = IF ~aborted' /\ FrameDue(m) THEN Append(sampled, m) ELSE sampled
  BY DEF sample
<1> HIDE DEF n, m
<1>3. \A k \in DOMAIN sampled : sampled[k] \in Nat
  BY <1>1
<1>4. UpTo(sampled, m)
  BY <1>1, <1>3 DEF UpTo
<1>5. CASE ~aborted' /\ FrameDue(m)
  <2>1. /\ sampled' \in Seq(Nat) /\ Rising(sampled') /\ UpTo(sampled', m)
        /\ \A k \in DOMAIN sampled : k \in DOMAIN sampled' /\ sampled'[k] = sampled[k]
        /\ \E k \in DOMAIN sampled' : sampled'[k] = m
    <3>1. sampled' = Append(sampled, m) /\ (sampled = <<>> \/ sampled[Len(sampled)] # m)
      BY <1>2, <1>5 DEF FrameDue
    <3> QED  BY <1>1, <1>4, <3>1, RisingAppended
  <2>2. Covers(sampled', m)
    BY <1>1, <2>1 DEF Covers
  <2> QED  BY <1>1, <2>1, <2>2 DEF FramesInv, n, m
<1>6. CASE ~(~aborted' /\ FrameDue(m))
  <2>1. sampled' = sampled
    BY <1>2, <1>6
  <2>2. ASSUME ~aborted'  PROVE Covers(sampled, m)
    <3>1. ASSUME m # n, m % FrameInterval = 0  PROVE FALSE
      <4>1. sampled # <<>> /\ sampled[Len(sampled)] = m
        BY <1>6, <2>2, <3>1 DEF FrameDue
      <4>2. Len(sampled) \in DOMAIN sampled
        BY <1>1, <4>1
      <4>3. sampled[Len(sampled)] <= n
        BY <1>1, <4>2 DEF UpTo
      <4> QED  BY <1>1, <3>1, <4>1, <4>3
    <3> QED  BY <1>1, <3>1 DEF Covers
  <2> QED  BY <1>1, <1>4, <2>1, <2>2 DEF FramesInv, n, m
<1> QED  BY <1>5, <1>6

LEMMA FramesInductive == FramesInv /\ [NextMission]_missionvars => FramesInv'
<1> SUFFICES ASSUME FramesInv, [NextMission]_missionvars PROVE FramesInv'
  OBVIOUS
<1>1. CASE interrupt_step
  BY <1>1, SampleKeepsFrames DEF interrupt_step, enter_interrupt, FramesInv
<1>2. CASE instruction_step
  <2>1. instructions' = Stopped(instructions + 1) /\ ~aborted /\ sample
    BY <1>2 DEF instruction_step, execute
  <2> QED  BY <2>1, StoppedClock, SampleKeepsFrames DEF FramesInv
<1>3. CASE ~interrupt_step /\ ~instruction_step
  <2>1. UNCHANGED <<sampled, instructions>> /\ (~aborted' => ~aborted)
    BY <1>3, OnlyStepsObserve
  <2> QED  BY <2>1 DEF FramesInv
<1> QED  BY <1>1, <1>2, <1>3

LEMMA FramesInitial == InitMission => FramesInv
<1> SUFFICES ASSUME InitMission PROVE FramesInv
  OBVIOUS
<1>1. sampled = <<>> /\ instructions = 0 /\ Horizon \in Nat
  BY RuntimeAssumption DEF InitMission, InitFaults, Init
<1> QED  BY <1>1 DEF FramesInv, Rising, UpTo, Covers

(* A report has one frame for every multiple of the interval, in order.    *)
LEMMA FramesAsReported == FramesInv => FramesReported
<1> SUFFICES ASSUME FramesInv, ~aborted
             PROVE  Rising(reported_frames) /\ Covers(reported_frames, instructions)
  BY DEF FramesReported, Rising, Covers
<1>1. CASE sampled = <<>> \/ sampled[Len(sampled)] # instructions
  <2>1. reported_frames = Append(sampled, instructions)
    BY <1>1 DEF reported_frames
  <2>2. /\ Rising(reported_frames)
        /\ \A k \in DOMAIN sampled :
             k \in DOMAIN reported_frames /\ reported_frames[k] = sampled[k]
    BY <1>1, <2>1, RisingAppended DEF FramesInv
  <2> QED  BY <2>2 DEF FramesInv, Covers
<1>2. CASE ~(sampled = <<>> \/ sampled[Len(sampled)] # instructions)
  BY <1>2 DEF reported_frames, FramesInv
<1> QED  BY <1>1, <1>2

(* However often a run is interrupted at one instruction count, a report   *)
(* keeps one frame for every multiple of the interval, in order (run).     *)
THEOREM FramesComplete == SpecMission => []FramesReported
  BY FramesInitial, FramesInductive, FramesAsReported, PTL DEF SpecMission
-----------------------------------------------------------------------------
(***************************************************************************)
(* The types of the campaign under the controller.                         *)
(***************************************************************************)
LEMMA Member ==
  ASSUME NEW S, NEW list \in Seq(S), NEW k \in 1 .. Len(list)
  PROVE  list[k] \in S
  OBVIOUS

BaseInv ==
  /\ TypeInv
  /\ offering => stage = "idle"
  /\ inputs \in Scenarios
  /\ input_index \in 0 .. Len(inputs)
  /\ dsky_index \in 0 .. Len(SequenceKeys)

(* An event queued between two steps, for this very cycle.                 *)
LEMMA QueueingKeepsTypes ==
  ASSUME TypeInv, stage = "idle", NEW v \in Inputs, Enqueue(cycles, v),
         UNCHANGED <<stage, keys, machine, frames, clock, campaign>>
  PROVE  TypeInv'
<1>1. cycles \in Nat /\ next_event_sequence \in Nat /\ QueueInv
  BY DEF TypeInv, EngineInv, QueueInv, QueueTypes
<1>2. QueueInv'
  BY <1>1, ScheduleKeepsQueue DEF clock
<1>3. Injections'
  BY <1>1 DEF TypeInv, EngineInv, Injections, Enqueue, clock, campaign
<1>4. FaultInv'
  BY WaitingKeepsBoundaries DEF TypeInv, clock, campaign
<1>5. EventTypesOK /\ MachineTypes /\ FrameTypes /\ CampaignTypes
  BY TypeParts DEF TypeInv
<1>6. EventTypesOK'
  BY <1>1, <1>5 DEF EventTypesOK, Enqueue, clock
<1>7. MachineTypes' /\ FrameTypes' /\ CampaignTypes'
  BY <1>5 DEF MachineTypes, FrameTypes, CampaignTypes, machine, frames, campaign
<1>8. TypeOK'
  BY <1>2, <1>6, <1>7
     DEF QueueInv, QueueTypes, EventTypesOK, MachineTypes, FrameTypes, TypeOK
<1> QED  BY <1>2, <1>3, <1>4, <1>7, <1>8 DEF TypeInv, EngineInv

LEMMA BaseInductive == BaseInv /\ [NextMission]_missionvars => BaseInv'
<1> SUFFICES ASSUME BaseInv, [NextMission]_missionvars PROVE BaseInv'
  OBVIOUS
<1>0. /\ TypeInv /\ inputs \in Scenarios
      /\ input_index \in 0 .. Len(inputs) /\ dsky_index \in 0 .. Len(SequenceKeys)
  BY DEF BaseInv
<1>1. ASSUME NextFaults \/ UNCHANGED allvars, offering' => stage' = "idle",
             UNCHANGED <<inputs, input_index, dsky_index>>
      PROVE  BaseInv'
  <2>1. TypeInv'
    BY <1>0, <1>1, EngineTypes
  <2> QED  BY <1>0, <1>1, <2>1 DEF BaseInv
<1> USE DEF mission, controller, NextFaults, engine_step
<1>2. CASE offer_input
  <2>1. /\ input_index < Len(inputs) /\ offering /\ stage = "idle"
        /\ Enqueue(cycles, inputs[input_index + 1].event)
        /\ input_index' = input_index + 1
        /\ UNCHANGED <<stage, keys, machine, frames, clock, campaign, inputs, dsky_index>>
    BY <1>2 DEF offer_input, InputDue, BaseInv
  <2>2. inputs \in Seq([instruction : Nat, event : Inputs])
    BY <1>0, MissionAssumption
  <2>3. input_index + 1 \in 1 .. Len(inputs) /\ Len(inputs) \in Nat
    BY <1>0, <2>1, <2>2
  <2>4. inputs[input_index + 1].event \in Inputs
    <3>1. inputs[input_index + 1] \in [instruction : Nat, event : Inputs]
      BY ONLY <2>2, <2>3, Member
    <3> QED  BY <3>1
  <2>5. TypeInv'
    BY <1>0, <2>1, <2>4, QueueingKeepsTypes
  <2> QED  BY <1>0, <2>1, <2>3, <2>5 DEF BaseInv
<1>3. CASE offer_key
  <2> DEFINE k == dsky_index + 1
  <2>1. /\ dsky_index < Len(SequenceKeys) /\ offering /\ stage = "idle"
        /\ Enqueue(cycles, [kind |-> "key", code |-> SequenceKeys[k]])
        /\ dsky_index' = dsky_index + 1
        /\ UNCHANGED <<stage, keys, machine, frames, clock, campaign, inputs, input_index>>
    BY <1>3 DEF offer_key, KeyDue, BaseInv
  <2>2. k \in DOMAIN SequenceKeys /\ k \in 0 .. Len(SequenceKeys)
    BY <1>0, <2>1, MissionAssumption
  <2>3. TypeInv'
    BY <1>0, <2>1, <2>2, MissionAssumption, QueueingKeepsTypes
  <2> QED  BY <1>0, <2>1, <2>2, <2>3 DEF BaseInv
<1>4. CASE offered
  BY <1>1, <1>4 DEF offered
<1>5. CASE engine_part
  BY <1>1, <1>5 DEF engine_part
<1>6. CASE engine_fails
  BY <1>1, <1>6 DEF engine_fails
<1>7. CASE interrupt_step
  BY <1>1, <1>7 DEF interrupt_step, enter_interrupt, Returned
<1>8. CASE instruction_step
  BY <1>1, <1>8 DEF instruction_step, execute, Returned
<1>9. CASE \E n \in Boundaries, f \in Faults :
             schedule_fault(n, f) /\ instructions = 0 /\ offering /\ UNCHANGED mission
  BY <1>1, <1>9 DEF schedule_fault, vars
<1>10. CASE UNCHANGED missionvars
  BY <1>1, <1>10 DEF missionvars, allvars, vars, BaseInv
<1> QED  BY <1>2, <1>3, <1>4, <1>5, <1>6, <1>7, <1>8, <1>9, <1>10
         DEF NextMission, controller_step

LEMMA BaseInitial == InitMission => BaseInv
<1> SUFFICES ASSUME InitMission PROVE BaseInv
  OBVIOUS
<1>1. TypeInv
  BY TypeInitial DEF InitMission
<1>2. /\ stage = "idle" /\ inputs \in Scenarios
      /\ input_index = 0 /\ dsky_index = 0
  BY DEF InitMission, InitFaults, Init
<1>3. Len(inputs) \in Nat /\ Len(SequenceKeys) \in Nat
  BY <1>2, MissionAssumption
<1> QED  BY <1>1, <1>2, <1>3 DEF BaseInv

LEMMA BaseInvariant == SpecMission => []BaseInv
  BY BaseInitial, BaseInductive, PTL DEF SpecMission
-----------------------------------------------------------------------------
(***************************************************************************)
(* The rope, as far as the controller observes it.                         *)
(***************************************************************************)
RopeStates ==
  [routine : {"none", "key", "other"}, word : Word \cup {None}, jobs : Seq(Word),
   at : {"elsewhere", "CHARIN", "P63LM"}, substitute : BOOLEAN,
   read : Seq(Word), typed : Seq(Word), modreg : {0, 63},
   started : BOOLEAN, written : 0 .. InitializationWords]
RopeInv ==
  /\ rope \in RopeStates
  /\ rope.at = "CHARIN" => rope.jobs # <<>>
  /\ rope.written > 0 => rope.started

(* What the program does next, or a routine: the fields that change.       *)
RopeChange ==
  \/ UNCHANGED rope
  \/ Enters \/ RoutineReads \/ RoutineResumes \/ CharinRuns \/ P63lmRuns
  \/ JobStarts \/ ProgramSelected \/ ProgramStarts \/ WordWritten \/ Elsewhere

LEMMA RopeChanges ==
  ASSUME [NextMission]_missionvars
  PROVE  RopeChange
<1>1. CASE interrupt_step
  BY <1>1 DEF interrupt_step, RopeChange
<1>2. CASE instruction_step
  BY <1>2 DEF instruction_step, rope_step, RopeProgress, RopeChange
<1>3. CASE ~interrupt_step /\ ~instruction_step
  BY <1>3, OnlyStepsObserve DEF RopeChange
<1> QED  BY <1>1, <1>2, <1>3

LEMMA RopeKept ==
  ASSUME RopeInv, RopeChange, channels[\o15] \in Word
  PROVE  RopeInv'
<1> USE DEF RopeInv, RopeStates
<1>1. CASE UNCHANGED rope
  BY <1>1
<1>2. CASE Enters
  BY <1>2 DEF Enters
<1>3. CASE RoutineReads
  <2> DEFINE list == Append(rope.read, channels[\o15])
  <2>1. list \in Seq(Word)
    OBVIOUS
  <2>2. rope' = [rope EXCEPT !.word = channels[\o15], !.read = list]
    BY <1>3 DEF RoutineReads
  <2> HIDE DEF list
  <2> QED  BY <2>1, <2>2
<1>4. CASE RoutineResumes
  <2> DEFINE list == IF rope.routine = "key" THEN Append(rope.jobs, rope.word) ELSE rope.jobs
  <2>1. list \in Seq(Word) /\ (rope.jobs # <<>> => list # <<>>)
    <3>1. rope.routine = "key" => rope.word \in Word
      BY <1>4 DEF RoutineResumes
    <3>2. rope.jobs \in Seq(Word)
      OBVIOUS
    <3> QED  BY ONLY <3>1, <3>2
  <2>2. rope' = [rope EXCEPT !.routine = "none", !.word = None, !.substitute = TRUE,
                   !.jobs = list]
    BY <1>4 DEF RoutineResumes
  <2> HIDE DEF list
  <2> QED  BY <2>1, <2>2
<1>5. CASE CharinRuns
  <2> DEFINE rest == Tail(rope.jobs)
             list == Append(rope.typed, Head(rope.jobs))
  <2>1. rest \in Seq(Word) /\ list \in Seq(Word)
    <3>1. rope.jobs \in Seq(Word) /\ rope.typed \in Seq(Word) /\ rope.jobs # <<>>
      BY <1>5 DEF CharinRuns
    <3> QED  BY ONLY <3>1
  <2>2. rope' = [rope EXCEPT !.typed = list, !.jobs = rest, !.at = "elsewhere",
                             !.substitute = FALSE]
    BY <1>5 DEF CharinRuns, Runs
  <2> HIDE DEF rest, list
  <2> QED  BY <2>1, <2>2
<1>6. CASE P63lmRuns
  BY <1>6 DEF P63lmRuns, Runs
<1>7. CASE JobStarts
  BY <1>7 DEF JobStarts, Runs
<1>8. CASE ProgramSelected
  BY <1>8 DEF ProgramSelected, Runs
<1>9. CASE ProgramStarts
  BY <1>9 DEF ProgramStarts, Runs
<1>10. CASE WordWritten
  <2> DEFINE n == rope.written + 1
  <2>1. n \in 0 .. InitializationWords /\ rope.started
    BY <1>10 DEF WordWritten, InitializationWords
  <2>2. rope' = [rope EXCEPT !.written = n, !.substitute = FALSE]
    BY <1>10 DEF WordWritten, Runs
  <2> HIDE DEF n
  <2> QED  BY <2>1, <2>2
<1>11. CASE Elsewhere
  BY <1>11 DEF Elsewhere, Runs
<1> QED  BY <1>1, <1>2, <1>3, <1>4, <1>5, <1>6, <1>7, <1>8, <1>9, <1>10, <1>11 DEF RopeChange
(* Started stays so, and words are only added.                             *)
LEMMA RopeAdvances ==
  ASSUME RopeInv, RopeChange
  PROVE  /\ rope.started => rope'.started
         /\ rope.written <= rope'.written /\ rope'.written \in Int
<1>1. \/ UNCHANGED rope
      \/ /\ rope'.started = rope.started \/ rope'.started
         /\ rope'.written = rope.written \/ rope'.written = rope.written + 1
  BY DEF RopeChange, RopeInv, RopeStates, Enters, RoutineReads, RoutineResumes, CharinRuns,
         P63lmRuns, JobStarts, ProgramSelected, ProgramStarts, WordWritten, Elsewhere, Runs
<1> QED  BY <1>1 DEF RopeInv, RopeStates

(* The start of P63LM is left only by running it.                          *)
LEMMA StartRuns ==
  ASSUME RopeInv, RopeChange, rope.at = "P63LM"
  PROVE  rope'.at = "P63LM" \/ rope'.started
  BY DEF RopeChange, RopeInv, RopeStates, Enters, RoutineReads, RoutineResumes, CharinRuns,
         P63lmRuns, JobStarts, ProgramSelected, ProgramStarts, WordWritten, Elsewhere, Runs

LEMMA RopeInductive == BaseInv /\ RopeInv /\ [NextMission]_missionvars => RopeInv'
<1> SUFFICES ASSUME BaseInv, RopeInv, [NextMission]_missionvars PROVE RopeInv'
  OBVIOUS
<1>1. channels[\o15] \in Word
  BY RuntimeAssumption DEF BaseInv, TypeInv, TypeOK
<1> QED  BY <1>1, RopeChanges, RopeKept

LEMMA RopeInitial == InitMission => RopeInv
  BY DEF InitMission, NewRope, RopeInv, RopeStates, InitializationWords

-----------------------------------------------------------------------------
(***************************************************************************)
(* The words of P63LM.                                                     *)
(***************************************************************************)
Write == [name : 1 .. InitializationWords, expected : BOOLEAN]
GuidanceInv ==
  /\ guidance_writes \in Seq(Write)
  /\ \A j \in DOMAIN guidance_writes :
       guidance_writes[j].expected => guidance_writes[j].name <= rope.written

(* The write that a step of the rope shows: none, the word that P63LM has  *)
(* just written, or another program's.                                     *)
LEMMA WriteObserved ==
  ASSUME RopeInv, RopeChange, rope_step
  PROVE  \E write : /\ observe(0, Fetch, write)
                    /\ \/ write = NoWrite
                       \/ write \in Write /\ (write.expected => write.name = rope'.written)
<1>1. CASE RopeProgress /\ observe(0, Fetch, NoWrite)
  BY <1>1
<1>2. CASE WordWritten /\ observe(0, Fetch, Written(rope'.written))
  <2>1. rope'.written \in 1 .. InitializationWords
    BY <1>2 DEF WordWritten, Runs, RopeInv, RopeStates, InitializationWords
  <2>2. Written(rope'.written) \in Write
        /\ Written(rope'.written).name = rope'.written
    BY <2>1 DEF Written, Write
  <2> QED  BY <1>2, <2>2
<1>3. CASE Elsewhere /\ observe(0, Fetch, NoWrite)
  BY <1>3
<1>4. CASE observe(0, Fetch, [name |-> InitializationWords, expected |-> FALSE])
  <2>1. [name |-> InitializationWords, expected |-> FALSE] \in Write
    BY DEF Write, InitializationWords
  <2> QED  BY <1>4, <2>1
<1> QED  BY <1>1, <1>2, <1>3, <1>4 DEF rope_step

(* What a step adds to the list of words.                                  *)
LEMMA GuidanceAppended ==
  ASSUME GuidanceInv, RopeInv, RopeChange, NEW write,
         guidance_writes' = guidance_writes
           \/ (guidance_writes' = Append(guidance_writes, write)
               /\ write \in Write /\ (write.expected => write.name = rope'.written))
  PROVE  GuidanceInv'
<1>1. rope.written <= rope'.written /\ rope.written \in Int /\ rope'.written \in Int
  BY RopeAdvances DEF RopeInv, RopeStates
<1>2. \A j \in DOMAIN guidance_writes :
        /\ guidance_writes[j].name \in Int
        /\ guidance_writes[j].expected => guidance_writes[j].name <= rope'.written
  <2>1. ASSUME NEW j \in DOMAIN guidance_writes  PROVE guidance_writes[j] \in Write
    BY DEF GuidanceInv
  <2>2. ASSUME NEW j \in DOMAIN guidance_writes  PROVE guidance_writes[j].name \in Int
    BY <2>1 DEF Write
  <2> QED  BY <1>1, <2>2 DEF GuidanceInv
<1>3. CASE guidance_writes' = guidance_writes
  BY <1>2, <1>3 DEF GuidanceInv
<1>4. CASE /\ guidance_writes' = Append(guidance_writes, write)
           /\ write \in Write /\ (write.expected => write.name = rope'.written)
  <2> DEFINE list == Append(guidance_writes, write)
             l == Len(guidance_writes)
  <2>1. /\ list \in Seq(Write) /\ l \in Nat /\ DOMAIN list = 1 .. (l + 1)
        /\ \A j \in 1 .. l : list[j] = guidance_writes[j]
        /\ list[l + 1] = write
        /\ DOMAIN guidance_writes = 1 .. l
    BY <1>4 DEF GuidanceInv
  <2> HIDE DEF list, l
  <2>2. ASSUME NEW j \in 1 .. (l + 1), list[j].expected  PROVE list[j].name <= rope'.written
    <3>1. CASE j = l + 1
      BY <1>1, <1>4, <2>1, <2>2, <3>1
    <3>2. CASE j \in 1 .. l
      BY <1>2, <2>1, <2>2, <3>2
    <3> QED  BY <2>1, <3>1, <3>2
  <2>3. guidance_writes' = list
    BY <1>4 DEF list
  <2> QED  BY <2>1, <2>2, <2>3 DEF GuidanceInv
<1> QED  BY <1>3, <1>4

LEMMA GuidanceInductive ==
  BaseInv /\ RopeInv /\ GuidanceInv /\ [NextMission]_missionvars => GuidanceInv'
<1> SUFFICES ASSUME BaseInv, RopeInv, GuidanceInv, [NextMission]_missionvars
             PROVE  GuidanceInv'
  OBVIOUS
<1>1. RopeChange
  BY RopeChanges
<1>2. ASSUME UNCHANGED guidance_writes  PROVE GuidanceInv'
  BY <1>1, <1>2, GuidanceAppended
<1>3. CASE interrupt_step
  BY <1>2, <1>3 DEF interrupt_step, observe
<1>4. CASE instruction_step
  <2>1. PICK write : /\ observe(0, Fetch, write)
                     /\ \/ write = NoWrite
                        \/ write \in Write /\ (write.expected => write.name = rope'.written)
    BY <1>1, <1>4, WriteObserved DEF instruction_step
  <2>2. guidance_writes' = guidance_writes
          \/ (guidance_writes' = Append(guidance_writes, write) /\ write # NoWrite)
    BY <2>1 DEF observe
  <2> QED  BY <1>1, <2>1, <2>2, GuidanceAppended
<1>5. CASE ~interrupt_step /\ ~instruction_step
  BY <1>2, <1>5, OnlyStepsObserve
<1> QED  BY <1>3, <1>4, <1>5

(* Landing guidance is reported started only after P63LM itself has        *)
(* written its five words, whatever else writes them, and whatever         *)
(* interrupts, faults or inputs the run met (landing_guidance_started).    *)
THEOREM GuidanceIsStarted == SpecMission => []GuidanceReported
<1>1. InitMission => GuidanceInv
  BY DEF InitMission, GuidanceInv
<1>2. ASSUME RopeInv, GuidanceInv  PROVE GuidanceReported
  <2> SUFFICES ASSUME landing_guidance_started
               PROVE  rope.started /\ rope.written = InitializationWords
    BY DEF GuidanceReported
  <2>1. PICK at \in [1 .. InitializationWords -> DOMAIN guidance_writes] :
          guidance_writes[at[InitializationWords]] = Written(InitializationWords)
    BY DEF landing_guidance_started, InitializationWords
  <2>2. at[InitializationWords] \in DOMAIN guidance_writes
    BY <2>1 DEF InitializationWords
  <2>3. InitializationWords <= rope.written
    BY <1>2, <2>1, <2>2 DEF GuidanceInv, Written
  <2> QED  BY <1>2, <2>3 DEF RopeInv, RopeStates, InitializationWords
<1> QED  BY <1>1, <1>2, BaseInitial, BaseInductive, RopeInitial, RopeInductive,
            GuidanceInductive, PTL DEF SpecMission
-----------------------------------------------------------------------------
(***************************************************************************)
(* The readable model of V37, and the rest of the record.                  *)
(***************************************************************************)
Places == {"unused"} \cup {t[1] : t \in Transitions} \cup {t[3] : t \in Transitions}
PinballTyped(m) ==
  /\ m \in [state : Places, number : 0 .. 99, accepted_keys : Nat,
            verb_register : {NoProgram, 37}, program_register : {NoProgram} \cup 0 .. 99]
  /\ m.state \in {"VerbOnes", "ProgramOnes"} => m.number <= 9

(* A code is decoded to a key that has it, other than PRO.                 *)
LEMMA DecodedKey ==
  ASSUME NEW c, IsKeyCode(c)
  PROVE  \/ \E d \in 0 .. 9 : from_code(c) = Digit(d)
         \/ \E k \in DOMAIN NamedKeys : from_code(c) = Named(k)
<1> DEFINE Others == Key \ {Named("Proceed")}
<1>1. \E k \in Others : code(k) = c
  <2>1. PICK k \in Key : code(k) = c
    BY DEF IsKeyCode
  <2>2. CASE k = Named("Proceed")
    <3>1. code(Digit(0)) = c /\ Digit(0) \in Key
      BY <2>1, <2>2 DEF code, Named, Digit, Key
    <3>2. Digit(0) # Named("Proceed")
      BY DEF Digit, Named
    <3> QED  BY <3>1, <3>2
  <2> QED  BY <2>1, <2>2
<1>2. from_code(c) \in Others
  BY <1>1 DEF from_code
<1> QED  BY <1>2 DEF Key

(* Two digits make a number below one hundred.                             *)
LEMMA AcceptedKeepsPinball ==
  ASSUME NEW m, PinballTyped(m), NEW c, Acceptable(m, c)
  PROVE  PinballTyped(accept_code(m, c))
<1> DEFINE k == from_code(c)
           t == CHOOSE x \in Leads(m, k) : TRUE
           n == IF k.key = "Digit"
                THEN IF m.state \in {"VerbOnes", "ProgramOnes"}
                     THEN decimal_pair(m.number, k.digit) ELSE k.digit
                ELSE m.number
<1>1. k.key = "Digit" => k.digit \in 0 .. 9
  BY DecodedKey DEF Acceptable, Digit, Named, NamedKeys
<1>2. t \in Transitions /\ t[1] = m.state /\ t[2] = k.key
  BY DEF Acceptable, Leads
<1> HIDE DEF k, t
<1>3. n \in 0 .. 99
  BY <1>1 DEF PinballTyped, decimal_pair
<1>4. t[3] \in {"VerbOnes", "ProgramOnes"} =>
        t[2] = "Digit" /\ t[1] \notin {"VerbOnes", "ProgramOnes"}
  BY <1>2 DEF Transitions
<1>5. t[3] \in {"VerbOnes", "ProgramOnes"} => n <= 9
  BY <1>1, <1>2, <1>4
<1> HIDE DEF n
<1>6. accept_code(m, c) =
        [state |-> t[3], number |-> n, accepted_keys |-> m.accepted_keys + 1,
         verb_register |-> IF t[3] = "ProgramTens" THEN 37 ELSE m.verb_register,
         program_register |-> IF t[3] = "Complete" THEN m.number ELSE m.program_register]
  BY DEF accept_code, k, t, n
<1>7. t[3] \in Places
  BY <1>2 DEF Places
<1> QED  BY <1>3, <1>5, <1>6, <1>7 DEF PinballTyped

RecordInv ==
  /\ evidence \in Seq(KeyEvidence)
  /\ PinballTyped(pinball)
  /\ milestones \subseteq {"MODREG=63", "P63LM"}

(* One key of the list is marked; the others, and the codes, are kept.     *)
LEMMA Replaced ==
  ASSUME NEW S, NEW list \in Seq(S), NEW k \in DOMAIN list, NEW e \in S
  PROVE  LET l == [list EXCEPT ![k] = e]
         IN  /\ l \in Seq(S) /\ Len(l) = Len(list) /\ DOMAIN l = DOMAIN list
             /\ l[k] = e /\ \A j \in DOMAIN list : j # k => l[j] = list[j]
  OBVIOUS

LEMMA Marked ==
  ASSUME NEW list \in Seq(KeyEvidence), NEW k \in DOMAIN list
  PROVE  /\ LET l == [list EXCEPT ![k].keyrupt = TRUE]
            IN  /\ l \in Seq(KeyEvidence) /\ Len(l) = Len(list) /\ DOMAIN l = DOMAIN list
                /\ l[k] = [list[k] EXCEPT !.keyrupt = TRUE]
                /\ \A j \in DOMAIN list : j # k => l[j] = list[j]
         /\ LET l == [list EXCEPT ![k].charin = TRUE]
            IN  /\ l \in Seq(KeyEvidence) /\ Len(l) = Len(list) /\ DOMAIN l = DOMAIN list
                /\ l[k] = [list[k] EXCEPT !.charin = TRUE]
                /\ \A j \in DOMAIN list : j # k => l[j] = list[j]
<1>1. list[k] \in KeyEvidence
  OBVIOUS
<1>2. /\ [list[k] EXCEPT !.keyrupt = TRUE] \in KeyEvidence
      /\ [list[k] EXCEPT !.charin = TRUE] \in KeyEvidence
  BY <1>1 DEF KeyEvidence
<1> QED  BY ONLY <1>2, list \in Seq(KeyEvidence), k \in DOMAIN list, Replaced

LEMMA FirstKeyFound ==
  ASSUME NEW wanted \in SUBSET (Nat \ {0})
  PROVE  IF wanted = {} THEN FirstKey(wanted) = 0
         ELSE FirstKey(wanted) \in wanted /\ \A j \in wanted : FirstKey(wanted) <= j
<1>1. CASE wanted = {}
  BY <1>1 DEF FirstKey
<1>2. CASE wanted # {}
  <2>1. \E k \in wanted : \A j \in wanted : k <= j
    BY <1>2, LeastNatural, wanted \in SUBSET Nat
  <2> QED  BY <1>2, <2>1 DEF FirstKey
<1> QED  BY <1>1, <1>2

(* What a step teaches about the keys: at most one is entered, and at most *)
(* one accepted.                                                           *)
LEMMA EntryMarks ==
  ASSUME evidence \in Seq(KeyEvidence), NEW number
  PROVE  LET k == FirstKey(NotEntered(evidence))
             list == AfterEntry(number)
         IN  /\ list \in Seq(KeyEvidence) /\ Len(list) = Len(evidence)
             /\ DOMAIN list = DOMAIN evidence
             /\ k \in DOMAIN evidence \/ k = 0
             /\ \A j \in DOMAIN evidence :
                  list[j] = IF number = Key1 /\ j = k
                            THEN [evidence[j] EXCEPT !.keyrupt = TRUE] ELSE evidence[j]
<1> DEFINE wanted == NotEntered(evidence)
           k == FirstKey(wanted)
<1>1. wanted \subseteq DOMAIN evidence /\ DOMAIN evidence \subseteq Nat \ {0}
  BY DEF NotEntered
<1> HIDE DEF wanted
<1>2. k \in DOMAIN evidence \/ k = 0
  BY <1>1, FirstKeyFound
<1> HIDE DEF k
<1>3. AfterEntry(number) = IF number = Key1 /\ k # 0
                           THEN [evidence EXCEPT ![k].keyrupt = TRUE] ELSE evidence
  BY DEF AfterEntry, k, wanted
<1>4. 0 \notin DOMAIN evidence
  BY <1>1
<1> DEFINE list == AfterEntry(number)
<1>5. /\ list \in Seq(KeyEvidence) /\ Len(list) = Len(evidence)
      /\ DOMAIN list = DOMAIN evidence
      /\ \A j \in DOMAIN evidence :
           list[j] = IF number = Key1 /\ j = k
                     THEN [evidence[j] EXCEPT !.keyrupt = TRUE] ELSE evidence[j]
  <2> HIDE DEF list
  <2>1. CASE number = Key1 /\ k # 0
    <3>1. list = [evidence EXCEPT ![k].keyrupt = TRUE] /\ k \in DOMAIN evidence
      BY <1>2, <1>3, <2>1 DEF list
    <3> QED  BY <2>1, <3>1, Marked
  <2>2. CASE ~(number = Key1 /\ k # 0)
    <3>1. list = evidence
      BY <1>3, <2>2 DEF list
    <3> QED  BY <1>4, <2>2, <3>1
  <2> QED  BY <2>1, <2>2
<1> QED  BY <1>2, <1>5 DEF k, wanted

LEMMA ObservationMarks ==
  ASSUME RecordInv, NEW number, NEW first, NEW write, observe(number, first, write)
  PROVE  LET list == AfterEntry(number)
             k == IF first = "CHARIN" THEN FirstKey(NotAccepted(list)) ELSE 0
         IN  /\ k \in DOMAIN evidence \/ k = 0
             /\ Len(evidence') = Len(evidence) /\ DOMAIN evidence' = DOMAIN evidence
             /\ \A j \in DOMAIN evidence :
                  evidence'[j] = IF j = k THEN [list[j] EXCEPT !.charin = TRUE] ELSE list[j]
             /\ RecordInv'
<1> DEFINE list == AfterEntry(number)
           wanted == NotAccepted(list)
           k == IF first = "CHARIN" THEN FirstKey(wanted) ELSE 0
<1>1. /\ list \in Seq(KeyEvidence) /\ Len(list) = Len(evidence)
      /\ DOMAIN list = DOMAIN evidence
  BY EntryMarks DEF RecordInv
<1>2. wanted \subseteq DOMAIN evidence /\ DOMAIN evidence \subseteq Nat \ {0}
  BY <1>1 DEF NotAccepted
<1>3. k \in DOMAIN evidence \/ k = 0
  <2> HIDE DEF wanted
  <2> QED  BY <1>2, FirstKeyFound
<1>4. /\ evidence' = IF k = 0 THEN list ELSE [list EXCEPT ![k].charin = TRUE]
      /\ \/ pinball' = pinball
         \/ /\ pinball' = accept_code(pinball, list[k].code)
            /\ Acceptable(pinball, list[k].code)
      /\ milestones' \subseteq milestones \cup {"MODREG=63", "P63LM"}
  BY DEF observe, Seen
<1> HIDE DEF list, wanted, k
<1>5. /\ Len(evidence') = Len(evidence) /\ DOMAIN evidence' = DOMAIN evidence
      /\ evidence' \in Seq(KeyEvidence)
      /\ \A j \in DOMAIN evidence :
           evidence'[j] = IF j = k THEN [list[j] EXCEPT !.charin = TRUE] ELSE list[j]
  <2>1. CASE k = 0
    <3>1. evidence' = list /\ 0 \notin DOMAIN evidence
      BY <1>2, <1>4, <2>1
    <3> QED  BY <1>1, <2>1, <3>1
  <2>2. CASE k # 0
    <3>1. k \in DOMAIN list
      BY <1>1, <1>3, <2>2
    <3>2. evidence' = [list EXCEPT ![k].charin = TRUE]
      BY <1>4, <2>2
    <3> QED  BY <1>1, <3>1, <3>2, Marked
  <2> QED  BY <2>1, <2>2
<1>6. PinballTyped(pinball')
  BY <1>4, AcceptedKeepsPinball DEF RecordInv
<1>7. RecordInv'
  BY <1>4, <1>5, <1>6 DEF RecordInv
<1> QED  BY <1>3, <1>5, <1>7 DEF k, list, wanted

LEMMA RecordInductive == BaseInv /\ RecordInv /\ [NextMission]_missionvars => RecordInv'
<1> SUFFICES ASSUME BaseInv, RecordInv, [NextMission]_missionvars PROVE RecordInv'
  OBVIOUS
<1>1. ASSUME UNCHANGED <<pinball, milestones>>,
             evidence' = evidence \/ \E c \in Codes : evidence' = Append(evidence, Supplied(c))
      PROVE  RecordInv'
  <2>1. \A c \in Codes : Supplied(c) \in KeyEvidence
    BY DEF Supplied, KeyEvidence
  <2>2. evidence' \in Seq(KeyEvidence)
    BY <1>1, <2>1 DEF RecordInv
  <2> QED  BY <1>1, <2>2 DEF RecordInv
<1>2. CASE offer_input
  <2>1. inputs[input_index + 1].event \in Inputs
    <3>1. inputs \in Seq([instruction : Nat, event : Inputs])
      BY MissionAssumption DEF BaseInv
    <3>2. input_index + 1 \in 1 .. Len(inputs)
      BY <1>2, <3>1 DEF offer_input, InputDue, BaseInv
    <3>3. inputs[input_index + 1] \in [instruction : Nat, event : Inputs]
      BY ONLY <3>1, <3>2, Member
    <3> QED  BY <3>3
  <2>2. inputs[input_index + 1].event.kind = "key" => inputs[input_index + 1].event.code \in Codes
    BY <2>1, MissionAssumption
  <2> QED  BY <1>1, <1>2, <2>2 DEF offer_input
<1>3. CASE offer_key
  <2> DEFINE k == dsky_index + 1
             v == [kind |-> "key", code |-> SequenceKeys[k]]
  <2>1. k \in DOMAIN SequenceKeys
    BY <1>3, MissionAssumption DEF offer_key, KeyDue, BaseInv
  <2>2. v \in Inputs /\ v.kind = "key" /\ v.code = SequenceKeys[k]
    BY <2>1, MissionAssumption
  <2>3. SequenceKeys[k] \in Codes
    BY <2>2, MissionAssumption
  <2>4. evidence' = Append(evidence, Supplied(SequenceKeys[k]))
    BY <1>3 DEF offer_key
  <2> QED  BY <1>1, <1>3, <2>3, <2>4 DEF offer_key
<1>4. CASE interrupt_step
  BY <1>4, ObservationMarks DEF interrupt_step
<1>5. CASE instruction_step
  BY <1>5, ObservationMarks DEF instruction_step, rope_step
<1>6. CASE offered \/ engine_part \/ engine_fails \/ UNCHANGED missionvars
  BY <1>1, <1>6 DEF offered, engine_part, engine_fails, missionvars, mission, record
<1>7. CASE \E n \in Boundaries, f \in Faults :
             schedule_fault(n, f) /\ instructions = 0 /\ offering /\ UNCHANGED mission
  BY <1>1, <1>7 DEF mission, record
<1> QED  BY <1>2, <1>3, <1>4, <1>5, <1>6, <1>7 DEF NextMission, controller_step

LEMMA RecordInitial == InitMission => RecordInv
<1> SUFFICES ASSUME InitMission PROVE RecordInv
  OBVIOUS
<1>1. "AwaitVerb" \in Places /\ "unused" \in Places
  BY DEF Places, Transitions
<1>2. PinballTyped(AwaitVerb) /\ PinballTyped(Unused)
  BY <1>1 DEF PinballTyped, AwaitVerb, Unused
<1> QED  BY <1>2 DEF InitMission, RecordInv

(* Every variable of a run keeps its type, the two numbers that the        *)
(* readable model of V37 puts together from digits among them.             *)
THEOREM MissionTyped == SpecMission => []TypeMission
<1>1. ASSUME BaseInv, DisplayInv, RopeInv, RecordInv  PROVE TypeMission
  <2>1. TypeFaults
    BY <1>1, FaultTypeParts DEF BaseInv
  <2>2. /\ dsky.registers \in [Positions -> 0 .. Blank]
        /\ dsky.lamps \subseteq LampNames
    BY <1>1 DEF DisplayInv, DisplayTypes
  <2>3. {rope.read[k] : k \in DOMAIN rope.read} \subseteq Word
    <3>1. rope.read \in Seq(Word)
      BY <1>1 DEF RopeInv, RopeStates
    <3> QED  BY <3>1
  <2>4. pinball # Unused => /\ pinball.verb_register \in {NoProgram, 37}
                            /\ pinball.program_register \in {NoProgram} \cup 0 .. 99
    BY <1>1 DEF RecordInv, PinballTyped
  <2> QED  BY <1>1, <2>1, <2>2, <2>3, <2>4 DEF BaseInv, RecordInv, TypeMission
<1> QED  BY <1>1, BaseInitial, BaseInductive, DisplayInitial, DisplayInductive,
            RopeInitial, RopeInductive, RecordInitial, RecordInductive, PTL DEF SpecMission
-----------------------------------------------------------------------------
(***************************************************************************)
(* The keyboard when it is the operator's alone.  A key goes from the      *)
(* queue to the request for KEYRUPT1, to the routine that reads it, to a   *)
(* job and to CHARIN; the next one is struck when the controller has seen  *)
(* it at CHARIN.                                                           *)
(***************************************************************************)
Last == evidence[Len(evidence)]
Waiting == evidence # <<>> /\ ~Last.keyrupt                  \* not yet entered
Handled == evidence # <<>> /\ Last.keyrupt /\ ~Last.charin   \* not yet at CHARIN
KeyOf(e) == [kind |-> "key", code |-> e.code]

InTurn ==
  /\ \A k \in DOMAIN evidence : evidence[k].code \in 0 .. \o37
  /\ \A k \in DOMAIN evidence : k < Len(evidence) => evidence[k].keyrupt /\ evidence[k].charin
  /\ evidence # <<>> => (Last.charin => Last.keyrupt)

(* At most one key is queued, and none is while KEYRUPT1 is requested.     *)
KeyQueued ==
  /\ \A e \in events : \/ Foreign(e.event)
                       \/ e.event = KeyOf(Last) /\ Waiting /\ Key1 \notin pending_interrupts
  /\ \A e, f \in events : Foreign(e.event) \/ Foreign(f.event) \/ e = f
KeyRequested ==
  Key1 \in pending_interrupts => /\ Waiting /\ channels[\o15] = Last.code
                                 /\ \A e \in events : Foreign(e.event)
Unstuck == \A k \in DOMAIN active_channels : active_channels[k].channel # \o15

(* The rope has read every key but one that it has still to read.          *)
Unread == Waiting \/ (rope.routine = "key" /\ rope.word = None)
ReadSoFar ==
  /\ Len(evidence) = Len(rope.read) + (IF Unread THEN 1 ELSE 0)
  /\ \A k \in DOMAIN rope.read : rope.read[k] = evidence[k].code
InRoutine ==
  rope.routine = "key" => Handled /\ (rope.word = None => channels[\o15] = Last.code)

(* A job at CHARIN is seen there at its first fetch, be it that of an      *)
(* interrupt; one more may wait for it to end.                             *)
Fresh == rope.at = "CHARIN" /\ ~rope.substitute /\ rope.routine = "none"
Unseen == IF rope.at = "CHARIN" /\ ~Fresh THEN Len(rope.jobs) - 1 ELSE Len(rope.jobs)
JobUnseen ==
  /\ Unseen \in {0, 1}
  /\ Fresh => Unseen = 1
  /\ Unseen = 1 => Handled /\ rope.routine # "key"

LineInv ==
  /\ InTurn /\ KeyQueued /\ KeyRequested /\ Unstuck
  /\ ReadSoFar /\ InRoutine /\ JobUnseen

(* Steps that the keys and the rope do not notice.                         *)
LEMMA MachineMoves ==
  ASSUME LineInv, UNCHANGED <<evidence, rope>>, channels'[\o15] = channels[\o15],
         KeyQueued', KeyRequested', Unstuck'
  PROVE  LineInv'
<1>1. InTurn' /\ ReadSoFar'
  BY DEF LineInv, InTurn, ReadSoFar, Unread, Last, Waiting
<1>2. InRoutine' /\ JobUnseen'
  BY DEF LineInv, InRoutine, JobUnseen, Unseen, Fresh, Last, Waiting, Handled
<1> QED  BY <1>1, <1>2 DEF LineInv

(* Another event joins the queue, requests go, or a fault sticks a channel *)
(* that is not the keyboard's.                                             *)
LEMMA OthersQueue ==
  ASSUME LineInv, UNCHANGED <<evidence, rope>>, channels'[\o15] = channels[\o15],
         \A e \in events' : e \in events \/ Foreign(e.event),
         Key1 \in pending_interrupts' <=> Key1 \in pending_interrupts, Unstuck'
  PROVE  LineInv'
<1>1. KeyQueued'
  BY DEF LineInv, KeyQueued, Last, Waiting
<1>2. KeyRequested'
  BY DEF LineInv, KeyRequested, Last, Waiting
<1> QED  BY <1>1, <1>2, MachineMoves

LEMMA FaultsKeepLine ==
  ASSUME BaseInv, LineInv, OnlyOperatorTypes, apply_fault, UNCHANGED <<evidence, rope>>
  PROVE  LineInv'
<1> DEFINE d == FirstFault(DueFaults)
           f == d.fault
<1>1. d \in DueFaults
  BY FirstFaultIsFirst DEF apply_fault, BaseInv, TypeInv
<1>2. f \in Faults /\ apply(d)
  BY <1>1 DEF apply_fault, BaseInv, TypeInv, CampaignTypes, DueFaults
<1>3. /\ UNCHANGED channels
      /\ UNCHANGED pending_interrupts \/ pending_interrupts' = pending_interrupts \ {f.interrupt}
      /\ UNCHANGED active_channels \/ (f.kind = "stuck" /\ Stick(f))
      /\ UNCHANGED queue \/ (f.kind = "inject" /\ Enqueue(InjectionTime, f.event))
  BY <1>2, FaultEffects
<1> HIDE DEF d, f
<1>4. Unstuck'
  <2>1. CASE UNCHANGED active_channels
    BY <2>1 DEF LineInv, Unstuck
  <2>2. CASE f.kind = "stuck" /\ Stick(f)
    <3> DEFINE x == [channel |-> f.channel, value |-> f.value, remaining |-> f.instructions]
    <3>1. x.channel # \o15
      BY <1>2, <2>2 DEF OnlyOperatorTypes
    <3>2. active_channels \in Seq(StuckChannel)
      BY DEF BaseInv, TypeInv, CampaignTypes
    <3>3. active_channels' = Append(active_channels, x)
      BY <2>2 DEF Stick
    <3> HIDE DEF x
    <3>4. \A k \in DOMAIN active_channels' :
            \/ k \in DOMAIN active_channels /\ active_channels'[k] = active_channels[k]
            \/ active_channels'[k] = x
      BY ONLY <3>2, <3>3, Appended
    <3> QED  BY <3>1, <3>4 DEF LineInv, Unstuck
  <2> QED  BY <1>3, <2>1, <2>2
<1>5. \A e \in events' : e \in events \/ Foreign(e.event)
  BY <1>2, <1>3 DEF Enqueue, OnlyOperatorTypes, queue
<1>6. Key1 \in pending_interrupts' => Key1 \in pending_interrupts
  BY <1>3
<1>7. KeyQueued'
  BY <1>5, <1>6 DEF LineInv, KeyQueued, Last, Waiting
<1>8. KeyRequested'
  BY <1>3, <1>5, <1>6 DEF LineInv, KeyRequested, Last, Waiting
<1> QED  BY <1>3, <1>4, <1>7, <1>8, MachineMoves

(* No fault that sticks another channel touches the keyboard's.            *)
LEMMA EnforcingKeepsLine ==
  ASSUME LineInv, enforce_channels, UNCHANGED <<evidence, rope>>
  PROVE  LineInv'
<1>1. Sticking(\o15) = {}
  BY DEF LineInv, Unstuck, Sticking
<1>2. channels'[\o15] = channels[\o15]
  BY <1>1, RuntimeAssumption DEF enforce_channels, Enforced
<1> QED  BY <1>2, OthersQueue DEF enforce_channels, queue, campaign, LineInv, Unstuck

(* The key that is delivered is the one that waits.                        *)
LEMMA DeliveryKeepsLine ==
  ASSUME BaseInv, LineInv, RecordInv, deliver, UNCHANGED <<campaign, evidence, rope>>
  PROVE  LineInv'
<1> DEFINE e == First(keys)
           v == e.event
<1>1. e \in events
  BY FirstOfQueue, DueMembers DEF deliver, BaseInv, TypeInv, EngineInv
<1>2. events' = events \ {e} /\ apply_event(v)
  BY DEF deliver
<1>3. Unstuck'
  BY DEF LineInv, Unstuck, campaign
<1>4. \o15 \in DOMAIN channels
  BY RuntimeAssumption DEF BaseInv, TypeInv, TypeOK
<1> HIDE DEF e
<1>5. CASE Foreign(v)
  <2>1. channels'[\o15] = channels[\o15]
    BY <1>2, <1>4, <1>5, EventEffects DEF apply_event, Foreign
  <2>2. Key1 \in pending_interrupts' <=> Key1 \in pending_interrupts
    BY <1>2, <1>5 DEF apply_event, Foreign, Key1, Radar
  <2> QED  BY <1>2, <1>3, <2>1, <2>2, OthersQueue
<1>6. CASE ~Foreign(v)
  <2>1. v = KeyOf(Last) /\ Waiting /\ \A g \in events : g # e => Foreign(g.event)
    BY <1>1, <1>6 DEF LineInv, KeyQueued
  <2>2. v.kind = "key" /\ v.code = Last.code
    BY <2>1 DEF KeyOf
  <2>3. /\ channels' = [channels EXCEPT ![\o15] = v.code % \o40]
        /\ pending_interrupts' = pending_interrupts \cup {Key1}
    BY <1>2, <2>2, EventEffects
  <2>4. Last.code \in 0 .. \o37
    <3>1. Len(evidence) \in DOMAIN evidence
      BY <2>1 DEF RecordInv, Waiting
    <3> QED  BY <3>1 DEF LineInv, InTurn, Last
  <2>5. channels'[\o15] = Last.code
    BY <1>4, <2>2, <2>3, <2>4
  <2>6. \A g \in events' : Foreign(g.event)
    BY <1>2, <2>1
  <2>7. KeyQueued'
    BY <2>6 DEF KeyQueued
  <2>8. KeyRequested'
    BY <2>1, <2>5, <2>6 DEF KeyRequested, Last, Waiting
  <2>9. InTurn' /\ ReadSoFar' /\ JobUnseen'
    BY DEF LineInv, InTurn, ReadSoFar, JobUnseen, Unread, Unseen, Fresh, Last, Waiting, Handled
  <2>10. InRoutine'
    BY <2>1 DEF LineInv, InRoutine, Waiting, Handled
  <2> QED  BY <1>3, <2>7, <2>8, <2>9, <2>10 DEF LineInv
<1> QED  BY <1>5, <1>6

(* A key is struck when the last one has been read and seen at CHARIN.     *)
LEMMA StrikingKeepsLine ==
  ASSUME BaseInv, LineInv, RecordInv, NEW c \in 0 .. \o37, Acknowledged,
         Enqueue(cycles, [kind |-> "key", code |-> c]),
         evidence' = Append(evidence, Supplied(c)),
         UNCHANGED <<channels, pending_interrupts, active_channels, rope>>
  PROVE  LineInv' /\ Len(evidence) = Len(rope.read)
<1> DEFINE n == Len(evidence)
<1>1. /\ n \in Nat /\ DOMAIN evidence = 1 .. n /\ n + 1 = Len(evidence')
      /\ DOMAIN evidence' = 1 .. (n + 1)
      /\ evidence'[n + 1] = Supplied(c)
      /\ \A k \in 1 .. n : evidence'[k] = evidence[k]
      /\ evidence' # <<>> /\ (evidence = <<>> <=> n = 0)
  BY DEF RecordInv
<1>2. ~Waiting /\ ~Handled
  BY DEF Acknowledged, Waiting, Handled, Last
<1>3. n > 0 => evidence[n].keyrupt /\ evidence[n].charin
  BY <1>1 DEF Acknowledged
<1> HIDE DEF n
<1>4. Last' = Supplied(c)
  BY <1>1 DEF Last
<1>5. Waiting' /\ ~Handled'
  BY <1>1, <1>4 DEF Waiting, Handled, Supplied
<1>6. InTurn'
  <2>1. \A k \in DOMAIN evidence' : evidence'[k].code \in 0 .. \o37
    BY <1>1 DEF Supplied, LineInv, InTurn
  <2>2. \A k \in 1 .. n : evidence[k].keyrupt /\ evidence[k].charin
    BY <1>1, <1>3 DEF LineInv, InTurn, n
  <2>3. \A k \in DOMAIN evidence' : k < Len(evidence') => evidence'[k].keyrupt /\ evidence'[k].charin
    BY <1>1, <2>2
  <2> QED  BY <1>4, <2>1, <2>3 DEF InTurn, Supplied
<1>7. KeyQueued' /\ KeyRequested'
  <2>1. \A e \in events : Foreign(e.event)
    BY <1>2 DEF LineInv, KeyQueued
  <2>2. Key1 \notin pending_interrupts'
    BY <1>2 DEF LineInv, KeyRequested
  <2>3. KeyOf(Last)' = [kind |-> "key", code |-> c]
    BY <1>4 DEF KeyOf, Supplied
  <2>4. \A e \in events' : Foreign(e.event) \/ e.event = KeyOf(Last)'
    BY <2>1, <2>3 DEF Enqueue
  <2>5. \A e, f \in events' : Foreign(e.event) \/ Foreign(f.event) \/ e = f
    BY <2>1 DEF Enqueue
  <2> QED  BY <1>5, <2>2, <2>4, <2>5 DEF KeyQueued, KeyRequested, KeyOf
<1>8. Unstuck'
  BY DEF LineInv, Unstuck
<1>9. rope.routine # "key" /\ Unseen # 1
  BY <1>2 DEF LineInv, InRoutine, JobUnseen
<1>10. InRoutine' /\ JobUnseen'
  BY <1>9 DEF LineInv, InRoutine, JobUnseen, Unseen, Fresh
<1>11. Len(evidence) = Len(rope.read) /\ DOMAIN rope.read \subseteq 1 .. n
  <2>1. ~Unread
    BY <1>2, <1>9 DEF Unread
  <2>2. Len(evidence) = Len(rope.read) + 0
    BY <2>1 DEF LineInv, ReadSoFar
  <2> QED  BY <1>1, <2>2 DEF n
<1>12. ReadSoFar'
  BY <1>1, <1>5, <1>11 DEF LineInv, ReadSoFar, Unread, n
<1> QED  BY <1>6, <1>7, <1>8, <1>10, <1>11, <1>12 DEF LineInv

(* What a step shows of the keys: it enters KEYRUPT1 for the one that      *)
(* waits, sees the one being handled at CHARIN, or shows nothing.          *)
Marks ==
  /\ InTurn' /\ Len(evidence') = Len(evidence)
  /\ \A k \in DOMAIN evidence : evidence'[k].code = evidence[k].code
  /\ evidence # <<>> => Last'.code = Last.code
LEMMA LastMarked ==
  ASSUME RecordInv, InTurn, evidence # <<>>, Len(evidence') = Len(evidence),
         DOMAIN evidence' = DOMAIN evidence, NEW e, e.code = Last.code,
         e.charin => e.keyrupt,
         \A j \in DOMAIN evidence : evidence'[j] = IF j = Len(evidence) THEN e ELSE evidence[j]
  PROVE  Marks /\ evidence' # <<>> /\ Last' = e
<1> DEFINE n == Len(evidence)
<1>1. n \in DOMAIN evidence /\ DOMAIN evidence = 1 .. n /\ n \in Nat
  BY DEF RecordInv
<1>2. Last' = e /\ Last = evidence[n]
  BY <1>1 DEF Last
<1>3. evidence' # <<>>
  BY <1>1
<1> HIDE DEF n
<1>4. \A k \in DOMAIN evidence : evidence'[k].code = evidence[k].code
  BY <1>2 DEF n
<1>5. \A k \in DOMAIN evidence' : k < Len(evidence') => evidence'[k].keyrupt /\ evidence'[k].charin
  BY <1>1 DEF InTurn, n
<1>6. InTurn'
  BY <1>2, <1>4, <1>5 DEF InTurn
<1> QED  BY <1>2, <1>3, <1>4, <1>6 DEF Marks

(* The first key not entered is the last one.                              *)
LEMMA WaitingIsFirst ==
  ASSUME RecordInv, InTurn
  PROVE  /\ Waiting => FirstKey(NotEntered(evidence)) = Len(evidence)
         /\ Handled => FirstKey(NotAccepted(evidence)) = Len(evidence)
<1>1. evidence # <<>> => Len(evidence) \in DOMAIN evidence
  BY DEF RecordInv
<1>2. DOMAIN evidence = 1 .. Len(evidence) /\ Len(evidence) \in Nat
  BY DEF RecordInv
<1>3. ASSUME Waiting  PROVE NotEntered(evidence) = {Len(evidence)}
  BY <1>1, <1>2, <1>3 DEF Waiting, Last, NotEntered, InTurn
<1>4. ASSUME Handled  PROVE NotAccepted(evidence) = {Len(evidence)}
  BY <1>1, <1>2, <1>4 DEF Handled, Last, NotAccepted, InTurn
<1>5. ASSUME NEW n \in Nat  PROVE FirstKey({n}) = n
  BY DEF FirstKey
<1> QED  BY <1>2, <1>3, <1>4, <1>5

LEMMA EntryObserved ==
  ASSUME RecordInv, InTurn, Waiting, NEW first, first # "CHARIN", NEW write,
         observe(Key1, first, write)
  PROVE  Marks /\ ~Waiting' /\ Handled'
<1> DEFINE n == Len(evidence)
           e == [Last EXCEPT !.keyrupt = TRUE]
<1>1. n \in DOMAIN evidence /\ Last \in KeyEvidence /\ evidence # <<>>
  BY DEF RecordInv, Waiting, Last
<1>2. ~Last.keyrupt /\ ~Last.charin
  BY DEF Waiting, InTurn
<1>3. e.code = Last.code /\ e.keyrupt /\ ~e.charin
  BY <1>1, <1>2 DEF KeyEvidence
<1>4. FirstKey(NotEntered(evidence)) = n
  BY WaitingIsFirst
<1>5. \A j \in DOMAIN evidence :
        AfterEntry(Key1)[j] = IF j = n THEN [evidence[j] EXCEPT !.keyrupt = TRUE] ELSE evidence[j]
  BY <1>4, EntryMarks DEF RecordInv
<1>6. /\ Len(evidence') = Len(evidence) /\ DOMAIN evidence' = DOMAIN evidence
      /\ \A j \in DOMAIN evidence : evidence'[j] = AfterEntry(Key1)[j]
  <2> DEFINE m == IF first = "CHARIN" THEN FirstKey(NotAccepted(AfterEntry(Key1))) ELSE 0
  <2>1. 0 \notin DOMAIN evidence
    BY DEF RecordInv
  <2>2. m = 0
    OBVIOUS
  <2> HIDE DEF m
  <2>3. /\ Len(evidence') = Len(evidence) /\ DOMAIN evidence' = DOMAIN evidence
        /\ \A j \in DOMAIN evidence :
             evidence'[j] = IF j = m THEN [AfterEntry(Key1)[j] EXCEPT !.charin = TRUE]
                            ELSE AfterEntry(Key1)[j]
    BY ObservationMarks DEF m
  <2> QED  BY <2>1, <2>2, <2>3
<1>7. \A j \in DOMAIN evidence : evidence'[j] = IF j = n THEN e ELSE evidence[j]
  BY <1>5, <1>6 DEF Last
<1> HIDE DEF n, e
<1>8. Marks /\ evidence' # <<>> /\ Last' = e
  BY <1>1, <1>3, <1>6, <1>7, LastMarked DEF n
<1> QED  BY <1>3, <1>8 DEF Waiting, Handled

LEMMA CharinObserved ==
  ASSUME RecordInv, InTurn, Handled, NEW number, number # Key1, NEW write,
         observe(number, "CHARIN", write)
  PROVE  Marks /\ ~Waiting' /\ ~Handled'
<1> DEFINE n == Len(evidence)
           e == [Last EXCEPT !.charin = TRUE]
<1>1. n \in DOMAIN evidence /\ Last \in KeyEvidence /\ evidence # <<>>
  BY DEF RecordInv, Handled, Last
<1>2. e.code = Last.code /\ e.keyrupt /\ e.charin
  BY <1>1 DEF KeyEvidence, Handled
<1>3. AfterEntry(number) = evidence
  BY DEF AfterEntry
<1>4. FirstKey(NotAccepted(evidence)) = n
  BY WaitingIsFirst
<1>5. /\ Len(evidence') = Len(evidence) /\ DOMAIN evidence' = DOMAIN evidence
      /\ \A j \in DOMAIN evidence :
           evidence'[j] = IF j = n THEN [evidence[j] EXCEPT !.charin = TRUE] ELSE evidence[j]
  BY <1>3, <1>4, ObservationMarks
<1>6. \A j \in DOMAIN evidence : evidence'[j] = IF j = n THEN e ELSE evidence[j]
  BY <1>5 DEF Last
<1> HIDE DEF n, e
<1>7. Marks /\ evidence' # <<>> /\ Last' = e
  BY <1>1, <1>2, <1>5, <1>6, LastMarked DEF n
<1> QED  BY <1>2, <1>7 DEF Waiting, Handled

LEMMA NothingObserved ==
  ASSUME NEW number, number # Key1, NEW first, first # "CHARIN", NEW write,
         observe(number, first, write)
  PROVE  evidence' = evidence
  BY DEF observe, AfterEntry

(* What is queued, requested and stuck after the last key was marked.      *)
LEMMA MarkedMachine ==
  ASSUME LineInv, Marks, Waiting' => Waiting, UNCHANGED events,
         channels'[\o15] = channels[\o15],
         Key1 \in pending_interrupts' => Key1 \in pending_interrupts,
         Waiting /\ ~Waiting' =>
           Key1 \notin pending_interrupts' /\ \A e \in events : Foreign(e.event)
  PROVE  KeyQueued' /\ KeyRequested'
<1>1. Waiting => KeyOf(Last)' = KeyOf(Last) /\ Last'.code = Last.code
  BY DEF Marks, Waiting, KeyOf
<1>2. KeyQueued'
  BY <1>1 DEF LineInv, KeyQueued, KeyOf
<1>3. KeyRequested'
  BY <1>1 DEF LineInv, KeyRequested
<1> QED  BY <1>2, <1>3

LEMMA AgingKeepsUnstuck ==
  ASSUME BaseInv, Unstuck, retain
  PROVE  Unstuck'
<1> DEFINE S == {k \in DOMAIN Aged : Remains(Aged[k])}
<1>1. PICK p \in Ascending(S) : active_channels' = [k \in DOMAIN p |-> Aged[p[k]]]
  BY DEF retain
<1>2. \A k \in DOMAIN p : p[k] \in DOMAIN Aged
  BY <1>1 DEF Ascending
<1>3. ASSUME NEW k \in DOMAIN Aged  PROVE Aged[k].channel = active_channels[k].channel
  <2>1. active_channels[k] \in StuckChannel
    BY <1>3 DEF Aged, BaseInv, TypeInv, CampaignTypes
  <2> QED  BY <1>3, <2>1 DEF Aged, StuckChannel
<1>4. DOMAIN Aged = DOMAIN active_channels
  BY DEF Aged
<1> QED  BY <1>1, <1>2, <1>3, <1>4 DEF Unstuck

(* An interrupt is entered for the smallest number requested.              *)
LEMMA HighestEntered ==
  ASSUME BaseInv, pending_interrupts # {}, enter_interrupt
  PROVE  /\ Highest \in pending_interrupts
         /\ Key1 \in pending_interrupts' => Key1 \in pending_interrupts /\ Highest # Key1
<1>1. pending_interrupts \subseteq Interrupt
  BY DEF BaseInv, TypeInv, TypeOK
<1>2. \E i \in pending_interrupts : \A j \in pending_interrupts : i <= j
  BY <1>1, LeastNatural, pending_interrupts \in SUBSET Nat DEF Interrupt
<1>3. Highest \in pending_interrupts /\ \A j \in pending_interrupts : Highest <= j
  BY <1>2 DEF Highest
<1> QED  BY <1>1, <1>3 DEF enter_interrupt, Interrupt, Key1

LEMMA FetchesCharin == RopeInv /\ Fetch = "CHARIN" <=> RopeInv /\ Fresh
  BY DEF RopeInv, RopeStates, Fetch, Fresh

LEMMA EntryKeepsLine ==
  ASSUME BaseInv, RopeInv, RecordInv, LineInv, interrupt_step
  PROVE  LineInv'
<1>1. /\ rope.routine = "none" /\ pending_interrupts # {}
      /\ enter_interrupt /\ retain /\ Enters
      /\ observe(Highest, Fetch, NoWrite)
  BY DEF interrupt_step
<1>2. /\ Highest \in pending_interrupts
      /\ Key1 \in pending_interrupts' => Key1 \in pending_interrupts /\ Highest # Key1
  BY <1>1, HighestEntered
<1>3. Unstuck'
  BY <1>1, AgingKeepsUnstuck DEF LineInv
<1>4. UNCHANGED <<events, channels>>
  BY <1>1 DEF enter_interrupt, queue
<1>5. /\ rope'.routine = IF Highest = Key1 THEN "key" ELSE "other"
      /\ rope'.word = None /\ rope'.substitute = FALSE
      /\ rope'.jobs = rope.jobs /\ rope'.at = rope.at /\ rope'.read = rope.read
  BY <1>1 DEF Enters, RopeInv, RopeStates
<1>6. ~Fresh' /\ Unseen' = IF Fresh THEN Unseen - 1 ELSE Unseen
  <2>1. rope.jobs \in Seq(Word)
    BY DEF RopeInv, RopeStates
  <2>2. Len(rope.jobs) \in Int /\ Len(rope'.jobs) = Len(rope.jobs)
    BY <1>5, <2>1
  <2>3. ~Fresh' /\ rope'.at = rope.at
    BY <1>5 DEF Fresh
  <2>4. Fresh => rope.at = "CHARIN"
    BY DEF Fresh
  <2> QED  BY ONLY <2>2, <2>3, <2>4 DEF Unseen
<1>7. CASE Highest = Key1
  <2>1. Waiting /\ channels[\o15] = Last.code /\ \A e \in events : Foreign(e.event)
    BY <1>2, <1>7 DEF LineInv, KeyRequested
  <2>2. ~Handled
    BY <2>1 DEF Waiting, Handled
  <2>3. ~Fresh /\ Unseen = 0
    BY <2>2 DEF LineInv, JobUnseen
  <2>4. Fetch # "CHARIN"
    BY <2>3, FetchesCharin
  <2>5. Marks /\ ~Waiting' /\ Handled'
    BY <1>1, <1>7, <2>1, <2>4, EntryObserved DEF LineInv
  <2>6. KeyQueued' /\ KeyRequested'
    BY <1>2, <1>4, <1>7, <2>1, <2>5, MarkedMachine
  <2>7. InRoutine'
    BY <1>4, <2>1, <2>5 DEF InRoutine, Marks, Waiting
  <2>8. JobUnseen'
    BY <1>6, <2>3 DEF JobUnseen
  <2>9. ReadSoFar'
    <3>1. Unread /\ Unread'
      BY <1>5, <1>7, <2>1 DEF Unread
    <3>2. \A k \in DOMAIN rope.read : k \in DOMAIN evidence
      BY <3>1 DEF LineInv, ReadSoFar, RecordInv, RopeInv, RopeStates
    <3> QED  BY <1>5, <2>5, <3>1, <3>2 DEF LineInv, ReadSoFar, Marks
  <2> QED  BY <1>3, <2>5, <2>6, <2>7, <2>8, <2>9 DEF LineInv, Marks
<1>8. CASE Highest # Key1
  <2>1. rope'.routine = "other"
    BY <1>5, <1>8
  <2>2. InRoutine'
    BY <2>1 DEF InRoutine
  <2>3. Unread <=> Waiting
    BY <1>1 DEF Unread
  <2>4. Unread' <=> Waiting'
    BY <2>1 DEF Unread
  <2>5. \A k \in DOMAIN rope.read : k \in DOMAIN evidence
    BY DEF LineInv, ReadSoFar, RecordInv, RopeInv, RopeStates
  <2>6. CASE Fetch = "CHARIN"
    <3>1. Fresh /\ Unseen = 1 /\ Handled
      BY <2>6, FetchesCharin DEF LineInv, JobUnseen
    <3>2. ~Waiting
      BY <3>1 DEF Waiting, Handled
    <3>3. Marks /\ ~Waiting' /\ ~Handled'
      BY <1>1, <1>8, <2>6, <3>1, CharinObserved DEF LineInv
    <3>4. KeyQueued' /\ KeyRequested'
      BY <1>2, <1>4, <3>2, <3>3, MarkedMachine
    <3>5. JobUnseen'
      BY <1>6, <3>1 DEF JobUnseen
    <3>6. ReadSoFar'
      BY <1>5, <2>3, <2>4, <2>5, <3>2, <3>3 DEF LineInv, ReadSoFar, Marks
    <3> QED  BY <1>3, <2>2, <3>3, <3>4, <3>5, <3>6 DEF LineInv, Marks
  <2>7. CASE Fetch # "CHARIN"
    <3>1. evidence' = evidence
      BY <1>1, <1>8, <2>7, NothingObserved
    <3>2. Marks /\ Waiting' = Waiting /\ Handled' = Handled
      BY <3>1 DEF LineInv, InTurn, Marks, Last, Waiting, Handled
    <3>3. KeyQueued' /\ KeyRequested'
      BY <1>2, <1>4, <3>2, MarkedMachine
    <3>4. ~Fresh
      BY <2>7, FetchesCharin
    <3>5. JobUnseen'
      BY <1>6, <2>1, <3>2, <3>4 DEF LineInv, JobUnseen
    <3>6. ReadSoFar'
      BY <1>5, <2>3, <2>4, <3>1, <3>2 DEF LineInv, ReadSoFar
    <3> QED  BY <1>3, <2>2, <3>2, <3>3, <3>5, <3>6 DEF LineInv, Marks
  <2> QED  BY <2>6, <2>7
<1> QED  BY <1>7, <1>8

(* The program's own instructions, other than at CHARIN, leave the jobs as *)
(* they are; only an idle program starts one.                              *)
LEMMA ProgramTurn ==
  ASSUME RopeInv,
         P63lmRuns \/ JobStarts \/ ProgramSelected \/ ProgramStarts \/ WordWritten \/ Elsewhere
  PROVE  /\ rope.routine = "none" /\ rope'.routine = "none" /\ rope.at # "CHARIN"
         /\ rope'.jobs = rope.jobs /\ rope'.read = rope.read
         /\ rope'.at # "CHARIN" \/ (rope.jobs # <<>> /\ ~rope'.substitute)
<1> USE DEF RopeInv, RopeStates, Runs
<1>1. CASE P63lmRuns
  BY <1>1 DEF P63lmRuns
<1>2. CASE JobStarts
  BY <1>2 DEF JobStarts
<1>3. CASE ProgramSelected
  BY <1>3 DEF ProgramSelected
<1>4. CASE ProgramStarts
  BY <1>4 DEF ProgramStarts
<1>5. CASE WordWritten
  BY <1>5 DEF WordWritten
<1>6. CASE Elsewhere
  BY <1>6 DEF Elsewhere
<1> QED  BY <1>1, <1>2, <1>3, <1>4, <1>5, <1>6

LEMMA ProgramKeepsLine ==
  ASSUME RopeInv, LineInv, UNCHANGED evidence,
         P63lmRuns \/ JobStarts \/ ProgramSelected \/ ProgramStarts \/ WordWritten \/ Elsewhere
  PROVE  ReadSoFar' /\ InRoutine' /\ JobUnseen'
<1>1. /\ rope.routine = "none" /\ rope'.routine = "none" /\ rope.at # "CHARIN"
      /\ rope'.jobs = rope.jobs /\ rope'.read = rope.read
      /\ rope'.at # "CHARIN" \/ (rope.jobs # <<>> /\ ~rope'.substitute)
  BY ProgramTurn
<1>2. Waiting' = Waiting /\ Handled' = Handled
  BY DEF Waiting, Handled, Last
<1>3. ReadSoFar'
  BY <1>1, <1>2 DEF LineInv, ReadSoFar, Unread
<1>4. InRoutine'
  BY <1>1 DEF InRoutine
<1>5. Len(rope.jobs) \in Nat /\ (rope.jobs # <<>> => Len(rope.jobs) # 0)
  BY DEF RopeInv, RopeStates
<1>6. Unseen = Len(rope.jobs)
  BY <1>1 DEF Unseen
<1>7. Unseen' = Len(rope.jobs) /\ (Fresh' => rope.jobs # <<>>)
  BY <1>1 DEF Unseen, Fresh
<1>8. JobUnseen'
  BY <1>1, <1>2, <1>5, <1>6, <1>7 DEF LineInv, JobUnseen
<1> QED  BY <1>3, <1>4, <1>8

(* KEYRUPT1 reads the key that waits, and leaves a job for it.             *)
LEMMA RoutineKeepsLine ==
  ASSUME RopeInv, LineInv, RecordInv, UNCHANGED evidence, channels[\o15] \in Word,
         channels'[\o15] = channels[\o15],
         RoutineReads \/ RoutineResumes \/ (rope.routine = "other" /\ UNCHANGED rope)
  PROVE  ReadSoFar' /\ InRoutine' /\ JobUnseen'
<1>1. Waiting' = Waiting /\ Handled' = Handled /\ Last' = Last
  BY DEF Waiting, Handled, Last
<1>2. None \notin Word
  BY RuntimeAssumption
<1>3. ~Fresh
  BY DEF Fresh, RoutineReads, RoutineResumes
<1>4. CASE RoutineReads
  <2> DEFINE list == Append(rope.read, channels[\o15])
  <2>1. /\ rope' = [rope EXCEPT !.word = channels[\o15], !.read = list]
        /\ rope.routine = "key" /\ rope.word = None
    BY <1>4 DEF RoutineReads
  <2>2. rope.read \in Seq(Word) /\ Len(rope.read) \in Nat
    BY DEF RopeInv, RopeStates
  <2>3. /\ Len(list) = Len(rope.read) + 1
        /\ list[Len(rope.read) + 1] = channels[\o15]
        /\ \A k \in DOMAIN rope.read : list[k] = rope.read[k]
        /\ \A k \in DOMAIN list : k \in DOMAIN rope.read \/ k = Len(rope.read) + 1
    BY <2>2
  <2> HIDE DEF list
  <2>4. /\ rope'.word = channels[\o15] /\ rope'.read = list /\ rope'.routine = "key"
        /\ rope'.jobs = rope.jobs /\ rope'.at = rope.at /\ rope'.substitute = rope.substitute
    BY <2>1 DEF RopeInv, RopeStates
  <2>5. Handled /\ channels[\o15] = Last.code /\ ~Waiting
    BY <2>1 DEF LineInv, InRoutine, Waiting, Handled
  <2>6. Len(evidence) = Len(rope.read) + 1
        /\ \A k \in DOMAIN rope.read : rope.read[k] = evidence[k].code
    BY <2>1 DEF LineInv, ReadSoFar, Unread
  <2>7. ~Unread'
    BY <1>1, <1>2, <2>4, <2>5 DEF Unread
  <2>8. ReadSoFar'
    <3>1. list[Len(rope.read) + 1] = evidence[Len(evidence)].code
      BY <2>3, <2>5, <2>6 DEF Last
    <3>2. \A k \in DOMAIN list : list[k] = evidence[k].code
      BY <2>3, <2>6, <3>1
    <3> QED  BY <2>2, <2>3, <2>4, <2>6, <2>7, <3>2 DEF ReadSoFar
  <2>9. InRoutine'
    BY <1>1, <2>4, <2>5 DEF InRoutine
  <2>10. JobUnseen'
    <3>1. Unseen' = Unseen /\ ~Fresh'
      BY <1>3, <2>4 DEF Unseen, Fresh
    <3> QED  BY <1>1, <2>1, <3>1 DEF LineInv, JobUnseen
  <2> QED  BY <2>8, <2>9, <2>10
<1>5. CASE RoutineResumes
  <2> DEFINE list == IF rope.routine = "key" THEN Append(rope.jobs, rope.word) ELSE rope.jobs
  <2>1. /\ rope' = [rope EXCEPT !.routine = "none", !.word = None, !.substitute = TRUE,
                      !.jobs = list]
        /\ rope.routine = "other" \/ (rope.routine = "key" /\ rope.word # None)
    BY <1>5 DEF RoutineResumes
  <2>2. /\ Len(rope.jobs) \in Nat
        /\ rope.routine = "other" => Len(list) = Len(rope.jobs)
        /\ rope.routine = "key" => Len(list) = Len(rope.jobs) + 1
    BY DEF RopeInv, RopeStates
  <2> HIDE DEF list
  <2>3. /\ rope'.routine = "none" /\ rope'.substitute /\ rope'.jobs = list
        /\ rope'.at = rope.at /\ rope'.read = rope.read
    BY <2>1 DEF RopeInv, RopeStates
  <2>4. ~Fresh'
    BY <2>3 DEF Fresh
  <2>5. /\ rope.routine = "other" => Unseen' = Unseen
        /\ rope.routine = "key" => Unseen' = Unseen + 1
    BY <1>3, <2>2, <2>3, <2>4 DEF Unseen
  <2>6. JobUnseen'
    BY <1>1, <2>1, <2>3, <2>4, <2>5 DEF LineInv, JobUnseen, InRoutine
  <2>7. InRoutine'
    BY <2>3 DEF InRoutine
  <2>8. ReadSoFar'
    BY <1>1, <2>1, <2>3 DEF LineInv, ReadSoFar, Unread
  <2> QED  BY <2>6, <2>7, <2>8
<1>6. CASE rope.routine = "other" /\ UNCHANGED rope
  BY <1>1, <1>6 DEF LineInv, ReadSoFar, Unread, InRoutine, JobUnseen, Unseen, Fresh
<1> QED  BY <1>4, <1>5, <1>6

(* A job takes its key, which the controller has seen if an interrupt was  *)
(* entered there before.                                                   *)
LEMMA CharinKeepsLine ==
  ASSUME RopeInv, LineInv, CharinRuns, Marks,
         Fresh => ~Waiting' /\ ~Handled',
         ~Fresh => Waiting' = Waiting /\ Handled' = Handled,
         \A k \in DOMAIN rope.read : k \in DOMAIN evidence
  PROVE  ReadSoFar' /\ InRoutine' /\ JobUnseen'
<1> DEFINE rest == Tail(rope.jobs)
           list == Append(rope.typed, Head(rope.jobs))
<1>1. /\ rope.at = "CHARIN" /\ rope.routine = "none"
      /\ rope' = [rope EXCEPT !.typed = list, !.jobs = rest, !.at = "elsewhere",
                              !.substitute = FALSE]
  BY DEF CharinRuns, Runs
<1>2. Len(rope.jobs) \in Nat /\ Len(rest) = Len(rope.jobs) - 1
  BY <1>1 DEF RopeInv, RopeStates
<1> HIDE DEF list, rest
<1>3. /\ rope'.routine = "none" /\ rope'.jobs = rest /\ rope'.at = "elsewhere"
      /\ rope'.read = rope.read
  BY <1>1 DEF RopeInv, RopeStates
<1>4. ~Fresh' /\ Unseen' = Len(rope.jobs) - 1
  BY <1>2, <1>3 DEF Fresh, Unseen
<1>5. Fresh => ~Waiting
  BY DEF LineInv, JobUnseen, Waiting, Handled
<1>6. ReadSoFar'
  <2>1. (Unread <=> Waiting) /\ (Unread' <=> Waiting') /\ (Waiting' <=> Waiting)
    BY <1>1, <1>3, <1>5 DEF Unread
  <2> QED  BY <1>3, <2>1 DEF LineInv, ReadSoFar, Marks
<1>7. InRoutine'
  BY <1>3 DEF InRoutine
<1>8. CASE Fresh
  <2>1. Unseen = 1 /\ Unseen = Len(rope.jobs)
    BY <1>8 DEF LineInv, JobUnseen, Unseen
  <2> QED  BY <1>4, <1>6, <1>7, <2>1 DEF JobUnseen
<1>9. CASE ~Fresh
  <2>1. Unseen = Len(rope.jobs) - 1
    BY <1>1, <1>9 DEF Unseen
  <2>2. JobUnseen'
    BY <1>3, <1>4, <1>9, <2>1 DEF LineInv, JobUnseen
  <2> QED  BY <1>6, <1>7, <2>2
<1> QED  BY <1>8, <1>9

LEMMA StepKeepsLine ==
  ASSUME BaseInv, RopeInv, RecordInv, LineInv, OnlyOperatorTypes, instruction_step
  PROVE  LineInv'
<1>1. execute /\ retain /\ rope_step /\ consume_trace
  BY DEF instruction_step
<1>2. Unstuck'
  BY <1>1, AgingKeepsUnstuck DEF LineInv
<1>3. channels'[\o15] = channels[\o15]
  <2>1. \A o \in Outputs : o[1] # \o15
    BY DEF OnlyOperatorTypes
  <2>2. channels \in [Channels -> Word] /\ \o15 \in Channels
    BY RuntimeAssumption DEF BaseInv, TypeInv, TypeOK
  <2> QED  BY <1>1, <2>1, <2>2 DEF consume_trace
<1>4. Key1 \in pending_interrupts' => Key1 \in pending_interrupts
  BY <1>1 DEF execute, OnlyOperatorTypes
<1>5. UNCHANGED events
  BY <1>1 DEF execute, queue
<1>6. channels[\o15] \in Word
  BY RuntimeAssumption DEF BaseInv, TypeInv, TypeOK
<1>7. 0 # Key1
  BY DEF Key1
<1>8. ASSUME UNCHANGED evidence  PROVE KeyQueued' /\ KeyRequested' /\ InTurn'
  <2>1. Marks /\ Waiting' = Waiting
    BY <1>8 DEF LineInv, InTurn, Marks, Last, Waiting
  <2> QED  BY <1>3, <1>4, <1>5, <2>1, MarkedMachine DEF Marks
<1>9. ASSUME CharinRuns, NEW write, observe(0, Fetch, write)  PROVE LineInv'
  <2>1. \A k \in DOMAIN rope.read : k \in DOMAIN evidence
    BY DEF LineInv, ReadSoFar, RecordInv, RopeInv, RopeStates
  <2>2. CASE Fresh
    <3>1. Fetch = "CHARIN" /\ Handled
      BY <2>2, FetchesCharin DEF LineInv, JobUnseen
    <3>2. Marks /\ ~Waiting' /\ ~Handled'
      BY <1>7, <1>9, <3>1, CharinObserved DEF LineInv
    <3>3. KeyQueued' /\ KeyRequested'
      BY <1>3, <1>4, <1>5, <3>1, <3>2, MarkedMachine DEF Waiting, Handled
    <3>4. ReadSoFar' /\ InRoutine' /\ JobUnseen'
      BY <1>9, <2>1, <2>2, <3>2, CharinKeepsLine
    <3> QED  BY <1>2, <3>2, <3>3, <3>4 DEF LineInv, Marks
  <2>3. CASE ~Fresh
    <3>1. Fetch # "CHARIN"
      BY <2>3, FetchesCharin
    <3>2. evidence' = evidence
      BY <1>7, <1>9, <3>1, NothingObserved
    <3>3. Marks /\ Waiting' = Waiting /\ Handled' = Handled
      BY <3>2 DEF LineInv, InTurn, Marks, Last, Waiting, Handled
    <3>4. ReadSoFar' /\ InRoutine' /\ JobUnseen'
      BY <1>9, <2>1, <2>3, <3>3, CharinKeepsLine
    <3> QED  BY <1>2, <1>8, <3>2, <3>4 DEF LineInv
  <2> QED  BY <2>2, <2>3
<1>10. ASSUME ~CharinRuns, NEW write, observe(0, Fetch, write),
              \/ RoutineReads \/ RoutineResumes \/ (rope.routine = "other" /\ UNCHANGED rope)
              \/ P63lmRuns \/ JobStarts \/ ProgramSelected \/ ProgramStarts \/ WordWritten
              \/ Elsewhere
       PROVE  LineInv'
  <2>1. Fetch # "CHARIN"
    <3>1. ~Fresh
      BY <1>10, ProgramTurn DEF Fresh, RoutineReads, RoutineResumes
    <3> QED  BY <3>1, FetchesCharin
  <2>2. UNCHANGED evidence
    BY <1>7, <1>10, <2>1, NothingObserved
  <2>3. ReadSoFar' /\ InRoutine' /\ JobUnseen'
    <3>1. CASE RoutineReads \/ RoutineResumes \/ (rope.routine = "other" /\ UNCHANGED rope)
      BY <1>3, <1>6, <2>2, <3>1, RoutineKeepsLine
    <3>2. CASE \/ P63lmRuns \/ JobStarts \/ ProgramSelected \/ ProgramStarts \/ WordWritten
               \/ Elsewhere
      BY <2>2, <3>2, ProgramKeepsLine
    <3> QED  BY <1>10, <3>1, <3>2
  <2> QED  BY <1>2, <1>8, <2>2, <2>3 DEF LineInv
<1> QED  BY <1>1, <1>9, <1>10 DEF rope_step, RopeProgress

LEMMA LineInductive ==
  OnlyOperatorTypes =>
    (BaseInv /\ RopeInv /\ RecordInv /\ LineInv /\ [NextMission]_missionvars => LineInv')
<1> SUFFICES ASSUME OnlyOperatorTypes, BaseInv, RopeInv, RecordInv, LineInv,
                    [NextMission]_missionvars
             PROVE  LineInv'
  OBVIOUS
<1> USE DEF mission, controller, record
<1>1. ASSUME UNCHANGED <<queue, channels, pending_interrupts, active_channels, evidence, rope>>
      PROVE  LineInv'
  <2>1. Unstuck'
    BY <1>1 DEF LineInv, Unstuck
  <2> QED  BY <1>1, <2>1, OthersQueue DEF queue
<1>2. CASE offer_input
  <2> DEFINE v == inputs[input_index + 1].event
  <2>1. Foreign(v)
    <3>1. inputs \in Scenarios /\ inputs \in Seq([instruction : Nat, event : Inputs])
      BY MissionAssumption DEF BaseInv
    <3>2. input_index + 1 \in DOMAIN inputs
      BY <1>2, <3>1 DEF offer_input, InputDue, BaseInv
    <3> QED  BY <3>1, <3>2 DEF OnlyOperatorTypes
  <2>2. v.kind # "key"
    BY <2>1 DEF Foreign
  <2>3. Enqueue(cycles, v) /\ UNCHANGED <<evidence, rope, machine, campaign>>
    BY <1>2, <2>2 DEF offer_input
  <2> HIDE DEF v
  <2>4. \A e \in events' : e \in events \/ Foreign(e.event)
    BY <2>1, <2>3 DEF Enqueue
  <2>5. Unstuck'
    BY <2>3 DEF LineInv, Unstuck, campaign
  <2> QED  BY <2>3, <2>4, <2>5, OthersQueue DEF machine
<1>3. CASE offer_key
  <2> DEFINE c == SequenceKeys[dsky_index + 1]
  <2>1. c \in 0 .. \o37
    <3>1. dsky_index + 1 \in 1 .. Len(SequenceKeys) /\ SequenceKeys \in Seq(0 .. \o37)
      BY <1>3, MissionAssumption DEF offer_key, KeyDue, BaseInv
    <3> QED  BY ONLY <3>1, Member
  <2>2. /\ Acknowledged /\ Enqueue(cycles, [kind |-> "key", code |-> c])
        /\ evidence' = Append(evidence, Supplied(c))
        /\ UNCHANGED <<machine, campaign, rope>>
    BY <1>3 DEF offer_key, KeyDue
  <2> HIDE DEF c
  <2> QED  BY <2>1, <2>2, StrikingKeepsLine DEF machine, campaign
<1>4. CASE engine_part
  <2>1. UNCHANGED <<evidence, rope>>
    BY <1>4 DEF engine_part
  <2>2. CASE begin_engine_step
    BY <1>1, <2>1, <2>2 DEF begin_engine_step, machine, campaign
  <2>3. CASE apply_fault
    BY <2>1, <2>3, FaultsKeepLine
  <2>4. CASE enforce_channels
    BY <2>1, <2>4, EnforcingKeepsLine
  <2>5. CASE deliver /\ UNCHANGED campaign
    BY <2>1, <2>5, DeliveryKeepsLine
  <2> QED  BY <1>4, <2>2, <2>3, <2>4, <2>5 DEF engine_part
<1>5. CASE engine_fails
  <2>1. /\ UNCHANGED <<machine, active_channels, evidence, rope>>
        /\ events' \subseteq events
    BY <1>5 DEF engine_fails, reject_fault, reject_event, queue, campaign
  <2>2. Unstuck'
    BY <2>1 DEF LineInv, Unstuck
  <2> QED  BY <2>1, <2>2, OthersQueue DEF machine
<1>6. CASE interrupt_step
  BY <1>6, EntryKeepsLine
<1>7. CASE instruction_step
  BY <1>7, StepKeepsLine
<1>8. CASE offered \/ UNCHANGED missionvars
  BY <1>1, <1>8 DEF offered, missionvars, allvars, vars, machine, campaign
<1>9. CASE \E n \in Boundaries, f \in Faults :
             schedule_fault(n, f) /\ instructions = 0 /\ offering /\ UNCHANGED mission
  BY <1>1, <1>9 DEF schedule_fault, vars, machine
<1> QED  BY <1>2, <1>3, <1>4, <1>5, <1>6, <1>7, <1>8, <1>9 DEF NextMission, controller_step

LEMMA LineInitial == InitMission => LineInv
<1> SUFFICES ASSUME InitMission PROVE LineInv
  OBVIOUS
<1>1. /\ evidence = <<>> /\ events = {} /\ pending_interrupts = {Downrupt}
      /\ active_channels = <<>> /\ rope = NewRope
  BY DEF InitMission, InitFaults, Init
<1>2. /\ rope.routine = "none" /\ rope.jobs = <<>> /\ rope.at = "elsewhere"
      /\ rope.read = <<>>
  BY <1>1 DEF NewRope
<1>3. ~Waiting /\ ~Unread /\ ~Fresh /\ Unseen = 0
  BY <1>1, <1>2 DEF Waiting, Unread, Fresh, Unseen
<1> QED  BY <1>1, <1>2, <1>3
         DEF LineInv, InTurn, KeyQueued, KeyRequested, Unstuck, ReadSoFar, InRoutine,
             JobUnseen, Downrupt, Key1

LEMMA LineInvariant ==
  OnlyOperatorTypes => (SpecMission => [](BaseInv /\ RopeInv /\ RecordInv /\ LineInv))
<1> SUFFICES ASSUME OnlyOperatorTypes
             PROVE  SpecMission => [](BaseInv /\ RopeInv /\ RecordInv /\ LineInv)
  OBVIOUS
<1>1. BaseInv /\ RopeInv /\ RecordInv /\ LineInv /\ [NextMission]_missionvars => LineInv'
  BY LineInductive
<1> QED  BY <1>1, BaseInitial, BaseInductive, RopeInitial, RopeInductive, RecordInitial,
            RecordInductive, LineInitial, PTL DEF SpecMission

(* What the operator typed is only added to, and changed by no step.       *)
LEMMA RequestsKept ==
  ASSUME RecordInv, NEW number, NEW first, NEW write, observe(number, first, write)
  PROVE  Requested' = Requested
<1>1. DOMAIN evidence' = DOMAIN evidence
  BY ObservationMarks
<1>2. \A j \in DOMAIN evidence : evidence[j] \in KeyEvidence
  BY DEF RecordInv
<1>3. \A j \in DOMAIN evidence :
        /\ AfterEntry(number)[j] \in KeyEvidence
        /\ AfterEntry(number)[j].code = evidence[j].code
  <2>1. AfterEntry(number) \in Seq(KeyEvidence) /\ DOMAIN AfterEntry(number) = DOMAIN evidence
    BY EntryMarks DEF RecordInv
  <2>2. ASSUME NEW j \in DOMAIN evidence
        PROVE  \/ AfterEntry(number)[j] = evidence[j]
               \/ AfterEntry(number)[j] = [evidence[j] EXCEPT !.keyrupt = TRUE]
    BY EntryMarks DEF RecordInv
  <2>3. ASSUME NEW j \in DOMAIN evidence  PROVE AfterEntry(number)[j].code = evidence[j].code
    BY <1>2, <2>2, <2>3 DEF KeyEvidence
  <2> QED  BY <2>1, <2>3
<1>4. ASSUME NEW j \in DOMAIN evidence  PROVE evidence'[j].code = evidence[j].code
  <2>1. \/ evidence'[j] = AfterEntry(number)[j]
        \/ evidence'[j] = [AfterEntry(number)[j] EXCEPT !.charin = TRUE]
    BY ObservationMarks
  <2> QED  BY <1>3, <2>1 DEF KeyEvidence
<1> QED  BY <1>1, <1>4 DEF Requested

(* What the rope has read grows only where KEYRUPT1 reads.                 *)
LEMMA ReadingKept ==
  ASSUME RopeInv, RopeChange, ~RoutineReads
  PROVE  rope'.read = rope.read
  BY DEF RopeChange, RopeInv, RopeStates, Enters, RoutineResumes, CharinRuns, P63lmRuns,
         JobStarts, ProgramSelected, ProgramStarts, WordWritten, Elsewhere, Runs

LEMMA KeyReceived ==
  ASSUME RopeInv, RecordInv, LineInv, RoutineReads, Requested' = Requested
  PROVE  Line!Receive
<1>1. /\ rope' = [rope EXCEPT !.word = channels[\o15], !.read = Append(@, channels[\o15])]
      /\ rope.routine = "key" /\ rope.word = None
  BY DEF RoutineReads
<1>2. Handled /\ channels[\o15] = Last.code
  BY <1>1 DEF LineInv, InRoutine
<1>3. Len(evidence) = Len(rope.read) + 1
  BY <1>1 DEF LineInv, ReadSoFar, Unread
<1>4. /\ Len(evidence) \in DOMAIN evidence /\ Len(Requested) = Len(evidence)
      /\ Len(rope.read) \in Nat
  BY <1>2 DEF RecordInv, Handled, Requested, RopeInv, RopeStates
<1>5. channels[\o15] = Requested[Len(rope.read) + 1]
  BY <1>2, <1>3, <1>4 DEF Requested, Last
<1>6. rope'.read = Append(rope.read, channels[\o15])
  BY <1>1 DEF RopeInv, RopeStates
<1> QED  BY <1>3, <1>4, <1>5, <1>6 DEF Line!Receive

LEMMA SequenceIsFunction ==
  ASSUME NEW S, NEW s \in Seq(S), NEW n, Len(s) = n
  PROVE  s = [j \in 1 .. n |-> s[j]]
  OBVIOUS

LEMMA KeyStruck ==
  ASSUME BaseInv, RopeInv, RecordInv, LineInv, OnlyOperatorTypes, offer_key
  PROVE  \E c \in Codes : Line!Strike(c)
<1> DEFINE k == dsky_index + 1
           c == SequenceKeys[k]
           v == [kind |-> "key", code |-> c]
<1>1. k \in 1 .. Len(SequenceKeys) /\ SequenceKeys \in Seq(0 .. \o37)
  BY MissionAssumption DEF offer_key, KeyDue, BaseInv
<1>2. c \in 0 .. \o37
  BY ONLY <1>1, Member
<1>3. c \in Codes
  <2>1. v \in Inputs /\ v.kind = "key" /\ v.code = c
    BY <1>1, MissionAssumption
  <2> QED  BY <2>1, MissionAssumption
<1>4. /\ Acknowledged /\ Enqueue(cycles, v)
      /\ evidence' = Append(evidence, Supplied(c))
      /\ UNCHANGED <<machine, campaign, rope>>
  BY DEF offer_key, KeyDue
<1> HIDE DEF c
<1>5. Len(evidence) = Len(rope.read)
  BY <1>2, <1>4, StrikingKeepsLine DEF machine, campaign
<1>6. Requested \in Seq(Codes) /\ Len(Requested) = Len(evidence)
  <2>1. /\ Len(evidence) \in Nat /\ DOMAIN evidence = 1 .. Len(evidence)
        /\ \A j \in DOMAIN evidence : evidence[j] \in KeyEvidence
    BY DEF RecordInv
  <2>2. \A j \in DOMAIN evidence : evidence[j].code \in Codes
    BY <2>1 DEF KeyEvidence
  <2>3. Requested \in [1 .. Len(evidence) -> Codes]
    BY <2>1, <2>2 DEF Requested
  <2> QED  BY <2>1, <2>3
<1>7. Requested' = Append(Requested, c)
  <2> DEFINE n == Len(evidence)
             longer == Append(evidence, Supplied(c))
  <2>1. /\ n \in Nat /\ DOMAIN evidence = 1 .. n /\ DOMAIN longer = 1 .. (n + 1)
        /\ longer[n + 1] = Supplied(c)
        /\ \A j \in 1 .. n : longer[j] = evidence[j]
    BY DEF RecordInv
  <2>2. evidence' = longer
    BY <1>4
  <2> HIDE DEF n, longer
  <2>3. Requested' = [j \in 1 .. (n + 1) |-> longer[j].code]
    BY <2>1, <2>2 DEF Requested
  <2>4. /\ DOMAIN Append(Requested, c) = 1 .. (n + 1)
        /\ Append(Requested, c)[n + 1] = c
        /\ \A j \in 1 .. n : Append(Requested, c)[j] = Requested[j]
        /\ Append(Requested, c) = [j \in 1 .. (n + 1) |-> Append(Requested, c)[j]]
    <3>1. Requested \in Seq(Codes) /\ n = Len(Requested) /\ c \in Codes
      BY <1>3, <1>6 DEF n
    <3> HIDE DEF Requested
    <3>2. Append(Requested, c) \in Seq(Codes) /\ Len(Append(Requested, c)) = n + 1
      BY ONLY <3>1
    <3>3. Append(Requested, c) = [j \in 1 .. (n + 1) |-> Append(Requested, c)[j]]
      BY ONLY <3>2, SequenceIsFunction
    <3>4. /\ DOMAIN Append(Requested, c) = 1 .. (n + 1)
          /\ Append(Requested, c)[n + 1] = c
          /\ \A j \in 1 .. n : Append(Requested, c)[j] = Requested[j]
      BY ONLY <3>1
    <3> QED  BY ONLY <3>3, <3>4
  <2>5. \A j \in 1 .. n : Requested[j] = evidence[j].code
    BY <2>1 DEF Requested
  <2>6. \A j \in 1 .. (n + 1) : longer[j].code = Append(Requested, c)[j]
    BY <2>1, <2>4, <2>5 DEF Supplied
  <2> QED  BY <2>3, <2>4, <2>6
<1> QED  BY <1>3, <1>4, <1>5, <1>6, <1>7 DEF Line!Strike

(* Every step is one of the key line, or leaves it alone.                  *)
LEMMA LineStep ==
  ASSUME OnlyOperatorTypes, BaseInv, RopeInv, RecordInv, LineInv, [NextMission]_missionvars
  PROVE  [Line!Next]_<<Requested, rope.read>>
<1> USE DEF mission, controller, record
<1>1. ASSUME Requested' = Requested  PROVE [Line!Next]_<<Requested, rope.read>>
  <2>1. CASE RoutineReads
    BY <1>1, <2>1, KeyReceived DEF Line!Next
  <2>2. CASE ~RoutineReads
    BY <1>1, <2>2, RopeChanges, ReadingKept
  <2> QED  BY <2>1, <2>2
<1>2. ASSUME UNCHANGED evidence  PROVE [Line!Next]_<<Requested, rope.read>>
  BY <1>1, <1>2 DEF Requested
<1>3. CASE offer_input
  <2> DEFINE v == inputs[input_index + 1].event
  <2>1. Foreign(v)
    <3>1. inputs \in Scenarios /\ inputs \in Seq([instruction : Nat, event : Inputs])
      BY MissionAssumption DEF BaseInv
    <3>2. input_index + 1 \in DOMAIN inputs
      BY <1>3, <3>1 DEF offer_input, InputDue, BaseInv
    <3> QED  BY <3>1, <3>2 DEF OnlyOperatorTypes
  <2> QED  BY <1>2, <1>3, <2>1 DEF offer_input, Foreign
<1>4. CASE offer_key
  BY <1>4, KeyStruck DEF Line!Next
<1>5. CASE offered \/ engine_part \/ engine_fails \/ UNCHANGED missionvars
  BY <1>2, <1>5 DEF offered, engine_part, engine_fails, missionvars
<1>6. CASE interrupt_step
  BY <1>1, <1>6, RequestsKept DEF interrupt_step
<1>7. CASE instruction_step
  BY <1>1, <1>7, RequestsKept DEF instruction_step, rope_step
<1>8. CASE \E n \in Boundaries, f \in Faults :
             schedule_fault(n, f) /\ instructions = 0 /\ offering /\ UNCHANGED mission
  BY <1>2, <1>8
<1> QED  BY <1>3, <1>4, <1>5, <1>6, <1>7, <1>8 DEF NextMission, controller_step

(* Where the operator alone has the keyboard, keys reach the rope one at a *)
(* time, each as it was typed and before the next is, whatever interrupts  *)
(* and faults come between (KeyEvidence, the acknowledgements of run).     *)
THEOREM KeysInTurn ==
  ASSUME OnlyOperatorTypes
  PROVE  SpecMission => ImplementsKeyLine
<1>1. InitMission => Line!Init
  BY DEF InitMission, NewRope, Requested, Line!Init
<1>2. BaseInv /\ RopeInv /\ RecordInv /\ LineInv /\ [NextMission]_missionvars
        => [Line!Next]_<<Requested, rope.read>>
  BY LineStep
<1>3. SpecMission => [](BaseInv /\ RopeInv /\ RecordInv /\ LineInv)
  BY LineInvariant
<1> QED  BY <1>1, <1>2, <1>3, PTL DEF SpecMission, ImplementsKeyLine, Line!Spec

-----------------------------------------------------------------------------
(***************************************************************************)
(* A verified request.                                                     *)
(***************************************************************************)
StartSeen == "P63LM" \in milestones => rope.started \/ rope.at = "P63LM"

LEMMA StartObserved ==
  ASSUME RopeInv, RopeChange, StartSeen, NEW number, NEW write, observe(number, Fetch, write)
  PROVE  StartSeen'
<1>1. "P63LM" \in milestones' => "P63LM" \in milestones \/ Fetch = "P63LM"
  BY DEF observe, Seen
<1>2. Fetch = "P63LM" => rope.at = "P63LM"
  BY DEF Fetch
<1>3. rope.started => rope'.started
  BY RopeAdvances
<1>4. rope.at = "P63LM" => rope'.at = "P63LM" \/ rope'.started
  BY StartRuns
<1> QED  BY <1>1, <1>2, <1>3, <1>4 DEF StartSeen

LEMMA StartInductive == RopeInv /\ StartSeen /\ [NextMission]_missionvars => StartSeen'
<1> SUFFICES ASSUME RopeInv, StartSeen, [NextMission]_missionvars PROVE StartSeen'
  OBVIOUS
<1>1. CASE interrupt_step
  BY <1>1, RopeChanges, StartObserved DEF interrupt_step
<1>2. CASE instruction_step
  BY <1>2, RopeChanges, StartObserved DEF instruction_step, rope_step
<1>3. CASE ~interrupt_step /\ ~instruction_step
  BY <1>3, OnlyStepsObserve DEF StartSeen
<1> QED  BY <1>1, <1>2, <1>3

(* With every key accepted, the rope has read all of them.                 *)
LEMMA VerifiedIsRead ==
  ASSUME RopeInv, RecordInv, LineInv, keyboard_sequence_verified
  PROVE  rope.read = Requested
<1> DEFINE n == Len(evidence)
<1>1. n \in DOMAIN evidence /\ DOMAIN evidence = 1 .. n /\ n \in Nat
  BY DEF RecordInv, keyboard_sequence_verified
<1>2. ~Waiting /\ ~Handled
  BY <1>1 DEF keyboard_sequence_verified, Waiting, Handled, Last
<1>3. ~Unread
  BY <1>2 DEF LineInv, InRoutine, Unread
<1>4. /\ n = Len(rope.read) + 0
      /\ \A k \in DOMAIN rope.read : rope.read[k] = evidence[k].code
  BY <1>3 DEF LineInv, ReadSoFar
<1>5. rope.read \in Seq(Word)
  BY DEF RopeInv, RopeStates
<1> HIDE DEF n
<1>6. n = Len(rope.read) /\ DOMAIN rope.read = 1 .. n
  BY <1>1, <1>4, <1>5
<1>7. rope.read = [k \in 1 .. n |-> rope.read[k]]
  BY <1>5, <1>6, SequenceIsFunction
<1>8. Requested = [k \in 1 .. n |-> evidence[k].code]
  BY <1>1 DEF Requested
<1> QED  BY <1>4, <1>6, <1>7, <1>8

(* A report claims no more than what the rope did: landing guidance, the   *)
(* request for P63 where the operator alone has the keyboard, the frames   *)
(* (run).                                                                  *)
THEOREM ReportsSound ==
  ASSUME OnlyOperatorTypes
  PROVE  SpecMission => []ReportSound
<1>1. InitMission => StartSeen
  BY DEF InitMission, StartSeen
<1>2. ASSUME RopeInv, RecordInv, LineInv, StartSeen  PROVE RequestReported
  BY <1>2, VerifiedIsRead DEF StartSeen, RequestReported, verified_p63_request
<1>3. SpecMission => [](BaseInv /\ RopeInv /\ RecordInv /\ LineInv)
  BY LineInvariant
<1>4. SpecMission => []StartSeen
  BY <1>1, RopeInitial, BaseInitial, BaseInductive, RopeInductive, StartInductive, PTL
     DEF SpecMission
<1>5. SpecMission => []RequestReported
  BY <1>2, <1>3, <1>4, PTL
<1>6. GuidanceReported /\ RequestReported /\ FramesReported => ReportSound
  BY DEF ReportSound
<1> QED  BY <1>5, <1>6, GuidanceIsStarted, FramesComplete, PTL
=============================================================================
