----------------------------- MODULE AgcRuntime -----------------------------
(***************************************************************************)
(* The event queue around the processor: crate agc-runtime.  The host      *)
(* schedules events for a machine cycle; each step collects those that are *)
(* due, applies them one at a time in the order of their keys, and then    *)
(* executes one instruction or enters one interrupt.                       *)
(*                                                                         *)
(* The processor is reduced to what the queue can see of it: its clock,    *)
(* its instruction count, the requests it takes and makes, and the channel *)
(* an instruction writes.  AgcInterrupts and AgcScaler model the rest.     *)
(***************************************************************************)
EXTENDS AgcWord, Sequences

CONSTANTS
  Inputs,     \* the events
  HostInputs, \* those that the host schedules
  Times,      \* the cycles it schedules them for
  Durations,  \* the cycles a step of the processor takes
  Outputs,    \* the <<channel, word>> pairs instructions write
  Raised,     \* the interrupts the processor's own clock requests
  Channels,   \* the channels in use
  Cells,      \* the erasable cells in use, by unswitched address
  MaxEvents,  \* bound: the host schedules this many
  Horizon,    \* bound: the clock and the instruction count stop here
  None        \* no word captured

Interrupt == 1 .. 10
Key1 == 5
Downrupt == 8
Radar == 9
RateCell == \o45
RangeCell == \o46
Inertial == \o32 .. \o34
PulseCount == {n \in Int : -\o100000 <= n /\ n <= \o77777}   \* i16

(* An event, as far as its fields say: sixteen-bit pulse counts, a number  *)
(* of a channel or a cell, in use if it exists at all.                     *)
RuntimeEvent(v) ==
  \/ /\ v.kind = "channel" /\ v.channel \in Nat /\ v.value \in Word
     /\ v.channel <= \o777 => v.channel \in Channels
  \/ v.kind = "interrupt" /\ v.interrupt \in Interrupt
  \/ /\ v.kind = "erasable" /\ v.cell \in Nat /\ v.value \in Word
     /\ v.cell <= \o3777 => v.cell \in Cells
  \/ v.kind = "imu" /\ v.pulses \in [Inertial -> PulseCount]
  \/ v.kind = "radar" /\ v.range \in Word /\ v.rate \in Word
  \/ v.kind = "key" /\ v.code \in Nat

ASSUME RuntimeAssumption ==
  /\ \A v \in Inputs : RuntimeEvent(v)
  /\ HostInputs \subseteq Inputs
  /\ Times \subseteq Nat
  /\ Durations \subseteq Nat \ {0}
  /\ Outputs \subseteq Channels \X Word
  /\ Raised \subseteq Interrupt
  /\ {\o15, \o34, \o35} \subseteq Channels
  /\ {RateCell, RangeCell} \cup Inertial \subseteq Cells
  /\ MaxEvents \in Nat
  /\ Horizon \in Nat
  /\ None \notin Word

VARIABLES
  stage,               \* where the step under way is
  cycles,              \* the processor's clock
  instructions,        \* the instructions it has committed
  events,              \* the queue
  next_event_sequence, \* the number the next event gets
  keys,                \* the due events this step has still to apply
  channels,            \* the channel words
  memory,              \* the erasable cells that events write
  pending_interrupts,  \* the processor's requests
  imu,                 \* HardwareState: the pulses accumulated on each axis
  samples,             \* HardwareState: the radar samples supplied
  pending_downlink_1,  \* HardwareState: the word captured from channel 034
  pending_downlink_2,  \* HardwareState: the word captured from channel 035
  downlink,            \* HardwareState: the frames captured
  downlink_words       \* the processor's own record of a half-sent pair

queue == <<events, next_event_sequence>>
machine == <<channels, memory, pending_interrupts, imu, samples>>
frames == <<pending_downlink_1, pending_downlink_2, downlink, downlink_words>>
clock == <<cycles, instructions>>
vars == <<stage, keys, queue, machine, frames, clock>>

-----------------------------------------------------------------------------
(* BTreeMap order of the keys (cycle, sequence).                           *)
Before(e, f) ==
  e.cycle < f.cycle \/ (e.cycle = f.cycle /\ e.sequence < f.sequence)

(* Mutant: the newest event of a cycle goes first.                         *)
First_newest(S) ==
  CHOOSE e \in S : \A f \in S :
    e.cycle < f.cycle \/ (e.cycle = f.cycle /\ e.sequence >= f.sequence)
First(S) == CHOOSE e \in S : \A f \in S : e = f \/ Before(e, f)

(* Mutants: the events of this very cycle are left; those of the next one  *)
(* are taken.                                                              *)
Due_strictly == {e \in events : e.cycle < cycles}
Due_ahead == {e \in events : e.cycle <= cycles + 1}
Due == {e \in events : e.cycle <= cycles}

Stopped(n) == IF n > Horizon THEN Horizon ELSE n

(* from_i32, or the low fifteen bits of a count it does not accept.        *)
(* Mutant: the low fifteen bits of every count.                            *)
Encoded_truncated(n) == n % \o100000
Encoded(n) ==
  IF n \in 0 .. \o37777 THEN n
  ELSE IF n \in -\o37777 .. -1 THEN \o77777 + n ELSE n % \o100000

(* An event names a channel or a cell that does not exist.                 *)
Rejected(v) ==
  \/ v.kind = "channel" /\ v.channel > \o777
  \/ v.kind = "erasable" /\ v.cell > \o3777

Init ==
  /\ stage = "idle"
  /\ cycles = 0
  /\ instructions = 0
  /\ events = {}
  /\ next_event_sequence = 0
  /\ keys = {}
  /\ channels = [c \in Channels |-> 0]
  /\ memory = [c \in Cells |-> 0]
  /\ pending_interrupts = {Downrupt}
  /\ imu = [a \in Inertial |-> 0]
  /\ samples = 0
  /\ pending_downlink_1 = None
  /\ pending_downlink_2 = None
  /\ downlink = <<>>
  /\ downlink_words = {}

Enqueue(t, v) ==
  /\ events' = events \cup
       {[cycle |-> t, sequence |-> next_event_sequence, event |-> v]}
  /\ next_event_sequence' = next_event_sequence + 1

schedule(t, v) ==
  /\ stage = "idle"
  /\ next_event_sequence < MaxEvents
  /\ Enqueue(t, v)
  /\ UNCHANGED <<stage, keys, machine, frames, clock>>

(* The keys are collected before the first event is applied.               *)
begin_step ==
  /\ stage = "idle"
  /\ stage' = "events"
  /\ keys' = Due
  /\ UNCHANGED <<queue, machine, frames, clock>>

apply_event(v) ==
  \/ /\ v.kind = "channel"
     /\ channels' = [channels EXCEPT ![v.channel] = v.value]
     /\ UNCHANGED <<memory, pending_interrupts, imu, samples>>
  \/ /\ v.kind = "interrupt"
     /\ pending_interrupts' = pending_interrupts \cup {v.interrupt}
     /\ UNCHANGED <<channels, memory, imu, samples>>
  \/ /\ v.kind = "erasable"
     /\ memory' = [memory EXCEPT ![v.cell] = v.value]
     /\ UNCHANGED <<channels, pending_interrupts, imu, samples>>
  \/ /\ v.kind = "imu"
     /\ imu' = [a \in Inertial |-> imu[a] + v.pulses[a]]
     /\ memory' = [c \in Cells |-> IF c \in Inertial
                                   THEN wrapping_add(memory[c], Encoded(v.pulses[c]))
                                   ELSE memory[c]]
     /\ UNCHANGED <<channels, pending_interrupts, samples>>
  \/ /\ v.kind = "radar"
     /\ memory' = [memory EXCEPT ![RangeCell] = v.range, ![RateCell] = v.rate]
     /\ samples' = samples + 1
     /\ pending_interrupts' = pending_interrupts \cup {Radar}
     /\ UNCHANGED <<channels, imu>>
  \/ /\ v.kind = "key"
     /\ channels' = [channels EXCEPT ![\o15] = v.code % \o40]
     /\ pending_interrupts' = pending_interrupts \cup {Key1}
     /\ UNCHANGED <<memory, imu, samples>>

(* Mutant: an event that fails stays queued.                               *)
reject_event_kept ==
  /\ stage = "events"
  /\ keys # {}
  /\ Rejected(First(keys).event)
  /\ keys' = {}
  /\ stage' = "idle"
  /\ UNCHANGED <<queue, machine, frames, clock>>

(* An event that fails is dropped from the queue and ends the step before  *)
(* its instruction; those behind it are collected again by the next step.  *)
reject_event ==
  /\ stage = "events"
  /\ keys # {}
  /\ Rejected(First(keys).event)
  /\ events' = events \ {First(keys)}
  /\ keys' = {}
  /\ stage' = "idle"
  /\ UNCHANGED <<next_event_sequence, machine, frames, clock>>

deliver ==
  /\ stage = "events"
  /\ keys # {}
  /\ ~Rejected(First(keys).event)
  /\ apply_event(First(keys).event)
  /\ events' = events \ {First(keys)}
  /\ keys' = keys \ {First(keys)}
  /\ UNCHANGED <<stage, next_event_sequence, frames, clock>>

-----------------------------------------------------------------------------
AtInstruction == stage = "events" /\ keys = {}

(* The processor enters an interrupt, on EDRUPT even without a request: no *)
(* instruction is committed.                                               *)
enter_interrupt ==
  /\ AtInstruction
  /\ pending_interrupts' =
       {i \in pending_interrupts : \E j \in pending_interrupts : j < i}
  /\ cycles' \in {Stopped(cycles + d) : d \in Durations}
  /\ stage' = "idle"
  /\ UNCHANGED <<queue, keys, channels, memory, imu, samples, frames, instructions>>

(* Both captured words are taken out at every channel write, and a frame is *)
(* completed only if both were there.                                      *)
capture_output(ch, w) ==
  LET word1 == IF ch = \o34 THEN w ELSE pending_downlink_1
      word2 == IF ch = \o35 THEN w ELSE pending_downlink_2
  IN  /\ downlink' = IF None \notin {word1, word2}
                     THEN Append(downlink, <<word1, word2>>) ELSE downlink
      /\ pending_downlink_1' = None
      /\ pending_downlink_2' = None

(* The processor's own bookkeeping of the pair, for DOWNRUPT.              *)
note_pair(ch) ==
  LET sent == downlink_words \cup ({ch} \cap {\o34, \o35})
  IN  downlink_words' = IF sent = {\o34, \o35} THEN {} ELSE sent

output(ch, w) ==
  /\ channels' = [channels EXCEPT ![ch] = w]
  /\ note_pair(ch)
  /\ capture_output(ch, w)

execute ==
  /\ AtInstruction
  /\ \/ \E o \in Outputs : output(o[1], o[2])
     \/ UNCHANGED <<channels, frames>>
  /\ pending_interrupts' \in {pending_interrupts \cup R : R \in SUBSET Raised}
  /\ cycles' \in {Stopped(cycles + d) : d \in Durations}
  /\ instructions' = Stopped(instructions + 1)
  /\ stage' = "idle"
  /\ UNCHANGED <<queue, keys, memory, imu, samples>>

step == begin_step \/ reject_event \/ deliver \/ enter_interrupt \/ execute

Next == step \/ \E t \in Times, v \in HostInputs : schedule(t, v)

(* Runtime::run calls step for as long as it has instructions to execute.  *)
Spec == Init /\ [][Next]_vars
FairSpec == Spec /\ WF_vars(step)
-----------------------------------------------------------------------------
TypeOK ==
  /\ stage \in {"idle", "faults", "events"}
  /\ cycles \in Nat
  /\ instructions \in Nat
  /\ events \subseteq [cycle : Nat, sequence : 0 .. next_event_sequence - 1, event : Inputs]
  /\ next_event_sequence \in Nat
  /\ keys \subseteq events
  /\ channels \in [Channels -> Word]
  /\ memory \in [Cells -> Word]
  /\ pending_interrupts \subseteq Interrupt
  /\ imu \in [Inertial -> Int]
  /\ samples \in Nat
  /\ {pending_downlink_1, pending_downlink_2} \subseteq Word \cup {None}
  /\ downlink \in Seq(Word \X Word)
  /\ downlink_words \in SUBSET {\o34, \o35}

(* Of two queued events the one with the smaller key leaves first, whatever *)
(* was scheduled in between and whichever of them fails.                   *)
EventsInOrder ==
  [][\A e \in events \ events', f \in events \cap events' : Before(e, f)]_events

(* No instruction is executed and no interrupt is entered while an event   *)
(* that is due waits, even after steps that failed (apply_due_events).     *)
NoneOverdue == AtInstruction => \A e \in events : e.cycle > cycles

(* An event is taken out no earlier than its cycle.                        *)
NoneEarly == [][\A e \in events \ events' : e.cycle <= cycles]_events

(* Every scheduled event is applied or rejected in the end.                *)
EventsLeave ==
  \A n \in 0 .. MaxEvents - 1 :
    (\E e \in events : e.sequence = n) ~> (\A e \in events : e.sequence # n)

(* The counters move by as many pulses as the hardware accumulates, as far *)
(* as a word of one's complement tells.  One exception: each count below   *)
(* -\o37777 fits no word, is given the low bits of its two's complement    *)
(* and moves the counter by one pulse fewer (apply_event, ImuPulses).      *)
PulsesConserved ==
  [][\A a \in Inertial :
       ((memory'[a] - memory[a]) - (imu'[a] - imu[a])) % \o77777 =
         IF imu'[a] - imu[a] < -\o37777 THEN 1 ELSE 0]_imu

(* The write that completes a pair of downlink words completes a frame:    *)
(* "Captured two-word downlink frame", with the "Cycle of the completing   *)
(* write" (DownlinkFrame).                                                 *)
FrameCaptured ==
  [][downlink_words # {} /\ downlink_words' = {} =>
       Len(downlink') = Len(downlink) + 1]_downlink_words
=============================================================================
