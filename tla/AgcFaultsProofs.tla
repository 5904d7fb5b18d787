-------------------------- MODULE AgcFaultsProofs --------------------------
(***************************************************************************)
(* Theorems about AgcRuntime and about AgcFaults around it.  For any       *)
(* events, any schedule and any horizon the queue delivers in order, never *)
(* early, and nothing due is left when the processor executes; for any     *)
(* campaign it keeps that promise under the engine, every fault is applied *)
(* before exactly the instruction it names, and the events that faults     *)
(* make reach the machine before that instruction.                         *)
(***************************************************************************)
EXTENDS AgcFaults, WellFoundedInduction, FiniteSetTheorems, TLAPS

(* Every nonempty set of naturals has a least element.                     *)
LEMMA LeastNatural ==
  ASSUME NEW T \in SUBSET Nat, T # {}
  PROVE  \E x \in T : \A y \in T : x <= y
<1> DEFINE R == OpToRel(<, Nat)
<1>1. IsWellFoundedOn(R, Nat)
  BY NatLessThanWellFounded, Zenon
<1>2. \E x \in T : \A y \in T : ~(<<y, x>> \in R)
  <2> HIDE DEF R
  <2> QED  BY <1>1, WFMin, Zenon
<1>3. PICK x \in T : \A y \in T : ~(<<y, x>> \in R)
  BY <1>2
<1>4. \A y \in T : ~(y < x)
  BY <1>3 DEF OpToRel
<1> QED  BY <1>4

(* The queue: its numbers are those given out, each once, and what a step  *)
(* has still to apply is exactly what is due.                              *)
QueueTypes ==
  /\ stage \in {"idle", "faults", "events"}
  /\ cycles \in Nat
  /\ next_event_sequence \in Nat
Numbered ==
  \A e \in events :
    e.cycle \in Nat /\ e.sequence \in Nat /\ e.sequence < next_event_sequence
Distinct == \A e, f \in events : e.sequence = f.sequence => e = f
StillDue == keys = IF stage = "events" THEN Due ELSE {}
QueueInv == QueueTypes /\ Numbered /\ Distinct /\ StillDue

(* Every nonempty set of keys has a first one.                             *)
LEMMA LeastKey ==
  ASSUME NEW K \in SUBSET (Nat \X Nat), K # {}
  PROVE  \E p \in K : \A q \in K : p[1] < q[1] \/ (p[1] = q[1] /\ p[2] <= q[2])
<1> DEFINE C == {p[1] : p \in K}
<1>1. PICK c \in C : \A d \in C : c <= d
  BY LeastNatural, C \in SUBSET Nat, C # {}
<1> DEFINE N == {p[2] : p \in {q \in K : q[1] = c}}
<1>2. PICK n \in N : \A m \in N : n <= m
  BY LeastNatural, N \in SUBSET Nat, N # {}
<1>3. PICK p \in K : p[1] = c /\ p[2] = n
  BY <1>2
<1>4. ASSUME NEW q \in K  PROVE p[1] < q[1] \/ (p[1] = q[1] /\ p[2] <= q[2])
  BY <1>1, <1>2, <1>3
<1> QED  BY <1>4

(* First picks a member, and the only one with the smallest key.           *)
LEMMA FirstIsFirst ==
  ASSUME NEW S, S # {},
         \A e \in S : e.cycle \in Nat /\ e.sequence \in Nat,
         \A e, f \in S : e.sequence = f.sequence => e = f
  PROVE  First(S) \in S /\ \A f \in S : First(S) = f \/ Before(First(S), f)
<1> DEFINE K == {<<e.cycle, e.sequence>> : e \in S}
           IsFirst(e) == \A f \in S : e = f \/ Before(e, f)
<1>1. PICK p \in K : \A q \in K : p[1] < q[1] \/ (p[1] = q[1] /\ p[2] <= q[2])
  <2>1. PICK e \in S : TRUE
    OBVIOUS
  <2>2. <<e.cycle, e.sequence>> \in K
    BY <2>1
  <2> QED  BY <2>2, LeastKey, K \in SUBSET (Nat \X Nat)
<1>2. PICK e \in S : p = <<e.cycle, e.sequence>>
  BY <1>1
<1>3. ASSUME NEW f \in S, e # f  PROVE Before(e, f)
  <2>1. e.cycle < f.cycle \/ (e.cycle = f.cycle /\ e.sequence <= f.sequence)
    BY <1>1, <1>2, <<f.cycle, f.sequence>> \in K
  <2> QED  BY <1>3, <2>1 DEF Before
<1>4. First(S) = CHOOSE g \in S : IsFirst(g)
  BY Zenon DEF First
<1> HIDE DEF IsFirst
<1>5. IsFirst(e)
  BY <1>3 DEF IsFirst
<1>6. First(S) \in S /\ IsFirst(First(S))
  BY <1>4, <1>5, Zenon
<1> QED  BY <1>6 DEF IsFirst

LEMMA DueMembers == ASSUME QueueInv PROVE \A e \in keys : e \in events /\ e.cycle <= cycles
  BY DEF QueueInv, StillDue, Due

(* The key that deliver and reject_event remove.                           *)
LEMMA FirstOfQueue ==
  ASSUME QueueInv, keys # {}
  PROVE  /\ First(keys) \in keys
         /\ \A f \in events : First(keys) = f \/ Before(First(keys), f)
<1>1. keys \subseteq events
  BY DueMembers
<1>2. /\ First(keys) \in keys
      /\ \A f \in keys : First(keys) = f \/ Before(First(keys), f)
  <2>1. /\ \A e \in keys : e.cycle \in Nat /\ e.sequence \in Nat
        /\ \A e, f \in keys : e.sequence = f.sequence => e = f
    BY <1>1 DEF QueueInv, Numbered, Distinct
  <2> QED  BY <2>1, FirstIsFirst
<1>3. ASSUME NEW f \in events, f \notin keys  PROVE Before(First(keys), f)
  <2>1. ~(f.cycle <= cycles)
    BY <1>3 DEF QueueInv, StillDue, Due
  <2>2. First(keys).cycle <= cycles
    BY <1>2, DueMembers
  <2>3. First(keys).cycle \in Nat /\ f.cycle \in Nat /\ cycles \in Nat
    BY <1>1, <1>2 DEF QueueInv, QueueTypes, Numbered
  <2> QED  BY <2>1, <2>2, <2>3 DEF Before
<1> QED  BY <1>2, <1>3

-----------------------------------------------------------------------------
LEMMA ClockAdvances ==
  ASSUME cycles \in Nat, cycles' \in {Stopped(cycles + d) : d \in Durations}
  PROVE  cycles' \in Nat
  BY RuntimeAssumption DEF Stopped

LEMMA ScheduleKeepsQueue ==
  ASSUME QueueInv, NEW t \in Nat, NEW v, Enqueue(t, v), stage # "events",
         UNCHANGED <<stage, keys, cycles>>
  PROVE  QueueInv'
<1> USE DEF QueueInv
<1>1. QueueTypes'
  BY DEF QueueTypes, Enqueue
<1>2. Numbered'
  BY DEF QueueTypes, Numbered, Enqueue
<1>3. Distinct'
  BY DEF QueueTypes, Numbered, Distinct, Enqueue
<1>4. StillDue'
  BY DEF StillDue
<1> QED  BY <1>1, <1>2, <1>3, <1>4

(* Removing the first key, with or without the rest of the step.           *)
LEMMA RemovalKeepsQueue ==
  ASSUME QueueInv, stage = "events", keys # {}, events' = events \ {First(keys)},
         UNCHANGED <<next_event_sequence, cycles>>,
         \/ keys' = keys \ {First(keys)} /\ UNCHANGED stage
         \/ keys' = {} /\ stage' = "idle"
  PROVE  QueueInv'
<1> USE DEF QueueInv
<1>1. QueueTypes'
  BY DEF QueueTypes
<1>2. Numbered' /\ Distinct'
  BY DEF Numbered, Distinct
<1>3. StillDue'
  BY DEF StillDue, Due
<1> QED  BY <1>1, <1>2, <1>3

(* A step of the processor, or the collection of the keys.                 *)
LEMMA CollectionKeepsQueue ==
  ASSUME QueueInv, stage' = "events", keys' = Due,
         UNCHANGED <<queue, cycles>>
  PROVE  QueueInv'
  BY DEF QueueInv, QueueTypes, Numbered, Distinct, StillDue, Due, queue

LEMMA ExecutionKeepsQueue ==
  ASSUME QueueInv, AtInstruction, stage' = "idle", cycles' \in Nat,
         UNCHANGED <<queue, keys>>
  PROVE  QueueInv'
  BY DEF QueueInv, QueueTypes, Numbered, Distinct, StillDue, AtInstruction, queue

LEMMA QueueInitial == Init => QueueInv
  BY DEF Init, QueueInv, QueueTypes, Numbered, Distinct, StillDue

LEMMA QueueInductive == QueueInv /\ [Next]_vars => QueueInv'
<1> SUFFICES ASSUME QueueInv, [Next]_vars PROVE QueueInv'
  OBVIOUS
<1>1. CASE begin_step
  BY <1>1, CollectionKeepsQueue DEF begin_step, clock
<1>2. CASE reject_event
  BY <1>2, RemovalKeepsQueue DEF reject_event, clock
<1>3. CASE deliver
  BY <1>3, RemovalKeepsQueue DEF deliver, clock
<1>4. CASE enter_interrupt
  <2>1. cycles' \in Nat
    BY <1>4, ClockAdvances DEF enter_interrupt, QueueInv, QueueTypes
  <2> QED  BY <1>4, <2>1, ExecutionKeepsQueue DEF enter_interrupt
<1>5. CASE execute
  <2>1. cycles' \in Nat
    BY <1>5, ClockAdvances DEF execute, QueueInv, QueueTypes
  <2> QED  BY <1>5, <2>1, ExecutionKeepsQueue DEF execute
<1>6. ASSUME NEW t \in Times, NEW v \in HostInputs, schedule(t, v)
      PROVE  QueueInv'
  <2>1. t \in Nat
    BY RuntimeAssumption
  <2> QED  BY <1>6, <2>1, ScheduleKeepsQueue DEF schedule, clock
<1>7. CASE UNCHANGED vars
  BY <1>7 DEF vars, queue, clock, QueueInv, QueueTypes, Numbered, Distinct, StillDue, Due
<1> QED  BY <1>1, <1>2, <1>3, <1>4, <1>5, <1>6, <1>7 DEF Next, step

LEMMA QueueInvariant == Spec => []QueueInv
  BY QueueInitial, QueueInductive, PTL DEF Spec

LEMMA DrainedQueue == QueueInv => NoneOverdue
  BY DEF QueueInv, QueueTypes, Numbered, StillDue, Due, NoneOverdue, AtInstruction

(* Whatever is scheduled and whatever fails, nothing that is due waits      *)
(* while the processor executes (apply_due_events).                        *)
THEOREM NothingOverdue == Spec => []NoneOverdue
  BY QueueInvariant, DrainedQueue, PTL

(* What leaves the queue in a step is the first of the due keys.           *)
LEMMA OnlyFirstLeaves ==
  ASSUME QueueInv, [Next]_vars, NEW e \in events \ events'
  PROVE  keys # {} /\ e = First(keys) /\ events' = events \ {e}
<1>1. CASE reject_event
  BY <1>1 DEF reject_event
<1>2. CASE deliver
  BY <1>2 DEF deliver
<1>3. CASE begin_step \/ enter_interrupt \/ execute
  BY <1>3 DEF begin_step, enter_interrupt, execute, queue
<1>4. CASE \E t \in Times, v \in HostInputs : schedule(t, v)
  BY <1>4 DEF schedule, Enqueue
<1>5. CASE UNCHANGED vars
  BY <1>5 DEF vars, queue
<1> QED  BY <1>1, <1>2, <1>3, <1>4, <1>5 DEF Next, step

(* Of two queued events the one with the smaller key leaves first.         *)
THEOREM DeliveredInOrder == Spec => EventsInOrder
<1>1. ASSUME QueueInv, [Next]_vars
      PROVE  \A e \in events \ events', f \in events \cap events' : Before(e, f)
  BY <1>1, OnlyFirstLeaves, FirstOfQueue
<1> QED  BY <1>1, QueueInvariant, PTL DEF Spec, EventsInOrder

(* No event leaves before its cycle.                                       *)
THEOREM DeliveredOnTime == Spec => NoneEarly
<1>1. ASSUME QueueInv, [Next]_vars
      PROVE  \A e \in events \ events' : e.cycle <= cycles
  BY <1>1, OnlyFirstLeaves, FirstOfQueue, DueMembers
<1> QED  BY <1>1, QueueInvariant, PTL DEF Spec, NoneEarly
-----------------------------------------------------------------------------
(***************************************************************************)
(* The types, and the pulses of the inertial unit.                         *)
(***************************************************************************)
(* The counts that from_i32 accepts, by comparison.                        *)
LEMMA EncodedCases ==
  ASSUME NEW n \in Int
  PROVE  Encoded(n) = IF n >= 0 /\ n <= \o37777 THEN n
                      ELSE IF n < 0 /\ n >= -\o37777 THEN \o77777 + n ELSE n % \o100000
<1>1. n \in 0 .. \o37777 <=> n >= 0 /\ n <= \o37777
  OBVIOUS
<1>2. n \in -\o37777 .. -1 <=> n < 0 /\ n >= -\o37777
  OBVIOUS
<1> QED  BY <1>1, <1>2 DEF Encoded

(* Adding words and encoding counts gives words.                           *)
LEMMA AddedWords ==
  /\ \A v, w \in Word : wrapping_add(v, w) \in Word
  /\ \A n \in Int : Encoded(n) \in Word
  /\ \A n \in Nat : n % \o40 \in Word
<1>1. \A v, w \in Word : wrapping_add(v, w) \in Word
  BY DEF Word, wrapping_add
<1>2. ASSUME NEW n \in Int  PROVE Encoded(n) \in Word
  <2> DEFINE low == n % \o100000
  <2>1. low \in Nat /\ low <= \o77777
    OBVIOUS
  <2> HIDE DEF low
  <2>2. Encoded(n) = IF n >= 0 /\ n <= \o37777 THEN n
                     ELSE IF n < 0 /\ n >= -\o37777 THEN \o77777 + n ELSE low
    BY EncodedCases DEF low
  <2>3. Encoded(n) \in Nat /\ Encoded(n) <= \o77777
    BY <2>1, <2>2
  <2> QED  BY <2>3 DEF Word
<1>3. ASSUME NEW n \in Nat  PROVE n % \o40 \in Word
  BY DEF Word
<1> QED  BY <1>1, <1>2, <1>3

LEMMA PulseCounts == \A n \in PulseCount : n \in Int /\ n <= \o77777 /\ n >= -\o100000
  BY DEF PulseCount

(* What an event that is not rejected names.                               *)
LEMMA EventFields ==
  ASSUME NEW v \in Inputs, ~Rejected(v)
  PROVE  /\ v.kind \in {"channel", "interrupt", "erasable", "imu", "radar", "key"}
         /\ v.kind = "channel" => v.channel \in Channels /\ v.value \in Word
         /\ v.kind = "interrupt" => v.interrupt \in Interrupt
         /\ v.kind = "erasable" => v.cell \in Cells /\ v.value \in Word
         /\ v.kind = "imu" => v.pulses \in [Inertial -> PulseCount]
         /\ v.kind = "radar" => v.range \in Word /\ v.rate \in Word
         /\ v.kind = "key" => v.code \in Nat
<1>0. RuntimeEvent(v)
  BY RuntimeAssumption
<1>1. v.kind \in {"channel", "interrupt", "erasable", "imu", "radar", "key"}
  BY ONLY <1>0 DEF RuntimeEvent
<1>2. ASSUME v.kind = "channel"  PROVE v.channel \in Channels /\ v.value \in Word
  <2>1. /\ v.channel \in Nat /\ v.value \in Word
        /\ v.channel <= \o777 => v.channel \in Channels
    BY ONLY <1>0, <1>2 DEF RuntimeEvent
  <2> QED  BY <1>2, <2>1 DEF Rejected
<1>3. ASSUME v.kind = "erasable"  PROVE v.cell \in Cells /\ v.value \in Word
  <2>1. /\ v.cell \in Nat /\ v.value \in Word
        /\ v.cell <= \o3777 => v.cell \in Cells
    BY ONLY <1>0, <1>3 DEF RuntimeEvent
  <2> QED  BY <1>3, <2>1 DEF Rejected
<1>4. /\ v.kind = "interrupt" => v.interrupt \in Interrupt
      /\ v.kind = "imu" => v.pulses \in [Inertial -> PulseCount]
      /\ v.kind = "radar" => v.range \in Word /\ v.rate \in Word
      /\ v.kind = "key" => v.code \in Nat
  BY ONLY <1>0 DEF RuntimeEvent
<1> QED  BY ONLY <1>1, <1>2, <1>3, <1>4, Zenon

(* What applying it does, kind by kind.                                    *)
LEMMA EventEffects ==
  ASSUME NEW v, apply_event(v)
  PROVE  /\ v.kind = "channel" =>
              /\ channels' = [channels EXCEPT ![v.channel] = v.value]
              /\ UNCHANGED <<memory, pending_interrupts, imu, samples>>
         /\ v.kind = "interrupt" =>
              /\ pending_interrupts' = pending_interrupts \cup {v.interrupt}
              /\ UNCHANGED <<channels, memory, imu, samples>>
         /\ v.kind = "erasable" =>
              /\ memory' = [memory EXCEPT ![v.cell] = v.value]
              /\ UNCHANGED <<channels, pending_interrupts, imu, samples>>
         /\ v.kind = "imu" =>
              /\ imu' = [a \in Inertial |-> imu[a] + v.pulses[a]]
              /\ memory' = [c \in Cells |-> IF c \in Inertial
                              THEN wrapping_add(memory[c], Encoded(v.pulses[c]))
                              ELSE memory[c]]
              /\ UNCHANGED <<channels, pending_interrupts, samples>>
         /\ v.kind = "radar" =>
              /\ memory' = [memory EXCEPT ![RangeCell] = v.range, ![RateCell] = v.rate]
              /\ samples' = samples + 1
              /\ pending_interrupts' = pending_interrupts \cup {Radar}
              /\ UNCHANGED <<channels, imu>>
         /\ v.kind = "key" =>
              /\ channels' = [channels EXCEPT ![\o15] = v.code % \o40]
              /\ pending_interrupts' = pending_interrupts \cup {Key1}
              /\ UNCHANGED <<memory, imu, samples>>
         /\ v.kind # "imu" => imu' = imu
  BY DEF apply_event

(* Applying an event that names an existing channel or cell keeps types.   *)
LEMMA EventTypes ==
  ASSUME NEW v \in Inputs, ~Rejected(v), apply_event(v),
         channels \in [Channels -> Word], memory \in [Cells -> Word],
         pending_interrupts \subseteq Interrupt, imu \in [Inertial -> Int],
         samples \in Nat
  PROVE  /\ channels' \in [Channels -> Word]
         /\ memory' \in [Cells -> Word]
         /\ pending_interrupts' \subseteq Interrupt
         /\ imu' \in [Inertial -> Int]
         /\ samples' \in Nat
<1>0. v.kind \in {"channel", "interrupt", "erasable", "imu", "radar", "key"}
  BY EventFields
<1>1. CASE v.kind = "channel"
  <2>1. v.channel \in Channels /\ v.value \in Word
    BY <1>1, EventFields
  <2>2. /\ channels' = [channels EXCEPT ![v.channel] = v.value]
        /\ UNCHANGED <<memory, pending_interrupts, imu, samples>>
    BY <1>1, EventEffects
  <2> QED  BY <2>1, <2>2
<1>2. CASE v.kind = "interrupt"
  <2>1. v.interrupt \in Interrupt
    BY <1>2, EventFields
  <2>2. /\ pending_interrupts' = pending_interrupts \cup {v.interrupt}
        /\ UNCHANGED <<channels, memory, imu, samples>>
    BY <1>2, EventEffects
  <2> QED  BY <2>1, <2>2
<1>3. CASE v.kind = "erasable"
  <2>1. v.cell \in Cells /\ v.value \in Word
    BY <1>3, EventFields
  <2>2. /\ memory' = [memory EXCEPT ![v.cell] = v.value]
        /\ UNCHANGED <<channels, pending_interrupts, imu, samples>>
    BY <1>3, EventEffects
  <2> QED  BY <2>1, <2>2
<1>4. CASE v.kind = "imu"
  <2>1. v.pulses \in [Inertial -> PulseCount]
    BY <1>4, EventFields
  <2>2. /\ imu' = [a \in Inertial |-> imu[a] + v.pulses[a]]
        /\ memory' = [c \in Cells |-> IF c \in Inertial
                        THEN wrapping_add(memory[c], Encoded(v.pulses[c])) ELSE memory[c]]
        /\ UNCHANGED <<channels, pending_interrupts, samples>>
    BY <1>4, EventEffects
  <2>3. \A a \in Inertial : v.pulses[a] \in Int
    BY <2>1, PulseCounts
  <2>4. imu' \in [Inertial -> Int]
    BY <2>2, <2>3
  <2>5. memory' \in [Cells -> Word]
    <3>1. ASSUME NEW c \in Cells
          PROVE  (IF c \in Inertial THEN wrapping_add(memory[c], Encoded(v.pulses[c]))
                  ELSE memory[c]) \in Word
      BY <2>3, AddedWords
    <3> QED  BY <2>2, <3>1
  <2> QED  BY <2>2, <2>4, <2>5
<1>5. CASE v.kind = "radar"
  <2>1. v.range \in Word /\ v.rate \in Word
    BY <1>5, EventFields
  <2>2. /\ memory' = [memory EXCEPT ![RangeCell] = v.range, ![RateCell] = v.rate]
        /\ samples' = samples + 1
        /\ pending_interrupts' = pending_interrupts \cup {Radar}
        /\ UNCHANGED <<channels, imu>>
    BY <1>5, EventEffects
  <2>3. memory' \in [Cells -> Word]
    <3> DEFINE half == [memory EXCEPT ![RangeCell] = v.range]
    <3>1. half \in [Cells -> Word]
      BY <2>1
    <3>2. memory' = [half EXCEPT ![RateCell] = v.rate]
      BY <2>2
    <3> HIDE DEF half
    <3> QED  BY <2>1, <3>1, <3>2
  <2>4. Radar \in Interrupt
    BY DEF Radar, Interrupt
  <2> QED  BY <2>2, <2>3, <2>4
<1>6. CASE v.kind = "key"
  <2>1. v.code % \o40 \in Word
    BY <1>6, EventFields, AddedWords
  <2>2. /\ channels' = [channels EXCEPT ![\o15] = v.code % \o40]
        /\ pending_interrupts' = pending_interrupts \cup {Key1}
        /\ UNCHANGED <<memory, imu, samples>>
    BY <1>6, EventEffects
  <2>3. channels' \in [Channels -> Word]
    BY <2>1, <2>2
  <2>4. Key1 \in Interrupt
    BY DEF Key1, Interrupt
  <2> QED  BY <2>2, <2>3, <2>4
<1> QED  BY ONLY <1>0, <1>1, <1>2, <1>3, <1>4, <1>5, <1>6

(* The types of what a step leaves: the frames are pairs of words.         *)
FrameTypes ==
  /\ {pending_downlink_1, pending_downlink_2} \subseteq Word \cup {None}
  /\ downlink \in Seq(Word \X Word)
  /\ downlink_words \in SUBSET {\o34, \o35}
MachineTypes ==
  /\ channels \in [Channels -> Word]
  /\ memory \in [Cells -> Word]
  /\ pending_interrupts \subseteq Interrupt
  /\ imu \in [Inertial -> Int]
  /\ samples \in Nat
EventTypesOK ==
  /\ events \subseteq [cycle : Nat, sequence : 0 .. next_event_sequence - 1, event : Inputs]
  /\ keys \subseteq events
  /\ instructions \in Nat

LEMMA TypeParts ==
  QueueTypes /\ EventTypesOK /\ MachineTypes /\ FrameTypes <=> TypeOK
  BY DEF QueueTypes, EventTypesOK, MachineTypes, FrameTypes, TypeOK

LEMMA OutputTypes ==
  ASSUME FrameTypes, NEW ch, NEW w \in Word, note_pair(ch), capture_output(ch, w)
  PROVE  FrameTypes'
<1> DEFINE word1 == IF ch = \o34 THEN w ELSE pending_downlink_1
           word2 == IF ch = \o35 THEN w ELSE pending_downlink_2
<1>1. word1 \in Word \cup {None} /\ word2 \in Word \cup {None}
  BY DEF FrameTypes
<1>2. /\ downlink' = IF None \notin {word1, word2}
                     THEN Append(downlink, <<word1, word2>>) ELSE downlink
      /\ pending_downlink_1' = None /\ pending_downlink_2' = None
  BY DEF capture_output
<1> HIDE DEF word1, word2
<1>3. downlink' \in Seq(Word \X Word)
  <2>1. None \notin {word1, word2} => <<word1, word2>> \in Word \X Word
    BY <1>1
  <2> QED  BY <1>2, <2>1 DEF FrameTypes
<1>4. downlink_words' \in SUBSET {\o34, \o35}
  BY DEF note_pair, FrameTypes
<1> QED  BY <1>2, <1>3, <1>4 DEF FrameTypes

LEMMA TypeInductive == QueueInv /\ TypeOK /\ [Next]_vars => TypeOK'
<1> SUFFICES ASSUME QueueInv, TypeOK, [Next]_vars PROVE TypeOK'
  OBVIOUS
<1>0. QueueInv' /\ QueueTypes'
  BY QueueInductive DEF QueueInv
<1>1. EventTypesOK /\ MachineTypes /\ FrameTypes
  BY TypeParts
<1> USE DEF queue, machine, frames, clock
<1>2. CASE begin_step
  <2>1. EventTypesOK' /\ MachineTypes' /\ FrameTypes'
    BY <1>1, <1>2 DEF begin_step, Due, EventTypesOK, MachineTypes, FrameTypes
  <2> QED  BY <1>0, <2>1 DEF QueueTypes, EventTypesOK, MachineTypes, FrameTypes, TypeOK
<1>3. CASE reject_event
  <2>1. EventTypesOK' /\ MachineTypes' /\ FrameTypes'
    BY <1>1, <1>3 DEF reject_event, EventTypesOK, MachineTypes, FrameTypes
  <2> QED  BY <1>0, <2>1 DEF QueueTypes, EventTypesOK, MachineTypes, FrameTypes, TypeOK
<1>4. CASE deliver
  <2>1. First(keys) \in events
    BY <1>1, <1>4, FirstOfQueue DEF deliver, EventTypesOK
  <2>2. First(keys).event \in Inputs
    BY <1>1, <2>1 DEF EventTypesOK
  <2>3. MachineTypes'
    BY <1>1, <1>4, <2>2, EventTypes DEF deliver, MachineTypes
  <2>4. EventTypesOK' /\ FrameTypes'
    BY <1>1, <1>4 DEF deliver, EventTypesOK, FrameTypes
  <2> QED  BY <1>0, <2>3, <2>4 DEF QueueTypes, EventTypesOK, MachineTypes, FrameTypes, TypeOK
<1>5. CASE enter_interrupt
  <2>1. EventTypesOK' /\ MachineTypes' /\ FrameTypes'
    BY <1>1, <1>5 DEF enter_interrupt, EventTypesOK, MachineTypes, FrameTypes
  <2> QED  BY <1>0, <2>1 DEF QueueTypes, EventTypesOK, MachineTypes, FrameTypes, TypeOK
<1>6. CASE execute
  <2>1. instructions' \in Nat
    BY <1>1, <1>6, RuntimeAssumption DEF execute, Stopped, EventTypesOK
  <2>2. EventTypesOK'
    BY <1>1, <1>6, <2>1 DEF execute, EventTypesOK
  <2>3. pending_interrupts' \subseteq Interrupt
    BY <1>1, <1>6, RuntimeAssumption DEF execute, MachineTypes
  <2>4. channels' \in [Channels -> Word] /\ FrameTypes'
    <3>1. CASE UNCHANGED <<channels, frames>>
      BY <1>1, <3>1 DEF MachineTypes, FrameTypes
    <3>2. ASSUME NEW o \in Outputs, output(o[1], o[2])
          PROVE  channels' \in [Channels -> Word] /\ FrameTypes'
      <4>1. o[1] \in Channels /\ o[2] \in Word
        BY RuntimeAssumption
      <4>2. /\ channels' = [channels EXCEPT ![o[1]] = o[2]]
            /\ note_pair(o[1]) /\ capture_output(o[1], o[2])
        BY <3>2 DEF output
      <4>3. FrameTypes'
        BY <1>1, <4>1, <4>2, OutputTypes
      <4> QED  BY <1>1, <4>1, <4>2, <4>3 DEF MachineTypes
    <3> QED  BY <1>6, <3>1, <3>2 DEF execute
  <2>5. MachineTypes'
    BY <1>1, <1>6, <2>3, <2>4 DEF execute, MachineTypes
  <2> QED  BY <1>0, <2>2, <2>4, <2>5
           DEF QueueTypes, EventTypesOK, MachineTypes, FrameTypes, TypeOK
<1>7. ASSUME NEW t \in Times, NEW v \in HostInputs, schedule(t, v)  PROVE TypeOK'
  <2>1. t \in Nat /\ v \in Inputs /\ next_event_sequence \in Nat
    BY RuntimeAssumption DEF TypeOK
  <2>2. EventTypesOK'
    BY <1>1, <1>7, <2>1 DEF schedule, Enqueue, EventTypesOK
  <2>3. MachineTypes' /\ FrameTypes'
    BY <1>1, <1>7 DEF schedule, MachineTypes, FrameTypes
  <2> QED  BY <1>0, <2>2, <2>3 DEF QueueTypes, EventTypesOK, MachineTypes, FrameTypes, TypeOK
<1>8. CASE UNCHANGED vars
  BY <1>8 DEF vars, TypeOK
<1> QED  BY <1>2, <1>3, <1>4, <1>5, <1>6, <1>7, <1>8 DEF Next, step

(* Channels, cells and frames hold words, the queue holds scheduled events *)
(* and the captured frames are pairs, whatever is scheduled and fails.     *)
THEOREM RuntimeTypes == Spec => []TypeOK
<1>1. Init => TypeOK
  BY DEF Init, TypeOK, Word, Downrupt, Interrupt
<1> QED  BY <1>1, TypeInductive, QueueInvariant, PTL DEF Spec

(* What a count comes to in a counter: itself, or one more below the words *)
(* of one's complement, where from_i32 refuses it.                         *)
Excess(n) == IF n < -\o37777 THEN 1 ELSE 0

(* A counter and the hardware's count of the same axis, before and after.  *)
MovedTogether(c, cc, m, mm) == ((cc - c) - (mm - m)) % \o77777 = Excess(mm - m)

(* A count moves a counter by as much as it says, modulo the words of      *)
(* one's complement.                                                       *)
LEMMA PulseCounted ==
  ASSUME NEW v \in Word, NEW n \in PulseCount, NEW m \in Int
  PROVE  MovedTogether(v, wrapping_add(v, Encoded(n)), m, m + n)
<1>1. v \in Nat /\ v <= \o77777
  BY DEF Word
<1>2. n \in Int /\ n <= \o77777 /\ n >= -\o100000
  BY PulseCounts
<1> DEFINE low == n % \o100000
<1>3. /\ n > \o37777 => low = n
      /\ n < -\o37777 => low = n + \o100000
  <2>1. ASSUME n > \o37777  PROVE low = n
    BY ONLY <1>2, <2>1
  <2>2. ASSUME n < -\o37777  PROVE low = n + \o100000
    BY ONLY <1>2, <2>2
  <2> QED  BY ONLY <2>1, <2>2
<1>4. Encoded(n) = IF n >= 0 /\ n <= \o37777 THEN n
                   ELSE IF n < 0 /\ n >= -\o37777 THEN \o77777 + n ELSE low
  BY ONLY <1>2, EncodedCases
<1> HIDE DEF low
<1>5. Encoded(n) = IF n < 0 THEN \o77777 + n + Excess(n) ELSE n
  <2>1. CASE n < -\o37777
    BY ONLY <1>2, <1>3, <1>4, <2>1 DEF Excess
  <2>2. CASE n < 0 /\ n >= -\o37777
    BY ONLY <1>2, <1>4, <2>2 DEF Excess
  <2>3. CASE n >= 0 /\ n <= \o37777
    BY ONLY <1>2, <1>4, <2>3
  <2>4. CASE n > \o37777
    BY ONLY <1>2, <1>3, <1>4, <2>4
  <2> QED  BY ONLY <1>2, <2>1, <2>2, <2>3, <2>4
<1> DEFINE e == Encoded(n)
           x == Excess(n)
           d == wrapping_add(v, e) - v - n
<1>6. e \in Int /\ e = IF n < 0 THEN \o77777 + n + x ELSE n
  BY ONLY <1>2, <1>5 DEF Excess
<1>7. x \in {0, 1} /\ (n >= 0 => x = 0)
  BY ONLY <1>2 DEF Excess
<1> HIDE DEF e, x
<1>8. /\ d \in Int /\ wrapping_add(v, e) \in Int
      /\ d = x \/ d = \o77777 + x \/ d = x - \o77777
  BY ONLY <1>1, <1>2, <1>6, <1>7 DEF wrapping_add
<1> DEFINE w == wrapping_add(v, e)
<1>9. w \in Int /\ d = w - v - n
  BY ONLY <1>8
<1> HIDE DEF w, d
<1>10. d % \o77777 = x
  BY ONLY <1>7, <1>8
<1>11. (w - v) - ((m + n) - m) = d /\ (m + n) - m = n
  BY ONLY <1>1, <1>2, <1>9, m \in Int
<1> QED  BY <1>10, <1>11 DEF w, e, x, MovedTogether

(* Only the delivery of an event of the inertial unit moves its counts.    *)
LEMMA OnlyDelivery ==
  ASSUME [Next]_vars, imu' # imu
  PROVE  deliver
<1>1. ~UNCHANGED machine
  BY DEF machine
<1>2. imu = imu' => FALSE
  OBVIOUS
<1>3. ~begin_step /\ ~reject_event
  BY <1>1 DEF begin_step, reject_event
<1>4. ~enter_interrupt /\ ~execute
  BY <1>2 DEF enter_interrupt, execute
<1>5. ~\E t \in Times, v \in HostInputs : schedule(t, v)
  BY <1>1 DEF schedule
<1>6. vars' # vars
  BY <1>1 DEF vars
<1> QED  BY ONLY [Next]_vars, <1>3, <1>4, <1>5, <1>6 DEF Next, step

(* The inertial counters of the computer move with the hardware's, and run *)
(* ahead of them by one at each count below the words of one's complement. *)
THEOREM PulsesCounted == Spec => PulsesConserved
<1>1. ASSUME QueueInv, TypeOK, [Next]_vars, imu' # imu, NEW a \in Inertial
      PROVE  MovedTogether(memory[a], memory'[a], imu[a], imu'[a])
  <2> DEFINE v == First(keys).event
  <2>1. deliver
    BY <1>1, OnlyDelivery
  <2>2. v \in Inputs /\ apply_event(v)
    BY <1>1, <2>1, FirstOfQueue DEF deliver, TypeOK
  <2> HIDE DEF v
  <2>3. v.kind = "imu"
    BY <1>1, <2>2, EventEffects
  <2>4. /\ imu' = [b \in Inertial |-> imu[b] + v.pulses[b]]
        /\ memory' = [c \in Cells |-> IF c \in Inertial
                        THEN wrapping_add(memory[c], Encoded(v.pulses[c])) ELSE memory[c]]
    BY <2>2, <2>3, EventEffects
  <2>5. v.pulses[a] \in PulseCount
    BY <2>2, <2>3, RuntimeAssumption DEF RuntimeEvent
  <2>6. a \in Cells
    BY RuntimeAssumption
  <2>7. memory[a] \in Word /\ imu[a] \in Int
    BY <1>1, <2>6 DEF TypeOK
  <2>8. /\ imu'[a] = imu[a] + v.pulses[a]
        /\ memory'[a] = wrapping_add(memory[a], Encoded(v.pulses[a]))
    BY <2>4, <2>6
  <2> QED  BY ONLY <2>5, <2>7, <2>8, PulseCounted
<1>2. QueueInv /\ TypeOK /\ [Next]_vars
        => [\A a \in Inertial : MovedTogether(memory[a], memory'[a], imu[a], imu'[a])]_imu
  BY <1>1
<1>3. QueueInv /\ TypeOK /\ [Next]_vars
        => [\A a \in Inertial :
              ((memory'[a] - memory[a]) - (imu'[a] - imu[a])) % \o77777 =
                IF imu'[a] - imu[a] < -\o37777 THEN 1 ELSE 0]_imu
  BY ONLY <1>2 DEF MovedTogether, Excess
<1> QED  BY <1>3, QueueInvariant, RuntimeTypes, PTL DEF Spec, PulsesConserved

-----------------------------------------------------------------------------
(* The campaign around the runtime.                                        *)
(***************************************************************************)
(* The audit trail is a sequence, whatever its records are.                *)
Trail == \E S : applied \in Seq(S)

(* A scheduled fault is due at its boundary, or at once if that is past.   *)
Pending(f) ==
  /\ f.instruction \in Nat
  /\ f.due \in Nat
  /\ f.instruction <= f.due
  /\ instructions <= f.due
  /\ f.instruction < f.due => f.due = instructions
Boundary == \A f \in scheduled : Pending(f)
Cleared == stage = "events" => DueFaults = {}
FaultNumbers ==
  /\ next_sequence \in Nat
  /\ \A f \in scheduled : f.sequence \in Nat /\ f.sequence < next_sequence
  /\ \A f, g \in scheduled : f.sequence = g.sequence => f = g
FaultInv ==
  /\ FaultNumbers
  /\ instructions \in Nat /\ instructions <= Horizon
  /\ Trail
  /\ Boundary
  /\ Cleared
  /\ AppliedAtBoundary

(* The numbers of injected events were given out by the queue, and those   *)
(* still queued are due.                                                   *)
Injections ==
  /\ cycles <= Horizon
  /\ \A n \in injected : n \in Nat /\ n < next_event_sequence
  /\ \A e \in events : e.sequence \in injected => e.cycle <= cycles

EngineInv == QueueInv /\ Injections

-----------------------------------------------------------------------------
LEMMA Appended ==
  ASSUME NEW s, NEW x, NEW S, s \in Seq(S)
  PROVE  /\ Append(s, x) \in Seq(S \cup {x})
         /\ \A k \in DOMAIN Append(s, x) :
              \/ k \in DOMAIN s /\ Append(s, x)[k] = s[k]
              \/ Append(s, x)[k] = x
<1>1. s \in Seq(S \cup {x})
  OBVIOUS
<1>2. Append(s, x) \in Seq(S \cup {x})
  BY <1>1
<1>3. DOMAIN s = 1 .. Len(s) /\ Len(s) \in Nat
  OBVIOUS
<1>4. DOMAIN Append(s, x) = 1 .. (Len(s) + 1)
  BY <1>1
<1>5. ASSUME NEW k \in DOMAIN Append(s, x)
      PROVE  \/ k \in DOMAIN s /\ Append(s, x)[k] = s[k]
             \/ Append(s, x)[k] = x
  BY <1>1, <1>3, <1>4
<1> QED  BY <1>2, <1>5

LEMMA StoppedClock ==
  ASSUME NEW n \in Nat, NEW d \in Nat, n <= Horizon
  PROVE  Stopped(n + d) \in Nat /\ n <= Stopped(n + d) /\ Stopped(n + d) <= Horizon
                /\ Stopped(n + d) <= n + d
  BY RuntimeAssumption DEF Stopped

-----------------------------------------------------------------------------
(* Every action of the engine, as far as the queue goes.                   *)
LEMMA EngineInductive == EngineInv /\ [NextFaults]_allvars => EngineInv'
<1> SUFFICES ASSUME EngineInv, [NextFaults]_allvars PROVE EngineInv'
  OBVIOUS
<1> USE DEF EngineInv
<1>1. CASE begin_engine_step
  <2>1. QueueInv'
    BY <1>1 DEF begin_engine_step, queue, clock, QueueInv, QueueTypes, Numbered,
                Distinct, StillDue
  <2> QED  BY <1>1, <2>1 DEF begin_engine_step, queue, clock, campaign, Injections
<1>2. CASE reject_fault
  <2>1. QueueInv'
    BY <1>2 DEF reject_fault, queue, clock, QueueInv, QueueTypes, Numbered,
                Distinct, StillDue
  <2> QED  BY <1>2, <2>1 DEF reject_fault, queue, clock, Injections
<1>3. CASE apply_fault
  <2> DEFINE f == FirstFault(DueFaults).fault
  <2>1. /\ stage = "faults" /\ UNCHANGED <<stage, keys, cycles>>
        /\ apply(FirstFault(DueFaults))
    BY <1>3 DEF apply_fault, clock
  <2>2. CASE UNCHANGED <<queue, injected>>
    <3>1. QueueInv'
      BY <2>1, <2>2 DEF queue, QueueInv, QueueTypes, Numbered, Distinct, StillDue
    <3> QED  BY <2>1, <2>2, <3>1 DEF queue, Injections
  <2>3. CASE /\ Enqueue(InjectionTime, f.event)
             /\ injected' = injected \cup {next_event_sequence}
    <3>1. cycles \in Nat /\ next_event_sequence \in Nat
      BY DEF QueueInv, QueueTypes
    <3>2. QueueInv'
      BY <2>1, <2>3, <3>1, ScheduleKeepsQueue DEF InjectionTime
    <3>3. Injections'
      BY <2>1, <2>3, <3>1 DEF Enqueue, InjectionTime, Injections, QueueInv, Numbered
    <3> QED  BY <3>2, <3>3
  <2>4. \/ UNCHANGED <<queue, injected>>
        \/ /\ Enqueue(InjectionTime, f.event)
           /\ injected' = injected \cup {next_event_sequence}
    BY <2>1 DEF apply
  <2> QED  BY <2>2, <2>3, <2>4
<1>4. CASE enforce_channels
  <2>1. QueueInv'
    BY <1>4, CollectionKeepsQueue DEF enforce_channels, clock
  <2> QED  BY <1>4, <2>1 DEF enforce_channels, queue, clock, campaign, Injections
<1>5. CASE (reject_event \/ deliver) /\ UNCHANGED campaign
  <2>1. QueueInv'
    BY <1>5, RemovalKeepsQueue DEF reject_event, deliver, clock
  <2> QED  BY <1>5, <2>1 DEF reject_event, deliver, clock, campaign, Injections
<1>6. ASSUME AtInstruction, stage' = "idle", UNCHANGED <<queue, keys, injected>>,
             cycles' \in {Stopped(cycles + d) : d \in Durations}
      PROVE  EngineInv'
  <2>1. cycles \in Nat /\ cycles' \in Nat /\ cycles <= cycles' /\ cycles' <= Horizon
    BY <1>6, StoppedClock, RuntimeAssumption DEF QueueInv, QueueTypes, Injections
  <2>2. QueueInv'
    BY <1>6, <2>1, ExecutionKeepsQueue
  <2>3. Injections'
    BY <1>6, <2>1 DEF Injections, QueueInv, Numbered, queue
  <2> QED  BY <2>2, <2>3
<1>7. CASE (enter_interrupt \/ execute) /\ retain
  BY <1>6, <1>7 DEF enter_interrupt, execute, retain
<1>8. ASSUME NEW t \in Times, NEW v \in HostInputs, schedule(t, v), UNCHANGED campaign
      PROVE  EngineInv'
  <2>1. t \in Nat /\ next_event_sequence \in Nat
    BY RuntimeAssumption DEF QueueInv, QueueTypes
  <2>2. QueueInv'
    BY <1>8, <2>1, ScheduleKeepsQueue DEF schedule, clock
  <2>3. Injections'
    BY <1>8, <2>1 DEF schedule, Enqueue, clock, campaign, Injections
  <2> QED  BY <2>2, <2>3
<1>9. ASSUME UNCHANGED <<vars, injected>>  PROVE EngineInv'
  <2>1. QueueInv'
    BY <1>9 DEF vars, queue, clock, QueueInv, QueueTypes, Numbered, Distinct, StillDue, Due
  <2> QED  BY <1>9, <2>1 DEF vars, queue, clock, Injections
<1>10. CASE (\E n \in Boundaries, f \in Faults : schedule_fault(n, f)) \/ UNCHANGED allvars
  BY <1>9, <1>10 DEF schedule_fault, allvars, campaign
<1> QED  BY <1>1, <1>2, <1>3, <1>4, <1>5, <1>7, <1>8, <1>10 DEF NextFaults, engine_step

LEMMA EngineInitial == InitFaults => EngineInv
<1> SUFFICES ASSUME InitFaults PROVE EngineInv
  OBVIOUS
<1>1. QueueInv
  BY QueueInitial DEF InitFaults
<1> QED  BY <1>1, RuntimeAssumption DEF EngineInv, Injections, InitFaults, Init

(* The pulses and samples of a fault reach the machine before the next     *)
(* instruction (ImuBias, RadarSample).                                     *)
THEOREM InjectedInTime == SpecFaults => []InjectedBeforeInstruction
<1>1. ASSUME EngineInv  PROVE InjectedBeforeInstruction
  <2>1. ASSUME AtInstruction, NEW e \in events  PROVE e.sequence \notin injected
    <3>1. e.cycle > cycles
      BY <1>1, <2>1, DrainedQueue DEF EngineInv, NoneOverdue
    <3>2. e.cycle \in Nat /\ cycles \in Nat
      BY <1>1 DEF EngineInv, QueueInv, QueueTypes, Numbered
    <3> QED  BY <1>1, <3>1, <3>2 DEF EngineInv, Injections
  <2> QED  BY <2>1 DEF InjectedBeforeInstruction
<1> QED  BY <1>1, EngineInitial, EngineInductive, PTL DEF SpecFaults

-----------------------------------------------------------------------------
(* The fault that a step takes, and its place in the order.                *)
LEMMA FirstFaultIsFirst ==
  ASSUME FaultInv, DueFaults # {}
  PROVE  /\ FirstFault(DueFaults) \in DueFaults
         /\ \A g \in DueFaults :
              FirstFault(DueFaults) = g \/ SoonerFault(FirstFault(DueFaults), g)
<1> DEFINE K == {<<f.instruction, f.sequence>> : f \in DueFaults}
           IsFirst(f) == \A g \in DueFaults : f = g \/ SoonerFault(f, g)
<1>1. /\ \A f \in DueFaults : f.instruction \in Nat /\ f.sequence \in Nat
      /\ \A f, g \in DueFaults : f.sequence = g.sequence => f = g
  BY DEF FaultInv, FaultNumbers, Boundary, Pending, DueFaults
<1>2. PICK p \in K : \A q \in K : p[1] < q[1] \/ (p[1] = q[1] /\ p[2] <= q[2])
  <2>1. PICK f \in DueFaults : TRUE
    OBVIOUS
  <2>2. <<f.instruction, f.sequence>> \in K
    BY <2>1
  <2> QED  BY <1>1, <2>2, LeastKey, K \in SUBSET (Nat \X Nat)
<1>3. PICK f \in DueFaults : p = <<f.instruction, f.sequence>>
  BY <1>2
<1>4. ASSUME NEW g \in DueFaults, f # g  PROVE SoonerFault(f, g)
  <2>1. \/ f.instruction < g.instruction
        \/ f.instruction = g.instruction /\ f.sequence <= g.sequence
    BY <1>2, <1>3, <<g.instruction, g.sequence>> \in K
  <2> QED  BY <1>1, <1>4, <2>1 DEF SoonerFault
<1>5. FirstFault(DueFaults) = CHOOSE g \in DueFaults : IsFirst(g)
  BY Zenon DEF FirstFault
<1> HIDE DEF IsFirst
<1>6. IsFirst(f)
  BY <1>4 DEF IsFirst
<1>7. FirstFault(DueFaults) \in DueFaults /\ IsFirst(FirstFault(DueFaults))
  BY <1>5, <1>6, Zenon
<1> QED  BY <1>7 DEF IsFirst

(* The boundary of a fault is kept by everything that executes nothing.    *)
LEMMA WaitingKeepsBoundaries ==
  ASSUME FaultInv, UNCHANGED <<instructions, scheduled, next_sequence, applied>>,
         stage' = "events" => DueFaults = {}
  PROVE  FaultInv'
<1>1. Boundary' /\ Cleared' /\ FaultNumbers'
  BY DEF FaultInv, Boundary, Pending, Cleared, DueFaults, FaultNumbers
<1>2. AppliedAtBoundary' /\ Trail'
  BY DEF FaultInv, AppliedAtBoundary, Trail
<1> QED  BY <1>1, <1>2 DEF FaultInv

LEMMA ExecutingKeepsBoundaries ==
  ASSUME FaultInv, AtInstruction, stage' = "idle",
         UNCHANGED <<scheduled, next_sequence, applied>>,
         instructions' = Stopped(instructions + 1)
  PROVE  FaultInv'
<1>1. /\ instructions' \in Nat /\ instructions' <= Horizon
      /\ instructions' <= instructions + 1 /\ instructions \in Nat
  BY StoppedClock DEF FaultInv
<1>2. ASSUME NEW f \in scheduled  PROVE Pending(f)'
  <2>1. ~(f.instruction <= instructions)
    BY DEF FaultInv, Cleared, DueFaults, AtInstruction
  <2>2. Pending(f)
    BY DEF FaultInv, Boundary
  <2> QED  BY <1>1, <2>1, <2>2 DEF Pending
<1>3. Boundary' /\ Cleared' /\ FaultNumbers'
  BY <1>2 DEF Boundary, Cleared, FaultInv, FaultNumbers
<1>4. AppliedAtBoundary' /\ Trail'
  BY DEF FaultInv, AppliedAtBoundary, Trail
<1> QED  BY <1>1, <1>3, <1>4 DEF FaultInv

(* A fault that is applied is due now: its record tells its boundary.      *)
LEMMA ApplyingKeepsBoundaries == FaultInv /\ apply_fault => FaultInv'
<1> SUFFICES ASSUME FaultInv, apply_fault PROVE FaultInv'
  OBVIOUS
<1> DEFINE d == FirstFault(DueFaults)
<1>1. /\ stage = "faults" /\ stage' = stage /\ instructions' = instructions
      /\ next_sequence' = next_sequence
      /\ scheduled' = scheduled \ {d} /\ d \in DueFaults
  BY FirstFaultIsFirst DEF apply_fault, clock
<1>2. d.due = instructions
  BY <1>1 DEF FaultInv, Boundary, Pending, DueFaults
<1>3. \E w : Record(d, w)
  BY DEF apply_fault, apply
<1>4. PICK w : Record(d, w)
  BY <1>3
<1> DEFINE r == [due |-> d.due, instruction |-> instructions, cycle |-> cycles,
                 fault |-> d.fault, word |-> w]
<1>5. applied' = Append(applied, r)
  BY <1>4 DEF Record
<1>6. r.instruction = r.due
  BY <1>2
<1> HIDE DEF r, d
<1>7. PICK S : applied \in Seq(S)
  BY DEF FaultInv, Trail
<1>8. /\ applied' \in Seq(S \cup {r})
      /\ \A k \in DOMAIN applied' :
           \/ k \in DOMAIN applied /\ applied'[k] = applied[k]
           \/ applied'[k] = r
  BY <1>5, <1>7, Appended
<1>9. AppliedAtBoundary'
  BY <1>6, <1>8 DEF FaultInv, AppliedAtBoundary
<1>10. Trail'
  BY <1>8 DEF Trail
<1>11. Boundary' /\ Cleared' /\ FaultNumbers'
  BY <1>1 DEF FaultInv, Boundary, Pending, Cleared, FaultNumbers
<1> QED  BY <1>1, <1>9, <1>10, <1>11 DEF FaultInv

LEMMA FaultInductive == FaultInv /\ [NextFaults]_allvars => FaultInv'
<1> SUFFICES ASSUME FaultInv, [NextFaults]_allvars PROVE FaultInv'
  OBVIOUS
<1>1. CASE begin_engine_step
  BY <1>1, WaitingKeepsBoundaries DEF begin_engine_step, clock, campaign
<1>2. CASE reject_fault
  <2>1. /\ scheduled' \subseteq scheduled /\ stage' = "idle"
        /\ UNCHANGED <<instructions, next_sequence, applied>>
    BY <1>2 DEF reject_fault, clock
  <2>2. Boundary' /\ Cleared' /\ FaultNumbers' /\ AppliedAtBoundary' /\ Trail'
    BY <2>1 DEF FaultInv, Boundary, Pending, Cleared, FaultNumbers, AppliedAtBoundary,
                Trail
  <2> QED  BY <2>1, <2>2 DEF FaultInv
<1>3. CASE apply_fault
  BY <1>3, ApplyingKeepsBoundaries
<1>4. CASE enforce_channels
  BY <1>4, WaitingKeepsBoundaries DEF enforce_channels, clock, campaign
<1>5. CASE (reject_event \/ deliver) /\ UNCHANGED campaign
  <2>1. stage' = "events" => DueFaults = {}
    BY <1>5 DEF reject_event, deliver, FaultInv, Cleared
  <2> QED  BY <1>5, <2>1, WaitingKeepsBoundaries DEF reject_event, deliver, clock, campaign
<1>6. CASE enter_interrupt /\ retain
  BY <1>6, WaitingKeepsBoundaries DEF enter_interrupt, retain
<1>7. CASE execute /\ retain
  BY <1>7, ExecutingKeepsBoundaries DEF execute, retain
<1>8. CASE (\E t \in Times, v \in HostInputs : schedule(t, v)) /\ UNCHANGED campaign
  <2>1. stage' # "events"
    BY <1>8 DEF schedule
  <2> QED  BY <1>8, <2>1, WaitingKeepsBoundaries DEF schedule, clock, campaign
<1>9. ASSUME NEW n \in Boundaries, NEW f \in Faults, schedule_fault(n, f)
      PROVE  FaultInv'
  <2>1. n \in Nat /\ instructions \in Nat /\ next_sequence \in Nat
    BY FaultAssumption, RuntimeAssumption DEF FaultInv, FaultNumbers
  <2>2. UNCHANGED <<stage, instructions, applied>> /\ stage = "idle"
    BY <1>9 DEF schedule_fault, vars, clock
  <2>3. Boundary'
    BY <1>9, <2>1, <2>2 DEF schedule_fault, FaultInv, Boundary, Pending
  <2>4. FaultNumbers'
    BY <1>9, <2>1 DEF schedule_fault, FaultInv, FaultNumbers
  <2>5. Cleared' /\ AppliedAtBoundary' /\ Trail'
    BY <2>2 DEF FaultInv, Cleared, AppliedAtBoundary, Trail
  <2> QED  BY <2>2, <2>3, <2>4, <2>5 DEF FaultInv
<1>10. CASE UNCHANGED allvars
  <2>1. stage' = "events" => DueFaults = {}
    BY <1>10 DEF allvars, vars, FaultInv, Cleared
  <2> QED  BY <1>10, <2>1, WaitingKeepsBoundaries DEF allvars, vars, clock, campaign
<1> QED
  BY <1>1, <1>2, <1>3, <1>4, <1>5, <1>6, <1>7, <1>8, <1>9, <1>10 DEF NextFaults, engine_step

LEMMA FaultInitial == InitFaults => FaultInv
<1> SUFFICES ASSUME InitFaults PROVE FaultInv
  OBVIOUS
<1>1. applied \in Seq({})
  BY DEF InitFaults
<1>2. Trail
  BY <1>1 DEF Trail
<1> QED
  BY <1>2, RuntimeAssumption DEF InitFaults, Init, FaultInv, FaultNumbers, Boundary,
     Cleared, AppliedAtBoundary

(* Every fault that was applied was applied before the very instruction it *)
(* names, or at once if it came too late (AppliedFault.instruction).       *)
THEOREM FaultsAtBoundary == SpecFaults => []AppliedAtBoundary
<1>1. FaultInv => AppliedAtBoundary
  BY DEF FaultInv
<1> QED  BY <1>1, FaultInitial, FaultInductive, PTL DEF SpecFaults
-----------------------------------------------------------------------------
(***************************************************************************)
(* The types of the campaign.                                              *)
(***************************************************************************)
CampaignTypes ==
  /\ \A f \in scheduled : f.fault \in Faults
  /\ active_channels \in Seq(StuckChannel)
  /\ \A k \in DOMAIN applied : applied[k].fault \in Faults
  /\ central \in [Registers -> Register16]
TypeInv == EngineInv /\ FaultInv /\ TypeOK /\ CampaignTypes

LEMMA FaultTypeParts == TypeInv => TypeFaults
<1> SUFFICES ASSUME TypeInv PROVE TypeFaults
  OBVIOUS
<1>1. TypeOK /\ CampaignTypes
  BY DEF TypeInv
<1>2. ASSUME NEW f \in scheduled
      PROVE  f.instruction \in Nat /\ f.sequence \in 0 .. next_sequence - 1
  BY DEF TypeInv, FaultInv, FaultNumbers, Boundary, Pending
<1>3. injected \subseteq 0 .. next_event_sequence - 1
  BY DEF TypeInv, EngineInv, QueueInv, QueueTypes, Injections
<1> QED  BY <1>1, <1>2, <1>3 DEF CampaignTypes, TypeFaults

(* The stuck channels that remain are among those there were.              *)
LEMMA SurvivorsTyped ==
  ASSUME active_channels \in Seq(StuckChannel), retain
  PROVE  active_channels' \in Seq(StuckChannel)
<1> DEFINE N == DOMAIN active_channels
           S == {k \in N : Remains(Aged[k])}
<1>1. \A k \in N : Aged[k] \in StuckChannel
  <2>0. \A k \in N : active_channels[k] \in StuckChannel
    OBVIOUS
  <2>1. ASSUME NEW k \in N, NEW m
        PROVE  [active_channels[k] EXCEPT !.remaining = m] =
                 [channel |-> active_channels[k].channel, value |-> active_channels[k].value,
                  remaining |-> m]
    BY <2>0 DEF StuckChannel
  <2>2. ASSUME NEW k \in N
        PROVE  (IF active_channels[k].remaining = 0 THEN 0
                ELSE active_channels[k].remaining - 1) \in Nat
    BY <2>0 DEF StuckChannel
  <2> QED  BY <2>0, <2>1, <2>2 DEF Aged, StuckChannel
<1>2. DOMAIN Aged = N
  BY DEF Aged
<1>3. PICK p \in Ascending(S) : active_channels' = [k \in DOMAIN p |-> Aged[p[k]]]
  BY <1>2 DEF retain
<1>4. Cardinality(S) \in Nat
  <2>1. N = 1 .. Len(active_channels) /\ Len(active_channels) \in Nat
    OBVIOUS
  <2>2. IsFiniteSet(N)
    BY <2>1, FS_Interval
  <2> HIDE DEF N
  <2> QED  BY <2>2, FS_Subset, FS_CardinalityType
<1> DEFINE n == Cardinality(S)
<1>5. p \in [1 .. n -> S] /\ n \in Nat
  BY <1>3, <1>4 DEF Ascending
<1> HIDE DEF n, S
<1>6. \A k \in 1 .. n : Aged[p[k]] \in StuckChannel
  BY <1>1, <1>5 DEF S
<1>7. active_channels' \in [1 .. n -> StuckChannel]
  BY <1>3, <1>5, <1>6
<1> QED  BY <1>5, <1>7

LEMMA EnforcedTyped ==
  ASSUME active_channels \in Seq(StuckChannel), channels \in [Channels -> Word]
  PROVE  Enforced \in [Channels -> Word]
<1>1. ASSUME NEW c \in Channels, Sticking(c) # {}
      PROVE  LET last == CHOOSE k \in Sticking(c) : \A j \in Sticking(c) : j <= k
             IN  active_channels[last].value \in Word
  <2> DEFINE Greatest(k) == \A j \in Sticking(c) : j <= k
             last == CHOOSE k \in Sticking(c) : Greatest(k)
  <2>1. Sticking(c) \subseteq 1 .. Len(active_channels)
    BY DEF Sticking
  <2>2. PICK m \in Sticking(c) : Greatest(m)
    <3> DEFINE n == Len(active_channels)
               T == {n - k : k \in Sticking(c)}
    <3>1. n \in Nat /\ T \in SUBSET Nat /\ T # {}
      BY <1>1, <2>1
    <3>2. PICK t \in T : \A u \in T : t <= u
      BY ONLY <3>1, LeastNatural
    <3>3. PICK m \in Sticking(c) : t = n - m
      BY <3>2
    <3>4. ASSUME NEW j \in Sticking(c)  PROVE j <= m
      <4>1. n - j \in T
        OBVIOUS
      <4>2. n - m <= n - j /\ j \in Int /\ m \in Int
        BY <2>1, <3>2, <3>3, <4>1
      <4> QED  BY <3>1, <4>2
    <3> QED  BY <3>4
  <2> HIDE DEF Greatest
  <2>3. last \in Sticking(c)
    BY <2>2, Zenon
  <2>4. active_channels[last] \in StuckChannel
    BY <2>1, <2>3
  <2> QED  BY <2>4 DEF StuckChannel, Greatest
<1> QED  BY <1>1 DEF Enforced

(* What applying a fault does to each part, kind by kind.                  *)
LEMMA FaultEffects ==
  ASSUME NEW d, apply(d)
  PROVE  LET f == d.fault IN
         /\ f.kind \in {"flip", "rope", "timer", "register", "stuck", "drop", "inject"}
         /\ \/ UNCHANGED memory
            \/ f.kind = "flip" /\ memory' = [memory EXCEPT ![f.cell] = f.word]
            \/ f.kind = "timer" /\ memory' = [memory EXCEPT ![f.cell] = Jumped(f)]
         /\ \/ UNCHANGED pending_interrupts
            \/ pending_interrupts' = pending_interrupts \ {f.interrupt}
         /\ \/ UNCHANGED central
            \/ f.kind = "register" /\ central' = [central EXCEPT ![f.index] = Kept(f.index, f.raw)]
         /\ \/ UNCHANGED active_channels
            \/ f.kind = "stuck" /\ Stick(f)
         /\ \/ UNCHANGED queue
            \/ f.kind = "inject" /\ Enqueue(InjectionTime, f.event)
         /\ UNCHANGED channels
         /\ \E w : Record(d, w)
<1> DEFINE f == d.fault
<1>1. CASE f.kind = "flip"
  BY <1>1 DEF apply
<1>2. CASE f.kind = "timer"
  BY <1>2 DEF apply
<1>3. CASE f.kind = "register"
  BY <1>3 DEF apply
<1>4. CASE f.kind = "stuck"
  BY <1>4 DEF apply
<1>5. CASE f.kind = "drop"
  BY <1>5 DEF apply
<1>6. CASE f.kind = "inject"
  BY <1>6 DEF apply
<1>7. CASE f.kind = "rope"
  BY <1>7 DEF apply
<1> QED  BY <1>1, <1>2, <1>3, <1>4, <1>5, <1>6, <1>7 DEF apply

(* What a fault that is not rejected names.                                *)
LEMMA FaultFields ==
  ASSUME NEW f \in Faults, ~RejectedFault(f)
  PROVE  /\ f.kind = "flip" => f.cell \in Cells /\ f.word \in Word
         /\ f.kind = "timer" => f.cell \in Cells /\ f.delta \in Int
         /\ f.kind = "register" => f.index \in Registers /\ f.raw \in Register16
         /\ f.kind = "stuck" =>
              f.channel \in Channels /\ f.value \in Word /\ f.instructions \in Nat
         /\ f.kind = "inject" => f.event \in Inputs
<1>0. Fault(f)
  BY FaultAssumption
<1>1. /\ f.kind = "flip" =>
           f.cell \in Nat /\ f.word \in Word /\ (f.cell <= \o3777 => f.cell \in Cells)
      /\ f.kind = "timer" => f.delta \in Int /\ (f.cell \in Timers => f.cell \in Cells)
      /\ f.kind = "register" =>
           /\ f.index \in Nat /\ f.raw \in Register16
           /\ f.index <= \o17 => f.index \in Registers
      /\ f.kind = "stuck" =>
           /\ f.channel \in Nat /\ f.value \in Word /\ f.instructions \in Nat
           /\ f.channel <= \o777 => f.channel \in Channels
      /\ f.kind = "inject" => f.event \in Inputs
  BY ONLY <1>0 DEF Fault
<1>2. f.kind = "timer" => f.cell \in Timers
  BY DEF RejectedFault
<1>3. f.kind = "stuck" => f.channel \in Channels
  BY <1>1 DEF RejectedFault
<1>4. f.kind = "flip" => f.cell \in Cells
  BY <1>1 DEF RejectedFault
<1>5. f.kind = "register" => f.index \in Registers
  BY <1>1 DEF RejectedFault
<1> QED  BY ONLY <1>1, <1>2, <1>3, <1>4, <1>5

LEMMA KeptRegister ==
  ASSUME NEW i, NEW raw \in Register16
  PROVE  Kept(i, raw) \in Register16
<1> DEFINE field == (raw \div \o400) % \o10
<1>1. field \in Nat /\ field <= 7
  BY DEF Register16
<1> HIDE DEF field
<1>2. field * \o400 \in Register16
  BY <1>1 DEF Register16
<1> QED  BY <1>2 DEF Kept, field

LEMMA ApplyingKeepsTypes ==
  ASSUME TypeInv, apply_fault
  PROVE  EventTypesOK' /\ MachineTypes' /\ FrameTypes' /\ CampaignTypes'
<1> DEFINE d == FirstFault(DueFaults)
           f == d.fault
<1>1. EventTypesOK /\ MachineTypes /\ FrameTypes /\ CampaignTypes
  BY TypeParts DEF TypeInv
<1>2. d \in scheduled /\ scheduled' = scheduled \ {d} /\ apply(d) /\ ~RejectedFault(f)
  BY FirstFaultIsFirst DEF TypeInv, apply_fault, DueFaults
<1>3. f \in Faults
  BY <1>1, <1>2 DEF CampaignTypes
<1>4. UNCHANGED <<keys, imu, samples, frames, clock>>
  BY DEF apply_fault
<1> HIDE DEF d, f
<1> USE <1>2, <1>3, FaultFields, FaultEffects DEF f
<1>5. MachineTypes'
  <2>1. memory' \in [Cells -> Word]
    <3>1. CASE UNCHANGED memory
      BY <1>1, <3>1 DEF MachineTypes
    <3>2. CASE f.kind = "flip" /\ memory' = [memory EXCEPT ![f.cell] = f.word]
      BY <1>1, <3>2 DEF MachineTypes
    <3>3. CASE f.kind = "timer" /\ memory' = [memory EXCEPT ![f.cell] = Jumped(f)]
      <4>1. memory[f.cell] \in Word /\ Encoded(f.delta) \in Word
        BY <1>1, <3>3, AddedWords DEF MachineTypes
      <4>2. Jumped(f) \in Word
        BY <4>1, AddedWords DEF Jumped
      <4> QED  BY <1>1, <3>3, <4>2 DEF MachineTypes
    <3> QED  BY <3>1, <3>2, <3>3
  <2>2. pending_interrupts' \subseteq pending_interrupts /\ channels' = channels
    OBVIOUS
  <2> QED  BY <1>1, <1>4, <2>1, <2>2 DEF MachineTypes
<1>6. EventTypesOK'
  <2>1. CASE UNCHANGED queue
    BY <1>1, <1>4, <2>1 DEF EventTypesOK, queue, clock
  <2>2. CASE f.kind = "inject" /\ Enqueue(InjectionTime, f.event)
    <3>1. cycles \in Nat /\ next_event_sequence \in Nat /\ f.event \in Inputs
      BY <2>2 DEF TypeInv, TypeOK
    <3> QED  BY <1>1, <1>4, <2>2, <3>1 DEF EventTypesOK, Enqueue, InjectionTime, clock
  <2> QED  BY <2>1, <2>2
<1>7. FrameTypes'
  BY <1>1, <1>4 DEF FrameTypes, frames
<1>8. CampaignTypes'
  <2>1. central' \in [Registers -> Register16]
    <3>1. CASE UNCHANGED central
      BY <1>1, <3>1 DEF CampaignTypes
    <3>2. CASE f.kind = "register" /\ central' = [central EXCEPT ![f.index] = Kept(f.index, f.raw)]
      <4>1. f.index \in Registers /\ f.raw \in Register16
        BY <3>2
      <4>2. Kept(f.index, f.raw) \in Register16
        BY ONLY <4>1, KeptRegister
      <4> QED  BY <1>1, <3>2, <4>2 DEF CampaignTypes
    <3> QED  BY <3>1, <3>2
  <2>2. active_channels' \in Seq(StuckChannel)
    <3>1. CASE UNCHANGED active_channels
      BY <1>1, <3>1 DEF CampaignTypes
    <3>2. CASE f.kind = "stuck" /\ Stick(f)
      <4> DEFINE r == [channel |-> f.channel, value |-> f.value, remaining |-> f.instructions]
      <4>1. r \in StuckChannel
        BY <3>2 DEF StuckChannel
      <4>2. active_channels' = Append(active_channels, r)
        BY <3>2 DEF Stick
      <4> HIDE DEF r
      <4> QED  BY <1>1, <4>1, <4>2 DEF CampaignTypes
    <3> QED  BY <3>1, <3>2
  <2>3. \A k \in DOMAIN applied' : applied'[k].fault \in Faults
    <3>1. PICK w : Record(d, w)
      OBVIOUS
    <3> DEFINE r == [due |-> d.due, instruction |-> instructions, cycle |-> cycles,
                     fault |-> d.fault, word |-> w]
    <3>2. applied' = Append(applied, r) /\ r.fault \in Faults
      BY <3>1 DEF Record
    <3> HIDE DEF r
    <3>3. PICK S : applied \in Seq(S)
      BY DEF TypeInv, FaultInv, Trail
    <3>4. \A k \in DOMAIN applied' :
            (k \in DOMAIN applied /\ applied'[k] = applied[k]) \/ applied'[k] = r
      BY <3>2, <3>3, Appended
    <3> QED  BY <1>1, <3>2, <3>4 DEF CampaignTypes
  <2> QED  BY <1>1, <2>1, <2>2, <2>3 DEF CampaignTypes
<1> QED  BY <1>5, <1>6, <1>7, <1>8

LEMMA EngineTypes == TypeInv /\ [NextFaults]_allvars => TypeInv'
<1> SUFFICES ASSUME TypeInv, [NextFaults]_allvars PROVE TypeInv'
  OBVIOUS
<1>0. EngineInv' /\ FaultInv' /\ QueueTypes'
  BY EngineInductive, FaultInductive DEF TypeInv, EngineInv, QueueInv
<1>1. EventTypesOK /\ MachineTypes /\ FrameTypes /\ CampaignTypes /\ QueueInv /\ TypeOK
  BY TypeParts DEF TypeInv, EngineInv
<1>2. ASSUME EventTypesOK' /\ MachineTypes' /\ FrameTypes' /\ CampaignTypes'  PROVE TypeInv'
  BY <1>0, <1>2 DEF TypeInv, QueueTypes, EventTypesOK, MachineTypes, FrameTypes, TypeOK
<1>3. ASSUME [Next]_vars, CampaignTypes'  PROVE TypeInv'
  BY <1>0, <1>1, <1>3, TypeInductive DEF TypeInv
<1> USE DEF queue, machine, frames, clock, campaign
<1>4. CASE begin_engine_step
  BY <1>1, <1>2, <1>4
     DEF begin_engine_step, EventTypesOK, MachineTypes, FrameTypes, CampaignTypes
<1>5. CASE reject_fault
  BY <1>1, <1>2, <1>5
     DEF reject_fault, EventTypesOK, MachineTypes, FrameTypes, CampaignTypes
<1>6. CASE apply_fault
  BY <1>2, <1>6, ApplyingKeepsTypes
<1>7. CASE enforce_channels
  <2>1. channels' \in [Channels -> Word]
    BY <1>1, <1>7, EnforcedTyped DEF enforce_channels, MachineTypes, CampaignTypes
  <2> QED  BY <1>1, <1>2, <1>7, <2>1
           DEF enforce_channels, Due, EventTypesOK, MachineTypes, FrameTypes, CampaignTypes
<1>8. CASE (reject_event \/ deliver) /\ UNCHANGED campaign
  <2>1. [Next]_vars
    BY <1>8 DEF Next, step
  <2> QED  BY <1>1, <1>3, <1>8, <2>1 DEF CampaignTypes
<1>9. CASE (enter_interrupt \/ execute) /\ retain
  <2>1. [Next]_vars
    BY <1>9 DEF Next, step
  <2>2. active_channels' \in Seq(StuckChannel)
    BY <1>1, <1>9, SurvivorsTyped DEF CampaignTypes
  <2>3. CampaignTypes'
    BY <1>1, <1>9, <2>2 DEF retain, CampaignTypes
  <2> QED  BY <1>3, <2>1, <2>3
<1>10. CASE (\E t \in Times, v \in HostInputs : schedule(t, v)) /\ UNCHANGED campaign
  <2>1. [Next]_vars
    BY <1>10 DEF Next
  <2> QED  BY <1>1, <1>3, <1>10, <2>1 DEF CampaignTypes
<1>11. ASSUME NEW n \in Boundaries, NEW f \in Faults, schedule_fault(n, f)  PROVE TypeInv'
  <2>1. CampaignTypes'
    BY <1>1, <1>11 DEF schedule_fault, CampaignTypes
  <2> QED  BY <1>3, <1>11, <2>1 DEF schedule_fault
<1>12. CASE UNCHANGED allvars
  <2>1. [Next]_vars
    BY <1>12 DEF allvars
  <2> QED  BY <1>1, <1>3, <1>12, <2>1 DEF allvars, CampaignTypes
<1> QED
  BY <1>4, <1>5, <1>6, <1>7, <1>8, <1>9, <1>10, <1>11, <1>12 DEF NextFaults, engine_step

LEMMA TypeInitial == InitFaults => TypeInv
<1> SUFFICES ASSUME InitFaults PROVE TypeInv
  OBVIOUS
<1>1. EngineInv /\ FaultInv
  BY EngineInitial, FaultInitial
<1>2. TypeOK
  BY DEF InitFaults, Init, TypeOK, Word, Downrupt, Interrupt
<1>3. CampaignTypes
  BY DEF InitFaults, CampaignTypes, Register16
<1> QED  BY <1>1, <1>2, <1>3 DEF TypeInv

(* Stuck channels are channels with words, the trail names scheduled       *)
(* faults, registers hold sixteen bits, whatever is scheduled and fails.   *)
THEOREM CampaignTyped == SpecFaults => []TypeFaults
  BY TypeInitial, EngineTypes, FaultTypeParts, PTL DEF SpecFaults
=============================================================================
