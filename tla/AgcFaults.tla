------------------------------ MODULE AgcFaults ------------------------------
(***************************************************************************)
(* The fault campaign around the runtime: crate agc-faults.  A step of the *)
(* engine applies the faults due at the present instruction count, forces  *)
(* the stuck channels, runs one step of the runtime (AgcRuntime) and ages  *)
(* the stuck channels.                                                     *)
(*                                                                         *)
(* The masks of the bit flips are arbitrary, so a flip is given by the     *)
(* word it makes of the target.  `injected' is history: it records what    *)
(* was asked for and decides nothing.                                      *)
(***************************************************************************)
EXTENDS AgcRuntime, FiniteSets

CONSTANTS
  Faults,     \* the faults that are scheduled
  Boundaries, \* the instruction counts they are scheduled for
  MaxFaults   \* bound: so many are scheduled

EB == 3
Registers == {0, EB}
Timers == \o24 .. \o31

(* A fault, as far as its fields say: a cell, a timer, a register or a      *)
(* channel is in use if it exists at all.  A flip names an erasable cell by *)
(* an address or a bank and an offset; a cell above stands for an address   *)
(* of fixed memory and for a location that is not installed.                *)
Fault(f) ==
  \/ /\ f.kind = "flip" /\ f.cell \in Nat /\ f.word \in Word
     /\ f.cell <= \o3777 => f.cell \in Cells
  \/ f.kind = "rope" /\ f.cell \in Nat /\ f.word \in Word
  \/ /\ f.kind = "timer" /\ f.cell \in Nat /\ f.delta \in Int
     /\ f.cell \in Timers => f.cell \in Cells
  \/ /\ f.kind = "register" /\ f.index \in Nat /\ f.raw \in Register16
     /\ f.index <= \o17 => f.index \in Registers
  \/ /\ f.kind = "stuck" /\ f.channel \in Nat /\ f.value \in Word /\ f.instructions \in Nat
     /\ f.channel <= \o777 => f.channel \in Channels
  \/ f.kind = "drop" /\ f.interrupt \in Interrupt
  \/ f.kind = "inject" /\ f.event \in Inputs

ASSUME FaultAssumption ==
  /\ \A f \in Faults : Fault(f)
  /\ Boundaries \subseteq 0 .. Horizon
  /\ MaxFaults \in Nat

VARIABLES
  scheduled,       \* the faults not yet applied
  next_sequence,   \* the number the next one gets
  active_channels, \* the stuck channels, in the order they were applied
  applied,         \* the audit trail
  central,         \* the central registers that faults corrupt
  injected         \* the numbers of the runtime events made by faults

campaign == <<scheduled, next_sequence, active_channels, applied, central, injected>>
allvars == <<vars, campaign>>

-----------------------------------------------------------------------------
SoonerFault(f, g) ==
  \/ f.instruction < g.instruction
  \/ f.instruction = g.instruction /\ f.sequence < g.sequence

(* Mutant: a fault waits for the instruction it names to be over.          *)
DueFaults_after == {f \in scheduled : f.instruction < instructions}
DueFaults == {f \in scheduled : f.instruction <= instructions}

FirstFault(S) == CHOOSE f \in S : \A g \in S : f = g \/ SoonerFault(f, g)

FixedCells == 36 * \o2000

(* The target does not exist, cannot be written, or the count is no word.  *)
RejectedFault(f) ==
  \/ f.kind = "flip" /\ f.cell > \o3777
  \/ f.kind = "rope" /\ f.cell >= FixedCells
  \/ f.kind = "register" /\ f.index > \o17
  \/ f.kind = "stuck" /\ f.channel > \o777
  \/ f.kind = "timer"
       /\ (f.cell \notin Timers \/ f.delta < -\o37777 \/ f.delta > \o37777)

(* Memory::set_central_register keeps the field of EB only.                *)
Kept(i, raw) == IF i = EB THEN ((raw \div \o400) % \o10) * \o400 ELSE raw

InitFaults ==
  /\ Init
  /\ scheduled = {}
  /\ next_sequence = 0
  /\ active_channels = <<>>
  /\ applied = <<>>
  /\ central = [i \in Registers |-> 0]
  /\ injected = {}

schedule_fault(n, f) ==
  /\ stage = "idle"
  /\ next_sequence < MaxFaults
  /\ scheduled' = scheduled \cup
       {[instruction |-> n, sequence |-> next_sequence, fault |-> f,
         due |-> IF n < instructions THEN instructions ELSE n]}
  /\ next_sequence' = next_sequence + 1
  /\ UNCHANGED <<vars, active_channels, applied, central, injected>>

begin_engine_step ==
  /\ stage = "idle"
  /\ stage' = "faults"
  /\ UNCHANGED <<keys, queue, machine, frames, clock, campaign>>

(* A fault that fails is dropped and ends the step; no record is kept.     *)
reject_fault ==
  /\ stage = "faults"
  /\ DueFaults # {}
  /\ RejectedFault(FirstFault(DueFaults).fault)
  /\ scheduled' = scheduled \ {FirstFault(DueFaults)}
  /\ stage' = "idle"
  /\ UNCHANGED <<keys, queue, machine, frames, clock, next_sequence, active_channels,
                 applied, central, injected>>

Stick(f) ==
  active_channels' = Append(active_channels,
    [channel |-> f.channel, value |-> f.value, remaining |-> f.instructions])

(* Mutant: the event of a fault is queued for the next cycle.              *)
InjectionTime_next == cycles + 1
InjectionTime == cycles

(* The audit trail: where the fault was applied, and its resulting word.   *)
Record(due, word) ==
  applied' = Append(applied,
    [due |-> due.due, instruction |-> instructions, cycle |-> cycles,
     fault |-> due.fault, word |-> word])

Jumped(f) == wrapping_add(memory[f.cell], Encoded(f.delta))

apply(due) ==
  LET f == due.fault IN
  \/ /\ f.kind = "flip"
     /\ memory' = [memory EXCEPT ![f.cell] = f.word]
     /\ Record(due, f.word)
     /\ UNCHANGED <<queue, channels, pending_interrupts, active_channels, central, injected>>
  \/ /\ f.kind = "rope"        \* the rope itself is in AgcMemory
     /\ Record(due, f.word)
     /\ UNCHANGED <<queue, channels, memory, pending_interrupts, active_channels,
                    central, injected>>
  \/ /\ f.kind = "timer"
     /\ memory' = [memory EXCEPT ![f.cell] = Jumped(f)]
     /\ Record(due, Jumped(f))
     /\ UNCHANGED <<queue, channels, pending_interrupts, active_channels, central, injected>>
  \/ /\ f.kind = "register"
     /\ central' = [central EXCEPT ![f.index] = Kept(f.index, f.raw)]
     /\ Record(due, f.raw)
     /\ UNCHANGED <<queue, channels, memory, pending_interrupts, active_channels, injected>>
  \/ /\ f.kind = "stuck"
     /\ Stick(f)
     /\ Record(due, f.value)
     /\ UNCHANGED <<queue, channels, memory, pending_interrupts, central, injected>>
  \/ /\ f.kind = "drop"
     /\ pending_interrupts' = pending_interrupts \ {f.interrupt}
     /\ Record(due, IF f.interrupt \in pending_interrupts THEN 1 ELSE 0)
     /\ UNCHANGED <<queue, channels, memory, active_channels, central, injected>>
  \/ /\ f.kind = "inject"
     /\ Enqueue(InjectionTime, f.event)
     /\ injected' = injected \cup {next_event_sequence}
     /\ Record(due, None)
     /\ UNCHANGED <<channels, memory, pending_interrupts, active_channels, central>>

apply_fault ==
  /\ stage = "faults"
  /\ DueFaults # {}
  /\ ~RejectedFault(FirstFault(DueFaults).fault)
  /\ apply(FirstFault(DueFaults))
  /\ scheduled' = scheduled \ {FirstFault(DueFaults)}
  /\ UNCHANGED <<stage, keys, imu, samples, frames, clock, next_sequence>>

-----------------------------------------------------------------------------
(* The last fault that sticks a channel decides its word.                  *)
Sticking(c) == {k \in DOMAIN active_channels : active_channels[k].channel = c}
Enforced ==
  [c \in Channels |->
     IF Sticking(c) = {} THEN channels[c]
     ELSE LET last == CHOOSE k \in Sticking(c) : \A j \in Sticking(c) : j <= k
          IN  active_channels[last].value]

(* Then the runtime's step begins: it collects its due events.             *)
enforce_channels ==
  /\ stage = "faults"
  /\ DueFaults = {}
  /\ channels' = Enforced
  /\ stage' = "events"
  /\ keys' = Due
  /\ UNCHANGED <<queue, memory, pending_interrupts, imu, samples, frames, clock, campaign>>

(* Every step of the processor ages the faults, an interrupt entry too.    *)
Aged ==
  [k \in DOMAIN active_channels |->
     [active_channels[k] EXCEPT !.remaining = IF @ = 0 THEN 0 ELSE @ - 1]]

(* Mutant: a count that stops at zero is compared with zero.               *)
Remains_saturated(f) == f.remaining >= 0
Remains(f) == f.remaining # 0

(* The members of a set of positions, in order.                            *)
Ascending(S) ==
  {p \in [1 .. Cardinality(S) -> S] : \A i, j \in DOMAIN p : i < j => p[i] < p[j]}

(* Those that remain keep their order (Vec::retain_mut).                   *)
retain ==
  /\ \E p \in Ascending({k \in DOMAIN Aged : Remains(Aged[k])}) :
       active_channels' = [k \in DOMAIN p |-> Aged[p[k]]]
  /\ UNCHANGED <<scheduled, next_sequence, applied, central, injected>>

engine_step ==
  \/ begin_engine_step \/ reject_fault \/ apply_fault \/ enforce_channels
  \/ (reject_event \/ deliver) /\ UNCHANGED campaign
  \/ (enter_interrupt \/ execute) /\ retain

NextFaults ==
  \/ engine_step
  \/ (\E t \in Times, v \in HostInputs : schedule(t, v)) /\ UNCHANGED campaign
  \/ \E n \in Boundaries, f \in Faults : schedule_fault(n, f)

(* FaultEngine::run, and the mission controller, step it in a loop.        *)
SpecFaults == InitFaults /\ [][NextFaults]_allvars
FairSpecFaults == SpecFaults /\ WF_allvars(engine_step)
-----------------------------------------------------------------------------
StuckChannel == [channel : Channels, value : Word, remaining : Nat]

TypeFaults ==
  /\ TypeOK
  /\ \A f \in scheduled :
       f.instruction \in Nat /\ f.sequence \in 0 .. next_sequence - 1 /\ f.fault \in Faults
  /\ active_channels \in Seq(StuckChannel)
  /\ \A k \in DOMAIN applied : applied[k].fault \in Faults
  /\ central \in [Registers -> Register16]
  /\ injected \subseteq 0 .. next_event_sequence - 1

(* A fault takes effect before the very instruction that it names, however *)
(* many steps fail or enter interrupts in between; the audit trail records *)
(* that boundary (AppliedFault.instruction).                               *)
AppliedAtBoundary ==
  \A k \in DOMAIN applied : applied[k].instruction = applied[k].due

(* The pulses and the radar sample of a fault reach the machine before the *)
(* next instruction, through the event queue (ImuBias, RadarSample).       *)
InjectedBeforeInstruction ==
  AtInstruction => \A e \in events : e.sequence \notin injected

(* A stuck channel is released in the end.                                 *)
StuckReleased == (active_channels # <<>>) ~> (active_channels = <<>>)

=============================================================================
