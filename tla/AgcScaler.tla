----------------------------- MODULE AgcScaler -----------------------------
(***************************************************************************)
(* The clock of the processor: agc-cpu's machine cycles (MCTs), the scaler *)
(* and the counters it drives, the delayed DOWNRUPT and the HANDRUPT       *)
(* traps.                                                                  *)
(*                                                                         *)
(* A step of the processor is not one clock tick: it passes MCTs one by    *)
(* one, services the scaler only at its ready points, and every counter    *)
(* serviced steals an MCT, which may bring the next tick.  Here each MCT,  *)
(* each tick and each commit is an action; `stage' says where in the step  *)
(* the processor is.  Peripherals act between steps.                       *)
(***************************************************************************)
EXTENDS AgcWord, FiniteSets

CONSTANTS
  Phases,            \* ticks in a full cycle of the counters (32)
  ScalerSize,        \* ticks after which the scaler wraps (2^14)
  CounterMax,        \* the last value of a counter before overflow (2^14 - 1)
  DownruptDelay,     \* MCTs from the second downlink word to DOWNRUPT (1706)
  InstructionCycles, \* the lengths of the program's instructions, in MCTs
  TrapInputs,        \* the HANDRUPT traps in use, of {"31a", "31b", "32"}
  DownlinkChannels,  \* the downlink channels in use, of {\o34, \o35}
  StoredTimes,       \* what the program stores in its counters
  MaxCycles,         \* the bound on the cycles that are explored
  None               \* no DOWNRUPT is due

Time6 == 1
Time5 == 2
Time3 == 3
Time4 == 4
Downrupt == 8
Handrupt == 10
Interrupt == 1 .. 10
Timers == 1 .. 6
TickCost == 80
MctGain == 3

ASSUME ClockAssumption ==
  /\ Phases \in Nat /\ Phases >= 4
  /\ ScalerSize \in Nat /\ ScalerSize > 0 /\ ScalerSize % Phases = 0
  /\ CounterMax \in Nat /\ CounterMax < \o40000
  /\ DownruptDelay \in Nat
  /\ InstructionCycles \subseteq 1 .. 6
  /\ TrapInputs \subseteq {"31a", "31b", "32"}
  /\ DownlinkChannels \subseteq {\o34, \o35}
  /\ StoredTimes \subseteq Timers \X Word
  /\ None \notin Nat

VARIABLES
  cycles,             \* MCTs since reset
  ticks,              \* scaler ticks since reset: a history variable
  scaler_mcts,        \* thirds of an MCT not yet turned into a tick
  scaler,             \* SCALER1, channel 4
  scaler2,            \* SCALER2, channel 3
  timers,             \* timers[t] is TIMEt
  time6_enabled,      \* bit 15 of channel 13
  armed,              \* the HANDRUPT traps that are armed
  low,                \* the trap inputs that are asserted (low)
  downlink_words,     \* the downlink channels written since the last pair
  downrupt_due,       \* the cycle at which DOWNRUPT is due, or None
  pending_interrupts,
  stage,              \* where in a step the processor is
  deferred,           \* MCTs to pass before the next ready point
  delay               \* MCTs stolen by the counters at this ready point

clock == <<cycles, scaler_mcts, deferred>>
counters == <<ticks, scaler, scaler2, timers, time6_enabled, armed, delay>>
downlink == <<downlink_words, downrupt_due>>
vars == <<clock, counters, downlink, low, pending_interrupts, stage>>

Stages == {"idle", "fetch", "enter", "execute", "commit"}

-----------------------------------------------------------------------------
(* A counter increment: the value after \o37777 is zero and overflows, the  *)
(* value after minus zero is one.                                          *)
counter_pinc(v) ==
  IF v = CounterMax THEN 0 ELSE IF v = \o77777 THEN 1 ELSE v + 1
Overflowing(t) == timers[t] = CounterMax

(* TIME6 counts towards zero.  Mutant: away from it.                       *)
away_from_zero(v) == wrapping_add(v, IF is_negative(v) THEN \o77776 ELSE 1)
toward_zero(v) == wrapping_add(v, IF is_negative(v) THEN 1 ELSE \o77776)

(* Mutant: the carry of TIME1 is forgotten.                                *)
Incremented_without_carry(p) ==
  IF p = 0 THEN {5} ELSE IF p = Phases \div 4 THEN {4}
  ELSE IF p = Phases \div 2 THEN {1, 3} ELSE {}

(* The counters that phase p increments; TIME1 carries into TIME2.         *)
Incremented(p) ==
  IF p = 0 THEN {5}
  ELSE IF p = Phases \div 4 THEN {4}
  ELSE IF p = Phases \div 2 THEN IF Overflowing(1) THEN {1, 2, 3} ELSE {1, 3}
  ELSE {}

(* The traps still armed after a tick.  Mutant: 31a masks the others.      *)
Disarmed_first == IF "31a" \in armed \cap low THEN armed \ {"31a"} ELSE armed \ low
Disarmed == armed \ low

(* What a tick leaves of the scaler.  Mutant: the thirds beyond the tick   *)
(* are dropped.                                                            *)
NextScaler == (scaler + 1) % ScalerSize
Remainder_dropped == 0
Remainder == scaler_mcts - TickCost

Request(t) == IF t = 3 THEN Time3 ELSE IF t = 4 THEN Time4 ELSE Time5

Init ==
  /\ cycles = 0 /\ ticks = 0
  /\ scaler_mcts = 0
  /\ scaler = 0 /\ scaler2 = 0
  /\ timers = [t \in Timers |-> 0]
  /\ time6_enabled = FALSE
  /\ armed = {}
  /\ low = {}
  /\ downlink_words = {}
  /\ downrupt_due = None
  /\ pending_interrupts = {Downrupt}
  /\ stage = "idle" /\ deferred = 0 /\ delay = 0

-----------------------------------------------------------------------------
(* step: the fetch is followed by a ready point.                           *)
begin_step ==
  /\ stage = "idle" /\ cycles < MaxCycles
  /\ stage' = "fetch" /\ deferred' = 1
  /\ UNCHANGED <<cycles, scaler_mcts, counters, downlink, low, pending_interrupts>>

(* One MCT.  The DOWNRUPT is looked at in every MCT, ready point or not.   *)
(* Mutant: looked at before a ready point only.                            *)
Due_at_ready == downrupt_due # None /\ cycles >= downrupt_due /\ deferred = 1
Due == downrupt_due # None /\ cycles >= downrupt_due

clock_deferred_mct ==
  /\ deferred > 0
  /\ IF Due
     THEN /\ pending_interrupts' = pending_interrupts \cup {Downrupt}
          /\ downrupt_due' = None
     ELSE UNCHANGED <<pending_interrupts, downrupt_due>>
  /\ cycles' = cycles + 1
  /\ scaler_mcts' = scaler_mcts + MctGain
  /\ deferred' = deferred - 1
  /\ UNCHANGED <<counters, downlink_words, low, stage>>

AtReadyPoint == stage \in {"fetch", "execute"} /\ deferred = 0

(* One turn of service_scaler's loop.                                      *)
tick ==
  LET next == NextScaler
      incremented == Incremented(next % Phases)
      time6_turn == time6_enabled /\ (next % Phases) % 2 = 1
      expired == time6_turn /\ is_zero(timers[6])
      triggered == armed \cap low # {}
  IN
  /\ AtReadyPoint /\ scaler_mcts >= TickCost
  /\ scaler_mcts' = Remainder
  /\ ticks' = ticks + 1
  /\ scaler' = next
  /\ scaler2' = IF next = 0 THEN (scaler2 + 1) % \o100000 ELSE scaler2
  /\ timers' = [t \in Timers |->
                  IF t \in incremented THEN counter_pinc(timers[t])
                  ELSE IF t = 6 /\ time6_turn /\ ~expired THEN toward_zero(timers[6])
                  ELSE timers[t]]
  /\ time6_enabled' = (time6_enabled /\ ~expired)
  /\ armed' = Disarmed
  /\ pending_interrupts' =
       pending_interrupts
         \cup {Request(t) : t \in {u \in incremented \cap {3, 4, 5} : Overflowing(u)}}
         \cup (IF expired THEN {Time6} ELSE {})
         \cup (IF triggered THEN {Handrupt} ELSE {})
  /\ delay' = delay + Cardinality(incremented) + (IF time6_turn THEN 1 ELSE 0)
  /\ UNCHANGED <<cycles, deferred, downlink, low, stage>>

(* Ready once nothing is left to service.  Mutant: ready at once.          *)
Serviced_unchecked == AtReadyPoint
Serviced == AtReadyPoint /\ scaler_mcts < TickCost

(* Stolen MCTs pass before the processor is ready.                         *)
steal ==
  /\ Serviced /\ delay > 0
  /\ deferred' = delay /\ delay' = 0
  /\ UNCHANGED <<cycles, scaler_mcts, ticks, scaler, scaler2, timers, time6_enabled,
                 armed, downlink, low, pending_interrupts, stage>>

(* accept_interrupt: the highest pending request, or EDRUPT's vector 0.    *)
accept_interrupt ==
  /\ Serviced /\ delay = 0 /\ stage = "fetch"
  /\ pending_interrupts' = {i \in pending_interrupts : \E j \in pending_interrupts : j < i}
  /\ stage' = "enter" /\ deferred' = 1
  /\ UNCHANGED <<cycles, scaler_mcts, counters, downlink, low>>

(* Entry takes one more MCT, with no scaler service after it.              *)
end_entry ==
  /\ stage = "enter" /\ deferred = 0
  /\ stage' = "idle"
  /\ UNCHANGED <<clock, counters, downlink, low, pending_interrupts>>

(* An instruction of c cycles passes its other c - 1 MCTs, then is ready.  *)
start_execution(c) ==
  /\ Serviced /\ delay = 0 /\ stage = "fetch"
  /\ stage' = IF c = 1 THEN "commit" ELSE "execute"
  /\ deferred' = c - 1
  /\ UNCHANGED <<cycles, scaler_mcts, counters, downlink, low, pending_interrupts>>

end_execution ==
  /\ Serviced /\ delay = 0 /\ stage = "execute"
  /\ stage' = "commit"
  /\ UNCHANGED <<clock, counters, downlink, low, pending_interrupts>>

-----------------------------------------------------------------------------
(* What the instruction does to the clocked state.                         *)
Commit ==
  /\ stage = "commit" /\ stage' = "idle"
  /\ UNCHANGED <<clock, ticks, scaler, scaler2, delay, low, pending_interrupts>>

execute_other == Commit /\ UNCHANGED <<timers, time6_enabled, armed, downlink>>

(* A store in a counter.                                                   *)
store_timer(t, v) ==
  /\ Commit
  /\ timers' = [timers EXCEPT ![t] = v]
  /\ UNCHANGED <<time6_enabled, armed, downlink>>

(* Channel 13: bit 15 starts or stops TIME6; the trap bits arm and are not *)
(* stored, so writing zeros does not disarm.                               *)
write_channel_13(enable, arms) ==
  /\ Commit
  /\ time6_enabled' = enable
  /\ armed' = armed \cup arms
  /\ UNCHANGED <<timers, downlink>>

(* Channels 34 and 35: the second word of a pair schedules DOWNRUPT when   *)
(* the instruction completes (schedule_completed_downrupt).                *)
write_downlink(ch) ==
  LET words == downlink_words \cup {ch} IN
  /\ Commit
  /\ IF words = {\o34, \o35}
     THEN downlink_words' = {} /\ downrupt_due' = cycles + DownruptDelay
     ELSE downlink_words' = words /\ UNCHANGED downrupt_due
  /\ UNCHANGED <<timers, time6_enabled, armed>>

(* Between steps a peripheral drives the trap inputs.                      *)
set_inputs(inputs) ==
  /\ stage = "idle"
  /\ low' = inputs
  /\ UNCHANGED <<clock, counters, downlink, pending_interrupts, stage>>

(* reset clears the volatile memory, the counters and inputs with it.      *)
reset ==
  /\ stage = "idle"
  /\ cycles' = 0 /\ ticks' = 0
  /\ scaler_mcts' = 0
  /\ scaler' = 0 /\ scaler2' = 0
  /\ timers' = [t \in Timers |-> 0]
  /\ time6_enabled' = FALSE
  /\ armed' = {}
  /\ low' = {}
  /\ downlink_words' = {}
  /\ downrupt_due' = None
  /\ pending_interrupts' = {Downrupt}
  /\ UNCHANGED <<stage, deferred, delay>>

Step ==
  \/ begin_step \/ clock_deferred_mct \/ tick \/ steal
  \/ accept_interrupt \/ end_entry
  \/ \E c \in InstructionCycles : start_execution(c)
  \/ end_execution

Execution ==
  \/ execute_other
  \/ \E s \in StoredTimes : store_timer(s[1], s[2])
  \/ \E enable \in BOOLEAN, arms \in SUBSET TrapInputs : write_channel_13(enable, arms)
  \/ \E ch \in DownlinkChannels : write_downlink(ch)

Environment ==
  \/ \E inputs \in SUBSET TrapInputs : set_inputs(inputs)
  \/ reset

Next == Step \/ Execution \/ Environment
Spec == Init /\ [][Next]_vars
-----------------------------------------------------------------------------
(* Every MCT is accounted for: none is counted twice or lost in deferral,  *)
(* stealing or interrupt entry (clock_deferred_mct, service_scaler).       *)
Conserved == MctGain * cycles = TickCost * ticks + scaler_mcts

(* Ticks are serviced at ready points only, yet a ready point never finds  *)
(* more than one: the counters lag real time by less than two ticks.       *)
NeverTwoBehind == TickCost * ticks <= MctGain * cycles /\ scaler_mcts < 2 * TickCost

(* The DOWNRUPT that is due has not been passed over by deferred MCTs.     *)
DueAhead == downrupt_due # None => cycles <= downrupt_due

(* DOWNRUPT is requested exactly DownruptDelay MCTs after the second word. *)
DownruptOnTime ==
  [][(Downrupt \in pending_interrupts' \ pending_interrupts) =>
       cycles' = 0 \/ cycles = downrupt_due]_vars

(* A trap asserted when the scaler ticks is disarmed and answered, each    *)
(* one even if several fire together; the others stay armed.               *)
TrapsFire ==
  [][ticks' = ticks + 1 =>
       /\ armed' \cap low = {}
       /\ armed \ low \subseteq armed'
       /\ armed \cap low # {} => Handrupt \in pending_interrupts']_vars

(* TIME6 counts its magnitude down in either sign, only while enabled; at   *)
(* zero it asks for its interrupt and stops itself, so that it asks once   *)
(* for each time the program enables it (service_scaler).                  *)
magnitude(w) == IF is_negative(w) THEN \o77777 - w ELSE w
Time6CountsDown ==
  [][ticks' = ticks + 1 =>
       /\ timers'[6] # timers[6] =>
            time6_enabled /\ magnitude(timers'[6]) = magnitude(timers[6]) - 1
       /\ (Time6 \in pending_interrupts' \ pending_interrupts) =>
            time6_enabled /\ ~time6_enabled' /\ magnitude(timers[6]) = 0]_vars

(* For a program that stores in no counter: how often each was due.        *)
TimesDue(t) ==
  IF t = 5 THEN ticks \div Phases
  ELSE IF t = 4 THEN (ticks + Phases - (Phases \div 4)) \div Phases
  ELSE (ticks + Phases - (Phases \div 2)) \div Phases

(* The counters show the elapsed time, as a clock without stealing would:  *)
(* no increment is lost or doubled, and TIME2,TIME1 is one double counter. *)
CountersKeepTime ==
  /\ \A t \in {3, 4, 5} : timers[t] = TimesDue(t) % (CounterMax + 1)
  /\ timers[1] + (CounterMax + 1) * timers[2] =
       TimesDue(1) % ((CounterMax + 1) * (CounterMax + 1))
  /\ scaler + ScalerSize * scaler2 = ticks % (ScalerSize * \o100000)
=============================================================================
