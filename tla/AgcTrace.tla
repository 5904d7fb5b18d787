------------------------------ MODULE AgcTrace ------------------------------
(***************************************************************************)
(* The trace of a run: crate agc-trace.  A log accepts an event only in    *)
(* the order of the machine; it is written as one line for each event and  *)
(* read back line by line.  All of it is functions of the values given;    *)
(* AgcExperiments holds the state.                                         *)
(*                                                                         *)
(* A register snapshot is reduced to two fields: `bank' stands for EB, FB  *)
(* and BB, and `a' for the other registers.                                *)
(***************************************************************************)
EXTENDS Integers, Sequences, FiniteSets

Nothing == [sequence |-> -1]   \* no event

(* TraceLog::push, which knows the log, and TraceJsonReader::next_event,    *)
(* which remembers two numbers.  Mutant: a log may begin anywhere.         *)
Accepts_anywhere(log, e) ==
  log # <<>> => /\ e.sequence = log[Len(log)].sequence + 1
                /\ e.cycle_start >= log[Len(log)].cycle_end
Accepts(log, e) ==
  IF log = <<>> THEN e.sequence = 0
  ELSE /\ e.sequence = log[Len(log)].sequence + 1
       /\ e.cycle_start >= log[Len(log)].cycle_end

(* The reader, and how far its caller has come: TraceJsonReader does not    *)
(* remember a failure, but read_json_lines and analyze_json_lines ask it    *)
(* no more after the first one.                                             *)
NewReader == [previous_sequence |-> -1, previous_cycle_end |-> 0, state |-> "open"]

(* Mutant: only a line out of time is refused.                             *)
InOrder_of_cycles(rd, e) == e.cycle_start >= rd.previous_cycle_end
InOrder(rd, e) ==
  /\ e.sequence = rd.previous_sequence + 1
  /\ rd.previous_sequence # -1 => e.cycle_start >= rd.previous_cycle_end

Advanced(rd, e) ==
  [rd EXCEPT !.previous_sequence = e.sequence, !.previous_cycle_end = e.cycle_end]

-----------------------------------------------------------------------------
(* The index of the first unequal event, counted from 0, or None.          *)
NoIndex == -1
Shorter(left, right) == IF Len(left) <= Len(right) THEN Len(left) ELSE Len(right)
Least(S) == CHOOSE k \in S : \A j \in S : k <= j
first_difference(left, right) ==
  LET D == {k \in 1 .. Shorter(left, right) : left[k] # right[k]}
  IN  IF D # {} THEN Least(D) - 1
      ELSE IF Len(left) # Len(right) THEN Shorter(left, right) ELSE NoIndex
=============================================================================
