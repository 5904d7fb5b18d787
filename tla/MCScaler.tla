------------------------------ MODULE MCScaler ------------------------------
(***************************************************************************)
(* An instance of AgcScaler.  For the first BusyCycles (three ticks) the   *)
(* program stores in TIME6, arms traps and sends downlink pairs in every   *)
(* order; later only states where that is over are explored, through a     *)
(* full cycle of the counters.                                             *)
(***************************************************************************)
EXTENDS AgcScaler

CONSTANT BusyCycles \* bound

MCTimes == {<<6, 1>>, <<6, \o77776>>}

Quiet ==
  /\ low = {} /\ armed = {}
  /\ downlink_words = {} /\ downrupt_due = None
  /\ timers[6] = 0 /\ ~time6_enabled
QuietLater == cycles > BusyCycles => Quiet
=============================================================================
