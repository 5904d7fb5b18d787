----------------------------- MODULE MCMission -----------------------------
(* Instances of AgcMission: the P63 sequence under radar interrupts, relay *)
(* words, and a KEYRUPT1 that a fault may drop; then RESET typed by hand.   *)
EXTENDS AgcMission

MCSample == [kind |-> "radar", range |-> 5, rate |-> 6]
MCTyped == [kind |-> "key", code |-> \o22]
MCBadChannel == [kind |-> "channel", channel |-> \o1000, value |-> 0]
MCMissionEvents ==
  {MCSample, MCTyped, MCBadChannel} \cup {[kind |-> "key", code |-> P63Keys[k]] : k \in 1 .. 7}
MCScenarios ==
  {<<[instruction |-> 2, event |-> MCSample]>>,
   <<[instruction |-> 2, event |-> MCSample], [instruction |-> 4, event |-> MCBadChannel]>>}
MCOperator == {<<[instruction |-> 2, event |-> MCTyped]>>}
MCDrop ==
  {[kind |-> "drop", interrupt |-> Key1], [kind |-> "timer", cell |-> \o32, delta |-> 1]}

(* R1D1 shows 1 with its minus sign, R1D2 and R1D3 show 2 and 3.            *)
MCRelayWords == {<<\o10, 8 * \o4000 + \o2003>>, <<\o10, 7 * \o4000 + \o31 * \o40 + \o33>>}
MCNoOutput == {}
MCMissionChannels == {\o10, \o15, \o34, \o35}
MCMissionCells == {RateCell, RangeCell} \cup Inertial
MCCodes == 0 .. \o37

(* Only the run with a RESET typed by hand shares the keyboard.             *)
ASSUME MCKeyboard == OnlyOperatorTypes <=> Scenarios # MCOperator
=============================================================================
