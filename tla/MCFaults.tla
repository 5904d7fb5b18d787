------------------------------ MODULE MCFaults ------------------------------
(* Instances of AgcFaults: one fault of each kind, and invalid ones.       *)
EXTENDS AgcFaults

MCNoPulse == [a \in Inertial |-> 1]
MCPulse == [kind |-> "imu", pulses |-> MCNoPulse]
MCKey == [kind |-> "key", code |-> 3]
MCBadChannel == [kind |-> "channel", channel |-> \o1000, value |-> 0]
MCInputs == {MCPulse, MCKey, MCBadChannel}
MCHost == {MCKey, MCBadChannel}
MCStuck == [kind |-> "stuck", channel |-> \o15, value |-> 0, instructions |-> 2]
MCRegister == [kind |-> "register", index |-> EB, raw |-> 1]
MCFaultKinds == {
  MCStuck,
  MCRegister,
  [kind |-> "stuck", channel |-> \o1000, value |-> 0, instructions |-> 1],
  [kind |-> "flip", cell |-> \o32, word |-> 4],
  [kind |-> "flip", cell |-> \o4000, word |-> 4],
  [kind |-> "rope", cell |-> \o107777, word |-> 4],
  [kind |-> "rope", cell |-> \o110000, word |-> 4],
  [kind |-> "register", index |-> \o20, raw |-> 1],
  [kind |-> "timer", cell |-> \o24, delta |-> -1],
  [kind |-> "timer", cell |-> \o32, delta |-> 1],
  [kind |-> "drop", interrupt |-> 8],
  [kind |-> "inject", event |-> MCPulse] }
MCFaultOutputs == {<<\o15, 3>>}
MCFaultChannels == {\o15, \o34, \o35}
MCFaultCells == {RateCell, RangeCell, \o24} \cup Inertial
=============================================================================
