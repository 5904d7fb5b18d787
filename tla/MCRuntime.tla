----------------------------- MODULE MCRuntime -----------------------------
(* Instances of AgcRuntime: one event of each kind, two of them invalid.   *)
EXTENDS AgcRuntime

MCPulses(x, y, z) ==
  [a \in Inertial |-> IF a = \o32 THEN x ELSE IF a = \o33 THEN y ELSE z]
MCEvents == {
  [kind |-> "channel", channel |-> \o15, value |-> 1],
  [kind |-> "channel", channel |-> \o1000, value |-> 1],
  [kind |-> "interrupt", interrupt |-> 3],
  [kind |-> "erasable", cell |-> \o32, value |-> \o40000],
  [kind |-> "erasable", cell |-> \o4000, value |-> 0],
  [kind |-> "imu", pulses |-> MCPulses(32767, -16383, -16384)],
  [kind |-> "radar", range |-> 2, rate |-> 3],
  [kind |-> "key", code |-> \o41] }
MCOutputs == {<<\o34, 1>>, <<\o35, 2>>, <<\o15, 3>>}
MCChannels == {\o15, \o34, \o35}
MCCells == {RateCell, RangeCell} \cup Inertial

=============================================================================
