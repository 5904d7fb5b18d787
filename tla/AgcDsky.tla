------------------------------ MODULE AgcDsky ------------------------------
(***************************************************************************)
(* The display and keyboard: crate agc-dsky.  Key codes, the display that  *)
(* output channels drive, and the readable model of the V37 program change *)
(* that is fed the keys the rope accepts.  All of it is functions of the   *)
(* state they are given; AgcMission holds that state.                      *)
(***************************************************************************)
EXTENDS AgcWord, Sequences

-----------------------------------------------------------------------------
(* Keys and their five-bit codes on channel 015.  PRO is a discrete input: *)
(* its code is that of the digit 0, and no code is decoded to it.          *)
NamedKeys ==
  [Verb |-> \o21, Reset |-> \o22, KeyRelease |-> \o31, Plus |-> \o32, Minus |-> \o33,
   Enter |-> \o34, Clear |-> \o36, Noun |-> \o37]
Digit(d) == [key |-> "Digit", digit |-> d]
Named(k) == [key |-> k, digit |-> 0]
Key == {Digit(d) : d \in 0 .. 9} \cup {Named(k) : k \in DOMAIN NamedKeys \cup {"Proceed"}}

code(k) ==
  IF k.key = "Digit" THEN IF k.digit = 0 THEN \o20 ELSE k.digit
  ELSE IF k.key = "Proceed" THEN \o20 ELSE NamedKeys[k.key]

IsKeyCode(c) == \E k \in Key : code(k) = c
from_code(c) == CHOOSE k \in Key \ {Named("Proceed")} : code(k) = c

-----------------------------------------------------------------------------
(* V37ProgramChange: VERB 3 7 ENTER d d ENTER.  A key out of place is an   *)
(* error and changes nothing.                                              *)
NoProgram == -1
AwaitVerb ==
  [state |-> "AwaitVerb", number |-> 0, accepted_keys |-> 0,
   verb_register |-> NoProgram, program_register |-> NoProgram]

(* Where a key leads: <<before, key, after>>; a digit joins the number.    *)
Transitions ==
  {<<"AwaitVerb", "Verb", "VerbTens">>, <<"VerbTens", "Digit", "VerbOnes">>,
   <<"VerbOnes", "Digit", "VerbEnter">>, <<"VerbEnter", "Enter", "ProgramTens">>,
   <<"ProgramTens", "Digit", "ProgramOnes">>, <<"ProgramOnes", "Digit", "ProgramEnter">>,
   <<"ProgramEnter", "Enter", "Complete">>}
Leads(m, k) == {t \in Transitions : t[1] = m.state /\ t[2] = k.key}

Acceptable(m, c) ==
  /\ IsKeyCode(c)
  /\ Leads(m, from_code(c)) # {}
  /\ m.state = "VerbEnter" => m.number = 37

decimal_pair(tens, ones) == 10 * tens + ones

accept_code(m, c) ==
  LET k == from_code(c)
      after == (CHOOSE t \in Leads(m, k) : TRUE)[3]
  IN  [state |-> after,
       number |-> IF k.key = "Digit"
                  THEN IF m.state \in {"VerbOnes", "ProgramOnes"}
                       THEN decimal_pair(m.number, k.digit) ELSE k.digit
                  ELSE m.number,
       accepted_keys |-> m.accepted_keys + 1,
       verb_register |-> IF after = "ProgramTens" THEN 37 ELSE m.verb_register,
       program_register |-> IF after = "Complete" THEN m.number ELSE m.program_register]

-----------------------------------------------------------------------------
(* The display.  The fifteen register digits are numbered from R1's first. *)
(***************************************************************************)
Blank == 10
SegmentCodes ==
  <<\o25, \o03, \o31, \o33, \o17, \o36, \o34, \o23, \o35, \o37>>
(* Mutant: the code of the segments is shown for the digit.               *)
decode_digit_coded(c) == IF c = 0 THEN Blank ELSE c
decode_digit(c) ==
  IF \E d \in 0 .. 9 : SegmentCodes[d + 1] = c
  THEN CHOOSE d \in 0 .. 9 : SegmentCodes[d + 1] = c ELSE Blank

Positions == 0 .. 14
Pairs == [noun |-> 9, verb |-> 10, program |-> 11]
RelayLamps == [velocity |-> \o4, no_attitude |-> \o10, altitude |-> \o20,
               gimbal_lock |-> \o40, tracker |-> \o100, program_alarm |-> \o200]
WordLamps == [standby |-> \o400, restart |-> \o1000]
ExtendedLamps == [computer_activity |-> \o1, uplink_activity |-> \o2,
                  temperature |-> \o4, key_release |-> \o10, operator_error |-> \o20]
LampNames == DOMAIN RelayLamps \cup DOMAIN WordLamps \cup DOMAIN ExtendedLamps

Dark ==
  [registers |-> [p \in Positions |-> Blank],
   pairs |-> [n \in DOMAIN Pairs |-> <<Blank, Blank>>],
   plus |-> [r \in 0 .. 2 |-> FALSE], minus |-> [r \in 0 .. 2 |-> FALSE],
   lamps |-> {}, flash |-> FALSE, last_relay_word |-> 0, last_lamp_word |-> 0]

Lit(w, bit) == (w \div bit) % 2 = 1
Switched(lamps, bits, w) == (lamps \ DOMAIN bits) \cup {l \in DOMAIN bits : Lit(w, bits[l])}

Relay(w) == w \div \o4000
Upper(w) == decode_digit((w \div \o40) % \o40)
Lower(w) == decode_digit(w % \o40)

(* Mutant: the pairs of digits are numbered from relay 7 on without R1D1.  *)
Linear_unshifted(relay) == 14 - 2 * relay - 1
Linear(relay) == 14 - 2 * relay

write_relay(d, w) ==
  LET r == Relay(w)
      e == [d EXCEPT !.last_relay_word = w]
  IN  IF r \in 1 .. 7
      THEN [e EXCEPT !.registers = [p \in Positions |->
              IF p = Linear(r) + 1 THEN Upper(w)
              ELSE IF p = Linear(r) + 2 THEN Lower(w) ELSE d.registers[p]]]
      ELSE IF r = 8 THEN [e EXCEPT !.registers[0] = Lower(w), !.minus[0] = Lit(w, \o2000)]
      ELSE IF \E n \in DOMAIN Pairs : Pairs[n] = r
      THEN [e EXCEPT !.pairs = [n \in DOMAIN Pairs |->
              IF Pairs[n] = r THEN <<Upper(w), Lower(w)>> ELSE d.pairs[n]]]
      ELSE IF r = 12 THEN [e EXCEPT !.lamps = Switched(d.lamps, RelayLamps, w)] ELSE e

write_lamps(d, w) ==
  [d EXCEPT !.last_lamp_word = w, !.lamps = Switched(@, WordLamps, w),
            !.plus = [r \in 0 .. 2 |-> Lit(w, \o4 * 4^r)],
            !.minus = [r \in 0 .. 2 |-> Lit(w, \o10 * 4^r)]]

write_channel_dsky(d, ch, w) ==
  IF ch = \o10 THEN write_relay(d, w)
  ELSE IF ch = \o11 THEN write_lamps(d, w)
  ELSE IF ch = \o13 THEN [d EXCEPT !.flash = Lit(w, \o1000)]
  ELSE IF ch = \o163 THEN [d EXCEPT !.lamps = Switched(@, ExtendedLamps, w)] ELSE d
=============================================================================
