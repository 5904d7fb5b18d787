--------------------------- MODULE AddressedStore ---------------------------
(***************************************************************************)
(* What the banked memory promises whoever calls it: one store, each       *)
(* physical cell in it once, and calls that answer with the word of the    *)
(* cell they name and disturb that cell alone.  The exceptions are the     *)
(* bank selectors, which move together by their fields; the cells that     *)
(* edit what is stored in them, whose word the store does not foretell;    *)
(* the rope, which only maintenance changes; and the volatile reset, which *)
(* leaves every other cell cleared.                                        *)
(***************************************************************************)
EXTENDS Integers

CONSTANTS
  Cell,       \* every physical cell, each named once
  RopeCell,   \* the read-only ones
  Eb, Fb, Bb, \* the three bank selectors
  Plain,      \* the cells that keep every word as it is stored
  Editing,    \* the cells that an operand read rewrites
  Cleared,    \* what a reset leaves in each cell that is not rope
  Images      \* the ropes that can be loaded

VARIABLES
  store,      \* the word of each cell
  answer      \* the last call: its name, whether it was accepted, the cell it
              \* named, the word it asked to store and the word it returned

Selectors == {Eb, Fb, Bb}
named == answer'.cell
asked == answer'.asked
Accepted(calls) == answer'.ok /\ answer'.call \in calls

(* No cell outside the set holds another word.                             *)
Only(cells) == \A c \in Cell \ cells : store'[c] = store[c]

Init ==
  /\ store \in [Cell -> Nat]
  /\ \A c \in Cell \ RopeCell : store[c] = Cleared[c]
  /\ \E image \in Images : \A c \in RopeCell : store[c] = image[c]

Refuse == ~answer'.ok /\ Only({})

Look ==
  /\ Accepted({"read", "in"})
  /\ named \in Cell /\ answer'.value = store[named]
  /\ Only({})

(* An operand read returns the word as it was before the cell edits it.    *)
Rewrite ==
  /\ Accepted({"edit"})
  /\ named \in Cell /\ answer'.value = store[named]
  /\ Only({named} \cap Editing)

Write ==
  /\ Accepted({"write", "poke", "set", "out"})
  /\ named \in Cell \ (Selectors \cup RopeCell)
  /\ named \in Plain => store'[named] = asked
  /\ answer'.call = "write" => answer'.value = store'[named]
  /\ Only({named})

(* The banks selected: those of the word in the fields of the selector     *)
(* named, and the bank selected before in the field that it does not have. *)
EbSelected ==
  IF named = Eb THEN (asked \div \o400) % \o10
  ELSE IF named = Bb THEN asked % \o10 ELSE store[Eb] \div \o400
FbSelected ==
  IF named \in {Fb, Bb} THEN (asked \div \o2000) % \o40 ELSE store[Fb] \div \o2000

Select ==
  /\ Accepted({"write", "poke", "set"})
  /\ named \in Selectors
  /\ store'[Eb] = EbSelected * \o400
  /\ store'[Fb] = FbSelected * \o2000
  /\ store'[Bb] = FbSelected * \o2000 + EbSelected
  /\ answer'.call = "write" => answer'.value = store'[named]
  /\ Only(Selectors)

Flip ==
  /\ Accepted({"flip"})
  /\ named \in RopeCell /\ answer'.value = store'[named]
  /\ Only({named})

Replace ==
  /\ Accepted({"load"})
  /\ \E image \in Images : \A c \in RopeCell : store'[c] = image[c]
  /\ Only(RopeCell)

Clear ==
  /\ Accepted({"reset"})
  /\ \A c \in Cell \ RopeCell : store'[c] = Cleared[c]
  /\ Only(Cell \ RopeCell)

Next ==
  Refuse \/ Look \/ Rewrite \/ Write \/ Select \/ Flip \/ Replace \/ Clear

Spec == Init /\ [][Next]_<<store, answer>>
=============================================================================
