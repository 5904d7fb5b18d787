---------------------------- MODULE MemoryStore ----------------------------
(***************************************************************************)
(* AgcMemory implements AddressedStore: the refinement mapping.            *)
(***************************************************************************)
EXTENDS AgcMemory

GeneralCells == {erasableAt(c[1], c[2]) : c \in ErasableCells}
RopeNames == {fixedAt(c[1], c[2]) : c \in RopeCells}
ChannelNames == {channelAt(ch) : ch \in Channels \ {L, Q}}
StoreCells ==
  {register(i) : i \in SpecialIndex} \cup {p \in GeneralCells : ~IsSpecial(p)}
    \cup RopeNames \cup ChannelNames
Contents ==
  [p \in StoreCells |->
     IF p.region = "channel" THEN channels[p.offset] ELSE read_physical(p)]

(* A register has its one name whether it was reached as a register, as a  *)
(* cell of erasable bank 0 or as channel 1 or 2.                           *)
Named(p) ==
  IF IsSpecial(p) \/ (p.region = "channel" /\ p.offset \in {L, Q})
  THEN register(p.offset) ELSE p
(* The last call and its answer, as the caller sees the store.             *)
Answer == [result EXCEPT !.cell = Named(result.cell)]

(* The counters, the general cells and the channels but 7 mask and edit    *)
(* nothing.                                                                *)
PlainCells ==
  {register(i) : i \in \o24 .. \o60} \cup {p \in GeneralCells : ~IsSpecial(p)}
    \cup (ChannelNames \ {channelAt(7)})
ClearedCells ==
  [p \in StoreCells \ RopeNames |->
     IF p.region = "channel" THEN InputChannels[p.offset] ELSE 0]
RopeImages == {[p \in RopeNames |-> rope[<<p.bank, p.offset>>]] : rope \in Ropes}

(* Seen by its callers the memory is one store: whatever name reaches a    *)
(* cell, a call returns that cell's word, stores in that cell the word it  *)
(* was given and disturbs no other; the selectors alone move together, and *)
(* a reset leaves every cell cleared (the aliases of translate, read_,     *)
(* write_special, write_channel and the physical accesses).                *)
Store == INSTANCE AddressedStore WITH
  Cell <- StoreCells, RopeCell <- RopeNames,
  Eb <- register(EB), Fb <- register(FB), Bb <- register(BB),
  Plain <- PlainCells, Editing <- {register(i) : i \in EditingIndex},
  Cleared <- ClearedCells,
  Images <- RopeImages,
  store <- Contents, answer <- Answer
ImplementsStore == Store!Spec
=============================================================================
