------------------------------ MODULE AgcBuild ------------------------------
(***************************************************************************)
(* The three ways to a rope (agc-assembler's native, reference and         *)
(* binsource routes), the loader that reads it back and the memory that    *)
(* runs it.  One build takes one route; yaYUL, the assembler behind the    *)
(* reference route, is external and may answer anything.                   *)
(***************************************************************************)
EXTENDS AgcAssembler, AgcBinsource

VARIABLES
  route,   \* native, reference or binsource
  staged,  \* the tree given to yaYUL, none before
  report   \* what became of the reference route

vars == <<asmvars, binvars, route, staged, report>>
NoTree == <<>>

Init ==
  /\ \/ route \in {"native", "reference"} /\ \E given \in Sources : InitAssembler(given)
     \/ route = "binsource" /\ InitAssembler(CHOOSE given \in Sources : TRUE)
  /\ InitBinsource
  /\ staged = NoTree /\ report = "none"

-----------------------------------------------------------------------------
(* assemble_reference: the tree is staged with the overlay on it, yaYUL    *)
(* runs there, and its rope is taken if it exits well, reports nothing     *)
(* and writes a rope of the right size that is not nearly empty.           *)
(***************************************************************************)
Stageable ==
  /\ ValidOverlay(source.overlay) /\ source.overlay.program = Program
  /\ SafePath(source.entry) /\ Verified(source.overlay, source.tree)
  /\ source.entry \in DOMAIN materialize(source.overlay, source.tree)

stage ==
  /\ route = "reference" /\ report = "none" /\ staged = NoTree
  /\ IF Stageable
     THEN staged' = materialize(source.overlay, source.tree) /\ UNCHANGED report
     ELSE report' = "failed" /\ UNCHANGED staged
  /\ UNCHANGED <<asmvars, binvars, route>>

run_reference ==
  /\ route = "reference" /\ report = "none" /\ staged # NoTree
  /\ \E exits, clean, sized, populated \in BOOLEAN :
       report' = IF exits /\ clean /\ sized /\ populated THEN "accepted" ELSE "failed"
  /\ UNCHANGED <<asmvars, binvars, route, staged>>

Next ==
  \/ route = "native" /\ NextAssembler /\ UNCHANGED <<binvars, route, staged, report>>
  \/ route = "binsource" /\ NextBinsource /\ UNCHANGED <<asmvars, route, staged, report>>
  \/ stage \/ run_reference
Spec == Init /\ [][Next]_vars

-----------------------------------------------------------------------------
(* An accepted image holds the words of the records that were given a      *)
(* place in fixed memory, each where it was placed and no two in one       *)
(* place, whatever banks were left and taken up again.  The words of data  *)
(* read back as the value of the operand; the word of an instruction is    *)
(* decoded, in the context that the source gives it, as the instruction    *)
(* with its operand; and an extracode stands behind an EXTEND in memory,   *)
(* not only in the source.  Left out: a basic instruction behind an        *)
(* EXTEND, or anything behind one with a star, which the assembler takes   *)
(* (InContext); a TC or an INDEX on a register whose address makes it      *)
(* another instruction (Reserved); and a branch to erasable memory, which  *)
(* no diagnostic refuses, has the code of another instruction (Issued).    *)
Placed == {i \in DOMAIN records : records[i].bank # NoBank}
Extent(r) == {At(r) + i : i \in 0 .. emitted_word_count(r) - 1}
IsExtracode(r) == IsInstruction(r.operation) /\ Code!is_extended(parse(r.operation))
BranchCodes == [BZF |-> "DV", BZMF |-> "SU", TCF |-> "CCS"]
Issued(m, k) == IF k < \o2000 /\ m \in DOMAIN BranchCodes THEN BranchCodes[m] ELSE m

(* Record i stands behind an EXTEND, and is one that should.               *)
BehindExtend(i) ==
  i > 1 /\ parse(records[i - 1].operation) = "EXTEND" /\ records[i - 1].bank # NoBank
Prefixed(i) == i > 1 /\ records[i - 1].operation = "EXTEND" /\ records[i - 1].bank # NoBank
InContext(i) ==
  BehindExtend(i) =>
    Prefixed(i) /\ (IsExtracode(records[i]) \/ parse(records[i].operation) = "INDEX")
Reserved(i, k) ==
  \/ parse(records[i].operation) = "TC" /\ k \in {3, 4, 6}
  \/ parse(records[i].operation) = "INDEX" /\ ~Prefixed(i) /\ k = \o17

WordsOf(r) == [k \in 1 .. emitted_word_count(r) |-> image[At(r) + k - 1]]
InstructionHeld(i) ==
  LET r == records[i]
      m == parse(r.operation)
      operands == IF m \in DOMAIN Code!NoField THEN {0} ELSE Values(r.operand, symbols)
  IN  InContext(i) =>
        \E k \in operands :
          Reserved(i, k) \/ Code!decode(image[At(r)], Prefixed(i)) = Code!op(Issued(m, k), k)
DataHeld(r, words) ==
  LET values == Values(r.operand, symbols)
      signed(k) == to_i32_lossy_zero(words[k])
  IN  /\ r.operation \in SingleWords \cup AddressPairs => values = {words[1]}
      /\ r.operation \in AddressPairs => words[2] = 0
      /\ r.operation = "DEC" => values = {signed(1)}
      /\ r.operation = "2DEC" => values = {signed(1) * DoubleBase + signed(2)}
      /\ r.operation = "2OCT" => values = {words[1] * DoubleBase + words[2]}
      /\ r.operation \in {"ERASE", "BNKSUM"} => \A k \in DOMAIN words : words[k] = 0
ImageIsRecords ==
  phase = "done" =>
    /\ DOMAIN image = UNION {Extent(records[i]) : i \in Placed}
    /\ \A i, j \in Placed : i # j => Extent(records[i]) \cap Extent(records[j]) = {}
    /\ \A i \in Placed :
         IF IsInstruction(records[i].operation) THEN InstructionHeld(i)
         ELSE DataHeld(records[i], WordsOf(records[i]))
    /\ \A i \in Placed : IsExtracode(records[i]) =>
         /\ At(records[i]) - 1 \in DOMAIN image
         /\ Code!decode(image[At(records[i]) - 1], FALSE).mnemonic = "EXTEND"

(* The processor that runs the image finds what the source names: with     *)
(* the bank of a label selected, the operand of an instruction on it is    *)
(* translated by the memory to the cell that the label's record was given, *)
(* in the second pass or in the first.  Left out: a label behind the last  *)
(* word of a bank, whose address is the bank's first one (Window), and the *)
(* instructions that ImageIsRecords leaves out.                            *)
SelectedBy(v) ==
  [r \in 0 .. \o60 |->
     IF r = 4 /\ v.kind = "fixed" THEN (IF v.bank < 32 THEN v.bank ELSE v.bank - 8) * \o2000
     ELSE IF r = 3 /\ v.kind = "erasable" THEN v.bank * \o400 ELSE 0]
Memory(v) == INSTANCE AgcMemory
  WITH central <- SelectedBy(v), superbank <- (v.kind = "fixed" /\ v.bank >= 32),
       erasable <- <<>>, fixed <- <<>>, channels <- <<>>, result <- <<>>,
       Words <- {}, RawRegisters <- {}, Addresses <- {}, Offsets <- {}, FixedOffsets <- {},
       Ropes <- {}, PhysicalCells <- {}, FlippedCells <- {}, Channels <- {}
InItsBank(v) ==
  /\ v.kind \in {"fixed", "erasable"}
  /\ v.offset < IF v.kind = "fixed" THEN \o2000 ELSE \o400
(* The first words of erasable bank 0 are the registers.                   *)
Named(v) ==
  [region |-> IF v.kind = "erasable" /\ v.bank = 0 /\ v.offset <= \o60 THEN "register" ELSE v.kind,
   bank |-> v.bank, offset |-> v.offset]
Doubles == {"DAS", "DCA", "DCS", "DXCH"}
OnLabel(r) ==
  /\ r.bank # NoBank /\ IsInstruction(r.operation) /\ r.operand.kind = "symbol"
  /\ r.operand.offset = 0 /\ parse(r.operation) \notin DOMAIN Code!NoField
ReferencesReach ==
  phase = "done" =>
    \A i \in DOMAIN records : OnLabel(records[i]) =>
      LET v == symbols[records[i].operand.name]
          operand == Code!decode(records[i].word, Prefixed(i)).operand
      IN  /\ InItsBank(v) /\ InContext(i) /\ ~Reserved(i, logical_address(v)) =>
               Memory(v)!translate(operand) = Named(v)
          /\ \A j \in Placed : records[j].label = records[i].operand.name =>
               At(records[j]) = v.bank * \o2000 + v.offset

(* What the doubles of the processor ask of an assembler: the address in   *)
(* the word is that of the pair's second cell (agc-cpu takes it as         *)
(* incremented), so that the pair starts at the label.                     *)
PairsStartAtLabel ==
  phase = "done" =>
    \A i \in DOMAIN records :
      OnLabel(records[i]) /\ parse(records[i].operation) \in Doubles =>
        LET v == symbols[records[i].operand.name] IN
        InItsBank(v) =>
          Code!decode(records[i].word, IsExtracode(records[i])).operand
            = logical_address(v) + 1

-----------------------------------------------------------------------------
(* The text an assembler reads from a tree, following includes; a path that *)
(* leaves the tree or is not in it leads nowhere.                          *)
Included(overlay, path, line) ==
  resolve_relative_include(path, resolve_include(overlay, line.path))
Follow(tree, overlay, path, line, text) ==
  IF line.kind # "include" THEN <<line>>
  ELSE IF SafePath(resolve_include(overlay, line.path))
            /\ Included(overlay, path, line) \in DOMAIN tree
       THEN text[Included(overlay, path, line)]
  ELSE Failure
Reads(tree, overlay, entry, depth) ==
  LET text[d \in 0 .. depth] ==
        [path \in DOMAIN tree |->
           IF d = 0 THEN Failure
           ELSE FlattenSeq([i \in DOMAIN tree[path] |->
                              Follow(tree, overlay, path, tree[path][i], text[d - 1])])]
  IN  IF entry \in DOMAIN tree THEN text[depth][entry] ELSE Failure
EditedTree == [p \in DOMAIN source.tree |-> Edited(p)]
Unaliased == [source.overlay EXCEPT !.aliases = <<>>]
Depth == Cardinality(DOMAIN source.tree) + 1
Text(tree, overlay) == Reads(tree, overlay, source.entry, Depth)
Lowered(text) ==
  [i \in DOMAIN text |-> <<text[i].label, text[i].operation, parse_operand(text[i].operand)>>]
Expanded == phase \in {"assign", "equate", "emit", "done", "rejected"}

(* Both routes assemble one program.  The native one expands its includes  *)
(* in place, each as often as it is named, with the aliases and edits in   *)
(* memory; the staged tree, read without the overlay, is the same text.    *)
(* Two kinds of overlays are left out, for which it is not.  An alias file *)
(* is copied before the edits, which go by path: a file with edits that is *)
(* also a replacement differs.  And it is copied to its place below the    *)
(* root, where an include in a file of another directory does not look, or *)
(* where an entry is found that the tree does not have.                    *)
EditsAnAlias ==
  \E edit \in ToSet(source.overlay.edits), alias \in ToSet(source.overlay.aliases) :
    edit.path = alias.replacement
AliasesElsewhere ==
  \/ source.entry \notin DOMAIN source.tree
  \/ \E alias \in ToSet(source.overlay.aliases) :
       Len(alias.original) > 1 \/ Len(alias.replacement) > 1
  \/ \E path \in DOMAIN source.tree : \E line \in ToSet(Edited(path)) :
       /\ Len(path) > 1 /\ line.kind = "include"
       /\ resolve_include(source.overlay, line.path) # line.path
RoutesAgree ==
  /\ Expanded =>
       [i \in DOMAIN records |->
          <<records[i].label, records[i].operation, records[i].operand>>]
         = Lowered(Text(EditedTree, source.overlay))
  /\ staged # NoTree /\ ~EditsAnAlias /\ ~AliasesElsewhere =>
       Text(staged, Unaliased) = Text(EditedTree, source.overlay)

-----------------------------------------------------------------------------
(* A listing that was accepted is the rope that the loader reads back, and *)
(* no other listing that differs from it in one word would have been       *)
(* accepted, unless the change is one the checksum cannot see: a multiple  *)
(* of 2^14 - 1, or one that turns the sum from the bank's number into its  *)
(* complement.                                                             *)
Replaced(b, i, w) == [banks EXCEPT ![b] = [@ EXCEPT ![i] = w]]
Unseen(b, change) ==
  \E turn \in {-2 * b, 0, 2 * b} : (change - turn) % MAX_MAGNITUDE = 0
ListingCertified ==
  verdict = "accepted" =>
    /\ Loader!Decodable(rope, "Yayul")
    /\ Loader!decode_bytes(rope, "Yayul") = InOrder(banks)
    /\ \A b \in DOMAIN banks : \A i \in DOMAIN banks[b] : \A w \in UNION Range(WordCards) :
         Accepts(Replaced(b, i, w)) =>
           Unseen(b, to_i32_lossy_zero(w) - to_i32_lossy_zero(banks[b][i]))
=============================================================================
