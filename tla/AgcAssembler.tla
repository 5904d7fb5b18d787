---------------------------- MODULE AgcAssembler ----------------------------
(***************************************************************************)
(* agc-assembler: include expansion into one sequence of records, a first  *)
(* pass that gives every record a location and every label a value, the    *)
(* equates to a fixed point, and a second pass that emits words into the   *)
(* rope.  Any refusal is a diagnostic, and no image comes out with one.    *)
(*                                                                         *)
(* One action per file entered, per line, per record and per round of      *)
(* equates.  A line is a record; its columns are what agc-parser finds.    *)
(* Report data (hashes, references, messages) is left out.                 *)
(***************************************************************************)
EXTENDS AgcSymbols, AgcOverlay

CONSTANTS
  Program,   \* the program that is assembled
  Sources,   \* what may be given: a tree, an overlay and an entry file
  Unstarred  \* the operations that end in stars, each without them

Code == INSTANCE AgcIsa WITH IndexValues <- {}, ComputedTargets <- {}

ROPE_WORDS == 36 * \o2000
NoBank == -1

(* Lines, and the tokens of an operand field.                              *)
Include(path) == [kind |-> "include", path |-> path]
Statement(label, operation, operand) ==
  [kind |-> "statement", label |-> label, operation |-> operation, operand |-> operand]
LabelLine(label) == Statement(label, "", <<>>)
Number(n) == [kind |-> "literal", value |-> n]
Name(name, offset) == [kind |-> "symbol", name |-> name, offset |-> offset]
Other(name) == [kind |-> "other", name |-> name]

(* A line, as the parser gives it: no symbol is without a name.  A token   *)
(* with characters of no number or symbol is one of another kind.          *)
Tokens ==
  [kind : {"literal"}, value : Int]
    \cup [kind : {"symbol"}, name : STRING \ {""}, offset : Int]
    \cup [kind : {"other"}, name : STRING \ {""}]
Statements ==
  [kind : {"statement"}, label : STRING, operation : STRING, operand : Seq(Tokens)]
Paths == Seq(STRING)
Lines == [kind : {"include"}, path : Paths] \cup Statements
Aliases == [original : Paths, replacement : Paths]
Edits == [path : Paths, line : Nat, expected : Lines, replacement : Lines]
ASSUME SourcesAssumption ==
  \A given \in Sources :
    /\ DOMAIN given.tree \subseteq Paths \ {<<>>} /\ IsFiniteSet(DOMAIN given.tree)
    /\ \A path \in DOMAIN given.tree : given.tree[path] \in Seq(Lines)
    /\ given.overlay \in [program : STRING, aliases : Seq(Aliases), edits : Seq(Edits)]

VARIABLES
  source,       \* the tree, the overlay and the entry
  phase,        \* start, expand, assign, equate, emit, done; failed, rejected
  stack,        \* the files being expanded, each with its next line
  cache,        \* the edited text of each file read
  unit_order,   \* the files read, in the order of their first reading
  records,      \* the records of the expanded program
  diagnostics,  \* the errors found, as codes with their record
  symbols,      \* the symbol table
  location,     \* the location counter
  equates,      \* the records of equates not yet resolved
  next,         \* the record at hand in either pass
  image,        \* the words emitted, by physical location
  previous_extend  \* the last record was EXTEND in fixed memory

expansion == <<stack, cache, unit_order, records>>
passes == <<diagnostics, symbols, location, equates, next, image, previous_extend>>
asmvars == <<source, phase, expansion, passes>>

InitAssembler(given) ==
  /\ source = given
  /\ phase = "start"
  /\ stack = <<>> /\ cache = <<>> /\ unit_order = <<>> /\ records = <<>>
  /\ diagnostics = {} /\ symbols = <<>>
  /\ location = Fixed(2, 0)
  /\ equates = <<>> /\ next = 1 /\ image = <<>> /\ previous_extend = FALSE

-----------------------------------------------------------------------------
(* ExpansionState::expand.  A file is read, edited and parsed once; an     *)
(* include of a file that is being expanded, of one that does not exist or *)
(* whose edits do not fit ends the expansion.                              *)
(***************************************************************************)
Expanding(path) == \E i \in DOMAIN stack : stack[i].path = path
Edited(path) == apply_to_source(source.overlay, path, source.tree[path])
Readable(path) ==
  path \in DOMAIN cache \/ (path \in DOMAIN source.tree /\ Edited(path) # Failure)

fail == phase' = "failed" /\ UNCHANGED <<source, expansion, passes>>

Enters(path, below) ==
  /\ stack' = Append(below, [path |-> path, line |-> 1])
  /\ IF path \in DOMAIN cache THEN UNCHANGED <<cache, unit_order>>
     ELSE /\ cache' = [p \in DOMAIN cache \cup {path} |->
                         IF p = path THEN Edited(path) ELSE cache[p]]
          /\ unit_order' = Append(unit_order, path)

(* An overlay is checked when it is loaded, before the expansion.          *)
expand_program ==
  /\ phase = "start"
  /\ IF ValidOverlay(source.overlay) /\ source.overlay.program = Program
        /\ Readable(source.entry)
     THEN /\ phase' = "expand" /\ Enters(source.entry, <<>>)
          /\ UNCHANGED <<source, records, passes>>
     ELSE fail

Top == Last(stack)
AtLine == phase = "expand" /\ stack # <<>> /\ Top.line <= Len(cache[Top.path])
TheLine == cache[Top.path][Top.line]
Below == Append(Front(stack), [Top EXCEPT !.line = @ + 1])

expand_include ==
  /\ AtLine /\ TheLine.kind = "include"
  /\ LET include == resolve_include(source.overlay, TheLine.path)
         path == resolve_relative_include(Top.path, include)
     IN  IF SafePath(include) /\ ~Expanding(path) /\ Readable(path)
         THEN Enters(path, Below) /\ UNCHANGED <<source, phase, records, passes>>
         ELSE fail

(* parse_operand takes the first token of the field for all of it, but     *)
(* keeps the field whole if that is neither a number nor a symbol.         *)
Expression(tokens) == [kind |-> "expression", atoms |-> tokens]
parse_operand(tokens) ==
  IF tokens = <<>> THEN Number(0)
  ELSE IF Head(tokens).kind = "other" THEN Expression(tokens) ELSE Head(tokens)

expand_statement ==
  /\ AtLine /\ TheLine.kind = "statement"
  /\ records' = Append(records,
       [label |-> TheLine.label, operation |-> TheLine.operation,
        operand |-> parse_operand(TheLine.operand),
        bank |-> NoBank, offset |-> 0, word |-> 0])
  /\ stack' = Append(Front(stack), [Top EXCEPT !.line = @ + 1])
  /\ UNCHANGED <<source, phase, cache, unit_order, passes>>

leave_file ==
  /\ phase = "expand" /\ stack # <<>> /\ Top.line > Len(cache[Top.path])
  /\ stack' = Front(stack)
  /\ phase' = IF Len(stack) = 1 THEN "assign" ELSE phase
  /\ UNCHANGED <<source, cache, unit_order, records, passes>>

-----------------------------------------------------------------------------
(* Operands and operations.                                                *)
(***************************************************************************)
(* The values an operand can have: one, or none if a symbol is undefined.  *)
(* An expression is a sum, a difference or one name; of its atoms, no      *)
(* label is spelled like a symbol with an offset.                          *)
Lookup(name, table) == IF name \in DOMAIN table THEN {worth(table[name])} ELSE {}
Atom(token, table) ==
  IF token.kind = "literal" THEN {token.value}
  ELSE IF token.kind = "symbol" /\ token.offset # 0 THEN {} ELSE Lookup(token.name, table)
Sign == [kind : {"symbol"}, name : {"+", "-"}, offset : {0}]
evaluate_expression(atoms, table) ==
  IF Len(atoms) = 3 /\ atoms[2] \in Sign
  THEN {IF atoms[2].name = "+" THEN left + right ELSE left - right :
          left \in Atom(atoms[1], table), right \in Atom(atoms[3], table)}
  ELSE IF Len(atoms) = 1 THEN Atom(atoms[1], table) ELSE {}
Values(operand, table) ==
  IF operand.kind = "literal" THEN {operand.value}
  ELSE IF operand.kind = "symbol" THEN {v + operand.offset : v \in Lookup(operand.name, table)}
  ELSE evaluate_expression(operand.atoms, table)

(* Mnemonic::parse: without trailing stars, in the canonical spelling.     *)
Spelling ==
  [CAF |-> "CA", COM |-> "CS", DCOM |-> "DCS", NDX |-> "INDEX", SQUARE |-> "MP",
   TCR |-> "TC", RETURN |-> "TC", OVSK |-> "TS"]
Bare(operation) == IF operation \in DOMAIN Unstarred THEN Unstarred[operation] ELSE operation
parse(operation) ==
  IF Bare(operation) \in DOMAIN Spelling THEN Spelling[Bare(operation)] ELSE Bare(operation)
ASSUME SpellingAssumption ==
  /\ DOMAIN Unstarred \subseteq STRING
  /\ \A operation \in DOMAIN Unstarred : Unstarred[operation] \notin DOMAIN Unstarred
  /\ DOMAIN Unstarred \cap (Code!Mnemonic \cup DOMAIN Spelling) = {}
IsInstruction(operation) == parse(operation) \in Code!Mnemonic

SingleWords == {"OCT", "ADRES", "REMADR", "ECADR", "FCADR", "CADR", "GENADR",
                "XCADR", "BBCON", "DNCHAN", "VN"}
AddressPairs == {"2CADR", "2BCADR", "1DNADR"}
DoubleNumbers == {"2OCT", "2DEC"}
is_equate(operation) == operation \in {"=", "EQUALS"}

(* How many words a record takes; none if the assembler cannot tell.       *)
emitted_word_count(r) ==
  IF IsInstruction(r.operation) \/ r.operation \in SingleWords \cup {"DEC", "BNKSUM"} THEN 1
  ELSE IF r.operation \in AddressPairs \cup DoubleNumbers THEN 2
  ELSE IF r.operation = "ERASE" /\ r.operand.kind = "literal" /\ r.operand.value >= 0
       THEN r.operand.value + 1
  ELSE 0
Error(code) == {[code |-> code, record |-> next]}

-----------------------------------------------------------------------------
(* Pass one.                                                               *)
(***************************************************************************)
(* Where SETLOC puts the location counter.                                 *)
set_location(a) ==
  IF a < \o2000 THEN Erasable(IF a < \o1400 THEN a \div \o400 ELSE 0, a % \o400)
  ELSE Fixed(IF a < \o4000 THEN 0 ELSE IF a < \o6000 THEN 2 ELSE 3, a % \o2000)

Ignored == {"MEMORY", "COUNT", "SUBRO", "CHECK="}
Refusal == [BANK |-> "AGCA010", BLOCK |-> "AGCA011", SETLOC |-> "AGCA012"]
IsDirective(operation) == operation \in Ignored \cup DOMAIN Refusal

Located(r) ==
  IF r.operation = "BANK" THEN {Fixed(v, 0) : v \in Values(r.operand, symbols) \cap 0 .. 35}
  ELSE IF r.operation = "BLOCK"
       THEN {Erasable(v, 0) : v \in Values(r.operand, symbols) \cap 0 .. 7}
  ELSE {set_location(v) : v \in Values(r.operand, symbols) \cap 0 .. \o7777}

apply_location_directive(r) ==
  /\ IsDirective(r.operation)
  /\ IF r.operation \in Ignored THEN UNCHANGED <<location, diagnostics>>
     ELSE IF Located(r) = {}
     THEN diagnostics' = diagnostics \cup Error(Refusal[r.operation]) /\ UNCHANGED location
     ELSE location' \in Located(r) /\ UNCHANGED diagnostics
  /\ UNCHANGED <<symbols, equates, records>>

BankEnd == IF location.kind = "fixed" THEN \o2000 ELSE \o400
Duplicate(label) == IF Defines(symbols, label) THEN {} ELSE Error("AGCA050")

define_label(r) ==
  /\ r.operation = ""
  /\ symbols' = define(symbols, r.label, location)
  /\ diagnostics' = diagnostics \cup Duplicate(r.label)
  /\ UNCHANGED <<location, equates, records>>

collect_equate(r) ==
  /\ is_equate(r.operation)
  /\ IF r.label = "" THEN diagnostics' = diagnostics \cup Error("AGCA001") /\ UNCHANGED equates
     ELSE equates' = Append(equates, next) /\ UNCHANGED diagnostics
  /\ UNCHANGED <<symbols, location, records>>

refuse_operation(r) ==
  /\ r.operation # "" /\ ~is_equate(r.operation) /\ ~IsDirective(r.operation)
  /\ emitted_word_count(r) = 0
  /\ diagnostics' = diagnostics
       \cup Error(IF r.operation = "ERASE" THEN "AGCA020" ELSE "AGCA021")
  /\ UNCHANGED <<symbols, location, equates, records>>

(* A record that does not fit keeps its location, and the counter stays;   *)
(* what the counter is to move by is cut to sixteen bits first.            *)
Advanced(r) == location.offset + (emitted_word_count(r) % 65536)
place(r) ==
  /\ emitted_word_count(r) > 0
  /\ records' = [records EXCEPT ![next].offset = location.offset,
                   ![next].bank = IF location.kind = "fixed" THEN location.bank ELSE NoBank]
  /\ symbols' = IF r.label = "" THEN symbols ELSE define(symbols, r.label, location)
  /\ diagnostics' = diagnostics \cup (IF r.label = "" THEN {} ELSE Duplicate(r.label))
                      \cup IF Advanced(r) > BankEnd THEN Error("AGCA002") ELSE {}
  /\ location' =
       IF Advanced(r) > BankEnd THEN location ELSE [location EXCEPT !.offset = Advanced(r)]
  /\ UNCHANGED equates

assign ==
  /\ phase = "assign" /\ next <= Len(records)
  /\ LET r == records[next]
     IN  \/ define_label(r) \/ collect_equate(r) \/ apply_location_directive(r)
         \/ refuse_operation(r) \/ place(r)
  /\ next' = next + 1
  /\ UNCHANGED <<source, phase, stack, cache, unit_order, image, previous_extend>>

assigned ==
  /\ phase = "assign" /\ next > Len(records)
  /\ phase' = "equate"
  /\ UNCHANGED <<source, expansion, passes>>

-----------------------------------------------------------------------------
(* Equates.  One round tries every pending equate in order, with what the  *)
(* ones before it have defined; rounds go on while one makes progress.     *)
(***************************************************************************)
EquateValue(v) == IF v \in 0 .. \o77777 THEN Constant(v) ELSE Absolute(v)
Try(s, i) ==
  LET r == records[i] IN
  IF Values(r.operand, s.symbols) = {} THEN [s EXCEPT !.pending = Append(@, i)]
  ELSE LET v == CHOOSE v \in Values(r.operand, s.symbols) : TRUE
       IN  [pending |-> s.pending,
            symbols |-> define(s.symbols, r.label, EquateValue(v)),
            duplicates |-> IF Defines(s.symbols, r.label) THEN s.duplicates
                           ELSE s.duplicates \cup {[code |-> "AGCA050", record |-> i]}]
Round ==
  LET tried[n \in 0 .. Len(equates)] ==
        IF n = 0 THEN [pending |-> <<>>, symbols |-> symbols, duplicates |-> {}]
        ELSE Try(tried[n - 1], equates[n])
  IN  tried[Len(equates)]

resolve_equates ==
  /\ phase = "equate" /\ Round.pending # equates
  /\ equates' = Round.pending /\ symbols' = Round.symbols
  /\ diagnostics' = diagnostics \cup Round.duplicates
  /\ UNCHANGED <<source, phase, expansion, location, next, image, previous_extend>>

equates_resolved ==
  /\ phase = "equate" /\ Round.pending = equates
  /\ diagnostics' = diagnostics \cup {[code |-> "AGCA003", record |-> i] : i \in ToSet(equates)}
  /\ phase' = "emit" /\ next' = 1 /\ equates' = <<>>
  /\ UNCHANGED <<source, expansion, symbols, location, image, previous_extend>>

-----------------------------------------------------------------------------
(* Pass two.                                                               *)
(***************************************************************************)
Emits(words) == [words |-> words, refused |-> {}]
Refuses(code) == [words |-> <<>>, refused |-> Error(code)]

encode(m, k) ==
  IF ~Code!Encodable(m, k, previous_extend) THEN Refuses("AGCA033")
  ELSE Emits(<<Code!encode_with_context(m, k, previous_extend)>>)

emit_instruction(m, values) ==
  IF m \in DOMAIN Code!NoField THEN encode(m, 0)
  ELSE IF values = {} THEN Refuses("AGCA031")
  ELSE IF values \cap Code!Address = {} THEN Refuses("AGCA030")
  ELSE IF Code!is_extended(m) /\ ~previous_extend THEN Refuses("AGCA032")
  ELSE encode(m, CHOOSE v \in values : TRUE)

(* Mutant: the low word comes first.                                       *)
double_words_swapped(v) ==
  LET d == double_from_i64(v) IN <<d.low, d.high>>
double_words(v) ==
  LET d == double_from_i64(v) IN <<d.high, d.low>>

emit_record(r) ==
  LET values == Values(r.operand, symbols)
      Chosen == CHOOSE v \in values : TRUE
      Fits(S, code, unresolved, words(_)) ==
        IF values = {} THEN Refuses(unresolved)
        ELSE IF values \cap S = {} THEN Refuses(code) ELSE Emits(words(Chosen))
      Single(v) == <<v>>
      Signed(v) == <<from_i32(v)>>
      Pair(v) == <<v, 0>>
      Octal(v) == <<(v \div DoubleBase) % DoubleBase, v % DoubleBase>>
  IN  IF IsInstruction(r.operation) THEN emit_instruction(parse(r.operation), values)
      ELSE IF r.operation \in SingleWords THEN Fits(Word, "AGCA040", "AGCA041", Single)
      ELSE IF r.operation \in AddressPairs THEN Fits(Word, "AGCA040", "AGCA041", Pair)
      ELSE IF r.operation = "DEC"
      THEN Fits(-MAX_MAGNITUDE .. MAX_MAGNITUDE, "AGCA042", "AGCA043", Signed)
      ELSE IF r.operation = "2DEC"
      THEN Fits(-MAX_DOUBLE .. MAX_DOUBLE, "AGCA045", "AGCA044", double_words)
      ELSE IF r.operation = "2OCT"
      THEN Fits(0 .. MAX_DOUBLE, "AGCA046", "AGCA044", Octal)
      ELSE Emits([i \in 1 .. emitted_word_count(r) |-> 0])

At(r) == r.bank * \o2000 + r.offset
store(r, words) ==
  LET wanted == {At(r) + i - 1 : i \in DOMAIN words}
      taken == {p \in wanted : p < ROPE_WORDS /\ p \notin DOMAIN image}
  IN  /\ image' = [p \in DOMAIN image \cup taken |->
                     IF p \in taken THEN words[p - At(r) + 1] ELSE image[p]]
      /\ diagnostics' = diagnostics \cup emit_record(r).refused
           \cup (IF \E p \in wanted : p >= ROPE_WORDS THEN Error("AGCA004") ELSE {})
           \cup (IF \E p \in wanted : p \in DOMAIN image THEN Error("AGCA005") ELSE {})
      /\ records' = IF At(r) \in taken THEN [records EXCEPT ![next].word = words[1]]
                    ELSE records

emit ==
  /\ phase = "emit" /\ next <= Len(records)
  /\ LET r == records[next]
     IN  IF r.bank = NoBank
         THEN previous_extend' = FALSE /\ UNCHANGED <<image, diagnostics, records>>
         ELSE store(r, emit_record(r).words) /\ previous_extend' = (r.operation = "EXTEND")
  /\ next' = next + 1
  /\ UNCHANGED <<source, phase, stack, cache, unit_order, symbols, location, equates>>

assembled ==
  /\ phase = "emit" /\ next > Len(records)
  /\ phase' = IF diagnostics = {} THEN "done" ELSE "rejected"
  /\ UNCHANGED <<source, expansion, passes>>

NextAssembler ==
  \/ expand_program \/ expand_include \/ expand_statement \/ leave_file
  \/ assign \/ assigned \/ resolve_equates \/ equates_resolved \/ emit \/ assembled
=============================================================================
