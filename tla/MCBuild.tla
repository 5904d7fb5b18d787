------------------------------ MODULE MCBuild ------------------------------
(* An instance of AgcBuild: three free lines in front of a library, without *)
(* an overlay or from fewer lines with one that renames or edits a file of  *)
(* the tree, and listings of four banks of two words.                       *)
EXTENDS AgcBuild

Main == <<"MAIN">>
Old == <<"OLD">>
New == <<"NEW">>
Library == <<"LIB", "DATA">>
Beside == <<"MORE">>

S(label, operation, operand) == Statement(label, operation, <<operand>>)
Y == Name("Y", 0)
Free ==
  {S("", "BANK", Number(3)), S("", "SETLOC", Number(\o3776)), S("", "SETLOC", Number(\o6010)),
   S("", "SETLOC", Other("K*")), S("", "BLOCK", Number(1)), LabelLine("X"),
   S("X", "TC", Y), S("Y", "OCT", Number(7)), Statement("", "EXTEND", <<>>), S("", "MP", Y),
   S("K*", "=", Name("X", 1)), S("X", "EQUALS", Name("W", 0)), S("", "TC", Name("X", 0)),
   S("", "TS", Name("Z", 0)), S("", "2DEC", Number(-5)),
   S("", "BZF", Name("Z", 0)), S("", "NDX", Y), S("", "SETLOC", Number(\o3)),
   S("", "STADR", Number(0)), Statement("", "EXTEND*", <<>>),
   Statement("", "2OCT", <<Other("K*"), Name("+", 0), Number(\o50000)>>), Include(Old), Include(Main), Include(Library)}

LibraryText ==
  <<S("", "COUNT", Y), S("", "BANK", Number(34)), Include(Beside), S("Y", "CAF", Name("W", 0))>>
BesideText == <<S("", "2CADR", Y)>>
NewText == <<Statement("", "EXTEND", <<>>), S("", "DCA", Name("Z", 0))>>
Tree(lines) ==
  [p \in {Main, New, Library, <<"LIB", "MORE">>} |->
     IF p = Main THEN <<S("", "BLOCK", Number(1)), S("Z", "ERASE", Number(1)),
                        S("", "BANK", Number(2))>>
                      \o lines \o <<S("", "TCF", Y), S("", "SETLOC", Number(\o4100)),
                                 S("W", "XCH", Name("Z", 0)), Include(Library)>>
     ELSE IF p = New THEN NewText
     ELSE IF p = Library THEN LibraryText ELSE BesideText]

Alias == <<[original |-> Old, replacement |-> New]>>
Edit(path, line, expected, replacement) ==
  <<[path |-> path, line |-> line, expected |-> expected, replacement |-> replacement]>>
Overlays ==
  {[program |-> "LUMINARY", aliases |-> a, edits |-> e] :
     a \in {<<>>, Alias},
     e \in {<<>>, Edit(Library, 4, LibraryText[4], S("Y", "CAF", Y))}}
  \cup {[program |-> "LUMINARY", aliases |-> <<>>,
         edits |-> Edit(Library, 2, LibraryText[4], S("", "BANK", Number(5)))],
        [program |-> "COLOSSUS", aliases |-> <<>>, edits |-> <<>>]}
(* The lines that an alias, an edit or a refused overlay can bear upon: the  *)
(* includes, and those that meet what the edited library defines or refers  *)
(* to.                                                                      *)
Borne ==
  {S("", "BANK", Number(3)), S("X", "TC", Y), S("Y", "OCT", Number(7)),
   Statement("", "EXTEND", <<>>), S("", "MP", Y), S("", "2DEC", Number(-5)),
   Include(Old), Include(Main), Include(Library)}
Plain == [program |-> "LUMINARY", aliases |-> <<>>, edits |-> <<>>]
Cases ==
  {c \in Free \X Free \X Free \X Overlays : c[4] = Plain \/ {c[1], c[2], c[3]} \subseteq Borne}
MCUnstarred == [o \in {"EXTEND*"} |-> "EXTEND"]
MCSources ==
  {[tree |-> Tree(<<c[1], c[2], c[3]>>), overlay |-> c[4], entry |-> Main] : c \in Cases}

(* Two words that make up each checksum, over the end-around carry too.    *)
MCWordCards ==
  [b \in 0 .. 3 |-> IF b = 0 THEN {0, \o20000, \o57777}
                    ELSE IF b = 1 THEN {0, \o20000, \o77776}
                    ELSE IF b = 2 THEN {3, \o77776} ELSE {0, 3, \o77774}]
=============================================================================
