----------------------------- MODULE AgcOverlay -----------------------------
(***************************************************************************)
(* agc-overlay: include aliases and exact line edits laid over historical  *)
(* source, in memory (apply_to_source, resolve_include) or on a staged     *)
(* copy of the tree (materialize).  A path is a sequence of components, a  *)
(* text a sequence of lines, a tree a function from paths to texts.        *)
(***************************************************************************)
EXTENDS Naturals, SequencesExt

Parent == ".."
Failure == <<[kind |-> "failure"]>>

(* validate_relative_agc_path, and the path an include names: it is taken  *)
(* from the directory of the file that includes it.                        *)
SafePath(path) == path # <<>> /\ Parent \notin ToSet(path)
resolve_relative_include(containing, include) == Front(containing) \o include

(* Overlay::validate, for the schema, the commit and the evidence given.   *)
ValidOverlay(overlay) ==
  /\ \A alias \in ToSet(overlay.aliases) :
       SafePath(alias.original) /\ SafePath(alias.replacement)
       /\ alias.original # alias.replacement
  /\ \A i, j \in DOMAIN overlay.aliases :
       overlay.aliases[i].original = overlay.aliases[j].original => i = j
  /\ \A edit \in ToSet(overlay.edits) :
       SafePath(edit.path) /\ edit.line > 0 /\ edit.expected # edit.replacement
  /\ \A i, j \in DOMAIN overlay.edits :
       (overlay.edits[i].path = overlay.edits[j].path
          /\ overlay.edits[i].line = overlay.edits[j].line) => i = j

resolve_include(overlay, include) ==
  IF \E alias \in ToSet(overlay.aliases) : alias.original = include
  THEN (CHOOSE alias \in ToSet(overlay.aliases) : alias.original = include).replacement
  ELSE include

(* Every edit of the file has to find the line it expects.                 *)
EditsOf(overlay, path) == {edit \in ToSet(overlay.edits) : edit.path = path}
apply_to_source(overlay, path, text) ==
  IF \E edit \in EditsOf(overlay, path) :
       edit.line \notin DOMAIN text \/ text[edit.line] # edit.expected
  THEN Failure
  ELSE [i \in DOMAIN text |->
          IF \E edit \in EditsOf(overlay, path) : edit.line = i
          THEN (CHOOSE edit \in EditsOf(overlay, path) : edit.line = i).replacement
          ELSE text[i]]

Verified(overlay, tree) ==
  /\ \A alias \in ToSet(overlay.aliases) :
       alias.original \notin DOMAIN tree /\ alias.replacement \in DOMAIN tree
  /\ \A edit \in ToSet(overlay.edits) :
       edit.path \in DOMAIN tree
       /\ apply_to_source(overlay, edit.path, tree[edit.path]) # Failure

(* The staged tree: a copy, with a file under each alias's original name,  *)
(* and then the edits, which name files by their paths.  Mutant: the       *)
(* edits are checked and not written.                                      *)
materialize_unedited(overlay, tree) ==
  [path \in DOMAIN tree \cup {alias.original : alias \in ToSet(overlay.aliases)} |->
     IF path \in DOMAIN tree THEN tree[path] ELSE tree[resolve_include(overlay, path)]]
materialize(overlay, tree) ==
  [path \in DOMAIN tree \cup {alias.original : alias \in ToSet(overlay.aliases)} |->
     IF path \in DOMAIN tree THEN apply_to_source(overlay, path, tree[path])
     ELSE tree[resolve_include(overlay, path)]]
=============================================================================
