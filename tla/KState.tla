------------------------------- MODULE KState -------------------------------
(***************************************************************************)
(* What the configuration programs of support/kconfig have in memory: the  *)
(* symbols and the menu tree (expr.h, lkc.h).                              *)
(*                                                                         *)
(* The definitions of the symbols and the tree are constants: they do not  *)
(* change once the Config.in files are read.  The state k of the symbols:  *)
(*   k.sym[s]   flags; tri and val of curr; def, which is the tri and val  *)
(*              the user gave; visible, dir, rev and implied;              *)
(*   k.modules  modules_val;                                               *)
(*   k.changed  whether sym_change_count is not zero.                      *)
(* SYMBOL_CHANGED only tells a front end what to draw again: it is left    *)
(* out.                                                                    *)
(***************************************************************************)
EXTENDS Integers, Sequences, SequencesExt

CONSTANTS
  Symbols,   \* all symbols, in the order of the hash table: a sequence
  Def,       \* what menu_finalize left of their definitions, a function of them:
             \* type; whether the symbol is never written (SYMBOL_AUTO) or a
             \* choice that may be n (SYMBOL_OPTIONAL); the conditions of its
             \* prompts; its defaults and ranges, with their conditions; its
             \* three dependencies; its choice, or None; and a choice's values
  Node       \* the menu tree, a function of its entries: sym (or None), prompt (its
             \* type, or None), cond, visibility, and list, the entries below

ASSUME SymbolsAreDefined == Symbols \in Seq(DOMAIN Def)

None == "none"
Empty == -1     \* the empty string, which counts as 0

IsChoice(s) == Def[s].values # <<>>
IsChoiceVal(s) == Def[s].choice # None
Has(k, s, f) == f \in k.sym[s].flags
Raise(k, s, f) == [k EXCEPT !.sym[s].flags = @ \cup {f}]
Lower(k, s, fs) == [k EXCEPT !.sym[s].flags = @ \ fs]
HasValue(k, s) == Has(k, s, "DEF_USER")

NewSymbol(s) ==
  [flags |-> {}, tri |-> 0, val |-> IF Def[s].type = "int" THEN Empty ELSE None,
   def |-> [tri |-> 0, val |-> IF Def[s].type = "int" THEN Empty ELSE None],
   visible |-> 0, dir |-> 0, rev |-> 0, implied |-> 0]
NewState == [sym |-> [s \in Range(Symbols) |-> NewSymbol(s)], modules |-> 0, changed |-> FALSE]

StringValue(k, s) == IF Def[s].type = "int" THEN k.sym[s].val ELSE k.sym[s].tri
IsUnset(k, s) == Def[s].type # "int" /\ k.sym[s].tri = 0
Changable(k, s) == k.sym[s].visible > k.sym[s].rev

\* The line of a symbol in a file.  A file may also name symbols that exist no more.
kconfig_print_symbol(k, s) == <<s, StringValue(k, s)>>
Known(s) == s \in Range(Symbols)
NoFile == <<<<"no file", 0>>>>

-----------------------------------------------------------------------------
(* The menu tree.                                                          *)

Root == "root"

\* All entries below n, in the order of the tree.
Below[n \in DOMAIN Node] ==
  FlattenSeq([i \in DOMAIN Node[n].list |-> <<Node[n].list[i]>> \o Below[Node[n].list[i]]])
Entries == Below[Root]

\* The menu that n is in, or n itself.
ParentOf(n) == CHOOSE p \in DOMAIN Node : n \in Range(Node[p].list)
ParentMenu[n \in DOMAIN Node] ==
  IF n = Root \/ Node[n].prompt = "MENU" THEN n ELSE ParentMenu[ParentOf(n)]

=============================================================================
