------------------------------ MODULE LkcProto ------------------------------
(***************************************************************************)
(* What conf and mconf call of the rest of support/kconfig, by the names   *)
(* of lkc_proto.h.  The two programs do not look behind these functions,   *)
(* and neither do their modules: what is proved of them holds whatever the *)
(* functions compute.  KSymbol, KConfdata and KMenuItems say what they do. *)
(*                                                                         *)
(* A function takes the state of the symbols first, and returns the next.  *)
(***************************************************************************)
EXTENDS KState

CONSTANTS
  conf_read(_, _),          \* a file, or NoFile: k, and whether it failed
  conf_read_simple(_, _),   \* only the lines: k, and whether there were warnings
  conf_write_symbols(_, _), \* the loop of conf_write, up to an entry of the menu
                            \* tree: k, and the lines that were written
  conf_write_defconfig(_),  \* k and the lines
  conf_set_all_new_symbols(_, _),
                            \* with "yes", "mod", "no" or "default": k
  conf_randomize(_, _),     \* the same with what rand gives: k, and whether there
                            \* may be more to set (more)
  menu_is_visible(_, _),    \* an entry: k, and the answer (yes)
  sym_calc_value(_, _),     \* a symbol: k
  sym_clear_all_valid(_),
  sym_set_tristate_value(_, _, _),
                            \* a symbol and its value: k, and whether it is taken (ok)
  sym_set_string_value(_, _, _),
  sym_toggle_tristate_value(_, _)

CalcAll(k) == FoldLeft(sym_calc_value, k, Symbols)

\* conf_read without a name: no .config, and no file of defaults either.
ReadConfig(k, file) ==
  [conf_read(k, file) EXCEPT !.k.changed = @ \/ file = NoFile]

=============================================================================
