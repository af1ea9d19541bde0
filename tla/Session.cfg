SPECIFICATION Spec
CONSTANTS
  BoolSym = {"MOD", "A", "S", "C", "X", "Y"}
  TriSym = {"T"}
  Modules = "MOD"
  Symbols <- MCSymbols
  Def <- MCDef
  Literals <- MCLiterals
  Node <- MCNode
  conf_read <- ConfRead
  conf_read_simple <- ReadSimple
  conf_write_symbols <- ConfWrite
  conf_write_defconfig <- WriteDefconfig
  conf_set_all_new_symbols <- SetAllNew
  conf_randomize <- SetAllRandom
  menu_is_visible <- MenuIsVisible
  sym_calc_value <- Calc
  sym_clear_all_valid <- ClearAllValid
  sym_set_tristate_value <- SetTristate
  sym_set_string_value <- SetNumber
  sym_toggle_tristate_value <- Toggle
  build_conf <- MenuItems
  Initial <- MCInitial
  Modes = {"oldconfig", "syncconfig", "savedefconfig", "defconfig","randconfig","allmodconfig","listnewconfig","oldaskconfig"}
  LaterModes = {"oldconfig", "syncconfig", "savedefconfig", "defconfig"}
  Answers = {1, 3}
  Entered = {2, 3}
  Draws <- MCDraws
  MaxWork = 4
  MaxFaults = 1
INVARIANTS FilesAreEnough NothingIsLost NoEditIsForgotten AcceptedIsTaken NothingIsNew ChoiceIsExclusive
PROPERTIES ConfEnds ImplementsDirectory
