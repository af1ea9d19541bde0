------------------------------- MODULE KMconf -------------------------------
(***************************************************************************)
(* make menuconfig: support/kconfig/mconf.c.  A user walks through the     *)
(* menus and sets values, loads and saves files, and leaves, or presses    *)
(* Ctrl-C anywhere, while conf_write work too.  What a dialog does until   *)
(* it returns is one step.  MENUCONFIG_MODE=single_menu, the search and    *)
(* the help texts are left out: they set nothing.                          *)
(***************************************************************************)
EXTENDS KFiles

CONSTANTS
  Entered,    \* the numbers that a user may enter
  build_conf(_, _, _)
              \* the items of a menu, if all options are shown, or only the visible
              \* ones: k, and a tag and an entry for each

VARIABLES
  menus,        \* the menus around the one that is shown, and itself
  filename,     \* where Save and the end of the program write to
  show_all_options,
  failedLoad,   \* whether a file to load was not there
  accepted      \* the symbol that was set last, and to what, or <<>>

mconfvars == <<menus, filename, show_all_options, failedLoad, accepted>>

MconfInit ==
  /\ menus = <<Root>> /\ filename = "config" /\ show_all_options = FALSE
  /\ failedLoad = FALSE /\ accepted = <<>>
MconfReset ==
  /\ menus' = <<Root>> /\ filename' = "config" /\ show_all_options' = FALSE
  /\ failedLoad' = FALSE /\ accepted' = <<>>

-----------------------------------------------------------------------------
(* The items of the menu that is shown.                                    *)

Built == build_conf(k, Last(menus), show_all_options)
EntriesOf(b, tag) == {n \in DOMAIN Node : <<tag, n>> \in Range(b.items)}

-----------------------------------------------------------------------------
(* The menus.                                                              *)

StartMconf ==
  /\ Start /\ mode' = "mconf" /\ pc' = "menu"
  /\ k' = ReadConfig(NewState, file["config"]).k
  /\ MconfReset

EnterMenu(b) ==
  /\ \E n \in EntriesOf(b, "m") \cup {m \in EntriesOf(b, "t") : Node[m].prompt = "MENU"} :
       menus' = Append(menus, n)
  /\ k' = b.k
  /\ UNCHANGED <<show_all_options, accepted>>

ShowAll(b) ==
  /\ show_all_options' = ~show_all_options
  /\ k' = b.k
  /\ UNCHANGED <<menus, accepted>>

\* Y sets to m what cannot be y.
Tries(key) == CASE key = "y" -> <<2, 1>> [] key = "n" -> <<0>> [] key = "m" -> <<1>>
SetFirst(u, s, ts) ==
  FoldLeft(LAMBDA acc, t : IF acc.ok THEN acc ELSE sym_set_tristate_value(u, s, t), [k |-> u, ok |-> FALSE], ts)

\* Y, N and M.
SetItem(b) ==
  /\ \E n \in EntriesOf(b, "t"), key \in {"y", "n", "m"} :
       LET s == Node[n].sym
       IN  \E r \in {SetFirst(b.k, s, Tries(key))} :
             /\ k' = r.k
             /\ accepted' = IF r.ok THEN <<s, r.k.sym[s].def.tri>> ELSE <<>>
  /\ UNCHANGED <<menus, show_all_options>>

\* The space bar.
ToggleItem(b) ==
  /\ \E n \in EntriesOf(b, "t") : k' = sym_toggle_tristate_value(b.k, Node[n].sym)
  /\ accepted' = <<>>
  /\ UNCHANGED <<menus, show_all_options>>

\* The list of a choice (conf_choice), in which one value is picked.
ShownValues(u, n) ==
  FoldLeft(LAMBDA a, m :
             LET v == menu_is_visible(a.k, m)
             IN  [k |-> v.k,
                  syms |-> IF v.yes /\ Node[m].sym # None THEN a.syms \cup {Node[m].sym} ELSE a.syms],
           [k |-> u, syms |-> {}], Node[n].list)
PickValue(b) ==
  /\ \E n \in {m \in EntriesOf(b, "t") : IsChoice(Node[m].sym)} :
       /\ b.k.sym[Node[n].sym].tri = 2
       /\ \E shown \in {ShownValues(b.k, n)} : \E s \in shown.syms :
            \E r \in {sym_set_tristate_value(shown.k, s, 2)} :
              k' = r.k /\ accepted' = IF r.ok THEN <<s, 2>> ELSE <<>>
  /\ UNCHANGED <<menus, show_all_options>>

\* The field for a number (conf_string).  What is invalid is asked for again.
EnterNumber(b) ==
  /\ \E n \in EntriesOf(b, "s"), v \in Entered : k' = sym_set_string_value(b.k, Node[n].sym, v).k
  /\ accepted' = <<>>
  /\ UNCHANGED <<menus, show_all_options>>

\* A key in the list of items; the menu is built again afterwards.
Key(b) ==
  /\ Work(1)
  /\ \/ EnterMenu(b) \/ ShowAll(b) \/ SetItem(b) \/ ToggleItem(b) \/ PickValue(b) \/ EnterNumber(b)
  /\ UNCHANGED <<mode, pc, write, again, directory, faults, filename, failedLoad>>

LoadFile(b) ==
  /\ Work(1)
  /\ \E name \in ConfigNames : \E r \in {conf_read(b.k, file[name])} :
       /\ k' = IF r.failed THEN r.k ELSE [r.k EXCEPT !.changed = TRUE]
       /\ filename' = IF r.failed THEN filename ELSE name
       /\ failedLoad' = r.failed
  /\ accepted' = <<>>
  /\ UNCHANGED <<mode, pc, write, again, directory, faults, menus, show_all_options>>

SaveFile(b) ==
  /\ Work(1)
  /\ \E name \in ConfigNames : CallWrite(name, "saved", "menu")
  /\ k' = b.k
  /\ UNCHANGED <<mode, again, directory, faults, menus, filename, show_all_options, failedLoad, accepted>>

Saved ==
  /\ pc = "saved" /\ pc' = "menu"
  /\ filename' = write.name
  /\ UNCHANGED <<mode, k, write, again, directory, work, faults, menus, show_all_options, failedLoad, accepted>>

-----------------------------------------------------------------------------
(* Leaving.                                                                *)

LeaveMenu(b) ==
  /\ Len(menus) > 1
  /\ menus' = Front(menus)
  /\ k' = b.k
  /\ accepted' = <<>>
  /\ UNCHANGED <<mode, pc, write, again, directory, work, faults, filename, show_all_options, failedLoad>>

\* handle_exit: the user is only asked if there are changes.
HandleExit(u, question) ==
  k' = u /\ pc' = (IF u.changed THEN question ELSE "exit") /\ UNCHANGED write

Leave(b) ==
  /\ Len(menus) = 1
  /\ HandleExit(b.k, "asked")
  /\ accepted' = <<>>
  /\ UNCHANGED <<mode, again, directory, work, faults, menus, filename, show_all_options, failedLoad>>

Asked == pc \in {"asked", "asked by signal"}

AnswerYes ==
  /\ Asked
  /\ CallWrite(filename, "exit", "exit")
  /\ UNCHANGED <<mode, k, again, directory, work, faults, mconfvars>>

AnswerNo ==
  /\ Asked /\ pc' = "exit"
  /\ UNCHANGED <<mode, k, write, again, directory, work, faults, mconfvars>>

\* Escape leads back, but not from the handler of the signal.
AnswerEscape ==
  /\ Asked
  /\ pc' = IF pc = "asked" THEN "menu" ELSE "exit"
  /\ UNCHANGED <<mode, k, write, again, directory, work, faults, mconfvars>>

\* SIGINT: the handler is handle_exit, wherever the program is.
InterruptMenu(b) ==
  /\ HandleExit(b.k, "asked by signal")
  /\ UNCHANGED <<mode, again, directory, work, faults, mconfvars>>

\* While the first entries have been written, or later in conf_write.
InterruptWrite ==
  /\ \/ /\ pc = "write"
        /\ \E last \in 0..Len(Entries) :
             HandleExit(conf_write_symbols(k, last).k,
                        "asked by signal")
     \/ /\ pc \in {"rename old", "rename new", "written"}
        /\ HandleExit(k, "asked by signal")
  /\ mode = "mconf" /\ faults < MaxFaults /\ faults' = faults + 1
  /\ again' = TRUE
  /\ UNCHANGED <<mode, directory, work, mconfvars>>

\* While a menu is shown.
InMenu ==
  /\ pc = "menu"
  /\ \E b \in {Built} :
       Key(b) \/ LoadFile(b) \/ SaveFile(b) \/ LeaveMenu(b) \/ Leave(b) \/ InterruptMenu(b)

MconfStep ==
  \/ InMenu \/ Saved \/ AnswerYes \/ AnswerNo \/ AnswerEscape \/ InterruptWrite

-----------------------------------------------------------------------------

\* A value that was accepted is the value the symbol gets when all values are
\* calculated again, although setting it may change what it depends on, what
\* selects it, and which value of its choice is taken (symbol.c:511-566, 304-498).
AcceptedIsTaken ==
  accepted # <<>> => sym_calc_value(k, accepted[1]).sym[accepted[1]].tri = accepted[2]

\* If the end of the program would not ask, the file has what is in memory: no
\* edit is forgotten (mconf.c:955-1000).  Not if a file to load was missing:
\* conf_read says that nothing has changed before it looks for the file.
NoEditIsForgotten ==
  pc = "menu" /\ ~k.changed /\ ~failedLoad /\ ~again =>
    ValuesOf(ReadBack(file[filename])) = ValuesOf(k)

=============================================================================
