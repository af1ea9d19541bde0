------------------------------- MODULE KConf -------------------------------
(***************************************************************************)
(* support/kconfig/conf.c: the program behind make oldconfig, syncconfig,  *)
(* defconfig and their like.  It walks through the menu tree and asks for  *)
(* what has no value yet.  conf and check_conf call each other: todo is    *)
(* what is left on their stack, and one step is what they do up to the     *)
(* next call or question.  --syncconfig also writes the files that make    *)
(* and the sources include, and touches a stamp for every symbol that      *)
(* changed (conf_write_autoconf).                                          *)
(***************************************************************************)
EXTENDS KFiles

CONSTANTS
  Modes,       \* the modes that are run
  LaterModes,  \* bound: those of them that are run after another program
  Answers,     \* the numbers that a user answers with
  Draws        \* what rand may give: records of values, for symbols and choices

VARIABLES
  todo,        \* the calls that are left
  rootEntry,   \* the menu that is asked for now
  conf_cnt,    \* questions in this pass over all menus
  odd          \* history: whether the passes of randconfig so far are odd in number,
               \* that one which changes nothing is a step as well

confvars == <<todo, rootEntry, conf_cnt, odd>>

ConfInit == todo = <<>> /\ rootEntry = Root /\ conf_cnt = 0 /\ odd = FALSE
ConfReset == todo' = <<>> /\ rootEntry' = Root /\ conf_cnt' = 0 /\ odd' = FALSE

Interactive == {"oldaskconfig", "oldconfig", "syncconfig", "listnewconfig"}
NewValues == [allnoconfig |-> "no", allyesconfig |-> "yes", allmodconfig |-> "mod",
              alldefconfig |-> "default", defconfig |-> "default"]

-----------------------------------------------------------------------------
(* main, up to the first menu.                                             *)

\* The file that is read first.  The modes that make a new configuration take
\* over what a seed says.
FromSeed(m) == m \in (DOMAIN NewValues \ {"defconfig"}) \cup {"randconfig"}
FirstFile(m) == IF m = "defconfig" THEN file["defconfig"] ELSE file["config"]

\* syncconfig and defconfig end without theirs.
Needed(m) == m \in {"syncconfig", "defconfig"} /\ FirstFile(m) = NoFile

\* What is in memory before anything is asked.
Loaded(m, seed) ==
  IF ~FromSeed(m)
  THEN LET u == ReadConfig(NewState, FirstFile(m)).k
       IN  IF m = "defconfig" THEN conf_set_all_new_symbols(u, "default") ELSE u
  ELSE LET u == IF seed = NoFile THEN NewState ELSE conf_read_simple(NewState, seed).k
       IN  IF m = "randconfig" THEN u ELSE conf_set_all_new_symbols(u, NewValues[m])

Runs == IF work = 0 THEN Modes ELSE LaterModes

StartConf ==
  /\ Start
  /\ \E m \in Runs, seed \in {NoFile, file["config"]} :
       /\ seed # NoFile => FromSeed(m)
       /\ ~Needed(m)
       /\ k' = Loaded(m, seed)
       /\ mode' = m
       /\ pc' = CASE m = "randconfig" -> "random"
                  [] m \in Interactive -> "pass"
                  [] m = "savedefconfig" -> "defconfig"
                  [] OTHER -> "end"
  /\ UNCHANGED confvars

\* syncconfig, or defconfig, without the file.
StartFails ==
  /\ Start
  /\ \E m \in Runs : mode' = m /\ Needed(m)
  /\ pc' = "exit"
  /\ UNCHANGED <<k, confvars>>

\* Until a pass draws nothing.
DrawValues ==
  /\ pc = "random"
  /\ \E d \in Draws :
       \E r \in {conf_randomize(k, d)} :
         k' = r.k /\ pc' = IF r.more THEN "random" ELSE "end"
  /\ odd' = ~odd
  /\ UNCHANGED <<mode, write, again, directory, work, faults, todo, rootEntry, conf_cnt>>

-----------------------------------------------------------------------------
(* The menus.                                                              *)

Calls(f, ns) == [i \in DOMAIN ns |-> <<f, ns[i]>>]
Rest == Tail(todo)
In(call) == pc = "menus" /\ todo # <<>> /\ todo[1][1] = call
Entry == todo[1][2]

Go == /\ pc' = "menus"
      /\ UNCHANGED <<mode, write, again, directory, work, faults>>

\* mutant: the questions of the last pass are still counted
PassMutant ==
  /\ pc = "pass"
  /\ todo' = IF mode = "oldaskconfig" THEN <<<<"conf", Root>>>> ELSE <<<<"check", Root>>>>
  /\ pc' = "menus"
  /\ rootEntry' = IF mode = "oldaskconfig" THEN Root ELSE rootEntry
  /\ UNCHANGED <<mode, k, write, again, directory, work, faults, conf_cnt, odd>>

\* A pass over all menus, as long as the last one had questions.
Pass ==
  /\ pc = "pass"
  /\ todo' = IF mode = "oldaskconfig" THEN <<<<"conf", Root>>>> ELSE <<<<"check", Root>>>>
  /\ pc' = "menus"
  /\ conf_cnt' = 0
  /\ rootEntry' = IF mode = "oldaskconfig" THEN Root ELSE rootEntry
  /\ UNCHANGED <<mode, k, write, again, directory, work, faults, odd>>

\* mutant: one pass is enough
PassEndsMutant ==
  /\ pc = "menus" /\ todo = <<>>
  /\ pc' = IF mode = "oldaskconfig" THEN "pass" ELSE "end"
  /\ mode' = IF mode = "oldaskconfig" THEN "oldconfig" ELSE mode
  /\ UNCHANGED <<k, write, again, directory, work, faults, confvars>>

PassEnds ==
  /\ pc = "menus" /\ todo = <<>>
  /\ pc' = IF mode = "oldaskconfig" \/ conf_cnt # 0 THEN "pass" ELSE "end"
  /\ mode' = IF mode = "oldaskconfig" THEN "oldconfig" ELSE mode
  /\ UNCHANGED <<k, write, again, directory, work, faults, confvars>>

Conf ==
  /\ In("conf") /\ Go
  /\ \E v \in {menu_is_visible(k, Entry)} :
       LET s == Node[Entry].sym
           below == Calls("conf", Node[Entry].list)
       IN
         /\ k' = v.k
         /\ todo' =
              CASE ~v.yes -> Rest
                [] v.yes /\ Node[Entry].prompt = "MENU" /\ mode # "oldaskconfig" /\ rootEntry # Entry ->
                     <<<<"check", Entry>>>> \o Rest
                [] OTHER ->
                     IF s = None THEN below \o Rest
                     ELSE IF IsChoice(s) THEN <<<<"choice", Entry>>>> \o Rest
                     ELSE <<<<IF Def[s].type = "int" THEN "string" ELSE "sym", Entry>>>> \o below \o Rest
  /\ UNCHANGED <<rootEntry, conf_cnt, odd>>

\* Whether a symbol is new, and can be set.
IsNew(u, s) ==
  /\ s # None /\ ~HasValue(u, s)
  /\ Changable(u, s) \/ (IsChoice(s) /\ u.sym[s].tri = 2)

CheckConf ==
  /\ In("check") /\ Go
  /\ \E v \in {menu_is_visible(k, Entry)} :
       LET
         new == v.yes /\ IsNew(v.k, Node[Entry].sym) /\ mode # "listnewconfig"
         below == IF v.yes THEN Calls("check", Node[Entry].list) ELSE <<>>
       IN
         /\ k' = v.k
         /\ rootEntry' = IF new THEN ParentMenu[Entry] ELSE rootEntry
         /\ conf_cnt' = IF new THEN 1 ELSE conf_cnt
         /\ UNCHANGED odd
         /\ todo' = (IF new THEN <<<<"conf", ParentMenu[Entry]>>>> ELSE <<>>) \o below \o Rest

\* conf_askvalue: what has a value, or cannot be changed, is not asked for.
Asks(u, s) == Changable(u, s) /\ (mode = "oldaskconfig" \/ ~HasValue(u, s))

NotAsked ==
  /\ In("sym") \/ In("string")
  /\ Go
  /\ ~Asks(k, Node[Entry].sym)
  /\ todo' = Rest
  /\ UNCHANGED <<k, rootEntry, conf_cnt, odd>>

\* An empty answer leaves the value.
AnswerSym ==
  /\ In("sym") /\ Go
  /\ LET s == Node[Entry].sym
     IN  /\ Asks(k, s)
         /\ \E t \in 0..2 :
              \E r \in {sym_set_tristate_value(k, s, t)} : k' = r.k /\ todo' = IF r.ok THEN Rest ELSE todo
  /\ UNCHANGED <<rootEntry, conf_cnt, odd>>

AnswerString ==
  /\ In("string") /\ Go
  /\ LET s == Node[Entry].sym
     IN  /\ Asks(k, s)
         /\ \E v \in Answers \cup {k.sym[s].val} :
              \E r \in {sym_set_string_value(k, s, v)} : k' = r.k /\ todo' = IF r.ok THEN Rest ELSE todo
  /\ UNCHANGED <<rootEntry, conf_cnt, odd>>

\* conf_choice: the value of the choice itself first, if it can be changed.
Choice ==
  /\ In("choice") /\ Go
  /\ LET c == Node[Entry].sym
     IN  todo' = (IF Changable(k, c) THEN <<<<"sym", Entry>>>> ELSE <<>>)
                 \o <<<<"pick", Entry, ~HasValue(k, c)>>>> \o Rest
  /\ UNCHANGED <<k, rootEntry, conf_cnt, odd>>

\* Then, if it is y, one of the values that are visible, if there are two.
VisibleValues(u, n) ==
  FoldLeft(LAMBDA a, m :
             LET v == menu_is_visible(a.k, m)
             IN  [k |-> v.k,
                  ns |-> IF v.yes /\ Node[m].sym # None THEN Append(a.ns, m) ELSE a.ns],
           [k |-> u, ns |-> <<>>], Node[n].list)

\* Which of them may be picked.
MayPick(seen, c) ==
  IF Len(seen.ns) = 1 \/ mode = "oldaskconfig" \/ todo[1][3] THEN Range(seen.ns)
  ELSE {n \in Range(seen.ns) : Node[n].sym = seen.k.sym[c].val}

PickOne ==
  /\ In("pick") /\ Go
  /\ LET c == Node[Entry].sym
     IN  \E u \in {sym_calc_value(k, c)} :
           \/ /\ u.sym[c].tri # 2
              /\ k' = u
              /\ todo' = (IF u.sym[c].tri = 0 THEN <<>> ELSE Calls("conf", Node[Entry].list)) \o Rest
           \/ /\ u.sym[c].tri = 2
              /\ \E seen \in {VisibleValues(u, Entry)} : \E n \in MayPick(seen, c) :
                   /\ k' = sym_set_tristate_value(seen.k, Node[n].sym, 2).k
                   /\ todo' = Calls("conf", Node[n].list) \o Rest
  /\ UNCHANGED <<rootEntry, conf_cnt, odd>>

-----------------------------------------------------------------------------
(* The end of main.                                                        *)

\* mutant: syncconfig does not write what it asked for
EndConfMutant ==
  /\ pc = "end"
  /\ CASE mode = "listnewconfig" -> pc' = "exit" /\ UNCHANGED write
       [] mode = "syncconfig" -> pc' = "autoconf" /\ UNCHANGED write
       [] OTHER -> CallWrite("config", "exit", "exit")
  /\ UNCHANGED <<mode, k, again, directory, work, faults, confvars>>

EndConf ==
  /\ pc = "end"
  /\ CASE mode = "listnewconfig" -> pc' = "exit" /\ UNCHANGED write
       [] mode = "syncconfig" /\ ~k.changed -> pc' = "autoconf" /\ UNCHANGED write
       [] mode = "syncconfig" /\ k.changed -> CallWrite("config", "autoconf", "exit")
       [] OTHER -> CallWrite("config", "exit", "exit")
  /\ UNCHANGED <<mode, k, again, directory, work, faults, confvars>>

\* KCONFIG_NOSILENTUPDATE: what would change .config is refused.
RefuseUpdate ==
  /\ pc = "pass" /\ mode = "syncconfig" /\ conf_cnt = 0 /\ k.changed
  /\ pc' = "exit"
  /\ UNCHANGED <<mode, k, write, again, directory, work, faults, confvars>>

SaveDefconfig ==
  /\ pc = "defconfig" /\ pc' = "exit"
  /\ \E r \in {conf_write_defconfig(k)} : k' = r.k /\ file' = [file EXCEPT !["defconfig"] = r.lines]
  /\ UNCHANGED <<mode, write, again, kept, synced, work, faults, confvars>>

-----------------------------------------------------------------------------
(* conf_write_autoconf: the stamps one after another (conf_split_config),  *)
(* then the headers, and auto.conf last.                                   *)

\* Neither what is not written nor what is n has a line.
IsWritten(u, s) == Has(u, s, "WRITE") /\ ~Def[s].auto /\ ~IsChoice(s)
AutoLines(u) ==
  {kconfig_print_symbol(u, s) : s \in {x \in Range(Symbols) : IsWritten(u, x) /\ ~IsUnset(u, x)}}

ValuesIn(lines, s) == {l[2] : l \in {x \in lines : x[1] = s}}

\* mutant: only what is written now
DiffersMutant(u, s) ==
  LET was == ValuesIn(auto, s)
  IN  Known(s) => /\ ~Def[s].auto /\ ~IsChoice(s) /\ Has(u, s, "WRITE")
                  /\ IF was # {} THEN was # {StringValue(u, s)} ELSE ~IsUnset(u, s)

\* Whether s is not as its line in auto.conf, if it has one, says.  One that is no
\* more is made for the sake of its old value, and has no new one.
Differs(u, s) ==
  LET was == ValuesIn(auto, s)
  IN  Known(s) => /\ ~Def[s].auto /\ ~IsChoice(s)
                  /\ IF ~Has(u, s, "WRITE") THEN was # {}
                     ELSE IF was # {} THEN was # {StringValue(u, s)}
                     ELSE ~IsUnset(u, s)

SplitConfig ==
  /\ pc = "autoconf" /\ pc' = "stamps"
  /\ k' = CalcAll(sym_clear_all_valid(k))
  /\ todo' = Symbols \o SetToSeq({s \in {l[1] : l \in auto} : ~Known(s)})
  /\ UNCHANGED <<mode, write, again, directory, work, faults, rootEntry, conf_cnt, odd>>

\* The next symbol of those left that is not as auto.conf has it.
Touch ==
  /\ pc = "stamps"
  /\ \E i \in DOMAIN todo :
       /\ Differs(k, todo[i]) /\ \A j \in 1..(i - 1) : ~Differs(k, todo[j])
       /\ stamps' = stamps \cup {todo[i]}
       /\ todo' = SubSeq(todo, i + 1, Len(todo))
  /\ UNCHANGED <<mode, k, pc, file, write, again, kept, auto, header, work, faults, rootEntry, conf_cnt, odd>>

\* mutant: before the stamps
RenameHeaderMutant ==
  /\ pc = "stamps" /\ pc' = "rename auto.conf"
  /\ header' = AutoLines(k)
  /\ UNCHANGED <<mode, k, file, write, again, kept, auto, stamps, work, faults, confvars>>

RenameHeader ==
  /\ pc = "stamps" /\ pc' = "rename auto.conf"
  /\ \A s \in Range(todo) : ~Differs(k, s)
  /\ header' = AutoLines(k)
  /\ UNCHANGED <<mode, k, file, write, again, kept, auto, stamps, work, faults, confvars>>

RenameAuto ==
  /\ pc = "rename auto.conf" /\ pc' = "exit"
  /\ auto' = AutoLines(k) /\ stamps' = {}
  /\ UNCHANGED <<mode, k, file, write, again, kept, header, work, faults, confvars>>

-----------------------------------------------------------------------------

ConfStep ==
  \/ DrawValues \/ Pass \/ PassEnds \/ Conf \/ CheckConf \/ NotAsked \/ AnswerSym
  \/ AnswerString \/ Choice \/ PickOne \/ EndConf \/ RefuseUpdate \/ SaveDefconfig
  \/ SplitConfig \/ Touch \/ RenameHeader \/ RenameAuto

-----------------------------------------------------------------------------

\* When oldconfig has asked for the last time, no symbol that can be set is
\* without a value, those that only came into sight by the answers included
\* (conf.c:412-449, 676-685).
NothingIsNew ==
  pc = "end" /\ mode \in {"oldconfig", "syncconfig"} =>
    \A n \in Range(Entries) :
      LET v == menu_is_visible(k, n) IN ~(v.yes /\ IsNew(v.k, Node[n].sym))

\* Whatever a file, the user or rand gives its values, of a choice that is y just
\* one is: the one it names, and one that is visible (symbol.c:304-334).
ChoiceIsExclusive ==
  pc # "shell" =>
    LET u == CalcAll(k)
    IN  \A c \in {s \in Range(Symbols) : IsChoice(s)} :
          u.sym[c].tri = 2 =>
            /\ {s \in Range(Def[c].values) : u.sym[s].tri # 0} = {u.sym[c].val}
            /\ u.sym[u.sym[c].val].visible # 0

\* make defconfig with what make savedefconfig wrote gives the same configuration
\* (confdata.c:667-738, Makefile:1150).
DefconfigIsEnough ==
  pc = "exit" /\ mode = "savedefconfig" =>
    ValuesOf(conf_set_all_new_symbols(ReadBack(file["defconfig"]), "default")) = ValuesOf(k)

\* What syncconfig leaves for make and for the sources is what .config says
\* (conf.c:691-708).
SyncedIsConfigured ==
  pc = "rename auto.conf" => header = AutoLines(CalcAll(ReadBack(file["config"])))

\* A symbol that the header says something else of than the last auto.conf that
\* was finished had its stamp touched since: nothing that make compiles keeps an
\* old value, also if syncconfig was killed in between (confdata.c:843-969).
StampsCoverChanges ==
  header # NoHeader =>
    \A s \in Range(Symbols) \cup {l[1] : l \in auto} :
      ValuesIn(header, s) # ValuesIn(auto, s) => s \in stamps

\* Each of the files that hold a configuration is enough to have it back: .config,
\* the short one of savedefconfig, and what make and the compiler read.
FilesAreEnough == SavedIsWhole /\ DefconfigIsEnough /\ SyncedIsConfigured

=============================================================================
