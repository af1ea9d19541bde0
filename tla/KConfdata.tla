----------------------------- MODULE KConfdata -----------------------------
(***************************************************************************)
(* Configuration files: support/kconfig/confdata.c, with menu_is_visible   *)
(* of menu.c, which decides which menus are named in them.                 *)
(*                                                                         *)
(* A file is the sequence of its lines, each a symbol and a value; the     *)
(* value 0 of a bool is the comment "is not set".                          *)
(***************************************************************************)
EXTENDS KSymbol

-----------------------------------------------------------------------------
(* What is visible.  A symbol that is only shown for the sake of an entry  *)
(* below it counts as set by the user afterwards.                          *)

RECURSIVE MenuIsVisible(_, _)

SomeVisible(k, ns) ==
  FoldLeft(LAMBDA acc, n : IF acc.yes THEN acc ELSE MenuIsVisible(acc.k, n),
           [k |-> k, yes |-> FALSE], ns)

\* The entry itself: its symbol, or its own condition.
Own(k, n) ==
  IF Node[n].sym = None THEN Eval(k, Node[n].cond)
  ELSE With(Calc(k, Node[n].sym), LAMBDA u : [k |-> u, tri |-> u.sym[Node[n].sym].visible])

\* The entry counts as set if one below it is visible.
ForThoseBelow(k, n) ==
  With(SomeVisible(k, Node[n].list), LAMBDA b :
    IF b.yes THEN [b EXCEPT !.k = Raise(@, Node[n].sym, "DEF_USER")] ELSE b)

MenuIsVisible(k, n) ==
  IF Node[n].prompt = None THEN [k |-> k, yes |-> FALSE]
  ELSE With(Eval(k, Node[n].visibility), LAMBDA v :
         IF v.tri = 0 THEN [k |-> v.k, yes |-> FALSE]
         ELSE With(Own(v.k, n), LAMBDA p :
                IF p.tri # 0 THEN [k |-> p.k, yes |-> TRUE]
                ELSE IF Node[n].sym = None THEN [k |-> p.k, yes |-> FALSE]
                ELSE IF p.k.sym[Node[n].sym].tri = 0 THEN [k |-> p.k, yes |-> FALSE]
                ELSE ForThoseBelow(p.k, n)))

MenuIsEmpty(k, n) == [SomeVisible(k, Node[n].list) EXCEPT !.yes = ~@]

-----------------------------------------------------------------------------
(* Reading.                                                                *)

\* Everything the user gave is forgotten.
Forget(k) ==
  [k EXCEPT !.sym = [s \in DOMAIN @ |->
     [@[s] EXCEPT !.flags = (@ \ {"DEF_USER", "VALID"}) \cup
                            (IF IsChoice(s) THEN {"DEF_USER"} ELSE {}),
                  !.def = NewSymbol(s).def]]]

\* The value of a choice that a line sets.
ReadChoice(acc, s) ==
  LET c == Def[s].choice
      v == acc.k.sym[s].def.tri
      old == acc.k.sym[c].def.tri
      k1 == IF v = 1 /\ old = 2 THEN Lower(acc.k, c, {"DEF_USER"}) ELSE acc.k
      k2 == IF v = 2 THEN [k1 EXCEPT !.sym[c].def.val = s] ELSE k1
  IN  [k |-> [k2 EXCEPT !.sym[c].def.tri = Most(@, v)],
       warned |-> acc.warned \/ (v = 1 /\ old = 2) \/ (v = 2 /\ old # 0)]

\* A number is not empty (CONFIG_I= alone is warned of), and a bool takes no m.
\* Only a file written by hand has "is not set" of a number, which is gone past:
\* no line here stands for that.
Valid(s, v) ==
  CASE Def[s].type = "int" -> v # Empty
    [] Def[s].type = "bool" -> v # 1
    [] OTHER -> TRUE

ReadLine(acc, l) ==
  LET s == l[1]
      twice == acc.warned \/ HasValue(acc.k, s)
      k1 == IF Def[s].type = "int" THEN [acc.k EXCEPT !.sym[s].def.val = l[2]]
            ELSE [acc.k EXCEPT !.sym[s].def.tri = l[2]]
      set == [k |-> Raise(k1, s, "DEF_USER"), warned |-> twice]
  IN  IF ~Known(s) THEN [acc EXCEPT !.k.changed = TRUE]
      ELSE IF ~Valid(s, l[2]) THEN [acc EXCEPT !.warned = TRUE]
      ELSE IF IsChoiceVal(s) THEN ReadChoice(set, s)
      ELSE set

ReadSimple(k, lines) == FoldLeft(ReadLine, [k |-> Forget(k), warned |-> FALSE], lines)

\* The value read is what the symbol has.
Agrees(k, s) ==
  \/ IsChoice(s) \/ Def[s].auto
  \/ /\ HasValue(k, s) /\ Has(k, s, "WRITE")
     /\ IF Def[s].type = "int" THEN k.sym[s].val = k.sym[s].def.val
        ELSE k.sym[s].tri = k.sym[s].def.tri
  \/ ~HasValue(k, s) /\ ~Has(k, s, "WRITE")

\* Values that cannot be seen, or are out of their range, count as new.
UnsetUnseen(unsaved, acc, s) ==
  IF acc.k.sym[s].visible = 0 /\ ~unsaved /\ ~acc.reset
  THEN [acc EXCEPT !.k = Lower(@, s, {"DEF_USER"})] ELSE acc
ResetOutOfRange(acc, s) ==
  With(NumberWithinRange(acc.k, s, acc.k.sym[s].def.val), LAMBDA r :
    IF r.ok THEN [acc EXCEPT !.k = r.k]
    ELSE [k |-> Lower(r.k, s, {"VALID", "DEF_USER"}), reset |-> TRUE])
ResetUnseen(unsaved, acc, s) ==
  IF ~HasValue(acc.k, s) \/ IsChoiceVal(s) THEN acc
  ELSE IF Def[s].type # "int" THEN UnsetUnseen(unsaved, acc, s)
  ELSE ResetOutOfRange(UnsetUnseen(unsaved, acc, s), s)

\* Whether the values are those of the file.
CheckRead(k) ==
  FoldLeft(LAMBDA acc, s :
             With(Calc(acc.k, s), LAMBDA u : [k |-> u, unsaved |-> acc.unsaved \/ ~Agrees(u, s)]),
           [k |-> Calc(k, Modules), unsaved |-> FALSE], Symbols)

ConfRead(k, file) ==
  IF file = NoFile THEN [k |-> Calc([k EXCEPT !.changed = FALSE], Modules), failed |-> TRUE]
  ELSE With(ReadSimple([k EXCEPT !.changed = FALSE], file), LAMBDA read :
       With(CheckRead(read.k), LAMBDA check :
       With(FoldLeft(LAMBDA acc, s : ResetUnseen(check.unsaved, acc, s),
                     [k |-> check.k, reset |-> FALSE], Symbols), LAMBDA reset :
         [k |-> [reset.k EXCEPT !.changed = @ \/ read.warned \/ check.unsaved \/ reset.reset],
          failed |-> FALSE])))

-----------------------------------------------------------------------------
(* Writing.                                                                *)

\* One entry: a symbol is written once, wherever it is defined.
WriteSymbol(acc, k, s) ==
  IF ~Has(k, s, "WRITE") THEN [acc EXCEPT !.k = k]
  ELSE [k |-> Lower(k, s, {"WRITE"}), lines |-> Append(acc.lines, kconfig_print_symbol(k, s))]
WriteEntry(acc, n) ==
  LET s == Node[n].sym
  IN  IF s = None THEN [acc EXCEPT !.k = MenuIsVisible(@, n).k]
      ELSE IF IsChoice(s) THEN acc
      ELSE WriteSymbol(acc, Calc(acc.k, s), s)

\* mutant: no test for changes
WriteFromMutant(k) == [k |-> k, lines |-> <<>>]

\* What conf_write puts into the file.  If nothing changed since the last time,
\* everything is calculated again, because that also sets SYMBOL_WRITE again.
WriteFrom(k) == [k |-> IF k.changed THEN k ELSE ClearAllValid(k), lines |-> <<>>]
ConfWrite(k, last) == FoldLeft(WriteEntry, WriteFrom(k), SubSeq(Entries, 1, last))

\* mutant: also a value that is y by the choice of the user
IsDefaultValueMutant(k, s, default) ==
  ~Def[Def[s].choice].optional /\ k.sym[s].tri = 2

\* The value of a choice that is y anyway.
IsDefaultValue(k, s, default) ==
  /\ ~Def[Def[s].choice].optional
  /\ default = s /\ Def[s].type = "bool" /\ k.sym[s].tri = 2

\* A minimal configuration: nothing that would be so without it.
ChangedValue(acc, k, s) == [k |-> k, lines |-> Append(acc.lines, kconfig_print_symbol(k, s))]
UnlessDefault(acc, d, s) ==
  IF StringValue(d.k, s) = d.value THEN [acc EXCEPT !.k = d.k]
  ELSE IF ~IsChoiceVal(s) THEN ChangedValue(acc, d.k, s)
  ELSE With(ChoiceDefault(d.k, Def[s].choice), LAMBDA c :
         IF IsDefaultValue(c.k, s, c.found) THEN [acc EXCEPT !.k = c.k]
         ELSE ChangedValue(acc, c.k, s))
MinimalSymbol(acc, k, s) ==
  IF ~Has(k, s, "WRITE") \/ ~Changable(k, s) THEN [acc EXCEPT !.k = Lower(k, s, {"WRITE"})]
  ELSE UnlessDefault(acc, StringDefault(Lower(k, s, {"WRITE"}), s), s)
DefconfigEntry(acc, n) ==
  LET s == Node[n].sym
  IN  IF s = None THEN [acc EXCEPT !.k = MenuIsVisible(@, n).k]
      ELSE IF IsChoice(s) THEN acc
      ELSE MinimalSymbol(acc, Calc(acc.k, s), s)

WriteDefconfig(k) ==
  FoldLeft(DefconfigEntry, [k |-> ClearAllValid(k), lines |-> <<>>], Entries)

-----------------------------------------------------------------------------
(* Values for all symbols at once.                                         *)

NewTri(k, s, mode) == CASE mode = "yes" -> 2 [] mode = "mod" -> 1 [] mode = "no" -> 0

IsOpen(k, s) == ~HasValue(k, s) /\ ~Has(k, s, "VALID") /\ Def[s].type # "int"

\* conf_set_all_new_symbols, but for a mode that is random.
GiveAll(k, mode) ==
  [k EXCEPT !.sym = [s \in DOMAIN @ |->
     IF IsOpen(k, s) /\ mode # "default"
     THEN [@[s] EXCEPT !.def.tri = NewTri(k, s, mode), !.flags = @ \cup {"DEF_USER"}]
     ELSE @[s]]]
NeedSet(k) ==
  [k EXCEPT !.sym = [s \in DOMAIN @ |->
     IF IsChoiceVal(s) \/ (IsChoice(s) /\ ~HasValue(k, s))
     THEN [@[s] EXCEPT !.flags = @ \cup {"NEED_SET"}] ELSE @[s]]]
SetAllNew(k, mode) ==
  FoldLeft(LAMBDA u, c : IF HasValue(u, c) \/ ~IsChoice(c) THEN u
                         ELSE SetAllChoiceValues(Calc(u, c), c),
           NeedSet(ClearAllValid(GiveAll(k, mode))), Symbols)

\* One pass with random values: values is what is drawn for each symbol, picks
\* the value drawn for each choice.  The choices do not count as set before.
GiveRandom(k, values) ==
  [k EXCEPT !.sym = [s \in DOMAIN @ |->
     IF IsOpen(k, s)
     THEN [@[s] EXCEPT !.def.tri = values[s],
                       !.flags = IF IsChoice(s) THEN @ ELSE @ \cup {"DEF_USER"}]
     ELSE @[s]]]

\* randomize_choice_values, of a choice that is y.
RandomizeChoice(k, c, picks) ==
  [k EXCEPT !.sym = [s \in DOMAIN @ |->
     IF s \in Range(Def[c].values)
     THEN [@[s] EXCEPT !.def.tri = IF s = picks[c] THEN 2 ELSE 0,
                       !.flags = (@ \cup {"DEF_USER"}) \ {"VALID"}]
     ELSE IF s = c
     THEN [@[s] EXCEPT !.def.val = picks[c], !.flags = (@ \cup {"DEF_USER"}) \ {"VALID"}]
     ELSE @[s]]]

\* mutant: a choice that is not y, and stays without a value, is a change as well
SetAllRandomMutant(k, draw) ==
  FoldLeft(LAMBDA acc, c :
             IF HasValue(acc.k, c) \/ ~IsChoice(c) THEN acc
             ELSE With(Calc(acc.k, c), LAMBDA u :
                    IF u.sym[c].tri = 2 THEN [k |-> RandomizeChoice(u, c, draw.picks), more |-> TRUE]
                    ELSE [k |-> u, more |-> TRUE]),
           [k |-> ClearAllValid(GiveRandom(k, draw.values)),
            more |-> \E s \in Range(Symbols) : IsOpen(k, s)], Symbols)

\* A pass over all symbols, and whether there is to be another: what the last
\* choice without a value says, whatever was drawn before.
SetAllRandom(k, draw) ==
  FoldLeft(LAMBDA acc, c :
             IF HasValue(acc.k, c) \/ ~IsChoice(c) THEN acc
             ELSE With(Calc(acc.k, c), LAMBDA u :
                    IF u.sym[c].tri = 2 THEN [k |-> RandomizeChoice(u, c, draw.picks), more |-> TRUE]
                    ELSE [k |-> u, more |-> FALSE]),
           [k |-> ClearAllValid(GiveRandom(k, draw.values)),
            more |-> \E s \in Range(Symbols) : IsOpen(k, s)], Symbols)

=============================================================================
