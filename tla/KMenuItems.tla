----------------------------- MODULE KMenuItems -----------------------------
(***************************************************************************)
(* What mconf shows: build_conf (support/kconfig/mconf.c) makes the items  *)
(* of a menu, each a tag and an entry, and calculates values as it goes.   *)
(***************************************************************************)
EXTENDS KConfdata

RECURSIVE BuildConf(_, _, _, _)

BuildList(acc, ns, current, all) ==
  FoldLeft(LAMBDA a, n : BuildConf(a, n, current, all), acc, ns)

Item(acc, tag, n) == [acc EXCEPT !.items = Append(@, <<tag, n>>)]

\* Whether a menu has anything to show is asked for each that is not entered.
Folded(acc, n) == [acc EXCEPT !.k = MenuIsEmpty(acc.k, n).k]

\* The value of a choice that is taken, if it is visible.
TakenValue(u, n) ==
  FoldLeft(LAMBDA a, m :
             With(MenuIsVisible(a.k, m), LAMBDA v :
               [k |-> v.k,
                def |-> IF v.yes /\ Node[m].sym = v.k.sym[Node[n].sym].val THEN <<m>> ELSE a.def]),
           [k |-> u, def |-> <<>>], Node[n].list)

BelowChoice(acc, n, taken, current, all) ==
  IF acc.k.sym[Node[n].sym].tri # 2 THEN BuildList(acc, Node[n].list, current, all)
  ELSE IF taken = <<>> \/ Node[taken[1]].list = <<>> THEN acc
  ELSE BuildConf(acc, taken[1], current, all)

BuildChoice(acc, n, current, all) ==
  With(TakenValue(acc.k, n), LAMBDA seen :
    BelowChoice(Item([acc EXCEPT !.k = seen.k],
                     IF Changable(seen.k, Node[n].sym) \/ seen.def # <<>> THEN "t" ELSE ":", n),
                n, seen.def, current, all))

TagOf(u, n, current) ==
  LET s == Node[n].sym
  IN  CASE n = current -> ":"
        [] IsChoiceVal(s) /\ u.sym[s].tri = 2 -> ":"
        [] Def[s].type = "int" -> "s"
        [] OTHER -> "t"

BuildSymbol(acc, n, current, all) ==
  With(Item(acc, TagOf(acc.k, n, current), n), LAMBDA a :
    IF n # current /\ Def[Node[n].sym].type # "int" /\ Node[n].prompt = "MENU" THEN Folded(a, n)
    ELSE BuildList(a, Node[n].list, current, all))

BuildEntry(acc, n, current, all) ==
  IF Node[n].sym # None
  THEN IF IsChoice(Node[n].sym) THEN BuildChoice(acc, n, current, all)
       ELSE BuildSymbol(acc, n, current, all)
  ELSE IF n = current THEN BuildList(acc, Node[n].list, current, all)
  ELSE IF Node[n].prompt = "MENU" THEN Folded(Item(acc, "m", n), n)
  ELSE BuildList(Item(acc, ":", n), Node[n].list, current, all)

BuildConf(acc, n, current, all) ==
  With(MenuIsVisible(acc.k, n), LAMBDA v :
  With([acc EXCEPT !.k = v.k], LAMBDA a :
    IF IF all THEN Node[n].prompt # None ELSE v.yes THEN BuildEntry(a, n, current, all) ELSE a))

\* The items of the menu that is current.
MenuItems(k, current, all) == BuildConf([k |-> k, items |-> <<>>], current, current, all)

=============================================================================
