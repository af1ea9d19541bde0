------------------------------ MODULE KSymbol ------------------------------
(***************************************************************************)
(* The values of the symbols: support/kconfig/symbol.c.                    *)
(*                                                                         *)
(* A value is calculated when somebody asks for it and kept until SYMBOL_  *)
(* VALID is cleared, and to calculate one asks for others, so every        *)
(* operator takes the state k of all symbols and returns the next.         *)
(***************************************************************************)
EXTENDS KExpr, KState

CONSTANTS
  Literals   \* the numbers that occur in expressions: a function to their value

ASSUME SymbolConstants ==
  \A s \in Range(Symbols) :
    /\ Def[s].type \in {"bool", "tristate", "int"}
    /\ (Def[s].type = "bool") = (s \in BoolSym)
    /\ (Def[s].type = "tristate") = (s \in TriSym)

Number(v) == IF v = Empty THEN 0 ELSE v

\* sym_get_type: a tristate may only take y and n at times.
Boolean(k, s) ==
  \/ Def[s].type = "bool"
  \/ Def[s].type = "tristate" /\ (k.modules = 0 \/ (IsChoiceVal(s) /\ k.sym[s].visible = 2))

Current(k, s) == IF s \in DOMAIN Literals THEN Literals[s] ELSE k.sym[s].val

-----------------------------------------------------------------------------

RECURSIVE SymbolsOf(_)
SymbolsOf(e) ==
  CASE e[1] \in Connective -> SymbolsOf(e[2]) \o SymbolsOf(e[3])
    [] e[1] = "NOT" -> SymbolsOf(e[2])
    [] e[1] \in Comparison -> <<e[2], e[3]>>
    [] e[1] = "SYMBOL" -> <<e[2]>>
    [] OTHER -> <<>>

Valuation(k, xs) ==
  [x \in xs |->
     IF x \in DOMAIN Literals THEN Literals[x]
     ELSE IF Def[x].type = "int" THEN Number(k.sym[x].val) ELSE k.sym[x].tri]

RECURSIVE Calc(_, _), CalcEach(_, _)
CalcEach(k, ss) == IF ss = <<>> THEN k ELSE CalcEach(Calc(k, Head(ss)), Tail(ss))

\* expr_calc_value: both operands are calculated, whatever the first is worth.
Eval(k, e) ==
  With(SymbolsOf(e), LAMBDA ss :
  With(CalcEach(k, ss), LAMBDA u : [k |-> u, tri |-> Value(e, Valuation(u, Range(ss)))]))

\* Bools have no m.
ToYes(k, s, t) == IF t = 1 /\ Boolean(k, s) THEN 2 ELSE t

\* The first of the properties (a value and a condition each) whose condition
\* is not n, and that condition.
FirstActive(k, props) ==
  FoldLeft(LAMBDA acc, p :
             IF acc.found # <<>> THEN acc
             ELSE With(Eval(acc.k, p[2]), LAMBDA r :
                    [k |-> r.k, found |-> IF r.tri = 0 THEN <<>> ELSE <<p[1]>>, tri |-> r.tri]),
           [k |-> k, found |-> <<>>, tri |-> 0], props)

\* A prompt of a tristate value with visibility m is not shown if the choice is y.
PromptTri(k, s, tri) ==
  IF /\ IsChoiceVal(s) /\ Def[s].type = "tristate"
     /\ tri = 1 /\ k.sym[Def[s].choice].tri = 2
  THEN 0 ELSE tri

\* What the prompts say.
Seen(k, s) ==
  FoldLeft(LAMBDA acc, c :
             With(Eval(acc.k, c), LAMBDA r :
               [k |-> r.k, tri |-> Most(acc.tri, PromptTri(r.k, s, r.tri))]),
           [k |-> k, tri |-> 0], Def[s].prompts)

Visible(k, s, tri) ==
  IF tri = 1 /\ (Def[s].type # "tristate" \/ k.modules = 0) THEN 2 ELSE tri

\* The three dependencies.  No expression stands for y, but for n with select and
\* imply; nothing is implied against dir.
Dependency(k, s, field) ==
  LET e == Def[s][field]
      none == \/ e = NULL /\ field # "dir"
              \/ field = "implied" /\ k.sym[s].dir = 0
  IN  With(IF none THEN [k |-> k, tri |-> 0] ELSE Eval(k, e), LAMBDA r :
        [r.k EXCEPT !.sym[s][field] = ToYes(r.k, s, r.tri)])

CalcVisibility(k, s) ==
  With(Seen(k, s), LAMBDA seen :
  With([seen.k EXCEPT !.sym[s].visible = Visible(seen.k, s, seen.tri)], LAMBDA u :
    IF IsChoiceVal(s) THEN u
    ELSE FoldLeft(LAMBDA w, field : Dependency(w, s, field), u, <<"dir", "rev", "implied">>)))

-----------------------------------------------------------------------------
(* Choices.                                                                *)

\* The default that is visible, or the first value that is, or None.
ChoiceDefault(k, c) ==
  With(FoldLeft(LAMBDA acc, p :
                  IF acc.found # None THEN acc
                  ELSE With(Eval(acc.k, p[2]), LAMBDA r :
                         [k |-> r.k,
                          found |-> IF r.tri # 0 /\ r.k.sym[p[1][2]].visible # 0
                                    THEN p[1][2] ELSE None]),
                [k |-> k, found |-> None], Def[c].defaults), LAMBDA pick :
  With(SelectSeq(Def[c].values, LAMBDA s : pick.k.sym[s].visible # 0), LAMBDA shown :
    IF pick.found # None \/ shown = <<>> THEN pick ELSE [pick EXCEPT !.found = Head(shown)]))

\* The choice only counts as set by the user if all its visible values are.
StillSet(k, c) ==
  IF \A s \in Range(Def[c].values) : k.sym[s].visible # 0 => HasValue(k, s) THEN k
  ELSE Lower(k, c, {"DEF_USER"})

\* mutant: no test whether the value the user gave can be seen
UserPickMutant(k, c) == k.sym[c].def.val # None

UserPick(k, c) == With(k.sym[c].def.val, LAMBDA s : s # None /\ k.sym[s].visible # 0)

\* Which value is y: the user's if it is visible.
Pick(k, c) ==
  IF UserPick(k, c) THEN [k EXCEPT !.sym[c].val = k.sym[c].def.val]
  ELSE With(ChoiceDefault(k, c), LAMBDA d :
         [d.k EXCEPT !.sym[c].val = d.found,
                     !.sym[c].tri = IF d.found = None THEN 0 ELSE @])

CalcChoice(k, c) == Pick(StillSet(FoldLeft(CalcVisibility, k, Def[c].values), c), c)

\* set_all_choice_values (confdata.c): the values without one are n.
SetAllChoiceValues(k, c) ==
  [k EXCEPT !.sym = [s \in DOMAIN @ |->
     IF s = c THEN [@[s] EXCEPT !.flags = (@ \cup {"DEF_USER"}) \ {"VALID", "NEED_SET"}]
     ELSE IF s \in Range(Def[c].values) /\ ~HasValue(k, s) THEN [@[s] EXCEPT !.def.tri = 0]
     ELSE @[s]]]

-----------------------------------------------------------------------------
(* One value.                                                              *)

WithTri(k, s, t) == [k EXCEPT !.sym[s].tri = t]
WriteIf(k, s, b) == IF b THEN Raise(k, s, "WRITE") ELSE k

\* The value of a default, as far as its condition allows.
TriDefault(p) ==
  IF p.found = <<>> THEN [k |-> p.k, tri |-> 0]
  ELSE With(Eval(p.k, p.found[1]), LAMBDA v : [v EXCEPT !.tri = Least(@, p.tri)])

\* The default of a bool or tristate, or what implies it.
DefaultTri(k, s) ==
  With(TriDefault(FirstActive(k, Def[s].defaults)), LAMBDA v :
  With(v.k.sym[s].implied, LAMBDA implied :
    WithTri(WriteIf(v.k, s, v.tri # 0 \/ implied # 0), s, Most(v.tri, implied))))

FreeTri(k, s) ==
  LET me == k.sym[s]
  IN  IF me.visible # 0 /\ HasValue(k, s) THEN WithTri(k, s, Least(me.def.tri, me.visible))
      ELSE IF IsChoice(s) THEN WriteIf(k, s, me.rev # 0)
      ELSE DefaultTri(WriteIf(k, s, me.rev # 0), s)

CalcTri(k, s) ==
  With(IF IsChoiceVal(s) /\ k.sym[s].visible = 2
       THEN WithTri(k, s, IF k.sym[Def[s].choice].val = s THEN 2 ELSE 0)
       ELSE With(FreeTri(k, s), LAMBDA u : WithTri(u, s, Most(u.sym[s].tri, u.sym[s].rev))),
       LAMBDA u :
    IF u.sym[s].tri = 1 /\ (Boolean(u, s) \/ u.sym[s].implied = 2) THEN WithTri(u, s, 2) ELSE u)

\* The value of x becomes that of s.
TakeOver(k, s, x) == With(Calc(k, x), LAMBDA u : [u EXCEPT !.sym[s].val = Current(u, x)])

CalcNumber(k, s) ==
  IF k.sym[s].visible # 0 /\ HasValue(k, s) THEN [k EXCEPT !.sym[s].val = k.sym[s].def.val]
  ELSE With(FirstActive(k, Def[s].defaults), LAMBDA p :
         IF p.found = <<>> THEN p.k ELSE TakeOver(WriteIf(p.k, s, TRUE), s, p.found[1][2]))

\* Both bounds are calculated, the upper one only if the lower one is not missed:
\* whether v is below (-1) or above (1) the range, and the bound it is beyond.
Bound(k, v, b, side) ==
  With(Calc(k, b), LAMBDA u :
    [k |-> u, bound |-> Number(Current(u, b)),
     side |-> IF (v - Number(Current(u, b))) * side > 0 THEN side ELSE 0])
InRange(k, v, range) ==
  FoldLeft(LAMBDA acc, i : IF acc.side # 0 THEN acc
                           ELSE Bound(acc.k, v, range[i], IF i = 1 THEN -1 ELSE 1),
           [k |-> k, bound |-> 0, side |-> 0], <<1, 2>>)
FindRange(k, s, v) ==
  With(FirstActive(k, Def[s].ranges), LAMBDA p :
    IF p.found = <<>> THEN [k |-> p.k, bound |-> 0, side |-> 0]
    ELSE InRange(p.k, v, p.found[1]))

\* A number outside of its range becomes the bound it is beyond.
ValidateRange(k, s) ==
  With(FindRange(k, s, Number(k.sym[s].val)), LAMBDA r :
    IF r.side = 0 THEN r.k ELSE [r.k EXCEPT !.sym[s].val = r.bound])

\* The values of a choice that is written are, if they are visible.
FinishChoice(k, c) ==
  FoldLeft(LAMBDA u, s : WriteIf(u, s, Has(u, c, "WRITE") /\ u.sym[s].visible # 0),
           k, Def[c].values)

\* A value of a choice whose choice has yet to set it.
ByChoice(k, s) ==
  IF IsChoiceVal(s) /\ Has(k, s, "NEED_SET")
  THEN Calc(Lower(k, s, {"NEED_SET"}), Def[s].choice) ELSE k

Restart(k, s) ==
  With(CalcVisibility(Lower(Raise(k, s, "VALID"), s, {"WRITE"}), s), LAMBDA u :
    [WriteIf(u, s, u.sym[s].visible # 0)
       EXCEPT !.sym[s].tri = 0, !.sym[s].val = NewSymbol(s).val])

CalcCurrent(k, s) ==
  IF Def[s].type = "int" THEN ValidateRange(CalcNumber(k, s), s) ELSE CalcTri(k, s)

\* What is left to do for a choice, for "option modules", and for the values of a
\* choice that are to be set.
ThePick(k, s) == IF IsChoice(s) /\ k.sym[s].tri = 2 THEN CalcChoice(k, s) ELSE k
SetModules(k, s) == IF s = Modules THEN [k EXCEPT !.modules = k.sym[s].tri] ELSE k
Finish(k, s) ==
  With(IF IsChoice(s) THEN FinishChoice(k, s) ELSE k, LAMBDA u :
  With(IF Def[s].auto THEN Lower(u, s, {"WRITE"}) ELSE u, LAMBDA w :
    IF Has(w, s, "NEED_SET") THEN SetAllChoiceValues(w, s) ELSE w))

Calc(k, s) ==
  IF s \notin DOMAIN Def \/ Has(k, s, "VALID") THEN k
  ELSE Finish(SetModules(ThePick(CalcCurrent(Restart(ByChoice(k, s), s), s), s), s), s)

ClearAllValid(k) ==
  Calc([k EXCEPT !.sym = [s \in DOMAIN @ |-> [@[s] EXCEPT !.flags = @ \ {"VALID"}]],
                 !.changed = TRUE], Modules)

-----------------------------------------------------------------------------
(* Setting values.                                                         *)

TristateWithinRange(k, s, t) ==
  LET me == k.sym[s]
  IN  /\ me.visible # 0
      /\ Def[s].type # "int"
      /\ ~(Boolean(k, s) /\ t = 1)
      /\ me.visible > me.rev
      /\ ~(me.implied = 2 /\ t = 1)
      /\ IF IsChoiceVal(s) /\ me.visible = 2 THEN t = 2 ELSE t >= me.rev /\ t <= me.visible

\* The other visible values of a choice count as set, too.
ChooseValue(k, s) ==
  LET c == Def[s].choice
      k1 == [Raise(k, c, "DEF_USER") EXCEPT !.sym[c].def.val = s]
  IN  FoldLeft(LAMBDA u, x : IF u.sym[x].visible # 0 THEN Raise(u, x, "DEF_USER") ELSE u,
               k1, Def[c].values)

\* What the user gave.
Give(k, s, t) ==
  With(Raise(k, s, "DEF_USER"), LAMBDA u :
  With(IF IsChoiceVal(s) /\ t = 2 THEN ChooseValue(u, s) ELSE u, LAMBDA w :
    [w EXCEPT !.sym[s].def.tri = t]))

\* mutant: a value out of range is accepted
SetTristateMutant(k, s, t) ==
  [k |-> IF k.sym[s].tri # t THEN ClearAllValid(Give(k, s, t)) ELSE Give(k, s, t), ok |-> TRUE]

\* mutant: the new value does not count as a change
SetTristateMutant2(k, s, t) ==
  IF k.sym[s].tri = t THEN [k |-> Give(k, s, t), ok |-> TRUE]
  ELSE IF ~TristateWithinRange(k, s, t) THEN [k |-> k, ok |-> FALSE]
  ELSE [k |-> [ClearAllValid(Give(k, s, t)) EXCEPT !.changed = k.changed], ok |-> TRUE]

SetTristate(k, s, t) ==
  IF k.sym[s].tri = t THEN [k |-> Give(k, s, t), ok |-> TRUE]
  ELSE IF ~TristateWithinRange(k, s, t) THEN [k |-> k, ok |-> FALSE]
  ELSE [k |-> ClearAllValid(Give(k, s, t)), ok |-> TRUE]

\* The next value that is accepted: n, m, y, n.
Toggle(k, s) ==
  FoldLeft(LAMBDA acc, i : IF acc.ok THEN acc ELSE SetTristate(k, s, (k.sym[s].tri + i) % 3),
           [k |-> k, ok |-> FALSE], <<1, 2, 3>>).k

\* sym_string_within_range, for a number.
NumberWithinRange(k, s, v) ==
  IF v = Empty THEN [k |-> k, ok |-> FALSE]
  ELSE With(FindRange(k, s, v), LAMBDA r : [k |-> r.k, ok |-> r.side = 0])

\* Nothing is calculated again if the user gave the same value before.
SetNumber(k, s, v) ==
  With(NumberWithinRange(k, s, v), LAMBDA r :
    IF ~r.ok THEN r
    ELSE IF r.k.sym[s].def.val = v THEN [k |-> Raise(r.k, s, "DEF_USER"), ok |-> TRUE]
    ELSE [k |-> ClearAllValid([Raise(r.k, s, "DEF_USER") EXCEPT !.sym[s].def.val = v]),
          ok |-> TRUE])

\* sym_get_string_default: what the symbol would be without the user's value.
NoModules(k, s) ==
  \/ Def[s].type = "bool"
  \/ ~IsChoiceVal(s) /\ (IF Modules = "n" THEN 0 ELSE k.sym[Modules].tri) = 0
TriWithout(k, s, t) ==
  With(Most(t, k.sym[s].rev), LAMBDA u :
    Most(IF u = 1 /\ NoModules(k, s) THEN 2 ELSE u, k.sym[s].implied))
StringDefault(k, s) ==
  With(FirstActive(Calc(CalcVisibility(k, s), Modules), Def[s].defaults), LAMBDA p :
    IF Def[s].type # "int"
    THEN With(TriDefault(p), LAMBDA v : [k |-> v.k, value |-> TriWithout(v.k, s, v.tri)])
    ELSE IF p.found = <<>> THEN [k |-> p.k, value |-> Empty]
    ELSE With(Calc(p.k, p.found[1][2]), LAMBDA u :
           [k |-> u, value |-> Current(u, p.found[1][2])]))

=============================================================================
