------------------------------- MODULE KExpr -------------------------------
(***************************************************************************)
(* The dependency expressions of support/kconfig/expr.c: their tristate    *)
(* values, and the simplifications that menu_finalize (menu.c) puts every  *)
(* condition of a Config.in file through before anybody evaluates it.      *)
(*                                                                         *)
(* The simplifications work in place on trees that do not share nodes;     *)
(* here they return the new tree.                                          *)
(***************************************************************************)
EXTENDS KTerms, Sequences, SequencesExt

RECURSIVE Value(_, _)
Value(e, v) ==
  CASE e = NULL -> 2
    [] e[1] = "NOT" -> 2 - Value(e[2], v)
    [] e[1] = "AND" -> Least(Value(e[2], v), Value(e[3], v))
    [] e[1] = "OR" -> Most(Value(e[2], v), Value(e[3], v))
    [] OTHER -> TermValue(e, v)

-----------------------------------------------------------------------------
(* Operands of one level of && or ||, by their paths from the root.        *)

PathsUnder(i, paths) == [j \in DOMAIN paths |-> <<i>> \o paths[j]]

RECURSIVE Leaves(_, _), At(_, _), Put(_, _, _)
Leaves(e, type) ==
  IF e[1] # type THEN << <<>> >>
  ELSE PathsUnder(2, Leaves(e[2], type)) \o PathsUnder(3, Leaves(e[3], type))
At(e, p) == IF p = <<>> THEN e ELSE At(e[Head(p)], Tail(p))
Put(e, p, x) ==
  IF p = <<>> THEN x ELSE [e EXCEPT ![Head(p)] = Put(@, Tail(p), x)]

\* The order in which two levels are compared with each other.
Pairs(ps, qs) ==
  [k \in 1..(Len(ps) * Len(qs)) |->
     <<ps[((k - 1) \div Len(qs)) + 1], qs[((k - 1) % Len(qs)) + 1]>>]

Neutral(type) == IF type = "AND" THEN Yes ELSE No
Absorbing(type) == IF type = "AND" THEN No ELSE Yes

WithoutYn(type, l, r) ==
  IF Absorbing(type) \in {l, r} THEN Absorbing(type)
  ELSE IF l = Neutral(type) THEN r
  ELSE IF r = Neutral(type) THEN l
  ELSE <<type, l, r>>

RECURSIVE EliminateYn(_)
EliminateYn(e) ==
  IF e[1] \notin Connective THEN e
  ELSE WithoutYn(e[1], EliminateYn(e[2]), EliminateYn(e[3]))

\* Equal operands of two expressions are dropped from both.
RECURSIVE ExprEq(_, _), EliminateEq(_, _)

EliminateLeaf(type, es, p, q) ==
  With(At(es[1], p), LAMBDA a :
    IF (a = At(es[2], q) /\ a \in {Yes, No}) \/ ~ExprEq(a, At(es[2], q)) THEN es
    ELSE <<Put(es[1], p, Neutral(type)), Put(es[2], q, Neutral(type))>>)

EliminateLevel(type, es) ==
  FoldLeft(LAMBDA acc, pq : EliminateLeaf(type, acc, pq[1], pq[2]), es,
           Pairs(Leaves(es[1], type), Leaves(es[2], type)))

\* First the level of a, then that of b if it is another.
EliminateLevels(es) ==
  FoldLeft(LAMBDA acc, i :
             IF acc[i][1] \in Connective /\ (i = 2 => acc[1][1] # acc[2][1])
             THEN EliminateLevel(acc[i][1], acc) ELSE acc, es, <<1, 2>>)

EliminateEq(a, b) ==
  IF NULL \in {a, b} THEN <<a, b>>
  ELSE With(EliminateLevels(<<a, b>>), LAMBDA es : <<EliminateYn(es[1]), EliminateYn(es[2])>>)

ExprEq(a, b) ==
  /\ a[1] = b[1]
  /\ CASE a[1] \in Connective ->
            With(EliminateEq(a, b), LAMBDA r : r[1][1] = "SYMBOL" /\ r[1] = r[2])
       [] a[1] = "NOT" -> ExprEq(a[2], b[2])
       [] OTHER -> a = b

-----------------------------------------------------------------------------
(* Two operands of a level that one can stand for.                         *)

Join(type, a, b) ==
  IF ExprEq(a, b) THEN a
  ELSE With(Joined(a, b), LAMBDA ss :
         IF ss = {} THEN NULL
         ELSE With(CHOOSE s \in ss : TRUE, LAMBDA s :
                IF type = "OR" THEN OrOf(a, b, s) ELSE AndOf(a, b, s)))

\* One pass over the operands of a level, each with each: the new expression,
\* and how many pairs were joined.
RECURSIVE Dups1(_)

\* The operand at p, simplified itself, and that at q become j, or stay.
Joining(type, e, n, p, q, j) ==
  IF j = NULL THEN <<e, n>> ELSE <<Put(Put(e, p, Neutral(type)), q, j), n + 1>>

JoinLeaf(type, acc, p, q) ==
  IF p = q THEN acc
  ELSE With(At(acc[1], p), LAMBDA a :
       With(IF a[1] \in Connective THEN Dups1(a) ELSE <<a, 0>>, LAMBDA inner :
       With(Put(acc[1], p, inner[1]), LAMBDA e :
         Joining(type, e, acc[2] + inner[2], p, q, Join(type, inner[1], At(e, q))))))

Dups1(e) ==
  FoldLeft(LAMBDA acc, pq : JoinLeaf(e[1], acc, pq[1], pq[2]), <<e, 0>>,
           Pairs(Leaves(e, e[1]), Leaves(e, e[1])))

RECURSIVE EliminateDups(_)
EliminateDups(e) ==
  IF e[1] \notin Connective THEN e
  ELSE With(Dups1(e), LAMBDA pass :
         IF pass[2] = 0 THEN pass[1] ELSE EliminateDups(EliminateYn(pass[1])))

-----------------------------------------------------------------------------
(* Transformations.                                                        *)

RECURSIVE TransBool(_)
TransBool(e) ==
  CASE e[1] \in Connective -> <<e[1], TransBool(e[2]), TransBool(e[3])>>
    [] e[1] = "NOT" -> Not(TransBool(e[2]))
    [] e[1] = "UNEQUAL" /\ e[2] \in TriSym /\ e[3] = "n" -> Sym(e[2])
    [] OTHER -> e

RECURSIVE Transform(_)

\* A negation moves inwards.
TransformNot(e) ==
  LET a == e[2]
  IN  CASE a[1] = "NOT" -> Transform(a[2])
        [] a[1] \in Comparison -> <<Opposite[a[1]], a[2], a[3]>>
        [] a[1] = "OR" -> Transform(<<"AND", Not(a[2]), Not(a[3])>>)
        [] a[1] = "AND" -> Transform(<<"OR", Not(a[2]), Not(a[3])>>)
        [] a \in {Yes, No, Sym("m")} ->
             IF a = Yes THEN No ELSE IF a = No THEN Yes ELSE a
        [] OTHER -> e

Transform(e) ==
  CASE e[1] \in Connective -> <<e[1], Transform(e[2]), Transform(e[3])>>
    [] e[1] = "NOT" -> TransformNot(Not(Transform(e[2])))
    [] e[1] \in Equality -> TransformEquality(e)
    [] OTHER -> e

\* The expression "e compares with s" (EQUAL or UNEQUAL y or n).
RECURSIVE TransCompare(_, _, _)
TransCompare(e, type, s) ==
  LET Wrap(x) == IF type = "UNEQUAL" THEN Not(x) ELSE x
  IN  CASE e = NULL -> Wrap(Sym(s))
        [] e[1] \in Connective ->
             Wrap(<<IF s = "y" THEN e[1] ELSE IF e[1] = "AND" THEN "OR" ELSE "AND",
                    TransCompare(e[2], "EQUAL", s), TransCompare(e[3], "EQUAL", s)>>)
        [] e[1] = "NOT" -> TransCompare(e[2], IF type = "EQUAL" THEN "UNEQUAL" ELSE "EQUAL", s)
        [] e[1] \in Comparison -> IF (type = "EQUAL") = (s = "y") THEN e ELSE Not(e)
        [] OTHER -> <<type, e[2], s>>

RECURSIVE ContainsSymbol(_, _), DependsSymbol(_, _)
ContainsSymbol(e, s) ==
  CASE e[1] \in Connective -> ContainsSymbol(e[2], s) \/ ContainsSymbol(e[3], s)
    [] e[1] = "NOT" -> ContainsSymbol(e[2], s)
    [] e[1] \in Comparison -> s \in {e[2], e[3]}
    [] OTHER -> e = Sym(s)
DependsSymbol(e, s) ==
  CASE e[1] = "AND" -> DependsSymbol(e[2], s) \/ DependsSymbol(e[3], s)
    [] OTHER -> \/ e = Sym(s)
                \/ e[1] = "EQUAL" /\ e[2] = s /\ e[3] \in {"y", "m"}
                \/ e[1] = "UNEQUAL" /\ e[2] = s /\ e[3] = "n"

\* 'm' stands for 'm' && MODULES (menu.c).
RECURSIVE RewriteM(_)
RewriteM(e) ==
  CASE e[1] = "NOT" -> Not(RewriteM(e[2]))
    [] e[1] \in Connective -> <<e[1], RewriteM(e[2]), RewriteM(e[3])>>
    [] e = Sym("m") -> AllocAnd(e, Sym(Modules))
    [] OTHER -> e

=============================================================================
