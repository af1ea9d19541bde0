------------------------------- MODULE KTerms -------------------------------
(***************************************************************************)
(* What the expressions of support/kconfig/expr.c are made of, symbols and *)
(* comparisons: their tristate values, and which one can stand for two of  *)
(* them, or for the negation of one.                                       *)
(*                                                                         *)
(* An expression is a tuple: its type, then its operands, symbols for      *)
(* comparisons.                                                            *)
(***************************************************************************)
EXTENDS Integers

CONSTANTS
  BoolSym,   \* the symbols of type bool
  TriSym,    \* those of type tristate
  Modules    \* the bool symbol with "option modules", or "n" if there is none

ASSUME ExprConstants ==
  /\ BoolSym \cap TriSym = {}
  /\ {"y", "m", "n"} \cap (BoolSym \cup TriSym) = {}
  /\ Modules \in BoolSym \cup {"n"}

NULL == <<"NULL">>
Sym(s) == <<"SYMBOL", s>>
Yes == Sym("y")
No == Sym("n")
Not(e) == <<"NOT", e>>
AllocAnd(a, b) == IF a = NULL THEN b ELSE IF b = NULL THEN a ELSE <<"AND", a, b>>
AllocOr(a, b) == IF a = NULL THEN b ELSE IF b = NULL THEN a ELSE <<"OR", a, b>>

Equality == {"EQUAL", "UNEQUAL"}
Comparison == Equality \cup {"LTH", "LEQ", "GTH", "GEQ"}
Connective == {"AND", "OR"}

\* F of x, which is evaluated once, and before anything else of F is.
With(x, F(_)) == CHOOSE y \in {F(z) : z \in {x}} : TRUE

-----------------------------------------------------------------------------
(* Values: 0, 1 and 2 for n, m and y.                                      *)

Constant == [y |-> 2, m |-> 1, n |-> 0]

\* The values symbols can have together: only bools exist without modules.
Valuations ==
  {v \in [BoolSym \cup TriSym -> 0..2] :
     /\ \A s \in BoolSym : v[s] # 1
     /\ (IF Modules = "n" THEN 0 ELSE v[Modules]) = 0 => \A s \in TriSym : v[s] # 1}

TriValue(s, v) == IF s \in DOMAIN Constant THEN Constant[s] ELSE v[s]

\* y, m and n themselves have no type: they are compared as strings.
Rank(t) == IF t = 1 THEN 0 ELSE IF t = 0 THEN 1 ELSE 2
Operand(e, t) == IF {e[2], e[3]} \cap DOMAIN Constant = {} THEN t ELSE Rank(t)

Compare(type, l, r) ==
  \/ type = "EQUAL" /\ l = r
  \/ type = "UNEQUAL" /\ l # r
  \/ type = "LTH" /\ l < r
  \/ type = "LEQ" /\ l <= r
  \/ type = "GTH" /\ l > r
  \/ type = "GEQ" /\ l >= r

Compares(e, v) ==
  Compare(e[1], Operand(e, TriValue(e[2], v)), Operand(e, TriValue(e[3], v)))

Least(a, b) == IF a < b THEN a ELSE b
Most(a, b) == IF a > b THEN a ELSE b

\* A symbol or a comparison.
TermValue(e, v) ==
  IF e[1] = "SYMBOL" THEN IF e[2] \in DOMAIN v THEN v[e[2]] ELSE Constant[e[2]]
  ELSE IF Compares(e, v) THEN 2 ELSE 0

-----------------------------------------------------------------------------
(* Two operands of || or && that one expression can stand for (or NULL).   *)

\* One is a symbol, the other compares it with one of rights.
IsWith(a, b, type, rights) ==
  \/ a[1] = "SYMBOL" /\ b[1] = type /\ b[3] \in rights
  \/ b[1] = "SYMBOL" /\ a[1] = type /\ a[3] \in rights

\* The symbol both are about, if they have a form that can be joined.
Joined(a, b) ==
  LET simple == Equality \cup {"SYMBOL"}
      fit == /\ a[1] \in simple \/ (a[1] = "NOT" /\ a[2][1] \in simple)
             /\ b[1] \in simple \/ (b[1] = "NOT" /\ b[2][1] = "SYMBOL")
      of(e) == IF e[1] = "NOT" THEN e[2][2] ELSE e[2]
  IN  IF fit /\ of(a) = of(b) /\ of(a) \in BoolSym \cup TriSym THEN {of(a)} ELSE {}

\* What remains of the three values when two comparisons name the other two.
Third(x, y) == CHOOSE z \in DOMAIN Constant : z \notin {x, y}

\* Both about s.
OrOf(a, b, s) ==
  IF /\ s \in TriSym /\ a[1] = "EQUAL" /\ b[1] = "EQUAL"
     /\ a[3] # b[3] /\ {a[3], b[3]} \subseteq DOMAIN Constant
  THEN <<"UNEQUAL", s, Third(a[3], b[3])>>
  ELSE IF s \in BoolSym /\ {a, b} = {Not(Sym(s)), Sym(s)} THEN Yes
  ELSE NULL

\* mutant: the test for a constant of the other operand is not made
AndOfMutant(a, b, s) ==
  IF IsWith(a, b, "EQUAL", DOMAIN Constant) THEN <<"EQUAL", s, "y">> ELSE NULL

AndOf(a, b, s) ==
  IF IsWith(a, b, "EQUAL", {"y"}) \/ IsWith(a, b, "UNEQUAL", {"m"}) THEN <<"EQUAL", s, "y">>
  ELSE IF IsWith(a, b, "UNEQUAL", {"n"}) THEN Sym(s)
  ELSE IF s \notin TriSym THEN NULL
  ELSE IF /\ {a[1], b[1]} = Equality
          /\ {a[3], b[3]} \subseteq DOMAIN Constant
       THEN IF a[3] = b[3] THEN No
            ELSE <<"EQUAL", s, IF a[1] = "EQUAL" THEN a[3] ELSE b[3]>>
  ELSE IF /\ a[1] = "UNEQUAL" /\ b[1] = "UNEQUAL" /\ a[3] # b[3]
          /\ {a[3], b[3]} \subseteq DOMAIN Constant
       THEN <<"EQUAL", s, Third(a[3], b[3])>>
  ELSE NULL

-----------------------------------------------------------------------------
(* The negation of a comparison, and a comparison that says no more than   *)
(* its symbol.                                                             *)

Opposite == [EQUAL |-> "UNEQUAL", UNEQUAL |-> "EQUAL", LEQ |-> "GTH", GEQ |-> "LTH",
             LTH |-> "GEQ", GTH |-> "LEQ"]

\* A bool compared with a constant.
TransformEquality(e) ==
  IF e[2] \notin BoolSym \/ e[3] \notin DOMAIN Constant THEN e
  ELSE IF e[3] = "m" THEN IF e[1] = "EQUAL" THEN No ELSE Yes
  ELSE IF (e[1] = "EQUAL") = (e[3] = "y") THEN Sym(e[2]) ELSE Not(Sym(e[2]))

=============================================================================
