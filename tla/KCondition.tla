----------------------------- MODULE KCondition -----------------------------
(***************************************************************************)
(* What menu_finalize (support/kconfig/menu.c) does to one condition: a    *)
(* 'depends on' of an entry, or the 'if' of a prompt, default or select.   *)
(* The condition as read becomes the one that is evaluated from then on.   *)
(***************************************************************************)
EXTENDS KExpr

CONSTANTS
  ReadConditions,     \* conditions as the parser builds them
  ParentConditions    \* finished conditions of the enclosing entry

VARIABLES
  cstep,      \* the step that is next, or "idle" or "done"
  read,       \* the condition as read
  parentdep,  \* the condition of the enclosing entry
  tristate,   \* whether the property belongs to a tristate symbol
  cond        \* the condition so far

cvars == <<cstep, read, parentdep, tristate, cond>>

CInit ==
  /\ cstep = "idle"
  /\ read = NULL /\ parentdep = NULL /\ cond = NULL
  /\ tristate = FALSE

CRead ==
  /\ cstep = "idle"
  /\ \E e \in ReadConditions, p \in ParentConditions, t \in BOOLEAN :
       /\ read' = e /\ cond' = e
       /\ parentdep' = p
       /\ tristate' = t
  /\ cstep' = "rewrite_m"

CStep(step, next, new) ==
  /\ cstep = step
  /\ cond' = new
  /\ cstep' = next
  /\ UNCHANGED <<read, parentdep, tristate>>

CRewriteM == CStep("rewrite_m", "transform", RewriteM(cond))
CTransform == CStep("transform", "and", Transform(cond))
CAnd == CStep("and", "dups", AllocAnd(parentdep, cond))
CDups == CStep("dups", IF tristate THEN "done" ELSE "bool", EliminateDups(cond))
CBool == CStep("bool", "done", TransBool(cond))

CNext == CRead \/ CRewriteM \/ CTransform \/ CAnd \/ CDups \/ CBool
CSpec == CInit /\ [][CNext]_cvars

-----------------------------------------------------------------------------
(* What the author of the Config.in file wrote.                            *)

\* 'm' is worth n where there are no modules.
Meant(v) ==
  LET modules == IF Modules = "n" THEN 0 ELSE v[Modules]
      m == IF modules = 0 THEN 0 ELSE 1
      own == Value(read, [s \in DOMAIN v \cup {"m"} |-> IF s = "m" THEN m ELSE v[s]])
      parent == Value(parentdep, v)
  IN  IF cstep \in {"transform", "and"} \/ parent > own THEN own ELSE parent

\* Whatever is simplified, and wherever the condition of the enclosing entry is
\* put, the condition is worth what was written for all values the symbols can
\* have (menu.c:346-398 and the functions of expr.c it calls).  For bools it
\* only matters whether it is n.
ConditionIsKept ==
  cstep \notin {"idle", "rewrite_m"} =>
    \A v \in Valuations :
      IF cstep = "done" /\ ~tristate THEN (Value(cond, v) = 0) = (Meant(v) = 0)
      ELSE Value(cond, v) = Meant(v)

=============================================================================
