------------------------------ MODULE MCSession ------------------------------
EXTENDS KSession, KMenuItems

TheSymbols == <<"MOD", "T", "A", "I", "S", "X", "Y", "C">>

\* What a symbol depends on, which is also the condition of its prompt.
Depends(s) ==
  CASE s \in {"S", "I", "T"} -> Sym("A")
    [] s = "C" -> <<"NOT", Sym("MOD")>>
    [] s = "X" -> Sym("C")
    [] s = "Y" -> <<"AND", Sym("C"), Sym("S")>>
    [] OTHER -> NULL
Described(s, dep) ==
  [type |-> IF s = "I" THEN "int" ELSE IF s = "T" THEN "tristate" ELSE "bool",
   auto |-> FALSE, optional |-> FALSE,
   prompts |-> <<dep>>,
   defaults |-> CASE s = "A" -> <<<<Yes, Yes>>>> [] s = "I" -> <<<<Sym("1"), dep>>>> [] OTHER -> <<>>,
   ranges |-> IF s = "I" THEN <<<<<<"1", "2">>, dep>>>> ELSE <<>>,
   dir |-> dep,
   rev |-> CASE s = "T" -> <<"AND", Sym("S"), dep>> [] s = "C" -> <<"AND", dep, Sym("m")>> [] OTHER -> NULL,
   implied |-> NULL,
   choice |-> IF s \in {"X", "Y"} THEN "C" ELSE None,
   values |-> IF s = "C" THEN <<"X", "Y">> ELSE <<>>]
TheDef == [s \in {"MOD", "T", "A", "I", "S", "X", "Y", "C"} |-> Described(s, Depends(s))]
TheLiterals == [x \in {"1", "2", "m", "y", "n"} |->
                 IF x \in {"1", "m"} THEN 1 ELSE IF x = "n" THEN 0 ELSE 2]

\* Two menus, of which one depends on A, and the choice.
TheNode ==
  [n \in {"root", "sub", "MOD", "A", "C", "S", "I", "T", "X", "Y"} |->
     [sym |-> IF n \in {"root", "sub"} THEN None ELSE n,
      prompt |-> IF n \in {"root", "sub"} THEN "MENU" ELSE "PROMPT",
      cond |-> IF n = "sub" THEN Sym("A") ELSE NULL,
      visibility |-> NULL,
      list |-> CASE n = "root" -> <<"MOD", "A", "C", "sub">>
                 [] n = "sub" -> <<"S", "I", "T">>
                 [] n = "C" -> <<"X", "Y">>
                 [] OTHER -> <<>>]]

\* A file of another version of the menus: what is out of sight, out of range,
\* twice, and gone.
OldFile == <<<<"GONE", 2>>, <<"A", 2>>, <<"I", 3>>, <<"MOD", 0>>, <<"X", 2>>, <<"X", 2>>>>
\* What syncconfig had made of that one.
OldAuto == <<<<"GONE", 2>>, <<"A", 2>>, <<"I", 3>>, <<"X", 2>>>>
TheInitial == {<<NoFile, {}>>, <<OldFile, Range(OldAuto)>>}
TheDraws == {[values |-> [s \in Range(TheSymbols) |-> t], picks |-> [C |-> p]] :
              t \in {0, 2}, p \in {"X", "Y"}}

\* TLC evaluates a definition once, but one that stands for a constant each time.
MCSymbols == TheSymbols
MCDef == TheDef
MCLiterals == TheLiterals
MCNode == TheNode
MCInitial == TheInitial
MCDraws == TheDraws

===============================================================================
