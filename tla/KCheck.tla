------------------------------- MODULE KCheck -------------------------------
(***************************************************************************)
(* The search for recursive dependencies, support/kconfig/symbol.c: after  *)
(* the menus are read, conf_parse (zconf.y) has sym_check_deps follow what *)
(* every symbol depends on, from each symbol in turn.  Of an expression    *)
(* only the symbols in it count, in their order.                           *)
(***************************************************************************)
EXTENDS Naturals, Sequences, SequencesExt

CONSTANT
  Graphs    \* what symbols refer to: records of rev, props and values

VARIABLES
  checking,  \* idle, checking, done, exited
  graph,     \* rev: symbols of rev_dep; props: the properties; values: those of choices
  looked,    \* the symbols that conf_parse has called sym_check_deps for
  search,    \* the flags, the stack and what has been printed
  yynerrs

checkvars == <<checking, graph, looked, search, yynerrs>>

Nothing == "NULL"

CheckInit ==
  /\ checking = "idle" /\ graph = [rev |-> <<>>, props |-> <<>>, values |-> <<>>]
  /\ looked = {} /\ yynerrs = 0
  /\ search = [check |-> {}, checked |-> {}, stack |-> <<>>, printed |-> <<>>, found |-> Nothing]

Checked == DOMAIN graph.rev
HasValues(s) == s \in DOMAIN graph.values
ValueOf(s) == {c \in DOMAIN graph.values : s \in Range(graph.values[c])}
ItsChoice(s) == CHOOSE c \in ValueOf(s) : TRUE

-----------------------------------------------------------------------------
(* The stack of symbols that are followed.  how tells by which of its      *)
(* conditions the symbol led to the next one.                              *)

DepStackInsert(f, s) == [f EXCEPT !.stack = Append(@, [sym |-> s, how |-> "itself"])]
DepStackRemove(f) == [f EXCEPT !.stack = Front(@)]

\* Print the part of the stack that starts with the last call for the symbol
\* it came back to; a value stands for its choice.
PrintRecursive(f, s) ==
  LET stack == IF ValueOf(s) = {} THEN f.stack ELSE DepStackInsert(f, s).stack
      last == IF ValueOf(s) = {} THEN s ELSE ItsChoice(s)
      from == SelectLastInSeq(stack, LAMBDA e : e.sym = last)
      line(i) == [stack[i] EXCEPT !.how = [sym |-> IF i = Len(stack) THEN last ELSE stack[i + 1].sym,
                                           by |-> stack[i].how]]
  IN  IF from = 0 THEN [f EXCEPT !.printed = Append(@, <<>>), !.stack = stack]
      ELSE [f EXCEPT !.printed = Append(@, [i \in 1..Len(stack) - from + 1 |-> line(from + i - 1)])]

-----------------------------------------------------------------------------

Mark(f, S) == [f EXCEPT !.check = @ \cup S, !.checked = @ \cup S]
Unmark(f, S) == [f EXCEPT !.check = @ \ S]

RECURSIVE CheckDeps(_, _)

\* The symbols of an expression, until one leads to a recursion.
CheckExprDeps(f, refs) ==
  FoldLeft(LAMBDA g, s : IF g.found # Nothing THEN g ELSE CheckDeps(g, s), f, refs)

\* What a symbol refers to: what selects it, the conditions of its properties
\* and, of a default, the value.  What implies it and ranges are not looked at.
Looks(s) ==
  <<[how |-> "selected by", refs |-> graph.rev[s]]>>
    \o FlattenSeq([i \in DOMAIN graph.props[s] |->
         LET p == graph.props[s][i]
             visible == <<[how |-> "depends on", refs |-> p.visible]>>
         IN  IF p.type \in {"CHOICE", "SELECT"} THEN <<>>
             ELSE IF p.type # "DEFAULT" \/ HasValues(s) THEN visible
             ELSE Append(visible, [how |-> "value contains", refs |-> p.value])])

CheckSymDeps(f, s) ==
  DepStackRemove(
    FoldLeft(LAMBDA g, l : IF g.found # Nothing THEN g
                           ELSE CheckExprDeps([g EXCEPT !.stack[Len(g.stack)].how = l.how], l.refs),
             DepStackInsert(f, s), Looks(s)))

\* mutant: values are marked one by one
CheckChoiceDepsMutant(f, c) ==
  LET own == Unmark(CheckSymDeps(Mark(DepStackInsert(f, c), {c}), c), {c})
      all == FoldLeft(LAMBDA g, v : IF g.found # Nothing THEN g
                                    ELSE Unmark(CheckSymDeps(Mark(g, {v}), v), {v}),
                      own, graph.values[c])
  IN  DepStackRemove(IF all.found \in Range(graph.values[c]) THEN [all EXCEPT !.found = c] ELSE all)

\* A choice and its values are one: a path to any of them comes back to all.
CheckChoiceDeps(f, c) ==
  LET values == Range(graph.values[c])
      own == Unmark(CheckSymDeps(Mark(DepStackInsert(f, c), values \cup {c}), c), {c})
      all == FoldLeft(LAMBDA g, v : IF g.found # Nothing THEN g ELSE CheckSymDeps(g, v),
                      own, graph.values[c])
      end == Unmark(all, values)
  IN  DepStackRemove(IF end.found \in values THEN [end EXCEPT !.found = c] ELSE end)

\* found is the symbol that a path came back to, until it is back there itself.
CheckDeps(f, s) ==
  IF s \in f.check THEN [PrintRecursive(f, s) EXCEPT !.found = s]
  ELSE IF s \in f.checked THEN f
  ELSE LET g == IF ValueOf(s) # {}
                THEN DepStackRemove(CheckDeps(DepStackInsert(f, s), ItsChoice(s)))
                ELSE IF HasValues(s) THEN CheckChoiceDeps(f, s)
                ELSE Unmark(CheckSymDeps(Mark(f, {s}), s), {s})
       IN  IF g.found = s THEN [g EXCEPT !.found = Nothing] ELSE g

ReadGraph ==
  /\ checking = "idle" /\ checking' = "checking"
  /\ graph' \in Graphs
  /\ UNCHANGED <<looked, search, yynerrs>>

\* for_all_symbols: in the order of a hash.
CheckSymbol ==
  /\ checking = "checking"
  /\ \E s \in Checked \ looked :
       LET f == CheckDeps(search, s)
       IN  /\ looked' = looked \cup {s}
           /\ search' = [f EXCEPT !.found = Nothing]
           /\ yynerrs' = IF f.found # Nothing THEN yynerrs + 1 ELSE yynerrs
  /\ UNCHANGED <<checking, graph>>

EndCheck ==
  /\ checking = "checking" /\ looked = Checked
  /\ checking' = IF yynerrs = 0 THEN "done" ELSE "exited"
  /\ UNCHANGED <<graph, looked, search, yynerrs>>

CheckNext == ReadGraph \/ CheckSymbol \/ EndCheck
CheckSpec == CheckInit /\ [][CheckNext]_checkvars

-----------------------------------------------------------------------------
(* Properties                                                              *)

RefersTo(s) == UNION {Range(Looks(s)[i].refs) : i \in DOMAIN Looks(s)}

\* A choice and its values are one; that a value needs its choice is no cycle.
Group(s) == IF ValueOf(s) = {} THEN s ELSE ItsChoice(s)
Needs ==
  {<<Group(s), Group(t)>> : <<s, t>> \in
     {e \in Checked \X Checked : e[2] \in RefersTo(e[1]) /\ e[2] \notin ValueOf(e[1])}}

\* A set of symbols in which each needs one of them.
Cyclic ==
  \E S \in SUBSET {Group(s) : s \in Checked} :
    S # {} /\ \A g \in S : \E h \in S : <<g, h>> \in Needs

\* The user is told of a recursive dependency exactly when there is one,
\* whatever symbol the search starts from, although it passes every symbol once
\* and stops at the first way back; and what is printed is a cycle.  The
\* program goes on: sym_check_deps has forgotten about it when it is back at
\* the symbol, so that conf_parse never counts one (symbol.c:1340, zconf.y:554-559).
CyclesAreTold ==
  /\ checking \in {"done", "exited"} => (search.printed # <<>>) = Cyclic
  /\ \A i \in DOMAIN search.printed :
       LET chain == search.printed[i]
       IN  /\ chain # <<>>
           /\ chain[Len(chain)].how.sym = chain[1].sym
           /\ \A k \in DOMAIN chain :
                LET s == chain[k].sym
                    t == chain[k].how.sym
                IN  /\ k < Len(chain) => chain[k + 1].sym = t
                    /\ \/ t \in RefersTo(s) \cup ValueOf(s)
                       \/ s \in ValueOf(t) \/ (s = t /\ HasValues(s))
  /\ search.stack = <<>> /\ search.check = {} /\ yynerrs = 0

=============================================================================
