------------------------------- MODULE KMenu -------------------------------
(***************************************************************************)
(* The menu tree of support/kconfig/menu.c: how the statements of the      *)
(* Config.in files (the actions of zconf.y) build it, and how              *)
(* menu_finalize turns what was written into the tree that the front ends  *)
(* show and the conditions that the symbols have.                          *)
(*                                                                         *)
(* Every symbol has its type from the start: the one a choice takes from   *)
(* its values, or they from it, is not looked for.                         *)
(***************************************************************************)
EXTENDS KExpr

CONSTANTS
  ChoiceSyms,         \* the symbols of choices
  OptionalChoices,    \* those with the keyword optional
  Configs,            \* config statements: records of sym, dep, prompt (a set of
                      \* at most one condition) and select (at most one symbol)
  IfConditions,       \* the conditions of ifs and menus,
  Visibilities,       \* and of 'visible if'
  MaxEntries          \* bound: entries in all files

ASSUME MenuConstants ==
  /\ ChoiceSyms \subseteq BoolSym \cup TriSym
  /\ OptionalChoices \subseteq ChoiceSyms
  /\ MaxEntries \in Nat

VARIABLES
  tree,           \* the entries, the properties and the symbols
  current_entry,  \* the last entry read,
  current_menu,   \* the entry that new ones go under,
  last_entry_ptr, \* and the pointer to set to the next: an entry and a field
  parsed          \* the tree as read, once it is finalized

mvars == <<tree, current_entry, current_menu, last_entry_ptr, parsed>>

NoSym == "none"
Root == 1
Nil == 0

Entry(s, parent) ==
  [sym |-> s, dep |-> NULL, visibility |-> NULL, prompt |-> Nil,
   list |-> Nil, next |-> Nil, parent |-> parent]

Property(type, menu, to, dep) == [type |-> type, menu |-> menu, to |-> to, visible |-> dep]

NoTree == [node |-> <<>>, props |-> <<>>, rev_dep |-> <<>>, dir_dep |-> <<>>, values |-> <<>>]

\* The tree before the first statement: rootmenu with its title.
EmptyTree ==
  [node |-> << [Entry(NoSym, Nil) EXCEPT !.prompt = 1] >>,
   props |-> << Property("MENU", Root, NoSym, NULL) >>,
   rev_dep |-> [s \in BoolSym \cup TriSym |-> NULL],
   dir_dep |-> [s \in BoolSym \cup TriSym |-> NULL],
   values |-> [c \in ChoiceSyms |-> <<>>]]

Entries(t) == DOMAIN t.node \ {Root}

-----------------------------------------------------------------------------
(* Reading.                                                                *)

AddEntry(t, s) ==
  LET n == Len(t.node) + 1
      linked == IF last_entry_ptr[2] = "list"
                THEN [t.node EXCEPT ![last_entry_ptr[1]].list = n]
                ELSE [t.node EXCEPT ![last_entry_ptr[1]].next = n]
  IN  [t EXCEPT !.node = Append(linked, Entry(s, current_menu))]

AddDep(t, dep) == [t EXCEPT !.node[Len(t.node)].dep = AllocAnd(@, dep)]
AddVisibility(t, e) == [t EXCEPT !.node[Len(t.node)].visibility = AllocAnd(@, e)]
AddProp(t, type, to, dep) == [t EXCEPT !.props = Append(@, Property(type, Len(t.node), to, dep))]

\* The entries around n, from the innermost.
RECURSIVE Around(_, _)
Around(t, n) ==
  IF t.node[n].parent = Nil THEN <<>>
  ELSE <<t.node[n].parent>> \o Around(t, t.node[n].parent)

\* mutant: only the visibility of the innermost menu
AddPromptMutant(t, type, dep) ==
  LET around == Around(t, Len(t.node))
      all == IF around = <<>> THEN dep ELSE AllocAnd(dep, t.node[around[1]].visibility)
      u == AddProp(t, type, NoSym, IF type = "PROMPT" THEN all ELSE dep)
  IN  [u EXCEPT !.node[Len(t.node)].prompt = Len(u.props)]

\* A prompt gets the visibility of all menus around.
AddPrompt(t, type, dep) ==
  LET all == FoldLeft(LAMBDA e, m : AllocAnd(e, t.node[m].visibility), dep, Around(t, Len(t.node)))
      u == AddProp(t, type, NoSym, IF type = "PROMPT" THEN all ELSE dep)
  IN  [u EXCEPT !.node[Len(t.node)].prompt = Len(u.props)]

Reading == parsed = NoTree
MayAdd == Reading /\ Len(tree.node) <= MaxEntries

\* The new entry ends here, so the next follows it.
Closed ==
  /\ current_entry' = Len(tree.node) + 1
  /\ last_entry_ptr' = <<Len(tree.node) + 1, "next">>
  /\ UNCHANGED <<current_menu, parsed>>

\* Or it is open, and the next is below it (menu_add_menu).
Opened ==
  /\ current_entry' = Len(tree.node) + 1
  /\ current_menu' = Len(tree.node) + 1
  /\ last_entry_ptr' = <<Len(tree.node) + 1, "list">>
  /\ UNCHANGED parsed

ReadConfig ==
  /\ MayAdd
  /\ \E c \in Configs :
       LET t == AddDep(AddEntry(tree, c.sym), c.dep)
           p == IF c.prompt = {} THEN t ELSE AddPrompt(t, "PROMPT", CHOOSE e \in c.prompt : TRUE)
       IN  tree' = IF c.select = {} THEN p
                   ELSE AddProp(p, "SELECT", CHOOSE s \in c.select : TRUE, NULL)
  /\ Closed

ReadComment ==
  /\ MayAdd
  /\ \E e \in IfConditions : tree' = AddDep(AddPrompt(AddEntry(tree, NoSym), "COMMENT", NULL), e)
  /\ Closed

ReadIf ==
  /\ MayAdd
  /\ \E e \in IfConditions : tree' = AddDep(AddEntry(tree, NoSym), e)
  /\ Opened

\* A choice holds neither menus nor choices itself (an 'if' in it may).
NotInChoice == tree.node[current_menu].sym \notin ChoiceSyms

ReadMenu ==
  /\ MayAdd /\ NotInChoice
  /\ \E e \in IfConditions, w \in Visibilities :
       tree' = AddDep(AddVisibility(AddPrompt(AddEntry(tree, NoSym), "MENU", NULL), w), e)
  /\ Opened

ReadChoice ==
  /\ MayAdd /\ NotInChoice
  /\ \E c \in ChoiceSyms :
       /\ \A n \in Entries(tree) : tree.node[n].sym # c
       /\ tree' = AddPrompt(AddEntry(tree, c), "PROMPT", NULL)
  /\ Opened

\* endif, endmenu and endchoice.
ReadEnd ==
  /\ Reading /\ current_menu # Root
  /\ last_entry_ptr' = <<current_menu, "next">>
  /\ current_menu' = tree.node[current_menu].parent
  /\ UNCHANGED <<tree, current_entry, parsed>>

-----------------------------------------------------------------------------
(* Finalizing.                                                             *)

SymOf(t, n) == t.node[n].sym
IsSymbol(s) == s # NoSym
PromptOf(t, n) ==
  IF t.node[n].prompt = Nil THEN NULL ELSE t.props[t.node[n].prompt].visible

RECURSIVE Chain(_, _)
Chain(t, n) == IF n = Nil THEN <<>> ELSE <<n>> \o Chain(t, t.node[n].next)

Simplified(dep, e) == EliminateDups(AllocAnd(dep, Transform(RewriteM(e))))

ParentDep(t, n) ==
  IF SymOf(t, n) \in ChoiceSyms THEN Sym(SymOf(t, n))
  ELSE IF t.node[n].prompt # Nil THEN PromptOf(t, n)
  ELSE t.node[n].dep

\* The conditions of the properties of n.
WithConditions(t, n, Dep(_)) ==
  [i \in DOMAIN t.props |->
     IF t.props[i].menu # n THEN t.props[i] ELSE [t.props[i] EXCEPT !.visible = Dep(@)]]

\* mutant: the conditions of n are not needed
SelectMutant(t, n) ==
  FoldLeft(LAMBDA rev, p :
             IF p.menu # n \/ p.type # "SELECT" THEN rev
             ELSE [rev EXCEPT ![p.to] = AllocOr(@, Sym(SymOf(t, n)))],
           t.rev_dep, t.props)

\* What n selects.
Select(t, n) ==
  FoldLeft(LAMBDA rev, p :
             IF p.menu # n \/ p.type # "SELECT" THEN rev
             ELSE [rev EXCEPT ![p.to] = AllocOr(@, AllocAnd(Sym(SymOf(t, n)), p.visible))],
           t.rev_dep, t.props)

\* Only tristate symbols need more of a condition than whether it is n.
ForType(s, e) == IF IsSymbol(s) /\ s \notin TriSym THEN TransBool(e) ELSE e

\* The conditions of an entry get those of its parent; what it selects gets
\* them too.
Propagate(t, parentdep, n) ==
  With(Simplified(parentdep, t.node[n].dep), LAMBDA basedep :
  With([t EXCEPT !.node[n].dep = basedep,
                 !.props = WithConditions(t, n, LAMBDA e :
                             ForType(SymOf(t, n), Simplified(basedep, e)))], LAMBDA u :
    [u EXCEPT !.rev_dep = Select(u, n)]))

Reduced(e) == EliminateDups(Transform(TransCompare(e, "UNEQUAL", "n")))

DepOf(t, n) == IF t.node[n].prompt = Nil THEN t.node[n].dep ELSE PromptOf(t, n)

\* mutant: the rest of the condition of the entry is not looked at
DependsOnMutant(t, n, s, basedep) ==
  ContainsSymbol(DepOf(t, n), s)

\* Whether n goes below the symbol s, whose prompt needs basedep.
DependsOn(t, n, s, basedep) ==
  /\ ContainsSymbol(DepOf(t, n), s)
  /\ DependsSymbol(DepOf(t, n), s) \/ EliminateEq(Reduced(DepOf(t, n)), basedep)[2] = Yes

\* A value of a choice.
AddValue(t, c, n) ==
  With(IF c \notin TriSym \/ SymOf(t, n) \in TriSym THEN t
       ELSE [t EXCEPT !.node[n].dep = AllocAnd(<<"EQUAL", c, "y">>, @),
                      !.props = WithConditions(t, n, LAMBDA e : AllocAnd(<<"EQUAL", c, "y">>, e))],
       LAMBDA u : [u EXCEPT !.values[c] = Append(@, SymOf(t, n))])

\* mutant: a symbol may become a value again
IsChoiceValueMutant(t, s) == FALSE

IsChoiceValue(t, s) == \E c \in ChoiceSyms : s \in Range(t.values[c])

\* mutant: the entries keep their parent
LiftMutant(t, n, below) ==
  [m \in DOMAIN t.node |->
     IF m = n THEN [t.node[m] EXCEPT !.next = t.node[n].list, !.list = Nil]
     ELSE IF m = Last(below) THEN [t.node[m] EXCEPT !.next = t.node[n].next]
     ELSE t.node[m]]

\* The entries below n follow it instead.
Lift(t, n, below) ==
  [m \in DOMAIN t.node |->
     IF m = n THEN [t.node[m] EXCEPT !.next = t.node[n].list, !.list = Nil]
     ELSE IF m \notin Range(below) THEN t.node[m]
     ELSE [t.node[m] EXCEPT !.parent = t.node[n].parent,
                            !.next = IF m = Last(below) THEN t.node[n].next ELSE @]]
Flatten(t, n) == [t EXCEPT !.node = Lift(t, n, Chain(t, t.node[n].list))]

RECURSIVE Finalize(_, _), FinalizeList(_, _), Gather(_, _, _, _, _), FinishList(_, _, _)

FinalizeList(t, n) ==
  IF n = Nil THEN t
  ELSE With(Finalize(t, n), LAMBDA u : FinalizeList(u, u.node[n].next))

\* The entries from n on that depend on p, each finalized and below p; last is
\* the last of them.
Gather(t, p, basedep, n, last) ==
  IF n = Nil \/ ~DependsOn(t, n, SymOf(t, p), basedep) THEN <<t, last>>
  ELSE With([Finalize(t, n) EXCEPT !.node[n].parent = p], LAMBDA u :
         Gather(u, p, basedep, u.node[n].next, n))

\* mutant: the last place of a symbol is the only one that counts
AddPlaceMutant(t, p) == [t EXCEPT !.dir_dep[SymOf(t, p)] = t.node[p].dep]

AddPlace(t, p) == [t EXCEPT !.dir_dep[SymOf(t, p)] = AllocOr(@, t.node[p].dep)]

\* The entries up to last move below p.
MoveBelow(t, p, last) ==
  IF last = Nil THEN t
  ELSE [t EXCEPT !.node[p].list = t.node[p].next,
                 !.node[p].next = t.node[last].next,
                 !.node[last].next = Nil]

Submenu(t, p) ==
  With(Gather(t, p, Reduced(PromptOf(t, p)), t.node[p].next, Nil), LAMBDA g :
    AddPlace(MoveBelow(g[1], p, g[2]), p))

\* The last loop over the entries below p, from n on.
FinishEntry(t, c, n) ==
  With(IF c \in ChoiceSyms /\ IsSymbol(SymOf(t, n)) /\ ~IsChoiceValue(t, SymOf(t, n))
       THEN AddValue(t, c, n) ELSE t, LAMBDA u :
    IF u.node[n].list # Nil /\ u.node[n].prompt = Nil THEN Flatten(u, n) ELSE u)
FinishList(t, p, n) ==
  IF n = Nil THEN t
  ELSE With(FinishEntry(t, SymOf(t, p), n), LAMBDA u : FinishList(u, p, u.node[n].next))

\* What is below p.
FinalizeBelow(t, p) ==
  IF t.node[p].list # Nil
  THEN FinalizeList(FoldLeft(LAMBDA u, n : Propagate(u, ParentDep(t, p), n),
                             t, Chain(t, t.node[p].list)),
                    t.node[p].list)
  ELSE IF IsSymbol(SymOf(t, p)) THEN Submenu(t, p)
  ELSE t

Finalize(t, p) ==
  With(FinalizeBelow(t, p), LAMBDA u :
  With(FinishList(u, p, u.node[p].list), LAMBDA v :
    IF SymOf(t, p) \in ChoiceSyms \ OptionalChoices
    THEN [v EXCEPT !.rev_dep[SymOf(t, p)] = AllocOr(@, AllocAnd(PromptOf(v, p), Sym("m")))]
    ELSE v))

\* The end of the last file (conf_parse).
Parsed ==
  /\ Reading /\ current_menu = Root
  /\ parsed' = tree
  /\ tree' = Finalize(tree, Root)
  /\ UNCHANGED <<current_entry, current_menu, last_entry_ptr>>

MInit ==
  /\ tree = EmptyTree
  /\ current_entry = Root /\ current_menu = Root
  /\ last_entry_ptr = <<Root, "list">>
  /\ parsed = NoTree

MNext ==
  \/ ReadConfig \/ ReadComment \/ ReadIf \/ ReadMenu \/ ReadChoice \/ ReadEnd
  \/ Parsed

MSpec == MInit /\ [][MNext]_mvars

-----------------------------------------------------------------------------
(* Properties of a finalized tree.                                         *)

Finalized == ~Reading

RECURSIVE InOrder(_, _)
InOrder(t, n) ==
  <<n>> \o FlattenSeq([i \in DOMAIN Chain(t, t.node[n].list) |->
                         InOrder(t, Chain(t, t.node[n].list)[i])])

\* The pointers of three loops that move entries between lists while they walk
\* them leave a tree in which every entry is found once, below the entry its
\* parent pointer names, and in the order of the files (menu.c:448-494, 567-576).
EntriesStayInOrder ==
  Finalized =>
    /\ InOrder(tree, Root) = [i \in DOMAIN tree.node |-> i]
    /\ \A n \in DOMAIN tree.node : \A i \in DOMAIN Chain(tree, tree.node[n].list) :
         tree.node[Chain(tree, tree.node[n].list)[i]].parent = n

Greatest(S) == IF S = {} THEN 0 ELSE CHOOSE x \in S : \A y \in S : x >= y

\* What the author wrote: the conditions of the entry and of all around it, up
\* to a choice, which stands for what is around itself.
Written(v) ==
  LET modules == IF Modules = "n" THEN 0 ELSE v[Modules]
      w == [s \in DOMAIN v \cup {"m"} |-> IF s = "m" THEN Least(1, modules) ELSE v[s]]
      Own(e) == Value(e, w)
      f[n \in DOMAIN parsed.node] ==
        LET p == parsed.node[n].parent
            own == Own(parsed.node[n].dep)
        IN  IF p = Nil THEN own
            ELSE IF SymOf(parsed, p) \in ChoiceSyms THEN Least(own, v[SymOf(parsed, p)])
            ELSE Least(own, f[p])
  IN  f

\* A symbol that is defined in several places may be set as far as one of them
\* allows, the conditions of the entries around it included (menu.c:346-352, 496).
\* A place without any condition does not count once another has one: for
\* expr_alloc_or no expression is no operand.
DependenciesAddUp ==
  Finalized =>
    \A v \in Valuations, s \in (BoolSym \cup TriSym) \ ChoiceSyms :
      LET places == {n \in Entries(tree) : SymOf(tree, n) = s}
          conditional == {n \in places : tree.node[n].dep # NULL}
      IN  IF conditional = {} THEN tree.dir_dep[s] = NULL
          ELSE Value(tree.dir_dep[s], v) = Greatest({Written(v)[n] : n \in conditional})

\* A symbol is selected exactly when a symbol that selects it is set and the
\* place where it does is active (menu.c:404-408).
SelectsReachTheirTarget ==
  Finalized =>
    \A v \in Valuations, s \in (BoolSym \cup TriSym) \ ChoiceSyms :
      LET active == {i \in DOMAIN parsed.props :
                       /\ parsed.props[i].type = "SELECT" /\ parsed.props[i].to = s
                       /\ v[SymOf(parsed, parsed.props[i].menu)] # 0
                       /\ Written(v)[parsed.props[i].menu] # 0}
          rev == tree.rev_dep[s]
      IN  (rev # NULL /\ Value(rev, v) # 0) = (active # {})

\* A prompt is shown exactly when its entry, the entries around it and the
\* 'visible if' of all menus around it say so (menu.c:144-168, 387-398).
PromptsAreShown ==
  Finalized =>
    \A v \in Valuations, n \in Entries(parsed) :
      parsed.node[n].prompt # Nil =>
        LET shown == Value(PromptOf(tree, n), v) # 0
        IN  /\ shown = (Written(v)[n] # 0 /\ Value(PromptOf(parsed, n), v) # 0)
            /\ shown /\ parsed.props[parsed.node[n].prompt].type = "PROMPT" =>
                 \A m \in Range(Around(parsed, n)) : Value(parsed.node[m].visibility, v) # 0

\* The values of a choice are the symbols that end up right below it, each
\* once: those of an 'if' in it too, and not those that depend on another value
\* and moved below that one (menu.c:498-537).
ValuesAreBelowTheirChoice ==
  Finalized =>
    \A n \in Entries(tree) :
      LET c == SymOf(tree, n)
          below == {SymOf(tree, m) : m \in Range(Chain(tree, tree.node[n].list))} \ {NoSym}
      IN  c \in ChoiceSyms => /\ Range(tree.values[c]) = below
                           /\ Len(tree.values[c]) = Cardinality(below)

\* No symbol is set against its dependencies, as a select can (the program warns).
DependenciesMet(v) ==
  \A s \in BoolSym \cup TriSym : v[s] <= Value(tree.dir_dep[s], v)

\* An entry that was moved below a symbol because it depends on it can only be
\* shown where that symbol is set or shown itself: nothing to set gets out of
\* reach (menu.c:448-494).  Without modules, and where every symbol is defined in
\* one place: the entry of another place may not be shown.
DefinedOnce(t) ==
  \A n, m \in Entries(t) : SymOf(t, n) = SymOf(t, m) /\ IsSymbol(SymOf(t, n)) => n = m

NothingIsHidden ==
  Finalized /\ DefinedOnce(tree) =>
    \A n \in Entries(tree) :
      LET p == tree.node[n].parent
          s == SymOf(tree, p)
      IN  tree.node[n].prompt # Nil /\ IsSymbol(s) /\ s \notin ChoiceSyms =>
            \A v \in {w \in Valuations : DependenciesMet(w)} :
              (Modules = "n" \/ v[Modules] = 0) /\ Value(PromptOf(tree, n), v) # 0
                => \/ v[s] # 0
                   \/ tree.node[p].prompt # Nil /\ Value(PromptOf(tree, p), v) # 0

\* The tree that menu_finalize leaves has every entry once, in the order of the
\* files, values below their choice, and none where it cannot be reached.
TreeIsWhole == EntriesStayInOrder /\ ValuesAreBelowTheirChoice /\ NothingIsHidden

\* The conditions that it leaves, rewritten and passed on to symbols, prompts and
\* selected symbols, are those that the author wrote around each entry.
ConditionsAddUp == DependenciesAddUp /\ SelectsReachTheirTarget /\ PromptsAreShown

=============================================================================
