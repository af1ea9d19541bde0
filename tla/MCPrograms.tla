----------------------------- MODULE MCPrograms -----------------------------
(***************************************************************************)
(* The programs and parts of programs that work alone, in one run: each    *)
(* behavior is one of them.                                                *)
(***************************************************************************)
EXTENDS KMenu, KCondition, KCheck, LxMenu, LxChecklist, LxInput, LxText,
        NcMenu, NcDialogs, ToolchainWrapper, MakeDevs

VARIABLE program

Programs ==
  {"menu", "condition", "check", "menubox", "checklist", "inputbox", "textbox",
   "nconf", "dialogs", "wrapper", "makedevs"}

Init ==
  /\ program \in Programs
  /\ MInit /\ CInit /\ CheckInit
  /\ MenuInit /\ ListInit /\ InputInit /\ TextInit
  /\ NcMenuInit /\ DialogInit
  /\ WrapInit /\ DevInit

Next ==
  /\ UNCHANGED program
  /\ (program # "menu" => UNCHANGED mvars)
  /\ (program # "condition" => UNCHANGED cvars)
  /\ (program # "check" => UNCHANGED checkvars)
  /\ (program # "menubox" => UNCHANGED menuvars)
  /\ (program # "checklist" => UNCHANGED listvars)
  /\ (program # "inputbox" => UNCHANGED inputvars)
  /\ (program # "textbox" => UNCHANGED textvars)
  /\ (program # "nconf" => UNCHANGED ncmenuvars)
  /\ (program # "dialogs" => UNCHANGED dialogvars)
  /\ (program # "wrapper" => UNCHANGED wrapvars)
  /\ (program # "makedevs" => UNCHANGED devvars)
  /\ \/ program = "menu" /\ MNext
     \/ program = "condition" /\ CNext
     \/ program = "check" /\ CheckNext
     \/ program = "menubox" /\ MenuNext
     \/ program = "checklist" /\ ListNext
     \/ program = "inputbox" /\ InputNext
     \/ program = "textbox" /\ TextNext
     \/ program = "nconf" /\ NcMenuNext
     \/ program = "dialogs" /\ DialogNext
     \/ program = "wrapper" /\ WrapNext
     \/ program = "makedevs" /\ DevNext

all ==
  <<program, mvars, cvars, checkvars, menuvars, listvars, inputvars, textvars, ncmenuvars,
    dialogvars, wrapvars, devvars>>

Spec == Init /\ [][Next]_all

-----------------------------------------------------------------------------
(* Menus                                                                   *)

MCConfig(s, dep, prompt, select) == [sym |-> s, dep |-> dep, prompt |-> prompt, select |-> select]

TheConfigs ==
  { MCConfig("A", NULL, {NULL}, {}),
    MCConfig("A", Sym("B"), {NULL}, {"B"}),
    MCConfig("B", Sym("A"), {NULL}, {}),
    MCConfig("B", <<"AND", <<"OR", Sym("A"), Sym("T")>>, Sym("B")>>, {NULL}, {}),
    MCConfig("B", NULL, {Sym("T")}, {"T"}),
    MCConfig("T", Sym("A"), {}, {"A"}),
    MCConfig("T", NULL, {<<"UNEQUAL", "A", "n">>}, {}) }

TheIfs == {Sym("B"), <<"OR", Sym("A"), Sym("T")>>}

(* Conditions                                                              *)

MCLeaves ==
  {Sym("A"), Sym("B"), Sym("T"), Sym("m"), Yes,
   <<"EQUAL", "T", "m">>, <<"UNEQUAL", "T", "n">>, <<"UNEQUAL", "T", "m">>, <<"EQUAL", "A", "y">>,
   <<"EQUAL", "T", "y">>, <<"UNEQUAL", "B", "y">>, <<"UNEQUAL", "A", "m">>, <<"LEQ", "A", "B">>}

MCLiterals == MCLeaves \cup {Not(e) : e \in MCLeaves}

TheConditions ==
  MCLiterals
    \cup {<<o, a, b>> : o \in Connective, a \in MCLiterals, b \in MCLiterals}
    \cup {Not(<<o, a, b>>) : o \in Connective, a \in MCLeaves, b \in MCLeaves}

TheParents == {NULL, <<"AND", Sym("T"), <<"OR", Sym("A"), Sym("B")>>>>}

(* Recursive dependencies: two symbols and a choice of two values          *)

MCProperty(type, visible, value) == [type |-> type, visible |-> visible, value |-> value]

MCRefs(S) == {<<>>} \cup {<<a>> : a \in S}

MCRefers(S) ==
  {<<r, <<>>>> : r \in MCRefs(S)}
    \cup {<<<<>>, <<MCProperty("DEFAULT", <<a>>, <<b>>)>>>> : a \in S, b \in S}
    \cup {<<<<>>, <<MCProperty("SELECT", <<a>>, <<>>)>>>> : a \in S}

MCGraph(a, b, v, w, c) ==
  [rev |-> [A |-> a[1], B |-> b[1], V |-> <<>>, W |-> <<>>, C |-> <<>>],
   props |->
     [A |-> a[2], B |-> b[2],
      V |-> <<MCProperty("PROMPT", <<"C">> \o v, <<>>)>>,
      W |-> <<MCProperty("PROMPT", <<"C">> \o w, <<>>)>>,
      C |-> <<MCProperty("CHOICE", <<>>, <<"V", "W">>), MCProperty("PROMPT", c, <<>>),
              MCProperty("DEFAULT", <<>>, <<"V">>)>>],
   values |-> [C |-> <<"V", "W">>]]

TheGraphs ==
  {MCGraph(a, b, v, w, c) :
     a \in MCRefers({"B", "V"}), b \in MCRefers({"A", "B"}),
     v \in MCRefs({"A"}), w \in MCRefs({"B"}), c \in MCRefs({"A"})}

(* Texts                                                                   *)

TheTexts ==
  UNION {[1..n -> {"x", "nl"}] : n \in 1..3}
    \cup {<<"nl", "nl", "nl", "nl", "nl">>, <<"x", "nl", "nl", "x", "x", "nl", "x", "nl">>}

(* The lists of nconf, and the texts it shows                              *)

MCItem(id, tag, str) == [id |-> id, tag |-> tag, str |-> str]

TheNcMenus ==
  { <<>>, <<MCItem(1, "m", <<"a">>)>>,
    <<MCItem(1, "m", <<"a">>), MCItem(2, "t", <<"b">>), MCItem(3, "m", <<"a", "b">>),
      MCItem(4, "s", <<"b">>)>> }

TheNcChoices ==
  { <<MCItem(1, ":", <<"a">>), MCItem(2, ":", <<"b">>), MCItem(3, ":", <<"b", "a">>)>>,
    <<MCItem(1, ":", <<"a">>)>> }

TheNcTexts == {<<"x">>, <<"nl", "x", "x", "nl", "x", "nl">>}

(* The compiler wrapper                                                    *)

MCPaths == {<<"-I", "none">>, <<"-L", "none">>, <<"none", "/usr/lib">>, <<"-L", "/lib">>}

MCWords ==
  MCPaths \cup {<<f, "none">> : f \in {"-march=", "-mtune=", "-msoft-float", "-mhard-float",
                                  "-shared", "-fPIC", "-D__KERNEL__"}} \cup {<<"none", "file">>}

TheArgs ==
  {<<>>} \cup {<<a>> : a \in MCWords} \cup {<<a, b>> : a \in MCWords, b \in MCWords}
    \cup {<<a, b, c>> : a \in MCPaths, b \in MCPaths, c \in MCPaths}
    \cup {[i \in 1..n |-> <<"none", "file">>] : n \in {5, 6}}

TheToolchains ==
  { {"BR_CCACHE", "BR_ABI", "BR_FLOAT_ABI", "BR_FP32_MODE", "BR_ARCH", "BR2_PIC_PIE",
     "BR2_RELRO_FULL"},
    {"BR_BINFMT_FLAT", "BR_NEED_SOURCE_DATE_EPOCH", "BR2_RELRO_PARTIAL"} }

(* makedevs                                                                *)

MCLine(kind, name, mode, user) ==
  [kind |-> kind, name |-> name, mode |-> mode, user |-> user,
   major |-> 0, minor |-> 0, start |-> 0, increment |-> 0, count |-> 0]

MCDevice(count, start, inc) ==
  [MCLine("c", <<"a", "n">>, "640", "root")
     EXCEPT !.major = 1, !.minor = 1, !.start = start, !.increment = inc, !.count = count]

MCFile(type) == [type |-> type, mode |-> "600", owner |-> 1, rdev |-> <<>>, caps |-> {}]

MCTarget ==
  [x \in {Node1(<<>>), Node1(<<"a">>), Node1(<<"f">>), Node1(<<"a", "f">>)} |->
     MCFile(IF x[1] \in {<<>>, <<"a">>} THEN "dir" ELSE "file")]

TheTargets ==
  { MCTarget,
    [x \in DOMAIN MCTarget \cup {Node1(<<"a", "k">>), Node1(<<"a", "l">>)} |->
       IF x \in DOMAIN MCTarget THEN MCTarget[x]
       ELSE MCFile(IF x = Node1(<<"a", "k">>) THEN "dangling" ELSE "link")] }

TheIds == [root |-> 0, user |-> 2]

MCLines ==
  { MCLine("d", <<"a", "b", "c">>, "755", "user"), MCLine("d", <<"f", "c">>, "755", "user"),
    MCLine("d", <<"f">>, "755", "user"), MCLine("d", <<"a">>, "-1", "root"),
    MCLine("f", <<"a", "f">>, "-1", "user"), MCLine("F", <<"a", "x">>, "644", "user"),
    MCLine("F", <<"a">>, "644", "user"),
    MCLine("f", <<"a", "x">>, "644", "nobody"), MCLine("f", <<"a", "x">>, "644", "root"),
    MCLine("r", <<"a">>, "700", "root"),
    MCLine("r", <<"a">>, "-1", "none"), MCLine("r", <<"b">>, "700", "root"),
    MCLine("c", <<"b", "n">>, "600", "root"), MCLine("c", <<"a", "b">>, "-1", "root"),
    MCLine("c", <<"a", "b">>, "600", "user"),
    MCDevice(0, 0, 0), MCDevice(2, 1, 3), MCDevice(1, 1, 0), MCDevice(2, 0, 9),
    [MCLine("d", <<"a", "z">>, "755", "user") EXCEPT !.count = 9],
    MCLine("x", <<"a">>, "600", "root"), MCLine("comment", <<"a">>, "600", "root"),
    MCLine("invalid", <<"a">>, "600", "root"), MCLine("xattr", <<"cap">>, "-", "none") }

\* with a third line, for the path that a capability is for
TheTables ==
  UNION {[1..n -> MCLines] : n \in 0..2}
    \cup {<<MCLine("f", <<"a", "f">>, "-1", "user"), l, MCLine("xattr", <<"cap">>, "-", "none")>> :
            l \in MCLines}

\* TLC evaluates a definition once, but one that stands for a constant each time.
MCConfigs == TheConfigs
MCIfs == TheIfs
MCConditions == TheConditions
MCParents == TheParents
MCGraphs == TheGraphs
MCTexts == TheTexts
MCNcMenus == TheNcMenus
MCNcChoices == TheNcChoices
MCNcTexts == TheNcTexts
MCArgs == TheArgs
MCToolchains == TheToolchains
MCTables == TheTables
MCTargets == TheTargets
MCIds == TheIds

=============================================================================
