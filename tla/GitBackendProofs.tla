-------------------------- MODULE GitBackendProofs --------------------------
(* What holds of GitBackend for every value of its constants.              *)
EXTENDS GitBackend, TLAPS

InTrouble == call.trouble # {}

\* A subshell runs the script again only while the script reads from it, and
\* only after some trouble.
SubshellIsTrouble ==
  at["sub"] # "off" => InTrouble /\ at["main"] \in {"date", "attr", "archive", "temp"}

\* What a subshell leaves to the script is a consequence of trouble.
AftermathIsTrouble ==
  /\ call.gone => InTrouble
  /\ at["main"] \in {"more", "attr", "expand", "archive", "temp", "tar"}
       /\ date["main"] = "garbage" => InTrouble

\* The cache is given up for a reason.
Damaged == cache.lock # "no" \/ cache.objects = "torn"
WipeHasReason == at["main"] = "wipe" => InTrouble \/ Damaged

\* The second attempt starts from nothing.
SecondIsClean == at["main"] # "off" /\ call.second => InTrouble \/ ~Damaged

\* A fetch brings what the site has.
FetchedIsKnown ==
  at["main"] = "verify" /\ site[call.cset] # None => cache.tag[call.cset] # None

-----------------------------------------------------------------------------
LEMMA CheckoutChanges ==
  ASSUME TypeOK, NEW s \in Shell, Checkout(s)
  PROVE  \E t \in Commit \cup {None, Mixed}, h \in Cset \cup {None} :
           cache' = [cache EXCEPT !.tree = t, !.expanded = FALSE, !.head = h]
  <1> DEFINE c == call.cset
  <1> DEFINE wanted == IF cache.branch[c] # None THEN cache.branch[c] ELSE cache.tag[c]
  <1>1. wanted \in Commit \cup {None} /\ c \in Cset
    BY DEF TypeOK, Cache
  <1> HIDE DEF wanted
  <1>2. PICK t \in {wanted} \cup (IF cache.objects = "torn" THEN {Mixed} ELSE {}) :
          cache' = [cache EXCEPT !.tree = t, !.expanded = FALSE,
                                 !.head = IF cache.branch[c] # None THEN c ELSE None]
    BY DEF Checkout, wanted
  <1> QED
    BY <1>1, <1>2

LEMMA FetchChanges ==
  ASSUME TypeOK, NEW s \in Shell, Fetch(s)
  PROVE  \E o \in {"sound", cache.objects}, t, b \in Commit \cup {None} :
           cache' = [cache EXCEPT !.objects = o, !.tag[call.cset] = t,
                                  !.branch[call.cset] = b]
  <1> DEFINE c == call.cset
  <1> DEFINE tag == IF site[c] = None THEN cache.tag[c] ELSE site[c]
  <1> DEFINE branches == {cache.branch[c]}
               \cup (IF site[c] = None \/ cache.head = c THEN {} ELSE {site[c]})
  <1>1. PICK o \in {"sound", cache.objects}, b \in branches :
          cache' = [cache EXCEPT !.objects = o, !.tag[c] = tag, !.branch[c] = b]
    BY DEF Fetch
  <1>2. tag \in Commit \cup {None} /\ b \in Commit \cup {None}
    BY DEF TypeOK, Cache
  <1> QED
    BY <1>1, <1>2

LEMMA LeftoversChange ==
  ASSUME TypeOK, NEW stage \in Stage, cache' \in Leftovers(stage)
  PROVE  cache' \in Cache /\ cache'.objects = cache.objects
  <1> USE DEF TypeOK
  <1>1. CASE stage \in {"start", "fetch"}
    <2>1. cache' = cache \/ cache' = [cache EXCEPT !.lock = stage]
      BY <1>1 DEF Leftovers, Cache
    <2> QED
      BY <1>1, <2>1 DEF Cache
  <1>2. CASE stage = "checkout"
    <2>1. PICK l \in {cache.lock, "checkout"} :
            cache' = [cache EXCEPT !.tree = Mixed, !.junk = TRUE, !.lock = l]
      BY <1>2 DEF Leftovers
    <2> QED
      BY <2>1 DEF Cache
  <1>3. CASE stage = "expand"
    <2>1. cache' = cache \/ cache' = [cache EXCEPT !.tree = Mixed, !.junk = TRUE]
      BY <1>3 DEF Leftovers
    <2>2. CASE cache' = cache
      BY <2>2
    <2>3. CASE cache' = [cache EXCEPT !.tree = Mixed, !.junk = TRUE]
      BY <2>3 DEF Cache
    <2> QED
      BY <2>1, <2>2, <2>3
  <1>4. CASE stage \notin {"start", "fetch", "checkout", "expand"}
    BY <1>4 DEF Leftovers
  <1> QED
    BY <1>1, <1>2, <1>3, <1>4

LEMMA TypeInit == Init => TypeOK
  BY ConstantsAssumption
     DEF Init, TypeOK, NoCache, Cache, NoArchive, NewCall, Date, Shell, Stage, Troubles, ManyClones

\* Every action keeps the types.
LEMMA TypeStep == TypeOK /\ [Next]_vars => TypeOK'
  <1> SUFFICES ASSUME TypeOK, [Next]_vars PROVE TypeOK'
    OBVIOUS
  <1> USE ConstantsAssumption DEF TypeOK, Shell, Stage, Date, Troubles, ManyClones, Goto, state, bounds
  <1>1. ASSUME NEW c \in Cset, NEW q \in BOOLEAN, Begin(c, q) PROVE TypeOK'
    BY <1>1 DEF Begin, NewCall, NoArchive
  <1>2. ASSUME NEW c \in Cset, NEW m \in Commit, Move(c, m) PROVE TypeOK'
    BY <1>2 DEF Move
  <1>3. ASSUME Return PROVE TypeOK'
    BY <1>3 DEF Return
  <1>4. ASSUME Kill PROVE TypeOK'
    <2>1. ASSUME NEW stage \in Stage, cache' \in Leftovers(stage) PROVE cache' \in Cache
      BY <2>1, LeftoversChange
    <2>2. ASSUME cache' \in Torn PROVE cache' \in Cache
      <3>1. PICK t \in {cache.tag, NoCache.tag}, b \in {cache.branch, NoCache.branch},
                 h \in {cache.head, None} :
              cache' = [cache EXCEPT !.objects = "torn", !.tree = Mixed, !.junk = TRUE,
                                     !.tag = t, !.branch = b, !.head = h]
        BY <2>2 DEF Torn
      <3>2. /\ t \in [Cset -> Commit \cup {None}] /\ b \in [Cset -> Commit \cup {None}]
            /\ h \in Cset \cup {None}
        BY DEF NoCache, Cache
      <3> QED
        BY <3>1, <3>2 DEF Cache
    <2>3. cache' \in Cache
      BY <1>4, <2>1, <2>2 DEF Kill
    <2>4. cuts' \in 0..MaxCuts
      BY <1>4 DEF Kill
    <2> QED
      BY <1>4, <2>3, <2>4 DEF Kill
  <1>5. ASSUME SubEnds PROVE TypeOK'
    <2>1. cache' \in Cache
      <3>1. cache' = cache \/ cache' = [cache EXCEPT !.junk = TRUE]
        BY <1>5 DEF SubEnds
      <3>2. CASE cache' = cache
        BY <3>2
      <3>3. CASE cache' = [cache EXCEPT !.junk = TRUE]
        BY <3>3 DEF Cache
      <3> QED
        BY <3>1, <3>2, <3>3
    <2>2. at' \in [Shell -> Stage]
      BY <1>5 DEF SubEnds, AfterDate
    <2>3. date' \in [Shell -> Date] /\ files' \in [Shell -> {"all", "some", "none"}]
      BY <1>5 DEF SubEnds
    <2>4. call' \in [cset : Cset, quiet : BOOLEAN, second : BOOLEAN, gone : BOOLEAN,
                     trouble : SUBSET Troubles, clones : 0..ManyClones]
      BY ZenonT(60), <1>5 DEF SubEnds
    <2> QED
      BY <1>5, <2>1, <2>2, <2>3, <2>4 DEF SubEnds
  <1>6. ASSUME NEW s \in Shell, Run(s) PROVE TypeOK'
    <2> USE DEF Runs
    <2>1. CASE Wipe(s)
      <3>1. NoCache \in Cache
        BY DEF NoCache, Cache
      <3>2. OneMore(call.clones) \in 0..ManyClones
        BY DEF OneMore
      <3> QED
        BY ZenonT(60), <2>1, <3>1, <3>2 DEF Wipe
    <2>2. CASE Start(s)
      BY <2>2 DEF Start, Cache
    <2>3. CASE Fetch(s)
      <3>1. cache' \in Cache
        <4>1. PICK o \in {"sound", cache.objects}, t, b \in Commit \cup {None} :
                cache' = [cache EXCEPT !.objects = o, !.tag[call.cset] = t,
                                       !.branch[call.cset] = b]
          BY <2>3, FetchChanges
        <4> QED
          BY <4>1 DEF Cache
      <3> QED
        BY <2>3, <3>1 DEF Fetch
    <2>4. CASE SiteFails(s)
      BY <2>4 DEF SiteFails, Fails, Trouble
    <2>5. CASE Verify(s)
      BY <2>5 DEF Verify
    <2>6. CASE Checkout(s)
      <3>1. cache' \in Cache
        <4>1. PICK t \in Commit \cup {None, Mixed}, h \in Cset \cup {None} :
                cache' = [cache EXCEPT !.tree = t, !.expanded = FALSE, !.head = h]
          BY <2>6, CheckoutChanges
        <4> QED
          BY <4>1 DEF Cache
      <3> QED
        BY <2>6, <3>1 DEF Checkout
    <2>7. CASE Clean(s)
      BY ZenonT(60), <2>7 DEF Clean, Cache
    <2>8. CASE ReadDate(s) \/ More(s) \/ ReadAttr(s) \/ StartArchive(s) \/ Temp(s)
      BY <2>8 DEF ReadDate, AfterDate, More, ReadAttr, StartArchive, Temp
    <2>9. CASE Expand(s)
      <3>1. (cache.expanded \/ files[s] = "all") \in BOOLEAN
        OBVIOUS
      <3>2. cache' \in Cache
        BY <2>9, <3>1 DEF Expand, Cache
      <3> QED
        BY <2>9, <3>2 DEF Expand
    <2>10. CASE Tar(s)
      BY <2>10 DEF Tar, Cache
    <2>11. CASE CommandFails(s)
      BY <2>11 DEF CommandFails, Fails, Fault, Trouble
    <2>12. CASE ReadFails(s)
      BY <2>12 DEF ReadFails, Fault, Trouble
    <2> QED
      BY <1>6, <2>1, <2>2, <2>3, <2>4, <2>5, <2>6, <2>7, <2>8, <2>9, <2>10, <2>11, <2>12
         DEF Run
  <1>7. CASE UNCHANGED vars
    BY <1>7 DEF vars
  <1> QED
    BY <1>1, <1>2, <1>3, <1>4, <1>5, <1>6, <1>7 DEF Next

\* Every variable of the git backend keeps its type.
THEOREM TypeCorrect == Spec => []TypeOK
  BY TypeInit, TypeStep, PTL DEF Spec

-----------------------------------------------------------------------------
Reasons == SubshellIsTrouble /\ AftermathIsTrouble /\ WipeHasReason /\ SecondIsClean
           /\ FetchedIsKnown /\ CalmCallsSucceed

LEMMA ReasonsInit == Init => Reasons
  BY DEF Init, Reasons, SubshellIsTrouble, AftermathIsTrouble, WipeHasReason,
         SecondIsClean, FetchedIsKnown, CalmCallsSucceed, InTrouble, Damaged,
         NewCall, NoCache, Shell

\* An error that comes without trouble is in a first attempt over a damaged cache.
LEMMA ReasonsFail ==
  ASSUME TypeOK, TypeOK', Reasons, NEW s \in Shell, at[s] # "off",
         s = "main" => at["sub"] = "off",
         Fails(s), UNCHANGED <<site, cache, date>>,
         call' = call \/ (call'.trouble # {} /\ call'.gone = call.gone),
         InTrouble' \/ (s = "main" /\ Damaged)
  PROVE  Reasons'
  <1> USE DEF TypeOK, Shell, Reasons, InTrouble, Fails, Goto
  <1>1. SubshellIsTrouble' /\ AftermathIsTrouble'
    BY DEF SubshellIsTrouble, AftermathIsTrouble
  <1>2. WipeHasReason' /\ SecondIsClean'
    BY DEF WipeHasReason, SecondIsClean, Damaged
  <1>3. FetchedIsKnown'
    BY DEF FetchedIsKnown, SubshellIsTrouble
  <1>4. CalmCallsSucceed'
    BY DEF CalmCallsSucceed, SecondIsClean, Damaged, SubshellIsTrouble
  <1> QED
    BY <1>1, <1>2, <1>3, <1>4

LEMMA ReasonsStep == TypeOK /\ TypeOK' /\ Reasons /\ [Next]_vars => Reasons'
  <1> SUFFICES ASSUME TypeOK, TypeOK', Reasons, [Next]_vars PROVE Reasons'
    OBVIOUS
  <1> USE DEF TypeOK, Shell, Goto, state, bounds, InTrouble
  <1>1. ASSUME NEW c \in Cset, NEW q \in BOOLEAN, Begin(c, q) PROVE Reasons'
    BY <1>1 DEF Begin, NewCall, Reasons, SubshellIsTrouble, AftermathIsTrouble,
       WipeHasReason, SecondIsClean, FetchedIsKnown, CalmCallsSucceed
  <1>2. ASSUME NEW c \in Cset, NEW m \in Commit, Move(c, m) PROVE Reasons'
    BY <1>2 DEF Move, Reasons, SubshellIsTrouble, AftermathIsTrouble,
       WipeHasReason, SecondIsClean, FetchedIsKnown, CalmCallsSucceed
  <1>3. ASSUME Return PROVE Reasons'
    BY <1>3 DEF Return, Reasons, SubshellIsTrouble, AftermathIsTrouble,
       WipeHasReason, SecondIsClean, FetchedIsKnown, CalmCallsSucceed
  <1>4. ASSUME Kill PROVE Reasons'
    BY <1>4 DEF Kill, Reasons, SubshellIsTrouble, AftermathIsTrouble,
       WipeHasReason, SecondIsClean, FetchedIsKnown, CalmCallsSucceed
  <1>5. ASSUME SubEnds PROVE Reasons'
    BY <1>5 DEF SubEnds, AfterDate, Reasons, SubshellIsTrouble, AftermathIsTrouble,
       WipeHasReason, SecondIsClean, FetchedIsKnown, CalmCallsSucceed
  <1>6. ASSUME NEW s \in Shell, Run(s) PROVE Reasons'
    <2> USE DEF Runs
    <2>1. CASE Wipe(s)
      BY <2>1 DEF Wipe, NoCache, Damaged, Reasons, SubshellIsTrouble, AftermathIsTrouble,
         WipeHasReason, SecondIsClean, FetchedIsKnown, CalmCallsSucceed
    <2>2. CASE Start(s)
      BY <2>2 DEF Start, Damaged, Cache, Reasons, SubshellIsTrouble, AftermathIsTrouble,
         WipeHasReason, SecondIsClean, FetchedIsKnown, CalmCallsSucceed
    <2>3. CASE Fetch(s)
      BY <2>3 DEF Fetch, Damaged, Cache, Reasons, SubshellIsTrouble, AftermathIsTrouble,
         WipeHasReason, SecondIsClean, FetchedIsKnown, CalmCallsSucceed
    <2>4. CASE SiteFails(s)
      BY <2>4, ReasonsFail DEF SiteFails, Trouble
    <2>5. CASE Verify(s)
      BY <2>5 DEF Verify, Known, Damaged, Reasons, SubshellIsTrouble, AftermathIsTrouble,
         WipeHasReason, SecondIsClean, FetchedIsKnown, CalmCallsSucceed
    <2>6. CASE Checkout(s) \/ Clean(s) \/ Expand(s)
      <3>1. cache'.lock = cache.lock /\ cache'.objects = cache.objects
        <4>1. CASE Checkout(s)
          <5>1. PICK t \in Commit \cup {None, Mixed}, h \in Cset \cup {None} :
                  cache' = [cache EXCEPT !.tree = t, !.expanded = FALSE, !.head = h]
            BY <4>1, CheckoutChanges
          <5> QED
            BY <5>1 DEF Cache
        <4>2. CASE Clean(s) \/ Expand(s)
          BY <4>2 DEF Clean, Expand, Cache
        <4> QED
          BY <2>6, <4>1, <4>2
      <3>2. /\ UNCHANGED <<site, call, date>>
            /\ at'["main"] \notin {"verify", "wipe", "failed", "off"}
        BY <2>6 DEF Checkout, Clean, Expand, Reasons, SubshellIsTrouble
      <3>3. SubshellIsTrouble' /\ AftermathIsTrouble'
        BY ZenonT(60), <2>6 DEF Checkout, Clean, Expand, Reasons, SubshellIsTrouble, AftermathIsTrouble
      <3>4. at["main"] # "off"
        BY <2>6 DEF Checkout, Clean, Expand, Reasons, SubshellIsTrouble
      <3> QED
        BY <3>1, <3>2, <3>3, <3>4
           DEF Reasons, WipeHasReason, SecondIsClean, FetchedIsKnown, CalmCallsSucceed,
               Damaged
    <2>7. CASE ReadDate(s)
      BY <2>7 DEF ReadDate, AfterDate, Damaged, Reasons, SubshellIsTrouble,
         AftermathIsTrouble, WipeHasReason, SecondIsClean, FetchedIsKnown, CalmCallsSucceed
    <2>8. CASE More(s) \/ ReadAttr(s) \/ StartArchive(s) \/ Temp(s) \/ Tar(s)
      BY <2>8 DEF More, ReadAttr, StartArchive, Temp, Tar, Damaged, Reasons,
         SubshellIsTrouble, AftermathIsTrouble, WipeHasReason, SecondIsClean,
         FetchedIsKnown, CalmCallsSucceed
    <2>9. CASE CommandFails(s)
      <3>1. PICK stage \in {"start", "fetch", "checkout", "clean", "more", "expand", "tar"} :
              /\ Runs(s, stage)
              /\ \/ /\ \/ cache.lock = stage
                       \/ stage \in {"fetch", "checkout"} /\ cache.objects = "torn"
                       \/ stage \in {"more", "expand"} /\ Gone(s)
                       \/ stage = "tar" /\ date[s] = "garbage"
                    /\ UNCHANGED <<faults, call>>
                 \/ Fault("command")
        BY <2>9 DEF CommandFails
      <3>2. Fails(s) /\ UNCHANGED <<site, cache, date>>
        BY <2>9 DEF CommandFails
      <3>3. call' = call \/ (call'.trouble # {} /\ call'.gone = call.gone)
        BY <3>1 DEF Fault, Trouble
      <3>4. InTrouble' \/ (s = "main" /\ Damaged)
        <4>1. CASE Fault("command")
          BY <4>1 DEF Fault, Trouble
        <4>2. CASE s = "sub" /\ UNCHANGED call
          BY <3>1, <4>2 DEF Reasons, SubshellIsTrouble
        <4>3. CASE s = "main" /\ UNCHANGED call
          <5>1. CASE cache.lock = stage \/ cache.objects = "torn"
            BY <4>3, <5>1 DEF Damaged
          <5>2. CASE stage \in {"more", "expand"} /\ Gone(s)
            BY <4>3, <5>2 DEF Reasons, AftermathIsTrouble, Gone
          <5>3. CASE stage = "tar" /\ date[s] = "garbage"
            BY <3>1, <4>3, <5>3 DEF Reasons, AftermathIsTrouble
          <5> QED
            BY <3>1, <4>1, <5>1, <5>2, <5>3
        <4> QED
          BY <3>1, <4>1, <4>2, <4>3
      <3> QED
        BY <3>1, <3>2, <3>3, <3>4, ReasonsFail
    <2>10. CASE ReadFails(s)
      <3>1. InTrouble'
        <4>1. CASE Fault("read")
          BY <4>1 DEF Fault, Trouble
        <4>2. CASE UNCHANGED call
          BY <2>10, <4>2 DEF ReadFails, Fault, Trouble, Reasons, SubshellIsTrouble,
             AftermathIsTrouble, Gone
        <4> QED
          BY <2>10, <4>1, <4>2 DEF ReadFails
      <3>2. UNCHANGED <<site, cache, date>> /\ call'.cset = call.cset
        BY <2>10 DEF ReadFails, Fault, Trouble
      <3>3. SubshellIsTrouble'
        BY <2>10, <3>1 DEF ReadFails, Reasons, SubshellIsTrouble
      <3>4. at'["main"] # "verify"
        BY <2>10 DEF ReadFails, Reasons, SubshellIsTrouble
      <3> QED
        BY <3>1, <3>2, <3>3, <3>4
           DEF Reasons, AftermathIsTrouble, WipeHasReason, SecondIsClean, FetchedIsKnown,
               CalmCallsSucceed
    <2> QED
      BY <1>6, <2>1, <2>2, <2>3, <2>4, <2>5, <2>6, <2>7, <2>8, <2>9, <2>10 DEF Run
  <1>7. CASE UNCHANGED vars
    BY <1>7 DEF vars, Damaged, Reasons, SubshellIsTrouble, AftermathIsTrouble,
       WipeHasReason, SecondIsClean, FetchedIsKnown, CalmCallsSucceed
  <1> QED
    BY <1>1, <1>2, <1>3, <1>4, <1>5, <1>6, <1>7 DEF Next

THEOREM Inductive == Spec => [](TypeOK /\ Reasons)
  BY TypeInit, TypeStep, ReasonsInit, ReasonsStep, PTL DEF Spec

\* A call that meets no trouble succeeds if the site has the revision.
THEOREM CalmCorrect == Spec => []CalmCallsSucceed
  <1>1. Reasons => CalmCallsSucceed
    BY DEF Reasons
  <1> QED
    BY <1>1, Inductive, PTL

\* A cache is removed only for damage or trouble, never for a missing commit.
THEOREM KeptCorrect == Spec => KeptWithoutTrouble
  <1> DEFINE Kept == Removed => call.trouble # {} \/ cache.lock # "no"
  <1>1. TypeOK /\ Reasons /\ [Next]_vars => [Kept]_vars
    <2> SUFFICES ASSUME TypeOK, Reasons, [Next]_vars, Removed
                 PROVE  call.trouble # {} \/ cache.lock # "no"
      OBVIOUS
    <2> USE DEF Removed, TypeOK, Reasons, WipeHasReason, SubshellIsTrouble, InTrouble,
                Damaged, Shell, Runs
    <2>1. ASSUME NEW s \in Shell, Wipe(s) PROVE call.trouble # {} \/ cache.lock # "no"
      BY <2>1 DEF Wipe
    <2>2. ASSUME Kill PROVE call.trouble # {} \/ cache.lock # "no"
      <3>1. PICK stage \in Stage :
              /\ stage = at[IF at["sub"] = "off" THEN "main" ELSE "sub"]
              /\ cache' \in Leftovers(stage) \/ stage = "wipe"
        BY <2>2 DEF Kill
      <3>2. cache'.objects = cache.objects \/ stage = "wipe"
        BY <3>1, LeftoversChange
      <3> QED
        BY <3>1, <3>2
    <2>3. ASSUME NEW s \in Shell, Run(s), ~Wipe(s) PROVE cache'.objects = "sound"
      <3>1. CASE Checkout(s)
        BY <3>1, CheckoutChanges DEF Cache
      <3>2. CASE Fetch(s)
        BY <3>2, FetchChanges DEF Cache
      <3>3. CASE Start(s) \/ Clean(s) \/ Expand(s)
        BY <3>3 DEF Start, Clean, Expand, Cache
      <3> QED
        BY <2>3, <3>1, <3>2, <3>3
           DEF Run, SiteFails, Verify, ReadDate, More, ReadAttr, StartArchive, Temp, Tar,
               CommandFails, ReadFails
    <2>4. ASSUME SubEnds PROVE cache'.objects = "sound"
      BY <2>4 DEF SubEnds, Cache
    <2> QED
      BY <2>1, <2>2, <2>3, <2>4 DEF Next, Begin, Move, Return, vars
  <1> QED
    BY <1>1, Inductive, PTL DEF Spec, KeptWithoutTrouble

-----------------------------------------------------------------------------
(* Only one clone, while nothing fails that the script reads from.         *)

NothingRead == "read" \notin call.trouble

FirstThenSecond ==
  NothingRead =>
    /\ at["sub"] = "off" /\ ~call.gone
    /\ date["main"] # "garbage" \/ at["main"] \in {"off", "start", "fetch", "verify",
                                                  "checkout", "clean", "date", "wipe",
                                                  "ok", "failed"}
    /\ call.clones = IF call.second THEN 1 ELSE 0
    /\ at["main"] = "wipe" => ~call.second

LEMMA FirstThenSecondStep ==
  ASSUME TypeOK, SubshellIsTrouble, FirstThenSecond, [Next]_vars
  PROVE  FirstThenSecond'
  <1> SUFFICES ASSUME NothingRead' PROVE FirstThenSecond'
    BY DEF FirstThenSecond
  <1> USE DEF TypeOK, FirstThenSecond, NothingRead, Shell, Troubles, Goto, state, bounds
  <1>1. ASSUME NEW s \in Shell, Run(s) PROVE FirstThenSecond'
    <2> USE DEF Runs
    <2>1. NothingRead
      <3>1. CASE SiteFails(s) \/ CommandFails(s)
        BY <3>1 DEF SiteFails, CommandFails, Fault, Trouble
      <3>2. CASE ReadFails(s)
        BY <3>2 DEF ReadFails, Fault, Trouble
      <3>3. CASE Wipe(s)
        BY <3>3 DEF Wipe
      <3> QED
        BY <1>1, <3>1, <3>2, <3>3
           DEF Run, Start, Fetch, Verify, Checkout, Clean, ReadDate, More, ReadAttr,
               Expand, StartArchive, Temp, Tar
    <2>2. s = "main"
      BY <1>1, <2>1 DEF Run, Wipe, Start, Fetch, SiteFails, Verify, Checkout, Clean,
         ReadDate, More, ReadAttr, Expand, StartArchive, Temp, Tar, CommandFails, ReadFails
    <2>3. CASE Wipe(s)
      <3>1. call.clones = 0 /\ OneMore(0) = 1
        BY <2>1, <2>2, <2>3 DEF Wipe, OneMore, ManyClones
      <3> QED
        BY <2>1, <2>2, <2>3, <3>1 DEF Wipe
    <2>4. CASE SiteFails(s) \/ CommandFails(s)
      BY <2>1, <2>2, <2>4 DEF SiteFails, CommandFails, Fails, Fault, Trouble
    <2>5. CASE ReadFails(s)
      BY <2>1, <2>2, <2>5 DEF ReadFails, Gone, Fault, Trouble
    <2>6. CASE Start(s) \/ Fetch(s) \/ Verify(s) \/ Checkout(s) \/ Clean(s) \/ Expand(s)
      BY ZenonT(60), <2>1, <2>2, <2>6 DEF Start, Fetch, Verify, Checkout, Clean, Expand
    <2>7. CASE ReadDate(s) \/ More(s) \/ ReadAttr(s) \/ StartArchive(s) \/ Temp(s) \/ Tar(s)
      BY <2>1, <2>2, <2>7 DEF ReadDate, AfterDate, More, ReadAttr, StartArchive, Temp, Tar
    <2> QED
      BY <1>1, <2>3, <2>4, <2>5, <2>6, <2>7 DEF Run
  <1>2. ASSUME NEW c \in Cset, NEW q \in BOOLEAN, Begin(c, q) PROVE FirstThenSecond'
    BY <1>2 DEF Begin, NewCall, SubshellIsTrouble
  <1>3. ASSUME SubEnds PROVE FALSE
    <2>1. call'.trouble = call.trouble
      BY <1>3 DEF SubEnds
    <2> QED
      BY <1>3, <2>1 DEF SubEnds
  <1>4. ASSUME NEW c \in Cset, NEW m \in Commit, Move(c, m) PROVE FirstThenSecond'
    BY <1>4 DEF Move
  <1>5. ASSUME Return \/ Kill PROVE FirstThenSecond'
    BY <1>5 DEF Return, Kill
  <1> QED
    BY <1>1, <1>2, <1>3, <1>4, <1>5 DEF Next, vars

\* A call removes the cache and clones it again at most once, unless a command
\* fails that the script reads from.
THEOREM OnceCorrect == Spec => []OnlyOnce
  <1>1. Init => FirstThenSecond
    BY DEF Init, FirstThenSecond, NewCall, Shell
  <1>2. FirstThenSecond => OnlyOnce
    BY DEF FirstThenSecond, NothingRead, OnlyOnce
  <1>3. TypeOK /\ Reasons /\ FirstThenSecond /\ [Next]_vars => FirstThenSecond'
    BY FirstThenSecondStep DEF Reasons
  <1> QED
    BY <1>1, <1>2, <1>3, Inductive, PTL DEF Spec

-----------------------------------------------------------------------------
(* What a call that succeeds has made, where nothing moved, no removal was  *)
(* cut short, and nothing failed that the script reads from.                *)

\* Every name in the cache stands for what it stands for at the site.
Faithful(c) == cache.tag[c] \in {None, site[c]} /\ cache.branch[c] \in {None, site[c]}
Sound == moves = 0 /\ cuts = 0 => cache.objects # "torn" /\ \A c \in Cset : Faithful(c)

\* What the script has got so far is right.
CheckedOut == {"clean", "date", "more", "attr", "expand", "archive", "temp", "tar"}
Right ==
  LET main == at["main"] IN
  /\ main = "checkout" => Known(call.cset)
  /\ main \in CheckedOut => cache.tree = site[call.cset]
  /\ main \in CheckedOut \ {"clean"} => ~cache.junk
  /\ main \in CheckedOut \ {"clean", "date"} => date["main"] = "commit"
  /\ main = "expand" => files["main"] = "all"
  /\ main \in {"archive", "temp", "tar"} => cache.expanded
  /\ main = "ok" => IsTheCommit(archive)
Untroubled == moves = 0 /\ cuts = 0 /\ NothingRead
GoesRight == Untroubled => Right

LEMMA SoundStep ==
  ASSUME TypeOK, Sound, [Next]_vars PROVE Sound'
  <1> SUFFICES ASSUME moves' = 0, cuts' = 0
               PROVE  cache'.objects # "torn" /\ \A c \in Cset : Faithful(c)'
    BY DEF Sound
  <1> USE DEF TypeOK, state, bounds
  <1>1. moves = 0 /\ cuts = 0 /\ site' = site
    <2>1. ASSUME NEW c \in Cset, NEW m \in Commit, Move(c, m) PROVE FALSE
      BY <2>1 DEF Move
    <2>2. ASSUME NEW s \in Shell, Run(s) PROVE UNCHANGED <<moves, cuts, site>>
      BY <2>2 DEF Run, Wipe, Start, Fetch, SiteFails, Verify, Checkout, Clean, ReadDate,
         More, ReadAttr, Expand, StartArchive, Temp, Tar, CommandFails, ReadFails
    <2>3. ASSUME NEW c \in Cset, NEW q \in BOOLEAN, Begin(c, q)
          PROVE  UNCHANGED <<moves, cuts, site>>
      BY <2>3 DEF Begin
    <2>4. CASE Kill
      BY <2>4 DEF Kill
    <2>5. CASE SubEnds \/ Return \/ UNCHANGED vars
      BY <2>5 DEF SubEnds, Return, vars
    <2> QED
      BY <2>1, <2>2, <2>3, <2>4, <2>5 DEF Next
  <1>2. cache.objects # "torn" /\ \A c \in Cset : Faithful(c)
    BY <1>1 DEF Sound
  <1>3. ASSUME cache'.objects \in {cache.objects, "sound", "none"},
               cache'.tag = cache.tag, cache'.branch = cache.branch
        PROVE  cache'.objects # "torn" /\ \A c \in Cset : Faithful(c)'
    BY <1>1, <1>2, <1>3 DEF Faithful
  <1>4. ASSUME NEW s \in Shell, Fetch(s)
        PROVE  cache'.objects # "torn" /\ \A c \in Cset : Faithful(c)'
    <2> DEFINE c == call.cset
    <2> DEFINE tag == IF site[c] = None THEN cache.tag[c] ELSE site[c]
    <2>1. PICK o \in {"sound", cache.objects}, b \in {cache.branch[c], site[c]} :
            cache' = [cache EXCEPT !.objects = o, !.tag[c] = tag, !.branch[c] = b]
      BY <1>4 DEF Fetch
    <2>2. tag \in {None, site[c]} /\ b \in {None, site[c]} /\ c \in Cset
      BY <1>2 DEF Faithful
    <2> HIDE DEF tag, c
    <2>3. /\ cache'.objects = o
          /\ \A d \in Cset : /\ cache'.tag[d] = IF d = c THEN tag ELSE cache.tag[d]
                             /\ cache'.branch[d] = IF d = c THEN b ELSE cache.branch[d]
      BY <2>1, <2>2 DEF Cache
    <2> QED
      BY <1>1, <1>2, <2>2, <2>3 DEF Faithful
  <1>5. ASSUME NEW s \in Shell, Wipe(s)
        PROVE  cache'.objects # "torn" /\ \A c \in Cset : Faithful(c)'
    BY <1>5 DEF Wipe, NoCache, Faithful
  <1>6. ASSUME Kill PROVE cache'.objects # "torn" /\ \A c \in Cset : Faithful(c)'
    <2>1. PICK stage \in Stage : cache' \in Leftovers(stage)
      BY <1>1, <1>6 DEF Kill, Shell
    <2>2. cache'.objects = cache.objects /\ cache'.tag = cache.tag
          /\ cache'.branch = cache.branch
      <3>1. CASE stage \in {"start", "fetch"}
        <4>1. cache' = cache \/ cache' = [cache EXCEPT !.lock = stage]
          BY <2>1, <3>1 DEF Leftovers, Cache
        <4> QED
          BY <4>1 DEF Cache
      <3>2. CASE stage = "checkout"
        <4>1. PICK l \in {cache.lock, "checkout"} :
                cache' = [cache EXCEPT !.tree = Mixed, !.junk = TRUE, !.lock = l]
          BY <2>1, <3>2 DEF Leftovers
        <4> QED
          BY <4>1 DEF Cache
      <3>3. CASE stage \notin {"start", "fetch", "checkout"}
        <4>1. cache' = cache \/ cache' = [cache EXCEPT !.tree = Mixed, !.junk = TRUE]
          BY <2>1, <3>3 DEF Leftovers
        <4> QED
          BY <4>1 DEF Cache
      <3> QED
        BY <3>1, <3>2, <3>3
    <2> QED
      BY <1>3, <2>2
  <1>7. ASSUME NEW s \in Shell, Run(s), ~Fetch(s), ~Wipe(s)
        PROVE  /\ cache'.objects \in {cache.objects, "sound"}
               /\ cache'.tag = cache.tag /\ cache'.branch = cache.branch
    <2>1. CASE Checkout(s)
      BY ZenonT(60), <2>1, CheckoutChanges DEF Cache
    <2>2. CASE Start(s) \/ Clean(s) \/ Expand(s)
      BY <2>2 DEF Start, Clean, Expand, Cache
    <2> QED
      BY <1>7, <2>1, <2>2
         DEF Run, SiteFails, Verify, ReadDate, More, ReadAttr, StartArchive, Temp, Tar,
             CommandFails, ReadFails
  <1>8. ASSUME SubEnds
        PROVE  /\ cache'.objects = cache.objects
               /\ cache'.tag = cache.tag /\ cache'.branch = cache.branch
    BY <1>8 DEF SubEnds, Cache
  <1>9. ASSUME \/ Return \/ UNCHANGED vars
               \/ \E c \in Cset, quiet \in BOOLEAN : Begin(c, quiet)
               \/ \E c \in Cset, m \in Commit : Move(c, m)
        PROVE  cache' = cache
    BY <1>9 DEF Return, vars, Begin, Move
  <1> QED
    BY <1>3, <1>4, <1>5, <1>6, <1>7, <1>8, <1>9 DEF Next

\* The script gets right what it needs next, as its first attempt or its second.
LEMMA GoesRightStep ==
  ASSUME TypeOK, SubshellIsTrouble, FirstThenSecond, Sound, GoesRight, [Next]_vars
  PROVE  GoesRight'
  <1> SUFFICES ASSUME Untroubled' PROVE Right'
    BY DEF GoesRight
  <1> USE DEF TypeOK, Shell, Goto, state, bounds
  <1>1. ASSUME NEW s \in Shell, Run(s) PROVE Right'
    <2> USE DEF Runs
    <2>1. UNCHANGED <<site, moves, cuts>> /\ call'.cset = call.cset
          /\ (NothingRead' => NothingRead)
      <3>1. CASE SiteFails(s) \/ CommandFails(s)
        BY <3>1 DEF SiteFails, CommandFails, Fault, Trouble, NothingRead
      <3>2. CASE ReadFails(s)
        BY <3>2 DEF ReadFails, Fault, Trouble, NothingRead
      <3>3. CASE Wipe(s)
        BY <3>3 DEF Wipe, NothingRead
      <3> QED
        BY <1>1, <3>1, <3>2, <3>3
           DEF Run, Start, Fetch, Verify, Checkout, Clean, ReadDate, More, ReadAttr,
               Expand, StartArchive, Temp, Tar, NothingRead
    <2>2. Untroubled /\ Right /\ at["sub"] = "off" /\ ~call.gone
      BY <2>1 DEF Untroubled, GoesRight, FirstThenSecond
    <2>3. s = "main"
      BY <1>1, <2>2 DEF Run, Wipe, Start, Fetch, SiteFails, Verify, Checkout, Clean,
         ReadDate, More, ReadAttr, Expand, StartArchive, Temp, Tar, CommandFails, ReadFails
    <2>4. at'["main"] \in {"start", "fetch", "verify", "wipe", "failed"} => Right'
      BY DEF Right, CheckedOut
    <2>5. CASE Wipe(s) \/ Start(s) \/ Fetch(s)
      BY <2>3, <2>4, <2>5 DEF Wipe, Start, Fetch
    <2>6. CASE SiteFails(s) \/ CommandFails(s)
      BY <2>3, <2>4, <2>6 DEF SiteFails, CommandFails, Fails
    <2>7. CASE Verify(s)
      BY <2>2, <2>3, <2>7 DEF Verify, Known, Right, CheckedOut
    <2>8. CASE Checkout(s)
      <3>1. cache.objects # "torn" /\ Faithful(call.cset) /\ Known(call.cset)
        BY <2>2, <2>3, <2>8 DEF Sound, Untroubled, Right, Checkout
      <3> DEFINE wanted == IF cache.branch[call.cset] # None THEN cache.branch[call.cset]
                           ELSE cache.tag[call.cset]
      <3>2. wanted = site[call.cset]
        BY <3>1 DEF Faithful, Known
      <3>3. cache'.tree = site[call.cset]
        BY <2>8, <3>1, <3>2 DEF Checkout, Cache
      <3> QED
        BY <2>1, <2>2, <2>3, <2>8, <3>3 DEF Checkout, Right, CheckedOut
    <2>9. CASE Clean(s)
      <3>1. cache'.tree = cache.tree /\ ~cache'.junk
        BY <2>9 DEF Clean, Cache
      <3> QED
        BY <2>1, <2>2, <2>3, <2>9, <3>1 DEF Clean, Right, CheckedOut
    <2>10. CASE Expand(s)
      <3>1. files["main"] = "all"
        BY <2>2, <2>3, <2>10 DEF Expand, Right
      <3>2. cache'.tree = cache.tree /\ cache'.junk = cache.junk /\ cache'.expanded
        BY <2>3, <2>10, <3>1 DEF Expand, Cache
      <3> QED
        BY <2>1, <2>2, <2>3, <2>10, <3>2 DEF Expand, Right, CheckedOut
    <2>11. CASE Tar(s)
      <3>1. cache.expanded = TRUE /\ cache.junk = FALSE /\ date["main"] = "commit"
            /\ cache.tree = site[call.cset]
        <4>1. cache.expanded \in BOOLEAN /\ cache.junk \in BOOLEAN
          BY DEF Cache
        <4> QED
          BY <2>2, <2>3, <2>11, <4>1 DEF Tar, Right, CheckedOut
      <3>2. archive' = [commit |-> site[call.cset], expanded |-> TRUE, junk |-> FALSE,
                        date |-> "commit"]
        BY <2>3, <2>11, <3>1 DEF Tar
      <3>3. IsTheCommit(archive)' /\ at'["main"] = "ok"
        BY <2>1, <2>3, <2>11, <3>2 DEF Tar, IsTheCommit
      <3> QED
        BY <3>3 DEF Right, CheckedOut
    <2>12. CASE ReadDate(s) \/ ReadAttr(s)
      BY <2>2, <2>3, <2>12 DEF ReadDate, AfterDate, ReadAttr, Right, CheckedOut
    <2>13. CASE More(s) \/ StartArchive(s) \/ Temp(s)
      BY <2>2, <2>3, <2>13 DEF More, StartArchive, Temp, Right, CheckedOut
    <2>14. ~ReadFails(s)
      <3>1. ASSUME ReadFails(s), Fault("read") PROVE FALSE
        BY <3>1 DEF Fault, Trouble, Untroubled, NothingRead, Troubles
      <3>2. date["main"] # "garbage" \/ at["main"] # "archive"
        BY <2>2 DEF Right, CheckedOut
      <3> QED
        BY <2>2, <2>3, <3>1, <3>2 DEF ReadFails, Gone
    <2> QED
      BY <1>1, <2>5, <2>6, <2>7, <2>8, <2>9, <2>10, <2>11, <2>12, <2>13, <2>14 DEF Run
  <1>2. ASSUME NEW c \in Cset, NEW q \in BOOLEAN, Begin(c, q) PROVE Right'
    BY <1>2 DEF Begin, Right, CheckedOut
  <1>3. ASSUME SubEnds PROVE FALSE
    <2>1. call'.trouble = call.trouble
      BY <1>3 DEF SubEnds
    <2> QED
      BY <1>3, <2>1 DEF SubEnds, FirstThenSecond, Untroubled, NothingRead
  <1>4. ASSUME NEW c \in Cset, NEW m \in Commit, Move(c, m) PROVE Right'
    BY <1>4 DEF Move, Right, CheckedOut
  <1>5. ASSUME Return \/ Kill PROVE Right'
    BY <1>5 DEF Return, Kill, Right, CheckedOut
  <1>6. ASSUME UNCHANGED vars PROVE Right'
    <2>1. Untroubled
      BY <1>6 DEF vars, Untroubled, NothingRead
    <2>2. Right
      BY <2>1 DEF GoesRight
    <2> QED
      BY <1>6, <2>2 DEF vars, Right, IsTheCommit, Known
  <1> QED
    BY <1>1, <1>2, <1>3, <1>4, <1>5, <1>6 DEF Next

\* A call that succeeds has made the archive of the commit, with its files and its
\* date, whatever earlier calls, killed or not, left in the cache; if no tag ever
\* moved, no removal was cut short, and nothing failed that the script reads from.
THEOREM CommitCorrect == Spec => CleanOkIsTheCommit
  <1> DEFINE Promise ==
        result' = "ok" /\ result # "ok" =>
          moves > 0 \/ cuts > 0 \/ "read" \in call.trouble \/ IsTheCommit(archive')
  <1>1. Init => FirstThenSecond /\ Sound /\ GoesRight
    BY DEF Init, FirstThenSecond, NewCall, Shell, Sound, NoCache, Faithful, GoesRight,
           Right, CheckedOut
  <1>2. TypeOK /\ Reasons /\ FirstThenSecond /\ Sound /\ GoesRight /\ [Next]_vars
          => FirstThenSecond' /\ Sound' /\ GoesRight'
    BY FirstThenSecondStep, SoundStep, GoesRightStep DEF Reasons
  <1>3. TypeOK /\ GoesRight /\ [Next]_vars => [Promise]_vars
    <2> SUFFICES ASSUME TypeOK, GoesRight, [Next]_vars, result' = "ok", result # "ok",
                        ~(moves > 0), ~(cuts > 0), "read" \notin call.trouble
                 PROVE  IsTheCommit(archive')
      OBVIOUS
    <2> USE DEF state, bounds
    <2>1. ASSUME NEW s \in Shell, Run(s) PROVE result' = result
      BY <2>1 DEF Run, Wipe, Start, Fetch, SiteFails, Verify, Checkout, Clean, ReadDate,
         More, ReadAttr, Expand, StartArchive, Temp, Tar, CommandFails, ReadFails
    <2>2. at["main"] = "ok" /\ archive' = archive
      BY <2>1 DEF Next, Begin, Move, SubEnds, Return, Kill, vars
    <2>3. moves = 0 /\ cuts = 0
      BY DEF TypeOK
    <2> QED
      BY <2>2, <2>3 DEF GoesRight, Untroubled, NothingRead, Right, IsTheCommit
  <1> QED
    BY <1>1, <1>2, <1>3, Inductive, PTL DEF Spec, CleanOkIsTheCommit

=============================================================================
