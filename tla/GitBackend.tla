----------------------------- MODULE GitBackend -----------------------------
(* support/download/git, that dl-wrapper calls to make an archive of one   *)
(* revision of a git tree, and mk_tar_gz of its helpers.  It keeps a cache *)
(* of the repository between calls.  On an error it removes the cache and  *)
(* executes itself again, once; but as the trap is inherited (set -E), the *)
(* error may be in a subshell whose output the script is waiting for: then *)
(* the second attempt runs there, below the first.                         *)
EXTENDS Naturals, FiniteSets

CONSTANTS
  Cset,        \* names of revisions that are asked for
  Commit,
  None,        \* no commit
  Mixed,       \* files that are of no commit, or not all of one
  Recurse,     \* submodules are wanted, or large files
  MaxCalls,    \* bound: calls
  MaxFaults,   \* bound: killed calls and commands that fail on their own
  MaxCuts,     \* bound: rm -rf cut short
  MaxMoves     \* bound: times that the site changes what a name stands for

ASSUME ConstantsAssumption ==
  /\ None \notin Commit \cup Cset /\ Mixed \notin Commit \cup {None}
  /\ Recurse \in BOOLEAN
  /\ {MaxCalls, MaxFaults, MaxCuts, MaxMoves} \subseteq Nat

Shell == {"main", "sub"}  \* the script, and a subshell of it that runs it again
Stage == {"off", "start", "fetch", "verify", "checkout", "clean", "date", "more",
          "attr", "expand", "archive", "temp", "tar", "wipe", "ok", "failed"}

-----------------------------------------------------------------------------
VARIABLES
  site,     \* what the names stand for at the site
  cache,    \* the cache and its work tree
  archive,  \* what is in the archive
  at,       \* where the script is, and its subshell
  date,     \* the date of the commit, as either of them has it
  files,    \* the files with hints to expand, as either of them has them
  call,     \* the call being served
  result,   \* of the last call
  calls, faults, cuts, moves  \* used of the bounds

state == <<archive, date, files>>
bounds == <<calls, faults, cuts, moves>>
vars == <<site, cache, state, at, call, result, bounds>>

Cache ==
  [objects : {"none", "sound", "torn"}, \* torn: some are missing
   lock : {"no", "start", "fetch", "checkout"}, \* the command it keeps from working
   tag : [Cset -> Commit \cup {None}],  \* as the site's references say
   branch : [Cset -> Commit \cup {None}], \* local branches of these names
   head : Cset \cup {None},             \* the branch that is checked out
   tree : Commit \cup {None, Mixed},    \* the files of the work tree,
   expanded : BOOLEAN,                  \* the hints in them,
   junk : BOOLEAN]                      \* other files among them

NoCache ==
  [objects |-> "none", lock |-> "no", tag |-> [c \in Cset |-> None],
   branch |-> [c \in Cset |-> None], head |-> None, tree |-> None,
   expanded |-> FALSE, junk |-> FALSE]

Troubles == {"site", "command", "read"}  \* a command whose output is read
ManyClones == 3  \* where counting them stops

Date == {"commit", "empty", "garbage"}

NoArchive == [commit |-> None, expanded |-> FALSE, junk |-> FALSE, date |-> "empty"]

TypeOK ==
  /\ site \in [Cset -> Commit \cup {None}]
  /\ cache \in Cache
  /\ archive \in [commit : Commit \cup {None, Mixed}, expanded : BOOLEAN,
                  junk : BOOLEAN, date : Date]
  /\ at \in [Shell -> Stage]
  /\ date \in [Shell -> Date]
  /\ files \in [Shell -> {"all", "some", "none"}]
  /\ call \in [cset : Cset, quiet : BOOLEAN, second : BOOLEAN, gone : BOOLEAN,
               trouble : SUBSET Troubles, clones : 0..ManyClones]
  /\ result \in {"none", "ok", "failed", "killed"}
  /\ calls \in 0..MaxCalls /\ faults \in 0..MaxFaults
  /\ cuts \in 0..MaxCuts /\ moves \in 0..MaxMoves

NewCall(c, q) ==
  [cset |-> c, quiet |-> q, second |-> FALSE, gone |-> FALSE, trouble |-> {}, clones |-> 0]

Init ==
  /\ site \in [Cset -> Commit \cup {None}]
  /\ cache = NoCache
  /\ archive = NoArchive
  /\ at = [s \in Shell |-> "off"]
  /\ date = [s \in Shell |-> "empty"]
  /\ files = [s \in Shell |-> "none"]
  /\ \E c \in Cset, q \in BOOLEAN : call = NewCall(c, q)
  /\ result = "none"
  /\ calls = 0 /\ faults = 0 /\ cuts = 0 /\ moves = 0

-----------------------------------------------------------------------------
(* The attempts of a call.                                                 *)

Runs(s, stage) == at[s] = stage /\ (s = "main" => at["sub"] = "off")
Goto(s, stage) == at' = [at EXCEPT ![s] = stage]

\* Every error is the first one.
FailsMutant(s) == Goto(s, IF s = "sub" THEN "failed" ELSE "wipe")

\* _on_error: the first attempt removes the cache, the second one gives up.
Fails(s) == Goto(s, IF s = "sub" \/ call.second THEN "failed" ELSE "wipe")

\* The removed work tree is still the current directory of the script.
Gone(s) == s = "main" /\ call.gone

Trouble(what) == call' = [call EXCEPT !.trouble = @ \cup {what}]
Fault(what) == faults < MaxFaults /\ faults' = faults + 1 /\ Trouble(what)

Begin(c, quiet) ==
  /\ at["main"] = "off" /\ calls < MaxCalls
  /\ calls' = calls + 1
  /\ call' = NewCall(c, quiet)
  /\ archive' = NoArchive /\ result' = "none"
  /\ Goto("main", "start")
  /\ UNCHANGED <<site, cache, date, files, faults, cuts, moves>>

OneMore(n) == IF n < ManyClones THEN n + 1 ELSE n

\* A second attempt with the cache that made the first one fail.
WipeMutant(s) ==
  /\ Runs(s, "wipe")
  /\ call' = [call EXCEPT !.second = @ \/ s = "main", !.gone = @ /\ s # "main",
                          !.clones = OneMore(@)]
  /\ Goto(s, "start")
  /\ UNCHANGED <<site, cache, state, result, bounds>>

\* popd, rm -rf, exec.
Wipe(s) ==
  /\ Runs(s, "wipe")
  /\ cache' = NoCache
  /\ call' = [call EXCEPT !.second = @ \/ s = "main", !.gone = @ /\ s # "main",
                          !.clones = OneMore(@)]
  /\ Goto(s, "start")
  /\ UNCHANGED <<site, state, result, bounds>>

\* The script ends.
Return ==
  /\ at["main"] \in {"ok", "failed"}
  /\ result' = at["main"]
  /\ Goto("main", "off")
  /\ UNCHANGED <<site, cache, state, call, bounds>>

-----------------------------------------------------------------------------
(* The commands.                                                           *)

\* git init, remote add, remote set-url.
Start(s) ==
  /\ Runs(s, "start") /\ cache.lock # "start"
  /\ cache' = [cache EXCEPT !.objects = IF @ = "none" THEN "sound" ELSE @]
  /\ Goto(s, "fetch")
  /\ UNCHANGED <<site, state, call, result, bounds>>

\* git fetch.  Where objects are missing, it may bring them or not.  The last
\* fetch makes a branch of that name; its failure is ignored, and it does fail
\* for the branch that is checked out.
Fetch(s) ==
  LET c == call.cset
      tag == IF site[c] = None THEN cache.tag[c] ELSE site[c]
      branches == {cache.branch[c]}
                  \cup (IF site[c] = None \/ cache.head = c THEN {} ELSE {site[c]})
  IN
  /\ Runs(s, "fetch") /\ cache.lock # "fetch"
  /\ \E o \in {"sound", cache.objects}, b \in branches :
       cache' = [cache EXCEPT !.objects = o, !.tag[c] = tag, !.branch[c] = b]
  /\ Goto(s, "verify")
  /\ UNCHANGED <<site, state, call, result, bounds>>

\* The site does not answer.
SiteFails(s) ==
  /\ Runs(s, "fetch") \/ Runs(s, "more")
  /\ Trouble("site")
  /\ Fails(s)
  /\ UNCHANGED <<site, cache, state, result, bounds>>

Known(c) == cache.tag[c] # None \/ cache.branch[c] # None

\* A commit that does not exist is an error like all others.
VerifyMutant(s) ==
  /\ Runs(s, "verify")
  /\ IF Known(call.cset) THEN Goto(s, "checkout") ELSE Fails(s)
  /\ UNCHANGED <<site, cache, state, call, result, bounds>>

\* A commit that does not exist: exit, without the trap.
Verify(s) ==
  /\ Runs(s, "verify")
  /\ Goto(s, IF Known(call.cset) THEN "checkout" ELSE "failed")
  /\ UNCHANGED <<site, cache, state, call, result, bounds>>

\* git checkout takes a name for that of a local branch first, and does not
\* tell of trees that it cannot read.
Checkout(s) ==
  LET c == call.cset
      wanted == IF cache.branch[c] # None THEN cache.branch[c] ELSE cache.tag[c]
  IN
  /\ Runs(s, "checkout") /\ cache.lock # "checkout"
  /\ \E files_ \in {wanted} \cup (IF cache.objects = "torn" THEN {Mixed} ELSE {}) :
       cache' = [cache EXCEPT !.tree = files_, !.expanded = FALSE,
                              !.head = IF cache.branch[c] # None THEN c ELSE None]
  /\ Goto(s, "clean")
  /\ UNCHANGED <<site, state, call, result, bounds>>

\* git clean is not run.
CleanMutant(s) ==
  /\ Runs(s, "clean")
  /\ Goto(s, "date")
  /\ UNCHANGED <<site, cache, state, call, result, bounds>>

Clean(s) ==
  /\ Runs(s, "clean")
  /\ cache' = [cache EXCEPT !.junk = FALSE]
  /\ Goto(s, "date")
  /\ UNCHANGED <<site, state, call, result, bounds>>

AfterDate == IF Recurse THEN "more" ELSE "attr"

ReadDate(s) ==
  /\ Runs(s, "date")
  /\ date' = [date EXCEPT ![s] = "commit"]
  /\ Goto(s, AfterDate)
  /\ UNCHANGED <<site, cache, archive, files, call, result, bounds>>

\* Submodules, large files.
More(s) ==
  /\ Runs(s, "more") /\ ~Gone(s)
  /\ Goto(s, "attr")
  /\ UNCHANGED <<site, cache, state, call, result, bounds>>

\* Which files have hints to expand.
ReadAttr(s) ==
  /\ Runs(s, "attr") /\ ~Gone(s)
  /\ files' = [files EXCEPT ![s] = "all"]
  /\ Goto(s, "expand")
  /\ UNCHANGED <<site, cache, archive, date, call, result, bounds>>

Expand(s) ==
  /\ Runs(s, "expand") /\ (Gone(s) => files[s] = "none")
  /\ cache' = [cache EXCEPT !.expanded = @ \/ files[s] = "all"]
  /\ Goto(s, "archive")
  /\ UNCHANGED <<site, state, call, result, bounds>>

\* mk_tar_gz: its date command takes no date for today.
StartArchive(s) ==
  /\ Runs(s, "archive") /\ date[s] # "garbage"
  /\ Goto(s, "temp")
  /\ UNCHANGED <<site, cache, state, call, result, bounds>>

\* A temporary file for the list of files.
Temp(s) ==
  /\ Runs(s, "temp")
  /\ Goto(s, "tar")
  /\ UNCHANGED <<site, cache, state, call, result, bounds>>

Tar(s) ==
  /\ Runs(s, "tar") /\ date[s] # "garbage"
  /\ archive' = [commit |-> cache.tree, expanded |-> cache.expanded,
                 junk |-> cache.junk, date |-> date[s]]
  /\ Goto(s, "ok")
  /\ UNCHANGED <<site, cache, date, files, call, result, bounds>>

-----------------------------------------------------------------------------
(* Errors.                                                                 *)

\* A command that is not in a subshell fails: for a lock that a killed command
\* left, for missing objects, for the directory or the date of the script, or
\* on its own.
CommandFails(s) ==
  /\ \E stage \in {"start", "fetch", "checkout", "clean", "more", "expand", "tar"} :
       /\ Runs(s, stage)
       /\ \/ /\ \/ cache.lock = stage
                \/ stage \in {"fetch", "checkout"} /\ cache.objects = "torn"
                \/ stage \in {"more", "expand"} /\ Gone(s)
                \/ stage = "tar" /\ date[s] = "garbage"
             /\ UNCHANGED <<faults, call>>
          \/ Fault("command")
  /\ Fails(s)
  /\ UNCHANGED <<site, cache, state, result, calls, cuts, moves>>

\* A command in a subshell fails.  In the first attempt, the trap runs there.
\* In the second, $(...) fails with it, and <(...) just ends early.
ReadFails(s) ==
  /\ \E stage \in {"date", "attr", "archive", "temp"} :
       /\ Runs(s, stage)
       /\ \/ /\ \/ stage = "attr" /\ Gone(s)
                \/ stage = "archive" /\ date[s] = "garbage"
             /\ UNCHANGED <<faults, call>>
          \/ stage # "archive" /\ Fault("read")
       /\ IF s = "main" /\ ~call.second
          THEN Goto("sub", "wipe") /\ UNCHANGED files
          ELSE IF stage # "attr" THEN Goto(s, "failed") /\ UNCHANGED files
          ELSE /\ \E f \in {"some", "none"} : files' = [files EXCEPT ![s] = f]
               /\ Goto(s, "expand")
  /\ UNCHANGED <<site, cache, archive, date, result, calls, cuts, moves>>

\* The subshell has ended: what it printed is the date, or is lost, or is the
\* name of a temporary file.
SubEnds ==
  LET printed == [date EXCEPT !["main"] = IF call.quiet THEN "empty" ELSE "garbage"]
      Continue(stage) == at' = [at EXCEPT !["sub"] = "off", !["main"] = stage]
  IN
  /\ at["sub"] \in {"ok", "failed"}
  /\ \/ /\ at["main"] = "date" /\ at["sub"] = "ok"
        /\ Continue(AfterDate)
        /\ date' = printed /\ call' = [call EXCEPT !.gone = TRUE]
        /\ UNCHANGED <<cache, files>>
     \/ /\ at["main"] = "date" /\ at["sub"] = "failed"
        /\ Continue("wipe")
        /\ UNCHANGED <<cache, date, files, call>>
     \/ /\ at["main"] = "attr"
        /\ Continue("expand")
        /\ \E f \in {"some", "none"} : files' = [files EXCEPT !["main"] = f]
        /\ call' = [call EXCEPT !.gone = TRUE]
        /\ UNCHANGED <<cache, date>>
     \/ /\ at["main"] = "archive" /\ at["sub"] = "ok"
        /\ Continue("temp")
        /\ date' = printed
        /\ UNCHANGED <<cache, files, call>>
     \/ \* without a name, the list is a file of the tree
        /\ at["main"] = "temp" /\ at["sub"] = "ok"
        /\ IF call.quiet THEN Continue("tar") /\ cache' = [cache EXCEPT !.junk = TRUE]
                    ELSE Continue("wipe") /\ UNCHANGED cache
        /\ UNCHANGED <<date, files, call>>
     \/ \* popd fails in the trap, for the script is back where it began
        /\ at["main"] \in {"archive", "temp"} /\ at["sub"] = "failed"
        /\ Continue("failed")
        /\ UNCHANGED <<cache, date, files, call>>
  /\ UNCHANGED <<site, archive, result, bounds>>

\* What a command that is killed leaves of the cache.
Leftovers(stage) ==
  CASE stage \in {"start", "fetch"} ->
         {cache, [cache EXCEPT !.lock = IF @ = "no" THEN stage ELSE @]}
    [] stage = "checkout" ->
         {[cache EXCEPT !.tree = Mixed, !.junk = TRUE, !.lock = l] :
            l \in {cache.lock, IF cache.lock = "no" THEN "checkout" ELSE cache.lock}}
    [] stage = "expand" -> {cache, [cache EXCEPT !.tree = Mixed, !.junk = TRUE]}
    [] OTHER -> {cache}

\* What rm -rf leaves when it is cut short: some objects and references.
Torn ==
  {[cache EXCEPT !.objects = "torn", !.tree = Mixed, !.junk = TRUE,
                 !.tag = t, !.branch = b, !.head = h] :
     t \in {cache.tag, NoCache.tag}, b \in {cache.branch, NoCache.branch},
     h \in {cache.head, None}}

\* A signal, or the machine going down.
Kill ==
  /\ at["main"] # "off"
  /\ faults < MaxFaults /\ faults' = faults + 1
  /\ LET stage == at[IF at["sub"] = "off" THEN "main" ELSE "sub"] IN
     \/ cache' \in Leftovers(stage) /\ UNCHANGED cuts
     \/ /\ stage = "wipe" /\ cuts < MaxCuts /\ cuts' = cuts + 1
        /\ cache.objects # "none" /\ cache' \in Torn
  /\ at' = [s \in Shell |-> "off"]
  /\ result' = "killed"
  /\ UNCHANGED <<site, state, call, calls, moves>>

\* Somebody moves a tag or makes one (between two calls: during one, what
\* was there before would be as right as what is there after).
Move(c, m) ==
  /\ at["main"] = "off"
  /\ moves < MaxMoves /\ moves' = moves + 1
  /\ m # site[c] /\ site' = [site EXCEPT ![c] = m]
  /\ UNCHANGED <<cache, state, at, call, result, calls, faults, cuts>>

Run(s) ==
  \/ Wipe(s) \/ Start(s) \/ Fetch(s) \/ SiteFails(s) \/ Verify(s) \/ Checkout(s)
  \/ Clean(s) \/ ReadDate(s) \/ More(s) \/ ReadAttr(s) \/ Expand(s) \/ StartArchive(s)
  \/ Temp(s) \/ Tar(s) \/ CommandFails(s) \/ ReadFails(s)

Next ==
  \/ \E c \in Cset, quiet \in BOOLEAN : Begin(c, quiet)
  \/ \E c \in Cset, m \in Commit : Move(c, m)
  \/ \E s \in Shell : Run(s)
  \/ SubEnds \/ Return \/ Kill

Spec == Init /\ [][Next]_vars

\* The commands of the script end.
FairSpec == Spec /\ WF_vars((\E s \in Shell : Run(s)) \/ SubEnds \/ Return)

-----------------------------------------------------------------------------
(* Properties.                                                             *)

IsTheCommit(a) ==
  a = [commit |-> site[call.cset], expanded |-> TRUE, junk |-> FALSE, date |-> "commit"]

\* When a call succeeds, the archive is that of the commit the site has under
\* the name (lines 185-192): all its files, with their hints expanded, no others,
\* and its date.
OkIsTheCommit == [][result' = "ok" /\ result # "ok" => IsTheCommit(archive')]_vars

\* So it is where no tag ever moved, no removal was cut short, and nothing that
\* the script reads from failed in this call.  What earlier calls for other
\* revisions, killed or not, left in the cache does not matter.
CleanOkIsTheCommit ==
  [][result' = "ok" /\ result # "ok" =>
       moves > 0 \/ cuts > 0 \/ "read" \in call.trouble \/ IsTheCommit(archive')]_vars

\* The archive of a call that succeeds bears the date of the commit (line 194),
\* by which the same archive is made again elsewhere.
DateIsTheCommits == result = "ok" => archive.date = "commit"

\* A call that meets no trouble succeeds if the site has the revision, whatever
\* state earlier calls left the cache in (lines 32-36, 128, 189-191).
CalmCallsSucceed ==
  at["main"] = "failed" => call.trouble # {} \/ site[call.cset] = None

Removed == cache.objects = "sound" /\ cache'.objects # "sound"

\* A cache is removed only if it is in some way damaged or there is trouble, and
\* not for a missing commit: "re-cloning from scratch won't help, so we don't
\* want to trash the repository for a missing commit" (lines 150-152).
KeptWithoutTrouble == [][Removed => call.trouble # {} \/ cache.lock # "no"]_vars

\* An error makes the backend "attempt a clone from scratch (only once!)" (33).
\* More are made only if a command failed that the script reads from: its
\* subshell makes one, and the script does not know.
OnlyOnce == "read" \in call.trouble \/ call.clones <= 1

\* A call ends, though the site never answers.
CallEnds == at["main"] # "off" ~> at["main"] = "off"

=============================================================================
