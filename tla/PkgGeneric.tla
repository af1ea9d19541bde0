----------------------------- MODULE PkgGeneric -----------------------------
(***************************************************************************)
(* The step engine of buildroot/package/pkg-generic.mk.  Every package is  *)
(* a chain of make rules whose targets are stamp files in its build        *)
(* directory; a user issues make commands (build a package, redo it from   *)
(* some step, remove its directory), make visits the rules in an order     *)
(* compatible with their prerequisites, and a recipe touches its stamp     *)
(* last.  make may be killed at any point, a recipe may fail, and the      *)
(* sources of a package may be edited between commands.                    *)
(*                                                                         *)
(* Time stamps are abstracted to what make reads in them: a stamp is       *)
(* absent, or it is older than the stamp of some normal prerequisite       *)
(* ("stale"), or it is not ("fresh").                                      *)
(***************************************************************************)
EXTENDS Naturals, Sequences

CONSTANTS
  Pkg,         \* the packages enabled in the configuration
  Host,        \* those that install to HOST_DIR (<pkg>_TYPE = host)
  Override,    \* those with <pkg>_OVERRIDE_SRCDIR
  Target,      \* those with <pkg>_INSTALL_TARGET = YES
  Staging,     \* those with <pkg>_INSTALL_STAGING = YES
  Images,      \* those with <pkg>_INSTALL_IMAGES = YES
  Patched,     \* those with a patch to apply
  BadArch,     \* those that install a binary for a wrong architecture to TARGET_DIR
  Deps,        \* Deps[s][p]: packages the step s of p has an order-only
               \* dependency on (<pkg>_FINAL_{DOWNLOAD_,EXTRACT_,PATCH_,}DEPENDENCIES)
  PerPackage,  \* BR2_PER_PACKAGE_DIRECTORIES
  WaitIsSpecial, \* GNU make >= 4.4, that knows .WAIT
  Commands,    \* the make command lines a user may type
  MaxRuns,     \* bound: number of make commands
  MaxFaults,   \* bound: number of failing recipes and killed makes
  MaxEdits     \* bound: number of source edits

DepStep == {"downloaded", "extracted", "patched", "configured"}
InstallStep ==
  {"host_installed", "staging_installed", "target_installed", "images_installed"}
Step == DepStep \cup InstallStep \cup {"rsynced", "built", "installed"}
Clean == {"clean-for-reinstall", "clean-for-rebuild", "clean-for-reconfigure"}
Node == Pkg \X (Step \cup Clean \cup {"dircleaned"})

-----------------------------------------------------------------------------
(* The rules.                                                              *)

InstallSteps(p) ==
  (IF p \in Host THEN {"host_installed"} ELSE {})
  \cup (IF p \in Target THEN {"target_installed"} ELSE {})
  \cup (IF p \in Staging THEN {"staging_installed"} ELSE {})
  \cup (IF p \in Images THEN {"images_installed"} ELSE {})

StepsOf == [p \in Pkg |->
  (IF p \in Override THEN {"rsynced"} ELSE {"downloaded", "extracted", "patched"})
  \cup {"configured", "built", "installed"} \cup InstallSteps(p)]

(* Operators named ...Mutant are wrong variants of the definition that     *)
(* follows: the properties are checked to tell them from it.               *)

\* The synced sources as a normal prerequisite of configure.
SequencingMutant ==
  {<<"downloaded", "extracted">>, <<"extracted", "patched">>,
   <<"patched", "configured">>, <<"rsynced", "configured">>, <<"configured", "built">>,
   <<"built", "installed">>, <<"staging_installed", "target_installed">>}
  \cup ({"built"} \X InstallStep) \cup (InstallStep \X {"installed"})

\* Nothing keeps the target installation after the staging one.
SequencingMutant2 ==
  {<<"downloaded", "extracted">>, <<"extracted", "patched">>,
   <<"patched", "configured">>, <<"configured", "built">>, <<"built", "installed">>}
  \cup ({"built"} \X InstallStep) \cup (InstallStep \X {"installed"})

\* The normal prerequisites: pairs <<before, after>>.
Sequencing ==
  {<<"downloaded", "extracted">>, <<"extracted", "patched">>,
   <<"patched", "configured">>, <<"configured", "built">>,
   <<"built", "installed">>, <<"staging_installed", "target_installed">>}
  \cup ({"built"} \X InstallStep) \cup (InstallStep \X {"installed"})

Prereq == [p \in Pkg |-> [s \in Step |->
             {t \in StepsOf[p] : <<t, s>> \in Sequencing}]]

\* A package named as a patch dependency is reached through <pkg>-patch.
PatchNode(q) == <<q, IF q \in Override THEN "rsynced" ELSE "patched">>

OrderOnly(p, s) ==
  (IF s \in DepStep \cap StepsOf[p]
   THEN {IF s = "patched" THEN PatchNode(q) ELSE <<q, "installed">> : q \in Deps[s][p]}
   ELSE {})
  \cup (IF s = "configured" /\ p \in Override THEN {<<p, "rsynced">>} ELSE {})

\* <pkg>-clean-for-rebuild without <pkg>-clean-for-reinstall.
CleanPrereqMutant(c) == IF c = "clean-for-reconfigure" THEN {"clean-for-rebuild"} ELSE {}

CleanPrereq(c) ==
  CASE c = "clean-for-rebuild" -> {"clean-for-reinstall"}
    [] c = "clean-for-reconfigure" -> {"clean-for-rebuild"}
    [] OTHER -> {}

\* The order-only dependencies are forgotten.
PreMutant == [n \in Node |->
  {n[1]} \X (IF n[2] \in Step THEN Prereq[n[1]][n[2]] ELSE CleanPrereq(n[2]))]

\* Everything make brings up to date before the target n.
Pre == [n \in Node |->
  IF n[2] \in Step THEN ({n[1]} \X Prereq[n[1]][n[2]]) \cup OrderOnly(n[1], n[2])
  ELSE {n[1]} \X CleanPrereq(n[2])]

\* The target n, everything before it, everything before that, and so on.
Needs[n \in Node] == {n} \cup UNION {Needs[m] : m \in Pre[n]}
Closure(S) == Node \cap UNION {Needs[n] : n \in S}

\* The stamps a clean recipe removes, in its order.
Removals(p, c) ==
  CASE c = "clean-for-rebuild" -> <<"built">>
    [] c = "clean-for-reconfigure" -> <<"configured">>
    [] OTHER -> (IF p \in Override THEN <<"rsynced">> ELSE <<>>)
                \o <<"installed", "staging_installed", "target_installed",
                     "images_installed", "host_installed">>

(* A goal is a target and the packages it is asked of: "installed" for the *)
(* target <pkg> (of every package: make all), another stamp for            *)
(* <pkg>-configure and its like, and the redo targets, which are the only  *)
(* ones with two prerequisites, separated by .WAIT.                        *)
CleanFor == [reinstall |-> "clean-for-reinstall", rebuild |-> "clean-for-rebuild",
             reconfigure |-> "clean-for-reconfigure"]
Goal == [pkgs : SUBSET Pkg, target : Step \cup {"dircleaned"} \cup DOMAIN CleanFor]

ASSUME ConstantsAssumption ==
  /\ {Host, Override, Target, Staging, Images, Patched, BadArch} \subseteq SUBSET Pkg
  /\ Host \cap (Target \cup Staging \cup Images) = {}
  /\ Deps \in [DepStep -> [Pkg -> SUBSET Pkg]]
  /\ {PerPackage, WaitIsSpecial} \subseteq BOOLEAN
  /\ Commands \subseteq Seq(Goal)
  /\ {MaxRuns, MaxFaults, MaxEdits} \subseteq Nat

(* No package comes before itself.  Two packages may well need each other   *)
(* as rtai, which is built against linux, and linux, which is patched with *)
(* the sources of rtai: what counts is what the tree of a package and what *)
(* the package made of it come after.                                      *)
After(p, stage) ==
  IF stage = "made" THEN {<<p, "tree">>} \cup (Deps["configured"][p] \X {"made"})
  ELSE IF p \in Override THEN {}
  ELSE (Deps["patched"][p] \X {"tree"})
       \cup ((Deps["downloaded"][p] \cup Deps["extracted"][p]) \X {"made"})

ASSUME NoCircles ==
  \A S \in SUBSET (Pkg \X {"tree", "made"}) :
    S # {} => \E x \in S : After(x[1], x[2]) \cap S = {}

\* What make brings up to date for the goal g, in phases each of which begins
\* once the preceding ones are over.
Phases(g, ordered) ==
  IF g.target \notin DOMAIN CleanFor THEN << Closure(g.pkgs \X {g.target}) >>
  ELSE LET clean == Closure(g.pkgs \X {CleanFor[g.target]})
           redo  == Closure(g.pkgs \X {"installed"})
       IN  IF ordered THEN <<clean, redo>> ELSE <<clean \cup redo>>

-----------------------------------------------------------------------------
VARIABLES
  stamp,    \* stamp[p][s]: the stamp file of step s, as make sees it
  work,     \* work[p][s]: what step s left: nothing, something unfinished, a
            \* result older than one of its inputs, or a coherent result
  applied,  \* applied[p]: times the patch of p went into the present tree
  snapshot, \* the packages with a .files-list.before
  since,    \* since[p]: the installations <<package, step>> since that snapshot
  list,     \* list[p]: those whose files are in the lists of p: .files-list.txt
            \* (target_installed), and the -staging, -images and -host ones
  edited,   \* edited[p]: "source" if the override sources were changed since
            \* the last rsync, "tree" if the tree was since the last build
  torn,     \* packages with a directory some rm -Rf of which was cut short,
            \* or done while make took the package for up to date
  status,   \* of the last make command
  jobs,     \* it runs recipes in parallel
  plan,     \* for each of its goals, what it needs, phase by phase
  running,  \* targets whose recipe is running
  kept,     \* targets found up to date by this make command
  made,     \* targets this make command has remade
  left,     \* left[p]: stamps a running clean recipe of p has still to remove
  topatch,  \* packages whose running patch recipe has yet to apply the patch
  settled,  \* packages all of whose stamps were fresh when the command began
  runs, faults, edits  \* used of the bounds

files == <<stamp, work, applied, snapshot, since, list, edited, torn>>
make  == <<status, jobs, plan, running, kept, made, left, topatch, settled>>
vars  == <<files, make, runs, faults, edits>>

Active == status \in {"running", "failing"}

TypeOK ==
  /\ stamp \in [Pkg -> [Step -> {"absent", "stale", "fresh"}]]
  /\ work \in [Pkg -> [Step -> {"none", "partial", "outdated", "good"}]]
  /\ applied \in [Pkg -> Nat]
  /\ snapshot \subseteq Pkg
  /\ since \in [Pkg -> SUBSET (Pkg \X InstallStep)]
  /\ list \in [Pkg -> SUBSET (Pkg \X InstallStep)]
  /\ edited \in [Pkg -> {"no", "source", "tree"}]
  /\ torn \subseteq Pkg
  /\ status \in {"idle", "running", "failing", "ok", "failed", "killed"}
  /\ jobs \in BOOLEAN
  /\ plan \in Seq(Seq(SUBSET Node))
  /\ {running, kept, made} \subseteq SUBSET Node
  /\ left \in [Pkg -> Seq(Step)]
  /\ topatch \subseteq {p \in Pkg : <<p, "patched">> \in running}
  /\ running # {} => Active
  /\ settled \subseteq Pkg
  /\ runs \in 0..MaxRuns /\ faults \in 0..MaxFaults /\ edits \in 0..MaxEdits

Init ==
  /\ stamp = [p \in Pkg |-> [s \in Step |-> "absent"]]
  /\ work = [p \in Pkg |-> [s \in Step |-> "none"]]
  /\ applied = [p \in Pkg |-> 0]
  /\ snapshot = {} /\ torn = {}
  /\ since = [p \in Pkg |-> {}]
  /\ list = [p \in Pkg |-> {}]
  /\ edited = [p \in Pkg |-> "no"]
  /\ status = "idle" /\ jobs = FALSE /\ plan = <<>>
  /\ running = {} /\ kept = {} /\ made = {}
  /\ left = [p \in Pkg |-> <<>>]
  /\ topatch = {} /\ settled = {}
  /\ runs = 0 /\ faults = 0 /\ edits = 0

-----------------------------------------------------------------------------
(* What make is after.                                                     *)

Done == kept \cup made

Reached(i, k) == \A h \in 1..(k - 1) : plan[i][h] \subseteq Done
Complete(i) == \A k \in DOMAIN plan[i] : plan[i][k] \subseteq Done

\* Without -j, or with .NOTPARALLEL, a goal waits for the goals before it.
Wanted(n) ==
  \E i \in DOMAIN plan :
    /\ jobs \/ \A h \in 1..(i - 1) : Complete(h)
    /\ \E k \in DOMAIN plan[i] : n \in plan[i][k] /\ Reached(i, k)

\* make is about to decide on the target n.
CanVisit(n) ==
  /\ status = "running"
  /\ jobs \/ running = {}
  /\ n \notin Done \cup running
  /\ Wanted(n)
  /\ Pre[n] \subseteq Done

Asked == UNION {UNION {plan[i][k] : k \in DOMAIN plan[i]} : i \in DOMAIN plan}

AllFresh(p) == \A s \in StepsOf[p] : stamp[p][s] = "fresh"
AllAbsent(p) == \A s \in Step : stamp[p][s] = "absent"

\* The user runs make.  Only per-package directories lift .NOTPARALLEL.
Make(command, j) ==
  /\ ~Active /\ runs < MaxRuns
  /\ j => PerPackage
  /\ status' = "running" /\ runs' = runs + 1
  /\ jobs' = j
  /\ plan' = [i \in DOMAIN command |-> Phases(command[i], WaitIsSpecial \/ ~j)]
  /\ kept' = {} /\ made' = {}
  /\ settled' = {p \in Pkg : AllFresh(p)}
  /\ torn' = {p \in torn : ~AllAbsent(p)}
  /\ UNCHANGED <<stamp, work, applied, snapshot, since, list, edited,
                 running, left, topatch, faults, edits>>

\* The target is there and no normal prerequisite is newer.
Keep(p, s) ==
  /\ CanVisit(<<p, s>>)
  /\ stamp[p][s] = "fresh"
  /\ kept' = kept \cup {<<p, s>>}
  /\ UNCHANGED <<files, status, jobs, plan, running, made, left, topatch, settled,
                 runs, faults, edits>>

-----------------------------------------------------------------------------
(* The recipes of the stamps.                                              *)

\* The list of applied patches is not consulted.
DuplicateMutant(p) == FALSE

\* apply-patches.sh refuses a patch that .applied_patches_list already names.
Duplicate(p) == p \in Patched /\ applied[p] > 0

\* Step s of p starts over: what it left is unfinished, and what was made
\* from its previous result is older than what it will be.
WorkDuring(p, s) ==
  [work EXCEPT ![p] = [t \in Step |->
     IF t = s THEN "partial"
     ELSE IF s \in Prereq[p][t] /\ @[t] = "good" THEN "outdated"
     ELSE @[t]]]

\* The packages whose file lists cover the directories p installs to.
Watching(p) == IF PerPackage THEN {p} ELSE Pkg

\* touch makes a stamp newer than all others.
Touch(p, s) ==
  [stamp EXCEPT ![p] = [t \in Step |->
     IF t = s THEN "fresh"
     ELSE IF s \in Prereq[p][t] /\ @[t] = "fresh" THEN "stale"
     ELSE @[t]]]

\* The stamp is touched before the recipe does its work.
StartRecipeMutant(p, s) ==
  /\ s \in StepsOf[p] /\ CanVisit(<<p, s>>)
  /\ stamp[p][s] # "fresh"
  /\ running' = running \cup {<<p, s>>}
  /\ work' = WorkDuring(p, s)
  /\ stamp' = Touch(p, s)
  /\ UNCHANGED <<applied, torn, status, jobs, plan, kept, made, left,
                 settled, runs, faults, edits>>

StartRecipe(p, s) ==
  /\ s \in StepsOf[p] /\ CanVisit(<<p, s>>)
  /\ stamp[p][s] # "fresh"
  /\ running' = running \cup {<<p, s>>}
  /\ work' = WorkDuring(p, s)
  /\ UNCHANGED <<stamp, applied, torn, status, jobs, plan, kept, made, left,
                 settled, runs, faults, edits>>

StartDownload(p) ==
  /\ StartRecipe(p, "downloaded")
  /\ UNCHANGED <<snapshot, since, list, edited, topatch>>

StartExtract(p) ==
  /\ StartRecipe(p, "extracted")
  /\ UNCHANGED <<snapshot, since, list, edited, topatch>>

StartRsync(p) ==
  /\ StartRecipe(p, "rsynced")
  /\ edited' = [edited EXCEPT ![p] = IF @ = "source" THEN "tree" ELSE @]
  /\ UNCHANGED <<snapshot, since, list, topatch>>

StartPatch(p) ==
  /\ ~Duplicate(p)
  /\ StartRecipe(p, "patched")
  /\ topatch' = topatch \cup ({p} \cap Patched)
  /\ UNCHANGED <<snapshot, since, list, edited>>

\* The patch is recorded in .applied_patches_list and applied.
ApplyPatch(p) ==
  /\ Active /\ p \in topatch
  /\ applied' = [applied EXCEPT ![p] = @ + 1]
  /\ topatch' = topatch \ {p}
  /\ UNCHANGED <<stamp, work, snapshot, since, list, edited, torn, status, jobs,
                 plan, running, kept, made, left, settled, runs, faults, edits>>

\* pkg_size_before is not run.
StartConfigureMutant(p) ==
  /\ StartRecipe(p, "configured")
  /\ UNCHANGED <<snapshot, since, list, edited, topatch>>

\* pkg_size_before runs ahead of the configure commands.
StartConfigure(p) ==
  /\ StartRecipe(p, "configured")
  /\ snapshot' = snapshot \cup {p}
  /\ since' = [since EXCEPT ![p] = {}]
  /\ UNCHANGED <<list, edited, topatch>>

StartBuild(p) ==
  /\ StartRecipe(p, "built")
  /\ edited' = [edited EXCEPT ![p] = IF @ = "tree" THEN "no" ELSE @]
  /\ UNCHANGED <<snapshot, since, list, topatch>>

StartInstall(p, s) ==
  /\ s \in InstallStep
  /\ StartRecipe(p, s)
  /\ since' = [q \in Pkg |->
                 IF q \in Watching(p) \cap snapshot THEN since[q] \cup {<<p, s>>}
                 ELSE since[q]]
  /\ UNCHANGED <<snapshot, list, edited, topatch>>

\* The last rule first runs pkg_size_after, which compares with the snapshot
\* (comm fails without one, and leaves an empty list) and removes it.
StartFinalInstall(p) ==
  /\ StartRecipe(p, "installed")
  /\ list' = [list EXCEPT ![p] = IF p \in snapshot THEN since[p] ELSE {}]
  /\ snapshot' = snapshot \ {p}
  /\ since' = [since EXCEPT ![p] = {}]
  /\ UNCHANGED <<edited, topatch>>

\* check_bin_arch looks at the files of .files-list.txt only, the list of what
\* went to TARGET_DIR.
ArchOk(p) == list[p] \cap (BadArch \X {"target_installed"}) = {}

FinishRecipe(p, s) ==
  /\ Active /\ <<p, s>> \in running
  /\ s = "patched" => p \notin topatch
  /\ s = "installed" => ArchOk(p)
  /\ stamp' = Touch(p, s)
  /\ work' = [work EXCEPT ![p][s] =
                IF \A t \in Prereq[p][s] : work[p][t] = "good" THEN "good" ELSE "outdated"]
  /\ running' = running \ {<<p, s>>}
  /\ made' = made \cup {<<p, s>>}
  /\ UNCHANGED <<applied, snapshot, since, list, edited, torn, status, jobs, plan,
                 kept, left, topatch, settled, runs, faults, edits>>

\* The error of a command goes unnoticed and the recipe touches its stamp.
FailRecipeMutant(p, s) ==
  /\ Active /\ <<p, s>> \in running
  /\ faults < MaxFaults /\ faults' = faults + 1
  /\ stamp' = Touch(p, s)
  /\ running' = running \ {<<p, s>>}
  /\ made' = made \cup {<<p, s>>}
  /\ topatch' = IF s = "patched" THEN topatch \ {p} ELSE topatch
  /\ UNCHANGED <<work, applied, snapshot, since, list, edited, torn, status, jobs,
                 plan, kept, left, settled, runs, edits>>

\* Without -k, make starts no recipe after one that failed.
FailRecipe(p, s) ==
  /\ Active /\ <<p, s>> \in running
  /\ faults < MaxFaults /\ faults' = faults + 1
  /\ running' = running \ {<<p, s>>}
  /\ topatch' = IF s = "patched" THEN topatch \ {p} ELSE topatch
  /\ status' = "failing"
  /\ UNCHANGED <<files, jobs, plan, kept, made, left, settled, runs, edits>>

CheckBinArchFails(p) ==
  /\ Active /\ <<p, "installed">> \in running
  /\ ~ArchOk(p)
  /\ running' = running \ {<<p, "installed">>}
  /\ status' = "failing"
  /\ UNCHANGED <<files, jobs, plan, kept, made, left, topatch, settled,
                 runs, faults, edits>>

\* A patch that is already there makes the script ask what to do, for ever.
RefusePatchMutant(p) == FALSE

RefusePatch(p) ==
  /\ CanVisit(<<p, "patched">>)
  /\ stamp[p]["patched"] # "fresh" /\ Duplicate(p)
  /\ status' = "failing"
  /\ UNCHANGED <<files, jobs, plan, running, kept, made, left, topatch, settled,
                 runs, faults, edits>>

-----------------------------------------------------------------------------
(* The redo targets and dirclean.                                          *)

StartClean(p, c) ==
  /\ CanVisit(<<p, c>>)
  /\ running' = running \cup {<<p, c>>}
  /\ left' = [left EXCEPT ![p] = Removals(p, c)]
  /\ UNCHANGED <<files, status, jobs, plan, kept, made, topatch, settled,
                 runs, faults, edits>>

RemoveStamp(p) ==
  /\ Active /\ left[p] # <<>>
  /\ stamp' = [stamp EXCEPT ![p][Head(left[p])] = "absent"]
  /\ left' = [left EXCEPT ![p] = Tail(@)]
  /\ UNCHANGED <<work, applied, snapshot, since, list, edited, torn, status, jobs,
                 plan, running, kept, made, topatch, settled, runs, faults, edits>>

FinishClean(p, c) ==
  /\ Active /\ <<p, c>> \in running /\ left[p] = <<>>
  /\ running' = running \ {<<p, c>>}
  /\ made' = made \cup {<<p, c>>}
  /\ UNCHANGED <<files, status, jobs, plan, kept, left, topatch, settled,
                 runs, faults, edits>>

\* What rm -Rf takes away: the build directory, and with per-package
\* directories what the package installed.  The archive is elsewhere.
InTree == (Step \ {"downloaded"}) \ (IF PerPackage THEN {} ELSE InstallStep)

StartDirclean(p) ==
  /\ CanVisit(<<p, "dircleaned">>)
  /\ running' = running \cup {<<p, "dircleaned">>}
  /\ torn' = torn \cup {p}
  /\ UNCHANGED <<stamp, work, applied, snapshot, since, list, edited, status, jobs,
                 plan, kept, made, left, topatch, settled, runs, faults, edits>>

\* rm -Rf goes through the directory in no particular order: it has removed
\* one more stamp, some of what the steps made, or the lists.
RemoveSome(p) ==
  /\ Active /\ <<p, "dircleaned">> \in running
  /\ \/ /\ \E s \in StepsOf[p] : stamp' = [stamp EXCEPT ![p][s] = "absent"]
        /\ UNCHANGED <<work, applied, snapshot, list>>
     \/ /\ work' = [work EXCEPT ![p] = [s \in Step |->
                      IF s \in InTree /\ @[s] # "none" THEN "partial" ELSE @[s]]]
        /\ UNCHANGED <<stamp, applied, snapshot, list>>
     \/ /\ applied' = [applied EXCEPT ![p] = 0]
        /\ snapshot' = snapshot \ {p}
        /\ list' = [list EXCEPT ![p] = {}]
        /\ UNCHANGED <<stamp, work>>
  /\ UNCHANGED <<since, edited, torn, make, runs, faults, edits>>

\* rm -Rf <dir>/*, that leaves the stamps.
FinishDircleanMutant(p) ==
  /\ Active /\ <<p, "dircleaned">> \in running
  /\ work' = [work EXCEPT ![p] = [s \in Step |-> IF s \in InTree THEN "none" ELSE @[s]]]
  /\ running' = running \ {<<p, "dircleaned">>}
  /\ made' = made \cup {<<p, "dircleaned">>}
  /\ torn' = IF (Done \cup running) \cap ({p} \X Step) = {} THEN torn \ {p} ELSE torn
  /\ UNCHANGED <<stamp, applied, snapshot, since, list, edited, status, jobs, plan,
                 kept, left, topatch, settled, runs, faults, edits>>

FinishDirclean(p) ==
  /\ Active /\ <<p, "dircleaned">> \in running
  /\ stamp' = [stamp EXCEPT ![p] = [s \in Step |-> "absent"]]
  /\ work' = [work EXCEPT ![p] = [s \in Step |-> IF s \in InTree THEN "none" ELSE @[s]]]
  /\ applied' = [applied EXCEPT ![p] = 0]
  /\ snapshot' = snapshot \ {p}
  /\ list' = [list EXCEPT ![p] = {}]
  /\ since' = [since EXCEPT ![p] = {}]
  /\ edited' = [edited EXCEPT ![p] = IF p \in Override THEN @ ELSE "no"]
  /\ running' = running \ {<<p, "dircleaned">>}
  /\ made' = made \cup {<<p, "dircleaned">>}
  /\ torn' = IF (Done \cup running) \cap ({p} \X Step) = {} THEN torn \ {p} ELSE torn
  /\ UNCHANGED <<status, jobs, plan, kept, left, topatch, settled, runs, faults, edits>>

-----------------------------------------------------------------------------
(* How a make command ends, and what happens between commands.             *)

Succeed ==
  /\ status = "running" /\ running = {}
  /\ \A i \in DOMAIN plan : Complete(i)
  /\ status' = "ok"
  /\ UNCHANGED <<files, jobs, plan, running, kept, made, left, topatch, settled,
                 runs, faults, edits>>

\* make does not wait for the other recipes.
GiveUpMutant ==
  /\ status = "failing"
  /\ status' = "failed"
  /\ UNCHANGED <<files, jobs, plan, running, kept, made, left, topatch, settled,
                 runs, faults, edits>>

\* make waits for the recipes already running before it gives up.
GiveUp ==
  /\ status = "failing" /\ running = {}
  /\ status' = "failed"
  /\ UNCHANGED <<files, jobs, plan, running, kept, made, left, topatch, settled,
                 runs, faults, edits>>

\* An interrupt, or the machine going down: recipes stop where they are.
Kill ==
  /\ Active /\ faults < MaxFaults
  /\ status' = "killed" /\ faults' = faults + 1
  /\ running' = {} /\ topatch' = {}
  /\ left' = [p \in Pkg |-> <<>>]
  /\ UNCHANGED <<files, jobs, plan, kept, made, settled, runs, edits>>

\* The user changes the override sources, or the extracted ones, of p (between
\* two commands: what a build makes of a file that changes under it is open).
Edit(p) ==
  /\ ~Active
  /\ edits < MaxEdits /\ edits' = edits + 1
  /\ p \notin Override => work[p]["extracted"] = "good"
  /\ edited' = [edited EXCEPT ![p] = IF p \in Override THEN "source" ELSE "tree"]
  /\ UNCHANGED <<stamp, work, applied, snapshot, since, list, torn, make, runs, faults>>

User == \/ \E command \in Commands, j \in BOOLEAN : Make(command, j)
        \/ \E p \in Pkg : Edit(p)

StartStep(p) ==
  \/ StartDownload(p) \/ StartExtract(p) \/ StartRsync(p) \/ StartPatch(p)
  \/ StartConfigure(p) \/ StartBuild(p) \/ StartFinalInstall(p)
  \/ \E s \in InstallStep : StartInstall(p, s)

\* What a make command does by itself when no recipe fails.
Progress ==
  \/ \E p \in Pkg :
       \/ StartStep(p) \/ ApplyPatch(p) \/ RefusePatch(p) \/ CheckBinArchFails(p)
       \/ RemoveStamp(p) \/ StartDirclean(p) \/ FinishDirclean(p)
       \/ \E s \in StepsOf[p] : Keep(p, s) \/ FinishRecipe(p, s)
       \/ \E c \in Clean : StartClean(p, c) \/ FinishClean(p, c)
  \/ Succeed \/ GiveUp

Next ==
  \/ User
  \/ Progress
  \/ \E p \in Pkg : RemoveSome(p) \/ \E s \in StepsOf[p] : FailRecipe(p, s)
  \/ Kill

Spec == Init /\ [][Next]_vars

\* make keeps going as long as it can, and the recipes it runs end.
FairSpec == Spec /\ WF_vars(Progress)

-----------------------------------------------------------------------------
(* Properties.                                                             *)

\* Whatever was killed, failed or removed before, a stamp that is there and
\* not older than the stamps before it (or than the targets this command has
\* brought up to date) vouches for a complete, coherent result.  This is what
\* make relies on when it skips a step (touch $@ last, in every recipe).
StampsVouch ==
  \A p \in Pkg \ torn, s \in Step :
    /\ s \in StepsOf[p] /\ stamp[p][s] = "fresh"
    /\ \A t \in Prereq[p][s] : stamp[p][t] = "fresh" \/ <<p, t>> \in Done
    => work[p][s] = "good"

\* A make command that succeeds has left every package it was asked for, and
\* all those they depend on, wholly and coherently made (lines 876-990).
InstalledIsCoherent ==
  status = "ok" =>
    \A p \in Pkg \ torn : <<p, "installed">> \in Asked =>
      \A s \in StepsOf[p] : work[p][s] = "good"

\* While a step runs, what it has an order-only dependency on is complete and
\* is not being made again (lines 933, 950, 954, 959, 984).
DependenciesAreReady ==
  \A n \in running : \A m \in OrderOnly(n[1], n[2]) :
    m[1] \notin torn =>
      /\ m \notin running
      /\ work[m[1]][m[2]] = "good"
      /\ m[2] = "installed" => \A s \in InstallSteps(m[1]) : work[m[1]][s] = "good"

\* Two recipes of one package run together only if they install to different
\* places, and never the staging one with the target one, because some
\* packages use one for the other (line 907).
StepsDoNotOverlap ==
  \A p \in Pkg : \A s, t \in {u \in Step : <<p, u>> \in running} :
    s # t => /\ {s, t} \subseteq InstallStep
             /\ {s, t} # {"staging_installed", "target_installed"}

RedoneBy(p, c) ==
  InstallSteps(p) \cup {"installed"}
  \cup (IF p \in Override THEN {"rsynced"} ELSE {})
  \cup (IF c = "clean-for-reinstall" THEN {} ELSE {"built"})
  \cup (IF c = "clean-for-reconfigure" THEN {"configured"} ELSE {})

\* A package that was up to date is worked on again only as far as the redo
\* target asks: its dependencies being phony, or its sources synced again, is
\* no reason to configure or to build it (comments at lines 926-930, 982-983).
OnlyTheStepsAskedFor ==
  \A p \in settled : <<p, "dircleaned">> \notin Asked =>
    \A s \in {u \in Step : <<p, u>> \in running \cup made} :
      \E c \in Clean : <<p, c>> \in Asked /\ s \in RedoneBy(p, c)

\* A patch is not applied to a tree that has it (apply-patches.sh, 110-118).
NoPatchTwice == \A p \in Pkg : applied[p] <= 1

AskedFirst == IF plan = <<>> THEN {} ELSE plan[1][1]

\* When a command succeeds, a <pkg>-rebuild or <pkg>-reconfigure that was its
\* first goal (its only goal, if the command is parallel) has built the sources
\* as the user left them and installed the result (lines 1046-1066).
RebuildTakesEdits ==
  [][status = "running" /\ status' = "ok" /\ (jobs => Len(plan) = 1) =>
       \A p \in Pkg : <<p, "clean-for-rebuild">> \in AskedFirst =>
         /\ ({p} \X (InstallSteps(p) \cup {"built"})) \subseteq made
         /\ edited[p] = "no"]_vars

\* make <pkg>-dirclean <pkg> restarts the package from scratch, when nothing
\* else makes it in parallel (lines 390-392, docs/manual/rebuilding-packages.adoc).
DircleanStartsOver ==
  [][status = "running" /\ status' = "ok" /\ ~jobs =>
       \A p \in Pkg : <<p, "dircleaned">> \in AskedFirst /\ <<p, "installed">> \in Asked =>
         /\ ({p} \X StepsOf[p]) \subseteq made
         /\ p \notin torn /\ edited[p] = "no"]_vars

\* The lists of files a package installed, one for each place, name them all, if
\* the command that made the package also configured it and did not remove it
\* (lines 121-142, 258-261, 382-385).
FreshlyMadeIsListed ==
  status = "ok" =>
    \A p \in Pkg \ torn :
      {<<p, "configured">>, <<p, "installed">>} \subseteq made
      => {p} \X InstallSteps(p) \subseteq list[p]

\* A package with a binary for a wrong architecture does not pass for installed.
WrongArchIsRefused ==
  status = "ok" => \A p \in BadArch : <<p, "installed">> \notin Asked

\* make comes to an end.
MakeEnds == Active ~> ~Active

-----------------------------------------------------------------------------
(* The inductive invariant behind StampsVouch and its consequences.        *)

\* A target is up to date only after all that comes before it, and what it
\* stands for is there.
DoneIsGood ==
  \A n \in Done :
    /\ Pre[n] \subseteq Done
    /\ n[2] \in Step /\ n[1] \notin torn => work[n[1]][n[2]] = "good"

\* A recipe runs once in a command, and after all that comes before it.
RunningIsNext ==
  \A n \in running :
    /\ n \notin Done /\ Pre[n] \subseteq Done
    /\ n[2] = "dircleaned" => n[1] \in torn

OkIsComplete == status = "ok" => Asked \subseteq Done

IndInv == TypeOK /\ StampsVouch /\ DoneIsGood /\ RunningIsNext /\ OkIsComplete

=============================================================================
