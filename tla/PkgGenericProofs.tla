-------------------------- MODULE PkgGenericProofs --------------------------
(* What make's step engine guarantees whatever the packages, their          *)
(* dependencies and the commands are: proofs about PkgGeneric.              *)
EXTENDS PkgGeneric, TLAPS

-----------------------------------------------------------------------------
(* The rules.                                                              *)

\* The steps of a package are steps (lines 876-990).
LEMMA StepsOfType == StepsOf \in [Pkg -> SUBSET Step]
  BY DEF StepsOf, InstallSteps, Step, InstallStep, DepStep

\* A normal prerequisite of a step is a step of the same package.
LEMMA PrereqType == Prereq \in [Pkg -> [Step -> SUBSET Step]]
  BY StepsOfType DEF Prereq

\* The normal prerequisites of a step are among what make visits before it.
LEMMA PrereqInPre ==
  ASSUME NEW p \in Pkg, NEW s \in Step, NEW t \in Prereq[p][s]
  PROVE  <<p, t>> \in Pre[<<p, s>>]
  <1>1. <<p, s>> \in Node
    BY DEF Node
  <1> QED
    BY <1>1 DEF Pre

\* What a goal stands for is a set of targets.
LEMMA ClosureType == ASSUME NEW S PROVE Closure(S) \in SUBSET Node
  BY DEF Closure

LEMMA PhasesType ==
  ASSUME NEW g, NEW ordered
  PROVE  Phases(g, ordered) \in Seq(SUBSET Node)
  <1> DEFINE clean == Closure(g.pkgs \X {CleanFor[g.target]})
  <1> DEFINE redo == Closure(g.pkgs \X {"installed"})
  <1>1. clean \in SUBSET Node /\ redo \in SUBSET Node
        /\ Closure(g.pkgs \X {g.target}) \in SUBSET Node
    BY ClosureType
  <1> HIDE DEF clean, redo
  <1>2. <<clean, redo>> \in Seq(SUBSET Node) /\ <<clean \cup redo>> \in Seq(SUBSET Node)
        /\ << Closure(g.pkgs \X {g.target}) >> \in Seq(SUBSET Node)
    BY <1>1
  <1> QED
    BY <1>2 DEF Phases, clean, redo

\* The clean recipes remove stamps of steps.
LEMMA RemovalsType == ASSUME NEW p, NEW c PROVE Removals(p, c) \in Seq(Step)
  <1> USE DEF Step, DepStep, InstallStep
  <1> DEFINE install == <<"installed", "staging_installed", "target_installed",
                          "images_installed", "host_installed">>
  <1>1. <<"built">> \in Seq(Step) /\ <<"configured">> \in Seq(Step)
    OBVIOUS
  <1>2. install \in Seq(Step)
    OBVIOUS
  <1>3. <<"rsynced">> \in Seq(Step) /\ <<>> \in Seq(Step)
    OBVIOUS
  <1> HIDE DEF install
  <1>4. <<"rsynced">> \o install \in Seq(Step) /\ <<>> \o install \in Seq(Step)
    BY <1>2, <1>3
  <1>5. CASE c = "clean-for-rebuild"
    BY <1>1, <1>5 DEF Removals
  <1>6. CASE c = "clean-for-reconfigure"
    BY <1>1, <1>6 DEF Removals
  <1>7. CASE c # "clean-for-rebuild" /\ c # "clean-for-reconfigure"
    BY <1>4, <1>7 DEF Removals, install
  <1> QED
    BY <1>5, <1>6, <1>7

-----------------------------------------------------------------------------
(* Types.                                                                  *)

LEMMA TypeInit == Init => TypeOK
  <1> SUFFICES ASSUME Init PROVE TypeOK
    OBVIOUS
  <1>1. runs \in 0..MaxRuns /\ faults \in 0..MaxFaults /\ edits \in 0..MaxEdits
    BY ConstantsAssumption DEF Init
  <1>2. plan \in Seq(Seq(SUBSET Node)) /\ left \in [Pkg -> Seq(Step)]
    BY DEF Init
  <1>3. topatch \subseteq {p \in Pkg : <<p, "patched">> \in running}
    BY DEF Init
  <1>4. {running, kept, made} \subseteq SUBSET Node
    BY DEF Init
  <1> QED
    BY <1>1, <1>2, <1>3, <1>4 DEF Init, TypeOK, Active

\* What every recipe of a stamp does to the types when it begins.
LEMMA StartRecipeTypes ==
  ASSUME TypeOK, NEW p \in Pkg, NEW s \in Step, StartRecipe(p, s)
  PROVE  /\ work' \in [Pkg -> [Step -> {"none", "partial", "outdated", "good"}]]
         /\ running' \in SUBSET Node
         /\ running \subseteq running'
         /\ Active'
         /\ UNCHANGED <<stamp, applied, torn, status, jobs, plan, kept, made, left,
                        settled, runs, faults, edits>>
  <1>1. <<p, s>> \in Node
    BY DEF Node
  <1>2. WorkDuring(p, s) \in [Pkg -> [Step -> {"none", "partial", "outdated", "good"}]]
    BY DEF TypeOK, WorkDuring
  <1> QED
    BY <1>1, <1>2 DEF StartRecipe, TypeOK, CanVisit, Active

LEMMA TouchType ==
  ASSUME TypeOK, NEW p \in Pkg, NEW s \in Step
  PROVE  Touch(p, s) \in [Pkg -> [Step -> {"absent", "stale", "fresh"}]]
  BY DEF TypeOK, Touch

LEMMA StartStepType == ASSUME TypeOK, NEW p \in Pkg, StartStep(p) PROVE TypeOK'
  <1> USE DEF Step, DepStep, InstallStep
  <1>1. CASE StartDownload(p)
    BY <1>1, StartRecipeTypes DEF StartDownload, TypeOK
  <1>2. CASE StartExtract(p)
    BY <1>2, StartRecipeTypes DEF StartExtract, TypeOK
  <1>3. CASE StartRsync(p)
    BY <1>3, StartRecipeTypes DEF StartRsync, TypeOK
  <1>4. CASE StartPatch(p)
    <2>1. <<p, "patched">> \in running'
      BY <1>4 DEF StartPatch, StartRecipe
    <2> QED
      BY <1>4, <2>1, StartRecipeTypes DEF StartPatch, TypeOK
  <1>5. CASE StartConfigure(p)
    BY <1>5, StartRecipeTypes DEF StartConfigure, TypeOK
  <1>6. CASE StartBuild(p)
    BY <1>6, StartRecipeTypes DEF StartBuild, TypeOK
  <1>7. CASE StartFinalInstall(p)
    BY <1>7, StartRecipeTypes DEF StartFinalInstall, TypeOK
  <1>8. ASSUME NEW s \in InstallStep, StartInstall(p, s) PROVE TypeOK'
    <2>1. <<p, s>> \in Pkg \X InstallStep
      BY <1>8
    <2> QED
      BY <1>8, <2>1, StartRecipeTypes DEF StartInstall, TypeOK
  <1> QED
    BY <1>1, <1>2, <1>3, <1>4, <1>5, <1>6, <1>7, <1>8 DEF StartStep

\* Every variable keeps its type (the bounds on commands, faults and edits
\* included), whatever make, its recipes and the user do.
LEMMA TypeStep == TypeOK /\ [Next]_vars => TypeOK'
  <1> SUFFICES ASSUME TypeOK, [Next]_vars PROVE TypeOK'
    OBVIOUS
  <1> USE DEF TypeOK
  <1>1. ASSUME NEW command \in Commands, NEW j \in BOOLEAN, Make(command, j)
        PROVE  TypeOK'
    <2>1. plan' \in Seq(Seq(SUBSET Node))
      <3>1. command \in Seq(Goal)
        BY ConstantsAssumption
      <3>2. plan' = [i \in 1..Len(command) |-> Phases(command[i], WaitIsSpecial \/ ~j)]
        BY <1>1, <3>1 DEF Make
      <3>3. \A i \in 1..Len(command) : plan'[i] \in Seq(SUBSET Node)
        BY <3>2, PhasesType
      <3> QED
        BY <3>1, <3>2, <3>3
    <2> QED
      BY <1>1, <2>1, ConstantsAssumption DEF Make, Active
  <1>2. ASSUME NEW p \in Pkg, Edit(p) PROVE TypeOK'
    BY <1>2, ConstantsAssumption DEF Edit, make, Active
  <1>3. ASSUME NEW p \in Pkg, StartStep(p) PROVE TypeOK'
    BY <1>3, StartStepType
  <1>4. ASSUME NEW p \in Pkg, ApplyPatch(p) PROVE TypeOK'
    BY <1>4 DEF ApplyPatch, Active
  <1>5. ASSUME NEW p \in Pkg, RefusePatch(p) PROVE TypeOK'
    BY <1>5 DEF RefusePatch, files, Active
  <1>6. ASSUME NEW p \in Pkg, CheckBinArchFails(p) PROVE TypeOK'
    BY <1>6 DEF CheckBinArchFails, files, Active
  <1>7. ASSUME NEW p \in Pkg, RemoveStamp(p) PROVE TypeOK'
    <2>1. Head(left[p]) \in Step /\ Tail(left[p]) \in Seq(Step)
      BY <1>7 DEF RemoveStamp
    <2> QED
      BY <1>7, <2>1 DEF RemoveStamp, Active
  <1>8. ASSUME NEW p \in Pkg, StartDirclean(p) PROVE TypeOK'
    BY <1>8 DEF StartDirclean, CanVisit, Active, Node
  <1>9. ASSUME NEW p \in Pkg, FinishDirclean(p) PROVE TypeOK'
    <2>1. stamp' \in [Pkg -> [Step -> {"absent", "stale", "fresh"}]]
      BY <1>9 DEF FinishDirclean
    <2>2. work' \in [Pkg -> [Step -> {"none", "partial", "outdated", "good"}]]
      BY <1>9 DEF FinishDirclean
    <2>3. torn' \subseteq Pkg
      BY <1>9 DEF FinishDirclean
    <2>4. {running', kept', made'} \subseteq SUBSET Node
      BY <1>9 DEF FinishDirclean
    <2>5. topatch' \subseteq {q \in Pkg : <<q, "patched">> \in running'}
      BY <1>9 DEF FinishDirclean
    <2>6. /\ applied' \in [Pkg -> Nat] /\ snapshot' \subseteq Pkg
          /\ list' \in [Pkg -> SUBSET (Pkg \X InstallStep)]
          /\ since' \in [Pkg -> SUBSET (Pkg \X InstallStep)]
          /\ edited' \in [Pkg -> {"no", "source", "tree"}]
      BY <1>9 DEF FinishDirclean
    <2>7. running' # {} => Active'
      BY <1>9 DEF FinishDirclean, Active
    <2>8. UNCHANGED <<status, jobs, plan, left, settled, runs, faults, edits>>
      BY <1>9 DEF FinishDirclean
    <2> QED
      BY <2>1, <2>2, <2>3, <2>4, <2>5, <2>6, <2>7, <2>8
  <1>10. ASSUME NEW p \in Pkg, NEW s \in StepsOf[p], Keep(p, s) PROVE TypeOK'
    <2>1. <<p, s>> \in Node
      BY StepsOfType DEF Node
    <2> QED
      BY <1>10, <2>1 DEF Keep, files, Active
  <1>11. ASSUME NEW p \in Pkg, NEW s \in StepsOf[p], FinishRecipe(p, s) PROVE TypeOK'
    <2>1. s \in Step
      BY StepsOfType
    <2>2. stamp' \in [Pkg -> [Step -> {"absent", "stale", "fresh"}]]
      BY <1>11, <2>1, TouchType DEF FinishRecipe
    <2>3. work' \in [Pkg -> [Step -> {"none", "partial", "outdated", "good"}]]
      BY <1>11, <2>1 DEF FinishRecipe
    <2>4. topatch' \subseteq {q \in Pkg : <<q, "patched">> \in running'}
      BY <1>11 DEF FinishRecipe
    <2>5. {running', made'} \subseteq SUBSET Node
      BY <1>11 DEF FinishRecipe
    <2>6. UNCHANGED <<applied, snapshot, since, list, edited, torn, status, jobs, plan,
                      kept, left, settled, runs, faults, edits>>
      BY <1>11 DEF FinishRecipe
    <2>7. Active'
      BY <1>11, <2>6 DEF FinishRecipe, Active
    <2> QED
      BY <2>2, <2>3, <2>4, <2>5, <2>6, <2>7
  <1>12. ASSUME NEW p \in Pkg, NEW c \in Clean, StartClean(p, c) PROVE TypeOK'
    <2>1. <<p, c>> \in Node
      BY DEF Node
    <2> QED
      BY <1>12, <2>1, RemovalsType DEF StartClean, files, CanVisit, Active
  <1>13. ASSUME NEW p \in Pkg, NEW c \in Clean, FinishClean(p, c) PROVE TypeOK'
    <2>1. topatch' \subseteq {q \in Pkg : <<q, "patched">> \in running'}
      BY <1>13 DEF FinishClean, Clean
    <2> QED
      BY <1>13, <2>1 DEF FinishClean, files, Active
  <1>14. CASE Succeed \/ GiveUp \/ Kill
    <2>1. CASE Succeed
      BY <2>1 DEF Succeed, files, Active
    <2>2. CASE GiveUp
      BY <2>2 DEF GiveUp, files, Active
    <2>3. CASE Kill
      <3>1. left' \in [Pkg -> Seq(Step)]
        BY <2>3 DEF Kill
      <3> QED
        BY <2>3, <3>1, ConstantsAssumption DEF Kill, files, Active
    <2> QED
      BY <1>14, <2>1, <2>2, <2>3
  <1>15. ASSUME NEW p \in Pkg, RemoveSome(p) PROVE TypeOK'
    <2>1. ASSUME \E s \in StepsOf[p] : stamp' = [stamp EXCEPT ![p][s] = "absent"]
          PROVE  stamp' \in [Pkg -> [Step -> {"absent", "stale", "fresh"}]]
      <3>1. PICK s \in StepsOf[p] : stamp' = [stamp EXCEPT ![p][s] = "absent"]
        BY <2>1
      <3> QED
        BY <3>1, StepsOfType
    <2>2. stamp' \in [Pkg -> [Step -> {"absent", "stale", "fresh"}]]
      BY <1>15, <2>1 DEF RemoveSome
    <2>3. work' \in [Pkg -> [Step -> {"none", "partial", "outdated", "good"}]]
      BY <1>15 DEF RemoveSome
    <2>4. CASE UNCHANGED <<applied, snapshot, list>>
      BY <1>15, <2>2, <2>3, <2>4 DEF RemoveSome, make, Active
    <2>5. CASE /\ applied' = [applied EXCEPT ![p] = 0]
               /\ snapshot' = snapshot \ {p}
               /\ list' = [list EXCEPT ![p] = {}]
      BY <1>15, <2>2, <2>3, <2>5 DEF RemoveSome, make, Active
    <2> QED
      BY <1>15, <2>4, <2>5 DEF RemoveSome
  <1>16. ASSUME NEW p \in Pkg, NEW s \in StepsOf[p], FailRecipe(p, s) PROVE TypeOK'
    BY <1>16, ConstantsAssumption DEF FailRecipe, files, Active
  <1>17. CASE UNCHANGED vars
    BY <1>17 DEF vars, files, make, Active
  <1> QED
    BY <1>1, <1>2, <1>3, <1>4, <1>5, <1>6, <1>7, <1>8, <1>9, <1>10, <1>11, <1>12,
       <1>13, <1>14, <1>15, <1>16, <1>17 DEF Next, User, Progress

\* Every variable keeps its type in every behaviour.
THEOREM TypeCorrect == Spec => []TypeOK
  BY TypeInit, TypeStep, PTL DEF Spec

-----------------------------------------------------------------------------
(* Stamps can be relied on.  A step is good once make has gone past it: a  *)
(* recipe of the same command can only spoil the result of what comes      *)
(* after its own target, which make has not gone past.                     *)

Coherent == StampsVouch /\ DoneIsGood /\ RunningIsNext /\ OkIsComplete

\* The normal prerequisites of a step make has gone past, or is about to
\* decide on, are behind it.
LEMMA PrereqDone ==
  ASSUME NEW p \in Pkg, NEW s \in Step, Pre[<<p, s>>] \subseteq Done,
         NEW t \in Prereq[p][s]
  PROVE  <<p, t>> \in Done
  BY PrereqInPre

LEMMA NodeShape ==
  ASSUME NEW n \in Node
  PROVE  n[1] \in Pkg /\ n = <<n[1], n[2]>>
  BY DEF Node

LEMMA DoneType == ASSUME TypeOK PROVE Done \subseteq Node /\ running \subseteq Node
  BY DEF TypeOK, Done

\* A recipe begins: neither its step nor a later one has been gone past.
LEMMA StartRecipeCoherent ==
  ASSUME IndInv, NEW p \in Pkg, NEW s \in Step, StartRecipe(p, s)
  PROVE  Coherent'
  <1> USE DEF IndInv
  <1>1. /\ <<p, s>> \notin Done /\ Pre[<<p, s>>] \subseteq Done
        /\ status = "running" /\ stamp[p][s] # "fresh"
    BY DEF StartRecipe, CanVisit
  <1>2. UNCHANGED <<stamp, torn, kept, made, status, plan>>
        /\ running' = running \cup {<<p, s>>}
    BY DEF StartRecipe
  <1>3. Done' = Done
    BY <1>2 DEF Done
  <1>4. \A q \in Pkg, t \in Step :
          (q = p /\ (t = s \/ s \in Prereq[p][t])) \/ work'[q][t] = work[q][t]
    BY DEF StartRecipe, WorkDuring, TypeOK
  <1>5. StampsVouch'
    <2> SUFFICES ASSUME NEW q \in Pkg \ torn, NEW t \in StepsOf[q], t \in Step,
                        stamp[q][t] = "fresh",
                        \A u \in Prereq[q][t] : stamp[q][u] = "fresh" \/ <<q, u>> \in Done
                 PROVE  work'[q][t] = "good"
      BY <1>2, <1>3 DEF StampsVouch
    <2>1. work[q][t] = "good"
      BY DEF StampsVouch
    <2>2. ~(q = p /\ (t = s \/ s \in Prereq[p][t]))
      BY <1>1
    <2> QED
      BY <1>4, <2>1, <2>2
  <1>6. \A t \in Step : <<p, t>> \in Done => s \notin Prereq[p][t]
    BY <1>1, PrereqDone DEF DoneIsGood
  <1>7. DoneIsGood'
    <2> SUFFICES ASSUME NEW n \in Done
                 PROVE  /\ Pre[n] \subseteq Done
                        /\ n[2] \in Step /\ n[1] \notin torn => work'[n[1]][n[2]] = "good"
      BY <1>2, <1>3 DEF DoneIsGood
    <2>1. n[1] \in Pkg /\ n = <<n[1], n[2]>>
      BY DoneType, NodeShape
    <2>2. Pre[n] \subseteq Done
          /\ (n[2] \in Step /\ n[1] \notin torn => work[n[1]][n[2]] = "good")
      BY DEF DoneIsGood
    <2>3. ~(n[1] = p /\ n[2] = s) /\ (n[1] = p /\ n[2] \in Step => s \notin Prereq[p][n[2]])
      BY <1>1, <1>6, <2>1
    <2> QED
      BY <2>1, <2>2, <2>3, <1>4
  <1>8. RunningIsNext'
    <2>1. s # "dircleaned"
      BY DEF Step, DepStep, InstallStep
    <2> QED
      BY <1>1, <1>2, <1>3, <2>1 DEF RunningIsNext
  <1>9. OkIsComplete'
    BY <1>1, <1>2 DEF OkIsComplete
  <1> QED
    BY <1>5, <1>7, <1>8, <1>9 DEF Coherent

\* A recipe ends: all that comes before its step is behind make, and good, so
\* that what it made from it is good; the stamps that it makes stale vouch for
\* nothing any more.
LEMMA FinishRecipeCoherent ==
  ASSUME IndInv, NEW p \in Pkg, NEW s \in StepsOf[p], FinishRecipe(p, s)
  PROVE  Coherent'
  <1> USE DEF IndInv
  <1>0. s \in Step
    BY StepsOfType
  <1>1. /\ <<p, s>> \in running /\ <<p, s>> \notin Done /\ Pre[<<p, s>>] \subseteq Done
        /\ status \in {"running", "failing"}
    BY DEF FinishRecipe, RunningIsNext, Active
  <1>2. UNCHANGED <<torn, kept, status, plan>> /\ running' = running \ {<<p, s>>}
        /\ made' = made \cup {<<p, s>>}
    BY DEF FinishRecipe
  <1>3. Done' = Done \cup {<<p, s>>}
    BY <1>2 DEF Done
  <1>4. p \notin torn => work'[p][s] = "good"
    <2>1. \A t \in Prereq[p][s] : <<p, t>> \in Done /\ t \in Step
      <3> TAKE t \in Prereq[p][s]
      <3>1. t \in Step
        BY <1>0, PrereqType
      <3>2. <<p, t>> \in Done
        BY <1>0, <1>1, PrereqDone
      <3> QED
        BY <3>1, <3>2
    <2>2. p \notin torn => \A t \in Prereq[p][s] : work[p][t] = "good"
      <3> SUFFICES ASSUME p \notin torn, NEW t \in Prereq[p][s] PROVE work[p][t] = "good"
        OBVIOUS
      <3> DEFINE m == <<p, t>>
      <3>1. m \in Done /\ m[1] = p /\ m[2] = t /\ t \in Step
        BY <2>1
      <3> QED
        BY <3>1 DEF DoneIsGood
    <2> QED
      BY <1>0, <2>2 DEF FinishRecipe, TypeOK
  <1>5. \A q \in Pkg, t \in Step : <<q, t>> # <<p, s>> => work'[q][t] = work[q][t]
    BY <1>0 DEF FinishRecipe, TypeOK
  <1>6. \A q \in Pkg, t \in Step :
          \/ q # p /\ stamp'[q][t] = stamp[q][t]
          \/ q = p /\ t = s
          \/ q = p /\ s \in Prereq[p][t] /\ stamp'[q][t] # "fresh"
          \/ q = p /\ s \notin Prereq[p][t] /\ stamp'[q][t] = stamp[q][t]
    BY <1>0 DEF FinishRecipe, Touch, TypeOK
  <1>7. StampsVouch'
    <2> SUFFICES ASSUME NEW q \in Pkg \ torn, NEW t \in StepsOf[q], t \in Step,
                        stamp'[q][t] = "fresh",
                        \A u \in Prereq[q][t] : stamp'[q][u] = "fresh" \/ <<q, u>> \in Done'
                 PROVE  work'[q][t] = "good"
      BY <1>2, StepsOfType DEF StampsVouch
    <2>1. CASE q = p /\ t = s
      BY <1>4, <2>1
    <2>2. CASE ~(q = p /\ t = s)
      <3>1. stamp[q][t] = "fresh" /\ (q = p => s \notin Prereq[q][t])
        BY <1>6, <2>2
      <3>2. \A u \in Prereq[q][t] : u \in Step /\ <<q, u>> # <<p, s>>
        BY <3>1, PrereqType
      <3>3. \A u \in Prereq[q][t] : stamp[q][u] = "fresh" \/ <<q, u>> \in Done
        BY <1>3, <1>6, <3>2
      <3>4. work[q][t] = "good"
        BY <3>1, <3>3 DEF StampsVouch
      <3> QED
        BY <1>5, <2>2, <3>4
    <2> QED
      BY <2>1, <2>2
  <1>8. DoneIsGood'
    <2> SUFFICES ASSUME NEW n \in Done'
                 PROVE  /\ Pre[n] \subseteq Done'
                        /\ n[2] \in Step /\ n[1] \notin torn => work'[n[1]][n[2]] = "good"
      BY <1>2 DEF DoneIsGood
    <2>1. CASE n = <<p, s>>
      BY <1>1, <1>3, <1>4, <2>1
    <2>2. CASE n \in Done
      <3>1. n[1] \in Pkg /\ n = <<n[1], n[2]>> /\ n # <<p, s>>
        BY <1>1, <2>2, DoneType, NodeShape
      <3> QED
        BY <1>3, <1>5, <2>2, <3>1 DEF DoneIsGood
    <2> QED
      BY <1>3, <2>1, <2>2
  <1>9. RunningIsNext'
    BY <1>2, <1>3 DEF RunningIsNext
  <1>10. OkIsComplete'
    BY <1>1, <1>2 DEF OkIsComplete
  <1> QED
    BY <1>7, <1>8, <1>9, <1>10 DEF Coherent

\* make skips a step: its stamp is fresh, and what comes before is behind make.
LEMMA KeepCoherent ==
  ASSUME IndInv, NEW p \in Pkg, NEW s \in StepsOf[p], Keep(p, s)
  PROVE  Coherent'
  <1> USE DEF IndInv
  <1>0. s \in Step
    BY StepsOfType
  <1>1. /\ <<p, s>> \notin Done \cup running /\ Pre[<<p, s>>] \subseteq Done
        /\ status = "running" /\ stamp[p][s] = "fresh"
    BY DEF Keep, CanVisit
  <1>2. UNCHANGED <<files, made, running, status, plan>> /\ kept' = kept \cup {<<p, s>>}
    BY DEF Keep
  <1>3. Done' = Done \cup {<<p, s>>}
    BY <1>2 DEF Done
  <1>4. StampsVouch'
    BY <1>1, <1>2, <1>3 DEF StampsVouch, files
  <1>5. p \notin torn => work[p][s] = "good"
    <2>1. \A t \in Prereq[p][s] : <<p, t>> \in Done
      BY <1>0, <1>1, PrereqDone
    <2> QED
      BY <1>0, <1>1, <2>1 DEF StampsVouch
  <1>6. DoneIsGood'
    <2> SUFFICES ASSUME NEW n \in Done'
                 PROVE  /\ Pre[n] \subseteq Done'
                        /\ n[2] \in Step /\ n[1] \notin torn => work[n[1]][n[2]] = "good"
      BY <1>2 DEF DoneIsGood, files
    <2>1. CASE n = <<p, s>>
      BY <1>1, <1>3, <1>5, <2>1
    <2>2. CASE n \in Done
      BY <1>3, <2>2 DEF DoneIsGood
    <2> QED
      BY <1>3, <2>1, <2>2
  <1>7. RunningIsNext'
    BY <1>1, <1>2, <1>3 DEF RunningIsNext, files
  <1>8. OkIsComplete'
    BY <1>1, <1>2 DEF OkIsComplete
  <1> QED
    BY <1>4, <1>6, <1>7, <1>8 DEF Coherent

\* Nothing that the invariant speaks of changes, but that recipes may stop.
LEMMA QuietCoherent ==
  ASSUME IndInv, UNCHANGED <<stamp, work, torn, kept, made, plan>>,
         running' \subseteq running, status' = "ok" => status = "ok"
  PROVE  Coherent'
  <1> USE DEF IndInv
  <1>1. Done' = Done /\ Asked' = Asked
    BY DEF Done, Asked
  <1> QED
    BY <1>1 DEF Coherent, StampsVouch, DoneIsGood, RunningIsNext, OkIsComplete

\* make starts over: nothing is behind it, and a torn directory is trusted
\* again only when no stamp of it is left.
LEMMA MakeCoherent ==
  ASSUME IndInv, NEW command \in Commands, NEW j \in BOOLEAN, Make(command, j)
  PROVE  Coherent'
  <1> USE DEF IndInv
  <1>1. /\ UNCHANGED <<stamp, work>> /\ torn' = {p \in torn : ~AllAbsent(p)}
        /\ kept' = {} /\ made' = {} /\ running' = running /\ status' = "running"
    BY DEF Make
  <1>2. running' = {}
    BY <1>1 DEF Make, TypeOK
  <1>3. Done' = {}
    BY <1>1 DEF Done
  <1>4. StampsVouch'
    <2> SUFFICES ASSUME NEW p \in Pkg \ torn', NEW s \in Step, s \in StepsOf[p],
                        stamp[p][s] = "fresh",
                        \A t \in Prereq[p][s] : stamp[p][t] = "fresh"
                 PROVE  work[p][s] = "good"
      BY <1>1, <1>3 DEF StampsVouch
    <2>1. p \notin torn
      BY <1>1 DEF AllAbsent
    <2> QED
      BY <2>1 DEF StampsVouch
  <1> QED
    BY <1>1, <1>2, <1>3, <1>4 DEF Coherent, DoneIsGood, RunningIsNext, OkIsComplete

\* A clean recipe is no step: its being done vouches for nothing.
LEMMA CleanCoherent ==
  ASSUME IndInv, NEW p \in Pkg, NEW c \in Clean, StartClean(p, c) \/ FinishClean(p, c)
  PROVE  Coherent'
  <1> USE DEF IndInv
  <1>0. c \notin Step /\ c # "dircleaned"
    BY DEF Clean, Step, DepStep, InstallStep
  <1>1. UNCHANGED <<files, plan, kept>>
    BY DEF StartClean, FinishClean
  <1>2. CASE StartClean(p, c)
    <2>1. /\ <<p, c>> \notin Done /\ Pre[<<p, c>>] \subseteq Done /\ status' = "running"
          /\ running' = running \cup {<<p, c>>} /\ made' = made
      BY <1>2 DEF StartClean, CanVisit
    <2>2. Done' = Done
      BY <1>1, <2>1 DEF Done
    <2>3. StampsVouch' /\ DoneIsGood'
      BY <1>1, <2>2 DEF StampsVouch, DoneIsGood, files
    <2>4. RunningIsNext'
      BY <1>0, <1>1, <2>1, <2>2 DEF RunningIsNext, files
    <2> QED
      BY <2>1, <2>3, <2>4 DEF Coherent, OkIsComplete
  <1>3. CASE FinishClean(p, c)
    <2>1. /\ <<p, c>> \in running /\ running' = running \ {<<p, c>>}
          /\ made' = made \cup {<<p, c>>} /\ status' \in {"running", "failing"}
      BY <1>3 DEF FinishClean, Active
    <2>2. Done' = Done \cup {<<p, c>>} /\ Pre[<<p, c>>] \subseteq Done
      BY <1>1, <2>1 DEF Done, RunningIsNext
    <2>3. StampsVouch'
      <3>1. \A q, t : t \in Step /\ <<q, t>> \in Done' => <<q, t>> \in Done
        BY <1>0, <2>2
      <3>2. \A q \in Pkg, s \in Step : \A t \in Prereq[q][s] : t \in Step
        BY PrereqType
      <3> QED
        BY <1>1, <3>1, <3>2 DEF StampsVouch, files
    <2>4. DoneIsGood'
      BY <1>0, <1>1, <2>2 DEF DoneIsGood, files
    <2>5. RunningIsNext'
      BY <1>1, <2>1, <2>2 DEF RunningIsNext, files
    <2> QED
      BY <2>1, <2>3, <2>4, <2>5 DEF Coherent, OkIsComplete
  <1> QED
    BY <1>2, <1>3

\* A clean recipe removes a stamp: there is less to vouch for.
LEMMA RemoveStampCoherent ==
  ASSUME IndInv, NEW p \in Pkg, RemoveStamp(p)
  PROVE  Coherent'
  <1> USE DEF IndInv
  <1>1. UNCHANGED <<work, torn, kept, made, running, status, plan>>
    BY DEF RemoveStamp
  <1>2. \A q \in Pkg, t \in Step : stamp'[q][t] = "fresh" => stamp[q][t] = "fresh"
    BY DEF RemoveStamp, TypeOK
  <1>3. Done' = Done /\ Asked' = Asked
    BY <1>1 DEF Done, Asked
  <1>4. StampsVouch'
    BY <1>1, <1>2, <1>3, PrereqType DEF StampsVouch
  <1> QED
    BY <1>1, <1>3, <1>4 DEF Coherent, DoneIsGood, RunningIsNext, OkIsComplete

\* While rm -Rf is at work, and until a command that leaves the package alone
\* has finished it, nothing is said of the package.
LEMMA DircleanCoherent ==
  ASSUME IndInv, NEW p \in Pkg,
         StartDirclean(p) \/ RemoveSome(p) \/ FinishDirclean(p)
  PROVE  Coherent'
  <1> USE DEF IndInv
  <1> DEFINE n == <<p, "dircleaned">>
  <1>0. "dircleaned" \notin Step
    BY DEF Step, DepStep, InstallStep
  <1>1. CASE StartDirclean(p)
    <2>1. /\ UNCHANGED <<stamp, work, kept, made, plan>> /\ torn' = torn \cup {p}
          /\ running' = running \cup {n} /\ n \notin Done /\ Pre[n] \subseteq Done
          /\ status' = "running"
      BY <1>1 DEF StartDirclean, CanVisit
    <2>2. Done' = Done
      BY <2>1 DEF Done
    <2> QED
      BY <2>1, <2>2 DEF Coherent, StampsVouch, DoneIsGood, RunningIsNext, OkIsComplete
  <1>2. CASE RemoveSome(p)
    <2>1. UNCHANGED <<torn, make>> /\ n \in running
      BY <1>2 DEF RemoveSome
    <2>2. p \in torn
      BY <2>1 DEF RunningIsNext
    <2>3. \A q \in Pkg \ torn : stamp'[q] = stamp[q] /\ work'[q] = work[q]
      BY <1>2, <2>2 DEF RemoveSome, TypeOK
    <2>4. Done' = Done /\ Asked' = Asked
      BY <2>1 DEF Done, Asked, make
    <2>5. StampsVouch'
      <3> SUFFICES ASSUME NEW q \in Pkg \ torn, NEW t \in Step, t \in StepsOf[q],
                          stamp[q][t] = "fresh",
                          \A u \in Prereq[q][t] :
                            stamp[q][u] = "fresh" \/ <<q, u>> \in Done
                   PROVE  work[q][t] = "good"
        BY <2>1, <2>3, <2>4 DEF StampsVouch
      <3> QED
        BY DEF StampsVouch
    <2>6. DoneIsGood'
      <3> SUFFICES ASSUME NEW m \in Done
                   PROVE  /\ Pre[m] \subseteq Done
                          /\ m[2] \in Step /\ m[1] \notin torn => work'[m[1]][m[2]] = "good"
        BY <2>1, <2>4 DEF DoneIsGood
      <3>1. m[1] \in Pkg
        BY DoneType, NodeShape
      <3> QED
        BY <2>3, <3>1 DEF DoneIsGood
    <2> QED
      BY <2>1, <2>4, <2>5, <2>6 DEF Coherent, RunningIsNext, OkIsComplete, make
  <1>3. CASE FinishDirclean(p)
    <2>1. /\ UNCHANGED <<kept, plan>> /\ n \in running /\ running' = running \ {n}
          /\ made' = made \cup {n} /\ status' \in {"running", "failing"}
          /\ torn' = IF (Done \cup running) \cap ({p} \X Step) = {} THEN torn \ {p} ELSE torn
      BY <1>3 DEF FinishDirclean, Active
    <2>2. p \in torn /\ n \notin Done /\ Pre[n] \subseteq Done
      BY <2>1 DEF RunningIsNext
    <2>3. Done' = Done \cup {n}
      BY <2>1 DEF Done
    <2>4. \A q \in Pkg : q # p => stamp'[q] = stamp[q] /\ work'[q] = work[q]
      BY <1>3 DEF FinishDirclean, TypeOK
    <2>5. \A t \in Step : stamp'[p][t] = "absent"
      BY <1>3 DEF FinishDirclean, TypeOK
    <2>6. StampsVouch'
      <3> SUFFICES ASSUME NEW q \in Pkg \ torn', NEW t \in Step, t \in StepsOf[q],
                          stamp'[q][t] = "fresh",
                          \A u \in Prereq[q][t] :
                            stamp'[q][u] = "fresh" \/ <<q, u>> \in Done'
                   PROVE  work'[q][t] = "good"
        BY DEF StampsVouch
      <3>1. q # p /\ q \notin torn
        BY <2>1, <2>5
      <3>2. \A u \in Prereq[q][t] : stamp[q][u] = "fresh" \/ <<q, u>> \in Done
        BY <2>3, <2>4, <3>1
      <3> QED
        BY <2>4, <3>1, <3>2 DEF StampsVouch
    <2>7. DoneIsGood'
      <3> SUFFICES ASSUME NEW m \in Done'
                   PROVE  /\ Pre[m] \subseteq Done'
                          /\ m[2] \in Step /\ m[1] \notin torn' => work'[m[1]][m[2]] = "good"
        BY DEF DoneIsGood
      <3>1. CASE m = n
        BY <1>0, <2>2, <2>3, <3>1
      <3>2. CASE m \in Done
        <4>1. m[1] \in Pkg /\ m = <<m[1], m[2]>>
          BY <3>2, DoneType, NodeShape
        <4>2. Pre[m] \subseteq Done'
          BY <2>3, <3>2 DEF DoneIsGood
        <4>3. ASSUME m[2] \in Step, m[1] \notin torn' PROVE work'[m[1]][m[2]] = "good"
          <5>1. m[1] # p
            BY <2>1, <2>2, <3>2, <4>1, <4>3
          <5>2. m[1] \notin torn
            BY <2>1, <4>3, <5>1
          <5> QED
            BY <2>4, <3>2, <4>1, <4>3, <5>1, <5>2 DEF DoneIsGood
        <4> QED
          BY <4>2, <4>3
      <3> QED
        BY <2>3, <3>1, <3>2
    <2>8. RunningIsNext'
      <3> SUFFICES ASSUME NEW m \in running, m # n
                   PROVE  /\ m \notin Done' /\ Pre[m] \subseteq Done'
                          /\ m[2] = "dircleaned" => m[1] \in torn'
        BY <2>1 DEF RunningIsNext
      <3>1. m[2] = "dircleaned" => m[1] # p
        BY DoneType, NodeShape
      <3> QED
        BY <2>1, <2>3, <3>1 DEF RunningIsNext
    <2> QED
      BY <2>1, <2>6, <2>7, <2>8 DEF Coherent, OkIsComplete
  <1> QED
    BY <1>1, <1>2, <1>3

-----------------------------------------------------------------------------
(* The invariant, and what follows from it.                                *)

LEMMA IndInit == Init => IndInv
  <1> SUFFICES ASSUME Init PROVE IndInv
    OBVIOUS
  <1>1. TypeOK
    BY TypeInit
  <1>2. Done = {} /\ running = {} /\ status = "idle"
    BY DEF Init, Done
  <1>3. \A p \in Pkg, s \in Step : stamp[p][s] = "absent"
    BY DEF Init
  <1> QED
    BY <1>1, <1>2, <1>3
    DEF IndInv, StampsVouch, DoneIsGood, RunningIsNext, OkIsComplete

LEMMA IndStep == IndInv /\ [Next]_vars => IndInv'
  <1> SUFFICES ASSUME IndInv, [Next]_vars PROVE Coherent'
    BY TypeStep DEF IndInv, Coherent
  <1>1. ASSUME NEW command \in Commands, NEW j \in BOOLEAN, Make(command, j)
        PROVE  Coherent'
    BY <1>1, MakeCoherent
  <1>2. ASSUME NEW p \in Pkg, Edit(p) PROVE Coherent'
    BY <1>2, QuietCoherent DEF Edit, make
  <1>3. ASSUME NEW p \in Pkg, StartStep(p) PROVE Coherent'
    <2>1. \E s \in Step : StartRecipe(p, s)
      BY <1>3
      DEF StartStep, StartDownload, StartExtract, StartRsync, StartPatch, StartConfigure,
          StartBuild, StartFinalInstall, StartInstall, Step, DepStep, InstallStep
    <2> QED
      BY <2>1, StartRecipeCoherent
  <1>4. ASSUME NEW p \in Pkg, ApplyPatch(p) \/ RefusePatch(p) \/ CheckBinArchFails(p)
        PROVE  Coherent'
    BY <1>4, QuietCoherent DEF ApplyPatch, RefusePatch, CheckBinArchFails, files
  <1>5. ASSUME NEW p \in Pkg, RemoveStamp(p) PROVE Coherent'
    BY <1>5, RemoveStampCoherent
  <1>6. ASSUME NEW p \in Pkg, StartDirclean(p) \/ RemoveSome(p) \/ FinishDirclean(p)
        PROVE  Coherent'
    BY <1>6, DircleanCoherent
  <1>7. ASSUME NEW p \in Pkg, NEW s \in StepsOf[p], Keep(p, s) PROVE Coherent'
    BY <1>7, KeepCoherent
  <1>8. ASSUME NEW p \in Pkg, NEW s \in StepsOf[p], FinishRecipe(p, s) PROVE Coherent'
    BY <1>8, FinishRecipeCoherent
  <1>9. ASSUME NEW p \in Pkg, NEW c \in Clean, StartClean(p, c) \/ FinishClean(p, c)
        PROVE  Coherent'
    BY <1>9, CleanCoherent
  <1>10. CASE Succeed
    <2>1. UNCHANGED <<files, plan, kept, made, running>> /\ status' = "ok"
          /\ \A i \in DOMAIN plan : Complete(i)
      BY <1>10 DEF Succeed
    <2>2. Done' = Done
      BY <2>1 DEF Done
    <2>3. OkIsComplete'
      BY <2>1, <2>2 DEF OkIsComplete, Asked, Complete
    <2> QED
      BY <2>1, <2>2, <2>3
      DEF Coherent, IndInv, StampsVouch, DoneIsGood, RunningIsNext, files
  <1>11. CASE GiveUp \/ Kill
    BY <1>11, QuietCoherent DEF GiveUp, Kill, files
  <1>12. ASSUME NEW p \in Pkg, NEW s \in StepsOf[p], FailRecipe(p, s) PROVE Coherent'
    BY <1>12, QuietCoherent DEF FailRecipe, files
  <1>13. CASE UNCHANGED vars
    BY <1>13, QuietCoherent DEF vars, files, make
  <1> QED
    BY <1>1, <1>2, <1>3, <1>4, <1>5, <1>6, <1>7, <1>8, <1>9, <1>10, <1>11, <1>12, <1>13
    DEF Next, User, Progress

\* The inductive invariant: types, stamps, and what make has gone past.
THEOREM Inductive == Spec => []IndInv
  BY IndInit, IndStep, PTL DEF Spec

\* A stamp that make would keep vouches for a complete, coherent result,
\* whatever was killed, failed or cleaned before.
THEOREM StampsCorrect == Spec => []StampsVouch
  <1>1. IndInv => StampsVouch
    BY DEF IndInv
  <1> QED
    BY <1>1, Inductive, PTL

\* The whole chain of steps of a package is behind its last one.
LEMMA InstalledIsLast ==
  ASSUME NEW p \in Pkg, NEW D, \A n \in D : Pre[n] \subseteq D, <<p, "installed">> \in D,
         NEW s \in StepsOf[p]
  PROVE  <<p, s>> \in D
  <1> USE DEF Step, DepStep, InstallStep
  <1>1. \A u \in Step : \A t \in Prereq[p][u] : <<p, u>> \in D => <<p, t>> \in D
    BY PrereqInPre
  <1>2. \A u \in Step, t \in StepsOf[p] : <<t, u>> \in Sequencing => t \in Prereq[p][u]
    BY StepsOfType DEF Prereq
  <1>3. \A u \in Step, t \in StepsOf[p] :
          <<p, u>> \in D /\ <<t, u>> \in Sequencing => <<p, t>> \in D
    BY <1>1, <1>2
  <1>4. "built" \in StepsOf[p] /\ "configured" \in StepsOf[p]
    BY DEF StepsOf
  <1>5. \A t \in InstallStep \cup {"built"} : t \in StepsOf[p] => <<p, t>> \in D
    BY <1>3 DEF Sequencing
  <1>6. <<p, "configured">> \in D
    <2>1. <<"configured", "built">> \in Sequencing
      BY DEF Sequencing
    <2> QED
      BY <1>3, <1>4, <1>5, <2>1
  <1>7. p \in Override => <<p, "rsynced">> \in D
    <2>1. p \in Override => <<p, "rsynced">> \in Pre[<<p, "configured">>]
      BY DEF Pre, OrderOnly, Node
    <2> QED
      BY <1>6, <2>1
  <1>8. ASSUME p \notin Override
        PROVE  {<<p, "patched">>, <<p, "extracted">>, <<p, "downloaded">>} \subseteq D
    <2>1. {"downloaded", "extracted", "patched"} \subseteq StepsOf[p]
      BY <1>8 DEF StepsOf
    <2>2. {<<"downloaded", "extracted">>, <<"extracted", "patched">>,
           <<"patched", "configured">>} \subseteq Sequencing
      BY DEF Sequencing
    <2>3. <<p, "patched">> \in D
      BY <1>3, <1>6, <2>1, <2>2
    <2>4. <<p, "extracted">> \in D
      BY <1>3, <2>1, <2>2, <2>3
    <2>5. <<p, "downloaded">> \in D
      BY <1>3, <2>1, <2>2, <2>4
    <2> QED
      BY <2>3, <2>4, <2>5
  <1>9. \/ s \in InstallStep \cup {"built", "configured", "installed"}
        \/ s = "rsynced" /\ p \in Override
        \/ s \in {"patched", "extracted", "downloaded"} /\ p \notin Override
    BY DEF StepsOf, InstallSteps
  <1> QED
    BY <1>5, <1>6, <1>7, <1>8, <1>9

\* A make command that succeeds has wholly and coherently made what it was
\* asked for, whatever happened in the commands before it.
THEOREM InstalledCorrect == Spec => []InstalledIsCoherent
  <1>1. IndInv => InstalledIsCoherent
    <2> SUFFICES ASSUME IndInv, status = "ok", NEW p \in Pkg \ torn,
                        <<p, "installed">> \in Asked, NEW s \in StepsOf[p]
                 PROVE  work[p][s] = "good"
      BY DEF InstalledIsCoherent
    <2>1. <<p, "installed">> \in Done
      BY DEF IndInv, OkIsComplete
    <2>2. <<p, s>> \in Done /\ s \in Step
      BY <2>1, InstalledIsLast, StepsOfType DEF IndInv, DoneIsGood
    <2> DEFINE n == <<p, s>>
    <2>3. n \in Done /\ n[1] = p /\ n[2] = s
      BY <2>2
    <2> QED
      BY <2>2, <2>3 DEF IndInv, DoneIsGood
  <1> QED
    BY <1>1, Inductive, PTL

\* What a running recipe has an order-only dependency on is complete, with
\* everything the package it belongs to has installed.
THEOREM DependenciesCorrect == Spec => []DependenciesAreReady
  <1>1. IndInv => DependenciesAreReady
    <2> SUFFICES ASSUME IndInv, NEW n \in running, NEW m \in OrderOnly(n[1], n[2]),
                        m[1] \notin torn
                 PROVE  /\ m \notin running
                        /\ work[m[1]][m[2]] = "good"
                        /\ m[2] = "installed" =>
                             \A s \in InstallSteps(m[1]) : work[m[1]][s] = "good"
      BY DEF DependenciesAreReady
    <2>1. n \in Node /\ n[2] \in Step
      <3>1. n \in Node
        BY DoneType DEF IndInv
      <3>2. OrderOnly(n[1], n[2]) # {} => n[2] \in DepStep
        BY DEF OrderOnly, DepStep
      <3> QED
        BY <3>1, <3>2 DEF Step
    <2>2. m \in Done
      BY <2>1 DEF Pre, IndInv, RunningIsNext
    <2>3. m[2] \in Step
      BY DEF OrderOnly, PatchNode, Step, DepStep
    <2>4. m[1] \in Pkg /\ m = <<m[1], m[2]>>
      BY <2>2, DoneType, NodeShape DEF IndInv
    <2>5. ASSUME m[2] = "installed", NEW s \in InstallSteps(m[1])
          PROVE  work[m[1]][s] = "good"
      <3>1. s \in StepsOf[m[1]] /\ s \in Step
        BY <2>4, <2>5, StepsOfType DEF StepsOf
      <3>2. <<m[1], s>> \in Done
        BY <2>2, <2>4, <2>5, <3>1, InstalledIsLast DEF IndInv, DoneIsGood
      <3> DEFINE k == <<m[1], s>>
      <3>3. k \in Done /\ k[1] = m[1] /\ k[2] = s
        BY <3>2
      <3> QED
        BY <3>1, <3>3 DEF IndInv, DoneIsGood
    <2> QED
      BY <2>2, <2>3, <2>5 DEF IndInv, DoneIsGood, RunningIsNext
  <1> QED
    BY <1>1, Inductive, PTL

-----------------------------------------------------------------------------
(* Patches.                                                                *)

\* A tree whose patch is about to be applied has not got it.
PatchInv ==
  /\ TypeOK
  /\ \A p \in Pkg : applied[p] <= 1 /\ (p \in topatch => applied[p] = 0)

\* apply-patches.sh never applies the patch of a package to a tree that has it.
THEOREM PatchesCorrect == Spec => []NoPatchTwice
  <1>1. Init => PatchInv
    <2>1. Init => \A p \in Pkg : applied[p] = 0
      BY DEF Init
    <2> QED
      BY <2>1, TypeInit DEF PatchInv
  <1>2. PatchInv /\ [Next]_vars => PatchInv'
    <2> SUFFICES ASSUME PatchInv, [Next]_vars PROVE PatchInv'
      OBVIOUS
    <2>1. TypeOK'
      BY TypeStep DEF PatchInv
    <2>2. CASE UNCHANGED applied /\ topatch' \subseteq topatch
      BY <2>1, <2>2 DEF PatchInv
    <2>3. ASSUME NEW p \in Pkg, StartPatch(p) PROVE PatchInv'
      <3>1. UNCHANGED applied /\ topatch' = topatch \cup ({p} \cap Patched)
        BY <2>3 DEF StartPatch, StartRecipe
      <3>2. p \in Patched => applied[p] = 0
        BY <2>3 DEF StartPatch, Duplicate, PatchInv, TypeOK
      <3> QED
        BY <2>1, <3>1, <3>2 DEF PatchInv
    <2>4. ASSUME NEW p \in Pkg, ApplyPatch(p) PROVE PatchInv'
      <3>1. applied' = [applied EXCEPT ![p] = @ + 1] /\ topatch' = topatch \ {p}
            /\ p \in topatch
        BY <2>4 DEF ApplyPatch
      <3>2. applied \in [Pkg -> Nat]
        BY DEF PatchInv, TypeOK
      <3>3. \A q \in Pkg : applied'[q] = IF q = p THEN 1 ELSE applied[q]
        BY <3>1, <3>2 DEF PatchInv
      <3> QED
        BY <2>1, <3>1, <3>3 DEF PatchInv
    <2>5. ASSUME NEW p \in Pkg, RemoveSome(p) \/ FinishDirclean(p) PROVE PatchInv'
      <3>1. topatch' = topatch
        BY <2>5 DEF RemoveSome, FinishDirclean, make
      <3>2. \A q \in Pkg : applied'[q] = applied[q] \/ applied'[q] = 0
        BY <2>5 DEF RemoveSome, FinishDirclean, PatchInv, TypeOK
      <3> QED
        BY <2>1, <3>1, <3>2 DEF PatchInv
    <2>6. ASSUME NEW p \in Pkg,
                 StartDownload(p) \/ StartExtract(p) \/ StartRsync(p) \/ StartConfigure(p)
                 \/ StartBuild(p) \/ StartFinalInstall(p)
                 \/ (\E s \in InstallStep : StartInstall(p, s))
          PROVE  UNCHANGED applied /\ topatch' \subseteq topatch
      BY <2>6 DEF StartDownload, StartExtract, StartRsync, StartConfigure, StartBuild,
                  StartFinalInstall, StartInstall, StartRecipe
    <2>7. ASSUME NEW p \in Pkg,
                 RefusePatch(p) \/ CheckBinArchFails(p) \/ RemoveStamp(p)
                 \/ StartDirclean(p) \/ Edit(p)
          PROVE  UNCHANGED applied /\ topatch' \subseteq topatch
      BY <2>7 DEF RefusePatch, CheckBinArchFails, RemoveStamp, StartDirclean, Edit,
                  files, make
    <2>8. ASSUME NEW p \in Pkg, NEW s,
                 Keep(p, s) \/ FinishRecipe(p, s) \/ FailRecipe(p, s)
                 \/ StartClean(p, s) \/ FinishClean(p, s)
          PROVE  UNCHANGED applied /\ topatch' \subseteq topatch
      BY <2>8 DEF Keep, FinishRecipe, FailRecipe, StartClean, FinishClean, files
    <2>9. ASSUME \/ Succeed \/ GiveUp \/ Kill \/ UNCHANGED vars
                 \/ \E command \in Commands, j \in BOOLEAN : Make(command, j)
          PROVE  UNCHANGED applied /\ topatch' \subseteq topatch
      BY <2>9 DEF Succeed, GiveUp, Kill, Make, vars, files, make
    <2> QED
      BY <2>2, <2>3, <2>4, <2>5, <2>6, <2>7, <2>8, <2>9
      DEF Next, User, Progress, StartStep
  <1>3. PatchInv => NoPatchTwice
    BY DEF PatchInv, NoPatchTwice
  <1> QED
    BY <1>1, <1>2, <1>3, PTL DEF Spec

-----------------------------------------------------------------------------
(* What the redo targets, dirclean and the lists of files promise: the     *)
(* invariants that know what the goals of a command ask for, and what it   *)
(* has remade.                                                             *)

\* A stamp make would keep is there because this command has made it.
Remade(p, s) == stamp[p][s] = "fresh" => <<p, s>> \in made

\* Recipes make steps their packages have; only steps are ever kept.
OnlyRealSteps ==
  /\ running \subseteq Asked
  /\ \A n \in running \cup Done : n[2] \in Step => n[2] \in StepsOf[n[1]]
  /\ \A n \in kept : n[2] \in Step

\* What comes right after a step that was remade is not kept.
RemadeAfter ==
  \A p \in Pkg : \A t \in StepsOf[p] : \A s \in Prereq[p][t] :
    <<p, s>> \in made => <<p, t>> \notin kept /\ Remade(p, t)

\* A clean recipe has removed its stamps when it ends, and they stay away
\* until the command makes them again.
LeftIsBeingRemoved(p) == left[p] # <<>> => \E c \in Clean : <<p, c>> \in running
CleaningRemoves(p) ==
  /\ <<p, "clean-for-rebuild">> \in running =>
       left[p] = <<"built">> \/ Remade(p, "built")
  /\ <<p, "clean-for-reinstall">> \in running /\ p \in Override =>
       left[p] = Removals(p, "clean-for-reinstall") \/ Remade(p, "rsynced")
CleanedStaysGone(p) ==
  /\ <<p, "clean-for-rebuild">> \in made => Remade(p, "built")
  /\ <<p, "clean-for-reinstall">> \in made /\ p \in Override => Remade(p, "rsynced")
  /\ <<p, "dircleaned">> \in made => \A s \in Step : Remade(p, s)
Gone(p) == LeftIsBeingRemoved(p) /\ CleaningRemoves(p) /\ CleanedStaysGone(p)
CleanedIsGone == \A p \in Pkg : Gone(p)

\* The first goal is over before another one begins.
InTurn == (WaitIsSpecial \/ ~jobs) /\ (jobs => Len(plan) = 1)
Cleans(p) == {<<p, "clean-for-rebuild">>, <<p, "dircleaned">>}

FirstIsClean ==
  InTurn => \A p \in Pkg :
    /\ plan # <<>> => 1 \in DOMAIN plan[1]
    /\ <<p, "clean-for-rebuild">> \in AskedFirst =>
         /\ AskedFirst \subseteq Pkg \X Clean
         /\ <<p, "clean-for-reinstall">> \in AskedFirst
         /\ <<p, "installed">> \in Asked
    /\ <<p, "dircleaned">> \in AskedFirst => AskedFirst \subseteq Pkg \X {"dircleaned"}

FirstIsFirst ==
  InTurn => \A p \in Pkg : Cleans(p) \cap AskedFirst # {} =>
    \A n \in Done \cup running : n[2] \in Step => AskedFirst \subseteq Done

\* After a first goal that cleans, nothing it cleaned is kept.
CleanedIsNotKept ==
  InTurn => \A p \in Pkg :
    /\ <<p, "clean-for-rebuild">> \in AskedFirst =>
         <<p, "built">> \notin kept /\ (p \in Override => <<p, "rsynced">> \notin kept)
    /\ <<p, "dircleaned">> \in AskedFirst =>
         /\ {n \in kept : n[1] = p} = {}
         /\ <<p, "dircleaned">> \in made => p \notin torn

\* Edits are synced before they are built, and both in the same command only
\* once.
Taken(p) ==
  /\ p \notin Override => edited[p] # "source"
  /\ Active /\ <<p, "rsynced">> \in made \cup running => edited[p] # "source"
  /\ Active /\ <<p, "built">> \in made \cup running => edited[p] # "tree"
EditsAreTaken == \A p \in Pkg : Taken(p)

Excused(p, s) == \E c \in Clean : <<p, c>> \in Asked /\ s \in RedoneBy(p, c)
Coming(p) == {left[p][i] : i \in DOMAIN left[p]}

\* What is not up to date any more, or about to be removed, was asked for.
Touched(p, s) ==
  stamp[p][s] # "fresh" \/ <<p, s>> \in running \cup made \/ s \in Coming(p)
OnlyExcused ==
  \A p \in settled : <<p, "dircleaned">> \notin Asked =>
    \A s \in StepsOf[p] : Touched(p, s) => Excused(p, s)

\* From configure on, unless a recipe failed, the snapshot is there and what is
\* installed noted; the last step has listed it.
Begun(p, s) == <<p, s>> \in running \cup made
Noted(p) ==
  Begun(p, "configured") =>
    /\ status = "running" /\ ~Begun(p, "installed") =>
         /\ p \in snapshot
         /\ \A u \in InstallSteps(p) : Begun(p, u) => <<p, u>> \in since[p]
    /\ Begun(p, "installed") => {p} \X InstallSteps(p) \subseteq list[p]
InstalledIsNoted == \A p \in Pkg \ torn : Noted(p)

RedoInv ==
  /\ OnlyRealSteps /\ RemadeAfter /\ CleanedIsGone /\ FirstIsClean /\ FirstIsFirst
  /\ CleanedIsNotKept /\ EditsAreTaken /\ OnlyExcused /\ InstalledIsNoted

-----------------------------------------------------------------------------
(* What a goal asks for.                                                    *)

LEMMA PreType == \A n \in Node : Pre[n] \subseteq Node
  <1> SUFFICES ASSUME NEW n \in Node PROVE Pre[n] \subseteq Node
    OBVIOUS
  <1>1. n[1] \in Pkg
    BY NodeShape
  <1>2. n[2] \in Step => Prereq[n[1]][n[2]] \subseteq Step
    BY <1>1, PrereqType
  <1>3. ASSUME NEW s \in Step PROVE OrderOnly(n[1], s) \subseteq Node
    <2>1. s \in DepStep => Deps[s][n[1]] \subseteq Pkg
      BY <1>1, ConstantsAssumption
    <2>2. \A q \in Pkg : /\ PatchNode(q) \in Node /\ <<q, "installed">> \in Node
                          /\ <<q, "rsynced">> \in Node
      BY DEF PatchNode, Node, Step, DepStep
    <2> QED
      BY <1>1, <2>1, <2>2 DEF OrderOnly
  <1>4. CleanPrereq(n[2]) \subseteq Clean
    BY DEF CleanPrereq, Clean
  <1> QED
    BY <1>1, <1>2, <1>3, <1>4 DEF Pre, Node

\* Needs is what its recursive definition says: the equation has a solution,
\* what can be reached from a target.
LEMMA NeedsEquation ==
  \A n \in Node : Needs[n] = {n} \cup UNION {Needs[m] : m \in Pre[n]}
  <1> DEFINE Closed(C) == \A m \in C : Pre[m] \subseteq C
  <1> DEFINE R(n) == {m \in Node : \A C \in SUBSET Node : n \in C /\ Closed(C) => m \in C}
  <1>1. ASSUME NEW n \in Node
        PROVE  R(n) = {n} \cup UNION {R(m) : m \in Pre[n]}
    <2> DEFINE U == {n} \cup UNION {R(m) : m \in Pre[n]}
    <2>1. \A m \in Node : R(m) \in SUBSET Node /\ m \in R(m) /\ Closed(R(m))
      BY PreType
    <2>2. U \in SUBSET Node
      BY <2>1, PreType
    <2>3. Closed(U)
      <3> SUFFICES ASSUME NEW m \in U, NEW k \in Pre[m] PROVE k \in U
        OBVIOUS
      <3>1. CASE m = n
        BY <2>1, <3>1, PreType
      <3>2. CASE m # n
        <4>1. PICK j \in Pre[n] : m \in R(j)
          BY <3>2
        <4>2. k \in R(j)
          BY <2>1, <4>1, PreType
        <4> QED
          BY <4>1, <4>2
      <3> QED
        BY <3>1, <3>2
    <2>4. R(n) \subseteq U
      BY <2>2, <2>3
    <2>5. \A m \in Pre[n] : R(m) \subseteq R(n)
      <3> SUFFICES ASSUME NEW m \in Pre[n] PROVE R(m) \subseteq R(n)
        OBVIOUS
      <3>1. m \in R(n)
        BY <2>1
      <3> QED
        BY <2>1, <3>1
    <2>6. U \subseteq R(n)
      BY <2>1, <2>5
    <2> QED
      BY <2>4, <2>6
  <1> DEFINE f == [n \in Node |-> R(n)]
  <1>2. f = [n \in Node |-> {n} \cup UNION {f[m] : m \in Pre[n]}]
    <2>1. \A n \in Node : R(n) = {n} \cup UNION {f[m] : m \in Pre[n]}
      <3> SUFFICES ASSUME NEW n \in Node
                   PROVE  R(n) = {n} \cup UNION {f[m] : m \in Pre[n]}
        OBVIOUS
      <3>1. \A m \in Pre[n] : f[m] = R(m)
        BY PreType
      <3> HIDE DEF R, f
      <3>2. {f[m] : m \in Pre[n]} = {R(m) : m \in Pre[n]}
        BY <3>1
      <3> QED
        BY <1>1, <3>2
    <2> HIDE DEF R
    <2> QED
      BY <2>1
  <1> HIDE DEF f
  <1>3. Needs = [n \in Node |-> {n} \cup UNION {Needs[m] : m \in Pre[n]}]
    BY <1>2 DEF Needs
  <1> QED
    BY <1>3

\* A target is among what its goal needs.
LEMMA ClosureHas ==
  ASSUME NEW S \in SUBSET Node PROVE S \subseteq Closure(S)
  BY NeedsEquation DEF Closure

\* The clean targets need each other only.
LEMMA NeedsOfClean ==
  ASSUME NEW p \in Pkg
  PROVE  /\ Needs[<<p, "dircleaned">>] = {<<p, "dircleaned">>}
         /\ Needs[<<p, "clean-for-reinstall">>] = {<<p, "clean-for-reinstall">>}
         /\ Needs[<<p, "clean-for-rebuild">>] =
              {<<p, "clean-for-rebuild">>, <<p, "clean-for-reinstall">>}
         /\ Needs[<<p, "clean-for-reconfigure">>] =
              {<<p, "clean-for-reconfigure">>, <<p, "clean-for-rebuild">>,
               <<p, "clean-for-reinstall">>}
  <1>1. ASSUME NEW c \in Clean \cup {"dircleaned"}
        PROVE  <<p, c>> \in Node /\ Pre[<<p, c>>] = {p} \X CleanPrereq(c)
    <2>1. <<p, c>> \in Node
      BY DEF Node
    <2>2. c \notin Step
      BY DEF Clean, Step, DepStep, InstallStep
    <2> QED
      BY <2>1, <2>2 DEF Pre
  <1>2. ASSUME NEW c \in {"clean-for-reinstall", "dircleaned"}
        PROVE  Needs[<<p, c>>] = {<<p, c>>}
    <2>1. Pre[<<p, c>>] = {} /\ <<p, c>> \in Node
      BY <1>1 DEF CleanPrereq, Clean
    <2> QED
      BY <2>1, NeedsEquation
  <1>3. Needs[<<p, "clean-for-rebuild">>] =
          {<<p, "clean-for-rebuild">>, <<p, "clean-for-reinstall">>}
    <2>1. Pre[<<p, "clean-for-rebuild">>] = {<<p, "clean-for-reinstall">>}
          /\ <<p, "clean-for-rebuild">> \in Node
      BY <1>1 DEF CleanPrereq, Clean
    <2> QED
      BY <1>2, <2>1, NeedsEquation
  <1>4. Needs[<<p, "clean-for-reconfigure">>] =
          {<<p, "clean-for-reconfigure">>, <<p, "clean-for-rebuild">>,
           <<p, "clean-for-reinstall">>}
    <2>1. Pre[<<p, "clean-for-reconfigure">>] = {<<p, "clean-for-rebuild">>}
          /\ <<p, "clean-for-reconfigure">> \in Node
      BY <1>1 DEF CleanPrereq, Clean
    <2> QED
      BY <1>3, <2>1, NeedsEquation
  <1> QED
    BY <1>2, <1>3, <1>4

\* No step comes before itself, over any number of prerequisites: among any
\* targets that are steps, one has no prerequisite.
LEMMA StepsAreOrdered ==
  ASSUME NEW B \in SUBSET (Pkg \X Step), B # {}
  PROVE  \E n \in B : Pre[n] \cap B = {}
  <1> DEFINE Tree == {"downloaded", "extracted", "patched", "rsynced"}
  <1> DEFINE StageOf(s) == IF s \in Tree THEN "tree" ELSE "made"
  <1> DEFINE S == {<<n[1], StageOf(n[2])>> : n \in B}
  <1>1. PICK x \in S : After(x[1], x[2]) \cap S = {}
    <2>1. \A n \in B : n[1] \in Pkg /\ StageOf(n[2]) \in {"tree", "made"}
      OBVIOUS
    <2>2. \A n \in B : <<n[1], StageOf(n[2])>> \in Pkg \X {"tree", "made"}
      BY <2>1
    <2> HIDE DEF StageOf
    <2>3. S \subseteq Pkg \X {"tree", "made"}
      BY <2>2
    <2>4. S # {}
      OBVIOUS
    <2> HIDE DEF S
    <2> QED
      BY <2>3, <2>4, NoCircles
  <1>2. PICK m \in B : x = <<m[1], StageOf(m[2])>>
    OBVIOUS
  <1> DEFINE p == m[1]
  <1> DEFINE g == StageOf(m[2])
  <1> DEFINE T == {s \in Step : <<p, s>> \in B /\ StageOf(s) = g}
  <1>3. p \in Pkg /\ m = <<p, m[2]>> /\ m[2] \in T /\ After(p, g) \cap S = {}
    BY <1>1, <1>2
  <1>4. \A n \in B : <<n[1], StageOf(n[2])>> \in S
    OBVIOUS
  <1> HIDE DEF S, p, g
  \* The first of the steps of p in this stage.
  <1>5. \E s \in T : \A t \in T : <<t, s>> \notin Sequencing
    <2>1. T # {} /\ T \subseteq Step
      BY <1>3
    <2> HIDE DEF T
    <2>2. \A t, s : <<t, s>> \in Sequencing =>
            \/ s = "extracted" /\ t = "downloaded"
            \/ s = "patched" /\ t = "extracted"
            \/ s = "configured" /\ t = "patched"
            \/ s = "built" /\ t = "configured"
            \/ s \in InstallStep /\ t \in {"built", "staging_installed"}
            \/ s = "installed" /\ t \in {"built"} \cup InstallStep
      BY DEF Sequencing, InstallStep
    <2>3. \A t : <<t, "staging_installed">> \in Sequencing => t = "built"
      BY DEF Sequencing, InstallStep
    <2>4. CASE T \cap DepStep # {}
      <3>1. CASE "downloaded" \in T
        BY <2>2, <3>1 DEF InstallStep
      <3>2. CASE "downloaded" \notin T /\ "extracted" \in T
        BY <2>2, <3>2 DEF InstallStep
      <3>3. CASE "extracted" \notin T /\ "patched" \in T
        BY <2>2, <3>3 DEF InstallStep
      <3>4. CASE "patched" \notin T /\ "configured" \in T
        BY <2>2, <3>4 DEF InstallStep
      <3> QED
        BY <2>4, <3>1, <3>2, <3>3, <3>4 DEF DepStep
    <2>5. CASE T \cap DepStep = {} /\ T \cap {"rsynced", "built"} # {}
      <3>1. CASE "rsynced" \in T
        BY <2>2, <3>1 DEF InstallStep
      <3>2. CASE "configured" \notin T /\ "built" \in T
        BY <2>2, <3>2 DEF InstallStep
      <3> QED
        BY <2>5, <3>1, <3>2 DEF DepStep
    <2>6. CASE "built" \notin T /\ T \cap InstallStep # {}
      <3>1. CASE "staging_installed" \in T
        BY <2>3, <2>6, <3>1
      <3>2. CASE "staging_installed" \notin T
        <4>1. PICK s \in T \cap InstallStep : TRUE
          BY <2>6
        <4>2. \A t \in T : <<t, s>> \notin Sequencing
          BY <2>2, <2>6, <3>2, <4>1 DEF InstallStep
        <4> QED
          BY <4>1, <4>2
      <3> QED
        BY <3>1, <3>2
    <2>7. CASE T \subseteq {"installed"}
      BY <2>1, <2>2, <2>7 DEF InstallStep
    <2>8. T \cap DepStep = {} /\ T \cap {"rsynced", "built"} = {}
            /\ T \cap InstallStep = {} => T \subseteq {"installed"}
      BY <2>1 DEF Step
    <2> QED
      BY <2>4, <2>5, <2>6, <2>7, <2>8
  <1>6. PICK s \in T : \A t \in T : <<t, s>> \notin Sequencing
    BY <1>5
  <1>7. <<p, s>> \in B /\ s \in Step /\ StageOf(s) = g /\ <<p, s>> \in Node
    BY <1>3 DEF Node
  <1>8. ASSUME NEW t \in Prereq[p][s], <<p, t>> \in B PROVE FALSE
    <2>1. t \in Step /\ <<t, s>> \in Sequencing
      BY <1>3, <1>7, <1>8, StepsOfType DEF Prereq
    <2>2. StageOf(t) # g
      BY <1>6, <1>8, <2>1
    <2>3. t = "patched" /\ g = "made"
      BY <1>7, <2>1, <2>2 DEF Sequencing, Step, DepStep, InstallStep
    <2>4. <<p, "tree">> \in After(p, g)
      BY <2>3 DEF After
    <2>5. <<p, "tree">> \in S
      BY <1>4, <1>8, <2>3
    <2> QED
      BY <1>3, <2>4, <2>5
  <1>9. ASSUME NEW n \in OrderOnly(p, s), n \in B PROVE FALSE
    <2>1. <<n[1], StageOf(n[2])>> \in S
      BY <1>4, <1>9
    <2>2. <<n[1], StageOf(n[2])>> \in After(p, g)
      <3>1. CASE s = "configured" /\ p \in Override /\ n = <<p, "rsynced">>
        BY <1>7, <3>1 DEF After
      <3>2. CASE s \in DepStep \cap StepsOf[p]
        <4>1. g = IF s = "configured" THEN "made" ELSE "tree"
          BY <1>7, <3>2 DEF DepStep
        <4>2. s # "configured" => p \notin Override
          BY <1>3, <3>2 DEF StepsOf, DepStep, InstallSteps
        <4>3. CASE s = "patched"
          <5>1. CASE \E q \in Deps[s][p] : n = PatchNode(q)
            BY <4>1, <4>2, <4>3, <5>1 DEF After, PatchNode
          <5> QED
            BY <1>9, <4>3, <5>1 DEF OrderOnly
        <4>4. CASE s # "patched" /\ \E q \in Deps[s][p] : n = <<q, "installed">>
          BY <3>2, <4>1, <4>2, <4>4 DEF After, DepStep
        <4>5. CASE s # "patched" /\ ~(\E q \in Deps[s][p] : n = <<q, "installed">>)
          BY <1>9, <3>1, <4>5 DEF OrderOnly
        <4> QED
          BY <4>3, <4>4, <4>5
      <3> QED
        BY <1>9, <3>1, <3>2 DEF OrderOnly
    <2> QED
      BY <1>3, <2>1, <2>2
  <1>10. Pre[<<p, s>>] \cap B = {}
    BY <1>7, <1>8, <1>9 DEF Pre
  <1> QED
    BY <1>7, <1>10

\* A step needs steps only.
LEMMA NeedsOfSteps ==
  \A n \in Pkg \X Step : Needs[n] \subseteq Pkg \X Step
  <1> DEFINE B == {n \in Pkg \X Step : ~(Needs[n] \subseteq Pkg \X Step)}
  <1> SUFFICES ASSUME B # {} PROVE FALSE
    OBVIOUS
  <1>1. PICK n \in B : Pre[n] \cap B = {}
    BY StepsAreOrdered
  <1>2. n \in Node /\ n \in Pkg \X Step
    BY DEF Node
  <1>3. Pre[n] \subseteq Pkg \X Step
    <2>1. Pre[n] = ({n[1]} \X Prereq[n[1]][n[2]]) \cup OrderOnly(n[1], n[2])
      BY <1>2 DEF Pre
    <2>2. OrderOnly(n[1], n[2]) \subseteq Pkg \X Step
      <3>1. n[2] \in DepStep => Deps[n[2]][n[1]] \subseteq Pkg
        BY <1>2, ConstantsAssumption
      <3>2. \A q \in Pkg : /\ PatchNode(q) \in Pkg \X Step
                            /\ <<q, "installed">> \in Pkg \X Step
                            /\ <<q, "rsynced">> \in Pkg \X Step
        BY DEF PatchNode, Step, DepStep
      <3> SUFFICES ASSUME NEW m \in OrderOnly(n[1], n[2]) PROVE m \in Pkg \X Step
        OBVIOUS
      <3>3. CASE n[2] = "configured" /\ m = <<n[1], "rsynced">>
        BY <1>2, <3>2, <3>3
      <3>4. CASE n[2] \in DepStep /\ \E q \in Pkg : m \in {PatchNode(q), <<q, "installed">>}
        BY <3>2, <3>4
      <3> QED
        BY <3>1, <3>3, <3>4 DEF OrderOnly
    <2> QED
      BY <1>2, <2>1, <2>2, PrereqType
  <1>4. \A m \in Pre[n] : Needs[m] \subseteq Pkg \X Step
    BY <1>1, <1>3
  <1>5. Needs[n] = {n} \cup UNION {Needs[m] : m \in Pre[n]}
    BY <1>2, NeedsEquation
  <1> QED
    BY <1>2, <1>4, <1>5

LEMMA ClosureOf ==
  ASSUME NEW Q, NEW t, NEW n
  PROVE  n \in Closure(Q \X {t}) <=> n \in Node /\ \E q \in Q : n \in Needs[<<q, t>>]
  <1>1. ASSUME n \in Closure(Q \X {t}) PROVE \E q \in Q : n \in Needs[<<q, t>>]
    <2>1. PICK m \in Q \X {t} : n \in Needs[m]
      BY <1>1 DEF Closure
    <2>2. m[1] \in Q /\ m = <<m[1], t>>
      OBVIOUS
    <2> QED
      BY <2>1, <2>2
  <1>2. ASSUME n \in Node, NEW q \in Q, n \in Needs[<<q, t>>]
        PROVE  n \in Closure(Q \X {t})
    BY <1>2 DEF Closure
  <1> QED
    BY <1>1, <1>2 DEF Closure

\* What the first phase of a goal is about.
LEMMA FirstPhase ==
  ASSUME NEW g \in Goal, NEW p \in Pkg
  PROVE  LET phases == Phases(g, TRUE) IN
         /\ 1 \in DOMAIN phases
         /\ <<p, "clean-for-rebuild">> \in phases[1] =>
              /\ phases[1] \subseteq Pkg \X Clean
              /\ <<p, "clean-for-reinstall">> \in phases[1]
              /\ \E k \in DOMAIN phases : <<p, "installed">> \in phases[k]
         /\ <<p, "dircleaned">> \in phases[1] => phases[1] \subseteq Pkg \X {"dircleaned"}
  <1> DEFINE phases == Phases(g, TRUE)
  <1>0. g.pkgs \subseteq Pkg /\ g.target \in Step \cup {"dircleaned"} \cup DOMAIN CleanFor
    BY DEF Goal
  <1>1. CASE g.target \notin DOMAIN CleanFor
    <2> DEFINE first == Closure(g.pkgs \X {g.target})
    <2>1. phases = <<first>>
      BY <1>1 DEF Phases
    <2> HIDE DEF first, phases
    <2>2. 1 \in DOMAIN phases /\ phases[1] = first
      BY <2>1
    <2>3. CASE g.target \in Step
      <3>1. \A q \in g.pkgs : Needs[<<q, g.target>>] \subseteq Pkg \X Step
        BY <1>0, <2>3, NeedsOfSteps
      <3>2. first \subseteq Pkg \X Step
        BY <3>1, ClosureOf DEF first
      <3>3. {"clean-for-rebuild", "dircleaned"} \cap Step = {}
        BY DEF Step, DepStep, InstallStep
      <3>4. <<p, "clean-for-rebuild">> \notin first /\ <<p, "dircleaned">> \notin first
        BY <3>2, <3>3
      <3> QED
        BY <2>2, <3>4 DEF phases
    <2>4. CASE g.target = "dircleaned"
      <3>1. \A q \in g.pkgs : Needs[<<q, g.target>>] = {<<q, "dircleaned">>}
        BY <1>0, <2>4, NeedsOfClean
      <3>2. first \subseteq Pkg \X {"dircleaned"}
        <4>1. ASSUME NEW n \in first PROVE n \in Pkg \X {"dircleaned"}
          <5>1. PICK q \in g.pkgs : n \in Needs[<<q, g.target>>]
            BY <4>1, ClosureOf DEF first
          <5> QED
            BY <1>0, <3>1, <5>1
        <4> QED
          BY <4>1
      <3>3. <<p, "clean-for-rebuild">> \notin first
        BY <3>2
      <3> QED
        BY <2>2, <3>2, <3>3 DEF phases
    <2> QED
      BY <1>0, <1>1, <2>3, <2>4
  <1>2. CASE g.target \in DOMAIN CleanFor
    <2> DEFINE c == CleanFor[g.target]
    <2> DEFINE first == Closure(g.pkgs \X {c})
    <2> DEFINE second == Closure(g.pkgs \X {"installed"})
    <2>1. phases = <<first, second>>
      BY <1>2 DEF Phases
    <2>2. c \in Clean
      BY <1>2 DEF CleanFor, Clean
    <2> HIDE DEF c, first, second, phases
    <2>3. {1, 2} \subseteq DOMAIN phases /\ phases[1] = first /\ phases[2] = second
      BY <2>1
    <2>4. \A q \in g.pkgs :
            /\ Needs[<<q, c>>] \subseteq {q} \X Clean
            /\ <<q, "clean-for-rebuild">> \in Needs[<<q, c>>] =>
                 <<q, "clean-for-reinstall">> \in Needs[<<q, c>>]
      <3> SUFFICES ASSUME NEW q \in g.pkgs
                   PROVE  /\ Needs[<<q, c>>] \subseteq {q} \X Clean
                          /\ <<q, "clean-for-rebuild">> \in Needs[<<q, c>>] =>
                               <<q, "clean-for-reinstall">> \in Needs[<<q, c>>]
        OBVIOUS
      <3>1. q \in Pkg
        BY <1>0
      <3> DEFINE a == <<q, "clean-for-reinstall">>
      <3> DEFINE b == <<q, "clean-for-rebuild">>
      <3> DEFINE d == <<q, "clean-for-reconfigure">>
      <3>2. /\ c = "clean-for-reinstall" => Needs[<<q, c>>] = {a}
            /\ c = "clean-for-rebuild" => Needs[<<q, c>>] = {b, a}
            /\ c = "clean-for-reconfigure" => Needs[<<q, c>>] = {d, b, a}
        BY <3>1, NeedsOfClean
      <3>3. {a, b, d} \subseteq {q} \X Clean /\ a # b
        BY DEF Clean
      <3>4. c \in {"clean-for-reinstall", "clean-for-rebuild", "clean-for-reconfigure"}
        BY <2>2 DEF Clean
      <3> HIDE DEF a, b, d
      <3>5. /\ Needs[<<q, c>>] \subseteq {q} \X Clean
            /\ b \in Needs[<<q, c>>] => a \in Needs[<<q, c>>]
        BY <3>2, <3>3, <3>4
      <3> QED
        BY <3>5 DEF a, b
    <2>5. first \subseteq Pkg \X Clean
      <3>1. ASSUME NEW n \in first PROVE n \in Pkg \X Clean
        <4>1. PICK q \in g.pkgs : n \in Needs[<<q, c>>]
          BY <3>1, ClosureOf DEF first
        <4> QED
          BY <1>0, <2>4, <4>1
      <3> QED
        BY <3>1
    <2>6. ASSUME <<p, "clean-for-rebuild">> \in first
          PROVE  <<p, "clean-for-reinstall">> \in first /\ <<p, "installed">> \in second
      <3>1. PICK q \in g.pkgs : <<p, "clean-for-rebuild">> \in Needs[<<q, c>>]
        BY <2>6, ClosureOf DEF first
      <3>2. q = p
        BY <2>4, <3>1
      <3>3. <<p, "clean-for-reinstall">> \in Needs[<<q, c>>]
        BY <2>4, <3>1, <3>2
      <3>4. <<p, "clean-for-reinstall">> \in Node /\ <<p, "installed">> \in Node
        BY DEF Node, Clean, Step
      <3>5. <<p, "installed">> \in Needs[<<p, "installed">>]
        BY <3>4, NeedsEquation
      <3> QED
        BY <3>1, <3>2, <3>3, <3>4, <3>5, ClosureOf DEF first, second
    <2>7. "dircleaned" \notin Clean
      BY DEF Clean
    <2>8. <<p, "dircleaned">> \notin first
      BY <2>5, <2>7
    <2> QED
      BY <2>3, <2>5, <2>6, <2>8 DEF phases
  <1> QED
    BY <1>1, <1>2

\* The plan of a command whose goals are done in turn.
LEMMA MakeFirstIsClean ==
  ASSUME NEW command \in Commands, NEW j \in BOOLEAN, Make(command, j)
  PROVE  FirstIsClean'
  <1> SUFFICES ASSUME InTurn', NEW p \in Pkg
               PROVE  /\ plan' # <<>> => 1 \in DOMAIN plan'[1]
                      /\ <<p, "clean-for-rebuild">> \in AskedFirst' =>
                           /\ AskedFirst' \subseteq Pkg \X Clean
                           /\ <<p, "clean-for-reinstall">> \in AskedFirst'
                           /\ <<p, "installed">> \in Asked'
                      /\ <<p, "dircleaned">> \in AskedFirst' =>
                           AskedFirst' \subseteq Pkg \X {"dircleaned"}
    BY DEF FirstIsClean
  <1>1. command \in Seq(Goal)
    BY ConstantsAssumption
  <1>2. WaitIsSpecial \/ ~j
    BY DEF InTurn, Make
  <1>3. (WaitIsSpecial \/ ~j) = TRUE
    BY <1>2
  <1>4. plan' = [i \in DOMAIN command |-> Phases(command[i], TRUE)]
    BY <1>3 DEF Make
  <1>5. DOMAIN command = 1..Len(command) /\ Len(command) \in Nat
    BY <1>1
  <1>6. CASE Len(command) = 0
    <2>1. plan' = <<>>
      BY <1>4, <1>5, <1>6
    <2> QED
      BY <2>1 DEF AskedFirst
  <1>7. CASE Len(command) # 0
    <2>0. 1 \in DOMAIN command /\ command[1] \in Goal
      BY <1>1, <1>5, <1>7
    <2> DEFINE phases == Phases(command[1], TRUE)
    <2>1. 1 \in DOMAIN plan' /\ plan'[1] = phases
      BY <1>4, <2>0
    <2>. HIDE DEF phases
    <2>2. AskedFirst' = phases[1]
      BY <2>1 DEF AskedFirst
    <2>3. \A k \in DOMAIN phases : phases[k] \subseteq Asked'
      BY <2>1 DEF Asked
    <2> QED
      BY <2>0, <2>1, <2>2, <2>3, FirstPhase DEF phases
  <1> QED
    BY <1>5, <1>6, <1>7

-----------------------------------------------------------------------------
(* The steps of make, as far as the invariants see them.                    *)

\* A recipe of the step s of p begins.
Starts(p, s) ==
  /\ s \in StepsOf[p] /\ CanVisit(<<p, s>>) /\ stamp[p][s] # "fresh"
  /\ running' = running \cup {<<p, s>>}
  /\ UNCHANGED <<stamp, torn, status, jobs, plan, kept, made, left, settled>>
  /\ s \notin {"rsynced", "built"} => UNCHANGED edited
  /\ s = "rsynced" =>
       edited' = [edited EXCEPT ![p] = IF @ = "source" THEN "tree" ELSE @]
  /\ s = "built" => edited' = [edited EXCEPT ![p] = IF @ = "tree" THEN "no" ELSE @]
  /\ s \notin InstallStep \cup {"configured", "installed"} =>
       UNCHANGED <<snapshot, since, list>>
  /\ s = "configured" =>
       /\ snapshot' = snapshot \cup {p} /\ since' = [since EXCEPT ![p] = {}]
       /\ UNCHANGED list
  /\ s \in InstallStep =>
       /\ since' = [q \in Pkg |-> IF q \in Watching(p) \cap snapshot
                                 THEN since[q] \cup {<<p, s>>} ELSE since[q]]
       /\ UNCHANGED <<snapshot, list>>
  /\ s = "installed" =>
       /\ list' = [list EXCEPT ![p] = IF p \in snapshot THEN since[p] ELSE {}]
       /\ snapshot' = snapshot \ {p} /\ since' = [since EXCEPT ![p] = {}]

\* A patch is applied, or recipes or the command end without a result.
Ends ==
  /\ UNCHANGED <<stamp, snapshot, since, list, edited, torn, jobs, plan, kept, made,
                 settled>>
  /\ running' \subseteq running
  /\ \/ left' = left /\ running \cap (Pkg \X Clean) \subseteq running'
     \/ left' = [p \in Pkg |-> <<>>] /\ running' = {}
  /\ Active' => Active
  /\ status' = "running" => status = "running" /\ running' = running

LEMMA StartStepStarts ==
  ASSUME NEW p \in Pkg, StartStep(p) PROVE \E s \in Step : Starts(p, s)
  <1> USE DEF Starts, StartRecipe, Step, DepStep, InstallStep
  <1>1. CASE StartDownload(p)
    <2>1. Starts(p, "downloaded")
      BY <1>1 DEF StartDownload
    <2> QED
      BY <2>1
  <1>2. CASE StartExtract(p)
    <2>1. Starts(p, "extracted")
      BY <1>2 DEF StartExtract
    <2> QED
      BY <2>1
  <1>3. CASE StartRsync(p)
    <2>1. Starts(p, "rsynced")
      BY <1>3 DEF StartRsync
    <2> QED
      BY <2>1
  <1>4. CASE StartPatch(p)
    <2>1. Starts(p, "patched")
      BY <1>4 DEF StartPatch
    <2> QED
      BY <2>1
  <1>5. CASE StartConfigure(p)
    <2>1. Starts(p, "configured")
      BY <1>5 DEF StartConfigure
    <2> QED
      BY <2>1
  <1>6. CASE StartBuild(p)
    <2>1. Starts(p, "built")
      BY <1>6 DEF StartBuild
    <2> QED
      BY <2>1
  <1>7. CASE StartFinalInstall(p)
    <2>1. Starts(p, "installed")
      BY <1>7 DEF StartFinalInstall
    <2> QED
      BY <2>1
  <1>8. ASSUME NEW s \in InstallStep, StartInstall(p, s) PROVE \E t \in Step : Starts(p, t)
    <2>1. Starts(p, s)
      BY <1>8 DEF StartInstall
    <2> QED
      BY <2>1
  <1> QED
    BY <1>1, <1>2, <1>3, <1>4, <1>5, <1>6, <1>7, <1>8 DEF StartStep

\* One of these happens in every step but the beginning of a command.
LEMMA StepKinds ==
  ASSUME TypeOK, [Next]_vars, ~(\E command \in Commands, j \in BOOLEAN : Make(command, j))
  PROVE  \/ Ends
         \/ \E p \in Pkg : \/ Edit(p) \/ RemoveStamp(p) \/ StartDirclean(p)
                           \/ RemoveSome(p) \/ FinishDirclean(p)
                           \/ \E s \in Step : Starts(p, s)
                           \/ \E s \in StepsOf[p] : Keep(p, s) \/ FinishRecipe(p, s)
                           \/ \E c \in Clean : StartClean(p, c) \/ FinishClean(p, c)
  <1>1. ASSUME NEW p \in Pkg, ApplyPatch(p) PROVE Ends
    BY <1>1 DEF ApplyPatch, Ends, Active
  <1>2. ASSUME NEW p \in Pkg, RefusePatch(p) PROVE Ends
    BY <1>2 DEF RefusePatch, CanVisit, Ends, files, Active
  <1>3. ASSUME NEW p \in Pkg, CheckBinArchFails(p) PROVE Ends
    <2>1. "installed" \notin Clean
      BY DEF Clean
    <2> QED
      BY <1>3, <2>1 DEF CheckBinArchFails, Ends, files, Active
  <1>4. ASSUME NEW p \in Pkg, NEW s \in StepsOf[p], FailRecipe(p, s) PROVE Ends
    <2>1. s \notin Clean
      BY StepsOfType DEF Clean, Step, DepStep, InstallStep
    <2> QED
      BY <1>4, <2>1 DEF FailRecipe, Ends, files, Active
  <1>5. CASE Succeed
    BY <1>5 DEF Succeed, Ends, files, Active
  <1>6. CASE GiveUp
    BY <1>6 DEF GiveUp, Ends, files, Active
  <1>7. CASE Kill
    BY <1>7 DEF Kill, Ends, files, Active
  <1>8. CASE UNCHANGED vars
    BY <1>8 DEF Ends, vars, files, make, Active
  <1> QED
    BY <1>1, <1>2, <1>3, <1>4, <1>5, <1>6, <1>7, <1>8, StartStepStarts
    DEF Next, User, Progress

\* make decides on a target that was asked for, when all before it is done.
LEMMA VisitFacts ==
  ASSUME NEW n, CanVisit(n)
  PROVE  n \in Asked /\ n \notin Done \cup running /\ Pre[n] \subseteq Done
         /\ status = "running"
  BY DEF CanVisit, Wanted, Asked

\* Where goals are done in turn, a first one that cleans is over before make
\* decides on any step.
LEMMA VisitInTurn ==
  ASSUME FirstIsClean, InTurn, NEW q \in Pkg, Cleans(q) \cap AskedFirst # {},
         TypeOK, NEW p, NEW s \in Step, CanVisit(<<p, s>>)
  PROVE  AskedFirst \subseteq Done
  <1>1. plan # <<>> /\ AskedFirst = plan[1][1] /\ plan \in Seq(Seq(SUBSET Node))
    BY DEF AskedFirst, TypeOK
  <1>2. 1 \in DOMAIN plan /\ DOMAIN plan = 1..Len(plan) /\ Len(plan) \in Nat
    BY <1>1
  <1>3. plan[1] \in Seq(SUBSET Node)
    BY <1>1, <1>2
  <1>4. PICK i \in DOMAIN plan :
          /\ jobs \/ \A h \in 1..(i - 1) : Complete(h)
          /\ \E k \in DOMAIN plan[i] : <<p, s>> \in plan[i][k] /\ Reached(i, k)
    BY DEF CanVisit, Wanted
  <1>5. <<p, s>> \notin AskedFirst
    <2>1. s \notin Clean \cup {"dircleaned"}
      BY DEF Clean, Step, DepStep, InstallStep
    <2>2. AskedFirst \subseteq Pkg \X Clean \/ AskedFirst \subseteq Pkg \X {"dircleaned"}
      BY DEF FirstIsClean, Cleans
    <2> QED
      BY <2>1, <2>2
  <1>6. 1 \in DOMAIN plan[1]
    BY <1>1 DEF FirstIsClean
  <1>7. CASE i = 1
    <2>1. PICK k \in DOMAIN plan[1] : <<p, s>> \in plan[1][k] /\ Reached(1, k)
      BY <1>4, <1>7
    <2>2. k # 1
      BY <1>1, <1>5, <2>1
    <2>3. 1 \in 1..(k - 1)
      BY <1>3, <2>1, <2>2
    <2> QED
      BY <1>1, <2>1, <2>3 DEF Reached
  <1>8. CASE i # 1
    <2>1. 1 \in 1..(i - 1) /\ ~(Len(plan) = 1)
      BY <1>2, <1>4, <1>8
    <2>2. Complete(1)
      BY <1>4, <2>1 DEF InTurn
    <2> QED
      BY <1>1, <1>6, <2>2 DEF Complete
  <1> QED
    BY <1>7, <1>8

\* What was asked for does not change while a command runs.
LEMMA SamePlan ==
  ASSUME UNCHANGED <<plan, jobs>>
  PROVE  Asked' = Asked /\ AskedFirst' = AskedFirst /\ (InTurn' <=> InTurn)
         /\ (FirstIsClean => FirstIsClean')
  <1>1. Asked' = Asked /\ AskedFirst' = AskedFirst /\ (InTurn' <=> InTurn)
    BY DEF Asked, AskedFirst, InTurn
  <1> QED
    BY <1>1 DEF FirstIsClean

LEMMA MakeFacts ==
  ASSUME TypeOK, NEW command, NEW j, Make(command, j)
  PROVE  /\ running = {} /\ running' = {} /\ kept' = {} /\ made' = {} /\ Done' = {}
         /\ status' = "running" /\ settled' = {p \in Pkg : AllFresh(p)}
         /\ UNCHANGED <<stamp, snapshot, since, list, edited, left>>
  BY DEF TypeOK, Make, Done, Active

\* Only its own recipe gives a step a stamp that make would keep.
LEMMA RemadeStays ==
  ASSUME TypeOK, NEW q \in Pkg, NEW u \in Step, Remade(q, u), [Next]_vars,
         ~(\E command \in Commands, j \in BOOLEAN : Make(command, j))
  PROVE  Remade(q, u)' /\ made \subseteq made' /\ UNCHANGED <<plan, jobs, settled>>
  <1>1. CASE Ends
    BY <1>1 DEF Ends, Remade
  <1>2. ASSUME NEW p \in Pkg, Edit(p) \/ StartDirclean(p) \/ \E s \in Step : Starts(p, s)
        PROVE  Remade(q, u)' /\ made \subseteq made' /\ UNCHANGED <<plan, jobs, settled>>
    BY <1>2 DEF Edit, StartDirclean, Starts, make, Remade
  <1>3. ASSUME NEW p \in Pkg, RemoveStamp(p)
        PROVE  Remade(q, u)' /\ made \subseteq made' /\ UNCHANGED <<plan, jobs, settled>>
    <2> DEFINE h == Head(left[p])
    <2>0. stamp' = [stamp EXCEPT ![p][h] = "absent"] /\ h \in Step
      BY <1>3 DEF RemoveStamp, TypeOK
    <2> HIDE DEF h
    <2>1. stamp'[q][u] \in {stamp[q][u], "absent"}
      BY <2>0 DEF TypeOK
    <2> QED
      BY <1>3, <2>1 DEF RemoveStamp, Remade
  <1>4. ASSUME NEW p \in Pkg, RemoveSome(p)
        PROVE  Remade(q, u)' /\ made \subseteq made' /\ UNCHANGED <<plan, jobs, settled>>
    <2>1. ASSUME NEW s \in StepsOf[p], stamp' = [stamp EXCEPT ![p][s] = "absent"]
          PROVE  stamp'[q][u] = "fresh" => stamp[q][u] = "fresh"
      <3>1. s \in Step
        BY StepsOfType
      <3> QED
        BY <2>1, <3>1 DEF TypeOK
    <2>2. stamp'[q][u] = "fresh" => stamp[q][u] = "fresh"
      <3>1. \/ \E s \in StepsOf[p] : stamp' = [stamp EXCEPT ![p][s] = "absent"]
            \/ stamp' = stamp
        BY <1>4 DEF RemoveSome
      <3> QED
        BY <2>1, <3>1
    <2> QED
      BY <1>4, <2>2 DEF RemoveSome, make, Remade
  <1>5. ASSUME NEW p \in Pkg, FinishDirclean(p)
        PROVE  Remade(q, u)' /\ made \subseteq made' /\ UNCHANGED <<plan, jobs, settled>>
    <2>1. stamp'[q][u] \in {stamp[q][u], "absent"}
      BY <1>5 DEF FinishDirclean, TypeOK
    <2> QED
      BY <1>5, <2>1 DEF FinishDirclean, Remade
  <1>6. ASSUME NEW p \in Pkg, NEW s \in StepsOf[p], Keep(p, s)
        PROVE  Remade(q, u)' /\ made \subseteq made' /\ UNCHANGED <<plan, jobs, settled>>
    BY <1>6 DEF Keep, files, Remade
  <1>7. ASSUME NEW p \in Pkg, NEW s \in StepsOf[p], FinishRecipe(p, s)
        PROVE  Remade(q, u)' /\ made \subseteq made' /\ UNCHANGED <<plan, jobs, settled>>
    <2>1. stamp'[q][u] = "fresh" => stamp[q][u] = "fresh" \/ (q = p /\ u = s)
      BY <1>7 DEF FinishRecipe, Touch, TypeOK
    <2> QED
      BY <1>7, <2>1 DEF FinishRecipe, Remade
  <1>8. ASSUME NEW p \in Pkg, NEW c \in Clean, StartClean(p, c) \/ FinishClean(p, c)
        PROVE  Remade(q, u)' /\ made \subseteq made' /\ UNCHANGED <<plan, jobs, settled>>
    BY <1>8 DEF StartClean, FinishClean, files, Remade
  <1> QED
    BY <1>1, <1>2, <1>3, <1>4, <1>5, <1>6, <1>7, <1>8, StepKinds

-----------------------------------------------------------------------------
(* Real steps.                                                              *)

LEMMA OnlyRealStepsStep ==
  ASSUME TypeOK, OnlyRealSteps, [Next]_vars PROVE OnlyRealSteps'
  <1>1. ASSUME NEW command, NEW j, Make(command, j) PROVE OnlyRealSteps'
    BY <1>1, MakeFacts DEF OnlyRealSteps
  <1> SUFFICES ASSUME ~(\E command \in Commands, j \in BOOLEAN : Make(command, j))
               PROVE  OnlyRealSteps'
    BY <1>1
  <1>2. CASE Ends
    <2>1. Asked' = Asked /\ Done' = Done
      BY <1>2, SamePlan DEF Ends, Done
    <2> QED
      BY <1>2, <2>1 DEF Ends, OnlyRealSteps
  <1> DEFINE New(n) == /\ Asked' = Asked
                       /\ running' \cup Done' \subseteq running \cup Done \cup {n}
                       /\ running' \subseteq running \cup {n}
                       /\ n \in Asked \/ running' \subseteq running
                       /\ n[2] \in Step => n[2] \in StepsOf[n[1]]
                       /\ \A m \in kept' : m[2] \in Step
  <1>3. ASSUME NEW n, New(n) PROVE OnlyRealSteps'
    BY <1>3 DEF OnlyRealSteps
  <1>4. ASSUME NEW p \in Pkg, Edit(p) \/ RemoveStamp(p) \/ RemoveSome(p) PROVE OnlyRealSteps'
    <2>1. Asked' = Asked /\ UNCHANGED <<running, kept, made>>
      BY <1>4, SamePlan DEF Edit, RemoveStamp, RemoveSome, make
    <2> QED
      BY <2>1 DEF OnlyRealSteps, Done
  <1>5. ASSUME NEW p \in Pkg, StartDirclean(p) \/ FinishDirclean(p) PROVE OnlyRealSteps'
    <2> DEFINE n == <<p, "dircleaned">>
    <2>1. n[2] \notin Step
      BY DEF Step, DepStep, InstallStep
    <2>2. Asked' = Asked /\ UNCHANGED kept
      BY <1>5, SamePlan DEF StartDirclean, FinishDirclean
    <2>3. n \in Asked \/ running' \subseteq running
      BY <1>5, VisitFacts DEF StartDirclean, FinishDirclean
    <2>4. New(n)
      BY <1>5, <2>1, <2>2, <2>3 DEF StartDirclean, FinishDirclean, Done, OnlyRealSteps
    <2> QED
      BY <1>3, <2>4
  <1>6. ASSUME NEW p \in Pkg, NEW s \in Step, Starts(p, s) PROVE OnlyRealSteps'
    <2> DEFINE n == <<p, s>>
    <2>1. n \in Asked /\ Asked' = Asked
      BY <1>6, VisitFacts, SamePlan DEF Starts
    <2>2. New(n)
      BY <1>6, <2>1 DEF Starts, Done, OnlyRealSteps
    <2> QED
      BY <1>3, <2>2
  <1>7. ASSUME NEW p \in Pkg, NEW s \in StepsOf[p], Keep(p, s) \/ FinishRecipe(p, s)
        PROVE  OnlyRealSteps'
    <2> DEFINE n == <<p, s>>
    <2>1. s \in Step
      BY StepsOfType
    <2>2. Asked' = Asked
      BY <1>7, SamePlan DEF Keep, FinishRecipe
    <2>3. running' \subseteq running
          /\ running' \cup Done' \subseteq running \cup Done \cup {n}
      BY <1>7 DEF Keep, FinishRecipe, Done
    <2>4. kept' \subseteq kept \cup {n}
      BY <1>7 DEF Keep, FinishRecipe
    <2>5. New(n)
      BY <2>1, <2>2, <2>3, <2>4 DEF OnlyRealSteps
    <2> QED
      BY <1>3, <2>5
  <1>8. ASSUME NEW p \in Pkg, NEW c \in Clean, StartClean(p, c) \/ FinishClean(p, c)
        PROVE  OnlyRealSteps'
    <2> DEFINE n == <<p, c>>
    <2>1. n[2] \notin Step
      BY DEF Clean, Step, DepStep, InstallStep
    <2>2. Asked' = Asked /\ UNCHANGED kept
      BY <1>8, SamePlan DEF StartClean, FinishClean
    <2>3. n \in Asked \/ running' \subseteq running
      BY <1>8, VisitFacts DEF StartClean, FinishClean
    <2>4. New(n)
      BY <1>8, <2>1, <2>2, <2>3 DEF StartClean, FinishClean, Done, OnlyRealSteps
    <2> QED
      BY <1>3, <2>4
  <1> QED
    BY <1>2, <1>4, <1>5, <1>6, <1>7, <1>8, StepKinds

-----------------------------------------------------------------------------
(* What comes after a step that was remade.                                 *)

LEMMA RemadeAfterStep ==
  ASSUME IndInv, RemadeAfter, [Next]_vars PROVE RemadeAfter'
  <1> USE DEF IndInv
  <1>1. ASSUME NEW command, NEW j, Make(command, j) PROVE RemadeAfter'
    BY <1>1, MakeFacts DEF RemadeAfter
  <1> SUFFICES ASSUME ~(\E command \in Commands, j \in BOOLEAN : Make(command, j)),
                      NEW q \in Pkg, NEW t \in StepsOf[q], NEW u \in Prereq[q][t],
                      <<q, u>> \in made'
               PROVE  <<q, t>> \notin kept' /\ Remade(q, t)'
    BY <1>1 DEF RemadeAfter
  <1>2. t \in Step /\ u \in Step
    BY StepsOfType, PrereqType
  <1>3. CASE kept' = kept /\ <<q, u>> \in made
    BY <1>2, <1>3, RemadeStays DEF RemadeAfter
  <1>4. ASSUME NEW p \in Pkg, NEW s \in StepsOf[p], Keep(p, s)
        PROVE  <<q, t>> \notin kept' /\ Remade(q, t)'
    <2>1. kept' = kept \cup {<<p, s>>} /\ made' = made /\ stamp[p][s] = "fresh"
          /\ <<p, s>> \notin Done
      BY <1>4, VisitFacts DEF Keep
    <2>2. <<q, t>> \notin kept /\ Remade(q, t)
      BY <2>1 DEF RemadeAfter
    <2>3. <<q, t>> # <<p, s>>
      BY <2>1, <2>2 DEF Remade, Done
    <2> QED
      BY <1>2, <2>1, <2>2, <2>3, RemadeStays
  <1>5. ASSUME NEW p \in Pkg, NEW s \in StepsOf[p], FinishRecipe(p, s)
        PROVE  <<q, t>> \notin kept' /\ Remade(q, t)'
    <2>1. kept' = kept /\ made' = made \cup {<<p, s>>} /\ <<p, s>> \in running
      BY <1>5 DEF FinishRecipe
    <2>2. CASE <<q, u>> \in made
      BY <1>3, <2>1, <2>2
    <2>3. CASE q = p /\ u = s
      <3>1. <<p, s>> \notin Done
        BY <2>1 DEF RunningIsNext
      <3>2. <<q, t>> \notin Done
        BY <1>2, <2>3, <3>1, PrereqDone DEF DoneIsGood
      <3>3. stamp'[q][t] = "fresh" => t = s
        BY <1>2, <1>5, <2>3 DEF FinishRecipe, Touch, TypeOK
      <3> QED
        BY <2>1, <2>3, <3>2, <3>3 DEF Done, Remade
    <2> QED
      BY <2>1, <2>2, <2>3
  <1>6. ASSUME NEW p \in Pkg, FinishDirclean(p) PROVE kept' = kept /\ <<q, u>> \in made
    <2>1. u # "dircleaned"
      BY <1>2 DEF Step, DepStep, InstallStep
    <2> QED
      BY <1>6, <2>1 DEF FinishDirclean
  <1>7. ASSUME NEW p \in Pkg, NEW c \in Clean, FinishClean(p, c)
        PROVE  kept' = kept /\ <<q, u>> \in made
    <2>1. u # c
      BY <1>2 DEF Clean, Step, DepStep, InstallStep
    <2> QED
      BY <1>7, <2>1 DEF FinishClean
  <1>8. CASE Ends
    BY <1>3, <1>8 DEF Ends
  <1>9. ASSUME NEW p \in Pkg, \/ Edit(p) \/ RemoveStamp(p) \/ RemoveSome(p) \/ StartDirclean(p)
                              \/ \E s \in Step : Starts(p, s)
                              \/ \E c \in Clean : StartClean(p, c)
        PROVE  kept' = kept /\ <<q, u>> \in made
    BY <1>9 DEF Edit, RemoveStamp, RemoveSome, StartDirclean, Starts, StartClean, make
  <1> QED
    BY <1>3, <1>4, <1>5, <1>6, <1>7, <1>8, <1>9, StepKinds

-----------------------------------------------------------------------------
(* What the clean recipes remove.                                           *)

LEMMA PreOfClean ==
  ASSUME NEW p \in Pkg, NEW c \in Clean
  PROVE  Pre[<<p, c>>] = {p} \X CleanPrereq(c)
  <1>1. <<p, c>> \in Node /\ c \notin Step
    BY DEF Node, Clean, Step, DepStep, InstallStep
  <1> QED
    BY <1>1 DEF Pre

\* The clean recipes of a package come one after the other.
LEMMA OneCleanAtATime ==
  ASSUME IndInv, NEW p \in Pkg, NEW c \in Clean, NEW d \in Clean,
         <<p, c>> \notin Done, <<p, d>> \notin Done,
         Pre[<<p, c>>] \subseteq Done, Pre[<<p, d>>] \subseteq Done
  PROVE  c = d
  <1> DEFINE a == <<p, "clean-for-reinstall">>
  <1> DEFINE b == <<p, "clean-for-rebuild">>
  <1>1. c = "clean-for-rebuild" \/ d = "clean-for-rebuild" => a \in Done
    BY PreOfClean DEF CleanPrereq
  <1>2. c = "clean-for-reconfigure" \/ d = "clean-for-reconfigure" => b \in Done
    BY PreOfClean DEF CleanPrereq
  <1>3. b \in Done => a \in Done
    <2>1. b[2] \in Clean /\ Pre[b] = {p} \X CleanPrereq("clean-for-rebuild")
      BY PreOfClean DEF Clean
    <2> QED
      BY <2>1 DEF IndInv, DoneIsGood, CleanPrereq
  <1> QED
    BY <1>1, <1>2, <1>3 DEF Clean

\* The stamps a clean recipe removes first are the ones that matter.
LEMMA FirstRemoval ==
  ASSUME NEW p
  PROVE  /\ Removals(p, "clean-for-rebuild") = <<"built">>
         /\ <<"built">> # <<>> /\ Head(<<"built">>) = "built"
         /\ p \in Override => /\ Removals(p, "clean-for-reinstall") # <<>>
                              /\ Head(Removals(p, "clean-for-reinstall")) = "rsynced"
  <1> DEFINE install == <<"installed", "staging_installed", "target_installed",
                          "images_installed", "host_installed">>
  <1>1. install \in Seq(Step) /\ <<"rsynced">> \in Seq(Step)
    <2>1. install \in Seq(Step)
      BY DEF Step, InstallStep
    <2>2. <<"rsynced">> \in Seq(Step)
      BY DEF Step
    <2> QED
      BY <2>1, <2>2
  <1>2. p \in Override => Removals(p, "clean-for-reinstall") = <<"rsynced">> \o install
    BY DEF Removals
  <1>3. Len(<<"rsynced">>) = 1 /\ <<"rsynced">>[1] = "rsynced"
    OBVIOUS
  <1> DEFINE r == <<"rsynced">>
  <1> HIDE DEF install, r
  <1>4. r \o install # <<>> /\ Head(r \o install) = r[1]
    BY <1>1, <1>3 DEF r
  <1> QED
    BY <1>2, <1>3, <1>4 DEF Removals, r

LEMMA CleanedIsGoneStep ==
  ASSUME IndInv, CleanedIsGone, [Next]_vars PROVE CleanedIsGone'
  <1> USE DEF IndInv
  <1>0. {"clean-for-reinstall", "clean-for-rebuild"} \subseteq Clean
        /\ Clean \cap (Step \cup {"dircleaned"}) = {} /\ "dircleaned" \notin Step
        /\ {"built", "rsynced"} \subseteq Step
    BY DEF Clean, Step, DepStep, InstallStep
  <1>1. ASSUME NEW command, NEW j, Make(command, j) PROVE CleanedIsGone'
    BY <1>1, MakeFacts DEF CleanedIsGone, Gone, LeftIsBeingRemoved, CleaningRemoves, CleanedStaysGone
  <1> SUFFICES ASSUME ~(\E command \in Commands, j \in BOOLEAN : Make(command, j)),
                      NEW q \in Pkg
               PROVE  Gone(q)'
    BY <1>1 DEF CleanedIsGone
  <1>2. LeftIsBeingRemoved(q) /\ CleaningRemoves(q) /\ CleanedStaysGone(q)
    BY DEF CleanedIsGone, Gone
  <1>3. /\ Remade(q, "built") => Remade(q, "built")'
        /\ Remade(q, "rsynced") => Remade(q, "rsynced")'
        /\ (\A s \in Step : Remade(q, s)) => \A s \in Step : Remade(q, s)'
    BY <1>0, RemadeStays
  <1> DEFINE SameClean(S, T) == \A c \in Clean \cup {"dircleaned"} : <<q, c>> \in S <=> <<q, c>> \in T
  <1>4. ASSUME left'[q] = left[q], SameClean(made, made'),
               \A c \in Clean : <<q, c>> \in running <=> <<q, c>> \in running'
        PROVE  Gone(q)'
    BY <1>0, <1>2, <1>3, <1>4 DEF Gone, LeftIsBeingRemoved, CleaningRemoves, CleanedStaysGone
  <1>5. ASSUME Ends PROVE Gone(q)'
    <2> USE DEF Gone, LeftIsBeingRemoved, CleaningRemoves, CleanedStaysGone
    <2>1. made' = made
      BY <1>5 DEF Ends
    <2>2. CASE left' = left /\ running \cap (Pkg \X Clean) \subseteq running'
      BY <1>4, <1>5, <2>1, <2>2 DEF Ends
    <2>3. CASE left' = [p \in Pkg |-> <<>>] /\ running' = {}
      BY <1>2, <1>3, <2>1, <2>3
    <2> QED
      BY <1>5, <2>2, <2>3 DEF Ends
  <1>6. ASSUME NEW p \in Pkg, Edit(p) \/ RemoveSome(p) PROVE Gone(q)'
    BY <1>4, <1>6 DEF Edit, RemoveSome, make
  <1>7. ASSUME NEW p \in Pkg, NEW s \in Step, Starts(p, s) PROVE Gone(q)'
    BY <1>0, <1>4, <1>7 DEF Starts
  <1>8. ASSUME NEW p \in Pkg, NEW s \in StepsOf[p], Keep(p, s) \/ FinishRecipe(p, s)
        PROVE  Gone(q)'
    <2>1. s \in Step
      BY StepsOfType
    <2> QED
      BY <1>0, <1>4, <1>8, <2>1 DEF Keep, FinishRecipe
  <1>9. ASSUME NEW p \in Pkg, RemoveStamp(p) PROVE Gone(q)'
    <2> USE DEF Gone, LeftIsBeingRemoved, CleaningRemoves, CleanedStaysGone
    <2>1. CASE p # q
      BY <1>4, <1>9, <2>1 DEF RemoveStamp, TypeOK
    <2>2. CASE p = q
      <3>1. /\ left[q] # <<>> /\ UNCHANGED <<running, made>>
            /\ stamp'[q][Head(left[q])] = "absent"
        <4>1. Head(left[q]) \in Step
          BY <1>9, <2>2 DEF RemoveStamp, TypeOK
        <4> DEFINE h == Head(left[q])
        <4> HIDE DEF h
        <4>2. stamp' = [stamp EXCEPT ![q][h] = "absent"] /\ h \in Step
          BY <1>9, <2>2, <4>1 DEF RemoveStamp, h
        <4>3. stamp'[q][h] = "absent"
          BY <4>2 DEF TypeOK
        <4> QED
          BY <1>9, <2>2, <4>3 DEF RemoveStamp, h
      <3>2. left[q] = <<"built">> => Remade(q, "built")'
        BY <3>1, FirstRemoval DEF Remade
      <3>3. q \in Override /\ left[q] = Removals(q, "clean-for-reinstall")
              => Remade(q, "rsynced")'
        BY <3>1, FirstRemoval DEF Remade
      <3> QED
        BY <1>2, <1>3, <3>1, <3>2, <3>3
    <2> QED
      BY <2>1, <2>2
  <1>10. ASSUME NEW p \in Pkg, NEW c \in Clean, StartClean(p, c) PROVE Gone(q)'
    <2> USE DEF Gone, LeftIsBeingRemoved, CleaningRemoves, CleanedStaysGone
    <2>0. /\ left' = [left EXCEPT ![p] = Removals(p, c)] /\ made' = made
          /\ running' = running \cup {<<p, c>>}
      BY <1>10 DEF StartClean
    <2>1. CASE p # q
      BY <1>4, <2>0, <2>1 DEF TypeOK
    <2>2. CASE p = q
      <3>1. left'[q] = Removals(q, c)
        BY <2>0, <2>2 DEF TypeOK
      <3>2. \A d \in Clean : <<q, d>> \in running' => d = c
        <4>1. <<q, c>> \notin Done /\ <<q, c>> \notin running /\ Pre[<<q, c>>] \subseteq Done
          BY <1>10, <2>2, VisitFacts DEF StartClean
        <4>2. \A d \in Clean : <<q, d>> \in running =>
                <<q, d>> \notin Done /\ Pre[<<q, d>>] \subseteq Done
          BY DEF RunningIsNext
        <4> QED
          BY <2>0, <2>2, <4>1, <4>2, OneCleanAtATime
      <3>3. LeftIsBeingRemoved(q)'
        BY <2>0, <2>2
      <3>4. CleaningRemoves(q)'
        BY <1>0, <3>1, <3>2, FirstRemoval
      <3> QED
        BY <1>2, <1>3, <2>0, <3>3, <3>4
    <2> QED
      BY <2>1, <2>2
  <1>11. ASSUME NEW p \in Pkg, NEW c \in Clean, FinishClean(p, c) PROVE Gone(q)'
    <2> USE DEF Gone, LeftIsBeingRemoved, CleaningRemoves, CleanedStaysGone
    <2>0. /\ left' = left /\ made' = made \cup {<<p, c>>} /\ left[p] = <<>>
          /\ running' = running \ {<<p, c>>} /\ <<p, c>> \in running
      BY <1>11 DEF FinishClean
    <2>1. CASE p # q
      BY <1>4, <2>0, <2>1
    <2>2. CASE p = q
      <3>1. c = "clean-for-rebuild" => Remade(q, "built")
        BY <1>2, <2>0, <2>2, FirstRemoval
      <3>2. c = "clean-for-reinstall" /\ q \in Override => Remade(q, "rsynced")
        BY <1>2, <2>0, <2>2, FirstRemoval
      <3>3. CleanedStaysGone(q)'
        BY <1>0, <1>2, <1>3, <2>0, <3>1, <3>2
      <3>4. LeftIsBeingRemoved(q)'
        BY <2>0, <2>2
      <3>5. CleaningRemoves(q)'
        BY <1>2, <1>3, <2>0
      <3> QED
        BY <3>3, <3>4, <3>5
    <2> QED
      BY <2>1, <2>2
  <1>12. ASSUME NEW p \in Pkg, StartDirclean(p) PROVE Gone(q)'
    BY <1>0, <1>4, <1>12 DEF StartDirclean
  <1>13. ASSUME NEW p \in Pkg, FinishDirclean(p) PROVE Gone(q)'
    <2> USE DEF Gone, LeftIsBeingRemoved, CleaningRemoves, CleanedStaysGone
    <2>0. /\ left' = left /\ made' = made \cup {<<p, "dircleaned">>}
          /\ running' = running \ {<<p, "dircleaned">>}
      BY <1>13 DEF FinishDirclean
    <2>1. \A c \in Clean : <<q, c>> \in running <=> <<q, c>> \in running'
      BY <1>0, <2>0
    <2>2. CASE p # q
      BY <1>4, <2>0, <2>1, <2>2
    <2>3. CASE p = q
      <3>1. \A s \in Step : stamp'[q][s] = "absent"
        BY <1>13, <2>3 DEF FinishDirclean, TypeOK
      <3>2. \A s \in Step : Remade(q, s)'
        BY <3>1 DEF Remade
      <3> QED
        BY <1>0, <1>2, <2>0, <2>1, <3>2
    <2> QED
      BY <2>2, <2>3
  <1> QED
    BY <1>5, <1>6, <1>7, <1>8, <1>9, <1>10, <1>11, <1>12, <1>13, StepKinds

-----------------------------------------------------------------------------
(* The first goal.                                                          *)

\* What a command has been through stays so until it ends; what is new there,
\* make has just decided on.
LEMMA CommandGoesOn ==
  ASSUME TypeOK, [Next]_vars, ~(\E command \in Commands, j \in BOOLEAN : Make(command, j))
  PROVE  /\ UNCHANGED <<plan, jobs, settled>>
         /\ kept \subseteq kept' /\ made \subseteq made' /\ made' \subseteq made \cup running
         /\ \A n \in (running' \cup Done') \ (running \cup Done) : CanVisit(n)
         /\ \A n \in kept' \ kept : CanVisit(n) /\ n \in running' \cup Done'
                                     /\ stamp[n[1]][n[2]] = "fresh"
         /\ \A q \in Pkg : <<q, "dircleaned">> \in made' \ made => FinishDirclean(q)
         /\ \A q \in torn' \ torn : CanVisit(<<q, "dircleaned">>)
  <1> USE DEF Done
  <1> DEFINE Fact ==
         /\ UNCHANGED <<plan, jobs, settled>>
         /\ kept \subseteq kept' /\ made \subseteq made' /\ made' \subseteq made \cup running
         /\ \A n \in (running' \cup Done') \ (running \cup Done) : CanVisit(n)
         /\ \A n \in kept' \ kept : CanVisit(n) /\ n \in running' \cup Done'
                                     /\ stamp[n[1]][n[2]] = "fresh"
         /\ \A q \in Pkg : <<q, "dircleaned">> \in made' \ made => FinishDirclean(q)
         /\ \A q \in torn' \ torn : CanVisit(<<q, "dircleaned">>)
  <1>0. Clean \cap (Step \cup {"dircleaned"}) = {} /\ "dircleaned" \notin Step
    BY DEF Clean, Step, DepStep, InstallStep
  <1>1. ASSUME Ends PROVE Fact
    BY <1>1 DEF Ends
  <1>2. ASSUME NEW p \in Pkg, Edit(p) \/ RemoveStamp(p) \/ RemoveSome(p) PROVE Fact
    BY <1>2 DEF Edit, RemoveStamp, RemoveSome, make
  <1>3. ASSUME NEW p \in Pkg, StartDirclean(p) PROVE Fact
    BY <1>3 DEF StartDirclean
  <1>4. ASSUME NEW p \in Pkg, FinishDirclean(p) PROVE Fact
    <2>1. \A q \in Pkg : <<q, "dircleaned">> \in made' \ made => q = p
      BY <1>4 DEF FinishDirclean
    <2>2. /\ UNCHANGED <<plan, jobs, settled, kept>> /\ made' = made \cup {<<p, "dircleaned">>}
          /\ <<p, "dircleaned">> \in running /\ running' \subseteq running
          /\ torn' \subseteq torn
      BY <1>4 DEF FinishDirclean
    <2> QED
      BY <1>4, <2>1, <2>2
  <1>5. ASSUME NEW p \in Pkg, NEW s \in Step, Starts(p, s) PROVE Fact
    BY <1>0, <1>5 DEF Starts
  <1>6. ASSUME NEW p \in Pkg, NEW s \in StepsOf[p], Keep(p, s) PROVE Fact
    BY <1>6 DEF Keep, files
  <1>7. ASSUME NEW p \in Pkg, NEW s \in StepsOf[p], FinishRecipe(p, s) PROVE Fact
    <2>1. s # "dircleaned"
      BY <1>0, StepsOfType
    <2> QED
      BY <1>7, <2>1 DEF FinishRecipe
  <1>8. ASSUME NEW p \in Pkg, NEW c \in Clean, StartClean(p, c) PROVE Fact
    BY <1>8 DEF StartClean, files
  <1>9. ASSUME NEW p \in Pkg, NEW c \in Clean, FinishClean(p, c) PROVE Fact
    BY <1>0, <1>9 DEF FinishClean, files
  <1> HIDE DEF Fact
  <1>10. Fact
    BY <1>1, <1>2, <1>3, <1>4, <1>5, <1>6, <1>7, <1>8, <1>9, StepKinds
  <1> QED
    BY <1>10 DEF Fact

LEMMA FirstIsFirstStep ==
  ASSUME IndInv, FirstIsClean, FirstIsFirst, [Next]_vars PROVE FirstIsFirst'
  <1>1. ASSUME NEW command, NEW j, Make(command, j) PROVE FirstIsFirst'
    BY <1>1, MakeFacts DEF FirstIsFirst, IndInv
  <1> SUFFICES ASSUME ~(\E command \in Commands, j \in BOOLEAN : Make(command, j)),
                      InTurn', NEW p \in Pkg, Cleans(p) \cap AskedFirst' # {},
                      NEW n \in Done' \cup running', n[2] \in Step
               PROVE  AskedFirst' \subseteq Done'
    BY <1>1 DEF FirstIsFirst
  <1>2. AskedFirst' = AskedFirst /\ InTurn /\ Done \subseteq Done'
    BY CommandGoesOn, SamePlan DEF IndInv, Done
  <1>3. n[1] \in Pkg /\ n = <<n[1], n[2]>>
    BY TypeStep, NodeShape DEF TypeOK, Done, IndInv
  <1>4. CASE n \in running \cup Done
    BY <1>2, <1>4 DEF FirstIsFirst
  <1>5. CASE n \notin running \cup Done
    <2>1. CanVisit(<<n[1], n[2]>>)
      BY <1>3, <1>5, CommandGoesOn DEF IndInv
    <2>2. AskedFirst \subseteq Done
      BY <1>2, <2>1, VisitInTurn DEF IndInv
    <2> QED
      BY <1>2, <2>2
  <1> QED
    BY <1>4, <1>5

\* A target other than a step, once over, was made: only steps are kept.
LEMMA CleanedIsNotKeptStep ==
  ASSUME IndInv, OnlyRealSteps, CleanedIsGone, FirstIsClean, FirstIsFirst,
         CleanedIsNotKept, [Next]_vars
  PROVE  CleanedIsNotKept'
  <1> USE DEF IndInv
  <1>1. ASSUME NEW command, NEW j, Make(command, j) PROVE CleanedIsNotKept'
    <2>1. kept' = {} /\ made' = {}
      BY <1>1, MakeFacts
    <2> QED
      BY <2>1 DEF CleanedIsNotKept
  <1> SUFFICES ASSUME ~(\E command \in Commands, j \in BOOLEAN : Make(command, j)),
                      InTurn', NEW p \in Pkg
               PROVE  /\ <<p, "clean-for-rebuild">> \in AskedFirst' =>
                           /\ <<p, "built">> \notin kept'
                           /\ p \in Override => <<p, "rsynced">> \notin kept'
                      /\ <<p, "dircleaned">> \in AskedFirst' =>
                           /\ {n \in kept' : n[1] = p} = {}
                           /\ <<p, "dircleaned">> \in made' => p \notin torn'
    BY <1>1 DEF CleanedIsNotKept
  <1>0. Clean \cap Step = {} /\ "dircleaned" \notin Step /\ {"built", "rsynced"} \subseteq Step
        /\ {"clean-for-reinstall", "clean-for-rebuild"} \subseteq Clean
    BY DEF Clean, Step, DepStep, InstallStep
  <1>2. AskedFirst' = AskedFirst /\ InTurn
    BY CommandGoesOn, SamePlan
  <1>3. \A n \in Done : n[2] \notin Step => n \in made
    BY DEF Done, OnlyRealSteps
  <1>4. Gone(p)
    BY DEF CleanedIsGone
  <1>5. ASSUME NEW s \in Step, <<p, s>> \in kept' \ kept, Cleans(p) \cap AskedFirst # {}
        PROVE  AskedFirst \subseteq Done /\ ~Remade(p, s)
    <2>1. CanVisit(<<p, s>>) /\ stamp[p][s] = "fresh"
      BY <1>5, CommandGoesOn
    <2>2. <<p, s>> \notin made
      BY <2>1, VisitFacts DEF Done
    <2> QED
      BY <1>2, <1>5, <2>1, <2>2, VisitInTurn DEF Remade
  <1>6. ASSUME <<p, "clean-for-rebuild">> \in AskedFirst
        PROVE  /\ <<p, "built">> \notin kept'
               /\ p \in Override => <<p, "rsynced">> \notin kept'
    <2>1. Cleans(p) \cap AskedFirst # {} /\ <<p, "clean-for-reinstall">> \in AskedFirst
      BY <1>2, <1>6 DEF Cleans, FirstIsClean
    <2>2. AskedFirst \subseteq Done =>
            {<<p, "clean-for-rebuild">>, <<p, "clean-for-reinstall">>} \subseteq made
      BY <1>0, <1>3, <1>6, <2>1
    <2>3. AskedFirst \subseteq Done =>
            Remade(p, "built") /\ (p \in Override => Remade(p, "rsynced"))
      BY <1>4, <2>2 DEF Gone, CleanedStaysGone
    <2>4. <<p, "built">> \notin kept /\ (p \in Override => <<p, "rsynced">> \notin kept)
      BY <1>2, <1>6 DEF CleanedIsNotKept
    <2> QED
      BY <1>0, <1>5, <2>1, <2>3, <2>4
  <1>7. ASSUME <<p, "dircleaned">> \in AskedFirst, NEW n \in kept', n[1] = p PROVE FALSE
    <2>1. n \notin kept
      BY <1>2, <1>7 DEF CleanedIsNotKept
    <2>2. OnlyRealSteps' /\ TypeOK'
      BY OnlyRealStepsStep, TypeStep
    <2>3. n \in Node /\ n[2] \in Step
      BY <2>2 DEF OnlyRealSteps, TypeOK
    <2>4. <<p, n[2]>> \in kept' \ kept
      BY <1>7, <2>1, <2>3, NodeShape
    <2>5. Cleans(p) \cap AskedFirst # {}
      BY <1>7 DEF Cleans
    <2>6. AskedFirst \subseteq Done /\ ~Remade(p, n[2])
      BY <1>5, <2>3, <2>4, <2>5
    <2>7. <<p, "dircleaned">> \in made
      BY <1>0, <1>3, <1>7, <2>6
    <2> QED
      BY <1>4, <2>3, <2>6, <2>7 DEF Gone, CleanedStaysGone
  <1>8. ASSUME <<p, "dircleaned">> \in AskedFirst, <<p, "dircleaned">> \in made'
        PROVE  p \notin torn'
    <2>1. CASE <<p, "dircleaned">> \in made
      <3>1. p \notin torn
        BY <1>2, <1>8, <2>1 DEF CleanedIsNotKept
      <3>2. ~CanVisit(<<p, "dircleaned">>)
        BY <2>1, VisitFacts DEF Done
      <3> QED
        BY <3>1, <3>2, CommandGoesOn
    <2>2. CASE <<p, "dircleaned">> \notin made
      <3>1. FinishDirclean(p)
        BY <1>8, <2>2, CommandGoesOn
      <3>2. <<p, "dircleaned">> \notin Done
        BY <3>1 DEF FinishDirclean, RunningIsNext
      <3>3. \A n \in Done \cup running : n[2] \notin Step
        BY <1>2, <1>8, <3>2 DEF FirstIsFirst, Cleans
      <3>4. (Done \cup running) \cap ({p} \X Step) = {}
        BY <3>3
      <3> QED
        BY <3>1, <3>4 DEF FinishDirclean
    <2> QED
      BY <2>1, <2>2
  <1> QED
    BY <1>2, <1>6, <1>7, <1>8

-----------------------------------------------------------------------------
(* Edits.                                                                   *)

\* What is behind a step that is.
LEMMA BehindIt ==
  ASSUME IndInv, NEW p \in Pkg, NEW s \in StepsOf[p], Pre[<<p, s>>] \subseteq Done
  PROVE  /\ s \in InstallStep \cup {"installed"} => <<p, "built">> \in Done
         /\ s \in InstallStep \cup {"installed", "built"} => <<p, "configured">> \in Done
         /\ s \in InstallStep \cup {"installed", "built", "configured"} /\ p \in Override
              => <<p, "rsynced">> \in Done
         /\ s = "installed" => \A u \in InstallSteps(p) : <<p, u>> \in Done
  <1> USE DEF Step, DepStep, InstallStep
  <1>1. {"configured", "built", "installed"} \cup InstallSteps(p) \subseteq StepsOf[p]
        /\ StepsOf[p] \subseteq Step
    BY StepsOfType DEF StepsOf
  <1>2. /\ s \in InstallStep \cup {"installed"} => "built" \in Prereq[p][s]
        /\ "configured" \in Prereq[p]["built"]
        /\ s = "installed" => InstallSteps(p) \subseteq Prereq[p][s]
    BY <1>1 DEF Prereq, Sequencing, InstallSteps
  <1>3. p \in Override => <<p, "rsynced">> \in Pre[<<p, "configured">>]
    BY DEF Pre, OrderOnly, Node
  <1>4. \A n \in Done : Pre[n] \subseteq Done
    BY DEF IndInv, DoneIsGood
  <1>5. s \in InstallStep \cup {"installed"} => <<p, "built">> \in Done
    BY <1>1, <1>2, PrereqDone
  <1>6. s \in InstallStep \cup {"installed", "built"} => <<p, "configured">> \in Done
    <2>1. CASE s = "built"
      BY <1>2, <2>1, PrereqDone
    <2>2. CASE s \in InstallStep \cup {"installed"}
      BY <1>2, <1>4, <1>5, <2>2, PrereqDone
    <2> QED
      BY <2>1, <2>2
  <1>7. s \in InstallStep \cup {"installed", "built", "configured"} /\ p \in Override
          => <<p, "rsynced">> \in Done
    BY <1>3, <1>4, <1>6
  <1>8. s = "installed" => \A u \in InstallSteps(p) : <<p, u>> \in Done
    BY <1>1, <1>2, PrereqDone
  <1> QED
    BY <1>5, <1>6, <1>7, <1>8

LEMMA EditsAreTakenStep ==
  ASSUME IndInv, EditsAreTaken, [Next]_vars PROVE EditsAreTaken'
  <1> USE DEF IndInv
  <1>0. Clean \cap Step = {} /\ "dircleaned" \notin Step /\ {"built", "rsynced"} \subseteq Step
    BY DEF Clean, Step, DepStep, InstallStep
  <1>1. ASSUME NEW command, NEW j, Make(command, j) PROVE EditsAreTaken'
    BY <1>1, MakeFacts DEF EditsAreTaken, Taken
  <1> SUFFICES ASSUME ~(\E command \in Commands, j \in BOOLEAN : Make(command, j)),
                      NEW q \in Pkg
               PROVE  Taken(q)'
    BY <1>1 DEF EditsAreTaken
  <1>2. /\ q \notin Override => edited[q] # "source"
        /\ Active /\ <<q, "rsynced">> \in made \cup running => edited[q] # "source"
        /\ Active /\ <<q, "built">> \in made \cup running => edited[q] # "tree"
    BY DEF EditsAreTaken, Taken
  <1>3. ASSUME edited'[q] \in {edited[q], "no"}, Active' => Active,
               \A u \in {"rsynced", "built"} :
                 <<q, u>> \in made' \cup running' => <<q, u>> \in made \cup running
        PROVE  Taken(q)'
    BY <1>2, <1>3 DEF Taken
  <1>4. CASE Ends
    BY <1>3, <1>4 DEF Ends
  <1>5. ASSUME NEW p \in Pkg, Edit(p) PROVE Taken(q)'
    <2>1. ~Active' /\ edited' = [edited EXCEPT ![p] = IF p \in Override THEN "source" ELSE "tree"]
      BY <1>5 DEF Edit, make, Active
    <2> QED
      BY <1>2, <2>1 DEF TypeOK, Taken
  <1>6. ASSUME NEW p \in Pkg, \/ RemoveStamp(p) \/ RemoveSome(p) \/ StartDirclean(p)
                              \/ \E s \in StepsOf[p] : Keep(p, s) \/ FinishRecipe(p, s)
                              \/ \E c \in Clean : StartClean(p, c) \/ FinishClean(p, c)
        PROVE  Taken(q)'
    <2>1. edited' = edited /\ Active' = Active
      BY <1>6 DEF RemoveStamp, RemoveSome, StartDirclean, Keep, FinishRecipe, StartClean,
                  FinishClean, make, files, Active
    <2>2. ASSUME NEW u \in {"rsynced", "built"}, <<q, u>> \in made' \cup running'
          PROVE  <<q, u>> \in made \cup running
      BY <1>0, <1>6, <2>2 DEF RemoveStamp, RemoveSome, StartDirclean, Keep, FinishRecipe,
                              StartClean, FinishClean, make
    <2> QED
      BY <1>3, <2>1, <2>2
  <1>7. ASSUME NEW p \in Pkg, FinishDirclean(p) PROVE Taken(q)'
    <2>1. edited'[q] \in {edited[q], "no"} /\ Active' = Active
      BY <1>7 DEF FinishDirclean, TypeOK, Active
    <2>2. ASSUME NEW u \in {"rsynced", "built"}, <<q, u>> \in made' \cup running'
          PROVE  <<q, u>> \in made \cup running
      BY <1>7, <2>2 DEF FinishDirclean
    <2> QED
      BY <1>3, <2>1, <2>2
  <1>8. ASSUME NEW p \in Pkg, NEW s \in Step, Starts(p, s) PROVE Taken(q)'
    <2>1. /\ running' = running \cup {<<p, s>>} /\ made' = made /\ Active
          /\ s \in StepsOf[p] /\ <<p, s>> \notin Done \cup running /\ Pre[<<p, s>>] \subseteq Done
      BY <1>8, VisitFacts DEF Starts, Active
    <2>2. CASE s \notin {"rsynced", "built"}
      BY <1>3, <1>8, <2>1, <2>2 DEF Starts
    <2>3. CASE p # q
      <3>1. edited'[q] = edited[q]
        BY <1>8, <2>3 DEF Starts, TypeOK
      <3> QED
        BY <1>3, <2>1, <2>3, <3>1
    <2>4. CASE p = q /\ s = "rsynced"
      <3>1. q \in Override
        BY <2>1, <2>4 DEF StepsOf, InstallSteps, DepStep, InstallStep
      <3>2. edited'[q] # "source"
        BY <1>8, <2>4 DEF Starts, TypeOK
      <3>3. <<q, "built">> \notin made \cup running
        <4>1. <<q, "built">> \in made \cup running => Pre[<<q, "built">>] \subseteq Done
          BY DEF DoneIsGood, RunningIsNext, Done
        <4>2. "built" \in StepsOf[q]
          BY DEF StepsOf
        <4> QED
          BY <2>1, <2>4, <3>1, <4>1, <4>2, BehindIt
      <3> QED
        BY <2>1, <2>4, <3>1, <3>2, <3>3 DEF Taken
    <2>5. CASE p = q /\ s = "built"
      <3>1. edited'[q] # "tree" /\ (edited'[q] = "source" => edited[q] = "source")
        BY <1>8, <2>5 DEF Starts, TypeOK
      <3> QED
        BY <1>2, <2>1, <2>5, <3>1 DEF Taken
    <2> QED
      BY <2>2, <2>3, <2>4, <2>5
  <1> QED
    BY <1>4, <1>5, <1>6, <1>7, <1>8, StepKinds

-----------------------------------------------------------------------------
(* What was asked for.                                                      *)

\* What make redoes in a package because it redoes the step u is redone by the
\* same redo targets.
LEMMA RedoneByGoesOn ==
  ASSUME NEW p \in Pkg, NEW c, NEW t \in StepsOf[p], NEW u \in Prereq[p][t],
         u \in RedoneBy(p, c)
  PROVE  t \in RedoneBy(p, c)
  <1>1. t \in Step /\ <<u, t>> \in Sequencing /\ u \in StepsOf[p]
    BY StepsOfType DEF Prereq
  <1>2. \A s \in StepsOf[p] \cap InstallStep : s \in InstallSteps(p)
    BY DEF StepsOf, InstallStep, InstallSteps
  <1> QED
    BY <1>1, <1>2 DEF Sequencing, RedoneBy, InstallSteps, Step, DepStep, InstallStep

\* A clean recipe removes what its redo target redoes.
LEMMA RemovalsAreRedone ==
  ASSUME NEW p \in Pkg, NEW c \in Clean, NEW i \in DOMAIN Removals(p, c),
         Removals(p, c)[i] \in StepsOf[p]
  PROVE  Removals(p, c)[i] \in RedoneBy(p, c)
  <1> DEFINE r == Removals(p, c)[i]
  <1>1. c = "clean-for-rebuild" => r = "built"
    BY DEF Removals
  <1>2. c = "clean-for-reconfigure" => r = "configured"
    BY DEF Removals
  <1>3. ASSUME c = "clean-for-reinstall"
        PROVE  r \in InstallStep \cup {"installed"} \/ (r = "rsynced" /\ p \in Override)
    <2> DEFINE install == <<"installed", "staging_installed", "target_installed",
                            "images_installed", "host_installed">>
    <2>1. \A k \in DOMAIN install : install[k] \in InstallStep \cup {"installed"}
      BY DEF InstallStep
    <2>2. install \in Seq(Step) /\ <<"rsynced">> \in Seq(Step)
      BY DEF Step, InstallStep
    <2>3. p \in Override => Removals(p, c) = <<"rsynced">> \o install
      BY <1>3 DEF Removals
    <2>4. p \notin Override => Removals(p, c) = <<>> \o install
      BY <1>3 DEF Removals
    <2> HIDE DEF install
    <2>5. CASE p \in Override
      <3>1. i \in 1..(1 + Len(install)) /\ Len(install) \in Nat
        BY <2>2, <2>3, <2>5
      <3>2. r = IF i = 1 THEN "rsynced" ELSE install[i - 1]
        BY <2>2, <2>3, <2>5, <3>1
      <3>3. i # 1 => i - 1 \in DOMAIN install
        BY <2>2, <3>1
      <3> QED
        BY <2>1, <2>5, <3>2, <3>3
    <2>6. CASE p \notin Override
      <3>1. Removals(p, c) = install
        BY <2>2, <2>4, <2>6
      <3> QED
        BY <2>1, <3>1
    <2> QED
      BY <2>5, <2>6
  <1>4. \A s \in StepsOf[p] \cap InstallStep : s \in InstallSteps(p)
    BY DEF StepsOf, InstallStep, InstallSteps
  <1> HIDE DEF r
  <1>5. r \in StepsOf[p] => r \in RedoneBy(p, c)
    BY <1>1, <1>2, <1>3, <1>4 DEF RedoneBy, Clean
  <1> QED
    BY <1>5 DEF r

LEMMA OnlyExcusedStep ==
  ASSUME IndInv, OnlyRealSteps, CleanedIsGone, OnlyExcused, [Next]_vars
  PROVE  OnlyExcused'
  <1> USE DEF IndInv
  <1>0. Clean \cap Step = {} /\ "dircleaned" \notin Step
    BY DEF Clean, Step, DepStep, InstallStep
  <1>1. ASSUME NEW command, NEW j, Make(command, j) PROVE OnlyExcused'
    <2> SUFFICES ASSUME NEW p \in settled', NEW s \in StepsOf[p], Touched(p, s)' PROVE FALSE
      BY DEF OnlyExcused
    <2>1. p \in Pkg /\ stamp'[p][s] = "fresh" /\ running' = {} /\ made' = {}
          /\ running = {} /\ left' = left
      BY <1>1, MakeFacts DEF AllFresh
    <2>2. left[p] = <<>>
      BY <2>1 DEF CleanedIsGone, Gone, LeftIsBeingRemoved
    <2> QED
      BY <2>1, <2>2 DEF Touched, Coming
  <1> SUFFICES ASSUME ~(\E command \in Commands, j \in BOOLEAN : Make(command, j)),
                      NEW q \in settled', <<q, "dircleaned">> \notin Asked',
                      NEW t \in StepsOf[q], Touched(q, t)'
               PROVE  Excused(q, t)'
    BY <1>1 DEF OnlyExcused
  <1>2. Asked' = Asked /\ q \in settled /\ q \in Pkg /\ (Excused(q, t) => Excused(q, t)')
    <2>1. Asked' = Asked /\ settled' = settled
      BY CommandGoesOn, SamePlan
    <2> QED
      BY <2>1 DEF Excused, TypeOK
  <1>3. t \in Step /\ \A s \in StepsOf[q] : Touched(q, s) => Excused(q, s)
    BY <1>2, StepsOfType DEF OnlyExcused
  <1>4. ~CanVisit(<<q, "dircleaned">>) /\ <<q, "dircleaned">> \notin running
    BY <1>2, VisitFacts DEF OnlyRealSteps
  <1>5. ASSUME stamp'[q][t] # "fresh" => stamp[q][t] # "fresh",
               <<q, t>> \in running' \cup made' => <<q, t>> \in running \cup made,
               Coming(q)' \subseteq Coming(q)
        PROVE  Excused(q, t)'
    BY <1>2, <1>3, <1>5 DEF Touched
  <1>6. ASSUME UNCHANGED <<stamp, left>>,
               <<q, t>> \in running' \cup made' => <<q, t>> \in running \cup made
        PROVE  Excused(q, t)'
    <2>1. Coming(q)' = Coming(q)
      BY <1>6 DEF Coming
    <2> QED
      BY <1>5, <1>6, <2>1
  <1>7. ASSUME Ends PROVE Excused(q, t)'
    <2>1. Coming(q)' \subseteq Coming(q)
      BY <1>2, <1>7 DEF Ends, Coming
    <2> QED
      BY <1>5, <1>7, <2>1 DEF Ends
  <1>8. ASSUME NEW p \in Pkg, Edit(p) \/ StartDirclean(p) PROVE Excused(q, t)'
    BY <1>0, <1>3, <1>6, <1>8 DEF Edit, StartDirclean, make
  <1>9. ASSUME NEW p \in Pkg, NEW s \in StepsOf[p], Keep(p, s) PROVE Excused(q, t)'
    BY <1>6, <1>9 DEF Keep, files
  <1>10. ASSUME NEW p \in Pkg, NEW c \in Clean, FinishClean(p, c) PROVE Excused(q, t)'
    BY <1>0, <1>3, <1>6, <1>10 DEF FinishClean, files
  <1>11. ASSUME NEW p \in Pkg, RemoveSome(p) \/ FinishDirclean(p) PROVE Excused(q, t)'
    <2>1. p # q
      BY <1>4, <1>11 DEF RemoveSome, FinishDirclean
    <2>2. stamp'[q][t] = stamp[q][t]
      <3>1. CASE FinishDirclean(p)
        BY <1>2, <2>1, <3>1 DEF FinishDirclean, TypeOK
      <3>2. CASE stamp' = stamp
        BY <3>2
      <3>3. ASSUME NEW s \in StepsOf[p], stamp' = [stamp EXCEPT ![p][s] = "absent"]
            PROVE  stamp'[q][t] = stamp[q][t]
        BY <1>2, <2>1, <3>3 DEF TypeOK
      <3> QED
        BY <1>11, <3>1, <3>2, <3>3 DEF RemoveSome
    <2>3. left' = left /\ (<<q, t>> \in running' \cup made' => <<q, t>> \in running \cup made)
      BY <1>0, <1>3, <1>11 DEF RemoveSome, FinishDirclean, make
    <2>4. Coming(q)' = Coming(q)
      BY <2>3 DEF Coming
    <2> QED
      BY <1>5, <2>2, <2>3, <2>4
  <1>12. ASSUME NEW p \in Pkg, NEW s \in Step, Starts(p, s) PROVE Excused(q, t)'
    <2>1. CASE p = q /\ s = t
      BY <1>2, <1>3, <1>12, <2>1 DEF Starts, Touched
    <2>2. CASE ~(p = q /\ s = t)
      BY <1>6, <1>12, <2>2 DEF Starts
    <2> QED
      BY <2>1, <2>2
  <1>13. ASSUME NEW p \in Pkg, NEW s \in StepsOf[p], FinishRecipe(p, s)
         PROVE  Excused(q, t)'
    <2>1. left' = left /\ (<<q, t>> \in running' \cup made' => <<q, t>> \in running \cup made)
          /\ stamp' = Touch(p, s) /\ <<p, s>> \in running
      BY <1>13 DEF FinishRecipe
    <2>2. Coming(q)' = Coming(q)
      BY <2>1 DEF Coming
    <2>3. CASE p = q /\ s \in Prereq[q][t]
      <3>1. Excused(q, s)
        BY <1>3, <2>1, <2>3 DEF Touched
      <3>2. Excused(q, t)
        BY <1>2, <2>3, <3>1, RedoneByGoesOn DEF Excused
      <3> QED
        BY <1>2, <3>2
    <2>4. CASE ~(p = q /\ s \in Prereq[q][t])
      <3>1. stamp'[q][t] \in {stamp[q][t], "fresh"}
        BY <1>2, <1>3, <2>1, <2>4 DEF Touch, TypeOK
      <3> QED
        BY <1>5, <2>1, <2>2, <3>1
    <2> QED
      BY <2>3, <2>4
  <1>14. ASSUME NEW p \in Pkg, RemoveStamp(p) PROVE Excused(q, t)'
    <2>1. /\ UNCHANGED <<running, made>> /\ left[p] # <<>> /\ left[p] \in Seq(Step)
          /\ left' = [left EXCEPT ![p] = Tail(@)]
      BY <1>14 DEF RemoveStamp, TypeOK
    <2>2. stamp' = [stamp EXCEPT ![p][Head(left[p])] = "absent"] /\ Head(left[p]) \in Step
      BY <1>14, <2>1 DEF RemoveStamp
    <2>3. Coming(q)' \subseteq Coming(q)
      <3>1. CASE p # q
        BY <1>2, <2>1, <3>1 DEF Coming, TypeOK
      <3>2. CASE p = q
        <4>1. left'[q] = Tail(left[q])
          BY <2>1, <3>2 DEF TypeOK
        <4>2. \A i \in DOMAIN Tail(left[q]) : i + 1 \in DOMAIN left[q]
                /\ Tail(left[q])[i] = left[q][i + 1]
          BY <2>1, <3>2
        <4> QED
          BY <4>1, <4>2 DEF Coming
      <3> QED
        BY <3>1, <3>2
    <2>4. CASE p = q /\ t = Head(left[q])
      <3>1. t \in Coming(q)
        BY <2>1, <2>4 DEF Coming
      <3> QED
        BY <1>2, <1>3, <3>1 DEF Touched
    <2>5. CASE ~(p = q /\ t = Head(left[q]))
      <3> DEFINE h == Head(left[p])
      <3>1. stamp' = [stamp EXCEPT ![p][h] = "absent"] /\ h \in Step /\ ~(p = q /\ t = h)
        BY <2>2, <2>5
      <3> HIDE DEF h
      <3>2. stamp'[q][t] = stamp[q][t]
        BY <1>2, <1>3, <3>1 DEF TypeOK
      <3> QED
        BY <1>5, <2>1, <2>3, <3>2
    <2> QED
      BY <2>4, <2>5
  <1>15. ASSUME NEW p \in Pkg, NEW c \in Clean, StartClean(p, c) PROVE Excused(q, t)'
    <2>1. /\ UNCHANGED <<stamp, made>> /\ running' = running \cup {<<p, c>>}
          /\ left' = [left EXCEPT ![p] = Removals(p, c)] /\ <<p, c>> \in Asked
      BY <1>15, VisitFacts DEF StartClean, files
    <2>2. <<q, t>> \in running' \cup made' => <<q, t>> \in running \cup made
      BY <1>0, <1>3, <2>1
    <2>3. CASE p # q
      <3>1. Coming(q)' = Coming(q)
        BY <1>2, <2>1, <2>3 DEF Coming, TypeOK
      <3> QED
        BY <1>5, <2>1, <2>2, <3>1
    <2>4. CASE p = q /\ t \notin Coming(q)'
      BY <1>2, <1>3, <2>1, <2>2, <2>4 DEF Touched
    <2>5. CASE p = q /\ t \in Coming(q)'
      <3>1. left'[q] = Removals(q, c)
        BY <2>1, <2>5 DEF TypeOK
      <3>2. PICK i \in DOMAIN Removals(q, c) : t = Removals(q, c)[i]
        BY <2>5, <3>1 DEF Coming
      <3>3. t \in RedoneBy(q, c)
        BY <1>2, <3>2, RemovalsAreRedone
      <3>4. Excused(q, t)
        BY <2>1, <2>5, <3>3 DEF Excused
      <3> QED
        BY <1>2, <3>4
    <2> QED
      BY <2>3, <2>4, <2>5
  <1> QED
    BY <1>7, <1>8, <1>9, <1>10, <1>11, <1>12, <1>13, <1>14, <1>15, StepKinds

-----------------------------------------------------------------------------
(* The lists of files.                                                      *)

LEMMA InstalledIsNotedStep ==
  ASSUME IndInv, OnlyRealSteps, RemadeAfter, InstalledIsNoted, [Next]_vars
  PROVE  InstalledIsNoted'
  <1> USE DEF IndInv
  <1>0. Clean \cap Step = {} /\ "dircleaned" \notin Step
        /\ {"configured", "installed"} \cup InstallStep \subseteq Step
        /\ \A p \in Pkg : InstallSteps(p) \subseteq InstallStep
    BY DEF Clean, Step, DepStep, InstallStep, InstallSteps
  <1>1. ASSUME NEW command, NEW j, Make(command, j) PROVE InstalledIsNoted'
    BY <1>1, MakeFacts DEF InstalledIsNoted, Noted, Begun
  <1> SUFFICES ASSUME ~(\E command \in Commands, j \in BOOLEAN : Make(command, j)),
                      NEW p \in Pkg, p \notin torn'
               PROVE  Noted(p)'
    BY <1>1 DEF InstalledIsNoted
  <1>2. p \notin torn => Noted(p)
    BY DEF InstalledIsNoted
  <1>3. ASSUME p \notin torn, (p \in snapshot)' = (p \in snapshot), since'[p] = since[p],
               list'[p] = list[p], status' = "running" => status = "running",
               \A s \in Step : Begun(p, s)' <=> Begun(p, s)
        PROVE  Noted(p)'
    BY <1>0, <1>2, <1>3 DEF Noted
  <1>4. ASSUME Ends PROVE Noted(p)'
    <2>1. p \notin torn
      BY <1>4 DEF Ends
    <2>2. CASE status' = "running"
      <3>1. /\ UNCHANGED <<snapshot, since, list>> /\ status = "running"
            /\ UNCHANGED <<running, made>>
        BY <1>4, <2>2 DEF Ends
      <3> QED
        BY <1>3, <2>1, <3>1 DEF Begun
    <2>3. CASE status' # "running"
      <3>1. UNCHANGED <<made, list>> /\ running' \subseteq running
        BY <1>4 DEF Ends
      <3> QED
        BY <1>2, <2>1, <2>3, <3>1 DEF Noted, Begun
    <2> QED
      BY <2>2, <2>3
  <1>5. ASSUME NEW q \in Pkg, \/ Edit(q) \/ RemoveStamp(q) \/ StartDirclean(q)
                              \/ \E s \in StepsOf[q] : Keep(q, s) \/ FinishRecipe(q, s)
                              \/ \E c \in Clean : StartClean(q, c) \/ FinishClean(q, c)
        PROVE  Noted(p)'
    <2>1. UNCHANGED <<snapshot, since, list, status>> /\ torn \subseteq torn'
      BY <1>5 DEF Edit, RemoveStamp, StartDirclean, Keep, FinishRecipe, StartClean,
                  FinishClean, files, make
    <2>2. ASSUME NEW s \in Step PROVE Begun(p, s)' <=> Begun(p, s)
      <3>1. ASSUME NEW u \in StepsOf[q], FinishRecipe(q, u)
            PROVE  running' \cup made' = running \cup made
        BY <3>1 DEF FinishRecipe
      <3>2. ASSUME NEW c \in Clean, StartClean(q, c) \/ FinishClean(q, c)
            PROVE  <<p, s>> \in running' \cup made' <=> <<p, s>> \in running \cup made
        BY <1>0, <3>2 DEF StartClean, FinishClean
      <3>3. CASE StartDirclean(q)
        BY <1>0, <3>3 DEF StartDirclean, Begun
      <3>4. CASE \/ Edit(q) \/ RemoveStamp(q) \/ \E u \in StepsOf[q] : Keep(q, u)
        BY <3>4 DEF Edit, RemoveStamp, Keep, make, Begun
      <3> QED
        BY <1>5, <3>1, <3>2, <3>3, <3>4 DEF Begun
    <2> QED
      BY <1>3, <2>1, <2>2
  <1>6. ASSUME NEW q \in Pkg, RemoveSome(q) PROVE Noted(p)'
    <2>1. q # p /\ p \notin torn
      BY <1>6 DEF RemoveSome, RunningIsNext
    <2>2. UNCHANGED <<since, status, running, made>> /\ (p \in snapshot)' = (p \in snapshot)
          /\ list'[p] = list[p]
      BY <1>6, <2>1 DEF RemoveSome, make, TypeOK
    <2> QED
      BY <1>3, <2>1, <2>2 DEF Begun
  <1>7. ASSUME NEW q \in Pkg, FinishDirclean(q) PROVE Noted(p)'
    <2>1. \A s \in Step : Begun(p, s)' <=> Begun(p, s)
      BY <1>0, <1>7 DEF FinishDirclean, Begun
    <2>2. CASE q # p
      <3>1. (p \in snapshot)' = (p \in snapshot) /\ since'[p] = since[p]
            /\ list'[p] = list[p] /\ status' = status /\ p \notin torn
        BY <1>7, <2>2 DEF FinishDirclean, TypeOK
      <3> QED
        BY <1>3, <2>1, <3>1
    <2>3. CASE q = p
      <3>1. p \in torn
        BY <1>7, <2>3 DEF FinishDirclean, RunningIsNext
      <3>2. (Done \cup running) \cap ({p} \X Step) = {}
        BY <1>7, <2>3, <3>1 DEF FinishDirclean
      <3>3. ~Begun(p, "configured")
        BY <1>0, <3>2 DEF Begun, Done
      <3> QED
        BY <1>0, <2>1, <3>3 DEF Noted
    <2> QED
      BY <2>2, <2>3
  <1>8. ASSUME NEW q \in Pkg, NEW s \in Step, Starts(q, s) PROVE Noted(p)'
    <2>1. /\ running' = running \cup {<<q, s>>} /\ made' = made /\ p \notin torn
          /\ status = "running" /\ status' = status
          /\ s \in StepsOf[q] /\ <<q, s>> \notin Done \cup running /\ Pre[<<q, s>>] \subseteq Done
      BY <1>8, VisitFacts DEF Starts
    <2>2. \A t \in Step : Begun(p, t)' <=> Begun(p, t) \/ (q = p /\ s = t)
      BY <2>1 DEF Begun
    <2>3. CASE s \notin InstallStep \cup {"configured", "installed"}
      <3>1. UNCHANGED <<snapshot, since, list>>
        BY <1>8, <2>3 DEF Starts
      <3> QED
        BY <1>0, <1>2, <2>1, <2>2, <2>3, <3>1 DEF Noted
    <2>4. CASE q # p
      <3>1. (p \in snapshot)' = (p \in snapshot) /\ list'[p] = list[p]
        BY <1>8, <2>3, <2>4 DEF Starts, TypeOK
      <3>2. since[p] \subseteq since'[p]
        BY <1>8, <2>3, <2>4 DEF Starts, TypeOK
      <3> QED
        BY <1>0, <1>2, <2>1, <2>2, <2>4, <3>1, <3>2 DEF Noted
    <2>5. ASSUME NEW u \in StepsOf[p], Begun(p, u)
          PROVE  Pre[<<p, u>>] \subseteq Done
      BY <2>5 DEF Begun, DoneIsGood, RunningIsNext, Done
    <2>6. {"installed"} \cup InstallSteps(p) \subseteq StepsOf[p]
      BY DEF StepsOf
    <2>7. ASSUME q = p, s = "configured" PROVE Noted(p)'
      <3>1. p \in snapshot'
        BY <1>8, <2>7 DEF Starts
      <3>2. \A u \in {"installed"} \cup InstallSteps(p) : ~Begun(p, u)
        BY <1>0, <2>1, <2>5, <2>6, <2>7, BehindIt
      <3>3. \A u \in Step \ {"configured"} : Begun(p, u)' => Begun(p, u)
        BY <2>2, <2>7
      <3>4. {"installed"} \cup InstallSteps(p) \subseteq Step \ {"configured"}
        BY <1>0 DEF InstallSteps
      <3>5. \A u \in {"installed"} \cup InstallSteps(p) : ~Begun(p, u)'
        BY <3>2, <3>3, <3>4
      <3> QED
        BY <3>1, <3>5 DEF Noted
    <2>8. ASSUME q = p, s \in InstallStep PROVE Noted(p)'
      <3>1. ~Begun(p, "installed")
        <4>1. s \in InstallSteps(p)
          BY <2>1, <2>8 DEF StepsOf, InstallStep, InstallSteps
        <4> QED
          BY <2>1, <2>5, <2>6, <2>8, <4>1, BehindIt
      <3>2. s \notin {"configured", "installed"}
        BY <2>8 DEF InstallStep
      <3>3. Begun(p, "configured") => p \in snapshot
        BY <1>2, <2>1, <3>1 DEF Noted
      <3>4. p \in snapshot => p \in snapshot' /\ since'[p] = since[p] \cup {<<p, s>>}
        BY <1>8, <2>8 DEF Starts, Watching
      <3>5. \A u \in Step : Begun(p, u)' /\ u # s => Begun(p, u)
        BY <2>2
      <3>6. ASSUME Begun(p, "configured")'
            PROVE  /\ p \in snapshot'
                   /\ \A u \in InstallSteps(p) : Begun(p, u)' => <<p, u>> \in since'[p]
        <4>1. Begun(p, "configured")
          BY <1>0, <3>2, <3>5, <3>6
        <4>2. p \in snapshot /\ p \in snapshot' /\ since'[p] = since[p] \cup {<<p, s>>}
          BY <3>3, <3>4, <4>1
        <4>3. \A u \in InstallSteps(p) : Begun(p, u) => <<p, u>> \in since[p]
          BY <1>2, <2>1, <3>1, <4>1 DEF Noted
        <4>4. \A u \in InstallSteps(p) : u \in Step
          BY <1>0
        <4> QED
          BY <3>5, <4>2, <4>3, <4>4
      <3>7. ~Begun(p, "installed")'
        BY <1>0, <3>1, <3>2, <3>5
      <3> QED
        BY <3>6, <3>7 DEF Noted
    <2>9. ASSUME q = p, s = "installed" PROVE Noted(p)'
      <3>1. ~Begun(p, "installed")
        BY <2>1, <2>9 DEF Begun, Done
      <3>2. ASSUME Begun(p, "configured")
            PROVE  {p} \X InstallSteps(p) \subseteq list'[p]
        <4>1. /\ p \in snapshot
              /\ \A u \in InstallSteps(p) : Begun(p, u) => <<p, u>> \in since[p]
          BY <1>2, <2>1, <3>1, <3>2 DEF Noted
        <4>2. /\ <<p, "configured">> \in Done /\ <<p, "built">> \in Done
              /\ \A u \in InstallSteps(p) : <<p, u>> \in Done
          BY <2>1, <2>9, BehindIt
        <4>3. <<p, "configured">> \in made
          BY <3>2, <4>2 DEF Begun, RunningIsNext
        <4>4. /\ "configured" \in Prereq[p]["built"] /\ "built" \in StepsOf[p]
              /\ \A u \in InstallSteps(p) : "built" \in Prereq[p][u]
          BY <1>0 DEF Prereq, Sequencing, StepsOf, Step
        <4>5. <<p, "built">> \in made
          BY <4>2, <4>3, <4>4 DEF RemadeAfter, Done
        <4>6. \A u \in InstallSteps(p) : <<p, u>> \in made
          BY <2>6, <4>2, <4>4, <4>5 DEF RemadeAfter, Done
        <4>7. {p} \X InstallSteps(p) \subseteq since[p]
          BY <3>2, <4>1, <4>6 DEF Begun
        <4> QED
          BY <1>8, <2>9, <4>1, <4>7 DEF Starts, TypeOK
      <3> QED
        BY <1>0, <2>2, <2>9, <3>2 DEF Noted
    <2> QED
      BY <2>3, <2>4, <2>7, <2>8, <2>9
  <1> QED
    BY <1>4, <1>5, <1>6, <1>7, <1>8, StepKinds

-----------------------------------------------------------------------------
(* All of them together.                                                    *)

LEMMA RedoInit == Init => RedoInv
  <1> SUFFICES ASSUME Init PROVE RedoInv
    OBVIOUS
  <1>1. running = {} /\ kept = {} /\ made = {} /\ Done = {} /\ settled = {} /\ plan = <<>>
        /\ AskedFirst = {} /\ edited = [p \in Pkg |-> "no"] /\ left = [p \in Pkg |-> <<>>]
    BY DEF Init, Done, AskedFirst
  <1>2. CleanedIsGone
    BY <1>1 DEF CleanedIsGone, Gone, LeftIsBeingRemoved, CleaningRemoves, CleanedStaysGone
  <1>3. EditsAreTaken
    BY <1>1 DEF EditsAreTaken, Taken
  <1>4. OnlyRealSteps /\ RemadeAfter /\ OnlyExcused
    BY <1>1 DEF OnlyRealSteps, RemadeAfter, OnlyExcused
  <1>5. FirstIsClean /\ FirstIsFirst /\ CleanedIsNotKept
    BY <1>1 DEF FirstIsClean, FirstIsFirst, CleanedIsNotKept
  <1>6. InstalledIsNoted
    BY <1>1 DEF InstalledIsNoted, Noted, Begun
  <1> QED
    BY <1>2, <1>3, <1>4, <1>5, <1>6 DEF RedoInv

LEMMA RedoStep == IndInv /\ RedoInv /\ [Next]_vars => RedoInv'
  <1> SUFFICES ASSUME IndInv, RedoInv, [Next]_vars PROVE RedoInv'
    OBVIOUS
  <1> USE DEF RedoInv
  <1>1. OnlyRealSteps'
    BY OnlyRealStepsStep DEF IndInv
  <1>2. RemadeAfter' /\ CleanedIsGone'
    BY RemadeAfterStep, CleanedIsGoneStep
  <1>3. FirstIsClean'
    <2>1. ASSUME ~(\E command \in Commands, j \in BOOLEAN : Make(command, j))
          PROVE  FirstIsClean'
      BY <2>1, CommandGoesOn, SamePlan DEF IndInv
    <2> QED
      BY <2>1, MakeFirstIsClean
  <1>4. FirstIsFirst' /\ CleanedIsNotKept'
    BY FirstIsFirstStep, CleanedIsNotKeptStep
  <1>5. EditsAreTaken' /\ OnlyExcused' /\ InstalledIsNoted'
    BY EditsAreTakenStep, OnlyExcusedStep, InstalledIsNotedStep
  <1> QED
    BY <1>1, <1>2, <1>3, <1>4, <1>5

\* The invariants of what a command has been through hold in every state.
THEOREM RedoCorrect == Spec => [](IndInv /\ RedoInv)
  BY IndInit, IndStep, RedoInit, RedoStep, PTL DEF Spec

-----------------------------------------------------------------------------
(* What follows from them.                                                  *)

\* Any two steps of a package come one after the other, but for its
\* installations to different places.
LEMMA OneStepAtATime ==
  ASSUME IndInv, NEW p \in Pkg, NEW s \in StepsOf[p], NEW t \in StepsOf[p], s # t,
         <<p, s>> \notin Done, <<p, t>> \notin Done,
         Pre[<<p, s>>] \subseteq Done, Pre[<<p, t>>] \subseteq Done
  PROVE  /\ {s, t} \subseteq InstallStep
         /\ {s, t} # {"staging_installed", "target_installed"}
  <1> USE DEF Step, DepStep, InstallStep
  <1> DEFINE Late == InstallStep \cup {"installed", "built", "configured"}
  <1>1. \A n \in Done : Pre[n] \subseteq Done
    BY DEF IndInv, DoneIsGood
  <1>2. \A u \in StepsOf[p] : \/ u \in Late
                              \/ u = "rsynced" /\ p \in Override
                              \/ u \in {"patched", "extracted", "downloaded"} /\ p \notin Override
    BY DEF StepsOf, InstallSteps
  <1>3. ASSUME p \notin Override, NEW u \in StepsOf[p], Pre[<<p, u>>] \subseteq Done
        PROVE  /\ u \in Late => <<p, "patched">> \in Done
               /\ u \in Late \cup {"patched"} => <<p, "extracted">> \in Done
               /\ u \in Late \cup {"patched", "extracted"} => <<p, "downloaded">> \in Done
    <2>1. /\ "patched" \in Prereq[p]["configured"] /\ "extracted" \in Prereq[p]["patched"]
          /\ "downloaded" \in Prereq[p]["extracted"]
      BY <1>3 DEF Prereq, Sequencing, StepsOf
    <2>2. u \in Late => <<p, "patched">> \in Done
      BY <1>1, <1>3, <2>1, BehindIt, PrereqDone
    <2>3. u \in Late \cup {"patched"} => <<p, "extracted">> \in Done
      BY <1>1, <1>3, <2>1, <2>2, PrereqDone
    <2>4. u \in Late \cup {"patched", "extracted"} => <<p, "downloaded">> \in Done
      BY <1>1, <1>3, <2>1, <2>3, PrereqDone
    <2> QED
      BY <2>2, <2>3, <2>4
  <1>4. ASSUME NEW u \in StepsOf[p], NEW v \in StepsOf[p], u # v,
               <<p, u>> \notin Done, <<p, v>> \notin Done,
               Pre[<<p, u>>] \subseteq Done, Pre[<<p, v>>] \subseteq Done
        PROVE  u \in InstallStep
    <2>1. u \notin {"patched", "extracted", "downloaded"}
      BY <1>2, <1>3, <1>4
    <2>2. v \notin {"patched", "extracted", "downloaded"}
      BY <1>2, <1>3, <1>4
    <2>3. u # "rsynced" /\ v # "rsynced"
      <3>1. \A w \in StepsOf[p] : w = "rsynced" => p \in Override
        BY <1>2
      <3> QED
        BY <1>2, <1>4, <2>1, <2>2, <3>1, BehindIt
    <2>4. u \in Late /\ v \in Late
      BY <1>2, <2>1, <2>2, <2>3
    <2>5. u # "configured" /\ v # "configured"
      BY <1>4, <2>4, BehindIt
    <2>6. u # "built" /\ v # "built"
      BY <1>4, <2>4, <2>5, BehindIt
    <2>7. u # "installed"
      <3>1. u = "installed" => v \in InstallStep
        BY <1>4, <2>4, <2>5, <2>6
      <3>2. v \in InstallStep => v \in InstallSteps(p)
        BY DEF StepsOf, InstallSteps
      <3> QED
        BY <1>4, <3>1, <3>2, BehindIt
    <2> QED
      BY <2>4, <2>5, <2>6, <2>7
  <1>5. {s, t} \subseteq InstallStep
    BY <1>4
  <1>6. ASSUME NEW u \in StepsOf[p], u = "target_installed", "staging_installed" \in StepsOf[p],
               Pre[<<p, u>>] \subseteq Done
        PROVE  <<p, "staging_installed">> \in Done
    <2>1. "staging_installed" \in Prereq[p][u]
      BY <1>6 DEF Prereq, Sequencing
    <2> QED
      BY <1>6, <2>1, PrereqDone
  <1> QED
    BY <1>5, <1>6

\* Two recipes of one package run together only to install to different
\* places, the staging one before the target one, whatever -j allows.
THEOREM NotOverlapping == Spec => []StepsDoNotOverlap
  <1>1. IndInv /\ RedoInv => StepsDoNotOverlap
    <2> SUFFICES ASSUME IndInv, RedoInv, NEW p \in Pkg, NEW s \in Step, NEW t \in Step,
                        <<p, s>> \in running, <<p, t>> \in running, s # t
                 PROVE  /\ {s, t} \subseteq InstallStep
                        /\ {s, t} # {"staging_installed", "target_installed"}
      BY DEF StepsDoNotOverlap
    <2>1. s \in StepsOf[p] /\ t \in StepsOf[p]
      BY DEF RedoInv, OnlyRealSteps
    <2>2. /\ <<p, s>> \notin Done /\ Pre[<<p, s>>] \subseteq Done
          /\ <<p, t>> \notin Done /\ Pre[<<p, t>>] \subseteq Done
      BY DEF IndInv, RunningIsNext
    <2> QED
      BY <2>1, <2>2, OneStepAtATime
  <1> QED
    BY <1>1, RedoCorrect, PTL

\* A package that was up to date is worked on only as far as a redo target
\* asks, from its being asked for to the end of the command.
THEOREM OnlyAskedCorrect == Spec => []OnlyTheStepsAskedFor
  <1>1. IndInv /\ RedoInv => OnlyTheStepsAskedFor
    <2> SUFFICES ASSUME IndInv, RedoInv, NEW p \in settled, <<p, "dircleaned">> \notin Asked,
                        NEW s \in Step, <<p, s>> \in running \cup made
                 PROVE  Excused(p, s)
      BY DEF OnlyTheStepsAskedFor, Excused
    <2> DEFINE n == <<p, s>>
    <2>1. n \in running \cup Done /\ n[1] = p /\ n[2] = s
      BY DEF Done
    <2> HIDE DEF n
    <2>2. s \in StepsOf[p]
      BY <2>1 DEF RedoInv, OnlyRealSteps
    <2> QED
      BY <2>2 DEF RedoInv, OnlyExcused, Touched
  <1> QED
    BY <1>1, RedoCorrect, PTL

\* A command that configures and installs a package lists what it installs.
THEOREM ListedCorrect == Spec => []FreshlyMadeIsListed
  <1>1. RedoInv => FreshlyMadeIsListed
    BY DEF RedoInv, InstalledIsNoted, Noted, Begun, FreshlyMadeIsListed
  <1> QED
    BY <1>1, RedoCorrect, PTL

\* How a command comes to succeed.
LEMMA OnlySucceed ==
  ASSUME [Next]_vars, status = "running", status' = "ok" PROVE Succeed
  <1>1. ASSUME NEW command, NEW j, Make(command, j) PROVE FALSE
    BY <1>1 DEF Make
  <1>2. ASSUME NEW p \in Pkg, StartStep(p) PROVE FALSE
    BY <1>2, StartStepStarts DEF Starts
  <1>3. ASSUME NEW p \in Pkg, \/ Edit(p) \/ ApplyPatch(p) \/ RefusePatch(p)
                              \/ CheckBinArchFails(p) \/ RemoveStamp(p) \/ StartDirclean(p)
                              \/ RemoveSome(p) \/ FinishDirclean(p)
        PROVE  FALSE
    BY <1>3 DEF Edit, ApplyPatch, RefusePatch, CheckBinArchFails, RemoveStamp, StartDirclean,
                RemoveSome, FinishDirclean, make
  <1>4. ASSUME NEW p \in Pkg, NEW s, \/ Keep(p, s) \/ FinishRecipe(p, s) \/ FailRecipe(p, s)
                                     \/ StartClean(p, s) \/ FinishClean(p, s)
        PROVE  FALSE
    BY <1>4 DEF Keep, FinishRecipe, FailRecipe, StartClean, FinishClean
  <1>5. CASE GiveUp \/ Kill \/ UNCHANGED vars
    BY <1>5 DEF GiveUp, Kill, vars, make
  <1> QED
    BY <1>1, <1>2, <1>3, <1>4, <1>5 DEF Next, User, Progress

\* What a command that succeeds has done to a package it has remade from its
\* build on.
LEMMA Rebuilt ==
  ASSUME IndInv, RedoInv, Succeed, NEW p \in Pkg, <<p, "installed">> \in Asked,
         <<p, "built">> \notin kept, p \in Override => <<p, "rsynced">> \notin kept
  PROVE  ({p} \X (InstallSteps(p) \cup {"built"})) \subseteq made /\ edited[p] = "no"
  <1> USE DEF IndInv, RedoInv
  <1>1. <<p, "installed">> \in Done
    BY DEF Succeed, Complete, Asked
  <1>2. \A s \in StepsOf[p] : <<p, s>> \in Done
    BY <1>1, InstalledIsLast DEF DoneIsGood
  <1>3. {"built"} \cup InstallSteps(p) \subseteq StepsOf[p]
        /\ (p \in Override => "rsynced" \in StepsOf[p])
    BY DEF StepsOf
  <1>4. <<p, "built">> \in made
    BY <1>2, <1>3 DEF Done
  <1>5. p \in Override => <<p, "rsynced">> \in made
    BY <1>2, <1>3 DEF Done
  <1>6. ASSUME NEW s \in InstallSteps(p) PROVE <<p, s>> \in made
    <2>1. s \in StepsOf[p] /\ "built" \in Prereq[p][s]
      BY <1>3 DEF Prereq, Sequencing, InstallSteps, InstallStep, Step
    <2> QED
      BY <1>2, <1>4, <2>1 DEF RemadeAfter, Done
  <1>7. Active /\ edited[p] \in {"no", "source", "tree"}
    BY DEF Succeed, Active, TypeOK
  <1>8. edited[p] = "no"
    BY <1>4, <1>5, <1>7 DEF EditsAreTaken, Taken
  <1> QED
    BY <1>4, <1>6, <1>8

\* A rebuild makes the sources as the user left them and installs the result,
\* with a make that knows .WAIT.
THEOREM RebuildCorrect == ASSUME WaitIsSpecial PROVE Spec => RebuildTakesEdits
  <1> DEFINE Promise ==
        status = "running" /\ status' = "ok" /\ (jobs => Len(plan) = 1) =>
          \A p \in Pkg : <<p, "clean-for-rebuild">> \in AskedFirst =>
            /\ ({p} \X (InstallSteps(p) \cup {"built"})) \subseteq made
            /\ edited[p] = "no"
  <1>1. IndInv /\ RedoInv /\ [Next]_vars => [Promise]_vars
    <2> SUFFICES ASSUME IndInv, RedoInv, [Next]_vars, status = "running", status' = "ok",
                        jobs => Len(plan) = 1, NEW p \in Pkg,
                        <<p, "clean-for-rebuild">> \in AskedFirst
                 PROVE  /\ ({p} \X (InstallSteps(p) \cup {"built"})) \subseteq made
                        /\ edited[p] = "no"
      OBVIOUS
    <2>1. Succeed /\ InTurn
      BY OnlySucceed DEF InTurn
    <2>2. <<p, "installed">> \in Asked
      BY <2>1 DEF RedoInv, FirstIsClean
    <2>3. <<p, "built">> \notin kept /\ (p \in Override => <<p, "rsynced">> \notin kept)
      BY <2>1 DEF RedoInv, CleanedIsNotKept
    <2> QED
      BY <2>1, <2>2, <2>3, Rebuilt
  <1> QED
    BY <1>1, RedoCorrect, PTL DEF Spec, RebuildTakesEdits

\* make <pkg>-dirclean <pkg>, one after the other, makes the package again from
\* its first step to its last.
THEOREM DircleanCorrect == Spec => DircleanStartsOver
  <1> DEFINE Promise ==
        status = "running" /\ status' = "ok" /\ ~jobs =>
          \A p \in Pkg : <<p, "dircleaned">> \in AskedFirst /\ <<p, "installed">> \in Asked =>
            /\ ({p} \X StepsOf[p]) \subseteq made
            /\ p \notin torn /\ edited[p] = "no"
  <1>1. IndInv /\ RedoInv /\ [Next]_vars => [Promise]_vars
    <2> SUFFICES ASSUME IndInv, RedoInv, [Next]_vars, status = "running", status' = "ok",
                        ~jobs, NEW p \in Pkg, <<p, "dircleaned">> \in AskedFirst,
                        <<p, "installed">> \in Asked
                 PROVE  /\ ({p} \X StepsOf[p]) \subseteq made
                        /\ p \notin torn /\ edited[p] = "no"
      OBVIOUS
    <2> USE DEF IndInv, RedoInv
    <2>1. Succeed /\ InTurn
      BY OnlySucceed DEF InTurn
    <2>2. {n \in kept : n[1] = p} = {} /\ (<<p, "dircleaned">> \in made => p \notin torn)
      BY <2>1 DEF CleanedIsNotKept
    <2>3. \A s : <<p, s>> \notin kept
      BY <2>2
    <2>4. Asked \subseteq Done
      BY <2>1 DEF Succeed, Complete, Asked
    <2>5. AskedFirst \subseteq Asked
      <3>1. plan # <<>> /\ 1 \in DOMAIN plan[1] /\ AskedFirst = plan[1][1]
        BY <2>1 DEF AskedFirst, FirstIsClean
      <3>2. 1 \in DOMAIN plan
        BY <3>1 DEF TypeOK
      <3> QED
        BY <3>1, <3>2 DEF Asked
    <2>6. <<p, "dircleaned">> \in made
      BY <2>3, <2>4, <2>5 DEF Done
    <2>7. \A s \in StepsOf[p] : <<p, s>> \in Done
      BY <2>4, InstalledIsLast DEF DoneIsGood
    <2>8. ({p} \X StepsOf[p]) \subseteq made
      BY <2>3, <2>7 DEF Done
    <2>9. edited[p] = "no"
      BY <2>1, <2>3, Rebuilt
    <2> QED
      BY <2>2, <2>6, <2>8, <2>9
  <1> QED
    BY <1>1, RedoCorrect, PTL DEF Spec, DircleanStartsOver

=============================================================================
