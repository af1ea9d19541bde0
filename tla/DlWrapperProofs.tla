-------------------------- MODULE DlWrapperProofs --------------------------
(* The download wrapper keeps its promise for any number of builders, sites *)
(* and hash lines: proofs about DlWrapper.                                  *)
EXTENDS DlWrapper, TLAPS

\* Only the holder of the lock is past it, and there is one at most.
LockHeld ==
  /\ \A b \in Builder : b \in lock <=> pc[b] \notin {"idle", "waiting"}
  /\ \A b, c \in lock : b = c

\* What the holder of the lock knows where it is.
Knows(b) ==
  /\ pc[b] = "copy" => /\ output = Partial /\ FALSE \in CanLink /\ Old # Absent
                       /\ \A c \in Builder : result[c] # "ok"
  /\ pc[b] = "remove" => output \in Wrong(b)
  /\ pc[b] \in {"fetch", "check", "save", "cat", "mv"} => output = Absent
  /\ pc[b] \in {"check", "save", "cat"} => tmpf[b] \in Served
  /\ pc[b] \in {"save", "cat"} => CheckHash(b, tmpf[b]) = IF rc[b] = 0 THEN 0 ELSE 3
  /\ pc[b] = "mv" => /\ tmpout[b] \in Served
                     /\ CheckHash(b, tmpout[b]) = IF rc[b] = 0 THEN 0 ELSE 3
  /\ pc[b] = "return" /\ rc[b] = 0 => output \in Right(b)

Inv == TypeOK /\ LockHeld /\ OkIsAccepted /\ \A b \in Builder : Knows(b)

-----------------------------------------------------------------------------
\* A file is not accepted and contradicted at once, and no file is neither.
LEMMA Contents ==
  /\ Absent \notin Content
  /\ \A b, c \in Builder : Right(b) \cap Wrong(c) = {}
  /\ \A b \in Builder : Right(b) \subseteq Content /\ Wrong(b) \subseteq Content
  /\ Served \subseteq Content /\ Partial \in Content
  /\ Old # Absent => Old \in Content
  BY ConstantsAssumption, HashFilesAgree DEF Content, Right, Wrong

LEMMA InvInit == Init => Inv
  <1> SUFFICES ASSUME Init PROVE Inv
    OBVIOUS
  <1>1. TypeOK
    BY ConstantsAssumption DEF Init, TypeOK, Place
  <1>2. LockHeld /\ OkIsAccepted /\ \A b \in Builder : Knows(b)
    BY DEF Init, LockHeld, OkIsAccepted, Knows
  <1> QED
    BY <1>1, <1>2 DEF Inv

\* Every variable keeps its type.
LEMMA TypeStep == TypeOK /\ [Next]_vars => TypeOK'
  <1> SUFFICES ASSUME TypeOK, [Next]_vars PROVE TypeOK'
    OBVIOUS
  <1> USE ConstantsAssumption, Contents DEF TypeOK, Place, Go, Fault, local
  <1>1. ASSUME NEW b \in Builder, Call(b) PROVE TypeOK'
    BY <1>1 DEF Call
  <1>2. ASSUME NEW b \in Builder, Kill(b) PROVE TypeOK'
    BY <1>2 DEF Kill
  <1>3. ASSUME NEW b \in Builder, Return(b) PROVE TypeOK'
    BY <1>3 DEF Return
  <1>4. ASSUME NEW b \in Builder, Lock(b) PROVE TypeOK'
    BY <1>4 DEF Lock
  <1>5. ASSUME NEW b \in Builder, LookElsewhere(b) PROVE TypeOK'
    BY <1>5 DEF LookElsewhere
  <1>6. ASSUME NEW b \in Builder, Link(b) PROVE TypeOK'
    BY <1>6 DEF Link
  <1>7. ASSUME NEW b \in Builder, StartCopy(b) PROVE TypeOK'
    <2>1. pc' \in [Builder -> Place]
      BY ZenonT(60), <1>7 DEF StartCopy
    <2>2. faults' \in 0..MaxFaults
      BY <1>7 DEF StartCopy
    <2>3. output' \in Content \cup {Absent}
      BY <1>7 DEF StartCopy
    <2> QED
      BY <1>7, <2>1, <2>2, <2>3 DEF StartCopy
  <1>8. ASSUME NEW b \in Builder, EndCopy(b) PROVE TypeOK'
    BY <1>8 DEF EndCopy
  <1>9. ASSUME NEW b \in Builder, CheckExisting(b) PROVE TypeOK'
    BY <1>9 DEF CheckExisting
  <1>10. ASSUME NEW b \in Builder, Remove(b) PROVE TypeOK'
    BY <1>10 DEF Remove
  <1>11. ASSUME NEW b \in Builder, NotThere(b) PROVE TypeOK'
    BY <1>11 DEF NotThere
  <1>12. ASSUME NEW b \in Builder, Fetch(b) PROVE TypeOK'
    BY <1>12 DEF Fetch
  <1>13. ASSUME NEW b \in Builder, FetchFails(b) PROVE TypeOK'
    BY <1>13 DEF FetchFails
  <1>14. ASSUME NEW b \in Builder, NoMoreSites(b) PROVE TypeOK'
    BY <1>14 DEF NoMoreSites
  <1>15. ASSUME NEW b \in Builder, CheckNew(b) PROVE TypeOK'
    BY ZenonT(60), <1>15 DEF CheckNew
  <1>16. ASSUME NEW b \in Builder, Save(b) PROVE TypeOK'
    BY <1>16 DEF Save
  <1>17. ASSUME NEW b \in Builder, Cat(b) PROVE TypeOK'
    BY <1>17 DEF Cat
  <1>18. ASSUME NEW b \in Builder, SaveFails(b) PROVE TypeOK'
    BY <1>18 DEF SaveFails
  <1>19. ASSUME NEW b \in Builder, Mv(b) PROVE TypeOK'
    BY <1>19 DEF Mv
  <1>20. CASE UNCHANGED vars
    BY <1>20 DEF vars
  <1> QED
    BY <1>1, <1>2, <1>3, <1>4, <1>5, <1>6, <1>7, <1>8, <1>9, <1>10, <1>11, <1>12,
       <1>13, <1>14, <1>15, <1>16, <1>17, <1>18, <1>19, <1>20 DEF Next, Run

\* A step of one builder past the lock: the others are not, so that what they
\* know is nothing; the file that one of them relies on may not go.
LEMMA HolderStep ==
  ASSUME Inv, TypeOK', NEW b \in Builder, b \in lock,
         \A c \in Builder \ {b} : pc'[c] = pc[c] /\ result'[c] = result[c],
         \/ lock' = lock /\ pc'[b] \notin {"idle", "waiting"}
         \/ lock' = lock \ {b} /\ pc'[b] = "idle",
         Knows(b)', result'[b] = "ok" => output' \in Right(b),
         \/ output' = output
         \/ \A c \in Builder : output \notin Right(c)
         \/ \A c \in Builder : result[c] # "ok"
  PROVE  Inv'
  <1>1. \A c \in Builder \ {b} : pc[c] \in {"idle", "waiting"}
    BY DEF Inv, LockHeld
  <1>2. LockHeld'
    BY <1>1 DEF Inv, LockHeld, TypeOK
  <1>3. OkIsAccepted'
    BY DEF Inv, OkIsAccepted
  <1>4. \A c \in Builder : Knows(c)'
    BY <1>1 DEF Knows
  <1> QED
    BY <1>2, <1>3, <1>4 DEF Inv

\* What one builder relies on, another keeps: the invariant of the wrapper.
LEMMA InvStep == Inv /\ [Next]_vars => Inv'
  <1> SUFFICES ASSUME Inv, [Next]_vars PROVE Inv'
    OBVIOUS
  <1>0. TypeOK /\ TypeOK'
    BY TypeStep DEF Inv
  <1> USE <1>0
  <1>1. ASSUME NEW b \in Builder, Call(b) PROVE Inv'
    <2>1. UNCHANGED <<output, lock, rc, tmpf, tmpout>>
          /\ \A c \in Builder : /\ c # b => pc'[c] = pc[c] /\ result'[c] = result[c]
                                /\ c = b => pc'[c] = "waiting" /\ result'[c] = "none"
          /\ pc[b] = "idle"
      BY <1>1 DEF Call, Go, TypeOK, local
    <2> QED
      BY ZenonT(60), <2>1 DEF Inv, LockHeld, OkIsAccepted, Knows
  <1>2. ASSUME NEW b \in Builder, Kill(b) PROVE Inv'
    <2>1. /\ UNCHANGED <<output, rc>> /\ lock' = lock \ {b}
          /\ \A c \in Builder :
               /\ c # b => /\ pc'[c] = pc[c] /\ result'[c] = result[c]
                           /\ tmpf'[c] = tmpf[c] /\ tmpout'[c] = tmpout[c]
               /\ c = b => pc'[c] = "idle" /\ result'[c] = "failed"
      BY <1>2 DEF Kill, Go, TypeOK
    <2>2. LockHeld'
      BY <2>1 DEF Inv, LockHeld
    <2>3. OkIsAccepted'
      BY <2>1 DEF Inv, OkIsAccepted
    <2>4. \A c \in Builder : Knows(c)'
      BY ZenonT(60), <2>1 DEF Inv, Knows
    <2> QED
      BY <2>2, <2>3, <2>4 DEF Inv
  <1>3. ASSUME NEW b \in Builder, Lock(b) PROVE Inv'
    <2>1. /\ UNCHANGED <<output, result, tmpf, tmpout>> /\ lock = {} /\ lock' = {b}
          /\ \A c \in Builder : /\ c # b => pc'[c] = pc[c] /\ rc'[c] = rc[c]
                                /\ c = b => pc'[c] = "look"
      BY <1>3 DEF Lock, Go, TypeOK
    <2>2. LockHeld'
      BY <2>1 DEF Inv, LockHeld
    <2>3. \A c \in Builder : Knows(c)'
      BY <2>1 DEF Inv, LockHeld, Knows
    <2> QED
      BY <2>1, <2>2, <2>3 DEF Inv, OkIsAccepted
  <1>4. ASSUME NEW b \in Builder, Return(b) PROVE Inv'
    <2>1. b \in lock /\ pc[b] = "return"
      BY <1>4 DEF Return, Inv, LockHeld
    <2>2. /\ output' = output /\ lock' = lock \ {b} /\ pc'[b] = "idle"
          /\ \A c \in Builder \ {b} : pc'[c] = pc[c] /\ result'[c] = result[c]
          /\ result'[b] = "ok" => rc[b] = 0
      BY <1>4 DEF Return, Go, TypeOK
    <2>3. Knows(b)'
      BY <2>2 DEF Knows
    <2> QED
      BY <2>1, <2>2, <2>3, HolderStep DEF Inv, Knows
  <1>5. ASSUME NEW b \in Builder, LookElsewhere(b) \/ NotThere(b) \/ FetchFails(b)
        PROVE  Inv'
    <2>1. b \in lock
      BY <1>5 DEF LookElsewhere, NotThere, FetchFails, Inv, LockHeld
    <2>2. UNCHANGED <<output, lock, result, tmpf, tmpout, rc>>
          /\ (\A c \in Builder \ {b} : pc'[c] = pc[c])
          /\ (pc'[b] = "exists" \/ (pc'[b] = "fetch" /\ output = Absent))
      BY <1>5 DEF LookElsewhere, NotThere, FetchFails, Go, TypeOK, local, Inv, Knows
    <2>3. Knows(b)'
      BY <2>2 DEF Knows
    <2>4. result'[b] = "ok" => output' \in Right(b)
      BY <2>2 DEF Inv, OkIsAccepted
    <2> QED
      BY <2>1, <2>2, <2>3, <2>4, HolderStep
  <1>6. ASSUME NEW b \in Builder, Link(b) \/ StartCopy(b) \/ EndCopy(b) PROVE Inv'
    <2>1. b \in lock /\ \A c \in Builder : result[c] # "ok"
      BY ZenonT(60), <1>6, Contents
      DEF Link, StartCopy, EndCopy, Inv, LockHeld, Knows, OkIsAccepted
    <2>2. UNCHANGED <<lock, result, tmpf, tmpout, rc>>
          /\ (\A c \in Builder \ {b} : pc'[c] = pc[c])
          /\ \/ pc'[b] = "exists"
             \/ pc'[b] = "copy" /\ output' = Partial /\ FALSE \in CanLink /\ Old # Absent
      BY <1>6 DEF Link, StartCopy, EndCopy, Go, TypeOK, local
    <2>3. Knows(b)'
      BY <2>1, <2>2 DEF Knows
    <2> QED
      BY <2>1, <2>2, <2>3, HolderStep
  <1>7. ASSUME NEW b \in Builder, CheckExisting(b) PROVE Inv'
    <2>1. b \in lock /\ output \in Content
      BY <1>7 DEF CheckExisting, Inv, LockHeld, TypeOK
    <2>2. UNCHANGED <<output, lock, result>>
          /\ (\A c \in Builder \ {b} : pc'[c] = pc[c])
          /\ \/ pc'[b] = "remove" /\ CheckHash(b, output) = 2
             \/ pc'[b] = "return" /\ (rc'[b] = 0 => CheckHash(b, output) = 0)
      BY <1>7 DEF CheckExisting, Go, TypeOK
    <2>3. Knows(b)'
      BY <2>1, <2>2 DEF Knows, Right, Wrong
    <2>4. result'[b] = "ok" => output' \in Right(b)
      BY <2>2 DEF Inv, OkIsAccepted
    <2> QED
      BY <2>1, <2>2, <2>3, <2>4, HolderStep
  <1>8. ASSUME NEW b \in Builder, Remove(b) PROVE Inv'
    <2>1. b \in lock /\ \A c \in Builder : output \notin Right(c)
      BY <1>8, Contents DEF Remove, Inv, LockHeld, Knows
    <2>2. UNCHANGED <<lock, result>> /\ output' = Absent /\ pc'[b] = "fetch"
          /\ \A c \in Builder \ {b} : pc'[c] = pc[c]
      BY <1>8 DEF Remove, Go, TypeOK
    <2>3. Knows(b)' /\ result[b] # "ok"
      BY <2>1, <2>2 DEF Knows, Inv, OkIsAccepted
    <2> QED
      BY <2>1, <2>2, <2>3, HolderStep
  <1>9. ASSUME NEW b \in Builder, Fetch(b) PROVE Inv'
    <2>1. b \in lock /\ output = Absent
      BY <1>9 DEF Fetch, Inv, LockHeld, Knows
    <2>2. UNCHANGED <<output, lock, result>> /\ pc'[b] = "check" /\ tmpf'[b] \in Served
          /\ \A c \in Builder \ {b} : pc'[c] = pc[c]
      BY <1>9 DEF Fetch, Go, TypeOK
    <2>3. Knows(b)'
      BY <2>1, <2>2 DEF Knows
    <2>4. result'[b] = "ok" => output' \in Right(b)
      BY <2>2 DEF Inv, OkIsAccepted
    <2> QED
      BY <2>1, <2>2, <2>3, <2>4, HolderStep
  <1>10. ASSUME NEW b \in Builder, NoMoreSites(b) \/ SaveFails(b) PROVE Inv'
    <2>1. b \in lock
      BY <1>10 DEF NoMoreSites, SaveFails, Inv, LockHeld
    <2>2. UNCHANGED <<output, lock, result>> /\ pc'[b] = "return" /\ rc'[b] = 1
          /\ \A c \in Builder \ {b} : pc'[c] = pc[c]
      BY <1>10 DEF NoMoreSites, SaveFails, Go, TypeOK
    <2>3. Knows(b)'
      BY <2>1, <2>2 DEF Knows
    <2>4. result'[b] = "ok" => output' \in Right(b)
      BY <2>2 DEF Inv, OkIsAccepted
    <2> QED
      BY <2>1, <2>2, <2>3, <2>4, HolderStep
  <1>11. ASSUME NEW b \in Builder, CheckNew(b) PROVE Inv'
    <2>1. b \in lock /\ output = Absent /\ tmpf[b] \in Served
      BY <1>11 DEF CheckNew, Inv, LockHeld, Knows
    <2>2. UNCHANGED <<output, lock, result>>
          /\ (\A c \in Builder \ {b} : pc'[c] = pc[c])
          /\ \/ pc'[b] = "fetch"
             \/ /\ pc'[b] = "save" /\ tmpf'[b] = tmpf[b]
                /\ CheckHash(b, tmpf[b]) = IF rc'[b] = 0 THEN 0 ELSE 3
      BY <1>11 DEF CheckNew, Go, TypeOK
    <2>3. Knows(b)'
      BY <2>1, <2>2 DEF Knows
    <2>4. result'[b] = "ok" => output' \in Right(b)
      BY <2>2 DEF Inv, OkIsAccepted
    <2> QED
      BY <2>1, <2>2, <2>3, <2>4, HolderStep
  <1>12. ASSUME NEW b \in Builder, Save(b) \/ Cat(b) PROVE Inv'
    <2>1. b \in lock /\ output = Absent /\ tmpf[b] \in Served
          /\ CheckHash(b, tmpf[b]) = IF rc[b] = 0 THEN 0 ELSE 3
      BY <1>12 DEF Save, Cat, Inv, LockHeld, Knows
    <2>2. UNCHANGED <<output, lock, result, rc>>
          /\ (\A c \in Builder \ {b} : pc'[c] = pc[c])
          /\ \/ pc'[b] = "cat" /\ tmpf'[b] = tmpf[b]
             \/ pc'[b] = "mv" /\ tmpout'[b] = tmpf[b]
      BY <1>12 DEF Save, Cat, Go, TypeOK
    <2>3. Knows(b)'
      BY <2>1, <2>2 DEF Knows
    <2>4. result'[b] = "ok" => output' \in Right(b)
      BY <2>2 DEF Inv, OkIsAccepted
    <2> QED
      BY <2>1, <2>2, <2>3, <2>4, HolderStep
  <1>13. ASSUME NEW b \in Builder, Mv(b) PROVE Inv'
    <2>1. /\ b \in lock /\ (\A c \in Builder : output \notin Right(c))
          /\ tmpout[b] \in Content
          /\ rc[b] = 0 => tmpout[b] \in Right(b)
      BY <1>13, Contents DEF Mv, Inv, LockHeld, Knows, Right
    <2>2. UNCHANGED <<lock, result, rc>> /\ output' = tmpout[b] /\ pc'[b] = "return"
          /\ \A c \in Builder \ {b} : pc'[c] = pc[c]
      BY <1>13 DEF Mv, Go, TypeOK
    <2>3. Knows(b)' /\ result[b] # "ok"
      BY <2>1, <2>2 DEF Knows, Inv, OkIsAccepted
    <2> QED
      BY <2>1, <2>2, <2>3, HolderStep
  <1>14. CASE UNCHANGED vars
    BY <1>14 DEF vars, local, Inv, LockHeld, OkIsAccepted, Knows, TypeOK
  <1> QED
    BY <1>1, <1>2, <1>3, <1>4, <1>5, <1>6, <1>7, <1>8, <1>9, <1>10, <1>11, <1>12,
       <1>13, <1>14 DEF Next, Run

LEMMA Invariance == Spec => []Inv
  BY InvInit, InvStep, PTL DEF Spec

\* A file of which a call said ok stays there, uncontradicted, until the same
\* builder calls again, whatever calls of others do, fail or are killed.
THEOREM OkCorrect == Spec => []OkIsAccepted
  <1>1. Inv => OkIsAccepted
    BY DEF Inv
  <1> QED
    BY <1>1, Invariance, PTL

\* Where a hash file is there, and the file is not exempt, nobody is told ok of
\* the beginning of a file.
THEOREM WholeCorrect == HashFile /\ ~Excluded => (Spec => []OkIsWhole)
  <1> SUFFICES ASSUME HashFile, ~Excluded PROVE Spec => []OkIsWhole
    OBVIOUS
  <1>1. ASSUME NEW b \in Builder PROVE Partial \notin Right(b)
    <2>1. Lines[b] \in Seq(Served \cup {Unknown}) /\ Partial \notin Served \cup {Unknown}
      BY ConstantsAssumption
    <2>2. CASE Lines[b] = <<>>
      BY <2>2 DEF Right, CheckHash
    <2>3. CASE Lines[b] # <<>>
      <3>1. 1 \in DOMAIN Lines[b] /\ Lines[b][1] # Partial
        BY <2>1, <2>3
      <3>2. CheckHash(b, Partial) \in {2, 4}
        BY <3>1 DEF CheckHash
      <3> QED
        BY <3>2 DEF Right
    <2> QED
      BY <2>2, <2>3
  <1>2. OkIsAccepted => OkIsWhole
    BY <1>1 DEF OkIsAccepted, OkIsWhole
  <1> QED
    BY <1>2, OkCorrect, PTL

\* A file goes only if one of its hashes is wrong.
THEOREM RemovalCorrect == Spec => RemovedOnlyIfWrong
  <1>1. ASSUME Inv, [Next]_vars
        PROVE  [output # Absent /\ output' # output =>
                  output = Partial \/ \E b \in Builder : output \in Wrong(b)]_vars
    <2>1. ASSUME NEW b \in Builder, Remove(b) \/ EndCopy(b)
          PROVE  output = Partial \/ output \in Wrong(b)
      <3>1. Knows(b)
        BY <1>1 DEF Inv
      <3> QED
        BY <2>1, <3>1 DEF Remove, EndCopy, Knows
    <2>2. ASSUME NEW b \in Builder, Mv(b) PROVE output = Absent
      <3>1. Knows(b)
        BY <1>1 DEF Inv
      <3> QED
        BY <2>2, <3>1 DEF Mv, Knows
    <2>3. ASSUME NEW b \in Builder,
                 Call(b) \/ Kill(b) \/ Return(b) \/ Lock(b) \/ LookElsewhere(b)
                 \/ CheckExisting(b) \/ NotThere(b) \/ Fetch(b) \/ FetchFails(b)
                 \/ NoMoreSites(b) \/ CheckNew(b) \/ Save(b) \/ Cat(b) \/ SaveFails(b)
          PROVE  output' = output
      BY <2>3 DEF Call, Kill, Return, Lock, LookElsewhere, CheckExisting, NotThere, Fetch,
                  FetchFails, NoMoreSites, CheckNew, Save, Cat, SaveFails
    <2>4. ASSUME NEW b \in Builder, Link(b) \/ StartCopy(b) PROVE output = Absent
      BY <2>4 DEF Link, StartCopy
    <2> QED
      BY <1>1, <2>1, <2>2, <2>3, <2>4 DEF Next, Run
  <1> QED
    BY <1>1, Invariance, PTL DEF Spec, RemovedOnlyIfWrong

-----------------------------------------------------------------------------
\* In the abstract cache, a caller waits for its answer unless it is idle.
Answer == [b \in Builder |-> IF pc[b] = "idle" THEN result[b] ELSE "pending"]

\* A step that leaves the file alone, of a call that goes on.
LEMMA Inside ==
  ASSUME NEW b \in Builder, TypeOK, output' = output, result' = result,
         pc[b] # "idle", NEW place \in Place \ {"idle"}, Go(b, place)
  PROVE  Answer' = Answer
  BY DEF Answer, Go, TypeOK

\* A step that changes the file does not answer either.
LEMMA InsideToo ==
  ASSUME NEW b \in Builder, TypeOK, result' = result,
         pc[b] # "idle", NEW place \in Place \ {"idle"}, Go(b, place)
  PROVE  Answer' = Answer /\ Answer[b] = "pending"
  BY DEF Answer, Go, TypeOK

\* One builder begins or ends a call.
LEMMA Answers ==
  ASSUME NEW b \in Builder, TypeOK, TypeOK', NEW r, result' = [result EXCEPT ![b] = r],
         NEW place \in Place, Go(b, place)
  PROVE  Answer' = [Answer EXCEPT ![b] = IF place = "idle" THEN r ELSE "pending"]
  BY DEF Answer, Go, TypeOK

\* What the abstract cache takes for the file, which no other caller changes
\* while one copies it.
File == IF \E b \in Builder : pc[b] = "copy" THEN Absent ELSE output
Torn == IF FALSE \in CanLink THEN {Partial} ELSE {}

\* While one holds the lock, nobody else copies.
LEMMA OneCopies ==
  ASSUME LockHeld, NEW b \in Builder, b \in lock, NEW c \in Builder, c # b
  PROVE  pc[c] # "copy"
  BY DEF LockHeld

\* A step of the holder of the lock, before and after which it does not copy.
LEMMA FileIs ==
  ASSUME LockHeld, NEW b \in Builder, b \in lock, pc[b] # "copy",
         \A c \in Builder \ {b} : pc'[c] = pc[c]
  PROVE  /\ File = output
         /\ pc'[b] # "copy" => File' = output'
         /\ pc'[b] = "copy" => File' = Absent
  BY OneCopies DEF File

\* The step that begins or ends a call of one that does not copy changes the
\* file for nobody.
LEMMA FileStays ==
  ASSUME NEW b \in Builder, pc[b] # "copy", pc'[b] # "copy", output' = output,
         \A c \in Builder \ {b} : pc'[c] = pc[c]
  PROVE  File' = File
  BY DEF File

\* What place a step leads to.
LEMMA Goes ==
  ASSUME TypeOK, NEW b \in Builder, NEW place \in Place, Go(b, place)
  PROVE  pc'[b] = place /\ \A c \in Builder \ {b} : pc'[c] = pc[c]
  BY DEF Go, TypeOK

\* The wrapper implements the cache its callers rely on: what a call does to
\* the file in its many steps, some of which fail or never happen, looks like
\* one step or none.
THEOREM Implements == Spec => ImplementsCache
  <1>1. Init => Cache!Init
    BY DEF Init, Cache!Init
  <1>2. ASSUME Inv, Inv', [Next]_vars PROVE [Cache!Next]_(Cache!vars)
    <2>0. TypeOK /\ TypeOK' /\ LockHeld /\ \A b \in Builder : Knows(b)
      BY <1>2 DEF Inv
    <2>1. ASSUME NEW b \in Builder, Call(b) PROVE Cache!Ask(b)
      <3>1. Answer' = [Answer EXCEPT ![b] = "pending"]
        BY <2>0, <2>1, Answers DEF Call, Place
      <3>2. /\ pc[b] = "idle" /\ pc'[b] = "waiting" /\ output' = output
            /\ \A c \in Builder \ {b} : pc'[c] = pc[c]
        BY <2>0, <2>1, Goes DEF Call, Place
      <3>3. File' = File
        BY <3>2, FileStays
      <3>4. Answer[b] # "pending"
        BY <2>0, <3>2 DEF Answer, TypeOK
      <3> QED
        BY <3>1, <3>3, <3>4 DEF Cache!Ask, Cache!Tell, Answer, File
    <2>2. ASSUME NEW b \in Builder, Kill(b) PROVE Cache!Fail(b)
      <3>1. Answer' = [Answer EXCEPT ![b] = "failed"] /\ Answer[b] = "pending"
        BY <2>0, <2>2, Answers DEF Kill, Place, Answer
      <3>2. /\ pc'[b] = "idle" /\ output' = output
            /\ \A c \in Builder \ {b} : pc'[c] = pc[c]
        BY <2>0, <2>2, Goes DEF Kill, Place
      <3>3. CASE pc[b] = "copy"
        <4>1. b \in lock /\ output = Partial /\ FALSE \in CanLink
          BY <2>0, <3>3 DEF LockHeld, Knows
        <4>2. \A c \in Builder : pc'[c] # "copy"
          BY <2>0, <4>1, <3>2, OneCopies
        <4>3. File = Absent /\ File' = Partial
          BY <3>2, <3>3, <4>1, <4>2 DEF File
        <4>4. File' \in Torn
          BY <4>1, <4>3 DEF Torn
        <4> QED
          BY <3>1, <4>3, <4>4 DEF Cache!Fail, Cache!Tell, Answer, File, Torn
      <3>4. CASE pc[b] # "copy"
        <4>1. File' = File
          BY <3>2, <3>4, FileStays
        <4> QED
          BY <3>1, <4>1 DEF Cache!Fail, Cache!Tell, Answer, File
      <3> QED
        BY <3>3, <3>4
    <2>3. ASSUME NEW b \in Builder, Return(b) PROVE Cache!Succeed(b) \/ Cache!Fail(b)
      <3>1. Answer' = [Answer EXCEPT ![b] = IF rc[b] = 0 THEN "ok" ELSE "failed"]
        BY <2>0, <2>3, Answers DEF Return, Place
      <3>2. /\ output' = output /\ pc[b] = "return" /\ Answer[b] = "pending"
            /\ rc[b] = 0 => output \in Right(b)
        BY <2>0, <2>3 DEF Return, Knows, Answer
      <3>3. pc'[b] = "idle" /\ b \in lock /\ \A c \in Builder \ {b} : pc'[c] = pc[c]
        BY <2>0, <2>3, <3>2, Goes DEF Return, Place, LockHeld
      <3>4. File = output /\ File' = output
        BY <2>0, <3>2, <3>3, FileIs
      <3>5. CASE rc[b] = 0
        BY <3>1, <3>2, <3>4, <3>5 DEF Cache!Succeed, Cache!Tell, Answer, File
      <3>6. CASE rc[b] # 0
        BY <3>1, <3>2, <3>4, <3>6 DEF Cache!Fail, Cache!Tell, Answer, File
      <3> QED
        BY <3>5, <3>6
    <2>4. ASSUME NEW b \in Builder, Remove(b) PROVE Cache!Discard(b)
      <3>1. Answer' = Answer /\ Answer[b] = "pending"
        BY <2>0, <2>4, InsideToo DEF Remove, Place, local
      <3>2. /\ pc[b] = "remove" /\ pc'[b] = "fetch" /\ b \in lock
            /\ \A c \in Builder \ {b} : pc'[c] = pc[c]
        BY <2>0, <2>4, Goes DEF Remove, Place, LockHeld
      <3>3. File = output /\ File' = output'
        BY <2>0, <3>2, FileIs
      <3>4. output \in Wrong(b) /\ output' = Absent
        BY <2>0, <2>4 DEF Remove, Knows
      <3> QED
        BY <3>1, <3>3, <3>4 DEF Cache!Discard, Answer, File
    <2>5. ASSUME NEW b \in Builder, Link(b) PROVE Cache!Store(b)
      <3>1. Answer' = Answer /\ Answer[b] = "pending"
        BY <2>0, <2>5, InsideToo DEF Link, Place, local
      <3>2. /\ pc[b] = "look" /\ pc'[b] = "exists" /\ b \in lock
            /\ \A c \in Builder \ {b} : pc'[c] = pc[c]
        BY <2>0, <2>5, Goes DEF Link, Place, LockHeld
      <3>3. File = output /\ File' = output'
        BY <2>0, <3>2, FileIs
      <3>4. output = Absent /\ output' = Old /\ Old # Absent
        BY <2>5 DEF Link
      <3> QED
        BY <3>1, <3>3, <3>4 DEF Cache!Store, Answer, File
    <2>6. ASSUME NEW b \in Builder, Mv(b) PROVE Cache!Store(b)
      <3>1. Answer' = Answer /\ Answer[b] = "pending"
        BY <2>0, <2>6, InsideToo DEF Mv, Place, local
      <3>2. /\ output = Absent /\ output' = tmpout[b] /\ tmpout[b] \in Served
            /\ CheckHash(b, tmpout[b]) # 2
        <4>1. pc[b] = "mv" /\ output' = tmpout[b]
          BY <2>6 DEF Mv
        <4>2. /\ output = Absent /\ tmpout[b] \in Served
              /\ CheckHash(b, tmpout[b]) = IF rc[b] = 0 THEN 0 ELSE 3
          BY <2>0, <4>1 DEF Knows
        <4> QED
          BY <4>1, <4>2
      <3>3. tmpout[b] \in Content \ Wrong(b)
        BY <3>2, Contents DEF Wrong
      <3>4. /\ pc[b] = "mv" /\ pc'[b] = "return" /\ b \in lock
            /\ \A c \in Builder \ {b} : pc'[c] = pc[c]
        BY <2>0, <2>6, Goes DEF Mv, Place, LockHeld
      <3>5. File = output /\ File' = output'
        BY <2>0, <3>4, FileIs
      <3> QED
        BY <3>1, <3>2, <3>3, <3>5 DEF Cache!Store, Answer, File
    <2>7. ASSUME NEW b \in Builder, EndCopy(b) PROVE Cache!Store(b)
      <3>1. Answer' = Answer /\ Answer[b] = "pending"
        BY <2>0, <2>7, InsideToo DEF EndCopy, Place, local
      <3>2. /\ pc[b] = "copy" /\ pc'[b] = "exists" /\ b \in lock
            /\ \A c \in Builder \ {b} : pc'[c] = pc[c]
        BY <2>0, <2>7, Goes DEF EndCopy, Place, LockHeld
      <3>3. \A c \in Builder : pc'[c] # "copy"
        BY <2>0, <3>2, OneCopies
      <3>4. File = Absent /\ File' = output'
        BY <3>2, <3>3 DEF File
      <3>5. output = Partial /\ FALSE \in CanLink /\ Old # Absent
        BY <2>0, <3>2 DEF Knows
      <3>6. output' \in ({Old} \ {Absent}) \cup Torn
        BY <2>7, <3>5 DEF EndCopy, Torn
      <3> QED
        BY <3>1, <3>4, <3>6 DEF Cache!Store, Answer, File, Torn
    <2>8. ASSUME NEW b \in Builder, StartCopy(b) PROVE File' = File /\ Answer' = Answer
      <3>1. Answer' = Answer
        <4>1. \E place \in Place \ {"idle"} : Go(b, place)
          BY <2>8 DEF StartCopy, Place
        <4> QED
          BY <2>0, <2>8, <4>1, InsideToo DEF StartCopy, local
      <3>2. /\ pc[b] = "look" /\ output = Absent /\ b \in lock
            /\ \A c \in Builder \ {b} : pc'[c] = pc[c]
            /\ \/ pc'[b] = "copy"
               \/ pc'[b] = "exists" /\ output' = output
        BY <2>0, <2>8, Goes DEF StartCopy, Place, LockHeld
      <3> QED
        BY <2>0, <3>1, <3>2, FileIs
    <2>9. ASSUME NEW b \in Builder,
                 Lock(b) \/ LookElsewhere(b) \/ NotThere(b) \/ Fetch(b)
                 \/ NoMoreSites(b) \/ Save(b) \/ Cat(b) \/ SaveFails(b)
                 \/ CheckExisting(b) \/ CheckNew(b)
          PROVE  File' = File /\ Answer' = Answer
      <3>1. /\ output' = output /\ result' = result /\ pc[b] \notin {"idle", "copy"}
            /\ \E place \in Place \ {"idle", "copy"} : Go(b, place)
        <4>1. CASE CheckExisting(b) \/ CheckNew(b)
          BY <4>1 DEF CheckExisting, CheckNew, Place
        <4>2. CASE ~(CheckExisting(b) \/ CheckNew(b))
          BY <2>9, <4>2 DEF Lock, LookElsewhere, NotThere, Fetch, NoMoreSites, Save, Cat,
                            SaveFails, Place
        <4> QED
          BY <4>1, <4>2
      <3>2. PICK place \in Place \ {"idle", "copy"} : Go(b, place)
        BY <3>1
      <3>3. File' = File
        BY <2>0, <3>1, <3>2, Goes, FileStays
      <3> QED
        BY <2>0, <3>1, <3>2, <3>3, Inside
    <2>10. ASSUME NEW b \in Builder, FetchFails(b)
           PROVE  File' = File /\ Answer' = Answer
      BY <2>10 DEF FetchFails, vars, Answer, File
    <2>11. CASE UNCHANGED vars
      BY <2>11 DEF vars, Cache!vars
    <2>12. CASE Next
      <3>1. PICK b \in Builder : Call(b) \/ Run(b) \/ Kill(b)
        BY <2>12 DEF Next
      <3>2. CASE Cache!Next
        BY <3>2
      <3>3. CASE File' = File /\ Answer' = Answer
        BY <3>3 DEF Cache!vars, Answer, File
      <3> QED
        BY <2>1, <2>2, <2>3, <2>4, <2>5, <2>6, <2>7, <2>8, <2>9, <2>10, <3>1, <3>2, <3>3
        DEF Run, Cache!Next
    <2> QED
      BY <1>2, <2>11, <2>12
  <1> QED
    BY <1>1, <1>2, Invariance, PTL DEF Spec, ImplementsCache, Cache!Spec

=============================================================================
