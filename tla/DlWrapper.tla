----------------------------- MODULE DlWrapper -----------------------------
(* support/download/dl-wrapper and check-hash, as package/pkg-download.mk  *)
(* calls them: several builds (or several packages of one build) that      *)
(* share a download directory want the same file, each with the hash files *)
(* of its own tree.  A call runs under flock; it may find the file there,  *)
(* or at the place former versions of Buildroot kept it, or go through the *)
(* download sites.  Calls may be killed, and copies may fail half-way.     *)
EXTENDS Naturals, Sequences

CONSTANTS
  Builder,   \* the callers
  Served,    \* what a site may deliver under the name of the file
  Partial,   \* the beginning of a file
  Absent,    \* no file
  Old,       \* the file in the former place (old_dl_dir), or Absent
  CanLink,   \* whether ln works from there: what may be the case
  HashFile,  \* some hash file of the package exists
  Lines,     \* the lines that name this file in the hash files of a builder, in
             \* order: the content with that hash, or Unknown if the type of hash
             \* is not known
  Unknown,
  Excluded,  \* BR_NO_CHECK_HASH_FOR names the file
  Sites,     \* how many uris are given
  MaxCalls,  \* bound: calls by each builder
  MaxFaults  \* bound: killed calls and failed copies

Content == Served \cup {Partial} \cup ({Old} \ {Absent})

ASSUME ConstantsAssumption ==
  /\ Absent \notin Served \cup {Partial, Unknown}
  /\ Partial \notin Served /\ Unknown \notin Served \cup {Partial}
  /\ Old \in Served \cup {Absent}
  /\ {HashFile, Excluded} \cup CanLink \subseteq BOOLEAN
  /\ Lines \in [Builder -> Seq(Served \cup {Unknown})]
  /\ (\E b \in Builder : Lines[b] # <<>>) => HashFile
  /\ {Sites, MaxCalls, MaxFaults} \subseteq Nat

\* The exit code of check-hash: of the first line that is not satisfied, or
\* for want of any line, or 0.
CheckHash(b, c) ==
  LET wrong == {i \in DOMAIN Lines[b] : Lines[b][i] # c}
      first == CHOOSE i \in wrong : \A j \in wrong : i <= j
  IN  IF wrong # {} THEN IF Lines[b][first] = Unknown THEN 4 ELSE 2
      ELSE IF HashFile /\ Lines[b] = <<>> /\ ~Excluded THEN 3 ELSE 0

Right(b) == {c \in Content : CheckHash(b, c) = 0}
Wrong(b) == {c \in Content : CheckHash(b, c) = 2}

\* The trees may be of different versions, but no two contradict each other.
ASSUME HashFilesAgree == \A b, c \in Builder : Right(b) \cap Wrong(c) = {}

-----------------------------------------------------------------------------
VARIABLES
  output,   \* the file in the download directory
  lock,     \* who holds <pkg>_DL_DIR/.lock
  pc,       \* where the call of a builder is
  site,     \* uris it has tried
  tmpf,     \* what it has downloaded to its temporary directory
  tmpout,   \* its temporary file in the download directory
  rc,       \* the exit status it is about to return
  result,   \* of its last call
  calls, faults  \* used of the bounds

local == <<site, tmpf, tmpout, rc>>
vars == <<output, lock, pc, local, result, calls, faults>>

Place == {"idle", "waiting", "look", "copy", "exists", "remove", "fetch", "check",
          "save", "cat", "mv", "return"}

TypeOK ==
  /\ output \in Content \cup {Absent}
  /\ lock \subseteq Builder
  /\ pc \in [Builder -> Place]
  /\ site \in [Builder -> 0..Sites]
  /\ tmpf \in [Builder -> Content \cup {Absent}]
  /\ tmpout \in [Builder -> Content \cup {Absent}]
  /\ rc \in [Builder -> {0, 1}]
  /\ result \in [Builder -> {"none", "ok", "failed"}]
  /\ calls \in [Builder -> 0..MaxCalls]
  /\ faults \in 0..MaxFaults

Init ==
  /\ output = Absent /\ lock = {}
  /\ pc = [b \in Builder |-> "idle"]
  /\ site = [b \in Builder |-> 0]
  /\ tmpf = [b \in Builder |-> Absent]
  /\ tmpout = [b \in Builder |-> Absent]
  /\ rc = [b \in Builder |-> 1]
  /\ result = [b \in Builder |-> "none"]
  /\ calls = [b \in Builder |-> 0]
  /\ faults = 0

Go(b, place) == pc' = [pc EXCEPT ![b] = place]
Fault == faults < MaxFaults /\ faults' = faults + 1

-----------------------------------------------------------------------------
(* The call, and a file that is there.                                     *)

Call(b) ==
  /\ pc[b] = "idle" /\ calls[b] < MaxCalls
  /\ calls' = [calls EXCEPT ![b] = @ + 1]
  /\ result' = [result EXCEPT ![b] = "none"]
  /\ Go(b, "waiting")
  /\ UNCHANGED <<output, lock, local, faults>>

\* Without the lock.
LockMutant(b) ==
  /\ pc[b] = "waiting"
  /\ lock' = lock \cup {b}
  /\ site' = [site EXCEPT ![b] = 0]
  /\ rc' = [rc EXCEPT ![b] = 1]
  /\ Go(b, "look")
  /\ UNCHANGED <<output, tmpf, tmpout, result, calls, faults>>

Lock(b) ==
  /\ pc[b] = "waiting" /\ lock = {}
  /\ lock' = {b}
  /\ site' = [site EXCEPT ![b] = 0]
  /\ rc' = [rc EXCEPT ![b] = 1]
  /\ Go(b, "look")
  /\ UNCHANGED <<output, tmpf, tmpout, result, calls, faults>>

\* The file is there, or is not in the former place either.
LookElsewhere(b) ==
  /\ pc[b] = "look"
  /\ output # Absent \/ Old = Absent
  /\ Go(b, "exists")
  /\ UNCHANGED <<output, lock, local, result, calls, faults>>

Link(b) ==
  /\ pc[b] = "look" /\ output = Absent /\ Old # Absent
  /\ TRUE \in CanLink
  /\ output' = Old
  /\ Go(b, "exists")
  /\ UNCHANGED <<lock, local, result, calls, faults>>

\* ln failed; cp makes the file under its final name, or cannot.
StartCopy(b) ==
  /\ pc[b] = "look" /\ output = Absent /\ Old # Absent
  /\ FALSE \in CanLink
  /\ \/ output' = Partial /\ Go(b, "copy") /\ UNCHANGED faults
     \/ Fault /\ Go(b, "exists") /\ UNCHANGED output
  /\ UNCHANGED <<lock, local, result, calls>>

\* A cp that fails half-way is no error either (|| true).
EndCopy(b) ==
  /\ pc[b] = "copy"
  /\ \/ output' = Old /\ UNCHANGED faults
     \/ Fault /\ UNCHANGED output
  /\ Go(b, "exists")
  /\ UNCHANGED <<lock, local, result, calls>>

\* A file that is there is not checked.
CheckExistingMutant(b) ==
  /\ pc[b] = "exists" /\ output # Absent
  /\ rc' = [rc EXCEPT ![b] = 0]
  /\ Go(b, "return")
  /\ UNCHANGED <<output, lock, site, tmpf, tmpout, result, calls, faults>>

\* A file that fails its check for whatever reason is removed.
CheckExistingMutant2(b) ==
  /\ pc[b] = "exists" /\ output # Absent
  /\ rc' = [rc EXCEPT ![b] = IF CheckHash(b, output) = 0 THEN 0 ELSE 1]
  /\ Go(b, IF CheckHash(b, output) = 0 THEN "return" ELSE "remove")
  /\ UNCHANGED <<output, lock, site, tmpf, tmpout, result, calls, faults>>

CheckExisting(b) ==
  /\ pc[b] = "exists" /\ output # Absent
  /\ rc' = [rc EXCEPT ![b] = IF CheckHash(b, output) = 0 THEN 0 ELSE 1]
  /\ Go(b, IF CheckHash(b, output) = 2 THEN "remove" ELSE "return")
  /\ UNCHANGED <<output, lock, site, tmpf, tmpout, result, calls, faults>>

Remove(b) ==
  /\ pc[b] = "remove"
  /\ output' = Absent
  /\ Go(b, "fetch")
  /\ UNCHANGED <<lock, local, result, calls, faults>>

NotThere(b) ==
  /\ pc[b] = "exists" /\ output = Absent
  /\ Go(b, "fetch")
  /\ UNCHANGED <<output, lock, local, result, calls, faults>>

-----------------------------------------------------------------------------
(* The download.                                                           *)

\* A backend, and the post-processing of what it got, works.
Fetch(b) ==
  /\ pc[b] = "fetch" /\ site[b] < Sites
  /\ site' = [site EXCEPT ![b] = @ + 1]
  /\ \E c \in Served : tmpf' = [tmpf EXCEPT ![b] = c]
  /\ Go(b, "check")
  /\ UNCHANGED <<output, lock, tmpout, rc, result, calls, faults>>

\* One of them does not: the temporary directory goes, the next site is tried.
FetchFails(b) ==
  /\ pc[b] = "fetch" /\ site[b] < Sites
  /\ site' = [site EXCEPT ![b] = @ + 1]
  /\ UNCHANGED <<output, lock, pc, tmpf, tmpout, rc, result, calls, faults>>

NoMoreSites(b) ==
  /\ pc[b] = "fetch" /\ site[b] = Sites
  /\ rc' = [rc EXCEPT ![b] = 1]
  /\ Go(b, "return")
  /\ UNCHANGED <<output, lock, site, tmpf, tmpout, result, calls, faults>>

\* A file that no line of the hash files names is saved too, but is an error.
CheckNew(b) ==
  /\ pc[b] = "check"
  /\ IF CheckHash(b, tmpf[b]) \in {0, 3}
     THEN /\ rc' = [rc EXCEPT ![b] = IF CheckHash(b, tmpf[b]) = 0 THEN 0 ELSE 1]
          /\ Go(b, "save")
          /\ UNCHANGED tmpf
     ELSE /\ tmpf' = [tmpf EXCEPT ![b] = Absent]
          /\ Go(b, "fetch")
          /\ UNCHANGED rc
  /\ UNCHANGED <<output, lock, site, tmpout, result, calls, faults>>

\* The download is saved to the final file itself.
SaveMutant(b) ==
  /\ pc[b] = "save"
  /\ output' = Partial
  /\ tmpout' = [tmpout EXCEPT ![b] = Partial]
  /\ Go(b, "cat")
  /\ UNCHANGED <<lock, site, tmpf, rc, result, calls, faults>>

\* The temporary file next to the final one (mktemp, chmod).
Save(b) ==
  /\ pc[b] = "save"
  /\ tmpout' = [tmpout EXCEPT ![b] = Partial]
  /\ Go(b, "cat")
  /\ UNCHANGED <<output, lock, site, tmpf, rc, result, calls, faults>>

Cat(b) ==
  /\ pc[b] = "cat"
  /\ tmpout' = [tmpout EXCEPT ![b] = tmpf[b]]
  /\ tmpf' = [tmpf EXCEPT ![b] = Absent]
  /\ Go(b, "mv")
  /\ UNCHANGED <<output, lock, site, rc, result, calls, faults>>

Mv(b) ==
  /\ pc[b] = "mv"
  /\ output' = tmpout[b]
  /\ tmpout' = [tmpout EXCEPT ![b] = Absent]
  /\ Go(b, "return")
  /\ UNCHANGED <<lock, site, tmpf, rc, result, calls, faults>>

\* mktemp, chmod, cat or mv fails: the call fails, what it had is used no more.
SaveFails(b) ==
  /\ pc[b] \in {"fetch", "save", "cat", "mv"}
  /\ Fault
  /\ tmpf' = [tmpf EXCEPT ![b] = Absent]
  /\ tmpout' = [tmpout EXCEPT ![b] = Absent]
  /\ rc' = [rc EXCEPT ![b] = 1]
  /\ Go(b, "return")
  /\ UNCHANGED <<output, lock, site, result, calls>>

\* The wrapper exits, and flock with it.
Return(b) ==
  /\ pc[b] = "return"
  /\ lock' = lock \ {b}
  /\ result' = [result EXCEPT ![b] = IF rc[b] = 0 THEN "ok" ELSE "failed"]
  /\ Go(b, "idle")
  /\ UNCHANGED <<output, local, calls, faults>>

\* A lock that is a file someone has to remove.
KillMutant(b) ==
  /\ pc[b] # "idle"
  /\ Fault
  /\ tmpf' = [tmpf EXCEPT ![b] = Absent]
  /\ tmpout' = [tmpout EXCEPT ![b] = Absent]
  /\ result' = [result EXCEPT ![b] = "failed"]
  /\ Go(b, "idle")
  /\ UNCHANGED <<output, lock, site, rc, calls>>

\* Killed, with what it runs: the kernel releases the lock.  Its temporaries
\* stay, under names that nobody uses again.
Kill(b) ==
  /\ pc[b] # "idle"
  /\ Fault
  /\ lock' = lock \ {b}
  /\ tmpf' = [tmpf EXCEPT ![b] = Absent]
  /\ tmpout' = [tmpout EXCEPT ![b] = Absent]
  /\ result' = [result EXCEPT ![b] = "failed"]
  /\ Go(b, "idle")
  /\ UNCHANGED <<output, site, rc, calls>>

Run(b) ==
  \/ Lock(b) \/ LookElsewhere(b) \/ Link(b) \/ StartCopy(b) \/ EndCopy(b)
  \/ CheckExisting(b) \/ Remove(b) \/ NotThere(b)
  \/ Fetch(b) \/ FetchFails(b) \/ NoMoreSites(b) \/ CheckNew(b)
  \/ Save(b) \/ Cat(b) \/ Mv(b) \/ SaveFails(b) \/ Return(b)

Next == \E b \in Builder : Call(b) \/ Run(b) \/ Kill(b)

Spec == Init /\ [][Next]_vars

\* A call that is not killed and can take a step takes one.  flock gives no
\* order among those that wait; their number of calls is bounded.
FairSpec == Spec /\ \A b \in Builder : WF_vars(Run(b))

-----------------------------------------------------------------------------
(* Properties.                                                             *)

\* As long as a builder relies on the file its last call said ok of, the file
\* is there and no hash contradicts it, whatever the others do.
OkIsAccepted == \A b \in Builder : result[b] = "ok" => output \in Right(b)

\* ... and it is not the beginning of a file: "Its role is to ensure atomicity
\* when saving downloaded files back to BR2_DL_DIR" (dl-wrapper, 4-5).
OkIsWhole == \A b \in Builder : result[b] = "ok" => output # Partial

\* A file goes only if one of its hashes is wrong, never for want of a hash, or
\* for a hash of an unknown type (comment at lines 81-83).
RemovedOnlyIfWrong ==
  [][output # Absent /\ output' # output =>
       output = Partial \/ \E b \in Builder : output \in Wrong(b)]_vars

\* Every call ends, though others hold the lock, are killed, or fail.
CallsEnd == \A b \in Builder : pc[b] = "waiting" ~> pc[b] = "idle"

\* The wrapper implements the cache its callers rely on, for which a file that
\* is being copied is not there yet.
Cache == INSTANCE DlCache WITH
  output <- IF \E b \in Builder : pc[b] = "copy" THEN Absent ELSE output,
  answer <- [b \in Builder |-> IF pc[b] = "idle" THEN result[b] ELSE "pending"],
  Accepted <- [b \in Builder |-> Right(b)],
  Refused <- [b \in Builder |-> Wrong(b)],
  Torn <- IF FALSE \in CanLink THEN {Partial} ELSE {}
ImplementsCache == Cache!Spec

=============================================================================
