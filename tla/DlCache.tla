------------------------------ MODULE DlCache ------------------------------
(* What support/download/dl-wrapper promises its callers about one file of *)
(* BR2_DL_DIR, however many builds share the directory: the file is there  *)
(* or not, whole, unless a copy from its former place stops half-way; it   *)
(* comes by one atomic step; it goes only if a hash says it is wrong; and  *)
(* a caller is told "ok" only of a file that is there and that none of its *)
(* hashes contradicts.                                                     *)
CONSTANTS
  Builder,  \* the callers
  Content,  \* what the file may hold
  Absent,   \* there is no file
  Old,      \* what the former place of the file holds, if it is there
  Torn,     \* what a copy of it that stops half-way leaves
  Accepted, \* the contents that a caller accepts,
  Refused   \* and those that one of its hashes contradicts

VARIABLES
  output,   \* the file
  answer    \* answer[b]: "none", "ok" or "failed", or "pending" during a call

vars == <<output, answer>>

Init ==
  /\ output = Absent
  /\ answer = [b \in Builder |-> "none"]

Tell(b, a) == answer' = [answer EXCEPT ![b] = a]

Ask(b) ==
  /\ answer[b] # "pending"
  /\ Tell(b, "pending")
  /\ UNCHANGED output

\* A download, or the file of a former version of Buildroot, not checked yet.
Store(b) ==
  /\ answer[b] = "pending" /\ output = Absent
  /\ output' \in (Content \ Refused[b]) \cup ({Old} \ {Absent}) \cup Torn
  /\ UNCHANGED answer

Discard(b) ==
  /\ answer[b] = "pending" /\ output \in Refused[b]
  /\ output' = Absent
  /\ UNCHANGED answer

Succeed(b) ==
  /\ answer[b] = "pending" /\ output \in Accepted[b]
  /\ Tell(b, "ok")
  /\ UNCHANGED output

Fail(b) ==
  /\ answer[b] = "pending"
  /\ Tell(b, "failed")
  /\ UNCHANGED output \/ (output = Absent /\ output' \in Torn)

Next == \E b \in Builder : Ask(b) \/ Store(b) \/ Discard(b) \/ Succeed(b) \/ Fail(b)

Spec == Init /\ [][Next]_vars

=============================================================================
