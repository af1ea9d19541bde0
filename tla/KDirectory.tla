----------------------------- MODULE KDirectory -----------------------------
(***************************************************************************)
(* What the configuration programs of support/kconfig do to the directory  *)
(* they share, whatever the menus are and whatever is in the files.  A     *)
(* configuration is replaced as conf_write does it: a temporary file is    *)
(* filled, the old file goes to .old, the temporary one to the name.  What *)
(* make and the sources include is replaced as conf_write_autoconf does    *)
(* it: first the stamps of the symbols that changed are touched, one after *)
(* another, then the header is renamed into its place, and auto.conf last. *)
(* A program may stop between any two of these steps, because it is        *)
(* killed or interrupted or a call fails; one that is started later goes   *)
(* on from what is there.                                                  *)
(***************************************************************************)
EXTENDS TLAPS

CONSTANTS
  NoFile,   \* there is no such file
  NoHeader  \* the same, of those that conf_write_autoconf writes

VARIABLES
  at,       \* the next step of conf_write or conf_write_autoconf, or "away"
  name,     \* which file is written
  tmp,      \* what is in the temporary file
  file,     \* the configuration files
  kept,     \* the configuration that .config was last replaced by
  new,      \* what conf_write_autoconf is going to write
  todo,     \* the symbols it has yet to touch the stamps of
  stamps,   \* those whose stamp was touched since auto.conf was replaced
  header,   \* the two that it writes: the set of their lines, each a symbol and a
  auto      \* value, or NoHeader

written == <<name, tmp, file, kept>>
synced == <<new, todo, stamps, header, auto>>
vars == <<at, written, synced>>

Names == {"config", "alternate"}
OldOf == [config |-> "config.old", alternate |-> "alternate.old"]
Files == Names \cup {"config.old", "alternate.old"}

\* The symbols that only one of them has a line of, or each another one.
Differing(a, b) == {l[1] : l \in (a \ b) \cup (b \ a)}

Init ==
  /\ at = "away" /\ name = "config" /\ tmp = NoFile
  /\ DOMAIN file = Files
  /\ kept = file["config"]
  /\ new = NoHeader /\ todo = {} /\ stamps = {}
  /\ header \in {NoHeader, auto}

-----------------------------------------------------------------------------
(* conf_write                                                              *)

Begin(n) ==
  /\ at = "away" /\ at' = "write" /\ name' = n
  /\ UNCHANGED <<tmp, file, kept, synced>>

\* With whatever the configuration is.
Fill ==
  /\ at = "write" /\ at' = "rename old"
  /\ UNCHANGED <<name, file, kept, synced>>

RenameOld ==
  /\ at = "rename old" /\ at' = "rename new"
  /\ file' = IF file[name] = NoFile THEN file
             ELSE [file EXCEPT ![OldOf[name]] = file[name], ![name] = NoFile]
  /\ UNCHANGED <<name, tmp, kept, synced>>

RenameNew ==
  /\ at = "rename new" /\ at' = "written"
  /\ file' = [file EXCEPT ![name] = tmp]
  /\ kept' = IF name = "config" THEN tmp ELSE kept
  /\ UNCHANGED <<name, tmp, synced>>

-----------------------------------------------------------------------------
(* conf_write_autoconf                                                     *)

\* Which symbols are not as auto.conf has them is found before the first stamp.
Compare ==
  /\ at = "away" /\ at' = "stamps"
  /\ Differing(new', auto) \subseteq todo'
  /\ UNCHANGED <<written, stamps, header, auto>>

Touch(s) ==
  /\ at = "stamps" /\ s \in todo
  /\ stamps' = stamps \cup {s}
  /\ todo' \subseteq todo /\ todo \subseteq todo' \cup {s}
  /\ UNCHANGED <<at, written, new, header, auto>>

RenameHeader ==
  /\ at = "stamps" /\ todo = {} /\ at' = "rename auto.conf"
  /\ header' = new
  /\ UNCHANGED <<written, new, todo, stamps, auto>>

RenameAuto ==
  /\ at = "rename auto.conf" /\ at' = "away"
  /\ auto' = new /\ stamps' = {} /\ new' = NoHeader
  /\ UNCHANGED <<written, todo, header>>

\* The program has finished, was left or interrupted, or is no more.
Stop ==
  /\ at # "away" /\ at' = "away"
  /\ name' = "config" /\ tmp' = NoFile /\ new' = NoHeader /\ todo' = {}
  /\ UNCHANGED <<file, kept, stamps, header, auto>>

Next ==
  \/ \E n \in Names : Begin(n)
  \/ Fill \/ RenameOld \/ RenameNew
  \/ Compare \/ (\E s \in todo : Touch(s)) \/ RenameHeader \/ RenameAuto
  \/ Stop

Spec == Init /\ [][Next]_vars

-----------------------------------------------------------------------------
(* What the directory promises, in every state: for that is where a        *)
(* program may be killed.                                                  *)

\* The configuration that was saved last is in .config, or in .config.old.
Saved == kept \in {file["config"], file["config.old"]}

\* A symbol of which the header says something else than the last auto.conf that
\* was finished had its stamp touched since, so that make compiles again what
\* depends on it.
Covered == header # NoHeader => Differing(header, auto) \subseteq stamps

-----------------------------------------------------------------------------
(* Why it keeps that.                                                      *)

TypeOK ==
  /\ at \in {"away", "write", "rename old", "rename new", "written", "stamps", "rename auto.conf"}
  /\ name \in Names
  /\ DOMAIN file = Files

\* Between the two renames, and after a program was stopped there, there is only
\* the old file: that is what makes the next program, which finds no .config to
\* rename, keep it.
KeptIsThere ==
  \/ kept = file["config"]
  \/ file["config"] = NoFile /\ kept = file["config.old"]

\* What conf_write_autoconf is going to write: its changes are touched, or to be.
NewIsCovered ==
  /\ at = "stamps" => Differing(new, auto) \subseteq todo \cup stamps
  /\ at = "rename auto.conf" => header = new

Inv == TypeOK /\ KeptIsThere /\ NewIsCovered /\ Covered

LEMMA InitInv == Init => Inv
  <1> SUFFICES ASSUME Init PROVE Inv
    OBVIOUS
  <1>1. TypeOK
    BY DEF Init, TypeOK, Names, Files
  <1>2. KeptIsThere /\ NewIsCovered
    BY DEF Init, KeptIsThere, NewIsCovered
  <1>3. Covered
    BY DEF Init, Covered, Differing
  <1> QED
    BY <1>1, <1>2, <1>3 DEF Inv

LEMMA NextInv == Inv /\ [Next]_vars => Inv'
  <1> SUFFICES ASSUME Inv, [Next]_vars PROVE Inv'
    OBVIOUS
  <1> USE DEF Inv
  <1>1. ASSUME NEW n \in Names, Begin(n) PROVE Inv'
    BY <1>1 DEF Begin, synced, TypeOK, KeptIsThere, NewIsCovered, Covered
  <1>2. CASE Fill
    BY <1>2 DEF Fill, synced, TypeOK, KeptIsThere, NewIsCovered, Covered
  <1>3. CASE RenameOld
    <2>1. ASSUME name = "config" PROVE TypeOK' /\ KeptIsThere'
      BY <1>3, <2>1 DEF RenameOld, synced, TypeOK, KeptIsThere, Names, Files, OldOf
    <2>2. ASSUME name = "alternate" PROVE TypeOK' /\ KeptIsThere'
      BY <1>3, <2>2 DEF RenameOld, synced, TypeOK, KeptIsThere, Names, Files, OldOf
    <2>3. NewIsCovered' /\ Covered'
      BY <1>3 DEF RenameOld, synced, NewIsCovered, Covered
    <2> QED
      BY <2>1, <2>2, <2>3 DEF TypeOK, Names
  <1>4. CASE RenameNew
    <2>1. TypeOK' /\ KeptIsThere'
      BY <1>4 DEF RenameNew, synced, TypeOK, KeptIsThere, Names, Files
    <2>2. NewIsCovered' /\ Covered'
      BY <1>4 DEF RenameNew, synced, NewIsCovered, Covered
    <2> QED
      BY <2>1, <2>2
  <1>5. CASE Compare
    <2>1. TypeOK'
      BY <1>5 DEF Compare, written, TypeOK
    <2>2. KeptIsThere'
      BY <1>5 DEF Compare, written, KeptIsThere
    <2>3. NewIsCovered' /\ Covered'
      BY <1>5 DEF Compare, written, NewIsCovered, Covered
    <2> QED
      BY <2>1, <2>2, <2>3
  <1>6. ASSUME NEW s \in todo, Touch(s) PROVE Inv'
    <2>1. TypeOK'
      BY <1>6 DEF Touch, written, TypeOK
    <2>2. KeptIsThere'
      BY <1>6 DEF Touch, written, KeptIsThere
    <2>3. NewIsCovered' /\ Covered'
      BY <1>6 DEF Touch, written, NewIsCovered, Covered
    <2> QED
      BY <2>1, <2>2, <2>3
  <1>7. CASE RenameHeader
    <2>1. TypeOK'
      BY <1>7 DEF RenameHeader, written, TypeOK
    <2>2. KeptIsThere'
      BY <1>7 DEF RenameHeader, written, KeptIsThere
    <2>3. NewIsCovered' /\ Covered'
      BY <1>7 DEF RenameHeader, written, NewIsCovered, Covered
    <2> QED
      BY <2>1, <2>2, <2>3
  <1>8. CASE RenameAuto
    <2>1. TypeOK'
      BY <1>8 DEF RenameAuto, written, TypeOK, NewIsCovered
    <2>2. KeptIsThere' /\ NewIsCovered'
      BY <1>8 DEF RenameAuto, written, KeptIsThere, NewIsCovered
    <2>3. header' = auto'
      BY <1>8 DEF RenameAuto, NewIsCovered
    <2>4. Covered'
      BY <2>3 DEF Covered, Differing
    <2> QED
      BY <2>1, <2>2, <2>4
  <1>9. CASE Stop
    BY <1>9 DEF Stop, TypeOK, KeptIsThere, NewIsCovered, Covered, Names
  <1>10. CASE UNCHANGED vars
    BY <1>10 DEF vars, written, synced, TypeOK, KeptIsThere, NewIsCovered, Covered
  <1> QED
    BY <1>1, <1>2, <1>3, <1>4, <1>5, <1>6, <1>7, <1>8, <1>9, <1>10 DEF Next

\* The configuration that was saved last is in .config or .config.old in every
\* state, so whenever a program is killed, also one that was started after others
\* had been killed.
THEOREM SavedCorrect == Spec => []Saved
  <1>1. Inv => Saved
    BY DEF Inv, KeptIsThere, Saved
  <1> QED
    BY InitInv, NextInv, <1>1, PTL DEF Spec

\* In every state, what the header says otherwise than the last finished auto.conf
\* was touched since then: make compiles it again, however often syncconfig was
\* killed between the stamps, the header and auto.conf.
THEOREM CoveredCorrect == Spec => []Covered
  <1>1. Inv => Covered
    BY DEF Inv
  <1> QED
    BY InitInv, NextInv, <1>1, PTL DEF Spec

=============================================================================
