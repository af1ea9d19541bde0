------------------------------- MODULE KFiles -------------------------------
(***************************************************************************)
(* The directory that the configuration programs of support/kconfig share, *)
(* and conf_write (confdata.c), by which they replace a file in it: the    *)
(* new contents go to a temporary file, the old file is renamed to .old,   *)
(* and the temporary file to the name.  A program may fail or be killed    *)
(* between any two of these, and be started again on what it left.         *)
(***************************************************************************)
EXTENDS LkcProto, FiniteSets

CONSTANTS
  Initial,     \* what .config, and auto.conf and the header, hold at first: a set of pairs
               \* of the lines of the one and the set of lines of the others
  MaxWork,     \* bound: what users do in mconf, and starting a program, which counts as two
  MaxFaults    \* bound: crashes, and calls of fopen and rename that fail

\* What auto.conf may hold: values of bools and tristates that are not n, and of
\* numbers, but not of choices, which have no name, and of what is never written.
IsAuto(lines) ==
  /\ IsFiniteSet(lines)
  /\ \A l \in lines :
       /\ l = <<l[1], l[2]>>
       /\ Known(l[1]) => /\ ~Def[l[1]].auto /\ ~IsChoice(l[1])
                         /\ (Def[l[1]].type = "int" \/ l[2] # 0)

ASSUME InitialFiles == \A c \in Initial : IsAuto(c[2])

VARIABLES
  k,        \* the values of the symbols in the program that work
  mode,     \* which one it is: "mconf", or a mode of conf
  pc,       \* where it is, or "shell" if none work
  file,     \* the configuration files, a function of their names
  write,    \* conf_write: the name, what is in the temporary file, and where to
            \* go on when it succeeds and when it fails
  again,    \* whether conf_write was left, and may be called again, before it
            \* had finished, in this program or an earlier one
  kept,     \* what was last saved as .config
  auto,     \* auto.conf: its lines, of which no symbol has two; one that is not there
            \* says as much as an empty one
  header,   \* autoconf.h, likewise, or NoHeader
  stamps,   \* symbols whose stamp was touched after auto.conf was written
  work, faults

synced == <<auto, header, stamps>>
directory == <<file, kept, synced>>
fvars == <<k, mode, pc, write, again, directory, work, faults>>

ConfigNames == {"config", "alternate"}
OldOf == [config |-> "config.old", alternate |-> "alternate.old"]
FileNames == {"config", "config.old", "alternate", "alternate.old", "defconfig"}
NoHeader == {<<"no header", 0>>}

NoWrite == [name |-> "config", tmp |-> NoFile, done |-> "exit", failed |-> "exit"]

FInit ==
  /\ k = NewState
  /\ mode = "mconf" /\ pc = "shell"
  /\ \E c \in Initial :
       /\ file = [f \in FileNames |-> IF f = "config" THEN c[1] ELSE NoFile]
       /\ auto = c[2] /\ header = c[2]
  /\ write = NoWrite /\ again = FALSE
  /\ kept = file["config"]
  /\ stamps = {}
  /\ work = 0 /\ faults = 0

\* The parts of a step that calls conf_write.
CallWrite(name, done, failed) ==
  /\ pc' = "write"
  /\ write' = [name |-> name, tmp |-> NoFile, done |-> done, failed |-> failed]

MayFail == faults < MaxFaults

\* The temporary file is opened and written; symbols lose SYMBOL_WRITE.
WriteTmp ==
  /\ pc = "write" /\ pc' = "rename old"
  /\ \E r \in {conf_write_symbols(k, Len(Entries))} : k' = r.k /\ write' = [write EXCEPT !.tmp = r.lines]
  /\ UNCHANGED <<mode, again, directory, work, faults>>

OpenFails ==
  /\ pc = "write" /\ pc' = write.failed
  /\ MayFail /\ faults' = faults + 1
  /\ UNCHANGED <<mode, k, write, again, directory, work>>

\* mutant: the old file is removed
RenameOldMutant ==
  /\ pc = "rename old" /\ pc' = "rename new"
  /\ file' = [file EXCEPT ![write.name] = NoFile]
  /\ UNCHANGED <<mode, k, write, again, kept, synced, work, faults>>

\* Whether there is one to rename is not looked at.
RenameOld ==
  /\ pc = "rename old" /\ pc' = "rename new"
  /\ LET name == write.name
     IN  file' = IF file[name] = NoFile THEN file
                 ELSE [file EXCEPT ![OldOf[name]] = file[name], ![name] = NoFile]
  /\ UNCHANGED <<mode, k, write, again, kept, synced, work, faults>>

RenameNew ==
  /\ pc = "rename new" /\ pc' = "written"
  /\ file' = [file EXCEPT ![write.name] = write.tmp]
  /\ kept' = IF write.name = "config" THEN write.tmp ELSE kept
  /\ UNCHANGED <<mode, k, write, again, synced, work, faults>>

RenameFails ==
  /\ pc = "rename new" /\ pc' = write.failed
  /\ MayFail /\ faults' = faults + 1
  /\ again' = TRUE
  /\ UNCHANGED <<mode, k, write, directory, work>>

\* The message has been shown.
Written ==
  /\ pc = "written" /\ pc' = write.done
  /\ k' = [k EXCEPT !.changed = FALSE]
  /\ UNCHANGED <<mode, write, again, directory, work, faults>>

WriteStep == WriteTmp \/ OpenFails \/ RenameOld \/ RenameNew \/ RenameFails \/ Written

Work(n) == work + n <= MaxWork /\ work' = work + n

\* The parts of a step that starts a program, and of one that ends it: what it
\* had in memory is gone.
Start == pc = "shell" /\ Work(2) /\ UNCHANGED <<write, again, directory, faults>>
Gone ==
  /\ pc' = "shell" /\ mode' = "mconf" /\ k' = NewState /\ write' = NoWrite
  /\ UNCHANGED <<again, directory, work>>

Exit == pc = "exit" /\ Gone /\ UNCHANGED faults
Killed == pc \notin {"exit", "shell"} /\ Gone /\ MayFail /\ faults' = faults + 1

-----------------------------------------------------------------------------

ValuesOf(u) == LET w == CalcAll(u) IN [s \in Range(Symbols) |-> StringValue(w, s)]
ReadBack(lines) == conf_read(NewState, lines).k

\* Reading a file that conf_write wrote gives every symbol the value it had, and
\* is not taken for a change, whatever was selected, out of sight, by default or
\* in a choice: what is left out of the file can be told from the rest
\* (confdata.c:422-446 and 787-825).  Not if a write is started over, which
\* finds SYMBOL_WRITE cleared.
SavedIsWhole ==
  pc = "rename old" /\ ~again =>
    LET u == ReadBack(write.tmp) IN ValuesOf(u) = ValuesOf(k) /\ ~u.changed

\* The configuration that was saved last is in .config, or at least in
\* .config.old, whenever a program is killed or a call fails, or one write is
\* interrupted by another (confdata.c:828-838).
ConfigSurvives == kept \in {file["config"], file["config.old"]}

=============================================================================
