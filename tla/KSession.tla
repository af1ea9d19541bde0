------------------------------ MODULE KSession ------------------------------
(***************************************************************************)
(* The configuration programs one after another in one directory: mconf    *)
(* and the modes of conf read what the last one left, whole or killed.     *)
(***************************************************************************)
EXTENDS KConf, KMconf

vars == <<fvars, confvars, mconfvars>>

Init == FInit /\ ConfInit /\ MconfInit

\* At the prompt nobody has to start anything: TLC then finds a program that
\* can neither go on nor leave as a deadlock.
Next ==
  \/ (StartMconf \/ MconfStep) /\ UNCHANGED confvars
  \/ (StartConf \/ StartFails \/ ConfStep) /\ UNCHANGED mconfvars
  \/ WriteStep /\ UNCHANGED <<confvars, mconfvars>>
  \/ (Exit \/ Killed) /\ ConfReset /\ MconfReset
  \/ pc = "shell" /\ UNCHANGED vars

\* The programs but mconf go on: a step of theirs is always possible until they
\* have left, and who is asked gives an answer that is taken some time.  Every
\* pass of randconfig counts, whatever rand gives and whether it changes anything.
GoesOn ==
  /\ ConfStep \/ WriteStep \/ Exit
  /\ <<todo, pc, odd>>' # <<todo, pc, odd>>

Spec == Init /\ [][Next]_vars /\ ([]<>(mode = "mconf") \/ []<><<GoesOn>>_vars)

-----------------------------------------------------------------------------
(* The directory, as KDirectory describes it.                              *)

Writing == {"write", "rename old", "rename new", "written"}
Syncing == {"stamps", "rename auto.conf"}

Step == IF pc \in Writing \cup Syncing THEN pc ELSE "away"
Target == IF pc \in Writing THEN write.name ELSE "config"
Content == IF pc \in Writing THEN write.tmp ELSE NoFile
Configs == [f \in {"config", "config.old", "alternate", "alternate.old"} |-> file[f]]
Coming == IF pc \in Syncing THEN AutoLines(k) ELSE NoHeader
Untouched == IF pc = "stamps" THEN {s \in Range(todo) : Differs(k, s)} ELSE {}

Directory == INSTANCE KDirectory WITH
  at <- Step, name <- Target, tmp <- Content, file <- Configs, new <- Coming, todo <- Untouched

\* Nothing but the steps of conf_write and conf_write_autoconf, in their order,
\* ever puts something else in the place of a configuration, of the header or of
\* auto.conf; and before the first stamp all symbols are known that the header
\* will say something else of (confdata.c:776-834, 865-969, 1037-1056).
ImplementsDirectory == Directory!Spec

\* conf comes to an end: the passes over all menus, which go on while there are
\* questions, end, and so do those of randconfig, with the last choice that has no
\* value, whatever rand gives (conf.c:663-685; confdata.c:1081-1282).
ConfEnds == mode # "mconf" ~> pc = "shell"

\* Neither the configuration that was saved last gets lost, nor which symbols have
\* changed since make compiled for them, whatever is killed or fails.
NothingIsLost == ConfigSurvives /\ StampsCoverChanges

=============================================================================
