--------------------------- MODULE KconfigProofs ---------------------------
(* What holds of support/kconfig for all menus, symbols and values.        *)
(*                                                                         *)
(* That the configuration programs keep what the directory promises,       *)
(* whatever the functions of lkc_proto.h compute: every step of mconf and  *)
(* conf is one of KDirectory, or changes nothing there.  And that what     *)
(* expr.c puts in the place of symbols and comparisons is worth the same.  *)
EXTENDS KSession, KTerms, SequenceTheorems, FiniteSetTheorems, TLAPS

Working == Writing \cup Syncing

\* What conf_write was called with, where it goes on, and what is in auto.conf.
TypeInv ==
  /\ DOMAIN write = {"name", "tmp", "done", "failed"}
  /\ write.name \in ConfigNames
  /\ write.done \notin Working /\ write.failed \notin Working
  /\ DOMAIN file = FileNames
  /\ filename \in ConfigNames
  /\ IsAuto(auto)
  /\ pc = "stamps" => todo \in Seq(Range(todo))

-----------------------------------------------------------------------------
(* Steps that leave the directory alone.                                   *)

\* A program that is not, or no longer, in conf_write or conf_write_autoconf.
LEMMA Leaves ==
  ASSUME TypeInv, pc' \notin Working, UNCHANGED <<Configs, kept, synced>>
  PROVE  [Directory!Next]_(Directory!vars)
  <1>1. Step' = "away" /\ Target' = "config" /\ Content' = NoFile /\ Coming' = NoHeader /\ Untouched' = {}
    BY DEF Working, Writing, Syncing, Step, Target, Content, Coming, Untouched
  <1>2. CASE pc \in Working
    <2>1. Step # "away"
      BY <1>2 DEF Working, Writing, Syncing, Step
    <2>2. Directory!Stop
      BY <1>1, <2>1 DEF Directory!Stop, synced
    <2> QED
      BY <2>2 DEF Directory!Next
  <1>3. CASE pc \notin Working
    <2>1. Step = "away" /\ Target = "config" /\ Content = NoFile /\ Coming = NoHeader /\ Untouched = {}
      BY <1>3 DEF Working, Writing, Syncing, Step, Target, Content, Coming, Untouched
    <2> QED
      BY <1>1, <2>1 DEF Directory!vars, Directory!written, Directory!synced, synced
  <1> QED
    BY <1>2, <1>3

LEMMA Begins ==
  ASSUME NEW n \in ConfigNames, NEW d, NEW e,
         TypeInv, pc \notin Working, CallWrite(n, d, e), UNCHANGED directory
  PROVE  [Directory!Next]_(Directory!vars)
  <1>1. Step = "away" /\ Content = NoFile /\ Coming = NoHeader /\ Untouched = {}
    BY DEF Working, Writing, Syncing, Step, Content, Coming, Untouched
  <1>2. Step' = "write" /\ Target' = n /\ Content' = NoFile /\ Coming' = NoHeader /\ Untouched' = {}
    BY DEF CallWrite, Writing, Syncing, Step, Target, Content, Coming, Untouched
  <1>3. Directory!Begin(n)
    BY <1>1, <1>2 DEF Directory!Begin, Directory!synced, directory, synced, Configs
  <1> QED
    BY <1>3 DEF Directory!Next, Directory!Names, ConfigNames

-----------------------------------------------------------------------------
(* conf_write.                                                             *)

LEMMA Fills ==
  ASSUME TypeInv, WriteTmp
  PROVE  Directory!Fill
  <1>1. Step = "write" /\ Step' = "rename old" /\ Target' = Target /\ Configs' = Configs
    BY DEF TypeInv, WriteTmp, Writing, Syncing, Step, Target, Configs, directory
  <1>2. Coming = NoHeader /\ Coming' = NoHeader /\ Untouched = {} /\ Untouched' = {}
    BY DEF WriteTmp, Syncing, Coming, Untouched
  <1> QED
    BY <1>1, <1>2 DEF Directory!Fill, Directory!synced, WriteTmp, directory, synced

LEMMA RenamesOld ==
  ASSUME TypeInv, RenameOld
  PROVE  Directory!RenameOld
  <1>1. /\ Step = "rename old" /\ Step' = "rename new"
        /\ Target = write.name /\ Target' = Target /\ Content' = Content
    BY DEF RenameOld, Writing, Syncing, Step, Target, Content
  <1>2. Coming = NoHeader /\ Coming' = NoHeader /\ Untouched = {} /\ Untouched' = {}
    BY DEF RenameOld, Syncing, Coming, Untouched
  <1>3. Configs' = IF Configs[Target] = NoFile THEN Configs
                   ELSE [Configs EXCEPT ![Directory!OldOf[Target]] = Configs[Target], ![Target] = NoFile]
    <2>1. CASE Target = "config"
      BY <1>1, <2>1 DEF TypeInv, RenameOld, Configs, FileNames, OldOf, Directory!OldOf
    <2>2. CASE Target = "alternate"
      BY <1>1, <2>2 DEF TypeInv, RenameOld, Configs, FileNames, OldOf, Directory!OldOf
    <2> QED
      BY <1>1, <2>1, <2>2 DEF TypeInv, ConfigNames
  <1> QED
    BY <1>1, <1>2, <1>3 DEF Directory!RenameOld, Directory!synced, RenameOld, synced

LEMMA RenamesNew ==
  ASSUME TypeInv, RenameNew
  PROVE  Directory!RenameNew
  <1>1. /\ Step = "rename new" /\ Step' = "written"
        /\ Target = write.name /\ Target' = Target /\ Content = write.tmp /\ Content' = Content
    BY DEF RenameNew, Writing, Syncing, Step, Target, Content
  <1>2. Coming = NoHeader /\ Coming' = NoHeader /\ Untouched = {} /\ Untouched' = {}
    BY DEF RenameNew, Syncing, Coming, Untouched
  <1>3. Configs' = [Configs EXCEPT ![Target] = Content]
    BY <1>1 DEF TypeInv, RenameNew, Configs, FileNames, ConfigNames
  <1> QED
    BY <1>1, <1>2, <1>3 DEF Directory!RenameNew, Directory!synced, RenameNew, synced

-----------------------------------------------------------------------------
(* conf_write_autoconf.                                                    *)

LEMMA SetToSeqIsSeq ==
  ASSUME NEW S, IsFiniteSet(S)
  PROVE  SetToSeq(S) \in Seq(S) /\ Range(SetToSeq(S)) = S
  <1> DEFINE n == Cardinality(S)
             f == SetToSeq(S)
  <1>1. n \in Nat /\ ExistsBijection(1..n, S)
    BY FS_CardinalityType
  <1>2. PICK g : g \in Bijection(1..n, S)
    BY <1>1 DEF ExistsBijection
  <1>3. g \in [1..n -> S] /\ IsInjective(g)
    BY <1>2 DEF Bijection, Injection, IsInjective
  <1>4. f \in [1..n -> S] /\ IsInjective(f)
    BY <1>3 DEF SetToSeq
  <1>5. f \in Injection(1..n, S)
    BY <1>4 DEF Injection, IsInjective
  <1>6. Cardinality(1..n) = n
    BY <1>1, FS_Interval
  <1>7. f \in Surjection(1..n, S)
    BY <1>5, <1>6, FS_Injection
  <1>8. Range(f) = S
    BY <1>4, <1>7 DEF Surjection, Range
  <1> QED
    BY <1>1, <1>4, <1>8

\* The lines of auto.conf are what a later conf_split_config expects to find there.
LEMMA LinesAreAuto ==
  ASSUME NEW u
  PROVE  IsAuto(AutoLines(u))
  <1> DEFINE S == {x \in Range(Symbols) : IsWritten(u, x) /\ ~IsUnset(u, x)}
             f == [s \in S |-> kconfig_print_symbol(u, s)]
  <1>1. IsFiniteSet(Range(Symbols))
    <2>1. Symbols \in [1..Len(Symbols) -> Range(Symbols)] /\ Len(Symbols) \in Nat
      BY SymbolsAreDefined DEF Range
    <2>2. Symbols \in Surjection(1..Len(Symbols), Range(Symbols))
      BY <2>1 DEF Surjection, Range
    <2> QED
      BY <2>1, <2>2, FS_Interval, FS_Surjection
  <1>2. IsFiniteSet(S)
    BY <1>1, FS_Subset
  <1>3. f \in Surjection(S, AutoLines(u))
    BY DEF Surjection, AutoLines
  <1>4. IsFiniteSet(AutoLines(u))
    BY <1>2, <1>3, FS_Surjection
  <1>5. ASSUME NEW l \in AutoLines(u)
        PROVE  /\ l = <<l[1], l[2]>>
               /\ ~Def[l[1]].auto /\ ~IsChoice(l[1])
               /\ Def[l[1]].type = "int" \/ l[2] # 0
    BY DEF AutoLines, kconfig_print_symbol, IsWritten, IsUnset, StringValue
  <1> QED
    BY <1>4, <1>5 DEF IsAuto

\* All symbols that auto.conf is going to have other lines of are among those that
\* conf_split_config looks at, and found to differ.
LEMMA ChangesDiffer ==
  ASSUME NEW u, IsAuto(auto)
  PROVE  LET all == Symbols \o SetToSeq({s \in {l[1] : l \in auto} : ~Known(s)})
         IN  /\ all \in Seq(Range(all))
             /\ Directory!Differing(AutoLines(u), auto) \subseteq {s \in Range(all) : Differs(u, s)}
  <1> DEFINE gone == {s \in {l[1] : l \in auto} : ~Known(s)}
             all == Symbols \o SetToSeq(gone)
  <1>1. IsFiniteSet(gone)
    <2> DEFINE names == {l[1] : l \in auto}
               f == [l \in auto |-> l[1]]
    <2>1. f \in Surjection(auto, names)
      BY DEF Surjection
    <2>2. IsFiniteSet(names)
      BY <2>1, FS_Surjection DEF IsAuto
    <2> QED
      BY <2>2, FS_Subset
  <1>2. SetToSeq(gone) \in Seq(gone) /\ Range(SetToSeq(gone)) = gone
    BY <1>1, SetToSeqIsSeq
  <1>3. Symbols \in Seq(Range(Symbols) \cup gone) /\ SetToSeq(gone) \in Seq(Range(Symbols) \cup gone)
    BY <1>2, SymbolsAreDefined, SeqOfRange
  <1>4. all \in Seq(Range(all)) /\ Range(all) = Range(Symbols) \cup gone
    <2> DEFINE tail == SetToSeq(gone)
               T == Range(Symbols) \cup gone
    <2> HIDE DEF tail
    <2>1. Range(Symbols \o tail) = Range(Symbols) \cup Range(tail)
      BY <1>3, RangeConcatenation DEF tail
    <2>2. Symbols \o tail \in Seq(T)
      BY <1>3, ConcatProperties DEF tail
    <2>3. Symbols \o tail \in Seq(Range(Symbols \o tail))
      BY <2>2, SeqOfRange
    <2> QED
      BY <1>2, <2>1, <2>3 DEF tail
  <1>5. ASSUME NEW l \in AutoLines(u) \ auto
        PROVE  l[1] \in Range(all) /\ Differs(u, l[1])
    <2>1. PICK s \in Range(Symbols) : IsWritten(u, s) /\ ~IsUnset(u, s) /\ l = <<s, StringValue(u, s)>>
      BY DEF AutoLines, kconfig_print_symbol
    <2>2. ValuesIn(auto, s) # {StringValue(u, s)}
      BY <2>1 DEF ValuesIn, IsAuto
    <2> QED
      BY <1>4, <2>1, <2>2 DEF Differs, IsWritten
  <1>6. ASSUME NEW l \in auto \ AutoLines(u)
        PROVE  l[1] \in Range(all) /\ Differs(u, l[1])
    <2>1. CASE ~Known(l[1])
      BY <1>4, <2>1 DEF Differs
    <2>2. CASE Known(l[1])
      <3> DEFINE s == l[1]
      <3>1. l[2] \in ValuesIn(auto, s) /\ l = <<s, l[2]>> /\ s \in Range(Symbols) /\ ~Def[s].auto /\ ~IsChoice(s)
        BY <2>2 DEF ValuesIn, IsAuto, Known
      <3>2. ASSUME Has(u, s, "WRITE") PROVE ValuesIn(auto, s) # {StringValue(u, s)}
        <4>1. SUFFICES ASSUME l[2] = StringValue(u, s) PROVE FALSE
          BY <3>1
        <4>2. IsWritten(u, s)
          BY <3>1, <3>2 DEF IsWritten
        <4>3. IsUnset(u, s)
          BY <3>1, <4>1, <4>2 DEF AutoLines, kconfig_print_symbol
        <4> QED
          BY <2>2, <4>1, <4>3 DEF IsUnset, StringValue, IsAuto
      <3> QED
        BY <1>4, <3>1, <3>2 DEF Differs
    <2> QED
      BY <2>1, <2>2
  <1> QED
    BY <1>4, <1>5, <1>6 DEF Directory!Differing

LEMMA ComparesAll ==
  ASSUME TypeInv, SplitConfig
  PROVE  Directory!Compare
  <1> DEFINE all == Symbols \o SetToSeq({s \in {l[1] : l \in auto} : ~Known(s)})
  <1>1. /\ Step = "away" /\ Step' = "stamps"
        /\ Target = "config" /\ Target' = "config" /\ Content = NoFile /\ Content' = NoFile
    BY DEF SplitConfig, Writing, Syncing, Step, Target, Content
  <1>2. Coming' = AutoLines(k') /\ Untouched' = {s \in Range(all) : Differs(k', s)}
    BY DEF SplitConfig, Syncing, Coming, Untouched, Differs, directory, synced
  <1>3. Directory!Differing(AutoLines(k'), auto) \subseteq {s \in Range(all) : Differs(k', s)}
    BY ChangesDiffer DEF TypeInv
  <1> QED
    BY <1>1, <1>2, <1>3 DEF Directory!Compare, Directory!written, SplitConfig, directory, synced, Configs

LEMMA Touches ==
  ASSUME TypeInv, Touch
  PROVE  \E s \in Untouched : Directory!Touch(s)
  <1>1. todo \in Seq(Range(todo))
    BY DEF TypeInv, Touch
  <1>2. PICK i \in DOMAIN todo :
          /\ Differs(k, todo[i]) /\ \A j \in 1..(i - 1) : ~Differs(k, todo[j])
          /\ stamps' = stamps \cup {todo[i]}
          /\ todo' = SubSeq(todo, i + 1, Len(todo))
    BY DEF Touch
  <1>3. /\ Range(todo') \subseteq Range(todo)
        /\ \A j \in DOMAIN todo : j <= i \/ todo[j] \in Range(todo')
    <2>1. DOMAIN todo = 1..Len(todo) /\ Len(todo) \in Nat /\ i \in 1..Len(todo)
      BY <1>1, <1>2
    <2>2. /\ DOMAIN todo' = 1..(Len(todo) - i)
          /\ \A m \in 1..(Len(todo) - i) : todo'[m] = todo[i + m]
      BY <1>1, <1>2, <2>1, SubSeqProperties
    <2>3. Range(todo') \subseteq Range(todo)
      BY <2>1, <2>2 DEF Range
    <2>4. ASSUME NEW j \in DOMAIN todo, j > i PROVE todo[j] \in Range(todo')
      <3>1. j - i \in 1..(Len(todo) - i) /\ todo'[j - i] = todo[j]
        BY <2>1, <2>2, <2>4
      <3> QED
        BY <2>2, <3>1 DEF Range
    <2> QED
      BY <2>1, <2>3, <2>4
  <1>4. /\ Step = "stamps" /\ Step' = "stamps"
        /\ Target = "config" /\ Target' = "config" /\ Content = NoFile /\ Content' = NoFile
        /\ Coming' = Coming /\ Configs' = Configs
    BY DEF Touch, Writing, Syncing, Step, Target, Content, Coming, Configs
  <1>5. /\ Untouched = {s \in Range(todo) : Differs(k, s)}
        /\ Untouched' = {s \in Range(todo') : Differs(k, s)}
    BY DEF Touch, Untouched, Differs
  <1>6. Untouched' \subseteq Untouched /\ Untouched \subseteq Untouched' \cup {todo[i]} /\ todo[i] \in Untouched
    <2>1. todo[i] \in Untouched
      BY <1>2, <1>5 DEF Range
    <2>2. ASSUME NEW s \in Untouched PROVE s \in Untouched' \cup {todo[i]}
      <3>1. PICK j \in DOMAIN todo : s = todo[j]
        BY <1>5, <2>2 DEF Range
      <3>2. DOMAIN todo = 1..Len(todo) /\ Len(todo) \in Nat
        BY <1>1
      <3>3. j >= i
        BY <1>2, <1>5, <2>2, <3>1, <3>2
      <3> QED
        BY <1>2, <1>3, <1>5, <2>2, <3>1, <3>2, <3>3
    <2> QED
      BY <1>3, <1>5, <2>1, <2>2
  <1>7. Directory!Touch(todo[i])
    BY <1>2, <1>4, <1>6 DEF Directory!Touch, Directory!written, Touch
  <1> QED
    BY <1>6, <1>7

LEMMA RenamesHeader ==
  ASSUME RenameHeader
  PROVE  Directory!RenameHeader
  <1>1. /\ Step = "stamps" /\ Step' = "rename auto.conf"
        /\ Target = "config" /\ Target' = "config" /\ Content = NoFile /\ Content' = NoFile
        /\ Coming = AutoLines(k) /\ Coming' = Coming /\ Configs' = Configs
    BY DEF RenameHeader, Writing, Syncing, Step, Target, Content, Coming, Configs
  <1>2. Untouched = {} /\ Untouched' = {}
    BY DEF RenameHeader, Untouched
  <1> QED
    BY <1>1, <1>2 DEF Directory!RenameHeader, Directory!written, RenameHeader

LEMMA RenamesAuto ==
  ASSUME RenameAuto
  PROVE  Directory!RenameAuto
  <1>1. /\ Step = "rename auto.conf" /\ Step' = "away"
        /\ Target = "config" /\ Target' = "config" /\ Content = NoFile /\ Content' = NoFile
        /\ Coming = AutoLines(k) /\ Coming' = NoHeader /\ Configs' = Configs
        /\ Untouched = {} /\ Untouched' = {}
    BY DEF RenameAuto, Writing, Syncing, Step, Target, Content, Coming, Configs, Untouched
  <1> QED
    BY <1>1 DEF Directory!RenameAuto, Directory!written, RenameAuto

-----------------------------------------------------------------------------
(* All steps.                                                              *)

Fine == TypeInv' /\ [Directory!Next]_(Directory!vars)

LEMMA LeavesFine ==
  ASSUME TypeInv, pc' \notin Working, UNCHANGED directory,
         write' \in {write, NoWrite}, filename' \in ConfigNames
  PROVE  Fine
  <1>1. UNCHANGED <<Configs, kept, synced>>
    BY DEF directory, Configs
  <1>2. NoWrite.name \in ConfigNames /\ DOMAIN NoWrite = {"name", "tmp", "done", "failed"}
        /\ NoWrite.done \notin Working /\ NoWrite.failed \notin Working
    BY DEF NoWrite, ConfigNames, Working, Writing, Syncing
  <1>3. "stamps" \in Working
    BY DEF Working, Syncing
  <1>4. TypeInv'
    BY <1>2, <1>3 DEF TypeInv, directory, synced
  <1> QED
    BY <1>1, <1>4, Leaves DEF Fine

LEMMA BeginsFine ==
  ASSUME NEW n \in ConfigNames, NEW d, NEW e, d \notin Working, e \notin Working,
         TypeInv, pc \notin Working, CallWrite(n, d, e), UNCHANGED directory,
         filename' \in ConfigNames
  PROVE  Fine
  <1>1. TypeInv'
    BY DEF TypeInv, CallWrite, directory, synced
  <1> QED
    BY <1>1, Begins DEF Fine

LEMMA MenuFine ==
  ASSUME NEW b, TypeInv, pc = "menu",
         Key(b) \/ LoadFile(b) \/ SaveFile(b) \/ LeaveMenu(b) \/ Leave(b) \/ InterruptMenu(b)
  PROVE  Fine
  <1>1. {"menu", "asked", "asked by signal", "exit", "saved"} \cap Working = {}
    BY DEF Working, Writing, Syncing
  <1>2. filename \in ConfigNames
    BY DEF TypeInv
  <1>3. CASE Key(b)
    BY <1>1, <1>2, <1>3, LeavesFine DEF Key
  <1>4. CASE LoadFile(b)
    <2>1. filename' \in ConfigNames
      BY <1>2, <1>4 DEF LoadFile
    <2> QED
      BY <1>1, <1>4, <2>1, LeavesFine DEF LoadFile
  <1>5. CASE SaveFile(b)
    BY <1>1, <1>2, <1>5, BeginsFine DEF SaveFile
  <1>6. CASE LeaveMenu(b)
    BY <1>1, <1>2, <1>6, LeavesFine DEF LeaveMenu
  <1>7. CASE Leave(b)
    BY <1>1, <1>2, <1>7, LeavesFine DEF Leave, HandleExit
  <1>8. CASE InterruptMenu(b)
    BY <1>1, <1>2, <1>8, LeavesFine DEF InterruptMenu, HandleExit, mconfvars
  <1> QED
    BY <1>3, <1>4, <1>5, <1>6, <1>7, <1>8

LEMMA MconfFine ==
  ASSUME TypeInv, StartMconf \/ MconfStep
  PROVE  Fine
  <1>1. {"menu", "asked", "asked by signal", "exit", "saved"} \cap Working = {}
    BY DEF Working, Writing, Syncing
  <1>2. filename \in ConfigNames /\ write.name \in ConfigNames /\ "config" \in ConfigNames
    BY DEF TypeInv, ConfigNames
  <1>3. CASE StartMconf
    BY <1>1, <1>2, <1>3, LeavesFine DEF StartMconf, Start, MconfReset
  <1>4. CASE InMenu
    BY <1>4, MenuFine DEF InMenu
  <1>5. CASE Saved
    BY <1>1, <1>2, <1>5, LeavesFine DEF Saved
  <1>6. CASE AnswerYes
    BY <1>1, <1>2, <1>6, BeginsFine DEF AnswerYes, Asked, mconfvars
  <1>7. CASE AnswerNo
    BY <1>1, <1>2, <1>7, LeavesFine DEF AnswerNo, mconfvars
  <1>8. CASE AnswerEscape
    BY <1>1, <1>2, <1>8, LeavesFine DEF AnswerEscape, mconfvars
  <1>9. CASE InterruptWrite
    BY <1>1, <1>2, <1>9, LeavesFine DEF InterruptWrite, HandleExit, mconfvars
  <1> QED
    BY <1>3, <1>4, <1>5, <1>6, <1>7, <1>8, <1>9 DEF MconfStep

LEMMA MenusFine ==
  ASSUME TypeInv, UNCHANGED mconfvars,
         \/ DrawValues \/ Pass \/ PassEnds \/ Conf \/ CheckConf \/ NotAsked \/ AnswerSym
         \/ AnswerString \/ Choice \/ PickOne
  PROVE  Fine
  <1>1. {"random", "pass", "menus", "end"} \cap Working = {}
    BY DEF Working, Writing, Syncing
  <1>2. filename' \in ConfigNames
    BY DEF TypeInv, mconfvars
  <1>3. CASE DrawValues
    BY <1>1, <1>2, <1>3, LeavesFine DEF DrawValues
  <1>4. CASE Pass
    BY <1>1, <1>2, <1>4, LeavesFine DEF Pass
  <1>5. CASE PassEnds
    BY <1>1, <1>2, <1>5, LeavesFine DEF PassEnds
  <1>6. ASSUME Go PROVE Fine
    BY <1>1, <1>2, <1>6, LeavesFine DEF Go
  <1> QED
    BY <1>3, <1>4, <1>5, <1>6 DEF Conf, CheckConf, NotAsked, AnswerSym, AnswerString, Choice, PickOne

LEMMA ConfFine ==
  ASSUME TypeInv, UNCHANGED mconfvars, StartConf \/ StartFails \/ ConfStep
  PROVE  Fine
  <1>1. {"random", "pass", "menus", "end", "exit", "autoconf", "defconfig"} \cap Working = {}
    BY DEF Working, Writing, Syncing
  <1>2. filename' \in ConfigNames /\ "config" \in ConfigNames
    BY DEF TypeInv, mconfvars, ConfigNames
  <1>3. CASE StartConf
    <2>1. pc' \in {"random", "pass", "defconfig", "end"}
      BY <1>3 DEF StartConf
    <2> QED
      BY <1>1, <1>2, <1>3, <2>1, LeavesFine DEF StartConf, Start
  <1>4. CASE StartFails
    BY <1>1, <1>2, <1>4, LeavesFine DEF StartFails, Start
  <1>5. CASE EndConf
    <2>1. CASE pc' = "exit" /\ UNCHANGED write
      BY <1>1, <1>2, <1>5, <2>1, LeavesFine DEF EndConf
    <2>2. CASE pc' = "autoconf" /\ UNCHANGED write
      BY <1>1, <1>2, <1>5, <2>2, LeavesFine DEF EndConf
    <2>3. CASE CallWrite("config", "autoconf", "exit")
      BY <1>1, <1>2, <1>5, <2>3, BeginsFine DEF EndConf
    <2>4. CASE CallWrite("config", "exit", "exit")
      BY <1>1, <1>2, <1>5, <2>4, BeginsFine DEF EndConf
    <2> QED
      BY <1>5, <2>1, <2>2, <2>3, <2>4 DEF EndConf
  <1>6. CASE RefuseUpdate
    BY <1>1, <1>2, <1>6, LeavesFine DEF RefuseUpdate
  <1>7. CASE SaveDefconfig
    <2>1. TypeInv'
      BY <1>1, <1>2, <1>7 DEF TypeInv, SaveDefconfig, synced
    <2>2. UNCHANGED <<Configs, kept, synced>>
      BY <1>7 DEF TypeInv, SaveDefconfig, Configs, FileNames
    <2> QED
      BY <1>1, <1>7, <2>1, <2>2, Leaves DEF SaveDefconfig, Fine
  <1>8. CASE SplitConfig
    <2>1. TypeInv'
      BY <1>2, <1>8, ChangesDiffer DEF TypeInv, SplitConfig, directory, synced
    <2> QED
      BY <1>8, <2>1, ComparesAll DEF Fine, Directory!Next
  <1>9. CASE Touch
    <2>1. todo' \in Seq(Range(todo'))
      <3>1. todo \in Seq(Range(todo))
        BY <1>9 DEF TypeInv, Touch
      <3>2. todo' \in Seq(Range(todo))
        BY <1>9, <3>1 DEF Touch
      <3> QED
        BY <3>2, SeqOfRange
    <2>2. TypeInv'
      BY <1>2, <1>9, <2>1 DEF TypeInv, Touch
    <2> QED
      BY <1>9, <2>2, Touches DEF Fine, Directory!Next
  <1>10. CASE RenameHeader
    <2>1. TypeInv'
      BY <1>2, <1>10 DEF TypeInv, RenameHeader
    <2> QED
      BY <1>10, <2>1, RenamesHeader DEF Fine, Directory!Next
  <1>11. CASE RenameAuto
    <2>1. TypeInv'
      BY <1>2, <1>11, LinesAreAuto DEF TypeInv, RenameAuto
    <2> QED
      BY <1>11, <2>1, RenamesAuto DEF Fine, Directory!Next
  <1> QED
    BY <1>3, <1>4, <1>5, <1>6, <1>7, <1>8, <1>9, <1>10, <1>11, MenusFine DEF ConfStep

LEMMA WriteFine ==
  ASSUME TypeInv, UNCHANGED mconfvars, WriteStep
  PROVE  Fine
  <1>1. filename' \in ConfigNames /\ write.done \notin Working /\ write.failed \notin Working
    BY DEF TypeInv, mconfvars
  <1>2. CASE WriteTmp
    <2>1. TypeInv'
      BY <1>1, <1>2 DEF TypeInv, WriteTmp, directory, synced
    <2> QED
      BY <1>2, <2>1, Fills DEF Fine, Directory!Next
  <1>3. CASE OpenFails
    BY <1>1, <1>3, LeavesFine DEF OpenFails
  <1>4. CASE RenameOld
    <2>1. TypeInv'
      BY <1>1, <1>4 DEF TypeInv, RenameOld, synced
    <2> QED
      BY <1>4, <2>1, RenamesOld DEF Fine, Directory!Next
  <1>5. CASE RenameNew
    <2>1. TypeInv'
      BY <1>1, <1>5 DEF TypeInv, RenameNew, synced
    <2> QED
      BY <1>5, <2>1, RenamesNew DEF Fine, Directory!Next
  <1>6. CASE RenameFails
    BY <1>1, <1>6, LeavesFine DEF RenameFails
  <1>7. CASE Written
    BY <1>1, <1>7, LeavesFine DEF Written
  <1> QED
    BY <1>2, <1>3, <1>4, <1>5, <1>6, <1>7 DEF WriteStep

LEMMA InitFine == Init => TypeInv /\ Directory!Init
  <1> SUFFICES ASSUME Init PROVE TypeInv /\ Directory!Init
    OBVIOUS
  <1> USE DEF Init, FInit, ConfInit, MconfInit
  <1>1. PICK c \in Initial :
          /\ file = [f \in FileNames |-> IF f = "config" THEN c[1] ELSE NoFile]
          /\ auto = c[2] /\ header = c[2]
    OBVIOUS
  <1>2. TypeInv
    BY <1>1, InitialFiles DEF TypeInv, NoWrite, ConfigNames, Working, Writing, Syncing
  <1>3. /\ Step = "away" /\ Target = "config" /\ Content = NoFile /\ Coming = NoHeader /\ Untouched = {}
        /\ DOMAIN Configs = Directory!Files /\ kept = Configs["config"]
    BY <1>1 DEF Step, Target, Content, Coming, Untouched, Configs, Writing, Syncing, Directory!Files,
                Directory!Names, FileNames
  <1> QED
    BY <1>1, <1>2, <1>3 DEF Directory!Init

LEMMA NextFine == TypeInv /\ [Next]_vars => Fine
  <1> SUFFICES ASSUME TypeInv, [Next]_vars PROVE Fine
    OBVIOUS
  <1>1. CASE (StartMconf \/ MconfStep) /\ UNCHANGED confvars
    BY <1>1, MconfFine
  <1>2. CASE (StartConf \/ StartFails \/ ConfStep) /\ UNCHANGED mconfvars
    BY <1>2, ConfFine
  <1>3. CASE WriteStep /\ UNCHANGED <<confvars, mconfvars>>
    BY <1>3, WriteFine
  <1>4. CASE (Exit \/ Killed) /\ ConfReset /\ MconfReset
    <2>1. "shell" \notin Working /\ "config" \in ConfigNames
      BY DEF Working, Writing, Syncing, ConfigNames
    <2> QED
      BY <1>4, <2>1, LeavesFine DEF Exit, Killed, Gone, MconfReset
  <1>5. CASE UNCHANGED vars
    <2>1. TypeInv'
      BY <1>5 DEF TypeInv, vars, fvars, confvars, mconfvars, directory, synced
    <2>2. UNCHANGED Directory!vars
      BY <1>5 DEF vars, fvars, confvars, directory, synced, Directory!vars, Directory!written,
                  Directory!synced, Step, Target, Content, Configs, Coming, Untouched, Differs
    <2> QED
      BY <2>1, <2>2 DEF Fine
  <1> QED
    BY <1>1, <1>2, <1>3, <1>4, <1>5 DEF Next

\* For all menus, and whatever the functions that the programs call compute: mconf
\* and conf change .config, the header, auto.conf and the stamps only by the steps
\* of conf_write and conf_write_autoconf, in their order, and before the first
\* stamp it is known which symbols the header will say something else of.
THEOREM SessionImplementsDirectory == Spec => ImplementsDirectory
  <1>1. TypeInv /\ [Next]_vars => TypeInv' /\ [Directory!Next]_(Directory!vars)
    BY NextFine DEF Fine
  <1> QED
    BY InitFine, <1>1, PTL DEF Spec, ImplementsDirectory, Directory!Spec

\* So the configuration that was saved last is in .config or .config.old, and every
\* symbol the header says something else of than auto.conf was touched, in every
\* state of every sequence of programs, killed, failing or interrupted anywhere.
THEOREM SessionLosesNothing == Spec => []NothingIsLost
  <1>1. Directory!Spec => [](Directory!Saved /\ Directory!Covered)
    BY Directory!SavedCorrect, Directory!CoveredCorrect, PTL
  <1>2. Directory!Saved => ConfigSurvives
    BY DEF Directory!Saved, ConfigSurvives, Configs
  <1>3. Directory!Covered => StampsCoverChanges
    <2> SUFFICES ASSUME Directory!Covered, header # NoHeader, NEW s, ValuesIn(header, s) # ValuesIn(auto, s)
                 PROVE  s \in stamps
      BY DEF StampsCoverChanges
    <2>1. \E l \in (header \ auto) \cup (auto \ header) : l[1] = s
      BY DEF ValuesIn
    <2> QED
      BY <2>1 DEF Directory!Covered, Directory!Differing
  <1> QED
    BY SessionImplementsDirectory, <1>1, <1>2, <1>3, PTL DEF ImplementsDirectory, NothingIsLost

-----------------------------------------------------------------------------
(* Symbols and comparisons.                                                *)

\* A term or its negation.
Worth(e, v) == IF e[1] = "NOT" THEN 2 - TermValue(e[2], v) ELSE TermValue(e, v)

LEMMA ConstantsAre ==
  /\ DOMAIN Constant = {"y", "m", "n"}
  /\ Constant["y"] = 2 /\ Constant["m"] = 1 /\ Constant["n"] = 0
  BY DEF Constant

Tri(t) == t \in Nat /\ t <= 2

LEMMA SymbolValue ==
  ASSUME NEW v \in Valuations, NEW s \in BoolSym \cup TriSym
  PROVE  /\ Tri(v[s]) /\ s \in DOMAIN v /\ s \notin DOMAIN Constant
         /\ (s \in BoolSym => v[s] # 1) /\ TriValue(s, v) = v[s]
  <1>1. v \in [BoolSym \cup TriSym -> 0..2] /\ \A x \in BoolSym : v[x] # 1
    BY DEF Valuations
  <1>2. s \notin DOMAIN Constant
    BY ConstantsAre, ExprConstants
  <1>3. v[s] \in 0..2
    BY <1>1
  <1> QED
    BY <1>1, <1>2, <1>3 DEF TriValue, Tri

\* A comparison of a symbol with y, m or n is worth what it says.
LEMMA Compared ==
  ASSUME NEW v \in Valuations, NEW s \in BoolSym \cup TriSym, NEW c \in DOMAIN Constant,
         NEW e, e[2] = s, e[3] = c, e[1] \in Equality
  PROVE  TermValue(e, v) = IF (e[1] = "EQUAL") = (v[s] = Constant[c]) THEN 2 ELSE 0
  <1>1. Tri(v[s]) /\ Tri(Constant[c]) /\ TriValue(s, v) = v[s] /\ TriValue(c, v) = Constant[c]
    BY SymbolValue, ConstantsAre DEF TriValue, Tri
  <1>2. Operand(e, v[s]) = Rank(v[s]) /\ Operand(e, Constant[c]) = Rank(Constant[c])
    BY DEF Operand
  <1>3. Rank(v[s]) = Rank(Constant[c]) <=> v[s] = Constant[c]
    BY <1>1 DEF Rank, Tri
  <1>4. Compares(e, v) <=> (e[1] = "EQUAL" <=> Rank(v[s]) = Rank(Constant[c]))
    BY <1>1, <1>2 DEF Compares, Compare, Equality
  <1>5. e[1] # "SYMBOL"
    BY DEF Equality
  <1> QED
    BY <1>3, <1>4, <1>5 DEF TermValue, Equality

LEMMA SymIs ==
  ASSUME NEW v \in Valuations, NEW s \in BoolSym \cup TriSym, NEW e, e[1] = "SYMBOL", e[2] = s
  PROVE  TermValue(e, v) = v[s]
  BY SymbolValue DEF TermValue

LEMMA YesAndNo ==
  ASSUME NEW v \in Valuations
  PROVE  TermValue(Yes, v) = 2 /\ TermValue(No, v) = 0
  <1>1. DOMAIN v = BoolSym \cup TriSym
    BY DEF Valuations
  <1>2. "y" \notin DOMAIN v /\ "n" \notin DOMAIN v
    BY <1>1, ExprConstants
  <1> QED
    BY <1>2, ConstantsAre DEF TermValue, Yes, No, Sym

LEMMA ThirdIs ==
  ASSUME NEW x \in DOMAIN Constant, NEW y \in DOMAIN Constant, x # y
  PROVE  /\ Third(x, y) \in DOMAIN Constant /\ Third(x, y) \notin {x, y}
         /\ \A t \in Nat : t <= 2 => (t = Constant[Third(x, y)] <=> t # Constant[x] /\ t # Constant[y])
  <1>1. \E z \in DOMAIN Constant : z \notin {x, y}
    BY ConstantsAre
  <1>2. Third(x, y) \in DOMAIN Constant /\ Third(x, y) \notin {x, y}
    BY <1>1 DEF Third
  <1>3. \A z \in DOMAIN Constant : z \notin {x, y} =>
          \A t \in Nat : t <= 2 => (t = Constant[z] <=> t # Constant[x] /\ t # Constant[y])
    BY ConstantsAre
  <1> QED
    BY <1>2, <1>3

\* What is joined is about one symbol.
LEMMA JoinedAre ==
  ASSUME NEW a, NEW b, NEW s \in Joined(a, b)
  PROVE  /\ s \in BoolSym \cup TriSym
         /\ a[1] # "NOT" => a[2] = s
         /\ b[1] # "NOT" => b[2] = s
  BY DEF Joined

LEMMA LeastIs ==
  ASSUME NEW x, NEW y, Tri(x), Tri(y)
  PROVE  /\ Least(x, y) = Least(y, x) /\ (y = 2 => Least(x, y) = x) /\ (y = 0 => Least(x, y) = 0)
         /\ Most(x, y) = Most(y, x) /\ (y = 2 => Most(x, y) = 2) /\ (y = 0 => Most(x, y) = x)
  BY DEF Least, Most, Tri

\* A symbol, and a comparison of it.
LEMMA WithIs ==
  ASSUME NEW v \in Valuations, NEW a, NEW b, NEW s \in Joined(a, b), NEW type \in Equality,
         NEW c \in DOMAIN Constant, IsWith(a, b, type, {c})
  PROVE  Least(Worth(a, v), Worth(b, v)) =
           IF (type = "EQUAL") = (v[s] = Constant[c]) THEN v[s] ELSE 0
  <1> DEFINE w == IF (type = "EQUAL") = (v[s] = Constant[c]) THEN 2 ELSE 0
  <1>1. s \in BoolSym \cup TriSym
    BY JoinedAre
  <1>2. Tri(v[s]) /\ Tri(w)
    BY <1>1, SymbolValue DEF Tri
  <1>3. ASSUME NEW p, NEW q, p[1] = "SYMBOL", q[1] = type, q[3] = c, p[2] = s, q[2] = s
        PROVE  Worth(p, v) = v[s] /\ Worth(q, v) = w
    <2>1. p[1] # "NOT" /\ q[1] # "NOT"
      BY <1>3 DEF Equality
    <2>2. TermValue(p, v) = v[s]
      BY <1>1, <1>3, SymIs
    <2>3. TermValue(q, v) = w
      BY <1>1, <1>3, Compared
    <2> QED
      BY <2>1, <2>2, <2>3 DEF Worth
  <1>4. \/ Worth(a, v) = v[s] /\ Worth(b, v) = w
        \/ Worth(b, v) = v[s] /\ Worth(a, v) = w
    <2>1. CASE a[1] = "SYMBOL" /\ b[1] = type /\ b[3] = c
      <3>1. a[2] = s /\ b[2] = s
        BY <2>1, JoinedAre DEF Equality
      <3> QED
        BY <1>3, <2>1, <3>1
    <2>2. CASE b[1] = "SYMBOL" /\ a[1] = type /\ a[3] = c
      <3>1. a[2] = s /\ b[2] = s
        BY <2>2, JoinedAre DEF Equality
      <3> QED
        BY <1>3, <2>2, <3>1
    <2> QED
      BY <2>1, <2>2 DEF IsWith
  <1>5. Least(Worth(a, v), Worth(b, v)) = Least(v[s], w)
    <2> HIDE DEF w
    <2>1. Least(v[s], w) = Least(w, v[s])
      BY <1>2, LeastIs
    <2> QED
      BY <1>4, <2>1
  <1>6. Least(v[s], w) = IF (type = "EQUAL") = (v[s] = Constant[c]) THEN v[s] ELSE 0
    <2>1. CASE (type = "EQUAL") = (v[s] = Constant[c])
      <3>1. w = 2
        BY <2>1
      <3> HIDE DEF w
      <3> QED
        BY <1>2, <2>1, <3>1, LeastIs
    <2>2. CASE (type = "EQUAL") # (v[s] = Constant[c])
      <3>1. w = 0
        BY <2>2
      <3> HIDE DEF w
      <3> QED
        BY <1>2, <2>2, <3>1, LeastIs
    <2> QED
      BY <2>1, <2>2
  <1> QED
    BY <1>5, <1>6

\* Two operands that are joined by && are worth what stands for them.
LEMMA AndKeeps ==
  ASSUME NEW v \in Valuations, NEW a, NEW b, NEW s \in Joined(a, b), AndOf(a, b, s) # NULL
  PROVE  Worth(AndOf(a, b, s), v) = Least(Worth(a, v), Worth(b, v))
  <1> DEFINE r == AndOf(a, b, s)
             l == Least(Worth(a, v), Worth(b, v))
  <1>1. s \in BoolSym \cup TriSym /\ (a[1] # "NOT" => a[2] = s) /\ (b[1] # "NOT" => b[2] = s)
    BY JoinedAre
  <1>2. Tri(v[s])
    BY <1>1, SymbolValue
  <1>3. ASSUME NEW c \in DOMAIN Constant
        PROVE  Worth(<<"EQUAL", s, c>>, v) = IF v[s] = Constant[c] THEN 2 ELSE 0
    <2> DEFINE e == <<"EQUAL", s, c>>
    <2>1. e[1] = "EQUAL" /\ e[2] = s /\ e[3] = c
      OBVIOUS
    <2> HIDE DEF e
    <2>2. TermValue(e, v) = IF (e[1] = "EQUAL") = (v[s] = Constant[c]) THEN 2 ELSE 0
      BY <1>1, <2>1, Compared DEF Equality
    <2>3. Worth(e, v) = IF v[s] = Constant[c] THEN 2 ELSE 0
      BY <2>1, <2>2 DEF Worth
    <2> QED
      BY <2>3 DEF e
  <1>4. CASE IsWith(a, b, "EQUAL", {"y"}) \/ IsWith(a, b, "UNEQUAL", {"m"})
    <2>1. r = <<"EQUAL", s, "y">>
      BY <1>4 DEF AndOf
    <2>2. Worth(r, v) = IF v[s] = 2 THEN 2 ELSE 0
      <3> HIDE DEF r
      <3> QED
        BY <1>3, <2>1, ConstantsAre
    <2>3. l = IF v[s] = 2 THEN 2 ELSE 0
      <3>1. CASE IsWith(a, b, "EQUAL", {"y"})
        <4>1. l = IF ("EQUAL" = "EQUAL") = (v[s] = Constant["y"]) THEN v[s] ELSE 0
          BY <3>1, WithIs, ConstantsAre DEF Equality
        <4> HIDE DEF l
        <4> QED
          BY <4>1, ConstantsAre
      <3>2. CASE IsWith(a, b, "UNEQUAL", {"m"})
        <4>1. l = IF ("UNEQUAL" = "EQUAL") = (v[s] = Constant["m"]) THEN v[s] ELSE 0
          BY <3>2, WithIs, ConstantsAre DEF Equality
        <4> HIDE DEF l
        <4>2. l = IF v[s] # 1 THEN v[s] ELSE 0
          BY <4>1, ConstantsAre
        <4> QED
          BY <1>2, <4>2 DEF Tri
      <3> QED
        BY <1>4, <3>1, <3>2
    <2> HIDE DEF r, l
    <2> QED
      BY <2>2, <2>3 DEF r, l
  <1>5. CASE IsWith(a, b, "UNEQUAL", {"n"}) /\ ~IsWith(a, b, "EQUAL", {"y"})
             /\ ~IsWith(a, b, "UNEQUAL", {"m"})
    <2>1. r = Sym(s)
      BY <1>5 DEF AndOf
    <2>2. Worth(r, v) = v[s]
      <3>1. r[1] = "SYMBOL" /\ r[2] = s
        BY <2>1 DEF Sym
      <3> HIDE DEF r
      <3> QED
        BY <1>1, <3>1, SymIs DEF Worth
    <2>3. l = v[s]
      <3>1. l = IF ("UNEQUAL" = "EQUAL") = (v[s] = Constant["n"]) THEN v[s] ELSE 0
        BY <1>5, WithIs, ConstantsAre DEF Equality
      <3> HIDE DEF l
      <3> QED
        BY <3>1, ConstantsAre
    <2> QED
      BY <2>2, <2>3
  <1>6. CASE ~(\/ IsWith(a, b, "EQUAL", {"y"}) \/ IsWith(a, b, "UNEQUAL", {"m"})
               \/ IsWith(a, b, "UNEQUAL", {"n"}))
    <2>1. /\ a[1] \in Equality /\ b[1] \in Equality
          /\ a[3] \in DOMAIN Constant /\ b[3] \in DOMAIN Constant
          /\ \/ {a[1], b[1]} = Equality
             \/ a[1] = "UNEQUAL" /\ b[1] = "UNEQUAL" /\ a[3] # b[3]
          /\ r = IF {a[1], b[1]} = Equality
                 THEN IF a[3] = b[3] THEN No
                      ELSE <<"EQUAL", s, IF a[1] = "EQUAL" THEN a[3] ELSE b[3]>>
                 ELSE <<"EQUAL", s, Third(a[3], b[3])>>
      <3>1. /\ {a[3], b[3]} \subseteq DOMAIN Constant
            /\ \/ {a[1], b[1]} = Equality
               \/ a[1] = "UNEQUAL" /\ b[1] = "UNEQUAL" /\ a[3] # b[3]
            /\ r = IF {a[1], b[1]} = Equality
                   THEN IF a[3] = b[3] THEN No
                        ELSE <<"EQUAL", s, IF a[1] = "EQUAL" THEN a[3] ELSE b[3]>>
                   ELSE <<"EQUAL", s, Third(a[3], b[3])>>
        BY <1>6 DEF AndOf
      <3>2. a[1] \in Equality /\ b[1] \in Equality
        <4>1. CASE {a[1], b[1]} = Equality
          BY <4>1
        <4>2. CASE a[1] = "UNEQUAL" /\ b[1] = "UNEQUAL"
          BY <4>2 DEF Equality
        <4> QED
          BY <3>1, <4>1, <4>2
      <3> HIDE DEF r
      <3> QED
        BY <3>1, <3>2
    <2> DEFINE x == Constant[a[3]]
               y == Constant[b[3]]
    <2>2. a[1] # "NOT" /\ b[1] # "NOT" /\ a[2] = s /\ b[2] = s
      BY <1>1, <2>1 DEF Equality
    <2>3. Worth(a, v) = (IF (a[1] = "EQUAL") = (v[s] = x) THEN 2 ELSE 0)
          /\ Worth(b, v) = (IF (b[1] = "EQUAL") = (v[s] = y) THEN 2 ELSE 0)
      BY <1>1, <2>1, <2>2, Compared DEF Worth
    <2>4. x = y <=> a[3] = b[3]
      BY <2>1, ConstantsAre
    <2> HIDE DEF x, y
    <2>5. l = IF (a[1] = "EQUAL") = (v[s] = x) /\ (b[1] = "EQUAL") = (v[s] = y) THEN 2 ELSE 0
      BY <2>3 DEF Least
    <2> HIDE DEF l
    <2>6. CASE {a[1], b[1]} = Equality /\ a[3] = b[3]
      <3>1. (a[1] = "EQUAL" /\ b[1] = "UNEQUAL") \/ (a[1] = "UNEQUAL" /\ b[1] = "EQUAL")
        BY <2>6 DEF Equality
      <3>2. l = 0
        BY <2>4, <2>5, <2>6, <3>1
      <3>3. r = No
        BY <2>1, <2>6
      <3>4. Worth(No, v) = 0
        BY YesAndNo DEF Worth, No, Sym
      <3> QED
        BY <3>2, <3>3, <3>4 DEF l
    <2>7. CASE {a[1], b[1]} = Equality /\ a[3] # b[3]
      <3>1. (a[1] = "EQUAL" /\ b[1] = "UNEQUAL") \/ (a[1] = "UNEQUAL" /\ b[1] = "EQUAL")
        BY <2>7 DEF Equality
      <3>2. CASE a[1] = "EQUAL" /\ b[1] = "UNEQUAL"
        <4>1. r = <<"EQUAL", s, a[3]>>
          BY <2>1, <2>7, <3>2
        <4>2. Worth(r, v) = IF v[s] = x THEN 2 ELSE 0
          <5> HIDE DEF r
          <5> QED
            BY <1>3, <2>1, <4>1 DEF x
        <4>3. l = IF v[s] = x THEN 2 ELSE 0
          BY <2>4, <2>5, <2>7, <3>2
        <4> QED
          BY <4>2, <4>3 DEF l
      <3>3. CASE a[1] = "UNEQUAL" /\ b[1] = "EQUAL"
        <4>1. r = <<"EQUAL", s, b[3]>>
          BY <2>1, <2>7, <3>3
        <4>2. Worth(r, v) = IF v[s] = y THEN 2 ELSE 0
          <5> HIDE DEF r
          <5> QED
            BY <1>3, <2>1, <4>1 DEF y
        <4>3. l = IF v[s] = y THEN 2 ELSE 0
          BY <2>4, <2>5, <2>7, <3>3
        <4> QED
          BY <4>2, <4>3 DEF l
      <3> QED
        BY <3>1, <3>2, <3>3
    <2>8. CASE {a[1], b[1]} # Equality
      <3>1. a[1] = "UNEQUAL" /\ b[1] = "UNEQUAL" /\ a[3] # b[3]
            /\ r = <<"EQUAL", s, Third(a[3], b[3])>>
        BY <2>1, <2>8
      <3>2. /\ Third(a[3], b[3]) \in DOMAIN Constant
            /\ v[s] = Constant[Third(a[3], b[3])] <=> v[s] # x /\ v[s] # y
        BY <1>2, <2>1, <3>1, ThirdIs DEF x, y, Tri
      <3>3. Worth(r, v) = IF v[s] # x /\ v[s] # y THEN 2 ELSE 0
        <4> HIDE DEF r
        <4> QED
          BY <1>3, <3>1, <3>2
      <3>4. l = IF v[s] # x /\ v[s] # y THEN 2 ELSE 0
        BY <2>5, <3>1
      <3> QED
        BY <3>3, <3>4 DEF l
    <2> QED
      BY <2>6, <2>7, <2>8
  <1> QED
    BY <1>4, <1>5, <1>6

\* The same for ||.
LEMMA OrKeeps ==
  ASSUME NEW v \in Valuations, NEW a, NEW b, NEW s \in Joined(a, b), OrOf(a, b, s) # NULL
  PROVE  Worth(OrOf(a, b, s), v) = Most(Worth(a, v), Worth(b, v))
  <1> DEFINE r == OrOf(a, b, s)
  <1>1. s \in BoolSym \cup TriSym /\ (a[1] # "NOT" => a[2] = s) /\ (b[1] # "NOT" => b[2] = s)
    BY JoinedAre
  <1>2. Tri(v[s]) /\ (s \in BoolSym => v[s] # 1)
    BY <1>1, SymbolValue
  <1>3. CASE /\ s \in TriSym /\ a[1] = "EQUAL" /\ b[1] = "EQUAL"
             /\ a[3] # b[3] /\ {a[3], b[3]} \subseteq DOMAIN Constant
    <2> DEFINE c == Third(a[3], b[3])
               e == <<"UNEQUAL", s, c>>
    <2>1. r = e
      BY <1>3 DEF OrOf
    <2>2. e[1] = "UNEQUAL" /\ e[2] = s /\ e[3] = c
      OBVIOUS
    <2>3. /\ c \in DOMAIN Constant
          /\ v[s] = Constant[c] <=> v[s] # Constant[a[3]] /\ v[s] # Constant[b[3]]
      BY <1>2, <1>3, ThirdIs DEF Tri
    <2> HIDE DEF e, c
    <2>4. Worth(e, v) = IF v[s] = Constant[c] THEN 0 ELSE 2
      <3>1. TermValue(e, v) = IF (e[1] = "EQUAL") = (v[s] = Constant[c]) THEN 2 ELSE 0
        BY <1>1, <2>2, <2>3, Compared DEF Equality
      <3> QED
        BY <2>2, <3>1 DEF Worth
    <2>5. /\ Worth(a, v) = IF v[s] = Constant[a[3]] THEN 2 ELSE 0
          /\ Worth(b, v) = IF v[s] = Constant[b[3]] THEN 2 ELSE 0
      <3>1. /\ TermValue(a, v) = IF (a[1] = "EQUAL") = (v[s] = Constant[a[3]]) THEN 2 ELSE 0
            /\ TermValue(b, v) = IF (b[1] = "EQUAL") = (v[s] = Constant[b[3]]) THEN 2 ELSE 0
        BY <1>1, <1>3, Compared DEF Equality
      <3> QED
        BY <1>3, <3>1 DEF Worth
    <2>6. Worth(e, v) = Most(Worth(a, v), Worth(b, v))
      BY <2>3, <2>4, <2>5 DEF Most
    <2> QED
      BY <2>1, <2>6
  <1>4. CASE s \in BoolSym /\ {a, b} = {Not(Sym(s)), Sym(s)}
    <2>1. s \notin TriSym
      BY <1>4, ExprConstants
    <2>2. r = Yes
      BY <1>4, <2>1 DEF OrOf
    <2>3. Worth(Yes, v) = 2
      BY YesAndNo DEF Worth, Yes, Sym
    <2>4. TermValue(Sym(s), v) = v[s]
      BY <1>1, SymIs DEF Sym
    <2>5. Worth(Sym(s), v) = v[s] /\ Worth(Not(Sym(s)), v) = 2 - v[s]
      BY <2>4 DEF Worth, Sym, Not
    <2>6. (a = Sym(s) /\ b = Not(Sym(s))) \/ (a = Not(Sym(s)) /\ b = Sym(s))
      <3>1. Sym(s) # Not(Sym(s))
        BY DEF Sym, Not
      <3> QED
        BY <1>4, <3>1
    <2>7. Most(v[s], 2 - v[s]) = 2 /\ Most(2 - v[s], v[s]) = 2
      BY <1>2, <1>4 DEF Most, Tri
    <2>8. Most(Worth(a, v), Worth(b, v)) = 2
      BY <2>5, <2>6, <2>7
    <2> QED
      BY <2>2, <2>3, <2>8
  <1> QED
    BY <1>3, <1>4 DEF OrOf

\* A comparison of a bool with y, m or n is worth what it is transformed to.
LEMMA TransformKeeps ==
  ASSUME NEW v \in Valuations, NEW e, e[1] \in Equality
  PROVE  Worth(TransformEquality(e), v) = Worth(e, v)
  <1>1. e[1] # "NOT"
    BY DEF Equality
  <1>2. CASE e[2] \in BoolSym /\ e[3] \in DOMAIN Constant
    <2> DEFINE s == e[2]
               r == TransformEquality(e)
    <2>1. s \in BoolSym /\ Tri(v[s]) /\ v[s] # 1
      BY <1>2, SymbolValue
    <2>2. Worth(e, v) = IF (e[1] = "EQUAL") = (v[s] = Constant[e[3]]) THEN 2 ELSE 0
      BY <1>1, <1>2, Compared DEF Worth
    <2>3. TermValue(Sym(s), v) = v[s]
      BY <2>1, SymIs DEF Sym
    <2>4. Worth(Sym(s), v) = v[s] /\ Worth(Not(Sym(s)), v) = 2 - v[s]
      BY <2>3 DEF Worth, Sym, Not
    <2>5. Worth(Yes, v) = 2 /\ Worth(No, v) = 0
      BY YesAndNo DEF Worth, Yes, No, Sym
    <2>6. CASE e[3] = "m"
      <3>1. r = IF e[1] = "EQUAL" THEN No ELSE Yes
        BY <1>2, <2>6 DEF TransformEquality
      <3>2. Worth(e, v) = IF e[1] = "EQUAL" THEN 0 ELSE 2
        BY <2>1, <2>2, <2>6, ConstantsAre
      <3> QED
        BY <2>5, <3>1, <3>2
    <2>7. CASE e[3] # "m"
      <3>1. r = IF (e[1] = "EQUAL") = (e[3] = "y") THEN Sym(s) ELSE Not(Sym(s))
        BY <1>2, <2>7 DEF TransformEquality
      <3>2. e[3] = "y" \/ e[3] = "n"
        BY <1>2, <2>7, ConstantsAre
      <3>3. Constant[e[3]] = IF e[3] = "y" THEN 2 ELSE 0
        BY <3>2, ConstantsAre
      <3>4. v[s] = 0 \/ v[s] = 2
        BY <2>1 DEF Tri
      <3>5. Worth(e, v) = IF (e[1] = "EQUAL") = (e[3] = "y") THEN v[s] ELSE 2 - v[s]
        BY <2>2, <3>2, <3>3, <3>4
      <3> QED
        BY <2>4, <3>1, <3>5
    <2> QED
      BY <2>6, <2>7
  <1>3. CASE ~(e[2] \in BoolSym /\ e[3] \in DOMAIN Constant)
    BY <1>3 DEF TransformEquality
  <1> QED
    BY <1>2, <1>3

\* The opposite of a comparison is worth its negation.
LEMMA OppositeKeeps ==
  ASSUME NEW v \in Valuations, NEW e, e[1] \in Comparison,
         e[2] \in BoolSym \cup TriSym \cup DOMAIN Constant,
         e[3] \in BoolSym \cup TriSym \cup DOMAIN Constant
  PROVE  Worth(<<Opposite[e[1]], e[2], e[3]>>, v) = Worth(Not(e), v)
  <1> DEFINE o == <<Opposite[e[1]], e[2], e[3]>>
             l == Operand(e, TriValue(e[2], v))
             r == Operand(e, TriValue(e[3], v))
  <1>1. o[1] = Opposite[e[1]] /\ o[2] = e[2] /\ o[3] = e[3]
    OBVIOUS
  <1> HIDE DEF o
  <1>2. ASSUME NEW s \in BoolSym \cup TriSym \cup DOMAIN Constant
        PROVE  TriValue(s, v) \in Nat /\ Operand(e, TriValue(s, v)) \in Nat
    <2>1. Tri(TriValue(s, v))
      <3>1. CASE s \in DOMAIN Constant
        BY <3>1, ConstantsAre DEF TriValue, Tri
      <3>2. CASE s \in BoolSym \cup TriSym
        BY <3>2, SymbolValue
      <3> QED
        BY <3>1, <3>2
    <2> QED
      BY <2>1 DEF Tri, Operand, Rank
  <1>3. l \in Nat /\ r \in Nat
    BY <1>2
  <1>4. Operand(o, TriValue(e[2], v)) = l /\ Operand(o, TriValue(e[3], v)) = r
    BY <1>1 DEF Operand
  <1> HIDE DEF l, r
  <1>5. Compare(Opposite[e[1]], l, r) <=> ~Compare(e[1], l, r)
    <2>1. e[1] \in {"EQUAL", "UNEQUAL", "LTH", "LEQ", "GTH", "GEQ"}
      BY DEF Comparison, Equality
    <2> QED
      BY <1>3, <2>1 DEF Compare, Opposite
  <1>6. Compares(o, v) <=> ~Compares(e, v)
    BY <1>1, <1>4, <1>5 DEF Compares, l, r
  <1>7. o[1] \in Comparison /\ o[1] # "SYMBOL" /\ o[1] # "NOT" /\ e[1] # "SYMBOL"
    <2>1. e[1] \in {"EQUAL", "UNEQUAL", "LTH", "LEQ", "GTH", "GEQ"}
      BY DEF Comparison, Equality
    <2> QED
      BY <1>1, <2>1 DEF Opposite, Comparison, Equality
  <1>8. Worth(o, v) = 2 - TermValue(e, v)
    BY <1>6, <1>7 DEF Worth, TermValue
  <1>9. Worth(Not(e), v) = 2 - TermValue(e, v)
    BY DEF Worth, Not
  <1> QED
    BY <1>8, <1>9 DEF o

\* What expr_join_and, expr_join_or and expr_transform put in the place of terms is
\* worth the same, whatever symbols there are and whatever values they have
\* (expr.c:423-579, 707-785).
THEOREM TermsKeepValue ==
  ASSUME NEW v \in Valuations
  PROVE  /\ \A a, b : \A s \in Joined(a, b) :
              /\ AndOf(a, b, s) # NULL => Worth(AndOf(a, b, s), v) = Least(Worth(a, v), Worth(b, v))
              /\ OrOf(a, b, s) # NULL => Worth(OrOf(a, b, s), v) = Most(Worth(a, v), Worth(b, v))
         /\ \A e : e[1] \in Equality => Worth(TransformEquality(e), v) = Worth(e, v)
         /\ \A e \in Comparison \X (BoolSym \cup TriSym \cup DOMAIN Constant)
                                 \X (BoolSym \cup TriSym \cup DOMAIN Constant) :
              Worth(<<Opposite[e[1]], e[2], e[3]>>, v) = Worth(Not(e), v)
  BY AndKeeps, OrKeeps, TransformKeeps, OppositeKeeps

=============================================================================
