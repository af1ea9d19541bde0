------------------------------ MODULE MakeDevs ------------------------------
(***************************************************************************)
(* package/makedevs/makedevs.c: makedevs, which gives the files of the     *)
(* target their owners, modes and capabilities and makes device nodes, as  *)
(* a table says line by line.  It goes on after most errors, and its exit  *)
(* code is all that fs/common.mk asks for.                                 *)
(*                                                                         *)
(* A path is a sequence of names.  A node is a pair of a path and the      *)
(* number that is appended to it, or NoNumber.  Links are met by the lines *)
(* for trees; a line that names one, or a path through one, is left out.   *)
(* The calls are those of fakeroot: a change of owner clears nothing else. *)
(***************************************************************************)
EXTENDS Integers, Sequences, SequencesExt, FiniteSets

CONSTANTS
  Tables,         \* the tables: sequences of lines
  Targets,        \* what the target directory may hold: nodes to attributes
  Ids,            \* what the passwd and group files of the target say: names to numbers
  Xattrs,         \* EXTENDED_ATTRIBUTES was defined
  FieldMax,       \* 0xfffff, the largest number in a line
  Word,           \* 2^32
  MaxErrors       \* how many system calls may fail

VARIABLES
  dpc,            \* idle, reading, exited
  table,          \* the lines
  linenum,        \* how many of them were read
  fs,             \* the target: nodes to [type, mode, user, group, rdev, caps]
  full_name,      \* the path of the last line, or <<>>
  ret,            \* the exit code
  errors,
  ferror,         \* ferror(table): a read of the table failed
  target          \* history: fs as it was at the start

devvars == <<dpc, table, linenum, fs, full_name, ret, errors, ferror, target>>

NoNumber == -1
KeepMode == "-1"

Path == Seq(STRING)
Line == [kind : {"d", "f", "F", "r", "c", "x", "xattr", "comment", "invalid"},
         name : Path, mode : STRING, user : STRING,
         major : Nat, minor : Nat, start : Nat, increment : Nat, count : Nat]
Attributes == [type : STRING, mode : STRING, owner : Nat,
               rdev : {<<>>} \cup (Nat \X Nat), caps : SUBSET Path]

Node1(path) == <<path, NoNumber>>
Exists(f, path) == Node1(path) \in DOMAIN f
IsA(f, path, types) == Exists(f, path) /\ f[Node1(path)].type \in types

\* a node with a number stands beside the one without
Below(path, x) == IsPrefix(path, x[1]) /\ (x[1] = path => x[2] = NoNumber)
Under(f, path) == {x \in DOMAIN f : Below(path, x)}

\* The root directory is there, and the links are where no line leads.
ASSUME MakeDevsAssumption ==
  /\ Tables \subseteq Seq(Line)
  /\ \A f \in Targets : /\ f \in [DOMAIN f -> Attributes] /\ DOMAIN f \subseteq Path \X Int
                        /\ IsA(f, <<>>, {"dir"})
  /\ \A t \in Tables, f \in Targets : \A i \in DOMAIN t : \A n \in 1..Len(t[i].name) :
       n < Len(t[i].name) \/ t[i].kind # "r" =>
         ~IsA(f, SubSeq(t[i].name, 1, n), {"link", "dangling"})
  /\ \A u \in DOMAIN Ids : Ids[u] \in Nat
  /\ Word \in Nat \ {0}

DevInit ==
  /\ dpc = "idle" /\ table = <<>> /\ linenum = 0 /\ fs = <<>> /\ full_name = <<>>
  /\ ret = 0 /\ errors = 0 /\ ferror = FALSE /\ target = <<>>

StartMakedevs ==
  /\ dpc = "idle" /\ dpc' = "reading"
  /\ table' \in Tables /\ fs' \in Targets /\ target' = fs'
  /\ UNCHANGED <<linenum, full_name, ret, errors, ferror>>

-----------------------------------------------------------------------------
(* One line.  Fails is an error that is told and remembered, Dies ends the *)
(* program at once.                                                        *)

Line1 == table[linenum + 1]

Reads(kinds) ==
  /\ dpc = "reading" /\ linenum < Len(table) /\ Line1.kind \in kinds
  /\ linenum' = linenum + 1 /\ UNCHANGED <<table, ferror, target>>

Passes == UNCHANGED <<dpc, ret, errors>>
Fails == ret' = 1 /\ UNCHANGED dpc
Dies == dpc' = "exited" /\ ret' = 1 /\ UNCHANGED <<fs, full_name>>

\* a system call that fails for no reason of ours
Trouble == errors < MaxErrors /\ errors' = errors + 1

TooLarge(l) == \E n \in {l.major, l.minor, l.start, l.count, l.increment} : n > FieldMax

\* get_ug_id: a number, or a name of the target.
Known(who) == who = "none" \/ who \in DOMAIN Ids

\* The line is understood, with all of its numbers, and its owner is known.
Understood(kinds) == Reads(kinds) /\ ~TooLarge(Line1) /\ Known(Line1.user)

\* A line of only two or three fields leaves user and group unset: they are
\* whatever is on the stack, an id or a name that nobody has.
Owners(l) ==
  IF l.user = "none" THEN {Ids[u] : u \in DOMAIN Ids} ELSE {Ids[l.user]}

\* mutant: the path is only remembered when something is there
NamedMutant(l) == full_name' = IF Exists(fs, l.name) THEN l.name ELSE full_name

\* concat_path_file(rootdir, name), whatever slashes the two have between them
Named(l) == full_name' = l.name

\* A name that the target has not, or a passwd file that cannot be read, is the end.
UnknownOwner ==
  /\ Reads({"d", "f", "F", "r", "c", "x"}) /\ ~TooLarge(Line1)
  /\ IF Known(Line1.user) /\ Line1.user # "none" THEN Trouble ELSE UNCHANGED errors
  /\ Dies

\* chown, then chmod: the second may fail when the first is done.
Owned(f, x, owner) == [f EXCEPT ![x].owner = owner]
Moded(f, x, mode) == IF mode = KeepMode THEN f ELSE [f EXCEPT ![x].mode = mode]

\* mutant: the error is told but not remembered
OwnAndModeMutant(f, x, owner, mode) ==
  \/ fs' = Moded(Owned(f, x, owner), x, mode) /\ Passes
  \/ Trouble /\ UNCHANGED <<dpc, ret>> /\ fs' \in {f, Owned(f, x, owner)}

OwnAndMode(f, x, owner, mode) ==
  \/ fs' = Moded(Owned(f, x, owner), x, mode) /\ Passes
  \/ Trouble /\ Fails /\ fs' \in {f, Owned(f, x, owner)}

\* bb_make_directory: the parents that are missing are made with mode 777, and
\* the directory, if it is made, with the mode, of which -1 is all bits.
NewDir(mode) == [type |-> "dir", mode |-> mode, owner |-> 0, rdev |-> <<>>, caps |-> {}]

MakeDirectory(f, path, mode) ==
  LET missing == {n \in 1..Len(path) : ~Exists(f, SubSeq(path, 1, n))}
      new == {Node1(SubSeq(path, 1, n)) : n \in missing}
  IN  [x \in DOMAIN f \cup new |->
         IF x \in DOMAIN f THEN f[x]
         ELSE NewDir(IF x # Node1(path) THEN "777" ELSE IF mode = KeepMode THEN "7777" ELSE mode)]

\* something else than a directory is in the way
Blocked(f, path) ==
  \E n \in 1..Len(path) : Exists(f, SubSeq(path, 1, n)) /\ ~IsA(f, SubSeq(path, 1, n), {"dir"})

\* What bb_make_directory returns is not looked at.  If it only could not set the mode,
\* which is set again, nothing is told.  If it fails, perhaps after it made some of the
\* parents, chown does too, but for a file in the place of the directory, which is given
\* owner and mode.
DirectoryLine ==
  LET l == Line1
      x == Node1(l.name)
  IN  /\ Understood({"d"}) /\ Named(l)
      /\ \E owner \in Owners(l) :
           IF ~Blocked(fs, l.name)
           THEN \/ OwnAndMode(MakeDirectory(fs, l.name, l.mode), x, owner, l.mode)
                \/ /\ ~Exists(fs, l.name) /\ Trouble /\ UNCHANGED <<dpc, ret>>
                   /\ fs' = Moded(Owned(MakeDirectory(fs, l.name, "777"), x, owner), x, l.mode)
                \/ /\ ~Exists(fs, l.name) /\ Trouble /\ Fails
                   /\ \E n \in 0..Len(l.name) - 1 :
                        fs' = MakeDirectory(fs, SubSeq(l.name, 1, n), "777")
           ELSE IF Exists(fs, l.name) THEN OwnAndMode(fs, x, owner, l.mode)
           ELSE Fails /\ UNCHANGED <<fs, errors>>

\* An F line is for a file that need not be there.
FileLine ==
  LET l == Line1
  IN  /\ Understood({"f", "F"}) /\ Named(l)
      /\ \E owner \in Owners(l) :
           IF IsA(fs, l.name, {"file"}) THEN OwnAndMode(fs, Node1(l.name), owner, l.mode)
           ELSE (IF l.kind = "F" THEN Passes ELSE Fails /\ UNCHANGED errors) /\ UNCHANGED fs

\* The owner, and the mode of what is there, except through a link to something.
bb_recursive(file, owner, mode) ==
  IF mode = KeepMode \/ file.type \in {"link", "dangling"} THEN [file EXCEPT !.owner = owner]
  ELSE [file EXCEPT !.owner = owner, !.mode = mode]

\* nftw, which stops at the first error, with whatever part of the tree it has come to
\* and perhaps a node that has got its owner only: the mode of a dangling link cannot
\* be changed.
TreeLine ==
  LET l == Line1
      tree == Under(fs, l.name)
      stuck == {x \in tree : fs[x].type = "dangling" /\ l.mode # KeepMode}
      change(part, last, owner) ==
        [x \in DOMAIN fs |->
           IF x \in last THEN bb_recursive(fs[x], owner, KeepMode)
           ELSE IF x \in part THEN bb_recursive(fs[x], owner, l.mode) ELSE fs[x]]
  IN  /\ Understood({"r"}) /\ Named(l)
      /\ \E owner \in Owners(l) :
           \/ /\ Exists(fs, l.name) /\ stuck = {}
              /\ fs' = change(tree, {}, owner) /\ Passes
           \/ /\ Fails
              /\ \E part \in SUBSET (tree \ stuck), last \in {{}} \cup {{x} : x \in tree} :
                   /\ IF ~Exists(fs, l.name) \/ last \cap stuck # {} THEN UNCHANGED errors
                      ELSE Trouble
                   /\ fs' = change(part, last, owner)

\* The nodes of a line; count 1 is one node without a number, as count 0 is.
Range1(l) ==
  LET count == IF l.count > 0 THEN l.count - 1 ELSE 0
  IN  [n \in l.start..l.start + count |->
         [node |-> IF count = 0 THEN Node1(l.name) ELSE <<l.name, n>>,
          rdev |-> <<l.major, (l.minor + (n - l.start) * l.increment) % Word>>]]

\* c stands for b and p too.  Each node is made on its own: one that is there,
\* or whose directory is not, fails, as does any with the mode -1, which is no type;
\* the others are made.  One whose owner or mode cannot be set stays as it is.
DeviceLine ==
  LET l == Line1
      nodes == Range1(l)
      at(x) == CHOOSE n \in DOMAIN nodes : nodes[n].node = x
      all == {nodes[n].node : n \in DOMAIN nodes}
      can == IF IsA(fs, Front(l.name), {"dir"}) /\ l.mode # KeepMode THEN all \ DOMAIN fs ELSE {}
  IN  /\ Understood({"c"}) /\ Named(l)
      /\ \E owner \in Owners(l), made \in SUBSET can :
           \E owned \in SUBSET made : \E done \in SUBSET owned :
             /\ IF done = can THEN UNCHANGED errors ELSE Trouble
             /\ fs' = [x \in DOMAIN fs \cup made |->
                         IF x \in DOMAIN fs THEN fs[x]
                         ELSE [type |-> "dev", mode |-> l.mode,
                               owner |-> IF x \in owned THEN owner ELSE 0,
                               rdev |-> nodes[at(x)].rdev, caps |-> {}]]
             /\ IF done = all THEN UNCHANGED <<dpc, ret>> ELSE Fails

\* any other type
UnsupportedLine ==
  /\ Understood({"x"}) /\ Named(Line1)
  /\ Fails /\ UNCHANGED <<fs, errors>>

\* A capability is added to those that the file has; any error is the end.
bb_set_xattr(x, xattr) ==
  \/ fs' = [fs EXCEPT ![x].caps = @ \cup {xattr}] /\ Passes
  \/ Trouble /\ dpc' = "exited" /\ ret' = 1 /\ UNCHANGED fs

\* |xattr: for the path of the line before, whatever became of that line.
XattrLine ==
  /\ Reads({"xattr"})
  /\ \/ /\ Xattrs /\ full_name # <<>> /\ IsA(fs, full_name, {"file"})
        /\ bb_set_xattr(Node1(full_name), Line1.name) /\ UNCHANGED full_name
     \/ ~(Xattrs /\ full_name # <<>> /\ IsA(fs, full_name, {"file"})) /\ Dies /\ UNCHANGED errors

\* A comment, a blank line, one that starts with a blank; or a line that is
\* not understood or has a number that is too large, which is an error.
OtherLine ==
  \/ Reads({"comment"}) /\ Passes /\ UNCHANGED <<fs, full_name>>
  \/ /\ Reads({"invalid", "d", "f", "F", "r", "c", "x"})
     /\ Line1.kind = "invalid" \/ TooLarge(Line1)
     /\ Fails /\ UNCHANGED <<fs, full_name, errors>>

EndOfTable ==
  /\ dpc = "reading" /\ linenum = Len(table) /\ dpc' = "exited"
  /\ UNCHANGED <<table, linenum, fs, full_name, ret, errors, ferror, target>>

\* A read that fails looks to the loop like the end of the table.
ReadFails ==
  /\ dpc = "reading" /\ Trouble /\ ferror' = TRUE /\ dpc' = "exited"
  /\ UNCHANGED <<table, linenum, fs, full_name, ret, target>>

DevNext ==
  \/ StartMakedevs \/ UnknownOwner \/ DirectoryLine \/ FileLine \/ TreeLine \/ DeviceLine
  \/ UnsupportedLine \/ XattrLine \/ OtherLine \/ EndOfTable \/ ReadFails

DevSpec == DevInit /\ [][DevNext]_devvars

-----------------------------------------------------------------------------
(* Properties                                                              *)

\* the lines that speak of a node, and those that no later line of those read overrides; a
\* directory may be made as a parent after a line for the tree around it; an F line
\* is for a file, if there is one
Touches(l, x) ==
  CASE l.kind = "r" -> Below(l.name, x)
    [] l.kind = "c" -> \E n \in DOMAIN Range1(l) : Range1(l)[n].node = x
    [] l.kind \in {"d", "f"} -> x = Node1(l.name)
    [] l.kind = "F" -> x = Node1(l.name) /\ fs[x].type = "file"
    [] OTHER -> FALSE

Final(i, x) ==
  \A j \in i + 1..linenum :
    ~Touches(table[j], x) /\ ~(table[j].kind = "d" /\ IsPrefix(x[1], table[j].name))

Says(l, x) ==
  /\ l.user # "none" => fs[x].owner = Ids[l.user]
  /\ l.mode # KeepMode /\ fs[x].type \notin {"link", "dangling"} => fs[x].mode = l.mode

\* something that is no directory, from the start or of a line for nodes
Occupied(path) ==
  \/ Exists(target, path) /\ ~IsA(target, path, {"dir"})
  \/ \E i \in 1..linenum : table[i].kind = "c" /\ Touches(table[i], Node1(path))

\* If makedevs exits with 0, the image is what the lines that it read say, and these are
\* all lines unless a read failed, which the exit code does not tell (line 246): every
\* file, tree and node of a line is there, with the owner and mode of the last line that
\* speaks of it, although an error in one line does not stop the next ones and several
\* calls are made for each.  A directory is one, unless its place was taken, which
\* the exit code does not tell either (line 565).
ExitTellsOfTable ==
  dpc = "exited" /\ ret = 0 =>
    /\ linenum = Len(table) \/ ferror
    /\ \A i \in 1..linenum :
         LET l == table[i]
         IN  /\ l.kind \in {"d", "f", "r"} => Exists(fs, l.name)
             /\ l.kind = "d" => IsA(fs, l.name, {"dir"}) \/ Occupied(l.name)
             /\ l.kind = "f" => IsA(fs, l.name, {"file"})
             /\ l.kind = "c" =>
                  \A k \in 0..(IF l.count > 0 THEN l.count - 1 ELSE 0) :
                    LET x == IF l.count > 1 THEN <<l.name, l.start + k>> ELSE Node1(l.name)
                    IN  /\ x \in DOMAIN fs
                        /\ fs[x].rdev = <<l.major, (l.minor + k * l.increment) % Word>>
             /\ \A x \in DOMAIN fs : Touches(l, x) /\ Final(i, x) => Says(l, x)

\* the last of the first n lines that had a path
HasPath(l) == l.kind \notin {"xattr", "comment", "invalid"} /\ ~TooLarge(l)
LastPath(n, path) ==
  \E i \in 1..n : /\ HasPath(table[i]) /\ path = table[i].name
                  /\ \A j \in i + 1..n : ~HasPath(table[j])

\* A line touches nothing but what it names.  It replaces nothing by a node or a
\* directory; what is new is a node of its range or one of its directories, in a
\* directory; what was there may get its owner and mode if it is of the line, and keeps
\* its capabilities.  Only a line for capabilities adds one, to the file of the last
\* line that had a path, whatever failed or was left out between the two.
OnlyWhatTableNames ==
  [][dpc = "reading" =>
       LET l == table[linenum']
       IN  /\ DOMAIN fs \subseteq DOMAIN fs'
           /\ \A x \in DOMAIN fs' \ DOMAIN fs :
                /\ IsA(fs', Front(x[1]), {"dir"})
                /\ \/ l.kind = "d" /\ IsPrefix(x[1], l.name)
                   \/ l.kind = "c" /\ Touches(l, x)
           /\ \A x \in DOMAIN fs :
                /\ fs'[x].type = fs[x].type /\ fs'[x].rdev = fs[x].rdev
                /\ fs'[x] # fs[x] =>
                     \/ Touches(l, x) /\ fs'[x].caps = fs[x].caps
                     \/ /\ l.kind = "xattr" /\ LastPath(linenum, x[1]) /\ x = Node1(x[1])
                        /\ fs'[x] = [fs[x] EXCEPT !.caps = @ \cup {l.name}]]_devvars

=============================================================================
