----------------------------- MODULE ToolProofs -----------------------------
(* What makedevs makes of any table in any target, whichever of its calls  *)
(* fail: the files it changes, what its exit code stands for; and what the *)
(* wrapper of any toolchain runs the compiler with.                        *)
EXTENDS MakeDevs, ToolchainWrapper, SequenceTheorems, TLAPS

Node == Path \X Int

\* A file system: nodes with their attributes.
IsNode(a) ==
  a = [type |-> a.type, mode |-> a.mode, owner |-> a.owner, rdev |-> a.rdev, caps |-> a.caps]

IsFs(f) ==
  /\ f = [x \in DOMAIN f |-> f[x]] /\ DOMAIN f \subseteq Node
  /\ \A x \in DOMAIN f : IsNode(f[x])

DevTypeOK ==
  /\ dpc \in {"idle", "reading", "exited"}
  /\ table \in Seq(Line) /\ linenum \in 0..Len(table)
  /\ IsFs(fs)
  /\ full_name \in Path
  /\ ret \in {0, 1}

-----------------------------------------------------------------------------
(* Paths                                                                   *)

LEMMA PrefixOfItself ==
  ASSUME NEW p \in Path
  PROVE  IsPrefix(p, p)
  BY DEF IsPrefix, Path

\* The parents of a path, and the parents of these.
LEMMA Parents ==
  ASSUME NEW p \in Path, NEW n \in 0..Len(p)
  PROVE  /\ SubSeq(p, 1, n) \in Path /\ Len(SubSeq(p, 1, n)) = n
         /\ IsPrefix(SubSeq(p, 1, n), p)
         /\ n > 0 => Front(SubSeq(p, 1, n)) = SubSeq(p, 1, n - 1)
         /\ \A m \in 0..n : SubSeq(SubSeq(p, 1, n), 1, m) = SubSeq(p, 1, m)
  <1>1. SubSeq(p, 1, n) \in Path /\ Len(SubSeq(p, 1, n)) = n
    BY DEF Path
  <1>2. \A m \in 0..n : SubSeq(SubSeq(p, 1, n), 1, m) = SubSeq(p, 1, m)
    BY DEF Path
  <1>3. IsPrefix(SubSeq(p, 1, n), p)
    BY <1>1, <1>2 DEF IsPrefix
  <1>4. n > 0 => Front(SubSeq(p, 1, n)) = SubSeq(p, 1, n - 1)
    BY <1>1, <1>2 DEF Front
  <1> QED
    BY <1>1, <1>2, <1>3, <1>4

LEMMA NodesArePairs ==
  /\ \A p \in Path : Node1(p) \in Node /\ Node1(p)[1] = p
  /\ \A p, q : Node1(p) = Node1(q) <=> p = q
  BY DEF Node, Node1, NoNumber

-----------------------------------------------------------------------------
(* What is done to the file system                                         *)

\* Nothing goes, or becomes something else.
Grows(f, g) ==
  /\ DOMAIN f \subseteq DOMAIN g
  /\ \A x \in DOMAIN f : g[x].type = f[x].type /\ g[x].rdev = f[x].rdev

LEMMA OwnerIsSet ==
  ASSUME NEW f, IsFs(f), NEW x \in DOMAIN f, NEW owner
  PROVE  LET g == Owned(f, x, owner)
         IN  /\ IsFs(g) /\ DOMAIN g = DOMAIN f /\ \A y \in DOMAIN f \ {x} : g[y] = f[y]
             /\ g[x].owner = owner /\ g[x].type = f[x].type /\ g[x].rdev = f[x].rdev
             /\ g[x].caps = f[x].caps
  <1> DEFINE a == [f[x] EXCEPT !.owner = owner]
  <1>1. /\ IsNode(a) /\ a.owner = owner /\ a.type = f[x].type /\ a.rdev = f[x].rdev
        /\ a.caps = f[x].caps
    BY DEF IsFs, IsNode
  <1>2. Owned(f, x, owner) = [f EXCEPT ![x] = a]
    BY DEF Owned
  <1> HIDE DEF a
  <1> QED
    BY <1>1, <1>2 DEF IsFs

LEMMA ModeIsSet ==
  ASSUME NEW f, IsFs(f), NEW x \in DOMAIN f, NEW mode
  PROVE  LET g == Moded(f, x, mode)
         IN  /\ IsFs(g) /\ DOMAIN g = DOMAIN f /\ \A y \in DOMAIN f \ {x} : g[y] = f[y]
             /\ g[x].owner = f[x].owner /\ g[x].type = f[x].type /\ g[x].rdev = f[x].rdev
             /\ g[x].caps = f[x].caps
             /\ mode # KeepMode => g[x].mode = mode
  <1>1. CASE mode = KeepMode
    BY <1>1 DEF Moded
  <1>2. CASE mode # KeepMode
    <2> DEFINE a == [f[x] EXCEPT !.mode = mode]
    <2>1. /\ IsNode(a) /\ a.owner = f[x].owner /\ a.type = f[x].type /\ a.rdev = f[x].rdev
          /\ a.mode = mode /\ a.caps = f[x].caps
      BY DEF IsFs, IsNode
    <2>2. Moded(f, x, mode) = [f EXCEPT ![x] = a]
      BY <1>2 DEF Moded
    <2> HIDE DEF a
    <2> QED
      BY <2>1, <2>2 DEF IsFs
  <1> QED
    BY <1>1, <1>2

\* The directories that bb_make_directory makes lead to the one it was asked for, and
\* each is in one that was there or was made.
LEMMA MadeDirectories ==
  ASSUME NEW f, IsFs(f), IsA(f, <<>>, {"dir"}), NEW p \in Path, ~Blocked(f, p), NEW mode
  PROVE  LET g == MakeDirectory(f, p, mode)
         IN  /\ IsFs(g) /\ DOMAIN f \subseteq DOMAIN g /\ \A x \in DOMAIN f : g[x] = f[x]
             /\ Exists(g, p)
             /\ \A x \in DOMAIN g \ DOMAIN f :
                  IsPrefix(x[1], p) /\ IsA(g, Front(x[1]), {"dir"}) /\ g[x].type = "dir"
  <1> DEFINE missing == {n \in 1..Len(p) : ~Exists(f, SubSeq(p, 1, n))}
  <1> DEFINE made == {Node1(SubSeq(p, 1, n)) : n \in missing}
  <1> DEFINE with(x) == IF x # Node1(p) THEN "777" ELSE IF mode = KeepMode THEN "7777" ELSE mode
  <1> DEFINE g == MakeDirectory(f, p, mode)
  <1>0. Len(p) \in Nat /\ SubSeq(p, 1, Len(p)) = p
    BY DEF Path
  <1>1. \A n \in 0..Len(p) : SubSeq(p, 1, n) \in Path /\ IsPrefix(SubSeq(p, 1, n), p)
                            /\ Len(SubSeq(p, 1, n)) = n
    BY Parents
  <1>2. /\ DOMAIN g = DOMAIN f \cup made
        /\ g = [x \in DOMAIN g |-> g[x]]
        /\ \A x \in DOMAIN f : g[x] = f[x]
        /\ \A x \in made \ DOMAIN f : g[x] = NewDir(with(x))
    BY DEF MakeDirectory
  <1>3. \A x : IsNode(NewDir(with(x))) /\ NewDir(with(x)).type = "dir"
    BY DEF NewDir, IsNode
  <1>4. made \subseteq Node
    BY <1>0, <1>1, NodesArePairs
  <1> HIDE DEF g, with
  <1>5. IsFs(g)
    <2>1. \A x \in DOMAIN g : IsNode(g[x])
      BY <1>2, <1>3 DEF IsFs
    <2> QED
      BY <1>2, <1>4, <2>1 DEF IsFs
  <1>6. Exists(g, p)
    <2>1. CASE p = <<>>
      BY <1>2, <2>1 DEF Exists, IsA
    <2>2. CASE p # <<>>
      <3>1. Len(p) \in 1..Len(p)
        BY <2>2 DEF Path
      <3>2. Exists(f, p) \/ Len(p) \in missing
        BY <1>0, <3>1
      <3> QED
        BY <1>0, <1>2, <3>2 DEF Exists
    <2> QED
      BY <2>1, <2>2
  \* Whatever is on the way was a directory, or is a new one.
  <1>7. ASSUME NEW n \in 0..Len(p) PROVE IsA(g, SubSeq(p, 1, n), {"dir"})
    <2>1. CASE n = 0
      <3>1. SubSeq(p, 1, n) = <<>>
        BY <1>1, <2>1 DEF Path
      <3> QED
        BY <1>2, <3>1 DEF IsA, Exists
    <2>2. CASE n # 0 /\ Exists(f, SubSeq(p, 1, n))
      BY <1>2, <2>2 DEF IsA, Exists, Blocked
    <2>3. CASE n # 0 /\ ~Exists(f, SubSeq(p, 1, n))
      <3>1. Node1(SubSeq(p, 1, n)) \in made \ DOMAIN f
        BY <2>3 DEF Exists
      <3> QED
        BY <1>2, <1>3, <3>1 DEF IsA, Exists
    <2> QED
      BY <2>1, <2>2, <2>3
  <1>8. ASSUME NEW x \in DOMAIN g \ DOMAIN f
        PROVE  IsPrefix(x[1], p) /\ IsA(g, Front(x[1]), {"dir"}) /\ g[x].type = "dir"
    <2>1. PICK n \in missing : x = Node1(SubSeq(p, 1, n))
      BY <1>2, <1>8
    <2>2. x[1] = SubSeq(p, 1, n) /\ n \in 1..Len(p)
      <3>1. n \in 1..Len(p)
        BY <2>1
      <3>2. SubSeq(p, 1, n) \in Path
        BY <1>0, <1>1, <3>1
      <3> QED
        BY <2>1, <3>1, <3>2, NodesArePairs
    <2>3. Front(x[1]) = SubSeq(p, 1, n - 1) /\ n - 1 \in 0..Len(p) /\ n \in 0..Len(p)
      BY <1>0, <2>2, Parents
    <2>4. g[x].type = "dir"
      BY <1>2, <1>3, <1>8
    <2> QED
      BY <1>1, <1>7, <2>2, <2>3, <2>4
  <1> QED
    BY <1>2, <1>5, <1>6, <1>8 DEF g

-----------------------------------------------------------------------------
(* What a line does                                                        *)

\* A line leaves alone what it does not speak of.
Keeps(l) ==
  /\ Grows(fs, fs')
  /\ \A x \in DOMAIN fs' :
       \/ x \in DOMAIN fs /\ fs'[x].owner = fs[x].owner /\ fs'[x].mode = fs[x].mode
       \/ Touches(l, x)'
       \/ l.kind = "d" /\ IsPrefix(x[1], l.name)

\* What is new is of the line and in a directory; what changes is named by the line, or
\* by the line before a capability.
Stays(l) ==
  /\ \A x \in DOMAIN fs' \ DOMAIN fs :
       /\ IsA(fs', Front(x[1]), {"dir"})
       /\ \/ l.kind = "d" /\ IsPrefix(x[1], l.name) /\ fs'[x].type = "dir"
          \/ l.kind = "c" /\ Touches(l, x)
  /\ \A x \in DOMAIN fs : fs'[x] # fs[x] =>
       \/ Touches(l, x) /\ fs'[x].caps = fs[x].caps
       \/ /\ l.kind = "xattr" /\ full_name # <<>> /\ x = Node1(full_name)
          /\ fs'[x] = [fs[x] EXCEPT !.caps = @ \cup {l.name}]

\* The path is remembered for the next line.
Remembers(l) == dpc' = "reading" => full_name' = IF HasPath(l) THEN l.name ELSE full_name

\* What a line asks for is there.
There(l) ==
  /\ l.kind \in {"d", "f", "r"} => Exists(fs, l.name)
  /\ l.kind = "f" => IsA(fs, l.name, {"file"})
  /\ l.kind = "c" =>
       \A k \in 0..(IF l.count > 0 THEN l.count - 1 ELSE 0) :
         LET x == IF l.count > 1 THEN <<l.name, l.start + k>> ELSE Node1(l.name)
         IN  /\ x \in DOMAIN fs
             /\ fs[x].rdev = <<l.major, (l.minor + k * l.increment) % Word>>

Applied(l) == There(l) /\ \A x \in DOMAIN fs : Touches(l, x) => Says(l, x)

LineDone(l) ==
  /\ IsFs(fs)' /\ full_name' \in Path /\ ret' \in {0, 1}
  /\ dpc' \in {"reading", "exited"}
  /\ Keeps(l) /\ Stays(l) /\ Remembers(l)
  /\ dpc' = "exited" => ret' = 1
  /\ ret' = 0 => ret = 0 /\ Applied(l)'

\* The lines up to the nth are applied, but for what later ones say otherwise.
Standing(i, n, x) ==
  \A j \in i + 1..n :
    ~Touches(table[j], x) /\ ~(table[j].kind = "d" /\ IsPrefix(x[1], table[j].name))

AppliedUpTo(n) ==
  \A i \in 1..n :
    /\ There(table[i])
    /\ \A x \in DOMAIN fs : Touches(table[i], x) /\ Standing(i, n, x) => Says(table[i], x)

LEMMA AnotherLine ==
  ASSUME DevTypeOK, linenum < Len(table), NEW l, l = Line1, LineDone(l),
         table' = table, linenum' = linenum + 1, AppliedUpTo(linenum), ret' = 0
  PROVE  AppliedUpTo(linenum)'
  <1>1. linenum' = linenum + 1 /\ linenum \in Nat /\ linenum' \in 1..Len(table)
    BY DEF DevTypeOK
  <1>2. l = table[linenum'] /\ \A i \in 1..linenum' : table'[i] = table[i]
    BY <1>1 DEF Line1
  <1>3. Applied(l)' /\ Keeps(l)
    BY DEF LineDone
  <1>3a. Grows(fs, fs')
    BY <1>3 DEF Keeps
  \* Whether a line speaks of a node stays as it is.
  <1>4. ASSUME NEW t, NEW x \in DOMAIN fs PROVE Touches(t, x)' <=> Touches(t, x)
    BY <1>3a DEF Touches, Grows
  <1>5. ASSUME NEW i \in 1..linenum', NEW t, t = table[i]
        PROVE  /\ There(t)'
               /\ \A x \in DOMAIN fs' :
                    Touches(t, x)' /\ Standing(i, linenum, x)' => Says(t, x)'
    <2>1. CASE i = linenum'
      <3>1. t = l
        BY <1>2, <1>5, <2>1
      <3>2. There(l)' /\ \A x \in DOMAIN fs' : Touches(l, x)' => Says(l, x)'
        BY <1>3 DEF Applied
      <3> QED
        BY <3>1, <3>2
    <2>2. CASE i # linenum'
      <3>1. i \in 1..linenum
        BY <1>1, <2>2
      <3>2. There(t) /\ \A x \in DOMAIN fs : Touches(t, x) /\ Standing(i, linenum, x) => Says(t, x)
        BY <1>5, <3>1 DEF AppliedUpTo
      <3>3. There(t)'
        BY <1>3a, <3>2 DEF There, Grows, Exists, IsA
      <3>4. ASSUME NEW x \in DOMAIN fs', Touches(t, x)', Standing(i, linenum, x)'
            PROVE  Says(t, x)'
        <4>1. linenum' \in i + 1..linenum' /\ table'[linenum'] = l
          BY <1>1, <1>2, <3>1
        <4>2. ~Touches(l, x)' /\ ~(l.kind = "d" /\ IsPrefix(x[1], l.name))
          BY <3>4, <4>1 DEF Standing
        <4>3. /\ x \in DOMAIN fs /\ fs'[x].owner = fs[x].owner /\ fs'[x].mode = fs[x].mode
              /\ fs'[x].type = fs[x].type
          BY <1>3, <1>3a, <4>2 DEF Keeps, Grows
        <4>4. Touches(t, x)
          BY <1>4, <3>4, <4>3
        <4>5. ASSUME NEW j \in i + 1..linenum
              PROVE  ~Touches(table[j], x) /\ ~(table[j].kind = "d" /\ IsPrefix(x[1], table[j].name))
          <5>1. PICK u : u = table[j]
            OBVIOUS
          <5>2. j \in i + 1..linenum' /\ table'[j] = u
            BY <1>1, <1>2, <3>1, <5>1
          <5>3. ~Touches(u, x)' /\ ~(u.kind = "d" /\ IsPrefix(x[1], u.name))
            BY <3>4, <5>2 DEF Standing
          <5> QED
            BY <1>4, <4>3, <5>1, <5>3
        <4>6. Says(t, x)
          BY <3>2, <4>3, <4>4, <4>5 DEF Standing
        <4> QED
          BY <4>3, <4>6 DEF Says
      <3> QED
        BY <3>3, <3>4
    <2> QED
      BY <2>1, <2>2
  <1>6. ASSUME NEW i \in 1..linenum'
        PROVE  /\ There(table[i])'
               /\ \A x \in DOMAIN fs' :
                    Touches(table[i], x)' /\ Standing(i, linenum, x)' => Says(table[i], x)'
    <2>1. PICK t : t = table[i]
      OBVIOUS
    <2>2. table'[i] = t
      BY <1>2, <2>1
    <2> QED
      BY <1>5, <2>1, <2>2
  <1> QED
    BY <1>6 DEF AppliedUpTo

-----------------------------------------------------------------------------
(* Every line does its part, or the exit code tells                        *)

\* what is known when a line is read
Reading == DevTypeOK /\ dpc = "reading" /\ IsA(fs, <<>>, {"dir"})

LEMMA LineRead ==
  ASSUME Reading, NEW kinds, Reads(kinds), NEW l, l = Line1
  PROVE  /\ l \in Line /\ l.kind \in kinds
         /\ linenum < Len(table) /\ linenum' = linenum + 1 /\ table' = table
  BY DEF Reading, DevTypeOK, Reads, Line1

\* A line that was understood has a path.
LEMMA LineUnderstood ==
  ASSUME Reading, NEW kinds, Understood(kinds), NEW l, l = Line1, Named(l),
         kinds \cap {"xattr", "comment", "invalid"} = {}
  PROVE  /\ l \in Line /\ l.name \in Path /\ l.kind \in kinds
         /\ full_name' = l.name /\ Remembers(l)
  <1>1. l \in Line /\ l.kind \in kinds /\ ~TooLarge(l)
    BY LineRead DEF Understood
  <1> QED
    BY <1>1 DEF Line, Named, Remembers, HasPath

LEMMA NothingChanged ==
  ASSUME NEW l, fs' = fs
  PROVE  Keeps(l) /\ Stays(l)
  BY DEF Keeps, Stays, Grows

\* chown and chmod, of which the exit code tells
Sets(f, x, owner, mode) ==
  \/ fs' = Moded(Owned(f, x, owner), x, mode) /\ UNCHANGED <<dpc, ret>>
  \/ Fails /\ fs' \in {f, Owned(f, x, owner)}

\* They are done to a node that was there, or was made by this line.
LEMMA OwnerAndModeDone ==
  ASSUME Reading, NEW f, IsFs(f), NEW x \in DOMAIN f, NEW owner, NEW mode,
         DOMAIN fs \subseteq DOMAIN f, \A y \in DOMAIN fs : f[y] = fs[y],
         Sets(f, x, owner, mode)
  PROVE  /\ IsFs(fs)' /\ Grows(fs, fs') /\ DOMAIN fs' = DOMAIN f
         /\ \A y \in DOMAIN f : fs'[y].type = f[y].type
         /\ \A y \in DOMAIN f \ {x} : fs'[y] = f[y]
         /\ fs'[x].caps = f[x].caps
         /\ dpc' = dpc /\ ret' \in {0, 1}
         /\ ret' = 0 => /\ ret = 0 /\ fs'[x].owner = owner
                        /\ mode # KeepMode => fs'[x].mode = mode
  <1> DEFINE h == Owned(f, x, owner)
  <1>1. /\ IsFs(h) /\ DOMAIN h = DOMAIN f /\ \A y \in DOMAIN f \ {x} : h[y] = f[y]
        /\ h[x].owner = owner /\ h[x].type = f[x].type /\ h[x].rdev = f[x].rdev
        /\ h[x].caps = f[x].caps
    BY OwnerIsSet
  <1> HIDE DEF h
  <1>2. CASE fs' = Moded(h, x, mode) /\ UNCHANGED <<dpc, ret>>
    <2>1. /\ IsFs(fs') /\ DOMAIN fs' = DOMAIN h /\ \A y \in DOMAIN h \ {x} : fs'[y] = h[y]
          /\ fs'[x].owner = h[x].owner /\ fs'[x].type = h[x].type /\ fs'[x].rdev = h[x].rdev
          /\ fs'[x].caps = h[x].caps
          /\ mode # KeepMode => fs'[x].mode = mode
      BY <1>1, <1>2, ModeIsSet
    <2>2. Grows(fs, fs')
      BY <1>1, <2>1 DEF Grows
    <2> QED
      BY <1>1, <1>2, <2>1, <2>2 DEF Reading, DevTypeOK
  <1>3. CASE Fails /\ fs' \in {f, h}
    <2>1. Grows(fs, fs')
      BY <1>1, <1>3 DEF Grows
    <2> QED
      BY <1>1, <1>3, <2>1 DEF Fails
  <1> QED
    BY <1>2, <1>3 DEF Sets, h

LEMMA UnknownOwnerDone ==
  ASSUME Reading, NEW l, l = Line1, UnknownOwner
  PROVE  LineDone(l)
  BY NothingChanged DEF UnknownOwner, Dies, LineDone, Remembers, Reading, DevTypeOK

LEMMA UnsupportedLineDone ==
  ASSUME Reading, NEW l, l = Line1, UnsupportedLine
  PROVE  LineDone(l)
  <1>1. l.name \in Path /\ full_name' = l.name /\ Remembers(l)
    BY LineUnderstood DEF UnsupportedLine
  <1> QED
    BY <1>1, NothingChanged DEF UnsupportedLine, Fails, LineDone, Reading, DevTypeOK

LEMMA OtherLineDone ==
  ASSUME Reading, NEW l, l = Line1, OtherLine
  PROVE  LineDone(l)
  <1>1. CASE Reads({"comment"}) /\ Passes /\ UNCHANGED <<fs, full_name>>
    <2>1. l.kind = "comment"
      BY <1>1, LineRead
    <2>2. Applied(l)'
      BY <2>1 DEF Applied, There, Touches
    <2>3. Remembers(l)
      BY <1>1, <2>1 DEF Remembers, HasPath
    <2> QED
      BY <1>1, <2>2, <2>3, NothingChanged DEF Passes, LineDone, Reading, DevTypeOK
  <1>2. CASE Fails /\ UNCHANGED <<fs, full_name>> /\ (Line1.kind = "invalid" \/ TooLarge(Line1))
    <2>1. Remembers(l)
      BY <1>2 DEF Remembers, HasPath
    <2> QED
      BY <1>2, <2>1, NothingChanged DEF Fails, LineDone, Reading, DevTypeOK
  <1> QED
    BY <1>1, <1>2 DEF OtherLine

LEMMA FileLineDone ==
  ASSUME Reading, NEW l, l = Line1, FileLine
  PROVE  LineDone(l)
  <1> DEFINE x == Node1(l.name)
  <1>1. /\ l \in Line /\ l.name \in Path /\ l.kind \in {"f", "F"} /\ full_name' = l.name
        /\ Remembers(l)
    BY LineUnderstood DEF FileLine
  <1>2. x \in Node /\ x[1] = l.name /\ IsPrefix(l.name, x[1])
    BY <1>1, NodesArePairs, PrefixOfItself
  <1>3. CASE IsA(fs, l.name, {"file"})
    <2>1. PICK owner \in Owners(l) : Sets(fs, x, owner, l.mode)
      BY <1>3 DEF FileLine, OwnAndMode, Sets, Passes
    <2>2. x \in DOMAIN fs
      BY <1>3 DEF IsA, Exists
    <2>3. /\ IsFs(fs)' /\ Grows(fs, fs') /\ DOMAIN fs' = DOMAIN fs
          /\ \A y \in DOMAIN fs \ {x} : fs'[y] = fs[y]
          /\ fs'[x].caps = fs[x].caps
          /\ dpc' = dpc /\ ret' \in {0, 1}
          /\ ret' = 0 => /\ ret = 0 /\ fs'[x].owner = owner
                         /\ l.mode # KeepMode => fs'[x].mode = l.mode
      BY <2>1, <2>2, OwnerAndModeDone DEF Reading, DevTypeOK
    <2>4. fs'[x].type = "file"
      BY <1>3, <2>2, <2>3 DEF IsA, Grows
    <2>5. Keeps(l)
      <3>1. Touches(l, x)'
        BY <1>1, <2>4 DEF Touches
      <3> QED
        BY <2>3, <3>1 DEF Keeps
    <2>6. Stays(l)
      <3>1. Touches(l, x)
        BY <1>1, <1>3 DEF Touches, IsA
      <3> QED
        BY <2>3, <3>1 DEF Stays
    <2>7. ASSUME ret' = 0 PROVE ret = 0 /\ Applied(l)'
      <3>1. Says(l, x)'
        <4>1. fs'[x].owner = owner /\ (l.mode # KeepMode => fs'[x].mode = l.mode)
          BY <2>3, <2>7
        <4>2. l.user # "none" => owner = Ids[l.user]
          BY <2>1 DEF Owners
        <4> QED
          BY <4>1, <4>2 DEF Says
      <3>2. \A y : Touches(l, y)' => y = x
        BY <1>1 DEF Touches
      <3>3. There(l)'
        BY <1>1, <2>2, <2>3, <2>4 DEF There, Exists, IsA
      <3>4. \A y \in DOMAIN fs' : Touches(l, y)' => Says(l, y)'
        BY <3>1, <3>2
      <3>5. ret = 0
        BY <2>3, <2>7
      <3> QED
        BY <3>3, <3>4, <3>5 DEF Applied
    <2> QED
      BY <1>1, <2>3, <2>5, <2>6, <2>7 DEF LineDone, Reading
  <1>4. CASE ~IsA(fs, l.name, {"file"})
    <2>1. fs' = fs /\ ((l.kind = "F" /\ Passes) \/ Fails)
      BY <1>4 DEF FileLine
    <2>2. Keeps(l) /\ Stays(l)
      BY <2>1, NothingChanged
    <2>3. l.kind = "F" => Applied(l)'
      BY <1>4, <2>1 DEF Applied, There, Touches, IsA, Exists
    <2> QED
      BY <1>1, <2>1, <2>2, <2>3 DEF LineDone, Passes, Fails, Reading, DevTypeOK
  <1> QED
    BY <1>3, <1>4

LEMMA XattrLineDone ==
  ASSUME Reading, NEW l, l = Line1, XattrLine
  PROVE  LineDone(l)
  <1> DEFINE x == Node1(full_name)
  <1>1. l.kind = "xattr"
    BY LineRead DEF XattrLine
  <1>1a. UNCHANGED full_name => Remembers(l)
    BY <1>1 DEF Remembers, HasPath
  <1>2. Applied(l)'
    BY <1>1 DEF Applied, There, Touches
  <1>3. CASE Dies
    BY <1>1a, <1>3, NothingChanged DEF Dies, LineDone, Reading, DevTypeOK
  <1>4. CASE Trouble /\ dpc' = "exited" /\ ret' = 1 /\ UNCHANGED fs /\ UNCHANGED full_name
    BY <1>1a, <1>4, NothingChanged DEF LineDone, Reading, DevTypeOK
  <1>5. CASE /\ full_name # <<>> /\ IsA(fs, full_name, {"file"}) /\ Passes /\ UNCHANGED full_name
             /\ fs' = [fs EXCEPT ![x].caps = @ \cup {Line1.name}]
    <2> DEFINE a == [fs[x] EXCEPT !.caps = @ \cup {Line1.name}]
    <2>1. x \in DOMAIN fs /\ fs' = [fs EXCEPT ![x] = a]
      BY <1>5 DEF IsA, Exists
    <2>2. /\ IsNode(a) /\ a.type = fs[x].type /\ a.rdev = fs[x].rdev
          /\ a.owner = fs[x].owner /\ a.mode = fs[x].mode
      <3>1. IsNode(fs[x])
        BY <2>1 DEF Reading, DevTypeOK, IsFs
      <3> QED
        BY <3>1 DEF IsNode
    <2> HIDE DEF a
    <2>3. IsFs(fs') /\ DOMAIN fs' = DOMAIN fs /\ fs'[x] = a /\ \A y \in DOMAIN fs \ {x} : fs'[y] = fs[y]
      BY <2>1, <2>2 DEF Reading, DevTypeOK, IsFs
    <2>4. Keeps(l)
      BY <2>2, <2>3 DEF Keeps, Grows
    <2>5. Stays(l)
      <3>1. a = [fs[x] EXCEPT !.caps = @ \cup {l.name}]
        BY DEF a
      <3> QED
        BY <1>1, <1>5, <2>3, <3>1 DEF Stays
    <2> QED
      BY <1>1a, <1>2, <1>5, <2>3, <2>4, <2>5 DEF LineDone, Passes, Reading, DevTypeOK
  <1> QED
    BY <1>3, <1>4, <1>5 DEF XattrLine, bb_set_xattr

LEMMA PrefixOfPrefix ==
  ASSUME NEW p \in Path, NEW n \in 0..Len(p), NEW q, IsPrefix(q, SubSeq(p, 1, n))
  PROVE  IsPrefix(q, p)
  BY Parents DEF IsPrefix, Path

\* A directory whose parents are made, or only some of them.
LEMMA DirectoryLineDone ==
  ASSUME Reading, NEW l, l = Line1, DirectoryLine
  PROVE  LineDone(l)
  <1> DEFINE x == Node1(l.name)
  <1>1. /\ l \in Line /\ l.name \in Path /\ l.kind = "d" /\ full_name' = l.name
        /\ Remembers(l)
    BY LineUnderstood DEF DirectoryLine
  <1>2. x \in Node /\ x[1] = l.name /\ IsPrefix(l.name, x[1])
    BY <1>1, NodesArePairs, PrefixOfItself
  <1>3. IsFs(fs) /\ dpc = "reading" /\ IsA(fs, <<>>, {"dir"}) /\ ret \in {0, 1}
    BY DEF Reading, DevTypeOK
  <1>4. \A y : (Touches(l, y)' <=> y = x) /\ (Touches(l, y) <=> y = x)
    BY <1>1 DEF Touches
  \* chown and chmod, when the directory or something else is there
  <1>5. ASSUME NEW f, IsFs(f), x \in DOMAIN f, DOMAIN fs \subseteq DOMAIN f,
               \A y \in DOMAIN fs : f[y] = fs[y],
               \A y \in DOMAIN f \ DOMAIN fs :
                 IsPrefix(y[1], l.name) /\ IsA(f, Front(y[1]), {"dir"}) /\ f[y].type = "dir",
               NEW owner \in Owners(l), Sets(f, x, owner, l.mode)
        PROVE  LineDone(l)
    <2>1. /\ IsFs(fs)' /\ Grows(fs, fs') /\ DOMAIN fs' = DOMAIN f
          /\ \A y \in DOMAIN f : fs'[y].type = f[y].type
          /\ \A y \in DOMAIN f \ {x} : fs'[y] = f[y]
          /\ fs'[x].caps = f[x].caps
          /\ dpc' = dpc /\ ret' \in {0, 1}
          /\ ret' = 0 => /\ ret = 0 /\ fs'[x].owner = owner
                         /\ l.mode # KeepMode => fs'[x].mode = l.mode
      BY <1>5, OwnerAndModeDone
    <2>2. Keeps(l)
      BY <1>1, <1>4, <1>5, <2>1 DEF Keeps
    <2>3. Stays(l)
      <3>1. \A y \in DOMAIN fs' \ DOMAIN fs :
              IsPrefix(y[1], l.name) /\ IsA(fs', Front(y[1]), {"dir"}) /\ fs'[y].type = "dir"
        BY <1>5, <2>1 DEF IsA, Exists
      <3>2. \A y \in DOMAIN fs : fs'[y] # fs[y] => y = x /\ fs'[y].caps = fs[y].caps
        BY <1>5, <2>1
      <3> QED
        BY <1>1, <1>4, <3>1, <3>2 DEF Stays
    <2>4. ASSUME ret' = 0 PROVE ret = 0 /\ Applied(l)'
      <3>1. Says(l, x)'
        <4>1. fs'[x].owner = owner /\ (l.mode # KeepMode => fs'[x].mode = l.mode)
          BY <2>1, <2>4
        <4>2. l.user # "none" => owner = Ids[l.user]
          BY <1>5 DEF Owners
        <4> QED
          BY <4>1, <4>2 DEF Says
      <3>2. There(l)'
        BY <1>1, <1>5, <2>1 DEF There, Exists
      <3>3. \A y \in DOMAIN fs' : Touches(l, y)' => Says(l, y)'
        BY <1>4, <3>1
      <3>4. ret = 0
        BY <2>1, <2>4
      <3> QED
        BY <3>2, <3>3, <3>4 DEF Applied
    <2> QED
      BY <1>1, <1>3, <2>1, <2>2, <2>3, <2>4 DEF LineDone
  <1>6. ASSUME ~Blocked(fs, l.name), NEW owner \in Owners(l),
               Sets(MakeDirectory(fs, l.name, l.mode), x, owner, l.mode)
        PROVE  LineDone(l)
    <2>1. PICK f : f = MakeDirectory(fs, l.name, l.mode)
      OBVIOUS
    <2>2. /\ IsFs(f) /\ DOMAIN fs \subseteq DOMAIN f /\ \A y \in DOMAIN fs : f[y] = fs[y]
          /\ Exists(f, l.name)
          /\ \A y \in DOMAIN f \ DOMAIN fs :
               IsPrefix(y[1], l.name) /\ IsA(f, Front(y[1]), {"dir"}) /\ f[y].type = "dir"
      BY <1>1, <1>3, <1>6, <2>1, MadeDirectories
    <2> QED
      BY <1>5, <1>6, <2>1, <2>2 DEF Exists
  \* the mode could not be set at first, and then was
  <1>6a. ASSUME ~Blocked(fs, l.name), NEW owner \in Owners(l),
                Sets(MakeDirectory(fs, l.name, "777"), x, owner, l.mode)
         PROVE  LineDone(l)
    <2>1. PICK f : f = MakeDirectory(fs, l.name, "777")
      OBVIOUS
    <2>2. /\ IsFs(f) /\ DOMAIN fs \subseteq DOMAIN f /\ \A y \in DOMAIN fs : f[y] = fs[y]
          /\ Exists(f, l.name)
          /\ \A y \in DOMAIN f \ DOMAIN fs :
               IsPrefix(y[1], l.name) /\ IsA(f, Front(y[1]), {"dir"}) /\ f[y].type = "dir"
      BY <1>1, <1>3, <1>6a, <2>1, MadeDirectories
    <2> QED
      BY <1>5, <1>6a, <2>1, <2>2 DEF Exists
  <1>7. ASSUME ~Blocked(fs, l.name), Fails, NEW n \in 0..Len(l.name) - 1,
               fs' = MakeDirectory(fs, SubSeq(l.name, 1, n), "777")
        PROVE  LineDone(l)
    <2> DEFINE p == SubSeq(l.name, 1, n)
    <2>0. n \in 0..Len(l.name)
      BY <1>1 DEF Path
    <2>1. p \in Path /\ Len(p) = n /\ \A m \in 0..n : SubSeq(p, 1, m) = SubSeq(l.name, 1, m)
      BY <1>1, <2>0, Parents
    <2> HIDE DEF p
    <2>2. ~Blocked(fs, p)
      <3>1. \A m \in 1..Len(p) :
              m \in 1..Len(l.name) /\ SubSeq(p, 1, m) = SubSeq(l.name, 1, m)
        BY <1>1, <2>0, <2>1
      <3> QED
        BY <1>7, <3>1 DEF Blocked
    <2>3. PICK f : f = MakeDirectory(fs, p, "777")
      OBVIOUS
    <2>4. /\ IsFs(f) /\ DOMAIN fs \subseteq DOMAIN f /\ \A y \in DOMAIN fs : f[y] = fs[y]
          /\ \A y \in DOMAIN f \ DOMAIN fs :
               IsPrefix(y[1], p) /\ IsA(f, Front(y[1]), {"dir"}) /\ f[y].type = "dir"
      BY <1>3, <2>1, <2>2, <2>3, MadeDirectories
    <2>5. fs' = f
      BY <1>7, <2>3 DEF p
    <2>6. Grows(fs, fs')
      BY <2>4, <2>5 DEF Grows
    <2>7. \A y \in DOMAIN fs' \ DOMAIN fs : IsPrefix(y[1], l.name)
      BY <1>1, <2>0, <2>4, <2>5, PrefixOfPrefix DEF p
    <2>8. Keeps(l) /\ Stays(l)
      BY <1>1, <2>4, <2>5, <2>6, <2>7 DEF Keeps, Stays
    <2> QED
      BY <1>1, <1>3, <1>7, <2>4, <2>5, <2>8 DEF LineDone, Fails
  <1>8. ASSUME NEW owner \in Owners(l), Exists(fs, l.name), Sets(fs, x, owner, l.mode)
        PROVE  LineDone(l)
    BY <1>3, <1>5, <1>8 DEF Exists
  <1>9. ASSUME Fails, UNCHANGED fs PROVE LineDone(l)
    BY <1>1, <1>3, <1>9, NothingChanged DEF LineDone, Fails
  <1>10. \A f, owner :
           /\ OwnAndMode(f, x, owner, l.mode) => Sets(f, x, owner, l.mode)
           /\ fs' = Moded(Owned(f, x, owner), x, l.mode) /\ UNCHANGED <<dpc, ret>> =>
                Sets(f, x, owner, l.mode)
    BY DEF OwnAndMode, Sets, Passes
  <1> QED
    BY <1>6, <1>6a, <1>7, <1>8, <1>9, <1>10 DEF DirectoryLine

\* A tree: all of it, or as much of it as nftw came to.
LEMMA TreeLineDone ==
  ASSUME Reading, NEW l, l = Line1, TreeLine
  PROVE  LineDone(l)
  <1> DEFINE tree == Under(fs, l.name)
  <1> DEFINE change(part, last, owner) ==
        [x \in DOMAIN fs |->
           IF x \in last THEN bb_recursive(fs[x], owner, KeepMode)
           ELSE IF x \in part THEN bb_recursive(fs[x], owner, l.mode) ELSE fs[x]]
  <1>1. /\ l \in Line /\ l.name \in Path /\ l.kind = "r" /\ full_name' = l.name
        /\ Remembers(l)
    BY LineUnderstood DEF TreeLine
  <1>2. IsFs(fs) /\ dpc = "reading" /\ ret \in {0, 1}
    BY DEF Reading, DevTypeOK
  <1>3. ASSUME NEW a, IsNode(a), NEW owner, NEW mode
        PROVE  LET b == bb_recursive(a, owner, mode)
               IN  /\ IsNode(b) /\ b.type = a.type /\ b.rdev = a.rdev /\ b.owner = owner
                   /\ b.caps = a.caps
                   /\ mode # KeepMode /\ a.type \notin {"link", "dangling"} => b.mode = mode
    <2>1. CASE mode = KeepMode \/ a.type \in {"link", "dangling"}
      BY <1>3, <2>1 DEF bb_recursive, IsNode
    <2>2. CASE ~(mode = KeepMode \/ a.type \in {"link", "dangling"})
      BY <1>3, <2>2 DEF bb_recursive, IsNode
    <2> QED
      BY <2>1, <2>2
  <1>4. ASSUME NEW part \in SUBSET tree, NEW last \in SUBSET tree, NEW owner,
               fs' = change(part, last, owner)
        PROVE  /\ IsFs(fs') /\ DOMAIN fs' = DOMAIN fs /\ Keeps(l) /\ Stays(l)
               /\ \A x \in part \ last :
                    /\ fs'[x].owner = owner /\ fs'[x].type = fs[x].type
                    /\ l.mode # KeepMode /\ fs'[x].type \notin {"link", "dangling"} =>
                         fs'[x].mode = l.mode
    <2>1. \A x \in DOMAIN fs : IsNode(fs[x])
      BY <1>2 DEF IsFs
    <2>2. \A x \in part \cup last : x \in DOMAIN fs /\ Below(l.name, x)
      BY DEF Under
    <2>3. /\ DOMAIN fs' = DOMAIN fs /\ fs' = [x \in DOMAIN fs' |-> fs'[x]]
          /\ \A x \in last : fs'[x] = bb_recursive(fs[x], owner, KeepMode)
          /\ \A x \in part \ last : fs'[x] = bb_recursive(fs[x], owner, l.mode)
          /\ \A x \in DOMAIN fs \ (part \cup last) : fs'[x] = fs[x]
      BY <1>4, <2>2
    <2>4. \A x \in part \ last :
            /\ IsNode(fs'[x]) /\ fs'[x].type = fs[x].type /\ fs'[x].rdev = fs[x].rdev
            /\ fs'[x].owner = owner /\ fs'[x].caps = fs[x].caps
            /\ l.mode # KeepMode /\ fs[x].type \notin {"link", "dangling"} =>
                 fs'[x].mode = l.mode
      BY <1>3, <2>1, <2>2, <2>3
    <2>5. \A x \in last :
            /\ IsNode(fs'[x]) /\ fs'[x].type = fs[x].type /\ fs'[x].rdev = fs[x].rdev
            /\ fs'[x].caps = fs[x].caps
      BY <1>3, <2>1, <2>2, <2>3
    <2>6. \A x \in part \cup last : Touches(l, x) /\ Touches(l, x)'
      BY <1>1, <2>2 DEF Touches
    <2> HIDE DEF tree, change
    <2>7. IsFs(fs')
      <3>1. \A x \in DOMAIN fs' : IsNode(fs'[x])
        BY <2>1, <2>3, <2>4, <2>5
      <3> QED
        BY <1>2, <2>3, <3>1 DEF IsFs
    <2>8. Keeps(l)
      <3>1. Grows(fs, fs')
        BY <2>3, <2>4, <2>5 DEF Grows
      <3> QED
        BY <2>3, <2>6, <3>1 DEF Keeps
    <2>9. Stays(l)
      BY <2>3, <2>4, <2>5, <2>6 DEF Stays
    <2> QED
      BY <2>3, <2>4, <2>7, <2>8, <2>9
  <1>5. ASSUME NEW owner \in Owners(l), Exists(fs, l.name), Passes, fs' = change(tree, {}, owner)
        PROVE  LineDone(l)
    <2>1. tree \in SUBSET tree /\ {} \in SUBSET tree /\ \A x \in tree : x \in tree \ {}
      OBVIOUS
    <2> HIDE DEF tree, change
    <2>2. /\ IsFs(fs') /\ DOMAIN fs' = DOMAIN fs /\ Keeps(l) /\ Stays(l)
          /\ \A x \in tree :
               /\ fs'[x].owner = owner /\ fs'[x].type = fs[x].type
               /\ l.mode # KeepMode /\ fs'[x].type \notin {"link", "dangling"} =>
                    fs'[x].mode = l.mode
      BY <1>4, <1>5, <2>1
    <2>3. There(l)'
      BY <1>1, <1>5, <2>2 DEF There, Exists
    <2>4. ASSUME NEW x \in DOMAIN fs', Touches(l, x)' PROVE Says(l, x)'
      <3>1. x \in tree
        BY <1>1, <2>2, <2>4 DEF Touches, Under, tree
      <3>2. l.user # "none" => owner = Ids[l.user]
        BY <1>5 DEF Owners
      <3> QED
        BY <2>2, <3>1, <3>2 DEF Says
    <2> QED
      BY <1>1, <1>2, <1>5, <2>2, <2>3, <2>4 DEF LineDone, Applied, Passes
  <1>6. ASSUME NEW owner \in Owners(l), Fails, NEW part \in SUBSET tree, NEW last \in SUBSET tree,
               fs' = change(part, last, owner)
        PROVE  LineDone(l)
    <2>1. IsFs(fs') /\ Keeps(l) /\ Stays(l)
      BY <1>4, <1>6
    <2> QED
      BY <1>1, <1>2, <1>6, <2>1 DEF LineDone, Fails
  <1>7. CASE \E owner \in Owners(l) :
               /\ Fails
               /\ \E part \in SUBSET tree, last \in SUBSET tree : fs' = change(part, last, owner)
    BY <1>6, <1>7
  <1> QED
    BY <1>5, <1>7 DEF TreeLine

\* The nodes of a line are one for each number.
LEMMA NodesOfLine ==
  ASSUME NEW l \in Line
  PROVE  LET nodes == Range1(l)
             last == IF l.count > 0 THEN l.count - 1 ELSE 0
         IN  /\ DOMAIN nodes = l.start..l.start + last /\ l.start \in DOMAIN nodes
             /\ \A n \in DOMAIN nodes :
                  /\ nodes[n].node \in Node /\ nodes[n].node[1] = l.name
                  /\ \A m \in DOMAIN nodes : nodes[m].node = nodes[n].node => m = n
             /\ \A k \in 0..last :
                  /\ l.start + k \in DOMAIN nodes
                  /\ nodes[l.start + k].node =
                       IF l.count > 1 THEN <<l.name, l.start + k>> ELSE Node1(l.name)
                  /\ nodes[l.start + k].rdev =
                       <<l.major, (l.minor + k * l.increment) % Word>>
  <1> DEFINE last == IF l.count > 0 THEN l.count - 1 ELSE 0
  <1> DEFINE nodes == Range1(l)
  <1>1. l.name \in Path /\ l.start \in Nat /\ l.count \in Nat /\ last \in Nat
    BY DEF Line
  <1>2. /\ DOMAIN nodes = l.start..l.start + last
        /\ \A n \in DOMAIN nodes :
             /\ nodes[n].node = IF last = 0 THEN Node1(l.name) ELSE <<l.name, n>>
             /\ nodes[n].rdev = <<l.major, (l.minor + (n - l.start) * l.increment) % Word>>
    BY DEF Range1
  <1>3. (last = 0 <=> ~(l.count > 1)) /\ l.start \in DOMAIN nodes
    BY <1>1, <1>2
  <1> HIDE DEF nodes
  <1>4. ASSUME NEW n \in DOMAIN nodes
        PROVE  nodes[n].node \in Node /\ nodes[n].node[1] = l.name
    <2>1. n \in Int /\ <<l.name, n>> \in Node
      BY <1>1, <1>2 DEF Node
    <2>2. Node1(l.name) \in Node /\ Node1(l.name)[1] = l.name
      BY <1>1, NodesArePairs
    <2> QED
      BY <1>2, <2>1, <2>2
  <1>5. \A n, m \in DOMAIN nodes : nodes[m].node = nodes[n].node => m = n
    <2>1. CASE last = 0
      BY <1>1, <1>2, <2>1
    <2>2. CASE last # 0
      BY <1>2, <2>2
    <2> QED
      BY <2>1, <2>2
  <1>6. ASSUME NEW k \in 0..last
        PROVE  /\ l.start + k \in DOMAIN nodes
               /\ nodes[l.start + k].node =
                    IF l.count > 1 THEN <<l.name, l.start + k>> ELSE Node1(l.name)
               /\ nodes[l.start + k].rdev = <<l.major, (l.minor + k * l.increment) % Word>>
    <2>1. PICK n : n = l.start + k
      OBVIOUS
    <2>2. n \in DOMAIN nodes /\ n - l.start = k
      BY <1>1, <1>2, <2>1
    <2>3. nodes[n].rdev = <<l.major, (l.minor + k * l.increment) % Word>>
      BY <1>2, <2>2
    <2> QED
      BY <1>2, <1>3, <2>1, <2>2, <2>3
  <1> HIDE DEF last
  <1>7. \A k \in 0..last : /\ l.start + k \in DOMAIN nodes
                           /\ nodes[l.start + k].node =
                                IF l.count > 1 THEN <<l.name, l.start + k>> ELSE Node1(l.name)
                           /\ nodes[l.start + k].rdev =
                                <<l.major, (l.minor + k * l.increment) % Word>>
    BY <1>6
  <1> QED
    BY <1>2, <1>3, <1>4, <1>5, <1>7 DEF nodes, last

\* Device nodes: each that can be made is made with the numbers that are its own.
LEMMA DeviceLineDone ==
  ASSUME Reading, NEW l, l = Line1, DeviceLine
  PROVE  LineDone(l)
  <1>1. /\ l \in Line /\ l.name \in Path /\ l.kind = "c" /\ full_name' = l.name
        /\ Remembers(l)
    BY LineUnderstood DEF DeviceLine
  <1>2. IsFs(fs) /\ dpc = "reading" /\ ret \in {0, 1}
    BY DEF Reading, DevTypeOK
  <1> DEFINE last == IF l.count > 0 THEN l.count - 1 ELSE 0
  <1> DEFINE nodes == Range1(Line1)
  <1>3. nodes = Range1(l)
    OBVIOUS
  <1> DEFINE at(x) == CHOOSE n \in DOMAIN nodes : nodes[n].node = x
  <1> DEFINE all == {nodes[n].node : n \in DOMAIN nodes}
  <1> DEFINE new(x, owner, owned) ==
        [type |-> "dev", mode |-> Line1.mode, owner |-> IF x \in owned THEN owner ELSE 0,
         rdev |-> nodes[at(x)].rdev, caps |-> {}]
  <1>4. /\ l.start \in DOMAIN nodes
        /\ \A n \in DOMAIN nodes :
             /\ nodes[n].node \in Node /\ nodes[n].node[1] = l.name
             /\ \A m \in DOMAIN nodes : nodes[m].node = nodes[n].node => m = n
        /\ \A k \in 0..last :
             /\ l.start + k \in DOMAIN nodes
             /\ nodes[l.start + k].node =
                  IF l.count > 1 THEN <<l.name, l.start + k>> ELSE Node1(l.name)
             /\ nodes[l.start + k].rdev = <<l.major, (l.minor + k * l.increment) % Word>>
    BY <1>1, <1>3, NodesOfLine
  <1>5. \A n \in DOMAIN nodes : at(nodes[n].node) = n
    BY <1>4
  <1>6. all # {} /\ all \subseteq Node /\ \A x \in all : x[1] = l.name
    BY <1>4
  <1>7. \A x : (Touches(l, x)' <=> x \in all) /\ (Touches(l, x) <=> x \in all)
    BY <1>1, <1>3 DEF Touches
  <1>8. PICK owner \in Owners(l), made \in SUBSET all, owned \in SUBSET all :
          /\ owned \subseteq made
          /\ made \cap DOMAIN fs = {}
          /\ made # {} => IsA(fs, Front(l.name), {"dir"})
          /\ fs' = [x \in DOMAIN fs \cup made |->
                      IF x \in DOMAIN fs THEN fs[x] ELSE new(x, owner, owned)]
          /\ (owned = all /\ UNCHANGED <<dpc, ret>>) \/ Fails
    <2> DEFINE can == IF IsA(fs, Front(Line1.name), {"dir"}) /\ Line1.mode # KeepMode
                      THEN all \ DOMAIN fs ELSE {}
    <2>1. PICK owner \in Owners(Line1), made \in SUBSET can :
            \E owned \in SUBSET made : \E done \in SUBSET owned :
              /\ IF done = can THEN UNCHANGED errors ELSE Trouble
              /\ fs' = [x \in DOMAIN fs \cup made |->
                          IF x \in DOMAIN fs THEN fs[x] ELSE new(x, owner, owned)]
              /\ IF done = all THEN UNCHANGED <<dpc, ret>> ELSE Fails
      BY DEF DeviceLine
    <2>2. PICK owned, done :
              /\ owned \subseteq made /\ done \subseteq owned
              /\ fs' = [x \in DOMAIN fs \cup made |->
                          IF x \in DOMAIN fs THEN fs[x] ELSE new(x, owner, owned)]
              /\ IF done = all THEN UNCHANGED <<dpc, ret>> ELSE Fails
      BY <2>1
    <2>3. made \in SUBSET all /\ made \cap DOMAIN fs = {}
      OBVIOUS
    <2>4. made # {} => IsA(fs, Front(l.name), {"dir"})
      OBVIOUS
    <2> HIDE DEF can, all, new
    <2>5. done = all => owned = all
      BY <2>2, <2>3
    <2> QED
      BY <2>2, <2>3, <2>4, <2>5
  <1>9. \A x : /\ IsNode(new(x, owner, owned)) /\ (x \in owned => new(x, owner, owned).owner = owner)
               /\ new(x, owner, owned).mode = l.mode
               /\ new(x, owner, owned).rdev = nodes[at(x)].rdev
    BY DEF IsNode
  <1> HIDE DEF new, at, all, last, nodes
  <1>10. /\ DOMAIN fs' = DOMAIN fs \cup made /\ fs' = [x \in DOMAIN fs' |-> fs'[x]]
         /\ \A x \in DOMAIN fs : fs'[x] = fs[x]
         /\ \A x \in made : fs'[x] = new(x, owner, owned)
    BY <1>8
  <1>11. IsFs(fs')
    <2>1. \A x \in DOMAIN fs' : IsNode(fs'[x])
      BY <1>2, <1>9, <1>10 DEF IsFs
    <2>2. DOMAIN fs' \subseteq Node
      BY <1>2, <1>6, <1>10 DEF IsFs
    <2> QED
      BY <1>10, <2>1, <2>2 DEF IsFs
  <1>12. Keeps(l)
    <2>1. Grows(fs, fs')
      BY <1>10 DEF Grows
    <2> QED
      BY <1>7, <1>10, <2>1 DEF Keeps
  <1>13. Stays(l)
    <2>1. ASSUME NEW x \in DOMAIN fs' \ DOMAIN fs
          PROVE  IsA(fs', Front(x[1]), {"dir"}) /\ Touches(l, x)
      <3>1. x \in made /\ x[1] = l.name /\ IsA(fs, Front(l.name), {"dir"})
        BY <1>6, <1>8, <1>10
      <3> QED
        BY <1>7, <1>10, <3>1 DEF IsA, Exists
    <2> QED
      BY <1>1, <1>10, <2>1 DEF Stays
  <1>14. ASSUME owned = all PROVE Applied(l)'
    <2>0. made = all
      BY <1>8, <1>14
    <2>1. There(l)'
      <3>1. ASSUME NEW k \in 0..last,
                   NEW x, x = IF l.count > 1 THEN <<l.name, l.start + k>> ELSE Node1(l.name)
            PROVE  /\ x \in DOMAIN fs'
                   /\ fs'[x].rdev = <<l.major, (l.minor + k * l.increment) % Word>>
        <4>1. PICK n \in DOMAIN nodes : n = l.start + k
          BY <1>4
        <4>2. /\ nodes[n].node = x
              /\ nodes[n].rdev = <<l.major, (l.minor + k * l.increment) % Word>>
          BY <1>4, <3>1, <4>1
        <4>3. x \in made
          BY <2>0, <4>2 DEF all
        <4>4. at(x) = n
          BY <1>5, <4>2
        <4> QED
          BY <1>9, <1>10, <4>2, <4>3, <4>4
      <3> QED
        BY <1>1, <3>1 DEF There, last
    <2>2. l.user # "none" => owner = Ids[l.user]
      BY <1>8 DEF Owners
    <2>3. \A x \in DOMAIN fs' : Touches(l, x)' => fs'[x].owner = owner /\ fs'[x].mode = l.mode
      BY <1>7, <1>9, <1>10, <1>14, <2>0
    <2>4. \A x \in DOMAIN fs' : Touches(l, x)' => Says(l, x)'
      BY <2>2, <2>3 DEF Says
    <2> QED
      BY <2>1, <2>4 DEF Applied
  <1> QED
    BY <1>1, <1>2, <1>8, <1>11, <1>12, <1>13, <1>14 DEF LineDone, Fails

LEMMA LinesAreDone ==
  ASSUME Reading, NEW l, l = Line1,
         \/ UnknownOwner \/ DirectoryLine \/ FileLine \/ TreeLine \/ DeviceLine
         \/ UnsupportedLine \/ XattrLine \/ OtherLine
  PROVE  /\ LineDone(l)
         /\ linenum < Len(table) /\ linenum' = linenum + 1 /\ table' = table
         /\ target' = target
  <1>1. LineDone(l)
    BY UnknownOwnerDone, DirectoryLineDone, FileLineDone, TreeLineDone, DeviceLineDone,
       UnsupportedLineDone, XattrLineDone, OtherLineDone
  <1>2. linenum < Len(table) /\ linenum' = linenum + 1 /\ table' = table /\ target' = target
    BY DEF Reads, Understood, UnknownOwner, DirectoryLine, FileLine, TreeLine, DeviceLine,
           UnsupportedLine, XattrLine, OtherLine
  <1> QED
    BY <1>1, <1>2

-----------------------------------------------------------------------------
(* The program                                                             *)

\* What the target held is there as it was; what is new is a directory or of a line for
\* nodes.
Origins ==
  /\ DOMAIN target \subseteq DOMAIN fs
  /\ \A x \in DOMAIN fs :
       \/ x \in DOMAIN target /\ fs[x].type = target[x].type
       \/ fs[x].type = "dir"
       \/ \E i \in 1..linenum : table[i].kind = "c" /\ Touches(table[i], x)

\* The path that is remembered is that of the last line that had one.
PathOfLast == full_name = <<>> \/ LastPath(linenum, full_name)

\* While the exit code is 0, the lines that were read are applied, but for what later
\* ones said otherwise; and the program leaves early with another exit code only, or after
\* a read that failed.
DevInv ==
  /\ DevTypeOK
  /\ dpc = "idle" => ret = 0 /\ linenum = 0 /\ full_name = <<>>
  /\ dpc = "reading" => IsA(fs, <<>>, {"dir"}) /\ PathOfLast
  /\ dpc # "idle" => Origins
  /\ dpc = "exited" /\ ret = 0 => linenum = Len(table) \/ ferror
  /\ dpc # "idle" /\ ret = 0 => AppliedUpTo(linenum)

LEMMA InvAtInit ==
  ASSUME DevInit
  PROVE  DevInv
  <1>1. table \in Seq(Line) /\ linenum \in 0..Len(table) /\ full_name \in Path
    BY DEF DevInit, Path
  <1>2. DOMAIN fs = {} /\ fs = [x \in DOMAIN fs |-> fs[x]]
    BY DEF DevInit
  <1>3. IsFs(fs)
    BY <1>2 DEF IsFs
  <1> QED
    BY <1>1, <1>3 DEF DevInit, DevInv, DevTypeOK

LEMMA InvAtStart ==
  ASSUME DevInv, StartMakedevs
  PROVE  DevInv'
  <1>1. PICK f \in Targets : fs' = f
    BY DEF StartMakedevs
  <1>2. f \in [DOMAIN f -> Attributes] /\ DOMAIN f \subseteq Path \X Int /\ IsA(f, <<>>, {"dir"})
    BY MakeDevsAssumption
  <1>3. \A a \in Attributes : IsNode(a)
    BY DEF Attributes, IsNode
  <1>4. IsFs(f)
    <2>1. f = [x \in DOMAIN f |-> f[x]] /\ \A x \in DOMAIN f : f[x] \in Attributes
      BY <1>2
    <2> QED
      BY <1>2, <1>3, <2>1 DEF IsFs, Node
  <1>5. linenum' = 0 /\ ret' = 0 /\ dpc' = "reading" /\ full_name' = <<>>
    BY DEF StartMakedevs, DevInv
  <1>6. table' \in Seq(Line) /\ linenum' \in 0..Len(table')
    BY <1>5, MakeDevsAssumption DEF StartMakedevs
  <1>7. AppliedUpTo(linenum)'
    BY <1>5 DEF AppliedUpTo
  <1>8. Origins' /\ PathOfLast'
    BY <1>5 DEF StartMakedevs, Origins, PathOfLast
  <1>9. DevTypeOK'
    BY <1>1, <1>4, <1>5, <1>6 DEF DevTypeOK, Path
  <1> QED
    BY <1>1, <1>2, <1>5, <1>7, <1>8, <1>9 DEF DevInv

LEMMA InvAtLine ==
  ASSUME DevInv, dpc = "reading", NEW l, l = Line1, LineDone(l),
         linenum < Len(table), linenum' = linenum + 1, table' = table, target' = target
  PROVE  DevInv'
  <1>1. DevTypeOK'
    BY DEF DevInv, DevTypeOK, LineDone
  <1>2. IsA(fs, <<>>, {"dir"})'
    BY DEF DevInv, LineDone, Keeps, Grows, IsA, Exists
  <1>3. ASSUME ret' = 0 PROVE AppliedUpTo(linenum)'
    <2>1. AppliedUpTo(linenum) /\ DevTypeOK
      BY <1>3 DEF DevInv, LineDone
    <2> QED
      BY <1>3, <2>1, AnotherLine
  <1>4. /\ linenum \in Nat /\ linenum' \in 1..Len(table) /\ linenum' = linenum + 1
        /\ table[linenum'] = l /\ table' = table
        /\ \A i \in 1..linenum : i \in 1..linenum'
    BY DEF DevInv, DevTypeOK, Line1
  <1>5. Origins'
    <2>1. Origins /\ Grows(fs, fs') /\ Stays(l)
      BY DEF DevInv, LineDone, Keeps
    <2>2. \A t, x : t.kind = "c" => (Touches(t, x)' <=> Touches(t, x))
      BY DEF Touches
    <2>3. DOMAIN target' \subseteq DOMAIN fs'
      BY <2>1 DEF Origins, Grows
    <2>4. ASSUME NEW x \in DOMAIN fs'
          PROVE  \/ x \in DOMAIN target' /\ fs'[x].type = target'[x].type
                 \/ fs'[x].type = "dir"
                 \/ \E i \in 1..linenum' : table'[i].kind = "c" /\ Touches(table[i], x)'
      <3>1. CASE x \in DOMAIN fs
        <4>1. fs'[x].type = fs[x].type
          BY <2>1, <3>1 DEF Grows
        <4>2. \/ x \in DOMAIN target /\ fs[x].type = target[x].type
              \/ fs[x].type = "dir"
              \/ \E i \in 1..linenum : table[i].kind = "c" /\ Touches(table[i], x)
          BY <2>1, <3>1 DEF Origins
        <4>3. ASSUME NEW i \in 1..linenum, table[i].kind = "c", Touches(table[i], x)
              PROVE  \E k \in 1..linenum' : table'[k].kind = "c" /\ Touches(table[k], x)'
          <5>1. PICK t : t = table[i] /\ t = table'[i]
            BY <1>4
          <5> QED
            BY <1>4, <2>2, <4>3, <5>1
        <4> QED
          BY <4>1, <4>2, <4>3
      <3>2. CASE x \notin DOMAIN fs
        <4>1. \/ fs'[x].type = "dir"
              \/ l.kind = "c" /\ Touches(l, x)'
          BY <2>1, <2>2, <3>2 DEF Stays
        <4>2. ASSUME l.kind = "c", Touches(l, x)'
              PROVE  \E k \in 1..linenum' : table'[k].kind = "c" /\ Touches(table[k], x)'
          <5>1. linenum' \in 1..linenum' /\ table'[linenum'] = l
            BY <1>4
          <5> QED
            BY <4>2, <5>1
        <4> QED
          BY <4>1, <4>2
      <3> QED
        BY <3>1, <3>2
    <2> QED
      BY <2>3, <2>4 DEF Origins
  <1>6. ASSUME dpc' = "reading" PROVE PathOfLast'
    <2>1. PathOfLast /\ full_name' = IF HasPath(l) THEN l.name ELSE full_name
      BY <1>6 DEF DevInv, LineDone, Remembers
    <2>2. CASE HasPath(l)
      <3>1. /\ linenum' \in 1..linenum' /\ HasPath(table[linenum'])
            /\ full_name' = table[linenum'].name
            /\ \A j \in linenum' + 1..linenum' : ~HasPath(table[j])
        BY <1>4, <2>1, <2>2
      <3> QED
        BY <1>4, <3>1 DEF PathOfLast, LastPath
    <2>3. CASE ~HasPath(l) /\ LastPath(linenum, full_name)
      <3>1. PICK i \in 1..linenum : /\ HasPath(table[i]) /\ full_name = table[i].name
                                   /\ \A j \in i + 1..linenum : ~HasPath(table[j])
        BY <2>3 DEF LastPath
      <3>2. \A j \in i + 1..linenum' : j \in i + 1..linenum \/ j = linenum'
        BY <1>4
      <3>3. \A j \in i + 1..linenum' : ~HasPath(table[j])
        BY <1>4, <2>3, <3>1, <3>2
      <3> QED
        BY <1>4, <2>1, <2>3, <3>1, <3>3 DEF PathOfLast, LastPath
    <2> QED
      BY <2>1, <2>2, <2>3 DEF PathOfLast
  <1> QED
    BY <1>1, <1>2, <1>3, <1>5, <1>6 DEF DevInv, LineDone

LEMMA StaysApplied ==
  ASSUME UNCHANGED <<table, linenum, fs>>, AppliedUpTo(linenum)
  PROVE  AppliedUpTo(linenum)'
  <1>1. \A t : There(t)' <=> There(t)
    BY DEF There, Exists
  <1>2. \A t, x : (Touches(t, x)' <=> Touches(t, x)) /\ (Says(t, x)' <=> Says(t, x))
    BY DEF Touches, Says
  <1>3. ASSUME NEW i \in 1..linenum, NEW t, t = table[i]
        PROVE  /\ There(t)'
               /\ \A x \in DOMAIN fs' :
                    Touches(t, x)' /\ Standing(i, linenum, x)' => Says(t, x)'
    <2>1. \A x : Standing(i, linenum, x)' => Standing(i, linenum, x)
      <3> SUFFICES ASSUME NEW x, Standing(i, linenum, x)', NEW j \in i + 1..linenum,
                          NEW u, u = table[j]
                   PROVE  ~Touches(u, x) /\ ~(u.kind = "d" /\ IsPrefix(x[1], u.name))
        BY DEF Standing
      <3>1. j \in i + 1..linenum' /\ table'[j] = u
        OBVIOUS
      <3>2. ~Touches(u, x)' /\ ~(u.kind = "d" /\ IsPrefix(x[1], u.name))
        BY <3>1 DEF Standing
      <3> QED
        BY <1>2, <3>2
    <2>2. There(t) /\ \A x \in DOMAIN fs : Touches(t, x) /\ Standing(i, linenum, x) => Says(t, x)
      BY <1>3 DEF AppliedUpTo
    <2> QED
      BY <1>1, <1>2, <2>1, <2>2
  <1>4. ASSUME NEW i \in 1..linenum'
        PROVE  /\ There(table[i])'
               /\ \A x \in DOMAIN fs' :
                    Touches(table[i], x)' /\ Standing(i, linenum, x)' => Says(table[i], x)'
    <2>1. PICK t : t = table[i] /\ t = table'[i]
      OBVIOUS
    <2> QED
      BY <1>3, <2>1
  <1> QED
    BY <1>4 DEF AppliedUpTo

LEMMA StaysFrom ==
  ASSUME UNCHANGED <<table, linenum, fs, target>>, Origins
  PROVE  Origins'
  <1>1. \A t, x : Touches(t, x)' <=> Touches(t, x)
    BY DEF Touches
  <1>2. ASSUME NEW x, NEW i \in 1..linenum, table[i].kind = "c", Touches(table[i], x)
        PROVE  \E k \in 1..linenum' : table'[k].kind = "c" /\ Touches(table[k], x)'
    <2>1. PICK t : t = table[i] /\ t = table'[i]
      OBVIOUS
    <2> QED
      BY <1>1, <1>2, <2>1
  <1> QED
    BY <1>2 DEF Origins

LEMMA InvAtEnd ==
  ASSUME DevInv, EndOfTable \/ ReadFails
  PROVE  DevInv'
  <1>1. DevTypeOK'
    BY DEF DevInv, DevTypeOK, EndOfTable, ReadFails
  <1>2. AppliedUpTo(linenum) => AppliedUpTo(linenum)'
    BY StaysApplied DEF EndOfTable, ReadFails
  <1>3. Origins'
    BY StaysFrom DEF EndOfTable, ReadFails, DevInv
  <1> QED
    BY <1>1, <1>2, <1>3 DEF DevInv, EndOfTable, ReadFails

LEMMA InvAtStutter ==
  ASSUME DevInv, UNCHANGED devvars
  PROVE  DevInv'
  <1>1. DevTypeOK'
    BY DEF DevInv, DevTypeOK, devvars
  <1>2. AppliedUpTo(linenum) => AppliedUpTo(linenum)'
    BY StaysApplied DEF devvars
  <1>3. Origins => Origins'
    BY StaysFrom DEF devvars
  <1>4. PathOfLast => PathOfLast'
    BY DEF PathOfLast, LastPath, devvars
  <1> QED
    BY <1>1, <1>2, <1>3, <1>4 DEF DevInv, devvars, IsA, Exists

LEMMA InvAtStep ==
  ASSUME DevInv, [DevNext]_devvars
  PROVE  DevInv'
  <1>1. ASSUME \/ UnknownOwner \/ DirectoryLine \/ FileLine \/ TreeLine \/ DeviceLine
               \/ UnsupportedLine \/ XattrLine \/ OtherLine
        PROVE  DevInv'
    <2>1. dpc = "reading" /\ Reading
      BY <1>1 DEF DevInv, Reading, Reads, Understood, UnknownOwner, DirectoryLine, FileLine, TreeLine,
                  DeviceLine, UnsupportedLine, XattrLine, OtherLine
    <2>2. PICK l : l = Line1
      OBVIOUS
    <2> QED
      BY <1>1, <2>1, <2>2, LinesAreDone, InvAtLine
  <1> QED
    BY <1>1, InvAtStart, InvAtEnd, InvAtStutter DEF DevNext

LEMMA InvCorrect == DevSpec => []DevInv
  <1>1. DevInit => DevInv
    BY InvAtInit
  <1>2. DevInv /\ [DevNext]_devvars => DevInv'
    BY InvAtStep
  <1> QED
    BY <1>1, <1>2, PTL DEF DevSpec

\* For any table and any target, and whichever calls fail, reads of the table among them: if
\* makedevs exits with 0, every file, tree and node of a line that it read is there, with
\* the owner and mode that the last line that speaks of it gives it, each device node with
\* the numbers of its place in the range, and a directory where none was in the way; and
\* these are all lines, unless a read failed.
THEOREM ExitCorrect == DevSpec => []ExitTellsOfTable
  <1>1. DevInv => ExitTellsOfTable
    <2> SUFFICES ASSUME DevInv, dpc = "exited", ret = 0
                 PROVE  /\ linenum = Len(table) \/ ferror
                        /\ \A i \in 1..linenum :
                             /\ There(table[i])
                             /\ table[i].kind = "d" =>
                                  IsA(fs, table[i].name, {"dir"}) \/ Occupied(table[i].name)
                             /\ \A x \in DOMAIN fs :
                                  Touches(table[i], x) /\ Final(i, x) => Says(table[i], x)
      BY DEF ExitTellsOfTable, There
    <2>1. (linenum = Len(table) \/ ferror) /\ AppliedUpTo(linenum) /\ Origins
      BY DEF DevInv
    <2>2. \A i, x : Final(i, x) <=> Standing(i, linenum, x)
      BY DEF Final, Standing
    <2>3. ASSUME NEW i \in 1..linenum, table[i].kind = "d"
          PROVE  IsA(fs, table[i].name, {"dir"}) \/ Occupied(table[i].name)
      <3>1. Exists(fs, table[i].name)
        BY <2>1, <2>3 DEF AppliedUpTo, There
      <3> QED
        BY <2>1, <3>1 DEF Origins, Occupied, IsA, Exists
    <2> QED
      BY <2>1, <2>2, <2>3 DEF AppliedUpTo
  <1> QED
    BY <1>1, InvCorrect, PTL

\* For any table and any target, and whichever calls fail: nothing is removed or becomes
\* something else, what is new is in a directory and of the line that was just read, what
\* changes is the owner or mode of what this line names, or the capabilities of the file
\* of the last line that had a path.
THEOREM OnlyNamedCorrect == DevSpec => OnlyWhatTableNames
  <1> DEFINE Good ==
        dpc = "reading" =>
          LET l == table[linenum']
          IN  /\ DOMAIN fs \subseteq DOMAIN fs'
              /\ \A x \in DOMAIN fs' \ DOMAIN fs :
                   /\ IsA(fs', Front(x[1]), {"dir"})
                   /\ \/ l.kind = "d" /\ IsPrefix(x[1], l.name)
                      \/ l.kind = "c" /\ Touches(l, x)
              /\ \A x \in DOMAIN fs :
                   /\ fs'[x].type = fs[x].type /\ fs'[x].rdev = fs[x].rdev
                   /\ fs'[x] # fs[x] =>
                        \/ Touches(l, x) /\ fs'[x].caps = fs[x].caps
                        \/ /\ l.kind = "xattr" /\ LastPath(linenum, x[1]) /\ x = Node1(x[1])
                           /\ fs'[x] = [fs[x] EXCEPT !.caps = @ \cup {l.name}]
  <1>1. ASSUME DevInv, DevNext PROVE Good
    <2> SUFFICES ASSUME dpc = "reading" PROVE Good
      OBVIOUS
    <2>1. CASE EndOfTable \/ ReadFails
      BY <2>1 DEF EndOfTable, ReadFails
    <2>2. CASE \/ UnknownOwner \/ DirectoryLine \/ FileLine \/ TreeLine \/ DeviceLine
               \/ UnsupportedLine \/ XattrLine \/ OtherLine
      <3>1. PICK l : l = Line1
        OBVIOUS
      <3>2. LineDone(l) /\ linenum < Len(table) /\ linenum' = linenum + 1
        BY <1>1, <2>2, <3>1, LinesAreDone DEF DevInv, Reading
      <3>3. Grows(fs, fs') /\ Stays(l)
        BY <3>2 DEF LineDone, Keeps
      <3>4. table[linenum'] = l
        BY <3>1, <3>2 DEF Line1
      <3>5. full_name # <<>> =>
              /\ Node1(full_name)[1] = full_name /\ LastPath(linenum, full_name)
        BY <1>1, NodesArePairs DEF DevInv, DevTypeOK, PathOfLast
      <3>6. ASSUME NEW x \in DOMAIN fs, fs'[x] # fs[x]
            PROVE  \/ Touches(l, x) /\ fs'[x].caps = fs[x].caps
                   \/ /\ l.kind = "xattr" /\ LastPath(linenum, x[1]) /\ x = Node1(x[1])
                      /\ fs'[x] = [fs[x] EXCEPT !.caps = @ \cup {l.name}]
        BY <3>3, <3>5, <3>6 DEF Stays
      <3> QED
        BY <3>3, <3>4, <3>6 DEF Stays, Grows
    <2> QED
      BY <1>1, <2>1, <2>2 DEF DevNext, StartMakedevs
  <1>2. DevInv /\ [DevNext]_devvars => [Good]_devvars
    BY <1>1
  <1> QED
    BY <1>2, InvCorrect, PTL DEF DevSpec, OnlyWhatTableNames

-----------------------------------------------------------------------------
(* The wrapper: which arguments have been checked                          *)

\* The words of arguments; that the wrapper's own are strings is no fact to the provers.
Own ==
  {"none", "ccache", "path", "--sysroot", "sysroot", "-mabi=", "-elf2flt", "-mfloat-abi=", "-mfp",
   "-march=", "-mcpu=", "-D__TIME__", "-D__DATE__", "-Wno-builtin-macro-redefined", "-fPIE",
   "-pie", "-z_now", "-z_relro", "NULL"}
AWord == STRING \cup Own

Argument == AWord \X AWord

LEMMA CallersArguments ==
  \A a \in ArgLists : a \in Seq(Argument)
  <1> TAKE a \in ArgLists
  <1>1. a \in Seq(STRING \X STRING)
    BY WrapperConstants
  <1>2. STRING \X STRING \subseteq Argument
    BY DEF Argument, AWord
  <1> QED
    BY <1>1, <1>2

TakesPath(a) == a[1] \in {unsafe_opts[k] : k \in 1..5}
Bare(i) == TakesPath(argv[i]) /\ argv[i][2] = "none"
Confused == \E i \in DOMAIN argv : Bare(i) /\ i - 1 \in DOMAIN argv /\ Bare(i - 1)
Follows(i) == i - 1 \in DOMAIN argv /\ Bare(i - 1)

\* A path that follows its option, or is concatenated to it, is a safe one.
Checked(i) ==
  /\ Bare(i) /\ i + 1 \in DOMAIN argv =>
       ~(argv[i + 1][1] = "none" /\ argv[i + 1][2] \in unsafe_paths)
  /\ TakesPath(argv[i]) /\ ~Follows(i) => argv[i][2] \notin unsafe_paths

\* Where the loops are.  At an option that is not the first, the argument is a
\* path, or its own path has been looked at.
ScanOK ==
  /\ scan[1] \in 1..Len(argv) + 1 /\ scan[2] \in 1..6
  /\ scan[2] > 1 => scan[1] \in DOMAIN argv
  /\ Confused
     \/ /\ \A i \in 1..scan[1] - 1 : Checked(i)
        /\ scan[2] > 1 =>
             Follows(scan[1])
               \/ (argv[scan[1]][2] # "none" /\ argv[scan[1]][2] \notin unsafe_paths)

ScanInv ==
  /\ argv \in Seq(Argument)
  /\ wpc \in {"idle", "locate"} => scan = <<1, 1>>
  /\ wpc = "paths" => ScanOK
  /\ wpc \notin {"idle", "locate", "paths", "failed"} =>
       Confused \/ \A i \in DOMAIN argv : Checked(i)

LEMMA ScanInit ==
  WrapInit => ScanInv
  BY DEF WrapInit, ScanInv, Argument

\* What the check is about does not change.
LEMMA SameCaller ==
  ASSUME argv' = argv
  PROVE  /\ Confused' = Confused
         /\ \A i : Checked(i)' = Checked(i) /\ Follows(i)' = Follows(i) /\ Bare(i)' = Bare(i)
  BY DEF Confused, Checked, Follows, Bare, TakesPath, unsafe_opts, unsafe_paths

LEMMA ScanStart ==
  ASSUME ScanInv, Locate
  PROVE  ScanInv'
  <1>1. argv' = argv /\ scan' = scan /\ scan = <<1, 1>>
    BY DEF Locate, Goto, ScanInv
  <1>2. wpc' = "paths" => ScanOK'
    BY <1>1, SameCaller DEF ScanInv, ScanOK
  <1> QED
    BY <1>1, <1>2 DEF Locate, Goto, ScanInv

LEMMA ScanNext ==
  ASSUME ScanInv, NextArgument
  PROVE  ScanInv'
  <1> DEFINE i == scan[1]
  <1>1. /\ argv' = argv /\ wpc = "paths" /\ wpc' = "paths"
        /\ scan' = <<i + 1, 1>> /\ i \in DOMAIN argv /\ ScanOK
        /\ \A k \in scan[2]..5 : argv[i][1] # unsafe_opts[k]
        /\ argv \in Seq(Argument)
    BY DEF NextArgument, ScanInv, Found
  <1>2. i \in Nat /\ i <= Len(argv)
    BY <1>1 DEF ScanOK
  <1>3. ASSUME ~Confused
        PROVE  Checked(i)
    <2>1. CASE scan[2] = 1
      <3>1. ~TakesPath(argv[i])
        BY <1>1, <2>1 DEF TakesPath
      <3> QED
        BY <3>1 DEF Checked, Bare
    <2>2. CASE scan[2] > 1
      <3>1. Follows(i) => ~Bare(i)
        BY <1>1, <1>3 DEF Confused, Follows
      <3> QED
        BY <1>1, <1>3, <2>2, <3>1 DEF ScanOK, Checked, Bare
    <2> QED
      BY <1>1, <2>1, <2>2 DEF ScanOK
  <1>4. ScanOK'
    <2>1. \A j \in 1..(i + 1) - 1 : j \in 1..i - 1 \/ j = i
      BY <1>2
    <2>2. Confused \/ \A j \in 1..(i + 1) - 1 : Checked(j)
      BY <1>1, <1>3, <2>1 DEF ScanOK
    <2>3. Confused' \/ \A j \in 1..scan'[1] - 1 : Checked(j)'
      BY <1>1, <2>2, SameCaller
    <2>4. scan'[1] = i + 1 /\ scan'[2] = 1
      BY <1>1, <1>2
    <2> QED
      BY <1>1, <1>2, <2>3, <2>4 DEF ScanOK
  <1> QED
    BY <1>1, <1>4 DEF ScanInv

LEMMA ScanConcatenated ==
  ASSUME ScanInv, NEW k \in 1..5, CheckConcatenated(k)
  PROVE  ScanInv'
  <1> DEFINE i == scan[1]
  <1>1. /\ argv' = argv /\ wpc = "paths" /\ wpc' \in {"paths", "failed"}
        /\ scan' = <<i, k + 1>> /\ i \in DOMAIN argv /\ ScanOK
        /\ argv[i][2] # "none" /\ argv \in Seq(Argument)
        /\ wpc' = "paths" => argv[i][2] \notin unsafe_paths
    BY DEF CheckConcatenated, Goto, check_unsafe_path, ScanInv, Found
  <1>2. wpc' = "paths" => ScanOK'
    <2>1. scan'[1] = i /\ scan'[2] = k + 1 /\ i \in Nat
      BY <1>1 DEF ScanOK
    <2>2. Confused' \/ \A j \in 1..scan'[1] - 1 : Checked(j)'
      BY <1>1, <2>1, SameCaller DEF ScanOK
    <2> QED
      BY <1>1, <2>1, <2>2 DEF ScanOK
  <1> QED
    BY <1>1, <1>2 DEF ScanInv

LEMMA ScanFollowing ==
  ASSUME ScanInv, NEW k \in 1..5, CheckFollowing(k)
  PROVE  ScanInv'
  <1> DEFINE i == scan[1]
  <1>1. /\ argv' = argv /\ wpc = "paths" /\ wpc' \in {"paths", "failed"}
        /\ scan' = <<i + 1, k + 1>> /\ i \in DOMAIN argv /\ i < Len(argv) /\ ScanOK
        /\ argv[i][2] = "none" /\ argv[i][1] = unsafe_opts[k] /\ argv \in Seq(Argument)
        /\ wpc' = "paths" => ~(argv[i + 1][1] = "none" /\ argv[i + 1][2] \in unsafe_paths)
    BY DEF CheckFollowing, Goto, check_unsafe_path, ScanInv, Found
  <1>2. i \in Nat /\ Bare(i) /\ "none" \notin unsafe_paths
    BY <1>1 DEF ScanOK, Bare, TakesPath, unsafe_paths
  <1>3. ASSUME wpc' = "paths"
        PROVE  Checked(i)
    BY <1>1, <1>2, <1>3 DEF Checked, Bare
  <1>4. wpc' = "paths" => ScanOK'
    <2>1. scan'[1] = i + 1 /\ scan'[2] = k + 1
      BY <1>1, <1>2
    <2>2. \A j \in 1..(i + 1) - 1 : j \in 1..i - 1 \/ j = i
      BY <1>2
    <2>3. wpc' = "paths" => (Confused \/ \A j \in 1..(i + 1) - 1 : Checked(j))
      BY <1>1, <1>3, <2>2 DEF ScanOK
    <2>4. wpc' = "paths" => (Confused' \/ \A j \in 1..scan'[1] - 1 : Checked(j)')
      BY <1>1, <2>1, <2>3, SameCaller
    <2>5. i + 1 \in DOMAIN argv /\ Follows(i + 1)
      BY <1>1, <1>2 DEF Follows
    <2>6. Follows(scan[1])'
      BY <1>1, <2>1, <2>5 DEF Follows, Bare, TakesPath, unsafe_opts
    <2> QED
      BY <1>1, <2>1, <2>4, <2>5, <2>6 DEF ScanOK
  <1> QED
    BY <1>1, <1>4 DEF ScanInv

LEMMA ScanEnds ==
  ASSUME ScanInv, PathsChecked
  PROVE  ScanInv'
  <1> DEFINE n == Len(argv)
  <1>1. /\ argv' = argv /\ wpc' = "predefined" /\ ScanOK /\ argv \in Seq(Argument)
        /\ scan[1] > n \/ (scan[1] = n /\ Bare(n))
    BY DEF PathsChecked, Goto, ScanInv, Found, Bare, TakesPath
  <1>2. n \in Nat /\ DOMAIN argv = 1..n /\ scan[1] \in Nat /\ "none" \notin unsafe_paths
    BY <1>1 DEF ScanOK, unsafe_paths
  <1>3. scan[1] = n /\ Bare(n) => Checked(n)
    BY <1>2 DEF Checked, Bare
  <1>4. \A j \in DOMAIN argv : j \in 1..scan[1] - 1 \/ (j = n /\ scan[1] = n)
    BY <1>1, <1>2
  <1>5. Confused \/ \A j \in DOMAIN argv : Checked(j)
    BY <1>1, <1>3, <1>4 DEF ScanOK
  <1>6. Confused' \/ \A j \in DOMAIN argv' : Checked(j)'
    BY <1>1, <1>5, SameCaller
  <1> QED
    BY <1>1, <1>6 DEF ScanInv

\* The steps that no longer look at the caller's paths.
LEMMA ScanKept ==
  ASSUME ScanInv, argv' = argv, wpc \notin {"idle", "locate", "paths", "failed"},
         wpc' \notin {"idle", "locate", "paths"}
  PROVE  ScanInv'
  <1>1. Confused' \/ \A j \in DOMAIN argv' : Checked(j)'
    BY SameCaller DEF ScanInv
  <1> QED
    BY <1>1 DEF ScanInv

LEMMA ScanStep ==
  ScanInv /\ [WrapNext]_wrapvars => ScanInv'
  <1> SUFFICES ASSUME ScanInv, [WrapNext]_wrapvars
               PROVE  ScanInv'
    OBVIOUS
  <1>1. CASE Call
    BY <1>1, CallersArguments DEF Call, ScanInv
  <1>2. CASE Predefined \/ Machine \/ Date \/ Pie \/ Relro \/ AppendArgs \/ Exec
    <2>1. /\ argv' = argv /\ wpc \notin {"idle", "locate", "paths", "failed"}
          /\ wpc' \notin {"idle", "locate", "paths"}
      BY <1>2 DEF Predefined, Machine, Date, Pie, Relro, AppendArgs, Exec, Goto
    <2> QED
      BY <2>1, ScanKept
  <1>3. CASE UNCHANGED wrapvars
    <2>1. argv' = argv /\ wpc' = wpc /\ scan' = scan
      BY <1>3 DEF wrapvars
    <2>2. ScanOK' = ScanOK
      BY <2>1 DEF ScanOK, Confused, Checked, Follows, Bare, TakesPath, unsafe_opts, unsafe_paths
    <2>3. (Confused \/ \A i \in DOMAIN argv : Checked(i))' = (Confused \/ \A i \in DOMAIN argv : Checked(i))
      BY <2>1 DEF Confused, Checked, Follows, Bare, TakesPath, unsafe_opts, unsafe_paths
    <2> QED
      BY <2>1, <2>2, <2>3 DEF ScanInv
  <1> QED
    BY <1>1, <1>2, <1>3, ScanStart, ScanNext, ScanConcatenated, ScanFollowing, ScanEnds
    DEF WrapNext

LEMMA PathsAreSafe ==
  ScanInv => RunsWithSafePaths
  <1> SUFFICES ASSUME ScanInv, wpc = "ran"
               PROVE  RunsWithSafePaths
    BY DEF RunsWithSafePaths
  <1> DEFINE options == {i \in DOMAIN argv : argv[i][1] \in {unsafe_opts[k] : k \in 1..5}}
             bare == {i \in options : argv[i][2] = "none"}
             paths == {i \in DOMAIN argv : i - 1 \in bare}
  <1>1. argv \in Seq(Argument) /\ (Confused \/ \A i \in DOMAIN argv : Checked(i))
    BY DEF ScanInv
  <1>2. \A i \in DOMAIN argv : /\ i \in options <=> TakesPath(argv[i])
                               /\ i \in bare <=> Bare(i)
                               /\ i \in paths <=> Follows(i)
    BY DEF TakesPath, Bare, Follows
  <1>3. CASE Confused
    <2>1. bare \cap paths # {}
      BY <1>2, <1>3 DEF Confused, Follows
    <2> QED
      BY <2>1 DEF RunsWithSafePaths
  <1>4. CASE \A i \in DOMAIN argv : Checked(i)
    <2>1. \A i \in paths : ~(argv[i][1] = "none" /\ argv[i][2] \in unsafe_paths)
      <3> TAKE i \in paths
      <3>1. i \in DOMAIN argv /\ i - 1 \in DOMAIN argv /\ Bare(i - 1) /\ (i - 1) + 1 = i
        BY <1>1, <1>2 DEF Follows
      <3> QED
        BY <1>4, <3>1 DEF Checked
    <2>2. \A i \in options \ paths : argv[i][2] \notin unsafe_paths
      BY <1>2, <1>4 DEF Checked
    <2> QED
      BY <2>1, <2>2 DEF RunsWithSafePaths
  <1> QED
    BY <1>1, <1>3, <1>4

-----------------------------------------------------------------------------
(* The wrapper: what it adds                                               *)

\* An option that may be added to what the caller gives.
Allowed(o) ==
  /\ o \in {"-march=", "-mcpu="} => ~Given({"-march=", "-mtune=", "-mcpu="})
  /\ o \in {"-mfloat-abi=", "-mfp"} => ~Given({"-msoft-float"}) \/ Given({"-mhard-float"})
  /\ o = "-pie" => ~Given({"-static", "-r", "-shared"})
  /\ o \in {"-fPIE", "-pie", "-z_now", "-z_relro"} => ~Given(Kernel)
  /\ o \in {"-z_now", "-z_relro", "-elf2flt"} => found_nonoption

Added(list) == list \in Seq(Argument) /\ \A i \in 1..Len(list) : Allowed(list[i][1])

Begins(list) ==
  /\ Len(list) >= 3
  /\ list[1] = Flag(IF "BR_CCACHE" \in macros THEN "ccache" ELSE "path")
  /\ "BR_CCACHE" \in macros => list[2] = Flag("path")

\* How much may have been added before each part of main.
Most(p) ==
  IF p = "machine" THEN 6 ELSE IF p = "date" THEN 10
  ELSE IF p = "pie" THEN 13 ELSE IF p = "relro" THEN 15 ELSE 17

Assembling == {"machine", "date", "pie", "relro", "append"}

Command(added) == added \o argv \o <<Flag("NULL")>>

ArgsInv ==
  /\ argv \in Seq(Argument)
  /\ Len(args) <= room
  /\ wpc \in {"idle", "locate", "paths", "predefined"} => args = <<>>
  /\ wpc \in Assembling => Added(args) /\ Begins(args) /\ Len(args) <= Most(wpc) /\ room = MaxArgs
  /\ wpc = "exec" => \E added : Added(added) /\ Begins(added) /\ args = Command(added)
  /\ wpc = "ran" =>
       \E added :
         /\ Added(added) /\ Len(added) >= 1 /\ exec_args = Command(added)
         /\ added[1] = Flag(IF "BR_CCACHE" \in macros /\ use_ccache THEN "ccache" ELSE "path")

LEMMA AFlag ==
  ASSUME NEW o \in Own
  PROVE  Flag(o) \in Argument /\ Flag(o)[1] = o
  <1>1. o \in AWord /\ "none" \in AWord
    BY DEF AWord, Own
  <1> QED
    BY <1>1 DEF Flag, Argument

LEMMA AddedOne ==
  ASSUME NEW a \in Argument, Allowed(a[1])
  PROVE  Added(<<a>>) /\ Len(<<a>>) = 1
  <1>1. <<a>> \in Seq(Argument) /\ Len(<<a>>) = 1 /\ <<a>>[1] = a
    OBVIOUS
  <1> QED
    BY <1>1 DEF Added

LEMMA AddedMore ==
  ASSUME NEW a \in Argument, NEW b \in Argument, Allowed(a[1]), Allowed(b[1])
  PROVE  /\ Added(<<a, b>>) /\ Len(<<a, b>>) = 2
         /\ \A c \in Argument : Allowed(c[1]) => Added(<<a, b, c>>) /\ Len(<<a, b, c>>) = 3
  <1>1. Added(<<a, b>>) /\ Len(<<a, b>>) = 2
    <2>1. <<a, b>> \in Seq(Argument) /\ Len(<<a, b>>) = 2
      OBVIOUS
    <2>2. \A i \in 1..2 : <<a, b>>[i] = a \/ <<a, b>>[i] = b
      OBVIOUS
    <2> QED
      BY <2>1, <2>2 DEF Added
  <1>2. ASSUME NEW c \in Argument, Allowed(c[1])
        PROVE  Added(<<a, b, c>>) /\ Len(<<a, b, c>>) = 3
    <2>1. <<a, b, c>> \in Seq(Argument) /\ Len(<<a, b, c>>) = 3
      OBVIOUS
    <2>2. \A i \in 1..3 : <<a, b, c>>[i] = a \/ <<a, b, c>>[i] = b \/ <<a, b, c>>[i] = c
      OBVIOUS
    <2>3. \A i \in 1..3 : Allowed(<<a, b, c>>[i][1])
      BY <1>2, <2>2
    <2> QED
      BY <2>1, <2>3 DEF Added
  <1> QED
    BY <1>1, <1>2

LEMMA AddedNothing ==
  Added(<<>>) /\ Len(<<>>) = 0
  BY DEF Added

LEMMA AddedBoth ==
  ASSUME NEW s, NEW t, Added(s), Added(t)
  PROVE  /\ Added(s \o t) /\ Len(s \o t) = Len(s) + Len(t)
         /\ Len(s) \in Nat /\ Len(t) \in Nat
         /\ Begins(s) => Begins(s \o t)
  <1>1. /\ s \in Seq(Argument) /\ t \in Seq(Argument) /\ s \o t \in Seq(Argument)
        /\ Len(s \o t) = Len(s) + Len(t) /\ Len(s) \in Nat /\ Len(t) \in Nat
    BY DEF Added
  <1>2. ASSUME NEW i \in 1..Len(s \o t)
        PROVE  Allowed((s \o t)[i][1])
    <2>1. CASE i <= Len(s)
      <3>1. (s \o t)[i] = s[i] /\ i \in 1..Len(s)
        BY <1>1, <2>1
      <3> QED
        BY <3>1 DEF Added
    <2>2. CASE i > Len(s)
      <3>1. (s \o t)[i] = t[i - Len(s)] /\ i - Len(s) \in 1..Len(t)
        BY <1>1, <2>2
      <3> QED
        BY <3>1 DEF Added
    <2> QED
      BY <1>1, <2>1, <2>2
  <1>3. Begins(s) => Begins(s \o t)
    BY <1>1 DEF Begins
  <1> QED
    BY <1>1, <1>2, <1>3 DEF Added

\* What an option is added for.
LEMMA AddedIf ==
  ASSUME NEW c, NEW list, c => Added(list)
  PROVE  /\ Added(AddsIf(c, list))
         /\ Len(AddsIf(c, list)) \in {0, Len(list)}
  BY AddedNothing DEF AddsIf

\* A part of main that adds options.
LEMMA Adding ==
  ASSUME ArgsInv, wpc \in Assembling \ {"append"},
         NEW list, Adds(list), Added(list), Most(wpc) + Len(list) <= 17,
         argv' = argv, macros' = macros,
         wpc' = "failed" \/ (wpc' \in Assembling /\ Most(wpc) + Len(list) <= Most(wpc'))
  PROVE  ArgsInv'
  <1>1. Added(args) /\ Begins(args) /\ Len(args) <= Most(wpc) /\ room = MaxArgs
    BY DEF ArgsInv
  <1>2. /\ Added(args') /\ Begins(args') /\ Len(args') = Len(args) + Len(list)
        /\ Len(args) \in Nat /\ Len(list) \in Nat /\ room' = room
    BY <1>1, AddedBoth DEF Adds
  <1>3. Most(wpc) \in Nat /\ Most(wpc') \in Nat /\ MaxArgs \in Nat /\ MaxArgs >= 17
    BY WrapperConstants DEF Most
  <1>4. Len(args') <= 17 /\ (wpc' \in Assembling => Len(args') <= Most(wpc'))
    BY <1>2, <1>1, <1>3 DEF Assembling
  <1>5. Added(args)' /\ Begins(args)'
    BY <1>2 DEF Added, Allowed, Begins, Given, Kernel, found_nonoption, Flag
  <1>6. (Len(args) <= Most(wpc))' <=> Len(args') <= Most(wpc')
    BY DEF Most
  <1> QED
    BY <1>1, <1>2, <1>3, <1>4, <1>5, <1>6 DEF ArgsInv, Assembling

LEMMA PredefinedArgs ==
  ASSUME ArgsInv, Predefined
  PROVE  ArgsInv'
  <1> DEFINE a == IF "BR_CCACHE" \in macros THEN <<Flag("ccache")>> ELSE <<>>
             b == <<Flag("path"), Flag("--sysroot"), <<"none", "sysroot">> >>
             c == IF "BR_ABI" \in macros THEN <<Flag("-mabi=")>> ELSE <<>>
             d == IF "BR_BINFMT_FLAT" \in macros /\ found_nonoption
                  THEN <<Flag("-elf2flt")>> ELSE <<>>
  <1>1. Added(a) /\ Len(a) \in Nat /\ Len(a) <= 1
    <2>1. Flag("ccache") \in Argument /\ Allowed(Flag("ccache")[1])
      BY AFlag DEF Allowed, Own
    <2>2. Added(<<Flag("ccache")>>) /\ Len(<<Flag("ccache")>>) = 1
      BY <2>1, AddedOne
    <2> QED
      BY <2>2, AddedNothing
  <1>2. Added(b) /\ Len(b) = 3
    <2>1. /\ Flag("path") \in Argument /\ Allowed(Flag("path")[1])
          /\ Flag("--sysroot") \in Argument /\ Allowed(Flag("--sysroot")[1])
      BY AFlag DEF Allowed, Own
    <2>2. <<"none", "sysroot">> \in Argument /\ Allowed(<<"none", "sysroot">>[1])
      BY DEF Allowed, Argument, AWord, Own
    <2> QED
      BY <2>1, <2>2, AddedMore
  <1>3. Added(c) /\ Len(c) \in Nat /\ Len(c) <= 1
    <2>1. Flag("-mabi=") \in Argument /\ Allowed(Flag("-mabi=")[1])
      BY AFlag DEF Allowed, Own
    <2>2. Added(<<Flag("-mabi=")>>) /\ Len(<<Flag("-mabi=")>>) = 1
      BY <2>1, AddedOne
    <2> QED
      BY <2>2, AddedNothing
  <1>4. Added(d) /\ Len(d) \in Nat /\ Len(d) <= 1
    <2>1. Flag("-elf2flt") \in Argument /\ (found_nonoption => Allowed(Flag("-elf2flt")[1]))
      BY AFlag DEF Allowed, Own
    <2>2. found_nonoption => Added(<<Flag("-elf2flt")>>) /\ Len(<<Flag("-elf2flt")>>) = 1
      BY <2>1, AddedOne
    <2> QED
      BY <2>2, AddedNothing
  <1>5. args' = a \o b \o c \o d
    BY DEF Predefined
  <1>6. Begins(a \o b) /\ Added(a \o b) /\ Len(a \o b) = Len(a) + 3
    <2>1. CASE "BR_CCACHE" \in macros
      <3>1. a = <<Flag("ccache")>> /\ a \in Seq(Argument) /\ b \in Seq(Argument)
        BY <1>1, <1>2, <2>1 DEF Added
      <3>2. (a \o b)[1] = Flag("ccache") /\ (a \o b)[2] = Flag("path")
        BY <3>1
      <3> QED
        BY <1>1, <1>2, <2>1, <3>2, AddedBoth DEF Begins
    <2>2. CASE "BR_CCACHE" \notin macros
      <3>1. a = <<>> /\ b \in Seq(Argument)
        BY <1>2, <2>2 DEF Added
      <3>2. (a \o b)[1] = Flag("path")
        BY <3>1
      <3> QED
        BY <1>1, <1>2, <2>2, <3>2, AddedBoth DEF Begins
    <2> QED
      BY <2>1, <2>2
  <1>7. /\ Begins(a \o b \o c) /\ Added(a \o b \o c) /\ Len(a \o b \o c) = Len(a \o b) + Len(c)
    BY <1>3, <1>6, AddedBoth
  <1>8. Begins(args') /\ Added(args') /\ Len(args') = Len(a \o b \o c) + Len(d)
    BY <1>4, <1>5, <1>7, AddedBoth
  <1>9. Len(args') <= 6
    BY <1>1, <1>3, <1>4, <1>6, <1>7, <1>8
  <1>10. wpc' = "machine" /\ argv' = argv /\ macros' = macros /\ room' = MaxArgs
    BY DEF Predefined, Goto
  <1>11. Begins(args)' /\ Added(args)'
    BY <1>8, <1>10 DEF Added, Allowed, Begins, Given, Kernel, found_nonoption, Flag
  <1>12. Len(args') \in Nat
    BY <1>8 DEF Added
  <1> QED
    BY <1>9, <1>10, <1>11, <1>12, WrapperConstants DEF ArgsInv, Assembling, Most

LEMMA MachineArgs ==
  ASSUME ArgsInv, Machine
  PROVE  ArgsInv'
  <1> DEFINE soft == \E i \in DOMAIN argv :
                       /\ argv[i][1] = "-msoft-float"
                       /\ \A j \in i + 1..Len(argv) : argv[j][1] # "-mhard-float"
             c == "BR_FLOAT_ABI" \in macros
                    /\ ~Given({"-mfloat-abi=", "-msoft-float", "-mhard-float"})
             d == "BR_FP32_MODE" \in macros /\ ~soft
             e == "BR_ARCH" \in macros /\ ~Given({"-march=", "-mtune=", "-mcpu="})
             s == AddsIf(c, <<Flag("-mfloat-abi=")>>)
             t == AddsIf(d, <<Flag("-mfp")>>)
             u == AddsIf(e, <<Flag("-march="), Flag("-mcpu=")>>)
  <1>1. wpc = "machine" /\ Goto("date") /\ Adds(s \o t \o u)
    BY DEF Machine
  <1>2. Given({"-msoft-float"}) /\ ~Given({"-mhard-float"}) => soft
    <2>1. argv \in Seq(Argument)
      BY DEF ArgsInv
    <2> QED
      BY <2>1 DEF Given
  <1>3. Added(s) /\ Len(s) \in Nat /\ Len(s) <= 1
    <2>1. Flag("-mfloat-abi=") \in Argument /\ (c => Allowed(Flag("-mfloat-abi=")[1]))
      BY AFlag DEF Allowed, Own, Given
    <2>2. c => Added(<<Flag("-mfloat-abi=")>>) /\ Len(<<Flag("-mfloat-abi=")>>) = 1
      BY <2>1, AddedOne
    <2> QED
      BY <2>2, AddedNothing DEF AddsIf
  <1>4. Added(t) /\ Len(t) \in Nat /\ Len(t) <= 1
    <2>1. Flag("-mfp") \in Argument /\ (d => Allowed(Flag("-mfp")[1]))
      BY <1>2, AFlag DEF Allowed, Own
    <2>2. d => Added(<<Flag("-mfp")>>) /\ Len(<<Flag("-mfp")>>) = 1
      BY <2>1, AddedOne
    <2> QED
      BY <2>2, AddedNothing DEF AddsIf
  <1>5. Added(u) /\ Len(u) \in Nat /\ Len(u) <= 2
    <2>1. /\ Flag("-march=") \in Argument /\ (e => Allowed(Flag("-march=")[1]))
          /\ Flag("-mcpu=") \in Argument /\ (e => Allowed(Flag("-mcpu=")[1]))
      BY AFlag DEF Allowed, Own
    <2>2. e => Added(<<Flag("-march="), Flag("-mcpu=")>>) /\ Len(<<Flag("-march="), Flag("-mcpu=")>>) = 2
      BY <2>1, AddedMore
    <2> QED
      BY <2>2, AddedNothing DEF AddsIf
  <1> HIDE DEF s, t, u
  <1>6. Added(s \o t \o u) /\ Len(s \o t \o u) <= 4
    <2>1. Added(s \o t) /\ Len(s \o t) = Len(s) + Len(t)
      BY <1>3, <1>4, AddedBoth
    <2>2. Added(s \o t \o u) /\ Len(s \o t \o u) = Len(s \o t) + Len(u)
      BY <2>1, <1>5, AddedBoth
    <2> QED
      BY <2>1, <2>2, <1>3, <1>4, <1>5
  <1>7. Len(s \o t \o u) \in Nat
    BY <1>6 DEF Added
  <1>8. /\ argv' = argv /\ macros' = macros /\ wpc' = "date" /\ Most(wpc) = 6 /\ Most(wpc') = 10
        /\ wpc \in Assembling \ {"append"} /\ wpc' \in Assembling
    BY <1>1 DEF Goto, Most, Assembling
  <1>9. Most(wpc) + Len(s \o t \o u) <= 17 /\ Most(wpc) + Len(s \o t \o u) <= Most(wpc')
    BY <1>6, <1>7, <1>8
  <1> QED
    BY <1>1, <1>6, <1>8, <1>9, Adding

LEMMA DateArgs ==
  ASSUME ArgsInv, Date
  PROVE  ArgsInv'
  <1> DEFINE date == parse_source_date_epoch_from_env
             list == <<Flag("-D__TIME__"), Flag("-D__DATE__"), Flag("-Wno-builtin-macro-redefined")>>
             s == AddsIf(date = "valid", list)
  <1>1. /\ wpc = "date" /\ wpc' \in {"failed", "pie"} /\ Adds(s)
        /\ argv' = argv /\ macros' = macros
    BY DEF Date, Goto
  <1>2. Added(list) /\ Len(list) = 3
    <2>1. /\ Flag("-D__TIME__") \in Argument /\ Allowed(Flag("-D__TIME__")[1])
          /\ Flag("-D__DATE__") \in Argument /\ Allowed(Flag("-D__DATE__")[1])
      BY AFlag DEF Allowed, Own
    <2>2. /\ Flag("-Wno-builtin-macro-redefined") \in Argument
          /\ Allowed(Flag("-Wno-builtin-macro-redefined")[1])
      BY AFlag DEF Allowed, Own
    <2> QED
      BY <2>1, <2>2, AddedMore
  <1>3. Added(s) /\ Len(s) \in Nat /\ Len(s) <= 3
    BY <1>2, AddedNothing DEF AddsIf
  <1> HIDE DEF s
  <1>4. /\ Most(wpc) = 10 /\ wpc \in Assembling \ {"append"}
        /\ wpc' = "pie" => wpc' \in Assembling /\ Most(wpc') = 13
    BY <1>1 DEF Most, Assembling
  <1>5. /\ Most(wpc) + Len(s) <= 17
        /\ wpc' = "failed" \/ (wpc' \in Assembling /\ Most(wpc) + Len(s) <= Most(wpc'))
    BY <1>1, <1>3, <1>4
  <1> QED
    BY <1>1, <1>3, <1>4, <1>5, Adding

LEMMA PieArgs ==
  ASSUME ArgsInv, Pie
  PROVE  ArgsInv'
  <1> DEFINE on == "BR2_PIC_PIE" \in macros /\ ~Given(Kernel \cup {"-r", "-static", "-fno-pie"})
             c == on /\ ~Given({"-fPIC"})
             d == on /\ ~Given({"-shared"})
             s == AddsIf(c, <<Flag("-fPIE")>>)
             t == AddsIf(d, <<Flag("-pie")>>)
  <1>1. wpc = "pie" /\ Goto("relro") /\ Adds(s \o t)
    BY DEF Pie
  <1>2. /\ on => ~Given(Kernel)
        /\ d => ~Given({"-static", "-r", "-shared"})
    BY DEF Given
  <1>3. Added(s) /\ Len(s) \in Nat /\ Len(s) <= 1
    <2>1. Flag("-fPIE") \in Argument /\ (c => Allowed(Flag("-fPIE")[1]))
      BY <1>2, AFlag DEF Allowed, Own
    <2>2. c => Added(<<Flag("-fPIE")>>) /\ Len(<<Flag("-fPIE")>>) = 1
      BY <2>1, AddedOne
    <2> QED
      BY <2>2, AddedNothing DEF AddsIf
  <1>4. Added(t) /\ Len(t) \in Nat /\ Len(t) <= 1
    <2>1. Flag("-pie") \in Argument /\ (d => Allowed(Flag("-pie")[1]))
      BY <1>2, AFlag DEF Allowed, Own
    <2>2. d => Added(<<Flag("-pie")>>) /\ Len(<<Flag("-pie")>>) = 1
      BY <2>1, AddedOne
    <2> QED
      BY <2>2, AddedNothing DEF AddsIf
  <1> HIDE DEF s, t
  <1>5. Added(s \o t) /\ Len(s \o t) \in Nat /\ Len(s \o t) <= 2
    BY <1>3, <1>4, AddedBoth
  <1>6. /\ argv' = argv /\ macros' = macros /\ Most(wpc) = 13 /\ Most(wpc') = 15
        /\ wpc \in Assembling \ {"append"} /\ wpc' \in Assembling
    BY <1>1 DEF Goto, Most, Assembling
  <1>7. Most(wpc) + Len(s \o t) <= 17 /\ Most(wpc) + Len(s \o t) <= Most(wpc')
    BY <1>5, <1>6
  <1> QED
    BY <1>1, <1>5, <1>6, <1>7, Adding

LEMMA RelroArgs ==
  ASSUME ArgsInv, Relro
  PROVE  ArgsInv'
  <1> DEFINE on == ~Given(Kernel) /\ found_nonoption
             c == on /\ "BR2_RELRO_FULL" \in macros
             d == on /\ macros \cap {"BR2_RELRO_PARTIAL", "BR2_RELRO_FULL"} # {}
             s == AddsIf(c, <<Flag("-z_now")>>)
             t == AddsIf(d, <<Flag("-z_relro")>>)
  <1>1. wpc = "relro" /\ Goto("append") /\ Adds(s \o t)
    BY DEF Relro
  <1>2. Added(s) /\ Len(s) \in Nat /\ Len(s) <= 1
    <2>1. Flag("-z_now") \in Argument /\ (c => Allowed(Flag("-z_now")[1]))
      BY AFlag DEF Allowed, Own
    <2>2. c => Added(<<Flag("-z_now")>>) /\ Len(<<Flag("-z_now")>>) = 1
      BY <2>1, AddedOne
    <2> QED
      BY <2>2, AddedNothing DEF AddsIf
  <1>3. Added(t) /\ Len(t) \in Nat /\ Len(t) <= 1
    <2>1. Flag("-z_relro") \in Argument /\ (d => Allowed(Flag("-z_relro")[1]))
      BY AFlag DEF Allowed, Own
    <2>2. d => Added(<<Flag("-z_relro")>>) /\ Len(<<Flag("-z_relro")>>) = 1
      BY <2>1, AddedOne
    <2> QED
      BY <2>2, AddedNothing DEF AddsIf
  <1> HIDE DEF s, t
  <1>4. Added(s \o t) /\ Len(s \o t) \in Nat /\ Len(s \o t) <= 2
    BY <1>2, <1>3, AddedBoth
  <1>6. /\ argv' = argv /\ macros' = macros /\ Most(wpc) = 15 /\ Most(wpc') = 17
        /\ wpc \in Assembling \ {"append"} /\ wpc' \in Assembling
    BY <1>1 DEF Goto, Most, Assembling
  <1>7. Most(wpc) + Len(s \o t) <= 17 /\ Most(wpc) + Len(s \o t) <= Most(wpc')
    BY <1>4, <1>6
  <1> QED
    BY <1>1, <1>4, <1>6, <1>7, Adding

LEMMA AppendedArgs ==
  ASSUME ArgsInv, AppendArgs
  PROVE  ArgsInv'
  <1>1. /\ wpc = "append" /\ wpc' \in {"exec", "failed"} /\ argv' = argv /\ macros' = macros
        /\ room' = (IF Len(args) + (Len(argv) + 1) > room THEN Len(args) + (Len(argv) + 1) ELSE room)
        /\ args' = Command(args)
    BY DEF AppendArgs, Goto, Command
  <1>2. argv \in Seq(Argument) /\ Added(args) /\ Begins(args) /\ room \in Nat
    BY <1>1, WrapperConstants DEF ArgsInv, Assembling
  <1>3. Len(args') = Len(args) + (Len(argv) + 1) /\ Len(args') \in Nat
    <2>1. Flag("NULL") \in Argument /\ args \in Seq(Argument)
      BY <1>2, AFlag DEF Own, Added
    <2> QED
      BY <1>1, <1>2, <2>1 DEF Command
  <1>4. Len(args') <= room'
    BY <1>1, <1>2, <1>3
  <1>5. Added(args)
    BY <1>2
  <1>6. \E added : (Added(added) /\ Begins(added))' /\ args' = Command(added)'
    <2>1. /\ Added(args) <=> \A a \in {args} : Added(a)
          /\ \A a \in {args} : Added(a) /\ Begins(a) /\ args' = Command(a)
      BY <1>1, <1>2
    <2>2. \E a : a = args /\ Added(a) /\ Begins(a) /\ args' = Command(a)
      BY <1>1, <1>2
    <2>3. PICK a : Added(a) /\ Begins(a) /\ args' = Command(a)
      BY <2>2
    <2>4. (Added(a) /\ Begins(a))' /\ args' = Command(a)'
      BY <1>1, <2>3
      DEF Added, Allowed, Begins, Given, Kernel, found_nonoption, Flag, Command
    <2> QED
      BY <2>4
  <1> QED
    BY <1>1, <1>2, <1>4, <1>6 DEF ArgsInv, Assembling

LEMMA ExecArgs ==
  ASSUME ArgsInv, Exec
  PROVE  ArgsInv'
  <1>1. /\ wpc = "exec" /\ wpc' \in {"ran", "failed"} /\ UNCHANGED <<macros, argv, use_ccache, args, room>>
        /\ exec_args' = IF "BR_CCACHE" \in macros /\ ~use_ccache THEN Tail(args) ELSE args
    BY DEF Exec, Goto
  <1>2. argv \in Seq(Argument) /\ Len(args) <= room
    BY DEF ArgsInv
  <1>3. PICK a : Added(a) /\ Begins(a) /\ args = Command(a)
    BY <1>1 DEF ArgsInv
  <1>4. a \in Seq(Argument) /\ Len(a) >= 3 /\ Flag("NULL") \in Argument
    BY <1>3, AFlag DEF Added, Begins, Own
  <1> DEFINE b == IF "BR_CCACHE" \in macros /\ ~use_ccache THEN Tail(a) ELSE a
             first == Flag(IF "BR_CCACHE" \in macros /\ use_ccache THEN "ccache" ELSE "path")
  <1>5. Added(b) /\ Len(b) >= 1 /\ exec_args' = Command(b) /\ b[1] = first
    <2>1. CASE "BR_CCACHE" \in macros /\ ~use_ccache
      <3>1. b = Tail(a) /\ exec_args' = Tail(Command(a)) /\ first = Flag("path")
        BY <1>1, <1>3, <2>1
      <3>2. /\ Tail(a) \in Seq(Argument) /\ Len(Tail(a)) = Len(a) - 1
            /\ \A i \in 1..Len(a) - 1 : Tail(a)[i] = a[i + 1]
        BY <1>4
      <3>3. Added(b)
        <4>1. \A i \in 1..Len(Tail(a)) : i + 1 \in 1..Len(a) /\ Tail(a)[i] = a[i + 1]
          BY <1>4, <3>2
        <4>2. \A i \in 1..Len(a) : Allowed(a[i][1])
          BY <1>3 DEF Added
        <4>3. \A i \in 1..Len(Tail(a)) : Allowed(Tail(a)[i][1])
          BY <4>1, <4>2
        <4> QED
          BY <3>1, <3>2, <4>3 DEF Added
      <3>4. Tail(a \o argv \o <<Flag("NULL")>>) = Tail(a) \o argv \o <<Flag("NULL")>>
        BY <1>2, <1>4
      <3>5. b[1] = first
        BY <1>3, <1>4, <2>1, <3>1, <3>2 DEF Begins
      <3>6. Len(b) >= 1
        <4>1. Len(Tail(a)) >= 1
          BY <1>4, <3>2
        <4> QED
          BY <3>1, <4>1
      <3>7. exec_args' = Command(b)
        BY <3>1, <3>4 DEF Command
      <3> QED
        BY <3>3, <3>5, <3>6, <3>7
    <2>2. CASE ~("BR_CCACHE" \in macros /\ ~use_ccache)
      <3>1. b = a /\ exec_args' = Command(a)
        BY <1>1, <1>3, <2>2
      <3>2. a[1] = first
        BY <1>3, <2>2 DEF Begins
      <3> QED
        BY <1>3, <1>4, <3>1, <3>2
    <2> QED
      BY <2>1, <2>2
  <1>6. \E added : Added(added) /\ Len(added) >= 1 /\ exec_args' = Command(added) /\ added[1] = first
    BY <1>5
  <1>7. PICK d : Added(d) /\ Len(d) >= 1 /\ exec_args' = Command(d) /\ d[1] = first
    BY <1>6
  <1>8. Added(d)' /\ Command(d)' = Command(d) /\ first' = first
    BY <1>1, <1>7 DEF Added, Allowed, Begins, Given, Kernel, found_nonoption, Flag, Command
  <1> QED
    BY <1>1, <1>2, <1>7, <1>8 DEF ArgsInv, Assembling

LEMMA ArgsStep ==
  ArgsInv /\ [WrapNext]_wrapvars => ArgsInv'
  <1> SUFFICES ASSUME ArgsInv, [WrapNext]_wrapvars
               PROVE  ArgsInv'
    OBVIOUS
  <1>1. CASE Call
    BY <1>1, CallersArguments DEF Call, ArgsInv, Assembling
  <1>2. CASE \/ Locate \/ NextArgument \/ PathsChecked
             \/ \E k \in 1..5 : CheckConcatenated(k) \/ CheckFollowing(k)
    <2>1. /\ UNCHANGED <<argv, args, room>> /\ wpc \in {"locate", "paths"}
          /\ wpc' \in {"paths", "predefined", "failed"}
      BY <1>2 DEF Locate, NextArgument, PathsChecked, CheckConcatenated, CheckFollowing, Found, Goto
    <2> QED
      BY <2>1 DEF ArgsInv, Assembling
  <1>3. CASE UNCHANGED wrapvars
    <2>1. UNCHANGED <<wpc, macros, argv, use_ccache, args, room, exec_args>>
      BY <1>3 DEF wrapvars
    <2>2. Added(args)' = Added(args) /\ Begins(args)' = Begins(args)
      BY <2>1 DEF Added, Allowed, Begins, Given, Kernel, found_nonoption, Flag
    <2>3. \A a : /\ Added(a)' = Added(a) /\ Begins(a)' = Begins(a) /\ Command(a)' = Command(a)
      BY <2>1 DEF Added, Allowed, Begins, Given, Kernel, found_nonoption, Flag, Command
    <2>4. wpc = "exec" => (\E a : Added(a) /\ Begins(a) /\ args = Command(a))'
      BY <2>1, <2>3 DEF ArgsInv
    <2>5. wpc = "ran" =>
            (\E a : /\ Added(a) /\ Len(a) >= 1 /\ exec_args = Command(a)
                    /\ a[1] = Flag(IF "BR_CCACHE" \in macros /\ use_ccache THEN "ccache" ELSE "path"))'
      BY <2>1, <2>3 DEF ArgsInv, Flag
    <2> QED
      BY <2>1, <2>2, <2>4, <2>5 DEF ArgsInv, Assembling, Most
  <1> QED
    BY <1>1, <1>2, <1>3, PredefinedArgs, MachineArgs, DateArgs, PieArgs, RelroArgs, AppendedArgs,
       ExecArgs
    DEF WrapNext

LEMMA CommandIsRight ==
  ArgsInv => ArgumentsAreRight
  <1> SUFFICES ASSUME ArgsInv
               PROVE  CallerDecides /\ KernelsAreLinkedPlainly /\ ArgumentsFit
    BY DEF ArgumentsAreRight
  <1>1. ArgumentsFit
    BY DEF ArgsInv, ArgumentsFit
  <1>2. ASSUME wpc = "ran"
        PROVE  CallerDecides /\ KernelsAreLinkedPlainly
    <2>1. PICK a : /\ Added(a) /\ Len(a) >= 1 /\ exec_args = Command(a)
                   /\ a[1] = Flag(IF "BR_CCACHE" \in macros /\ use_ccache THEN "ccache" ELSE "path")
      BY <1>2 DEF ArgsInv
    <2>2. a \in Seq(Argument) /\ argv \in Seq(Argument) /\ Flag("NULL") \in Argument
      BY <2>1, AFlag DEF ArgsInv, Added, Own
    <2>3. /\ Len(exec_args) = Len(a) + Len(argv) + 1
          /\ \A i \in 1..Len(a) : exec_args[i] = a[i]
          /\ \A i \in 1..Len(argv) : exec_args[Len(a) + i] = argv[i]
          /\ exec_args \in Seq(Argument)
      BY <2>1, <2>2 DEF Command
    <2> DEFINE n == Len(exec_args) - Len(argv) - 1
               added == {exec_args[i][1] : i \in 1..n}
    <2>4. n = Len(a) /\ n \in Nat /\ Len(argv) \in Nat
      BY <2>2, <2>3
    <2>5. \A o \in added : Allowed(o)
      BY <2>1, <2>3, <2>4 DEF Added
    <2>6. SubSeq(exec_args, n + 1, n + Len(argv)) = argv
      <3>1. /\ SubSeq(exec_args, n + 1, n + Len(argv)) \in Seq(Argument)
            /\ Len(SubSeq(exec_args, n + 1, n + Len(argv))) = Len(argv)
            /\ \A i \in 1..Len(argv) :
                 SubSeq(exec_args, n + 1, n + Len(argv))[i] = exec_args[n + i]
        BY <2>3, <2>4
      <3> HIDE DEF n
      <3>2. \A i \in 1..Len(argv) : SubSeq(exec_args, n + 1, n + Len(argv))[i] = argv[i]
        BY <2>3, <2>4, <3>1
      <3> DEFINE tail == SubSeq(exec_args, n + 1, n + Len(argv))
      <3> HIDE DEF tail
      <3>3. /\ tail \in Seq(Argument) /\ argv \in Seq(Argument) /\ Len(tail) = Len(argv)
            /\ \A i \in 1..Len(tail) : tail[i] = argv[i]
        BY <2>2, <3>1, <3>2 DEF tail
      <3>4. tail = argv
        BY <3>3, SeqEqual
      <3> QED
        BY <3>4 DEF tail
    <2>7. exec_args[1] = a[1]
      BY <2>1, <2>2, <2>3
    <2> HIDE DEF added
    <2>8. /\ Given({"-march=", "-mtune=", "-mcpu="}) => added \cap {"-march=", "-mcpu="} = {}
          /\ Given({"-msoft-float"}) /\ ~Given({"-mhard-float"}) =>
               added \cap {"-mfloat-abi=", "-mfp"} = {}
          /\ Given({"-static", "-r", "-shared"}) => "-pie" \notin added
      BY <2>5 DEF Allowed
    <2>9. /\ Given(Kernel) => added \cap {"-fPIE", "-pie", "-z_now", "-z_relro"} = {}
          /\ ~found_nonoption => added \cap {"-z_now", "-z_relro", "-elf2flt"} = {}
      BY <2>5 DEF Allowed
    <2> USE DEF added
    <2>10. CallerDecides
      BY <2>1, <2>6, <2>7, <2>8 DEF CallerDecides
    <2>11. KernelsAreLinkedPlainly
      BY <2>9 DEF KernelsAreLinkedPlainly
    <2> QED
      BY <2>10, <2>11
  <1> QED
    BY <1>1, <1>2 DEF CallerDecides, KernelsAreLinkedPlainly

\* Whatever a compiler is called with and whatever toolchain it is of, it is
\* run with safe paths and with options that give way to the caller's, and the
\* array of its arguments is never written past its end.
THEOREM WrapperCorrect == WrapSpec => []WrapperIsRight
  <1>1. WrapInit => ScanInv /\ ArgsInv
    <2>1. WrapInit => ArgsInv
      BY DEF WrapInit, ArgsInv, Assembling
    <2> QED
      BY <2>1, ScanInit
  <1>2. ScanInv /\ ArgsInv /\ [WrapNext]_wrapvars => (ScanInv /\ ArgsInv)'
    BY ScanStep, ArgsStep
  <1>3. ScanInv /\ ArgsInv => WrapperIsRight
    BY PathsAreSafe, CommandIsRight DEF WrapperIsRight
  <1> QED
    BY <1>1, <1>2, <1>3, PTL DEF WrapSpec

=============================================================================
