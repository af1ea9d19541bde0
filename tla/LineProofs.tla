----------------------------- MODULE LineProofs -----------------------------
(***************************************************************************)
(* The two line editors, of mconf and of nconf: both are the one of LxLine,*)
(* for texts, buffers and windows of any length; what else nconf's dialogs *)
(* promise; and its lists, for all menus and however they change.  What is *)
(* inserted into and removed from a buffer is followed in the pieces       *)
(* before and behind the cursor; the places of a list that is searched go  *)
(* round.                                                                  *)
(***************************************************************************)
EXTENDS LxInput, NcDialogs, NcMenu, SequenceTheorems, FiniteSetTheorems, WellFoundedInduction, TLAPS

-----------------------------------------------------------------------------
(* A buffer, and the sequences that it holds                               *)

Piece(b, from, to) == [i \in 1..to - from |-> b[from + i - 1]]

\* The first n places of a buffer hold characters.
Holds(b, n) == \A i \in 0..n - 1 : b[i] \in Nat

LEMMA FunctionIsSeq ==
  ASSUME NEW n \in Nat, NEW p \in [1..n -> Nat]
  PROVE  p \in Seq(Nat) /\ Len(p) = n
  <1>1. p \in Seq(Nat)
    BY SeqDef
  <1> QED
    BY <1>1

LEMMA PieceIsSeq ==
  ASSUME NEW b, NEW to \in Nat, NEW from \in 0..to, Holds(b, to)
  PROVE  /\ Piece(b, from, to) \in Seq(Nat) /\ Len(Piece(b, from, to)) = to - from
         /\ \A i \in 1..to - from : Piece(b, from, to)[i] = b[from + i - 1]
  <1>1. \A i \in 1..to - from : from + i - 1 \in 0..to - 1
    OBVIOUS
  <1>2. Piece(b, from, to) \in [1..to - from -> Nat] /\ to - from \in Nat
    BY <1>1 DEF Piece, Holds
  <1>3. Piece(b, from, to) \in Seq(Nat) /\ Len(Piece(b, from, to)) = to - from
    BY <1>2, FunctionIsSeq
  <1> QED
    BY <1>3 DEF Piece

LEMMA FirstPieceIsSeq ==
  ASSUME NEW b, NEW to \in Nat, Holds(b, to)
  PROVE  /\ Piece(b, 0, to) \in Seq(Nat) /\ Len(Piece(b, 0, to)) = to
         /\ \A i \in 1..to : Piece(b, 0, to)[i] = b[i - 1]
  <1>1. \A i \in 1..to : 0 + i - 1 = i - 1
    OBVIOUS
  <1>2. /\ Piece(b, 0, to) \in Seq(Nat) /\ Len(Piece(b, 0, to)) = to - 0
        /\ \A i \in 1..to - 0 : Piece(b, 0, to)[i] = b[0 + i - 1]
    BY 0 \in 0..to, PieceIsSeq
  <1> QED
    BY <1>1, <1>2

LEMMA FewerHold ==
  ASSUME NEW b, NEW n \in Nat, NEW m \in 0..n, Holds(b, n)
  PROVE  Holds(b, m)
  <1>1. \A i \in 0..m - 1 : i \in 0..n - 1
    OBVIOUS
  <1> QED
    BY <1>1 DEF Holds

LEMMA PiecesJoin ==
  ASSUME NEW b, NEW to \in Nat, NEW at \in 0..to, Holds(b, to)
  PROVE  Piece(b, 0, at) \o Piece(b, at, to) = Piece(b, 0, to)
  <1> DEFINE s == Piece(b, 0, at)
  <1> DEFINE t == Piece(b, at, to)
  <1> DEFINE u == Piece(b, 0, to)
  <1>0. at \in Nat /\ at <= to /\ 0 \in 0..at /\ 0 \in 0..to /\ Holds(b, at)
    BY FewerHold
  <1>1. s \in Seq(Nat) /\ Len(s) = at /\ \A i \in 1..at : s[i] = b[i - 1]
    BY <1>0, FirstPieceIsSeq
  <1>2. t \in Seq(Nat) /\ Len(t) = to - at /\ \A i \in 1..to - at : t[i] = b[at + i - 1]
    BY PieceIsSeq
  <1>3. u \in Seq(Nat) /\ Len(u) = to /\ \A i \in 1..to : u[i] = b[i - 1]
    BY FirstPieceIsSeq
  <1> HIDE DEF s, t, u
  <1>4. Len(s) + Len(t) = to
    BY <1>0, <1>1, <1>2
  <1>4a. /\ s \o t \in Seq(Nat) /\ Len(s \o t) = to
         /\ \A i \in 1..to : (s \o t)[i] = IF i <= Len(s) THEN s[i] ELSE t[i - Len(s)]
    <2>1. /\ s \o t \in Seq(Nat) /\ Len(s \o t) = Len(s) + Len(t)
          /\ \A i \in 1..Len(s) + Len(t) :
               (s \o t)[i] = IF i <= Len(s) THEN s[i] ELSE t[i - Len(s)]
      BY <1>1, <1>2, ConcatProperties
    <2> QED
      BY <1>4, <2>1
  <1>5. ASSUME NEW i \in 1..to PROVE (s \o t)[i] = u[i]
    <2>1. CASE i <= at
      <3>1. i \in 1..at
        BY <1>0, <2>1
      <3> QED
        BY <1>1, <1>3, <1>4a, <2>1, <3>1
    <2>2. CASE ~(i <= at)
      <3>1. i - at \in 1..to - at /\ at + (i - at) - 1 = i - 1
        BY <1>0, <2>2
      <3>2. t[i - at] = b[i - 1]
        BY <1>2, <3>1
      <3> QED
        BY <1>1, <1>3, <1>4a, <2>2, <3>2
    <2> QED
      BY <2>1, <2>2
  <1> QED
    BY <1>3, <1>4a, <1>5, SeqEqual DEF s, t, u


\* What an inserted character does, and one that is taken out before the cursor or
\* behind it: b is the buffer before, c the one after.
Inserted(b, c, at, to) ==
  /\ \A i \in 0..at - 1 : c[i] = b[i]
  /\ c[at] \in Nat
  /\ \A i \in at..to - 1 : c[i + 1] = b[i]

LEMMA PieceInsert ==
  ASSUME NEW b, NEW c, NEW to \in Nat, NEW at \in 0..to, Holds(b, to), Inserted(b, c, at, to)
  PROVE  /\ Piece(c, 0, at + 1) = Append(Piece(b, 0, at), c[at])
         /\ Piece(c, at + 1, to + 1) = Piece(b, at, to)
         /\ Holds(c, to + 1)
  <1>0. at \in Nat /\ at <= to
    OBVIOUS
  <1>1. Piece(c, at + 1, to + 1) = Piece(b, at, to)
    <2>1. ASSUME NEW i \in 1..to - at PROVE c[at + 1 + i - 1] = b[at + i - 1]
      <3>1. at + i - 1 \in at..to - 1 /\ at + 1 + i - 1 = (at + i - 1) + 1
        BY <1>0
      <3> QED
        BY <3>1 DEF Inserted
    <2>2. (to + 1) - (at + 1) = to - at
      BY <1>0
    <2> QED
      BY <2>1, <2>2 DEF Piece
  <1>2. Holds(c, to + 1)
    <2> SUFFICES ASSUME NEW i \in 0..to PROVE c[i] \in Nat
      BY DEF Holds
    <2>1. CASE i < at
      BY <1>0, <2>1 DEF Inserted, Holds
    <2>2. CASE i = at
      BY <2>2 DEF Inserted
    <2>3. CASE i > at
      <3>1. i - 1 \in at..to - 1 /\ i - 1 \in 0..to - 1 /\ i = (i - 1) + 1
        BY <1>0, <2>3
      <3>2. c[i] = b[i - 1]
        BY <3>1 DEF Inserted
      <3> QED
        BY <3>1, <3>2 DEF Holds
    <2> QED
      BY <1>0, <2>1, <2>2, <2>3
  <1> DEFINE s == Piece(b, 0, at)
  <1> DEFINE u == Piece(c, 0, at + 1)
  <1>3. s \in Seq(Nat) /\ Len(s) = at /\ \A i \in 1..at : s[i] = b[i - 1]
    BY <1>0, FewerHold, FirstPieceIsSeq
  <1>4. u \in Seq(Nat) /\ Len(u) = at + 1 /\ \A i \in 1..at + 1 : u[i] = c[i - 1]
    <2>1. at + 1 \in Nat /\ at + 1 \in 0..to + 1 /\ to + 1 \in Nat
      BY <1>0
    <2> QED
      BY <1>2, <2>1, FewerHold, FirstPieceIsSeq
  <1> HIDE DEF s, u
  <1>5. c[at] \in Nat
    BY DEF Inserted
  <1>6. Append(s, c[at]) \in Seq(Nat) /\ Len(Append(s, c[at])) = at + 1
    BY <1>3, <1>5
  <1>7. ASSUME NEW i \in 1..at + 1 PROVE u[i] = Append(s, c[at])[i]
    <2>1. CASE i = at + 1
      BY <1>0, <1>3, <1>4, <1>5, <2>1
    <2>2. CASE i # at + 1
      <3>1. i \in 1..at /\ i - 1 \in 0..at - 1
        BY <1>0, <2>2
      <3>2. c[i - 1] = b[i - 1]
        BY <3>1 DEF Inserted
      <3>3. Append(s, c[at])[i] = s[i]
        BY <1>3, <1>5, <3>1
      <3> QED
        BY <1>3, <1>4, <3>1, <3>2, <3>3
    <2> QED
      BY <2>1, <2>2
  <1>8. u = Append(s, c[at])
    BY <1>4, <1>6, <1>7, SeqEqual
  <1> QED
    BY <1>1, <1>2, <1>8 DEF s, u

Removed(b, c, at, to) ==
  /\ \A i \in 0..at - 1 : c[i] = b[i]
  /\ \A i \in at..to - 2 : c[i] = b[i + 1]

LEMMA PieceRemove ==
  ASSUME NEW b, NEW c, NEW to \in Nat, NEW at \in 0..to - 1, Holds(b, to), Removed(b, c, at, to)
  PROVE  /\ Piece(c, 0, at) = Piece(b, 0, at)
         /\ Piece(c, at, to - 1) = Piece(b, at + 1, to)
         /\ Holds(c, to - 1)
  <1>0. at \in Nat /\ at < to /\ at + 1 \in 0..to
    OBVIOUS
  <1>1. Piece(c, at, to - 1) = Piece(b, at + 1, to)
    <2>1. ASSUME NEW i \in 1..to - (at + 1) PROVE c[at + i - 1] = b[at + 1 + i - 1]
      <3>1. at + i - 1 \in at..to - 2 /\ at + 1 + i - 1 = (at + i - 1) + 1
        BY <1>0
      <3> QED
        BY <3>1 DEF Removed
    <2>2. (to - 1) - at = to - (at + 1)
      BY <1>0
    <2> QED
      BY <2>1, <2>2 DEF Piece
  <1>2. Holds(c, to - 1)
    <2> SUFFICES ASSUME NEW i \in 0..to - 2 PROVE c[i] \in Nat
      BY DEF Holds
    <2>1. CASE i < at
      BY <1>0, <2>1 DEF Removed, Holds
    <2>2. CASE i >= at
      <3>1. i \in at..to - 2 /\ i + 1 \in 0..to - 1
        BY <1>0, <2>2
      <3> QED
        BY <3>1 DEF Removed, Holds
    <2> QED
      BY <1>0, <2>1, <2>2
  <1>3. Piece(c, 0, at) = Piece(b, 0, at)
    <2>1. ASSUME NEW i \in 1..at PROVE c[0 + i - 1] = b[0 + i - 1]
      <3>1. 0 + i - 1 \in 0..at - 1
        BY <1>0
      <3> QED
        BY <3>1 DEF Removed
    <2>2. at - 0 = at
      BY <1>0
    <2> QED
      BY <2>1, <2>2 DEF Piece
  <1> QED
    BY <1>1, <1>2, <1>3

\* Without its first character, and without its last one.
LEMMA PieceTail ==
  ASSUME NEW b, NEW to \in Nat, NEW from \in 0..to - 1, Holds(b, to)
  PROVE  Piece(b, from, to) # <<>> /\ Piece(b, from + 1, to) = Tail(Piece(b, from, to))
  <1>0. from \in Nat /\ from \in 0..to /\ from + 1 \in 0..to
    OBVIOUS
  <1> DEFINE s == Piece(b, from, to)
  <1> DEFINE u == Piece(b, from + 1, to)
  <1>1. s \in Seq(Nat) /\ Len(s) = to - from /\ \A i \in 1..to - from : s[i] = b[from + i - 1]
    BY <1>0, PieceIsSeq
  <1>2. /\ u \in Seq(Nat) /\ Len(u) = to - (from + 1)
        /\ \A i \in 1..to - (from + 1) : u[i] = b[(from + 1) + i - 1]
    BY <1>0, PieceIsSeq
  <1> HIDE DEF s, u
  <1>3. s # <<>>
    BY <1>0, <1>1
  <1>4. /\ Tail(s) \in Seq(Nat) /\ Len(Tail(s)) = Len(s) - 1
        /\ \A i \in 1..Len(Tail(s)) : Tail(s)[i] = s[i + 1]
    BY <1>1, <1>3, HeadTailProperties
  <1>5. Len(u) = Len(Tail(s)) /\ Len(u) = to - (from + 1)
    BY <1>0, <1>1, <1>2, <1>4
  <1>6. ASSUME NEW i \in 1..Len(u) PROVE u[i] = Tail(s)[i]
    <2>1. i \in 1..to - (from + 1) /\ i + 1 \in 1..to - from /\ from + (i + 1) - 1 = (from + 1) + i - 1
      BY <1>0, <1>5
    <2>2. u[i] = b[(from + 1) + i - 1]
      BY <1>2, <2>1
    <2>3. s[i + 1] = b[(from + 1) + i - 1]
      BY <1>1, <2>1
    <2> QED
      BY <1>4, <1>5, <2>2, <2>3
  <1>7. u = Tail(s)
    BY <1>2, <1>4, <1>5, <1>6, SeqEqual
  <1> QED
    BY <1>3, <1>7 DEF s, u

LEMMA PieceFront ==
  ASSUME NEW b, NEW at \in Nat \ {0}, Holds(b, at)
  PROVE  /\ Piece(b, 0, at) # <<>> /\ Len(Piece(b, 0, at)) = at
         /\ Piece(b, 0, at - 1) = SubSeq(Piece(b, 0, at), 1, at - 1)
  <1> DEFINE s == Piece(b, 0, at)
  <1> DEFINE u == Piece(b, 0, at - 1)
  <1>0. at \in Nat /\ at - 1 \in Nat /\ at - 1 \in 0..at
    OBVIOUS
  <1>1. s \in Seq(Nat) /\ Len(s) = at /\ \A i \in 1..at : s[i] = b[i - 1]
    BY FirstPieceIsSeq
  <1>2. u \in Seq(Nat) /\ Len(u) = at - 1 /\ \A i \in 1..at - 1 : u[i] = b[i - 1]
    BY <1>0, FewerHold, FirstPieceIsSeq
  <1> HIDE DEF s, u
  <1>3. /\ SubSeq(s, 1, at - 1) \in Seq(Nat) /\ Len(SubSeq(s, 1, at - 1)) = at - 1
        /\ \A i \in 1..at - 1 : SubSeq(s, 1, at - 1)[i] = s[i]
    BY <1>0, <1>1
  <1>4. ASSUME NEW i \in 1..Len(u) PROVE u[i] = SubSeq(s, 1, at - 1)[i]
    <2>1. i \in 1..at - 1 /\ i \in 1..at
      BY <1>0, <1>2
    <2> QED
      BY <1>1, <1>2, <1>3, <2>1
  <1>5. u = SubSeq(s, 1, at - 1)
    BY <1>2, <1>3, <1>4, SeqEqual
  <1>6. s # <<>>
    BY <1>1
  <1> QED
    BY <1>1, <1>5, <1>6 DEF s, u


-----------------------------------------------------------------------------
(* mconf: the box                                                          *)

\* A text that ends in the buffer, and what a box shows of it.
Text(b, n) ==
  /\ b \in [0..MaxLen -> Nat] /\ n \in 0..MaxLen
  /\ b[n] = Nul /\ \A i \in 0..n - 1 : b[i] # Nul

Shown(b, from, n, width) ==
  [x \in 0..width - 1 |-> IF from + x < n THEN b[from + x] ELSE Nul]

InputInv ==
  /\ Text(instr, len) /\ pos \in 0..len
  /\ ipc = "open" =>
       /\ iWidth \in Nat \ {0} /\ show_x \in Nat /\ input_x \in 0..iWidth - 1
       /\ pos = show_x + input_x
       /\ cells = Shown(instr, show_x, len, iWidth)

LEMMA TextHolds ==
  ASSUME NEW b, NEW n, Text(b, n)
  PROVE  n \in Nat /\ n <= MaxLen /\ Holds(b, n) /\ \A m \in 0..n : Holds(b, m)
  BY InputConstants DEF Text, Holds

LEMMA RedrawnCells ==
  ASSUME NEW text, NEW n, Text(text, n), NEW from \in 0..n, Redraw(text, from)
  PROVE  cells' = [x \in DOMAIN cells |-> IF from + x <= n THEN text[from + x] ELSE cells[x]]
  <1> DEFINE end == CHOOSE e \in from..MaxLen : text[e] = Nul /\ \A i \in from..e - 1 : text[i] # Nul
  <1>0. n \in Nat /\ n <= MaxLen /\ MaxLen \in Nat
    BY TextHolds, InputConstants
  <1>1. n \in from..MaxLen /\ text[n] = Nul /\ \A i \in from..n - 1 : text[i] # Nul
    BY <1>0 DEF Text
  <1>2. end \in from..MaxLen /\ text[end] = Nul /\ \A i \in from..end - 1 : text[i] # Nul
    BY <1>1
  <1> HIDE DEF end
  <1>3. end = n
    BY <1>0, <1>1, <1>2
  <1> QED
    BY <1>3 DEF Redraw, end

\* The two parts of a box, where the text ends and where the window does.
LEMMA BehindText ==
  ASSUME NEW from \in Nat, NEW n \in Nat, NEW next \in Nat, NEW m \in Nat, NEW x \in Nat,
         next + n <= from + m + 1, next + x > m
  PROVE  ~(from + x < n) /\ ~(next + x <= m) /\ ~(next + x < m)
  OBVIOUS

LEMMA InText ==
  ASSUME NEW next \in Nat, NEW m \in Nat, NEW x \in Nat, next + x < m
  PROVE  next + x <= m
  OBVIOUS

LEMMA SeenPart ==
  ASSUME NEW from \in Nat, NEW x \in Nat, NEW cursor \in Nat
  PROVE  x < cursor <=> from + x < from + cursor
  OBVIOUS

LEMMA UpToItself ==
  ASSUME NEW n \in Nat
  PROVE  n \in 0..n /\ n - n = 0 /\ n <= n /\ ~(n < n)
  OBVIOUS

LEMMA Ordered ==
  ASSUME NEW m \in Nat, NEW n \in Nat
  PROVE  (m < n \/ m = n \/ m > n) /\ m + n \in Nat
  OBVIOUS

\* A key that draws the text anew shows it, if what it leaves of the box is not text.
LEMMA BoxShows ==
  ASSUME InputInv, ipc = "open", Text(instr', len'), show_x' \in 0..len', iWidth' = iWidth,
         show_x' + len <= show_x + len' + 1, Redraw(instr', show_x')
  PROVE  cells' = Shown(instr', show_x', len', iWidth')
  <1>1. cells' = [x \in DOMAIN cells |->
                    IF show_x' + x <= len' THEN instr'[show_x' + x] ELSE cells[x]]
    BY RedrawnCells
  <1>2. cells = Shown(instr, show_x, len, iWidth)
    BY DEF InputInv
  <1>3. len \in Nat /\ show_x \in Nat /\ iWidth \in Nat \ {0} /\ len' \in Nat /\ show_x' \in Nat
    BY TextHolds DEF InputInv
  <1>4. instr'[len'] = Nul
    BY DEF Text
  <1>5. ASSUME NEW x \in 0..iWidth - 1
        PROVE  cells'[x] = IF show_x' + x < len' THEN instr'[show_x' + x] ELSE Nul
    <2>0. x \in Nat /\ x \in DOMAIN cells
      BY <1>2, <1>3 DEF Shown
    <2>1. cells'[x] = IF show_x' + x <= len' THEN instr'[show_x' + x] ELSE cells[x]
      BY <1>1, <2>0
    <2>2. CASE show_x' + x < len'
      <3>1. show_x' + x <= len'
        BY <1>3, <2>0, <2>2, InText
      <3> QED
        BY <2>1, <2>2, <3>1
    <2>3. CASE show_x' + x = len'
      <3>1. show_x' + x <= len' /\ ~(show_x' + x < len')
        BY <1>3, <2>3, UpToItself
      <3> QED
        BY <1>4, <2>1, <2>3, <3>1
    <2>4. CASE show_x' + x > len'
      <3>1. ~(show_x + x < len) /\ ~(show_x' + x <= len') /\ ~(show_x' + x < len')
        BY <1>3, <2>0, <2>4, BehindText
      <3>2. cells[x] = Nul
        BY <1>2, <3>1 DEF Shown
      <3> QED
        BY <2>1, <3>1, <3>2
    <2>5. show_x' + x \in Nat
      BY <1>3, <2>0, Ordered
    <2> QED
      BY <1>3, <2>2, <2>3, <2>4, <2>5, Ordered
  <1>6. DOMAIN cells = 0..iWidth - 1
    BY <1>2 DEF Shown
  <1> QED
    BY <1>1, <1>5, <1>6 DEF Shown

\* The box when it is drawn from nothing.
LEMMA BoxDrawn ==
  ASSUME NEW n, NEW width \in Nat \ {0}, Text(instr', n), DrawInput(instr', n, width)
  PROVE  InputInv' /\ pos' = len' /\ len' = n
  <1>1. width \in Nat \ {0} /\ n \in Nat
    BY TextHolds
  <1>2. /\ len' = n /\ pos' = n /\ iWidth' = width
        /\ show_x' \in Nat /\ input_x' \in 0..width - 1 /\ n = show_x' + input_x'
    BY <1>1 DEF DrawInput
  <1>3. cells' = [x \in 0..width - 1 |-> IF x < input_x' THEN instr'[show_x' + x] ELSE Nul]
    BY DEF DrawInput
  <1>4. ASSUME NEW x \in 0..width - 1 PROVE x < input_x' <=> show_x' + x < n
    <2>1. x \in Nat /\ input_x' \in Nat
      BY <1>1, <1>2
    <2> QED
      BY <1>2, <2>1, SeenPart
  <1>5. cells' = Shown(instr', show_x', len', iWidth')
    BY <1>2, <1>3, <1>4 DEF Shown
  <1>6. n \in 0..n
    BY <1>1, UpToItself
  <1> QED
    BY <1>1, <1>2, <1>5, <1>6 DEF InputInv

\* The sequences on both sides of the cursor.
LEMMA Sides ==
  ASSUME InputInv
  PROVE  /\ Part(0, pos) = Piece(instr, 0, pos) /\ Part(pos, len - pos) = Piece(instr, pos, len)
         /\ Part(0, pos) \o Part(pos, len - pos) = Piece(instr, 0, len)
         /\ Len(Part(0, pos)) = pos /\ Len(Piece(instr, 0, len)) = len
  <1>1. len \in Nat /\ pos \in 0..len /\ pos \in Nat /\ Holds(instr, len) /\ Holds(instr, pos)
    BY TextHolds DEF InputInv
  <1>2. Part(0, pos) = Piece(instr, 0, pos) /\ Part(pos, len - pos) = Piece(instr, pos, len)
    BY <1>1 DEF Part, Piece
  <1> QED
    BY <1>1, <1>2, PiecesJoin, FirstPieceIsSeq

LEMMA SidesNext ==
  ASSUME InputInv'
  PROVE  /\ Part(0, pos)' = Piece(instr', 0, pos') /\ Part(pos, len - pos)' = Piece(instr', pos', len')
         /\ Part(0, pos)' \o Part(pos, len - pos)' = Piece(instr', 0, len')
         /\ Len(Part(0, pos)') = pos' /\ Len(Piece(instr', 0, len')) = len'
  <1>1. len' \in Nat /\ pos' \in 0..len' /\ pos' \in Nat /\ Holds(instr', len') /\ Holds(instr', pos')
    BY TextHolds DEF InputInv
  <1>2. Part(0, pos)' = Piece(instr', 0, pos') /\ Part(pos, len - pos)' = Piece(instr', pos', len')
    BY <1>1 DEF Part, Piece
  <1> QED
    BY <1>1, <1>2, PiecesJoin, FirstPieceIsSeq


-----------------------------------------------------------------------------
(* The keys of the box: what each does to the text, and to the window.     *)

Shorter(b, at, n) ==
  [i \in 0..MaxLen |->
     IF i = n - 1 THEN Nul
     ELSE IF at < n /\ i \in at - 1..n - 1 THEN b[i + 1] ELSE b[i]]

LEMMA TextShorter ==
  ASSUME NEW b, NEW n, NEW at \in 1..n, Text(b, n)
  PROVE  /\ Text(Shorter(b, at, n), n - 1)
         /\ Piece(Shorter(b, at, n), 0, at - 1) = Piece(b, 0, at - 1)
         /\ Piece(Shorter(b, at, n), at - 1, n - 1) = Piece(b, at, n)
  <1> DEFINE c == Shorter(b, at, n)
  <1>0. c = [i \in 0..MaxLen |->
               IF i = n - 1 THEN Nul
               ELSE IF at < n /\ i \in at - 1..n - 1 THEN b[i + 1] ELSE b[i]]
    BY DEF Shorter
  <1> HIDE DEF c
  <1>1. n \in Nat /\ n <= MaxLen /\ MaxLen \in Nat /\ at \in Nat /\ at >= 1 /\ at <= n
    BY TextHolds, InputConstants
  <1>2. b \in [0..MaxLen -> Nat] /\ \A i \in 0..n - 1 : b[i] # Nul
    BY DEF Text
  <1>3. ASSUME NEW i \in 0..MaxLen PROVE c[i] \in Nat
    <2>1. Nul \in Nat /\ b[i] \in Nat
      BY <1>2 DEF Nul
    <2>2. CASE i \in at - 1..n - 2
      <3>1. i + 1 \in 0..MaxLen
        BY <1>1, <2>2
      <3> QED
        BY <1>0, <1>2, <2>1, <3>1
    <2>3. CASE i \notin at - 1..n - 2
      <3>1. i = n - 1 \/ ~(i \in at - 1..n - 1)
        BY <1>1, <2>3
      <3> QED
        BY <1>0, <2>1, <3>1
    <2> QED
      BY <2>2, <2>3
  <1>4. n - 1 \in 0..MaxLen /\ c[n - 1] = Nul
    BY <1>0, <1>1
  <1>5. ASSUME NEW i \in 0..at - 1 - 1 PROVE c[i] = b[i]
    <2>1. i \in 0..MaxLen /\ i # n - 1 /\ ~(i \in at - 1..n - 1)
      BY <1>1
    <2> QED
      BY <1>0, <2>1
  <1>6. ASSUME NEW i \in at - 1..n - 2 PROVE c[i] = b[i + 1]
    <2>1. i \in 0..MaxLen /\ i # n - 1 /\ at < n /\ i \in at - 1..n - 1
      BY <1>1
    <2> QED
      BY <1>0, <2>1
  <1>7. ASSUME NEW i \in 0..n - 1 - 1 PROVE c[i] # Nul
    <2>1. CASE i < at - 1
      <3>1. i \in 0..at - 1 - 1 /\ i \in 0..n - 1
        BY <1>1, <2>1
      <3> QED
        BY <1>2, <1>5, <3>1
    <2>2. CASE i >= at - 1
      <3>1. i \in at - 1..n - 2 /\ i + 1 \in 0..n - 1
        BY <1>1, <2>2
      <3> QED
        BY <1>2, <1>6, <3>1
    <2> QED
      BY <1>1, <2>1, <2>2
  <1>8. c \in [0..MaxLen -> Nat]
    BY <1>0, <1>3
  <1>9. Text(c, n - 1)
    BY <1>4, <1>7, <1>8 DEF Text
  <1>10. Removed(b, c, at - 1, n)
    BY <1>5, <1>6 DEF Removed
  <1> DEFINE before == at - 1
  <1>11. n \in Nat /\ before \in 0..n - 1 /\ before + 1 = at /\ Holds(b, n) /\ Removed(b, c, before, n)
    BY <1>1, <1>10, TextHolds
  <1> HIDE DEF before
  <1>12. Piece(c, 0, before) = Piece(b, 0, before) /\ Piece(c, before, n - 1) = Piece(b, before + 1, n)
    BY <1>11, PieceRemove
  <1>13. Piece(c, 0, before) = Piece(b, 0, before) /\ Piece(c, before, n - 1) = Piece(b, at, n)
    BY <1>11, <1>12
  <1> QED
    BY <1>9, <1>13 DEF before, c

Longer(b, at, n, char) ==
  [i \in 0..MaxLen |->
     IF i = n + 1 THEN Nul
     ELSE IF i = at THEN char
     ELSE IF i > at /\ i <= n THEN b[i - 1] ELSE b[i]]

LEMMA TextLonger ==
  ASSUME NEW b, NEW n, NEW at \in 0..n, NEW char \in Chars, Text(b, n), n < MaxLen
  PROVE  /\ Text(Longer(b, at, n, char), n + 1) /\ Inserted(b, Longer(b, at, n, char), at, n)
         /\ Longer(b, at, n, char)[at] = char
  <1> DEFINE c == Longer(b, at, n, char)
  <1>0. c = [i \in 0..MaxLen |->
               IF i = n + 1 THEN Nul
               ELSE IF i = at THEN char
               ELSE IF i > at /\ i <= n THEN b[i - 1] ELSE b[i]]
    BY DEF Longer
  <1> HIDE DEF c
  <1>1. n \in Nat /\ n < MaxLen /\ MaxLen \in Nat /\ at \in Nat /\ at <= n
    BY TextHolds, InputConstants
  <1>2. b \in [0..MaxLen -> Nat] /\ \A i \in 0..n - 1 : b[i] # Nul
    BY DEF Text
  <1>2a. char \in Nat /\ char # Nul /\ Nul \in Nat
    BY InputConstants DEF Nul
  <1>3. ASSUME NEW i \in 0..MaxLen PROVE c[i] \in Nat
    <2>1. b[i] \in Nat
      BY <1>2
    <2>2. CASE i > at /\ i <= n
      <3>1. i - 1 \in 0..MaxLen
        BY <1>1, <2>2
      <3> QED
        BY <1>0, <1>2, <1>2a, <3>1
    <2>3. CASE ~(i > at /\ i <= n)
      BY <1>0, <1>2a, <2>1, <2>3
    <2> QED
      BY <2>2, <2>3
  <1>4. n + 1 \in 0..MaxLen /\ c[n + 1] = Nul
    BY <1>0, <1>1
  <1>5. ASSUME NEW i \in 0..at - 1 PROVE c[i] = b[i]
    <2>1. i \in 0..MaxLen /\ i # n + 1 /\ i # at /\ ~(i > at)
      BY <1>1
    <2> QED
      BY <1>0, <2>1
  <1>6. ASSUME NEW i \in at..n - 1 PROVE c[i + 1] = b[i]
    <2>1. /\ i + 1 \in 0..MaxLen /\ i + 1 # n + 1 /\ i + 1 # at /\ i + 1 > at /\ i + 1 <= n
          /\ (i + 1) - 1 = i
      BY <1>1
    <2> QED
      BY <1>0, <2>1
  <1>7. c[at] = char
    <2>1. at \in 0..MaxLen /\ at # n + 1
      BY <1>1
    <2> QED
      BY <1>0, <2>1
  <1>8. ASSUME NEW i \in 0..n + 1 - 1 PROVE c[i] # Nul
    <2>1. CASE i < at
      <3>1. i \in 0..at - 1 /\ i \in 0..n - 1
        BY <1>1, <2>1
      <3> QED
        BY <1>2, <1>5, <3>1
    <2>2. CASE i = at
      BY <1>2a, <1>7, <2>2
    <2>3. CASE i > at
      <3>1. i - 1 \in at..n - 1 /\ i - 1 \in 0..n - 1 /\ (i - 1) + 1 = i
        BY <1>1, <2>3
      <3>2. c[i] = b[i - 1]
        BY <1>6, <3>1
      <3> QED
        BY <1>2, <3>1, <3>2
    <2> QED
      BY <1>1, <2>1, <2>2, <2>3
  <1>9. c \in [0..MaxLen -> Nat]
    BY <1>0, <1>3
  <1>10. Text(c, n + 1)
    BY <1>4, <1>8, <1>9 DEF Text
  <1>11. Inserted(b, c, at, n)
    BY <1>2a, <1>5, <1>6, <1>7 DEF Inserted
  <1> QED
    BY <1>7, <1>10, <1>11 DEF c

LEMMA TextStarts ==
  ASSUME NEW b \in [0..MaxLen -> Nat], NEW n \in 0..MaxLen, NEW given \in [0..n - 1 -> Chars], NEW c,
         c = [i \in 0..MaxLen |-> IF i < n THEN given[i] ELSE IF i = n THEN Nul ELSE b[i]]
  PROVE  Text(c, n)
  <1>1. n \in Nat /\ MaxLen \in Nat /\ n <= MaxLen
    BY InputConstants
  <1>2. ASSUME NEW i \in 0..n - 1 PROVE i \in 0..MaxLen /\ c[i] \in Nat /\ c[i] # Nul
    <2>1. i \in 0..MaxLen /\ i < n
      BY <1>1
    <2>2. given[i] \in Nat /\ given[i] # Nul
      BY InputConstants DEF Nul
    <2> QED
      BY <2>1, <2>2
  <1>3. c[n] = Nul
    BY <1>1
  <1>4. ASSUME NEW i \in 0..MaxLen PROVE c[i] \in Nat
    <2>1. CASE i < n
      <3>1. i \in 0..n - 1
        BY <1>1, <2>1
      <3> QED
        BY <1>2, <3>1
    <2>2. CASE ~(i < n)
      BY <2>2 DEF Nul
    <2> QED
      BY <2>1, <2>2
  <1>5. c \in [0..MaxLen -> Nat]
    BY <1>4
  <1> QED
    BY <1>2, <1>3, <1>5 DEF Text

\* Where the window is after a key that takes the cursor back, or on, by one.
LEMMA CursorBack ==
  ASSUME NEW width \in Nat \ {0}, NEW x \in 0..width - 1, NEW from \in Nat, NEW p \in Nat,
         NEW n \in Nat, p = from + x, p > 0, p <= n
  PROVE  /\ x = 0 => from - 1 \in 0..n - 1 /\ p - 1 = (from - 1) + 0 /\ 0 \in 0..width - 1
         /\ x # 0 => from \in 0..n - 1 /\ p - 1 = from + (x - 1) /\ x - 1 \in 0..width - 1
         /\ p - 1 \in 0..n - 1 /\ p - 1 \in 0..n /\ n - 1 \in Nat
         /\ 0..n - 1 \subseteq 0..n
         /\ from - 1 + n <= from + (n - 1) + 1 /\ from + n <= from + (n - 1) + 1
         /\ from - 1 + n <= from + n + 1
  OBVIOUS

LEMMA CursorOn ==
  ASSUME NEW width \in Nat \ {0}, NEW x \in 0..width - 1, NEW from \in Nat, NEW p \in Nat,
         NEW n \in Nat, p = from + x, p <= n
  PROVE  /\ p + 1 = (from + 1) + x /\ p + 1 = from + (x + 1)
         /\ x # width - 1 => x + 1 \in 0..width - 1 /\ x < width - 1
         /\ x = width - 1 => ~(x < width - 1)
         /\ from \in 0..n + 1 /\ from + 1 \in 0..n + 1 /\ p + 1 \in 0..n + 1 /\ n + 1 \in Nat
         /\ p < n => from + 1 \in 0..n /\ p + 1 \in 0..n
         /\ from + 1 + n <= from + n + 1 /\ from + 1 + n <= from + (n + 1) + 1
         /\ from + n <= from + (n + 1) + 1
  OBVIOUS

LEMMA KeyBackspace ==
  ASSUME InputInv, BoxKey, InputBackspace
  PROVE  InputInv' /\ Editor!Edit
  <1>1. /\ ipc = "open" /\ ipc' = "open" /\ iWidth' = iWidth /\ pos > 0
        /\ pos' = pos - 1 /\ len' = len - 1 /\ Redraw(instr', show_x')
    BY DEF BoxKey, InputBackspace
  <1>2. /\ Text(instr, len) /\ pos \in 0..len /\ iWidth \in Nat \ {0} /\ show_x \in Nat
        /\ input_x \in 0..iWidth - 1 /\ pos = show_x + input_x
    BY <1>1 DEF InputInv
  <1>3. len \in Nat /\ Holds(instr, len) /\ Holds(instr, pos)
    BY <1>2, TextHolds
  <1>4. pos \in Nat /\ pos \in Nat \ {0} /\ pos \in 1..len /\ pos <= len /\ pos - 1 \in 0..len - 1
    BY <1>1, <1>2, <1>3
  <1>5. /\ Text(instr', len - 1)
        /\ Piece(instr', 0, pos - 1) = Piece(instr, 0, pos - 1)
        /\ Piece(instr', pos - 1, len - 1) = Piece(instr, pos, len)
    <2>1. instr' = Shorter(instr, pos, len)
      BY DEF InputBackspace, Shorter
    <2> QED
      BY <1>2, <1>4, <2>1, TextShorter
  <1>6. /\ show_x' \in 0..len - 1 /\ input_x' \in 0..iWidth - 1 /\ pos - 1 = show_x' + input_x'
        /\ show_x' + len <= show_x + (len - 1) + 1
    <2>1. CASE input_x = 0
      <3>1. show_x' = show_x - 1 /\ input_x' = 0
        BY <2>1 DEF InputBackspace
      <3> QED
        BY <1>1, <1>2, <1>3, <1>4, <2>1, <3>1, CursorBack
    <2>2. CASE input_x # 0
      <3>1. show_x' = show_x /\ input_x' = input_x - 1
        BY <2>2 DEF InputBackspace
      <3> QED
        BY <1>1, <1>2, <1>3, <1>4, <2>2, <3>1, CursorBack
    <2> QED
      BY <2>1, <2>2
  <1>7. cells' = Shown(instr', show_x', len', iWidth')
    BY <1>1, <1>5, <1>6, BoxShows
  <1>8. InputInv'
    <2>1. show_x' \in Nat
      BY <1>6
    <2> QED
      BY <1>1, <1>2, <1>4, <1>5, <1>6, <1>7, <2>1 DEF InputInv
  <1>9. Part(0, pos) # <<>> /\ Part(0, pos)' = SubSeq(Part(0, pos), 1, Len(Part(0, pos)) - 1)
    <2>1. /\ Piece(instr, 0, pos) # <<>> /\ Len(Piece(instr, 0, pos)) = pos
          /\ Piece(instr, 0, pos - 1) = SubSeq(Piece(instr, 0, pos), 1, pos - 1)
      BY <1>3, <1>4, PieceFront
    <2> QED
      BY <1>1, <1>5, <1>8, <2>1, Sides, SidesNext
  <1>10. Part(pos, len - pos)' = Part(pos, len - pos)
    BY <1>1, <1>5, <1>8, Sides, SidesNext
  <1> QED
    BY <1>1, <1>8, <1>9, <1>10 DEF Editor!Edit, Editor!Backspace

LEMMA KeyLeft ==
  ASSUME InputInv, BoxKey, InputLeft
  PROVE  InputInv' /\ Editor!Edit
  <1>1. /\ ipc = "open" /\ ipc' = "open" /\ iWidth' = iWidth /\ pos > 0
        /\ pos' = pos - 1 /\ len' = len /\ instr' = instr
    BY DEF BoxKey, InputLeft
  <1>2. /\ Text(instr, len) /\ pos \in 0..len /\ iWidth \in Nat \ {0} /\ show_x \in Nat
        /\ input_x \in 0..iWidth - 1 /\ pos = show_x + input_x
        /\ cells = Shown(instr, show_x, len, iWidth)
    BY <1>1 DEF InputInv
  <1>3. len \in Nat
    BY <1>2, TextHolds
  <1>4. pos \in Nat /\ pos <= len /\ (pos - 1) - pos = -1
    BY <1>2, <1>3
  <1>5. InputInv'
    <2>1. CASE input_x > 0
      <3>1. show_x' = show_x /\ cells' = cells /\ input_x' = input_x - 1 /\ input_x # 0
        BY <1>2, <2>1 DEF InputLeft
      <3>2. pos - 1 \in 0..len /\ input_x - 1 \in 0..iWidth - 1 /\ pos - 1 = show_x + (input_x - 1)
        BY <1>1, <1>2, <1>3, <1>4, <3>1, CursorBack
      <3> QED
        BY <1>1, <1>2, <3>1, <3>2 DEF InputInv
    <2>2. CASE ~(input_x > 0)
      <3>1. show_x' = show_x - 1 /\ Redraw(instr', show_x') /\ input_x' = input_x
        BY <1>1, <2>2 DEF InputLeft
      <3>2. input_x = 0
        BY <1>2, <2>2
      <3>3. /\ pos - 1 \in 0..len /\ show_x - 1 \in 0..len - 1 /\ 0..len - 1 \subseteq 0..len
            /\ pos - 1 = (show_x - 1) + 0 /\ show_x - 1 + len <= show_x + len + 1
        BY <1>1, <1>2, <1>3, <1>4, <3>2, CursorBack
      <3>4. show_x' \in 0..len' /\ show_x' + len <= show_x + len' + 1
        BY <1>1, <3>1, <3>3
      <3>5. cells' = Shown(instr', show_x', len', iWidth')
        BY <1>1, <1>2, <3>1, <3>4, BoxShows
      <3>6. show_x' \in Nat
        BY <3>4
      <3> QED
        BY <1>1, <1>2, <3>1, <3>2, <3>3, <3>5, <3>6 DEF InputInv
    <2> QED
      BY <2>1, <2>2
  <1>6. /\ Part(0, pos)' \o Part(pos, len - pos)' = Part(0, pos) \o Part(pos, len - pos)
        /\ Len(Part(0, pos)') - Len(Part(0, pos)) = -1
    BY <1>1, <1>4, <1>5, Sides, SidesNext
  <1> QED
    BY <1>1, <1>5, <1>6 DEF Editor!Edit, Editor!Move, Editor!Line

LEMMA KeyRight ==
  ASSUME InputInv, BoxKey, InputRight
  PROVE  InputInv' /\ Editor!Edit
  <1>1. /\ ipc = "open" /\ ipc' = "open" /\ iWidth' = iWidth /\ pos < len
        /\ pos' = pos + 1 /\ len' = len /\ instr' = instr
    BY DEF BoxKey, InputRight
  <1>2. /\ Text(instr, len) /\ pos \in 0..len /\ iWidth \in Nat \ {0} /\ show_x \in Nat
        /\ input_x \in 0..iWidth - 1 /\ pos = show_x + input_x
        /\ cells = Shown(instr, show_x, len, iWidth)
    BY <1>1 DEF InputInv
  <1>3. len \in Nat
    BY <1>2, TextHolds
  <1>4. pos \in Nat /\ pos <= len /\ (pos + 1) - pos = 1
    BY <1>2, <1>3
  <1>5. InputInv'
    <2>1. CASE input_x # iWidth - 1
      <3>1. /\ pos + 1 \in 0..len /\ input_x + 1 \in 0..iWidth - 1
            /\ pos + 1 = show_x + (input_x + 1) /\ input_x < iWidth - 1
        BY <1>1, <1>2, <1>3, <1>4, <2>1, CursorOn
      <3>2. show_x' = show_x /\ cells' = cells /\ input_x' = input_x + 1
        BY <3>1 DEF InputRight
      <3> QED
        BY <1>1, <1>2, <3>1, <3>2 DEF InputInv
    <2>2. CASE input_x = iWidth - 1
      <3>1. /\ pos + 1 \in 0..len /\ show_x + 1 \in 0..len /\ pos + 1 = (show_x + 1) + input_x
            /\ show_x + 1 + len <= show_x + len + 1 /\ ~(input_x < iWidth - 1)
        BY <1>1, <1>2, <1>3, <1>4, <2>2, CursorOn
      <3>2. show_x' = show_x + 1 /\ Redraw(instr', show_x') /\ input_x' = input_x
        BY <1>1, <3>1 DEF InputRight
      <3>4. show_x' \in 0..len' /\ show_x' + len <= show_x + len' + 1
        BY <1>1, <3>1, <3>2
      <3>5. cells' = Shown(instr', show_x', len', iWidth')
        BY <1>1, <1>2, <3>2, <3>4, BoxShows
      <3>6. show_x' \in Nat
        BY <3>4
      <3> QED
        BY <1>1, <1>2, <3>1, <3>2, <3>5, <3>6 DEF InputInv
    <2> QED
      BY <2>1, <2>2
  <1>6. /\ Part(0, pos)' \o Part(pos, len - pos)' = Part(0, pos) \o Part(pos, len - pos)
        /\ Len(Part(0, pos)') - Len(Part(0, pos)) = 1
    BY <1>1, <1>4, <1>5, Sides, SidesNext
  <1> QED
    BY <1>1, <1>5, <1>6 DEF Editor!Edit, Editor!Move, Editor!Line

LEMMA KeyInsert ==
  ASSUME InputInv, BoxKey, InputInsert
  PROVE  InputInv' /\ Editor!Edit
  <1>1. /\ ipc = "open" /\ ipc' = "open" /\ iWidth' = iWidth /\ len < MaxLen
        /\ pos' = pos + 1 /\ len' = len + 1 /\ Redraw(instr', show_x')
    BY DEF BoxKey, InputInsert
  <1>2. /\ Text(instr, len) /\ pos \in 0..len /\ iWidth \in Nat \ {0} /\ show_x \in Nat
        /\ input_x \in 0..iWidth - 1 /\ pos = show_x + input_x
    BY <1>1 DEF InputInv
  <1>3. len \in Nat /\ Holds(instr, len)
    BY <1>2, TextHolds
  <1>4. pos \in Nat /\ pos <= len
    BY <1>2, <1>3
  <1>5. PICK char \in Chars : instr' = Longer(instr, pos, len, char)
    BY DEF InputInsert, Longer
  <1>6. Text(instr', len + 1) /\ Inserted(instr, instr', pos, len) /\ instr'[pos] = char
    BY <1>1, <1>2, <1>5, TextLonger
  <1>7. /\ show_x' \in 0..len + 1 /\ input_x' \in 0..iWidth - 1 /\ pos + 1 = show_x' + input_x'
        /\ show_x' + len <= show_x + (len + 1) + 1
    <2>1. CASE input_x = iWidth - 1
      <3>1. show_x' = show_x + 1 /\ input_x' = input_x
        BY <2>1 DEF InputInsert
      <3> QED
        BY <1>2, <1>3, <1>4, <2>1, <3>1, CursorOn
    <2>2. CASE input_x # iWidth - 1
      <3>1. show_x' = show_x /\ input_x' = input_x + 1
        BY <2>2 DEF InputInsert
      <3> QED
        BY <1>2, <1>3, <1>4, <2>2, <3>1, CursorOn
    <2> QED
      BY <2>1, <2>2
  <1>8. cells' = Shown(instr', show_x', len', iWidth')
    BY <1>1, <1>6, <1>7, BoxShows
  <1>9. InputInv'
    <2>1. show_x' \in Nat
      BY <1>7
    <2>2. pos + 1 \in 0..len + 1
      BY <1>3, <1>4
    <2> QED
      BY <1>1, <1>2, <1>6, <1>7, <1>8, <2>1, <2>2 DEF InputInv
  <1>10. /\ Piece(instr', 0, pos + 1) = Append(Piece(instr, 0, pos), char)
         /\ Piece(instr', pos + 1, len + 1) = Piece(instr, pos, len)
    BY <1>2, <1>3, <1>6, PieceInsert
  <1>11. Part(0, pos)' = Append(Part(0, pos), char) /\ Part(pos, len - pos)' = Part(pos, len - pos)
    BY <1>1, <1>9, <1>10, Sides, SidesNext
  <1>12. Len(Part(0, pos) \o Part(pos, len - pos)) < MaxLen
    BY <1>1, Sides
  <1> QED
    BY <1>1, <1>9, <1>11, <1>12 DEF Editor!Edit, Editor!Insert, Editor!Line

\* The cursor behind the text: nothing is after it.
LEMMA NothingAfter ==
  ASSUME InputInv', pos' = len'
  PROVE  Part(0, pos)' = Piece(instr', 0, len') /\ Part(pos, len - pos)' = <<>>
  <1>1. Part(0, pos)' = Piece(instr', 0, len') /\ Part(pos, len - pos)' = Piece(instr', len', len')
    BY SidesNext
  <1>2. len' \in Nat /\ Holds(instr', len')
    BY TextHolds DEF InputInv
  <1>3. len' \in 0..len' /\ len' - len' = 0
    BY <1>2, UpToItself
  <1>4. Piece(instr', len', len') \in Seq(Nat) /\ Len(Piece(instr', len', len')) = 0
    BY <1>2, <1>3, PieceIsSeq
  <1> QED
    BY <1>1, <1>4, EmptySeq

LEMMA BoxOpens ==
  ASSUME InputInv, OpenInput
  PROVE  InputInv' /\ Editor!Begin
  <1>0. PICK n \in 0..MaxLen, width \in Widths :
          \E given \in [0..n - 1 -> Chars] :
            /\ instr' = [i \in 0..MaxLen |->
                           IF i < n THEN given[i] ELSE IF i = n THEN Nul ELSE instr[i]]
            /\ DrawInput(instr', n, width)
    BY DEF OpenInput
  <1>1. PICK given \in [0..n - 1 -> Chars] :
          /\ instr' = [i \in 0..MaxLen |->
                         IF i < n THEN given[i] ELSE IF i = n THEN Nul ELSE instr[i]]
          /\ DrawInput(instr', n, width)
    BY <1>0
  <1>2. instr \in [0..MaxLen -> Nat]
    BY DEF InputInv, Text
  <1>3. Text(instr', n)
    BY <1>1, <1>2, TextStarts
  <1>4. width \in Nat \ {0}
    BY InputConstants
  <1>5. InputInv' /\ pos' = len' /\ len' = n
    BY <1>1, <1>3, <1>4, BoxDrawn
  <1>6. Part(pos, len - pos)' = <<>> /\ Len(Part(0, pos)') = n
    BY <1>5, NothingAfter, SidesNext
  <1>7. n <= MaxLen
    BY InputConstants
  <1>8. ipc = "closed" /\ ipc' = "open"
    BY DEF OpenInput
  <1> QED
    BY <1>5, <1>6, <1>7, <1>8 DEF Editor!Begin

LEMMA BoxIsResized ==
  ASSUME InputInv, ResizeInput
  PROVE  InputInv' /\ Editor!Edit
  <1>1. ipc = "open" /\ ipc' = "open" /\ instr' = instr /\ DrawInput(instr', len, iWidth)
    BY DEF ResizeInput
  <1>2. Text(instr', len) /\ iWidth \in Nat \ {0}
    BY <1>1 DEF InputInv
  <1>3. InputInv' /\ pos' = len' /\ len' = len
    BY <1>1, <1>2, BoxDrawn
  <1>4. Part(0, pos)' = Part(0, pos) \o Part(pos, len - pos) /\ Part(pos, len - pos)' = <<>>
    BY <1>1, <1>3, NothingAfter, Sides
  <1> QED
    BY <1>1, <1>3, <1>4 DEF Editor!Edit, Editor!End, Editor!Line

LEMMA BoxStays ==
  ASSUME InputInv, UNCHANGED <<instr, len, pos, show_x, input_x, iWidth, cells>>,
         ipc' = "open" => ipc = "open"
  PROVE  InputInv' /\ UNCHANGED <<Part(0, pos), Part(pos, len - pos)>>
  BY DEF InputInv, Part

LEMMA InputStep ==
  ASSUME InputInv, [InputNext]_inputvars
  PROVE  InputInv' /\ [Editor!LineNext]_<<ipc = "open", Part(0, pos), Part(pos, len - pos)>>
  <1>1. CASE OpenInput
    BY <1>1, BoxOpens DEF Editor!LineNext
  <1>7. CASE OverrunInput
    <2>1. /\ ipc = "closed" /\ ipc' = "overrun"
          /\ UNCHANGED <<instr, len, pos, show_x, input_x, iWidth, cells>>
      BY <1>7 DEF OverrunInput
    <2> QED
      BY <2>1, BoxStays
  <1>2. CASE ResizeInput
    BY <1>2, BoxIsResized DEF Editor!LineNext
  <1>3. CASE EditInput
    BY <1>3, KeyBackspace, KeyLeft, KeyRight, KeyInsert DEF EditInput, Editor!LineNext
  <1>4. CASE ButtonKey
    <2>1. UNCHANGED <<ipc, instr, len, pos, show_x, input_x, iWidth, cells>>
      BY <1>4 DEF ButtonKey
    <2> QED
      BY <2>1, BoxStays
  <1>5. CASE CloseInput
    <2>1. ipc = "open" /\ ipc' = "closed" /\ UNCHANGED <<instr, len, pos, show_x, input_x, iWidth, cells>>
      BY <1>5 DEF CloseInput
    <2>2. InputInv' /\ UNCHANGED <<Part(0, pos), Part(pos, len - pos)>>
      BY <2>1, BoxStays
    <2> QED
      BY <2>1, <2>2 DEF Editor!LineNext, Editor!Return
  <1>6. CASE UNCHANGED inputvars
    <2>1. UNCHANGED <<ipc, instr, len, pos, show_x, input_x, iWidth, cells>>
      BY <1>6 DEF inputvars
    <2> QED
      BY <2>1, BoxStays
  <1> QED
    BY <1>1, <1>2, <1>3, <1>4, <1>5, <1>6, <1>7 DEF InputNext

LEMMA InputStarts ==
  ASSUME InputInit
  PROVE  InputInv /\ Editor!LineInit
  <1>1. InputInv
    BY InputConstants DEF InputInit, InputInv, Text, Nul
  <1>2. len = 0 /\ pos = 0 /\ ipc = "closed" /\ Holds(instr, 0)
    BY DEF InputInit, Holds
  <1>3. Piece(instr, 0, 0) \in Seq(Nat) /\ Len(Piece(instr, 0, 0)) = 0
    BY <1>2, FirstPieceIsSeq
  <1>4. Part(0, pos) = <<>> /\ Part(pos, len - pos) = <<>>
    BY <1>1, <1>2, <1>3, Sides, EmptySeq
  <1> QED
    BY <1>1, <1>2, <1>4 DEF Editor!LineInit

\* mconf's input box edits the line that it shows, for every buffer, every text that fits
\* it and every width of the box, and no key takes it over the end of the buffer; nothing
\* is said of what follows once a longer text was copied into it (inputbox.c:56): each key changes the text on the two sides of the cursor as the
\* line editor promises, and after it the box shows the text from show_x on, the cursor
\* in it (dialog_inputbox).
THEOREM InputCorrect == InputSpec => InputIsShown
  <1>1. InputInit => InputInv /\ Editor!LineInit
    BY InputStarts
  <1>2. InputInv /\ [InputNext]_inputvars =>
          InputInv' /\ [Editor!LineNext]_<<ipc = "open", Part(0, pos), Part(pos, len - pos)>>
    BY InputStep
  <1>3. InputInv => InputShowsText
    BY TextHolds DEF InputInv, InputShowsText, Text, Shown
  <1> QED
    BY <1>1, <1>2, <1>3, PTL DEF InputSpec, InputIsShown, InputIsLine, Editor!LineSpec

-----------------------------------------------------------------------------
(* nconf: the line                                                         *)

LEMMA MinOfTwo ==
  ASSUME NEW m \in Int, NEW n \in Int
  PROVE  Min({m, n}) = IF m <= n THEN m ELSE n
  <1>1. CASE m <= n
    <2>1. m \in {m, n} /\ \A k \in {m, n} : m <= k
      BY <1>1
    <2> QED
      BY <1>1, <2>1 DEF Min
  <1>2. CASE ~(m <= n)
    <2>1. n \in {m, n} /\ \A k \in {m, n} : n <= k
      BY <1>2
    <2> QED
      BY <1>2, <2>1 DEF Min
  <1> QED
    BY <1>1, <1>2

LEMMA MaxOfTwo ==
  ASSUME NEW m \in Int, NEW n \in Int
  PROVE  Max({m, n}) = IF m >= n THEN m ELSE n
  <1>1. CASE m >= n
    <2>1. m \in {m, n} /\ \A k \in {m, n} : m >= k
      BY <1>1
    <2> QED
      BY <1>1, <2>1 DEF Max
  <1>2. CASE ~(m >= n)
    <2>1. n \in {m, n} /\ \A k \in {m, n} : n >= k
      BY <1>2
    <2> QED
      BY <1>2, <2>1 DEF Max
  <1> QED
    BY <1>1, <1>2

\* A text of n characters that ends in a buffer of that size.
NcText(b, size, n) ==
  /\ size \in Nat /\ n \in 0..size - 1 /\ b \in [0..size - 1 -> Nat]
  /\ b[n] = 0 /\ \A k \in 0..n - 1 : b[k] # 0

LEMMA NcTextHolds ==
  ASSUME NEW b, NEW size, NEW n, NcText(b, size, n)
  PROVE  n \in Nat /\ size \in Nat /\ n < size /\ Holds(b, n) /\ \A m \in 0..n : Holds(b, m)
  BY DEF NcText, Holds

LEMMA NcTextLength ==
  ASSUME NEW b, NEW size, NEW n, NcText(b, size, n)
  PROVE  Min({k \in DOMAIN b : b[k] = 0} \cup {size}) = n
  <1> DEFINE S == {k \in DOMAIN b : b[k] = 0} \cup {size}
  <1>1. n \in S /\ n \in Nat
    BY DEF NcText
  <1>2. ASSUME NEW k \in S PROVE n <= k /\ k \in Nat
    BY DEF NcText
  <1> HIDE DEF S
  <1>3. Min(S) \in S /\ Min(S) <= n
    BY <1>1, <1>2 DEF Min
  <1>4. Min(S) = n
    <2>1. Min(S) \in Nat /\ n <= Min(S)
      BY <1>2, <1>3
    <2>2. \A k, m \in Nat : k <= m /\ m <= k => k = m
      OBVIOUS
    <2> QED
      BY <1>1, <1>3, <2>1, <2>2
  <1> QED
    BY <1>4 DEF S

\* One character less: what comes behind the new end does not matter.
LEMMA NcTextShorter ==
  ASSUME NEW b, NEW c, NEW size, NEW n, NEW at \in 0..n - 1, NcText(b, size, n),
         c \in [0..size - 1 -> Nat],
         \A k \in 0..at - 1 : c[k] = b[k], \A k \in at..n - 1 : c[k] = b[k + 1]
  PROVE  NcText(c, size, n - 1) /\ Removed(b, c, at, n)
  <1>1. n \in Nat /\ size \in Nat /\ n < size /\ at \in Nat /\ at < n
    BY NcTextHolds
  <1>2. b[n] = 0 /\ \A k \in 0..n - 1 : b[k] # 0
    BY DEF NcText
  <1>3. n - 1 \in 0..size - 1
    BY <1>1
  <1>4. c[n - 1] = 0
    <2>1. n - 1 \in at..n - 1 /\ (n - 1) + 1 = n
      BY <1>1
    <2> QED
      BY <1>2, <2>1
  <1>5. ASSUME NEW k \in 0..n - 1 - 1 PROVE c[k] # 0
    <2>1. CASE k < at
      <3>1. k \in 0..at - 1 /\ k \in 0..n - 1
        BY <1>1, <2>1
      <3> QED
        BY <1>2, <3>1
    <2>2. CASE k >= at
      <3>1. k \in at..n - 1 /\ k + 1 \in 0..n - 1
        BY <1>1, <2>2
      <3> QED
        BY <1>2, <3>1
    <2> QED
      BY <1>1, <2>1, <2>2
  <1>6. \A k \in at..n - 2 : k \in at..n - 1
    BY <1>1
  <1> QED
    BY <1>1, <1>3, <1>4, <1>5, <1>6 DEF NcText, Removed

\* One more.
LEMMA NcTextLonger ==
  ASSUME NEW b, NEW c, NEW size, NEW larger \in Nat, NEW n, NEW at \in 0..n, NcText(b, size, n),
         n + 2 <= larger, c \in [0..larger - 1 -> Nat],
         \A k \in 0..at - 1 : c[k] = b[k], c[at] # 0, \A k \in at + 1..n + 1 : c[k] = b[k - 1]
  PROVE  NcText(c, larger, n + 1) /\ Inserted(b, c, at, n)
  <1>1. n \in Nat /\ size \in Nat /\ n < size /\ at \in Nat /\ at <= n
    BY NcTextHolds
  <1>2. b[n] = 0 /\ \A k \in 0..n - 1 : b[k] # 0
    BY DEF NcText
  <1>3. n + 1 \in 0..larger - 1 /\ at \in 0..larger - 1
    BY <1>1
  <1>4. c[n + 1] = 0
    <2>1. n + 1 \in at + 1..n + 1 /\ (n + 1) - 1 = n
      BY <1>1
    <2> QED
      BY <1>2, <2>1
  <1>5. ASSUME NEW k \in 0..n + 1 - 1 PROVE c[k] # 0
    <2>1. CASE k < at
      <3>1. k \in 0..at - 1 /\ k \in 0..n - 1
        BY <1>1, <2>1
      <3> QED
        BY <1>2, <3>1
    <2>2. CASE k = at
      BY <2>2
    <2>3. CASE k > at
      <3>1. k \in at + 1..n + 1 /\ k - 1 \in 0..n - 1
        BY <1>1, <2>3
      <3> QED
        BY <1>2, <3>1
    <2> QED
      BY <1>1, <2>1, <2>2, <2>3
  <1>6. ASSUME NEW k \in at..n - 1 PROVE c[k + 1] = b[k]
    <2>1. k + 1 \in at + 1..n + 1 /\ (k + 1) - 1 = k
      BY <1>1
    <2> QED
      BY <2>1
  <1>7. c[at] \in Nat
    BY <1>3
  <1> QED
    BY <1>3, <1>4, <1>5, <1>6, <1>7 DEF NcText, Inserted

LineInv ==
  /\ init \in Seq(NcChars) /\ Len(init) <= NcMaxLen /\ result_len \in Nat
  /\ window = "input" =>
       /\ NcText(result, result_len, TextLen) /\ prompt_width \in Nat \ {0}
       /\ cursor_position \in 0..TextLen
       /\ cursor_form_win \in Nat /\ cursor_form_win <= cursor_position
       /\ cursor_form_win < prompt_width

\* The sequences on both sides of the cursor.
LEMMA NcSides ==
  ASSUME NEW n, NcText(result, result_len, n), cursor_position \in 0..n
  PROVE  /\ TextLen = n
         /\ NcPart(0, cursor_position) = Piece(result, 0, cursor_position)
         /\ NcPart(cursor_position, TextLen) = Piece(result, cursor_position, n)
         /\ NcPart(0, cursor_position) \o NcPart(cursor_position, TextLen) = Piece(result, 0, n)
         /\ Len(NcPart(0, cursor_position)) = cursor_position /\ Len(Piece(result, 0, n)) = n
  <1>1. n \in Nat /\ cursor_position \in Nat /\ Holds(result, n) /\ Holds(result, cursor_position)
    BY NcTextHolds
  <1>2. TextLen = n
    BY NcTextLength DEF TextLen
  <1>3. /\ NcPart(0, cursor_position) = Piece(result, 0, cursor_position)
        /\ NcPart(cursor_position, TextLen) = Piece(result, cursor_position, n)
    BY <1>2 DEF NcPart, Piece
  <1> QED
    BY <1>1, <1>2, <1>3, PiecesJoin, FirstPieceIsSeq

LEMMA NcSidesNext ==
  ASSUME NEW n, NcText(result', result_len', n), cursor_position' \in 0..n
  PROVE  /\ TextLen' = n
         /\ NcPart(0, cursor_position)' = Piece(result', 0, cursor_position')
         /\ NcPart(cursor_position, TextLen)' = Piece(result', cursor_position', n)
         /\ NcPart(0, cursor_position)' \o NcPart(cursor_position, TextLen)' = Piece(result', 0, n)
         /\ Len(NcPart(0, cursor_position)') = cursor_position' /\ Len(Piece(result', 0, n)) = n
  <1>1. n \in Nat /\ cursor_position' \in Nat /\ Holds(result', n) /\ Holds(result', cursor_position')
    BY NcTextHolds
  <1>2. TextLen' = n
    BY NcTextLength DEF TextLen
  <1>3. /\ NcPart(0, cursor_position)' = Piece(result', 0, cursor_position')
        /\ NcPart(cursor_position, TextLen)' = Piece(result', cursor_position', n)
    BY <1>2 DEF NcPart, Piece
  <1> QED
    BY <1>1, <1>2, <1>3, PiecesJoin, FirstPieceIsSeq

LEMMA InBuffer ==
  ASSUME NEW n \in Nat, NEW size \in Nat, n < size
  PROVE  /\ n \in 0..size - 1 /\ n \in 0..n /\ ~(n < n)
         /\ \A k \in 0..n - 1 : k \in 0..size - 1 /\ k < n
         /\ \A k \in 0..size - 1 : k < n => k \in 0..n - 1
  OBVIOUS

LEMMA CharactersOf ==
  ASSUME NEW text \in Seq(NcChars)
  PROVE  \A k \in 0..Len(text) - 1 : text[k + 1] \in Nat /\ text[k + 1] # 0
  <1> SUFFICES ASSUME NEW k \in 0..Len(text) - 1 PROVE text[k + 1] \in Nat /\ text[k + 1] # 0
    OBVIOUS
  <1>1. k + 1 \in 1..Len(text)
    OBVIOUS
  <1>2. text[k + 1] \in NcChars
    BY <1>1
  <1>3. NcChars \subseteq Nat \ {0}
    BY DialogConstants
  <1> QED
    BY <1>2, <1>3

LEMMA CursorAtEnd ==
  ASSUME NEW n \in Nat, NEW width \in Nat \ {0}
  PROVE  /\ Min({n, width - 1}) \in Nat /\ Min({n, width - 1}) <= n /\ Min({n, width - 1}) < width
  BY MinOfTwo

\* A line that starts: its text is in the buffer, the cursor behind it.
LEMMA LineStarts ==
  ASSUME result_len \in Nat, NEW text \in Seq(NcChars), Len(text) <= NcMaxLen, OpenLine(text)
  PROVE  LineInv' /\ Len(NcPart(0, cursor_position)') <= NcMaxLen
         /\ NcPart(cursor_position, TextLen)' = <<>>
  <1> DEFINE n == Len(text)
  <1>1. n \in Nat /\ result_len' \in Nat /\ n < result_len'
    BY MaxOfTwo DEF OpenLine
  <1>2. /\ window' = "input" /\ init' = text /\ cursor_position' = n /\ prompt_width' \in Nat \ {0}
        /\ cursor_form_win' = Min({n, prompt_width' - 1})
        /\ result' = [k \in 0..result_len' - 1 |-> IF k < n THEN text[k + 1] ELSE 0]
    BY DialogConstants DEF OpenLine
  <1>3. \A k \in 0..n - 1 : text[k + 1] \in Nat /\ text[k + 1] # 0
    BY CharactersOf
  <1> HIDE DEF n
  <1>4. \A k \in 0..n - 1 : k \in 0..result_len' - 1 /\ k < n
    BY <1>1, InBuffer
  <1>5. n \in 0..result_len' - 1 /\ ~(n < n) /\ n \in 0..n
    BY <1>1, InBuffer
  <1>6. \A k \in 0..result_len' - 1 : k < n => k \in 0..n - 1
    BY <1>1, InBuffer
  <1>7. result' \in [0..result_len' - 1 -> Nat] /\ result'[n] = 0 /\ \A k \in 0..n - 1 : result'[k] # 0
    BY <1>2, <1>3, <1>4, <1>5, <1>6
  <1>8. NcText(result', result_len', n)
    BY <1>1, <1>5, <1>7 DEF NcText
  <1>9. cursor_form_win' \in Nat /\ cursor_form_win' <= n /\ cursor_form_win' < prompt_width'
    BY <1>1, <1>2, CursorAtEnd
  <1>10. /\ TextLen' = n /\ Len(NcPart(0, cursor_position)') = n
         /\ NcPart(cursor_position, TextLen)' = Piece(result', n, n)
    BY <1>2, <1>5, <1>8, NcSidesNext
  <1>11. Piece(result', n, n) = <<>>
    <2>1. n \in Nat /\ Holds(result', n) /\ n \in 0..n /\ n - n = 0
      BY <1>1, <1>5, <1>8, NcTextHolds
    <2>2. Piece(result', n, n) \in Seq(Nat) /\ Len(Piece(result', n, n)) = 0
      BY <2>1, PieceIsSeq
    <2> QED
      BY <2>2, EmptySeq
  <1>12. LineInv'
    BY <1>1, <1>2, <1>5, <1>8, <1>9, <1>10 DEF LineInv, n
  <1> QED
    BY <1>10, <1>11, <1>12 DEF n

\* Where the cursor is in the window after a key.
LEMMA CursorKept ==
  ASSUME NEW place \in Nat, NEW in_window \in Int, NEW width \in Nat \ {0}, in_window <= place
  PROVE  LET shown == Max({Min({in_window, width - 1}), 0})
         IN  shown \in Nat /\ shown <= place /\ shown < width
  <1>1. Min({in_window, width - 1}) \in Int /\ Min({in_window, width - 1}) <= place
        /\ Min({in_window, width - 1}) < width
    BY MinOfTwo
  <1> DEFINE m == Min({in_window, width - 1})
  <1> HIDE DEF m
  <1>2. m \in Int /\ m <= place /\ m < width
    BY <1>1 DEF m
  <1>3. Max({m, 0}) \in Nat /\ Max({m, 0}) <= place /\ Max({m, 0}) < width
    BY <1>2, MaxOfTwo
  <1> QED
    BY <1>3 DEF m

\* A key leaves a line and the cursor in sight, if it leaves a text.
LEMMA KeyLeavesLine ==
  ASSUME LineInv, window = "input", window' = "input", UNCHANGED <<init, prompt_width>>,
         NEW n, NcText(result', result_len', n), NEW place \in 0..n, NEW in_window \in Int,
         in_window <= place, CursorTo(place, in_window)
  PROVE  LineInv' /\ cursor_position' = place
  <1>1. n \in Nat /\ place \in Nat /\ result_len' \in Nat
    BY NcTextHolds
  <1>2. prompt_width \in Nat \ {0} /\ init \in Seq(NcChars) /\ Len(init) <= NcMaxLen
    BY DEF LineInv
  <1>3. cursor_position' = place /\ cursor_form_win' = Max({Min({in_window, prompt_width - 1}), 0})
    BY DEF CursorTo
  <1>4. cursor_form_win' \in Nat /\ cursor_form_win' <= place /\ cursor_form_win' < prompt_width
    BY <1>1, <1>2, <1>3, CursorKept
  <1>5. TextLen' = n
    BY NcTextLength DEF TextLen
  <1> QED
    BY <1>1, <1>2, <1>3, <1>4, <1>5 DEF LineInv

LEMMA LineOf ==
  ASSUME LineInv, window = "input"
  PROVE  /\ NcText(result, result_len, TextLen) /\ TextLen \in Nat /\ result_len \in Nat
         /\ TextLen < result_len /\ Holds(result, TextLen) /\ prompt_width \in Nat \ {0}
         /\ cursor_position \in 0..TextLen /\ cursor_position \in Nat /\ cursor_position <= TextLen
         /\ cursor_form_win \in Nat /\ cursor_form_win <= cursor_position
         /\ result \in [0..result_len - 1 -> Nat] /\ DOMAIN result = 0..result_len - 1
  <1>1. NcText(result, result_len, TextLen)
    BY DEF LineInv
  <1>2. result \in [0..result_len - 1 -> Nat]
    BY <1>1 DEF NcText
  <1>3. TextLen \in Nat /\ result_len \in Nat /\ TextLen < result_len /\ Holds(result, TextLen)
    BY <1>1, NcTextHolds
  <1>4. /\ cursor_position \in 0..TextLen /\ prompt_width \in Nat \ {0}
        /\ cursor_form_win \in Nat /\ cursor_form_win <= cursor_position
    BY DEF LineInv
  <1>5. cursor_position \in Nat /\ cursor_position <= TextLen
    BY <1>3, <1>4
  <1> QED
    BY <1>1, <1>2, <1>3, <1>4, <1>5

\* A character is taken out at a place: before the cursor, or behind it.
LEMMA NcBackspace ==
  ASSUME LineInv, window = "input", window' = "input", UNCHANGED <<init, prompt_width>>,
         LineBackspace
  PROVE  LineInv' /\ NcEditor!Edit
  <1> DEFINE n == TextLen
  <1> DEFINE at == cursor_position - 1
  <1>1. /\ cursor_position > 0 /\ CursorTo(at, cursor_form_win - 1) /\ result_len' = result_len
        /\ result' = [k \in DOMAIN result |->
                        IF k \in at..n - 1 THEN result[k + 1] ELSE result[k]]
    BY DEF LineBackspace
  <1>2. /\ NcText(result, result_len, n) /\ n \in Nat /\ result_len \in Nat /\ n < result_len
        /\ Holds(result, n) /\ cursor_position \in 0..n /\ cursor_position \in Nat /\ cursor_position <= n
        /\ cursor_form_win \in Nat /\ cursor_form_win <= cursor_position
        /\ result \in [0..result_len - 1 -> Nat] /\ DOMAIN result = 0..result_len - 1
    BY LineOf
  <1> HIDE DEF n
  <1>3. /\ at \in 0..n - 1 /\ at \in Nat /\ cursor_position \in Nat \ {0} /\ n - 1 \in Nat
        /\ cursor_form_win - 1 \in Int /\ cursor_form_win - 1 <= at
        /\ at + 1 = cursor_position
    BY <1>1, <1>2
  <1> HIDE DEF at
  <1>4. ASSUME NEW k \in 0..result_len - 1
        PROVE  IF k \in at..n - 1 THEN result[k + 1] \in Nat ELSE result[k] \in Nat
    <2>1. k \in at..n - 1 => k + 1 \in 0..result_len - 1
      BY <1>2, <1>3
    <2> QED
      BY <1>2, <2>1
  <1>5. result' \in [0..result_len - 1 -> Nat]
    BY <1>1, <1>2, <1>4
  <1>6. ASSUME NEW k \in 0..at - 1 PROVE result'[k] = result[k]
    <2>1. k \in 0..result_len - 1 /\ ~(k \in at..n - 1)
      BY <1>2, <1>3
    <2> QED
      BY <1>1, <1>2, <2>1
  <1>7. ASSUME NEW k \in at..n - 1 PROVE result'[k] = result[k + 1]
    <2>1. k \in 0..result_len - 1
      BY <1>2, <1>3
    <2> QED
      BY <1>1, <1>2, <2>1
  <1>8. NcText(result', result_len', n - 1) /\ Removed(result, result', at, n)
    BY <1>1, <1>2, <1>3, <1>5, <1>6, <1>7, NcTextShorter
  <1>9. LineInv' /\ cursor_position' = at
    BY <1>1, <1>3, <1>8, KeyLeavesLine
  <1>10. /\ Piece(result', 0, at) = Piece(result, 0, at)
         /\ Piece(result', at, n - 1) = Piece(result, at + 1, n)
    <2>1. n \in Nat /\ at \in 0..n - 1 /\ Holds(result, n) /\ Removed(result, result', at, n)
      BY <1>2, <1>3, <1>8
    <2> QED
      BY <2>1, PieceRemove
  <1>11. /\ NcPart(0, cursor_position) = Piece(result, 0, cursor_position)
         /\ NcPart(cursor_position, TextLen) = Piece(result, cursor_position, n)
    BY <1>2, NcSides
  <1>12. /\ NcPart(0, cursor_position)' = Piece(result', 0, at)
         /\ NcPart(cursor_position, TextLen)' = Piece(result', at, n - 1)
    BY <1>3, <1>8, <1>9, NcSidesNext
  <1>13. Holds(result, cursor_position)
    BY <1>2, NcTextHolds
  <1>14. /\ Piece(result, 0, cursor_position) # <<>> /\ Len(Piece(result, 0, cursor_position)) = cursor_position
         /\ Piece(result, 0, at) = SubSeq(Piece(result, 0, cursor_position), 1, cursor_position - 1)
    BY <1>3, <1>13, PieceFront DEF at
  <1>15. NcEditor!Backspace
    BY <1>3, <1>10, <1>11, <1>12, <1>14 DEF NcEditor!Backspace
  <1> QED
    BY <1>9, <1>15 DEF NcEditor!Edit

LEMMA NcDelete ==
  ASSUME LineInv, window = "input", window' = "input", UNCHANGED <<init, prompt_width>>,
         LineDelete
  PROVE  LineInv' /\ NcEditor!Edit
  <1> DEFINE n == TextLen
  <1> DEFINE at == cursor_position
  <1>1. /\ at < n /\ CursorTo(at, cursor_form_win) /\ result_len' = result_len
        /\ \E beyond \in IF n + 1 < result_len THEN {result[n + 1]} ELSE NcChars \cup {0} :
             result' = [k \in DOMAIN result |->
                          IF k = n THEN beyond
                          ELSE IF k \in at..n - 1 THEN result[k + 1] ELSE result[k]]
    BY DEF LineDelete
  <1>2. /\ NcText(result, result_len, n) /\ n \in Nat /\ result_len \in Nat /\ n < result_len
        /\ Holds(result, n) /\ at \in 0..n /\ at \in Nat /\ at <= n
        /\ cursor_form_win \in Nat /\ cursor_form_win <= at
        /\ result \in [0..result_len - 1 -> Nat] /\ DOMAIN result = 0..result_len - 1
    BY LineOf
  <1> HIDE DEF n, at
  <1>3. PICK beyond \in IF n + 1 < result_len THEN {result[n + 1]} ELSE NcChars \cup {0} :
          result' = [k \in 0..result_len - 1 |->
                       IF k = n THEN beyond
                       ELSE IF k \in at..n - 1 THEN result[k + 1] ELSE result[k]]
    BY <1>1, <1>2
  <1>3a. beyond \in Nat
    <2>1. NcChars \subseteq Nat
      BY DialogConstants
    <2>2. CASE n + 1 < result_len
      <3>1. n + 1 \in 0..result_len - 1 /\ beyond = result[n + 1]
        BY <1>2, <2>2
      <3> QED
        BY <1>2, <3>1
    <2>3. CASE ~(n + 1 < result_len)
      <3>1. beyond \in NcChars \cup {0}
        BY <1>3, <2>3
      <3> QED
        BY <2>1, <3>1
    <2> QED
      BY <2>2, <2>3
  <1>4. at \in 0..n - 1 /\ n - 1 \in Nat /\ cursor_form_win \in Int
    BY <1>1, <1>2
  <1>5. ASSUME NEW k \in 0..result_len - 1 PROVE result'[k] \in Nat
    <2>1. CASE k = n
      BY <1>3, <1>3a, <2>1
    <2>2. CASE k \in at..n - 1
      <3>1. k # n /\ k + 1 \in 0..result_len - 1
        BY <1>2, <2>2
      <3> QED
        BY <1>2, <1>3, <2>2, <3>1
    <2>3. CASE k # n /\ ~(k \in at..n - 1)
      BY <1>2, <1>3, <2>3
    <2> QED
      BY <2>1, <2>2, <2>3
  <1>6. result' \in [0..result_len - 1 -> Nat]
    BY <1>3, <1>5
  <1>7. ASSUME NEW k \in 0..at - 1 PROVE result'[k] = result[k]
    <2>1. k \in 0..result_len - 1 /\ ~(k \in at..n - 1) /\ k # n
      BY <1>2
    <2> QED
      BY <1>3, <2>1
  <1>8. ASSUME NEW k \in at..n - 1 PROVE result'[k] = result[k + 1]
    <2>1. k \in 0..result_len - 1 /\ k # n
      BY <1>2
    <2> QED
      BY <1>3, <2>1
  <1>9. NcText(result', result_len', n - 1) /\ Removed(result, result', at, n)
    BY <1>1, <1>2, <1>4, <1>6, <1>7, <1>8, NcTextShorter
  <1>10. LineInv' /\ cursor_position' = at
    BY <1>1, <1>2, <1>4, <1>9, KeyLeavesLine
  <1>11. /\ Piece(result', 0, at) = Piece(result, 0, at)
         /\ Piece(result', at, n - 1) = Piece(result, at + 1, n)
    BY <1>2, <1>4, <1>9, PieceRemove
  <1>12. Piece(result, at, n) # <<>> /\ Piece(result, at + 1, n) = Tail(Piece(result, at, n))
    BY <1>2, <1>4, PieceTail
  <1>13. /\ NcPart(0, cursor_position) = Piece(result, 0, at)
         /\ NcPart(cursor_position, TextLen) = Piece(result, at, n)
    BY <1>2, NcSides DEF at
  <1>14. /\ NcPart(0, cursor_position)' = Piece(result', 0, at)
         /\ NcPart(cursor_position, TextLen)' = Piece(result', at, n - 1)
    BY <1>4, <1>9, <1>10, NcSidesNext
  <1>15. NcEditor!Delete
    BY <1>11, <1>12, <1>13, <1>14 DEF NcEditor!Delete
  <1> QED
    BY <1>10, <1>15 DEF NcEditor!Edit

\* What an insertion reads and writes.
LEMMA NewPlaces ==
  ASSUME NEW n \in Nat, NEW at \in Nat, at <= n, NEW size \in Nat, n < size,
         NEW larger, larger = Max({size, n + 2})
  PROVE  /\ larger \in Nat /\ n + 2 <= larger /\ at \in 0..larger - 1
         /\ \A k \in 0..at - 1 : k \in 0..larger - 1 /\ ~(k \in at + 1..n + 1) /\ k # at
         /\ \A k \in at + 1..n + 1 : k \in 0..larger - 1 /\ k # at /\ k - 1 \in 0..size - 1
         /\ \A k \in 0..larger - 1 : k # at /\ ~(k \in at + 1..n + 1) => k \in 0..size - 1
  <1>1. larger \in Nat /\ n + 2 <= larger /\ (larger = size \/ larger = n + 2)
    BY MaxOfTwo
  <1>2. \A k \in 0..at - 1 : k \in 0..larger - 1 /\ ~(k \in at + 1..n + 1) /\ k # at
    BY <1>1
  <1>3. \A k \in at + 1..n + 1 : k \in 0..larger - 1 /\ k # at /\ k - 1 \in 0..size - 1
    BY <1>1
  <1>4. ASSUME NEW k \in 0..larger - 1, k # at, ~(k \in at + 1..n + 1) PROVE k \in 0..size - 1
    <2>1. CASE larger = size
      BY <2>1
    <2>2. CASE larger = n + 2
      <3>1. k \in Nat /\ k <= n + 1 /\ ~(k >= at + 1)
        BY <1>4, <2>2
      <3> QED
        BY <3>1
    <2> QED
      BY <1>1, <2>1, <2>2
  <1>5. at \in 0..larger - 1
    BY <1>1
  <1> QED
    BY <1>1, <1>2, <1>3, <1>4, <1>5

LEMMA NcInsert ==
  ASSUME LineInv, window = "input", window' = "input", UNCHANGED <<init, prompt_width>>,
         LineInsert
  PROVE  LineInv' /\ NcEditor!Edit
  <1> DEFINE n == TextLen
  <1> DEFINE at == cursor_position
  <1>1. /\ n < NcMaxLen /\ result_len' = Max({result_len, n + 2}) /\ CursorTo(at + 1, cursor_form_win + 1)
        /\ \E c \in NcChars :
             result' = [k \in 0..result_len' - 1 |->
                          IF k = at THEN c
                          ELSE IF k \in at + 1..n + 1 THEN result[k - 1] ELSE result[k]]
    BY DEF LineInsert
  <1>2. /\ NcText(result, result_len, n) /\ n \in Nat /\ result_len \in Nat /\ n < result_len
        /\ Holds(result, n) /\ at \in 0..n /\ at \in Nat /\ at <= n
        /\ cursor_form_win \in Nat /\ cursor_form_win <= at
        /\ result \in [0..result_len - 1 -> Nat] /\ DOMAIN result = 0..result_len - 1
    BY LineOf
  <1> HIDE DEF n, at
  <1>3. PICK c \in NcChars :
          result' = [k \in 0..result_len' - 1 |->
                       IF k = at THEN c
                       ELSE IF k \in at + 1..n + 1 THEN result[k - 1] ELSE result[k]]
    BY <1>1
  <1>3a. c \in Nat /\ c # 0
    BY DialogConstants
  <1>4. /\ result_len' \in Nat /\ n + 2 <= result_len' /\ at \in 0..result_len' - 1
        /\ \A k \in 0..at - 1 : k \in 0..result_len' - 1 /\ ~(k \in at + 1..n + 1) /\ k # at
        /\ \A k \in at + 1..n + 1 : k \in 0..result_len' - 1 /\ k # at /\ k - 1 \in 0..result_len - 1
        /\ \A k \in 0..result_len' - 1 : k # at /\ ~(k \in at + 1..n + 1) => k \in 0..result_len - 1
    <2>1. /\ n \in Nat /\ at \in Nat /\ at <= n /\ result_len \in Nat /\ n < result_len
          /\ result_len' = Max({result_len, n + 2})
      BY <1>1, <1>2
    <2> QED
      BY <2>1, NewPlaces
  <1>5. ASSUME NEW k \in 0..result_len' - 1 PROVE result'[k] \in Nat
    <2>1. CASE k = at
      BY <1>3, <1>3a, <2>1
    <2>2. CASE k # at /\ k \in at + 1..n + 1
      <3>1. k - 1 \in 0..result_len - 1 /\ result'[k] = result[k - 1]
        BY <1>3, <1>4, <2>2
      <3> QED
        BY <1>2, <3>1
    <2>3. CASE k # at /\ ~(k \in at + 1..n + 1)
      <3>1. k \in 0..result_len - 1 /\ result'[k] = result[k]
        BY <1>3, <1>4, <2>3
      <3> QED
        BY <1>2, <3>1
    <2> QED
      BY <2>1, <2>2, <2>3
  <1>6. result' \in [0..result_len' - 1 -> Nat]
    BY <1>3, <1>5
  <1>7. \A k \in 0..at - 1 : result'[k] = result[k]
    BY <1>3, <1>4
  <1>8. \A k \in at + 1..n + 1 : result'[k] = result[k - 1]
    BY <1>3, <1>4
  <1>9. result'[at] = c
    BY <1>3, <1>4
  <1>10. NcText(result', result_len', n + 1) /\ Inserted(result, result', at, n)
    BY <1>2, <1>3a, <1>4, <1>6, <1>7, <1>8, <1>9, NcTextLonger
  <1>11. /\ at + 1 \in 0..n + 1 /\ cursor_form_win + 1 \in Int /\ cursor_form_win + 1 <= at + 1
    BY <1>2
  <1>12. LineInv' /\ cursor_position' = at + 1
    BY <1>1, <1>10, <1>11, KeyLeavesLine
  <1>13. /\ Piece(result', 0, at + 1) = Append(Piece(result, 0, at), c)
         /\ Piece(result', at + 1, n + 1) = Piece(result, at, n)
    BY <1>2, <1>9, <1>10, PieceInsert
  <1>14. /\ NcPart(0, cursor_position) = Piece(result, 0, at)
         /\ NcPart(cursor_position, TextLen) = Piece(result, at, n)
         /\ Len(NcPart(0, cursor_position) \o NcPart(cursor_position, TextLen)) = n
    BY <1>2, NcSides DEF at
  <1>15. /\ NcPart(0, cursor_position)' = Piece(result', 0, at + 1)
         /\ NcPart(cursor_position, TextLen)' = Piece(result', at + 1, n + 1)
    BY <1>10, <1>11, <1>12, NcSidesNext
  <1>16. NcEditor!Insert
    BY <1>1, <1>13, <1>14, <1>15 DEF NcEditor!Insert, NcEditor!Line
  <1> QED
    BY <1>12, <1>16 DEF NcEditor!Edit

LEMMA NcMove ==
  ASSUME LineInv, window = "input", window' = "input", UNCHANGED <<init, prompt_width>>,
         LineMove
  PROVE  LineInv' /\ NcEditor!Edit
  <1> DEFINE n == TextLen
  <1> DEFINE at == cursor_position
  <1>1. /\ NcText(result, result_len, n) /\ n \in Nat /\ at \in 0..n /\ at \in Nat /\ at <= n
        /\ Holds(result, n) /\ prompt_width \in Nat \ {0}
        /\ cursor_form_win \in Nat /\ cursor_form_win <= at
    BY LineOf
  <1>2. NcText(result', result_len', n)
    BY <1>1 DEF LineMove, SameBuffer
  <1>2a. result' = result
    BY DEF LineMove, SameBuffer
  <1>3. /\ NcPart(0, cursor_position) \o NcPart(cursor_position, TextLen) = Piece(result, 0, n)
        /\ Len(NcPart(0, cursor_position)) = at
    BY <1>1, NcSides
  <1>4. \/ at < n /\ CursorTo(at + 1, cursor_form_win + 1)
        \/ at > 0 /\ CursorTo(at - 1, cursor_form_win - 1)
        \/ CursorTo(0, 0)
        \/ CursorTo(n, Min({n, prompt_width - 1}))
    BY DEF LineMove
  <1> HIDE DEF n, at
  <1>5. ASSUME NEW place \in 0..n, NEW in_window \in Int, in_window <= place, CursorTo(place, in_window)
        PROVE  /\ LineInv' /\ NcPart(0, cursor_position)' = Piece(result, 0, place)
               /\ NcPart(cursor_position, TextLen)' = Piece(result, place, n)
               /\ NcPart(0, cursor_position)' \o NcPart(cursor_position, TextLen)' = Piece(result, 0, n)
               /\ Len(NcPart(0, cursor_position)') = place
    <2>1. LineInv' /\ cursor_position' = place
      BY <1>2, <1>5, KeyLeavesLine
    <2> QED
      BY <1>2, <1>2a, <2>1, NcSidesNext
  <1>6. CASE at < n /\ CursorTo(at + 1, cursor_form_win + 1)
    <2>1. at + 1 \in 0..n /\ cursor_form_win + 1 \in Int /\ cursor_form_win + 1 <= at + 1 /\ (at + 1) - at = 1
      BY <1>1, <1>6
    <2> QED
      BY <1>3, <1>5, <1>6, <2>1 DEF NcEditor!Edit, NcEditor!Move, NcEditor!Line
  <1>7. CASE at > 0 /\ CursorTo(at - 1, cursor_form_win - 1)
    <2>1. at - 1 \in 0..n /\ cursor_form_win - 1 \in Int /\ cursor_form_win - 1 <= at - 1 /\ (at - 1) - at = -1
      BY <1>1, <1>7
    <2> QED
      BY <1>3, <1>5, <1>7, <2>1 DEF NcEditor!Edit, NcEditor!Move, NcEditor!Line
  <1>8. CASE CursorTo(0, 0)
    <2>1. 0 \in 0..n /\ 0 \in Int /\ 0 <= 0
      BY <1>1
    <2>2. /\ LineInv' /\ NcPart(0, cursor_position)' = Piece(result, 0, 0)
          /\ NcPart(cursor_position, TextLen)' = Piece(result, 0, n)
      BY <1>5, <1>8, <2>1
    <2>3. Piece(result, 0, 0) = <<>>
      <3>1. Holds(result, 0)
        BY <1>1, <2>1, NcTextHolds
      <3> QED
        BY <3>1, FirstPieceIsSeq, EmptySeq
    <2> QED
      BY <1>3, <2>2, <2>3 DEF NcEditor!Edit, NcEditor!Home, NcEditor!Line
  <1>9. CASE CursorTo(n, Min({n, prompt_width - 1}))
    <2>1. n \in 0..n /\ Min({n, prompt_width - 1}) \in Int /\ Min({n, prompt_width - 1}) <= n
      BY <1>1, MinOfTwo
    <2>2. /\ LineInv' /\ NcPart(0, cursor_position)' = Piece(result, 0, n)
          /\ NcPart(cursor_position, TextLen)' = Piece(result, n, n)
      BY <1>5, <1>9, <2>1
    <2>3. Piece(result, n, n) = <<>>
      <3>1. n - n = 0
        BY <1>1
      <3>2. Piece(result, n, n) \in Seq(Nat) /\ Len(Piece(result, n, n)) = 0
        BY <1>1, <2>1, <3>1, PieceIsSeq
      <3> QED
        BY <3>2, EmptySeq
    <2> QED
      BY <1>3, <2>2, <2>3 DEF NcEditor!Edit, NcEditor!End, NcEditor!Line
  <1> QED
    BY <1>4, <1>6, <1>7, <1>8, <1>9

-----------------------------------------------------------------------------
(* nconf: the text that is scrolled                                        *)

LEMMA LeastElement ==
  ASSUME NEW S, S \subseteq Nat, S # {}
  PROVE  \E least \in S : \A n \in S : least <= n
  <1>1. PICK least \in S : \A n \in S : ~(<<n, least>> \in OpToRel(<, Nat))
    BY NatLessThanWellFounded, WFMin
  <1>2. ASSUME NEW n \in S PROVE least <= n
    <2>1. ~(<<n, least>> \in OpToRel(<, Nat)) /\ n \in Nat /\ least \in Nat
      BY <1>1
    <2>2. ~(n < least)
      BY <2>1 DEF OpToRel
    <2> HIDE <1>1
    <2>3. \A k, m \in Nat : ~(k < m) => m <= k
      OBVIOUS
    <2> QED
      BY <2>1, <2>2, <2>3
  <1> QED
    BY <1>2

LEMMA LeastIsMin ==
  ASSUME NEW S, S \subseteq Nat, S # {}
  PROVE  Min(S) \in S /\ \A n \in S : Min(S) <= n
  <1>1. \E least \in S : \A n \in S : least <= n
    BY LeastElement
  <1> QED
    BY <1>1 DEF Min

LEMMA GreatestIsMax ==
  ASSUME NEW S, S \subseteq Int, S # {}, NEW bound \in Int, \A n \in S : n <= bound
  PROVE  Max(S) \in S /\ \A n \in S : Max(S) >= n
  <1> DEFINE T == {bound - n : n \in S}
  <1>1. T \subseteq Nat /\ T # {}
    <2>1. T # {}
      OBVIOUS
    <2>2. ASSUME NEW n \in S PROVE bound - n \in Nat
      BY n \in Int, n <= bound
    <2> QED
      BY <2>1, <2>2
  <1>2. PICK t \in T : \A u \in T : t <= u
    BY <1>1, LeastElement
  <1>3. PICK greatest \in S : t = bound - greatest
    BY <1>2
  <1>4. ASSUME NEW n \in S PROVE greatest >= n
    <2>1. bound - n \in T
      OBVIOUS
    <2>2. bound - greatest <= bound - n /\ n \in Int /\ greatest \in Int
      BY <1>2, <1>3, <2>1
    <2> QED
      BY <2>2
  <1>5. \E m \in S : \A n \in S : m >= n
    BY <1>4
  <1> QED
    BY <1>5 DEF Max

\* How many of the first i characters end a line.
Newlines(text, i) == Cardinality({j \in 1..i : text[j] = "nl"})

LEMMA NewlinesCount ==
  ASSUME NEW text, NEW i \in Nat
  PROVE  /\ Newlines(text, i) \in Nat /\ Newlines(text, 0) = 0
         /\ Newlines(text, i + 1) = Newlines(text, i) + (IF text[i + 1] = "nl" THEN 1 ELSE 0)
  <1> DEFINE S == {j \in 1..i : text[j] = "nl"}
  <1> DEFINE U == {j \in 1..i + 1 : text[j] = "nl"}
  <1>1. IsFiniteSet(S)
    <2>1. IsFiniteSet(1..i) /\ S \in SUBSET (1..i)
      BY FS_Interval
    <2> QED
      BY <2>1, FS_Subset
  <1>2. Cardinality(S) \in Nat
    BY <1>1, FS_CardinalityType
  <1>3. Newlines(text, 0) = 0
    <2>1. {j \in 1..0 : text[j] = "nl"} = {}
      OBVIOUS
    <2> QED
      BY <2>1, FS_EmptySet DEF Newlines
  <1>4. 1..i + 1 = 1..i \cup {i + 1} /\ i + 1 \notin 1..i
    OBVIOUS
  <1>5. CASE text[i + 1] = "nl"
    <2>1. U = S \cup {i + 1} /\ i + 1 \notin S
      BY <1>4, <1>5
    <2>2. Cardinality(U) = Cardinality(S) + 1
      BY <1>1, <2>1, FS_AddElement
    <2> QED
      BY <1>2, <1>3, <1>5, <2>2 DEF Newlines
  <1>6. CASE text[i + 1] # "nl"
    <2>1. U = S
      BY <1>4, <1>6
    <2> QED
      BY <1>2, <1>3, <1>6, <2>1 DEF Newlines
  <1> QED
    BY <1>5, <1>6

LEMMA LinesCount ==
  ASSUME NEW text \in Seq({"x", "nl"})
  PROVE  get_line_no(text) \in Nat /\ get_line_no(text) = 1 + Newlines(text, Len(text))
  <1>1. DOMAIN text = 1..Len(text) /\ Len(text) \in Nat
    OBVIOUS
  <1>2. Newlines(text, Len(text)) \in Nat
    BY <1>1, NewlinesCount
  <1>3. {i \in DOMAIN text : text[i] = "nl"} = {j \in 1..Len(text) : text[j] = "nl"}
    BY <1>1
  <1>4. get_line_no(text) = 1 + Newlines(text, Len(text))
    BY <1>3 DEF get_line_no, Newlines
  <1>5. 1 + Newlines(text, Len(text)) \in Nat
    BY <1>2
  <1> QED
    BY <1>4, <1>5

\* Each line but the first is found behind the newline before it.
LEMMA LineIsFound ==
  ASSUME NEW text \in Seq({"x", "nl"}), NEW n \in 0..get_line_no(text) - 1
  PROVE  get_line(text, n) \in 1..Len(text) + 1
  <1>0. Len(text) \in Nat /\ DOMAIN text = 1..Len(text) /\ n \in Nat /\ n <= Newlines(text, Len(text))
        /\ Newlines(text, Len(text)) \in Nat
    BY LinesCount, NewlinesCount
  <1>1. CASE n = 0
    BY <1>0, <1>1 DEF get_line
  <1>2. CASE n # 0
    <2> DEFINE S == {i \in Nat : Newlines(text, i) >= n}
    <2>1. S \subseteq Nat /\ Len(text) \in S
      BY <1>0
    <2>2. PICK i \in S : \A j \in S : i <= j
      BY <2>1, LeastElement
    <2>3. i \in Nat /\ Newlines(text, i) >= n /\ i <= Len(text) /\ Newlines(text, 0) = 0
      BY <2>1, <2>2, <1>0, NewlinesCount
    <2>4. i # 0
      BY <1>0, <1>2, <2>3
    <2>5. PICK j \in Nat : i = j + 1
      BY <2>3, <2>4, i - 1 \in Nat, i = (i - 1) + 1
    <2>6. Newlines(text, j) \in Nat /\ ~(Newlines(text, j) >= n)
      <3>1. ~(i <= j)
        BY <2>5
      <3>2. j \notin S
        BY <2>2, <3>1
      <3> QED
        BY <3>2, NewlinesCount
    <2>7. Newlines(text, i) = Newlines(text, j) + (IF text[i] = "nl" THEN 1 ELSE 0)
      BY <2>5, NewlinesCount
    <2>8. text[i] = "nl" /\ Newlines(text, i) = n
      BY <1>0, <2>3, <2>6, <2>7
    <2>9. i \in DOMAIN text
      BY <1>0, <2>3, <2>4
    <2> DEFINE Found(m) == text[m] = "nl" /\ Cardinality({l \in 1..m : text[l] = "nl"}) = n
    <2>10. Found(i)
      BY <2>8 DEF Newlines
    <2>11. (CHOOSE m \in DOMAIN text : Found(m)) \in DOMAIN text
      BY <2>9, <2>10
    <2>12. get_line(text, n) = 1 + (CHOOSE m \in DOMAIN text : Found(m))
      BY <1>2 DEF get_line
    <2> HIDE DEF Found
    <2> QED
      BY <1>0, <2>11, <2>12
  <1> QED
    BY <1>1, <1>2

LEMMA LineLength ==
  ASSUME NEW text \in Seq({"x", "nl"}), NEW from \in 1..Len(text) + 1
  PROVE  get_line_length(text, from) \in Nat /\ get_line_length(text, from) <= Len(text)
  <1> DEFINE S == {i \in from..Len(text) + 1 : i = Len(text) + 1 \/ text[i] = "nl"}
  <1>1. Len(text) \in Nat /\ S \subseteq Nat /\ Len(text) + 1 \in S
    OBVIOUS
  <1>2. Min(S) \in S
    BY <1>1, LeastIsMin
  <1>3. Min(S) - from \in Nat /\ Min(S) - from <= Len(text)
    BY <1>1, <1>2
  <1> QED
    BY <1>3 DEF get_line_length

LEMMA ColumnsCount ==
  ASSUME NEW text \in Seq({"x", "nl"})
  PROVE  /\ TotalCols(text) \in Nat
         /\ \A n \in 0..get_line_no(text) - 1 :
              /\ get_line_length(text, get_line(text, n)) \in Nat
              /\ get_line_length(text, get_line(text, n)) + 2 <= TotalCols(text)
  <1> DEFINE S == {get_line_length(text, get_line(text, n)) : n \in 0..get_line_no(text) - 1}
  <1>1. ASSUME NEW n \in 0..get_line_no(text) - 1
        PROVE  /\ get_line_length(text, get_line(text, n)) \in Nat
               /\ get_line_length(text, get_line(text, n)) <= Len(text)
    BY LineIsFound, LineLength
  <1>2. 0 \in 0..get_line_no(text) - 1
    BY LinesCount, NewlinesCount
  <1>3. S \subseteq Nat /\ S # {} /\ Len(text) \in Int /\ \A m \in S : m <= Len(text)
    BY <1>1, <1>2
  <1>4. Max(S) \in S /\ \A m \in S : Max(S) >= m
    <2>1. S \subseteq Int
      BY <1>3
    <2> HIDE DEF S
    <2> QED
      BY <1>3, <2>1, GreatestIsMax
  <1>5. TotalCols(text) = 2 + Max(S)
    BY DEF TotalCols
  <1>6. \A n \in 0..get_line_no(text) - 1 : get_line_length(text, get_line(text, n)) \in S
    OBVIOUS
  <1> HIDE DEF S
  <1>7. Max(S) \in Nat
    BY <1>3, <1>4
  <1> QED
    BY <1>1, <1>4, <1>5, <1>6, <1>7

PageInv ==
  window = "scroll" =>
    /\ page \in [text : Seq({"x", "nl"}), start_y : Nat, start_x : Nat,
                 text_lines : Nat, text_cols : Nat]
    /\ page.start_y + page.text_lines <= get_line_no(page.text)
    /\ page.start_x + page.text_cols <= TotalCols(page.text)

LEMMA WithinRange ==
  ASSUME NEW n \in Int, NEW last \in Nat
  PROVE  Within(n, last) \in Nat /\ Within(n, last) <= last
  BY MinOfTwo DEF Within

LEMMA PageOpens ==
  ASSUME NEW text \in NcTexts, OpenPage(text)
  PROVE  PageInv'
  <1>1. text \in Seq({"x", "nl"})
    BY DialogConstants
  <1>2. PICK lines \in NcLines, columns \in NcColumns :
          page' = [text |-> text, start_y |-> 0, start_x |-> 0,
                   text_lines |-> Min({get_line_no(text), lines}),
                   text_cols |-> Min({TotalCols(text), columns})]
    BY DEF OpenPage
  <1>3. lines \in Nat /\ columns \in Nat /\ get_line_no(text) \in Nat /\ TotalCols(text) \in Nat
    BY <1>1, DialogConstants, LinesCount, ColumnsCount
  <1>4. /\ Min({get_line_no(text), lines}) \in Nat /\ 0 + Min({get_line_no(text), lines}) <= get_line_no(text)
        /\ Min({TotalCols(text), columns}) \in Nat /\ 0 + Min({TotalCols(text), columns}) <= TotalCols(text)
    BY <1>3, MinOfTwo
  <1> QED
    BY <1>1, <1>2, <1>4 DEF PageInv

LEMMA PageScrolls ==
  ASSUME PageInv, ScrollKey
  PROVE  PageInv'
  <1> DEFINE last == get_line_no(page.text) - page.text_lines
  <1> DEFINE right == TotalCols(page.text) - page.text_cols
  <1>1. /\ page \in [text : Seq({"x", "nl"}), start_y : Nat, start_x : Nat,
                     text_lines : Nat, text_cols : Nat]
        /\ page.start_y + page.text_lines <= get_line_no(page.text)
        /\ page.start_x + page.text_cols <= TotalCols(page.text)
    BY DEF PageInv, ScrollKey
  <1>2. get_line_no(page.text) \in Nat /\ TotalCols(page.text) \in Nat
    BY <1>1, LinesCount, ColumnsCount
  <1>3. last \in Nat /\ right \in Nat
    BY <1>1, <1>2
  <1>4. \/ \E y \in {page.start_y + page.text_lines - 2, page.start_y - (page.text_lines + 2),
                     0, last, page.start_y + 1, page.start_y - 1} :
             page' = [page EXCEPT !.start_y = Within(y, last)]
        \/ \E x \in {page.start_x - 1, page.start_x + 1} :
             page' = [page EXCEPT !.start_x = Within(x, right)]
    BY DEF ScrollKey
  <1>5. ASSUME NEW y \in Int, page' = [page EXCEPT !.start_y = Within(y, last)] PROVE PageInv'
    <2>1. Within(y, last) \in Nat /\ Within(y, last) <= last
      BY <1>3, WithinRange
    <2>2. Within(y, last) + page.text_lines <= get_line_no(page.text)
      BY <1>1, <1>2, <2>1
    <2> HIDE DEF last, right
    <2>3. page' \in [text : Seq({"x", "nl"}), start_y : Nat, start_x : Nat,
                     text_lines : Nat, text_cols : Nat]
      BY <1>1, <1>5, <2>1
    <2>4. /\ page'.text = page.text /\ page'.start_x = page.start_x /\ page'.text_cols = page.text_cols
          /\ page'.start_y = Within(y, last) /\ page'.text_lines = page.text_lines
      BY <1>1, <1>5
    <2> QED
      BY <1>1, <2>2, <2>3, <2>4 DEF PageInv
  <1>6. ASSUME NEW x \in Int, page' = [page EXCEPT !.start_x = Within(x, right)] PROVE PageInv'
    <2>1. Within(x, right) \in Nat /\ Within(x, right) <= right
      BY <1>3, WithinRange
    <2>2. Within(x, right) + page.text_cols <= TotalCols(page.text)
      BY <1>1, <1>2, <2>1
    <2> HIDE DEF last, right
    <2>3. page' \in [text : Seq({"x", "nl"}), start_y : Nat, start_x : Nat,
                     text_lines : Nat, text_cols : Nat]
      BY <1>1, <1>6, <2>1
    <2>4. /\ page'.text = page.text /\ page'.start_x = Within(x, right) /\ page'.text_cols = page.text_cols
          /\ page'.start_y = page.start_y /\ page'.text_lines = page.text_lines
      BY <1>1, <1>6
    <2> QED
      BY <1>1, <2>2, <2>3, <2>4 DEF PageInv
  <1>7. /\ page.start_y + page.text_lines - 2 \in Int /\ page.start_y - (page.text_lines + 2) \in Int
        /\ 0 \in Int /\ last \in Int /\ page.start_y + 1 \in Int /\ page.start_y - 1 \in Int
        /\ page.start_x - 1 \in Int /\ page.start_x + 1 \in Int
    <2>1. page.start_y \in Int /\ page.start_x \in Int /\ page.text_lines \in Int /\ last \in Int
      BY <1>1, <1>3
    <2> HIDE DEF last
    <2> QED
      BY <2>1
  <1> HIDE DEF last, right
  <1> QED
    BY <1>4, <1>5, <1>6, <1>7

LEMMA PageIsInSight ==
  ASSUME PageInv
  PROVE  PageInSight
  <1> SUFFICES ASSUME window = "scroll" PROVE PageInSight
    BY DEF PageInSight
  <1> DEFINE lines == get_line_no(page.text)
  <1> DEFINE seen == page.start_y..page.start_y + page.text_lines - 2
  <1>1. /\ page.text \in Seq({"x", "nl"}) /\ page.start_y \in Nat /\ page.start_x \in Nat
        /\ page.text_lines \in Nat /\ page.text_cols \in Nat
        /\ page.start_y + page.text_lines <= lines
        /\ page.start_x + page.text_cols <= TotalCols(page.text)
    BY DEF PageInv
  <1>2. lines \in Nat /\ TotalCols(page.text) \in Nat
    BY <1>1, LinesCount, ColumnsCount
  <1>3. seen \subseteq 0..lines - 2
    <2> SUFFICES ASSUME NEW i \in seen PROVE i \in 0..lines - 2
      OBVIOUS
    <2>1. i \in Int /\ page.start_y <= i /\ i <= page.start_y + page.text_lines - 2
      BY <1>1
    <2> HIDE DEF lines, seen
    <2> QED
      BY <1>1, <1>2, <2>1
  <1>4. ASSUME page.text_lines > 1 PROVE seen # {}
    <2>1. page.start_y \in seen
      BY <1>1, <1>4
    <2> QED
      BY <2>1
  <1>5. ASSUME NEW n \in 0..lines - 1, page.start_x = TotalCols(page.text) - page.text_cols
        PROVE  get_line_length(page.text, get_line(page.text, n)) <= page.start_x + page.text_cols - 1
    <2>1. /\ get_line_length(page.text, get_line(page.text, n)) \in Nat
          /\ get_line_length(page.text, get_line(page.text, n)) + 2 <= TotalCols(page.text)
      BY <1>1, ColumnsCount
    <2> QED
      BY <1>1, <1>2, <1>5, <2>1
  <1> HIDE DEF lines, seen
  <1> QED
    BY <1>3, <1>4, <1>5 DEF PageInSight, lines, seen

-----------------------------------------------------------------------------
(* nconf: one window after another                                         *)

\* The change count is that of the configuration in memory, unless a load failed; what
\* the user was told is what do_exit found, and nothing is asked after it.
ExitInv ==
  /\ caller = "exited" => window = "none" /\ (unsaved => told \/ load_failed)
  /\ told => caller \in {"exit", "exited"} /\ unsaved
  /\ changed => unsaved
  /\ unsaved => changed \/ load_failed
  /\ window \in {"input", "scroll"} => caller \notin {"exit", "exited"}
  /\ caller = "idle" => window = "none"
  /\ window = "buttons" => caller = "exit" /\ changed /\ ~told
  /\ window = "message" => caller # "exited" /\ (caller = "exit" => unsaved /\ told)
  /\ changed \in BOOLEAN /\ told \in BOOLEAN /\ unsaved \in BOOLEAN /\ load_failed \in BOOLEAN

LEMMA ExitStarts == DialogInit => ExitInv
  <1> SUFFICES ASSUME DialogInit PROVE ExitInv
    OBVIOUS
  <1>1. (changed = TRUE \/ changed = FALSE) /\ unsaved = changed
    BY DEF DialogInit
  <1>2. /\ caller = "idle" /\ window = "none" /\ told = FALSE /\ load_failed = FALSE
    BY DEF DialogInit
  <1> QED
    BY <1>1, <1>2 DEF ExitInv

LEMMA ExitStep ==
  ASSUME ExitInv, [DialogNext]_dialogvars
  PROVE  ExitInv'
  <1> USE DEF ExitInv
  <1>1. CASE AskLine
    BY <1>1 DEF AskLine, OpenLine, saving
  <1>2. CASE AskHelp
    BY <1>2 DEF AskHelp, OpenPage, saving
  <1>3. CASE AskExit
    BY <1>3 DEF AskExit, saving
  <1>4. CASE LineKey
    BY <1>4 DEF LineKey, saving
  <1>5. CASE ScrollKey
    BY <1>5 DEF ScrollKey, saving
  <1>6. CASE ButtonsKey
    <2>1. window = "buttons" /\ caller = "exit" /\ changed = TRUE /\ told = FALSE /\ unsaved = TRUE
      BY <1>6 DEF ButtonsKey
    <2>2. \/ UNCHANGED <<caller, window, saving>>
          \/ window' = "none" /\ caller' = "idle" /\ UNCHANGED saving
          \/ window' = "none" /\ caller' = "exited" /\ Saves /\ UNCHANGED told
          \/ window' = "message" /\ told' = TRUE /\ UNCHANGED caller /\ SameCount
      BY <1>6, <2>1 DEF ButtonsKey, Shut, Refuses
    <2> QED
      BY <2>1, <2>2 DEF saving, Saves, SameCount
  <1>7. CASE EnterLine
    <2>1. window = "input" /\ told = FALSE /\ told' = told /\ caller \notin {"exit", "exited"}
      BY <1>7 DEF EnterLine
    <2>2. \/ window' = "none" /\ caller' = "idle"
          \/ window' = "message" /\ caller' = caller
      BY <1>7 DEF EnterLine, Shut, Refuses
    <2>3. \/ Edits \/ Saves \/ Loads \/ FailsToLoad \/ SameCount
      BY <1>7 DEF EnterLine
    <2>4. /\ changed' => unsaved'
          /\ unsaved' => changed' \/ load_failed'
          /\ changed' \in BOOLEAN /\ unsaved' \in BOOLEAN /\ load_failed' \in BOOLEAN
      <3>1. CASE Edits
        <4>1. PICK edit \in BOOLEAN :
                /\ changed' = (changed \/ edit) /\ unsaved' = (unsaved \/ edit)
                /\ load_failed' = (load_failed /\ ~edit)
          BY <3>1 DEF Edits
        <4>2. CASE edit = TRUE
          BY <4>1, <4>2
        <4>3. CASE edit = FALSE
          BY <4>1, <4>3
        <4> QED
          BY <4>2, <4>3
      <3>2. CASE Saves
        BY <3>2 DEF Saves
      <3>3. CASE Loads
        BY <3>3 DEF Loads
      <3>4. CASE FailsToLoad
        BY <3>4, Zenon DEF FailsToLoad
      <3>5. CASE SameCount
        BY <3>5, Zenon DEF SameCount
      <3> QED
        BY <2>3, <3>1, <3>2, <3>3, <3>4, <3>5
    <2> QED
      BY <2>1, <2>2, <2>4
  <1>8. CASE LeaveLine
    BY <1>8 DEF LeaveLine, Shut, saving
  <1>9. CASE LeaveHelp
    BY <1>9 DEF LeaveHelp, Shut, OpenLine, saving
  <1>10. CASE FoundSymbols
    BY <1>10 DEF FoundSymbols, OpenPage, saving
  <1>11. CASE LeaveMessage
    BY <1>11 DEF LeaveMessage, OpenLine, saving
  <1>12. CASE UNCHANGED dialogvars
    BY <1>12 DEF dialogvars, saving
  <1> QED
    BY <1>1, <1>2, <1>3, <1>4, <1>5, <1>6, <1>7, <1>8, <1>9, <1>10, <1>11, <1>12 DEF DialogNext

LEMMA PageStep ==
  ASSUME PageInv, [DialogNext]_dialogvars
  PROVE  PageInv'
  <1>1. ASSUME window' # "scroll" PROVE PageInv'
    BY <1>1 DEF PageInv
  <1>2. ASSUME window = "scroll", page' = page PROVE PageInv'
    BY <1>2 DEF PageInv
  <1>3. CASE AskLine
    BY <1>1, <1>3 DEF AskLine, OpenLine
  <1>4. CASE AskHelp
    BY <1>4, PageOpens DEF AskHelp
  <1>5. CASE AskExit
    BY <1>1, <1>5 DEF AskExit
  <1>6. CASE LineKey
    BY <1>1, <1>6 DEF LineKey
  <1>7. CASE ScrollKey
    BY <1>7, PageScrolls
  <1>8. CASE ButtonsKey
    BY <1>1, <1>8 DEF ButtonsKey, Shut, Refuses
  <1>9. CASE EnterLine
    BY <1>1, <1>9 DEF EnterLine, Shut, Refuses
  <1>10. CASE LeaveLine
    BY <1>1, <1>10 DEF LeaveLine, Shut
  <1>11. CASE LeaveHelp
    BY <1>1, <1>11 DEF LeaveHelp, Shut, OpenLine
  <1>12. CASE FoundSymbols
    BY <1>12, PageOpens DEF FoundSymbols
  <1>13. CASE LeaveMessage
    BY <1>1, <1>13 DEF LeaveMessage, OpenLine
  <1>14. CASE UNCHANGED dialogvars
    BY <1>1, <1>2, <1>14 DEF dialogvars
  <1> QED
    BY <1>3, <1>4, <1>5, <1>6, <1>7, <1>8, <1>9, <1>10, <1>11, <1>12, <1>13, <1>14 DEF DialogNext

\* No line was edited and none is, or it is left as it was.
LEMMA LineStays ==
  ASSUME LineInv, UNCHANGED inbox, window' = "input" => window = "input"
  PROVE  /\ LineInv'
         /\ [NcEditor!LineNext]_<<window = "input", NcPart(0, cursor_position),
                                  NcPart(cursor_position, TextLen)>>
  <1>1. /\ NcPart(0, cursor_position)' = NcPart(0, cursor_position)
        /\ NcPart(cursor_position, TextLen)' = NcPart(cursor_position, TextLen) /\ TextLen' = TextLen
    BY DEF inbox, NcPart, TextLen
  <1>2. LineInv'
    BY <1>1 DEF LineInv, inbox
  <1>3. CASE window = "input" /\ window' # "input"
    <2>1. NcEditor!Return
      BY <1>1, <1>3 DEF NcEditor!Return
    <2> QED
      BY <1>2, <2>1 DEF NcEditor!LineNext
  <1>4. CASE (window = "input") = (window' = "input")
    BY <1>1, <1>2, <1>4
  <1> QED
    BY <1>3, <1>4

LEMMA LineBegins ==
  ASSUME LineInv, window # "input", NEW text \in Seq(NcChars), Len(text) <= NcMaxLen, OpenLine(text)
  PROVE  LineInv' /\ NcEditor!Begin
  <1>1. result_len \in Nat
    BY DEF LineInv
  <1>2. window' = "input"
    BY DEF OpenLine
  <1>3. /\ LineInv' /\ Len(NcPart(0, cursor_position)') <= NcMaxLen
        /\ NcPart(cursor_position, TextLen)' = <<>>
    BY <1>1, LineStarts
  <1>4. NcEditor!Begin
    BY <1>2, <1>3 DEF NcEditor!Begin
  <1> QED
    BY <1>3, <1>4

LEMMA LineStep ==
  ASSUME LineInv, ExitInv, [DialogNext]_dialogvars
  PROVE  /\ LineInv'
         /\ [NcEditor!LineNext]_<<window = "input", NcPart(0, cursor_position),
                                  NcPart(cursor_position, TextLen)>>
  <1>0. init \in Seq(NcChars) /\ Len(init) <= NcMaxLen
    BY DEF LineInv
  <1>1. CASE AskLine
    <2>1. PICK n \in 0..NcMaxLen : \E text \in [1..n -> NcChars] : OpenLine(text)
      BY <1>1 DEF AskLine
    <2>2. PICK text \in [1..n -> NcChars] : OpenLine(text)
      BY <2>1
    <2>3. text \in Seq(NcChars) /\ Len(text) <= NcMaxLen
      BY DialogConstants
    <2>4. window # "input"
      BY <1>1 DEF AskLine, ExitInv
    <2> QED
      BY <2>2, <2>3, <2>4, LineBegins DEF NcEditor!LineNext
  <1>2. CASE AskHelp
    BY <1>2, LineStays DEF AskHelp, OpenPage
  <1>3. CASE AskExit
    BY <1>3, LineStays DEF AskExit
  <1>4. CASE LineKey
    <2>1. window = "input" /\ window' = "input" /\ UNCHANGED <<init, prompt_width>>
      BY <1>4 DEF LineKey
    <2>2. LineBackspace \/ LineDelete \/ LineMove \/ LineInsert
      BY <1>4 DEF LineKey
    <2>3. LineInv' /\ NcEditor!Edit
      BY <2>1, <2>2, NcBackspace, NcDelete, NcMove, NcInsert
    <2> QED
      BY <2>3 DEF NcEditor!LineNext
  <1>5. CASE ScrollKey
    BY <1>5, LineStays DEF ScrollKey
  <1>6. CASE ButtonsKey
    BY <1>6, LineStays DEF ButtonsKey, Shut, Refuses
  <1>7. CASE EnterLine
    BY <1>7, LineStays DEF EnterLine, Shut, Refuses
  <1>8. CASE LeaveLine
    BY <1>8, LineStays DEF LeaveLine, Shut
  <1>9. CASE LeaveHelp
    <2>1. CASE caller = "help"
      BY <1>9, <2>1, LineStays DEF LeaveHelp, Shut
    <2>2. CASE caller # "help"
      <3>1. OpenLine(init) /\ window # "input"
        BY <1>9, <2>2 DEF LeaveHelp
      <3> QED
        BY <1>0, <3>1, LineBegins DEF NcEditor!LineNext
    <2> QED
      BY <2>1, <2>2
  <1>10. CASE FoundSymbols
    BY <1>10, LineStays DEF FoundSymbols, OpenPage
  <1>11. CASE LeaveMessage
    <2>1. CASE caller = "exit"
      BY <1>11, <2>1, LineStays DEF LeaveMessage
    <2>2. CASE caller # "exit"
      <3>1. OpenLine(init) /\ window # "input"
        BY <1>11, <2>2 DEF LeaveMessage
      <3> QED
        BY <1>0, <3>1, LineBegins DEF NcEditor!LineNext
    <2> QED
      BY <2>1, <2>2
  <1>12. CASE UNCHANGED dialogvars
    BY <1>12, LineStays DEF dialogvars
  <1> QED
    BY <1>1, <1>2, <1>3, <1>4, <1>5, <1>6, <1>7, <1>8, <1>9, <1>10, <1>11, <1>12 DEF DialogNext

LEMMA DialogStarts ==
  ASSUME DialogInit
  PROVE  LineInv /\ PageInv /\ ExitInv /\ NcEditor!LineInit
  <1>1. window = "none" /\ init = <<>> /\ result_len = 0 /\ cursor_position = 0 /\ result = <<>>
    BY DEF DialogInit
  <1>2. LineInv
    <2>1. init \in Seq(NcChars) /\ Len(init) = 0 /\ 0 <= NcMaxLen
      BY <1>1, DialogConstants
    <2> QED
      BY <1>1, <2>1 DEF LineInv
  <1>3. TextLen = 0
    <2>1. {n \in DOMAIN result : result[n] = 0} \cup {result_len} = {0}
      BY <1>1
    <2>2. Min({0}) = 0
      BY DEF Min
    <2> QED
      BY <2>1, <2>2 DEF TextLen
  <1>4. NcPart(0, cursor_position) = <<>> /\ NcPart(cursor_position, TextLen) = <<>>
    <2>1. NcPart(0, 0) = Piece(result, 0, 0)
      BY DEF NcPart, Piece
    <2>2. Holds(result, 0)
      BY DEF Holds
    <2>3. Piece(result, 0, 0) = <<>>
      BY <2>2, FirstPieceIsSeq, EmptySeq
    <2> QED
      BY <1>1, <1>3, <2>1, <2>3
  <1> QED
    BY <1>1, <1>2, <1>4, ExitStarts DEF PageInv, NcEditor!LineInit

\* nconf's dialogs do what they show, for every text, window and order of dialogs: the
\* line is edited as the keys say, in a buffer that grows and is read beyond its end; the
\* cursor and the scrolled text stay in their windows; and the program does not end with
\* changes that no file has unless the user was told (dialog_inputbox, show_scroll_win,
\* do_exit).
THEOREM DialogsCorrect == DialogSpec => DialogsAreTrue
  <1>1. DialogInit => LineInv /\ PageInv /\ ExitInv /\ NcEditor!LineInit
    BY DialogStarts
  <1>2. LineInv /\ PageInv /\ ExitInv /\ [DialogNext]_dialogvars =>
          /\ LineInv' /\ PageInv' /\ ExitInv'
          /\ [NcEditor!LineNext]_<<window = "input", NcPart(0, cursor_position),
                                   NcPart(cursor_position, TextLen)>>
    BY LineStep, PageStep, ExitStep
  <1>3. LineInv => LineInSight
    <2> SUFFICES ASSUME LineInv, window = "input" PROVE LineInSight
      BY DEF LineInSight
    <2>1. /\ TextLen < result_len /\ cursor_position \in 0..TextLen /\ cursor_position \in Nat
          /\ cursor_form_win \in Nat /\ cursor_form_win <= cursor_position
          /\ prompt_width \in Nat \ {0} /\ cursor_form_win < prompt_width
      BY LineOf DEF LineInv
    <2>2. cursor_form_win \in 0..Min({cursor_position, prompt_width - 1})
      <3>1. prompt_width - 1 \in Int /\ cursor_form_win <= prompt_width - 1
        BY <2>1
      <3> QED
        BY <2>1, <3>1, MinOfTwo
    <2> QED
      BY <2>1, <2>2 DEF LineInSight
  <1>4. PageInv => PageInSight
    BY PageIsInSight
  <1>5. ExitInv => ExitTells
    BY DEF ExitInv, ExitTells
  <1> QED
    BY <1>1, <1>2, <1>3, <1>4, <1>5, PTL DEF DialogSpec, DialogsAreTrue, NcEditor!LineSpec

-----------------------------------------------------------------------------
(* nconf: the place of the list                                            *)

\* The current item is one of the list, and in sight.
ListOK(l) ==
  /\ l \in [n : Nat, rows : Nat, top : Nat, cur : Nat]
  /\ l.rows > 0 /\ l.rows <= l.n /\ l.top <= l.n - l.rows
  /\ l.top <= l.cur /\ l.cur < l.top + l.rows

\* What only scrolls or goes to another item.
Moves(l, m) == ListOK(m) /\ m.n = l.n /\ m.rows = l.rows

PutAt(l, t, c) == [l EXCEPT !.top = t, !.cur = c]

LEMMA Placed ==
  ASSUME NEW l, ListOK(l), NEW t \in Nat, NEW c \in Nat,
         t <= l.n - l.rows, t <= c, c < t + l.rows
  PROVE  Moves(l, PutAt(l, t, c)) /\ PutAt(l, t, c).top = t /\ PutAt(l, t, c).cur = c
  <1>1. /\ PutAt(l, t, c) \in [n : Nat, rows : Nat, top : Nat, cur : Nat]
        /\ PutAt(l, t, c).n = l.n /\ PutAt(l, t, c).rows = l.rows
        /\ PutAt(l, t, c).top = t /\ PutAt(l, t, c).cur = c
    BY DEF ListOK, PutAt
  <1>2. ListOK(PutAt(l, t, c))
    BY <1>1 DEF ListOK
  <1> QED
    BY <1>1, <1>2 DEF Moves

LEMMA TopIsSet ==
  ASSUME NEW l, ListOK(l), NEW row \in Int
  PROVE  /\ Moves(l, SetTopRow(l, row))
         /\ row \in 0..l.n - l.rows => SetTopRow(l, row).top = row
  <1>1. CASE row \in 0..l.n - l.rows /\ row # l.top
    <2>1. SetTopRow(l, row) = PutAt(l, row, row)
      BY <1>1 DEF SetTopRow, PutAt
    <2>2. row \in Nat /\ row <= l.n - l.rows /\ row < row + l.rows
      BY <1>1 DEF ListOK
    <2> QED
      BY <2>1, <2>2, Placed
  <1>2. CASE ~(row \in 0..l.n - l.rows /\ row # l.top)
    BY <1>2 DEF SetTopRow, Moves
  <1> QED
    BY <1>1, <1>2

LEMMA GoneTo ==
  ASSUME NEW l, ListOK(l), NEW i \in Int
  PROVE  /\ Moves(l, GoTo(l, i))
         /\ i \in 0..l.n - 1 => GoTo(l, i).cur = i
         /\ i \in l.top..l.top + l.rows - 1 => GoTo(l, i).top = l.top
  <1>1. CASE i \notin 0..l.n - 1
    BY <1>1 DEF GoTo, Moves, ListOK
  <1>2. CASE i \in 0..l.n - 1
    <2> DEFINE t == IF i < l.top THEN i ELSE IF i >= l.top + l.rows THEN i - l.rows + 1 ELSE l.top
    <2>1. GoTo(l, i) = PutAt(l, t, i)
      <3>1. GoTo(l, i) = [l EXCEPT !.cur = i, !.top = t]
        BY <1>2 DEF GoTo
      <3> HIDE DEF t
      <3> QED
        BY <3>1 DEF ListOK, PutAt
    <2>2. t \in Nat /\ t <= l.n - l.rows /\ t <= i /\ i < t + l.rows
      BY <1>2 DEF ListOK
    <2>3. i \in l.top..l.top + l.rows - 1 => t = l.top
      BY DEF ListOK
    <2> HIDE DEF t
    <2>4. i \in Nat
      BY <1>2
    <2> QED
      BY <2>1, <2>2, <2>3, <2>4, Placed
  <1> QED
    BY <1>1, <1>2

LEMMA Driven ==
  ASSUME NEW l, ListOK(l),
         NEW r \in {"down", "up", "first", "last", "page_down", "page_up"}
  PROVE  Moves(l, Drive(l, r))
  <1> DEFINE down == Min({l.n - l.rows - l.top, l.rows})
             up == Min({l.top, l.rows})
  <1>1. l.n \in Nat /\ l.rows \in Nat /\ l.top \in Nat /\ l.cur \in Nat
    BY DEF ListOK
  <1>2. /\ down \in Nat /\ down <= l.n - l.rows - l.top
        /\ up \in Nat /\ up <= l.top
    <2>1. /\ down = IF l.n - l.rows - l.top <= l.rows THEN l.n - l.rows - l.top ELSE l.rows
          /\ up = IF l.top <= l.rows THEN l.top ELSE l.rows
      BY <1>1, MinOfTwo
    <2> HIDE DEF down, up
    <2> QED
      BY <1>1, <2>1 DEF ListOK
  <1>3. CASE r \in {"down", "up", "first", "last"}
    <2>1. PICK i \in Int : Drive(l, r) = GoTo(l, i)
      <3>1. l.cur + 1 \in Int /\ l.cur - 1 \in Int /\ 0 \in Int /\ l.n - 1 \in Int
        BY <1>1
      <3>2. \/ Drive(l, r) = GoTo(l, l.cur + 1)
            \/ Drive(l, r) = GoTo(l, l.cur - 1)
            \/ Drive(l, r) = GoTo(l, 0)
            \/ Drive(l, r) = GoTo(l, l.n - 1)
        BY <1>3 DEF Drive
      <3> QED
        BY <3>1, <3>2
    <2> QED
      BY <2>1, GoneTo
  <1>4. CASE r = "page_down"
    <2>1. Drive(l, r) = PutAt(l, l.top + down, l.cur + down)
      BY <1>4 DEF Drive, PutAt
    <2> HIDE DEF down, up
    <2>2. /\ l.top + down \in Nat /\ l.cur + down \in Nat
          /\ l.top + down <= l.n - l.rows /\ l.top + down <= l.cur + down
          /\ l.cur + down < l.top + down + l.rows
      BY <1>1, <1>2 DEF ListOK
    <2> QED
      BY <2>1, <2>2, Placed
  <1>5. CASE r = "page_up"
    <2>1. Drive(l, r) = PutAt(l, l.top - up, l.cur - up)
      BY <1>5 DEF Drive, PutAt
    <2> HIDE DEF down, up
    <2>2. /\ l.top - up \in Nat /\ l.cur - up \in Nat
          /\ l.top - up <= l.n - l.rows /\ l.top - up <= l.cur - up
          /\ l.cur - up < l.top - up + l.rows
      BY <1>1, <1>2 DEF ListOK
    <2> QED
      BY <2>1, <2>2, Placed
  <1> QED
    BY <1>3, <1>4, <1>5

\* The list is centered on an item, and stays where it was last if that is in sight.
LEMMA Centered ==
  ASSUME NEW l, ListOK(l), NEW n \in Nat, NEW r \in Nat, l.n = n, l.rows = r,
         NEW i \in Int, NEW row \in Int,
         height' \in Nat, r <= height'
  PROVE  /\ Moves(l, CenterItem(l, i, row).list) /\ CenterItem(l, i, row).row \in Int
         /\ i \in 0..n - 1 => CenterItem(l, i, row).list.cur = i
         /\ 0 <= row /\ row <= n - r /\ row <= i /\ i < row + r =>
              CenterItem(l, i, row).list.top = row
  <1> DEFINE c == CenterItem(l, i, row)
             at == SetTopRow(l, row)
             half == i - height' \div 2
             other == Min({Max({half, 0}), l.n - height'})
             seen == i >= at.top /\ i < at.top + height'
  <1>1. c = IF seen THEN [list |-> GoTo(at, i), row |-> at.top]
            ELSE [list |-> GoTo(SetTopRow(at, other), i), row |-> other]
    BY DEF CenterItem
  <1>2. ListOK(at) /\ at.n = n /\ at.rows = r /\ (row \in 0..n - r => at.top = row)
    BY TopIsSet DEF Moves
  <1>3. at.top \in Nat
    BY <1>2 DEF ListOK
  <1>4. other \in Int
    <2>1. half \in Int
      OBVIOUS
    <2> HIDE DEF half
    <2>2. Max({half, 0}) \in Int
      BY <2>1, MaxOfTwo
    <2>3. l.n - height' \in Int
      OBVIOUS
    <2> HIDE DEF half
    <2>4. \A a, b \in Int : Min({a, b}) \in Int
      BY MinOfTwo
    <2> QED
      BY <2>2, <2>3, <2>4
  <1> HIDE DEF other, at
  <1>5. CASE seen
    <2>1. c.list = GoTo(at, i) /\ c.row = at.top
      BY <1>1, <1>5
    <2>2. /\ Moves(at, GoTo(at, i))
          /\ i \in 0..n - 1 => GoTo(at, i).cur = i
          /\ i \in at.top..at.top + r - 1 => GoTo(at, i).top = at.top
      BY <1>2, GoneTo
    <2>3. 0 <= row /\ row <= n - r => at.top = row
      BY <1>2, <1>3
    <2>4. ASSUME 0 <= row, row <= n - r, row <= i, i < row + r
          PROVE  GoTo(at, i).top = row
      <3>1. at.top = row
        BY <2>3, <2>4
      <3>2. i < row + r => i <= row + r - 1
        OBVIOUS
      <3>3. i <= row + r - 1 /\ row + r - 1 \in Int
        BY <1>3, <2>4, <3>2
      <3>4. i \in row..row + r - 1
        BY <2>4, <3>3
      <3> QED
        BY <2>2, <3>1, <3>4
    <2> QED
      BY <1>2, <1>3, <2>1, <2>2, <2>4 DEF Moves
  <1>6. CASE ~seen
    <2>1. c.list = GoTo(SetTopRow(at, other), i) /\ c.row = other
      BY <1>1, <1>6
    <2>2. Moves(at, SetTopRow(at, other))
      BY <1>2, <1>4, TopIsSet
    <2>3. /\ Moves(at, GoTo(SetTopRow(at, other), i))
          /\ i \in 0..n - 1 => GoTo(SetTopRow(at, other), i).cur = i
      BY <1>2, <2>2, GoneTo DEF Moves
    <2>4. ASSUME 0 <= row, row <= n - r, row <= i, i < row + r
          PROVE  FALSE
      <3>1. at.top = row
        BY <1>2, <1>3, <2>4
      <3>2. \A h \in Nat : r <= h => i < row + h
        BY <2>4
      <3>3. i < row + height'
        BY <3>2, Zenon
      <3>4. i >= row
        BY <2>4
      <3> QED
        BY <1>6, <3>1, <3>3, <3>4, Zenon
    <2> QED
      BY <1>2, <1>4, <2>1, <2>3, <2>4 DEF Moves
  <1> QED
    BY <1>5, <1>6

-----------------------------------------------------------------------------
(* nconf: searching a list that goes round                                 *)

LEMMA GoneRound ==
  ASSUME NEW n \in Nat, n > 0
  PROVE  /\ \A x \in 0..n - 1 : x % n = x
         /\ \A x \in n..2 * n - 1 : x % n = x - n
         /\ \A x \in 2 * n..3 * n - 1 : x % n = x - 2 * n
  <1>1. \A x \in 0..n - 1 : x % n = x
    OBVIOUS
  <1>2. \A x \in n..2 * n - 1 : x % n = x - n
    OBVIOUS
  <1>3. \A x \in 2 * n..3 * n - 1 : x % n = x - 2 * n
    OBVIOUS
  <1> QED
    BY <1>1, <1>2, <1>3

\* From c on, the item that is j places further down, and how far an item is.
LEMMA RoundDown ==
  ASSUME NEW n \in Nat, n > 0, NEW c \in 0..n - 1
  PROVE  /\ \A j \in 0..n : /\ (c + j + n) % n \in 0..n - 1
                            /\ (((c + j + n) % n) - c + n) % n = IF j = n THEN 0 ELSE j
         /\ \A i \in 0..n - 1 : /\ (i - c + n) % n \in 0..n - 1
                                /\ (c + ((i - c + n) % n) + n) % n = i
                                /\ (i - c + n) % n = 0 => (c + n + n) % n = i
  <1>1. ASSUME NEW j \in 0..n
        PROVE  /\ (c + j + n) % n \in 0..n - 1
               /\ (((c + j + n) % n) - c + n) % n = IF j = n THEN 0 ELSE j
    <2>1. CASE c + j < n
      <3>1. c + j + n \in n..2 * n - 1 /\ (c + j + n) - n = c + j
        BY <2>1
      <3>2. (c + j + n) % n = c + j
        BY <3>1, GoneRound
      <3>3. (c + j) - c + n = j + n /\ j + n \in n..2 * n - 1 /\ (j + n) - n = j /\ j # n
        BY <2>1
      <3>4. (j + n) % n = j
        BY <3>3, GoneRound
      <3> QED
        BY <2>1, <3>2, <3>3, <3>4
    <2>2. CASE c + j >= n
      <3>1. c + j + n \in 2 * n..3 * n - 1 /\ (c + j + n) - 2 * n = c + j - n
        BY <2>2
      <3>2. (c + j + n) % n = c + j - n
        BY <3>1, GoneRound
      <3>3. (c + j - n) - c + n = j /\ c + j - n \in 0..n - 1
        BY <2>2
      <3>4. j % n = IF j = n THEN 0 ELSE j
        <4>1. CASE j = n
          <5>1. n \in n..2 * n - 1 /\ n - n = 0
            OBVIOUS
          <5> QED
            BY <4>1, <5>1, GoneRound
        <4>2. CASE j # n
          <5>1. j \in 0..n - 1
            BY <4>2
          <5> QED
            BY <4>2, <5>1, GoneRound
        <4> QED
          BY <4>1, <4>2
      <3> QED
        BY <3>2, <3>3, <3>4
    <2> QED
      BY <2>1, <2>2
  <1>2. ASSUME NEW i \in 0..n - 1
        PROVE  /\ (i - c + n) % n \in 0..n - 1
               /\ (c + ((i - c + n) % n) + n) % n = i
               /\ (i - c + n) % n = 0 => (c + n + n) % n = i
    <2>1. CASE i < c
      <3>1. i - c + n \in 0..n - 1 /\ i - c + n # 0
        BY <2>1
      <3>2. (i - c + n) % n = i - c + n
        BY <3>1, GoneRound
      <3>3. c + (i - c + n) + n = i + 2 * n /\ i + 2 * n \in 2 * n..3 * n - 1 /\ (i + 2 * n) - 2 * n = i
        OBVIOUS
      <3>4. (i + 2 * n) % n = i
        BY <3>3, GoneRound
      <3> QED
        BY <3>1, <3>2, <3>3, <3>4
    <2>2. CASE i >= c
      <3>1. i - c + n \in n..2 * n - 1 /\ (i - c + n) - n = i - c /\ i - c \in 0..n - 1
        BY <2>2
      <3>2. (i - c + n) % n = i - c
        BY <3>1, GoneRound
      <3>3. c + (i - c) + n = i + n /\ i + n \in n..2 * n - 1 /\ (i + n) - n = i
        OBVIOUS
      <3>4. (i + n) % n = i
        BY <3>3, GoneRound
      <3>5. i - c = 0 => (c + n + n) % n = i
        <4>1. c + n + n \in 2 * n..3 * n - 1 /\ (c + n + n) - 2 * n = c
          OBVIOUS
        <4>2. (c + n + n) % n = c
          BY <4>1, GoneRound
        <4> QED
          BY <4>2
      <3> QED
        BY <3>1, <3>2, <3>3, <3>4, <3>5
    <2> QED
      BY <2>1, <2>2
  <1> QED
    BY <1>1, <1>2

LEMMA RoundUp ==
  ASSUME NEW n \in Nat, n > 0, NEW c \in 0..n - 1
  PROVE  /\ \A j \in 0..n : /\ (c - j + n) % n \in 0..n - 1
                            /\ (c - ((c - j + n) % n) + n) % n = IF j = n THEN 0 ELSE j
         /\ \A i \in 0..n - 1 : /\ (c - i + n) % n \in 0..n - 1
                                /\ (c - ((c - i + n) % n) + n) % n = i
                                /\ (c - i + n) % n = 0 => (c - n + n) % n = i
  <1>1. ASSUME NEW j \in 0..n
        PROVE  /\ (c - j + n) % n \in 0..n - 1
               /\ (c - ((c - j + n) % n) + n) % n = IF j = n THEN 0 ELSE j
    <2>1. CASE j > c
      <3>1. c - j + n \in 0..n - 1
        BY <2>1
      <3>2. (c - j + n) % n = c - j + n
        BY <3>1, GoneRound
      <3>3. c - (c - j + n) + n = j
        OBVIOUS
      <3>4. j % n = IF j = n THEN 0 ELSE j
        <4>1. CASE j = n
          <5>1. n \in n..2 * n - 1 /\ n - n = 0
            OBVIOUS
          <5> QED
            BY <4>1, <5>1, GoneRound
        <4>2. CASE j # n
          <5>1. j \in 0..n - 1
            BY <4>2
          <5> QED
            BY <4>2, <5>1, GoneRound
        <4> QED
          BY <4>1, <4>2
      <3> QED
        BY <3>1, <3>2, <3>3, <3>4
    <2>2. CASE j <= c
      <3>1. c - j + n \in n..2 * n - 1 /\ (c - j + n) - n = c - j /\ c - j \in 0..n - 1 /\ j # n
        BY <2>2
      <3>2. (c - j + n) % n = c - j
        BY <3>1, GoneRound
      <3>3. c - (c - j) + n = j + n /\ j + n \in n..2 * n - 1 /\ (j + n) - n = j
        BY <2>2
      <3>4. (j + n) % n = j
        BY <3>3, GoneRound
      <3> QED
        BY <3>1, <3>2, <3>3, <3>4
    <2> QED
      BY <2>1, <2>2
  <1>2. ASSUME NEW i \in 0..n - 1
        PROVE  /\ (c - i + n) % n \in 0..n - 1
               /\ (c - ((c - i + n) % n) + n) % n = i
               /\ (c - i + n) % n = 0 => (c - n + n) % n = i
    <2>1. CASE i > c
      <3>1. c - i + n \in 0..n - 1 /\ c - i + n # 0
        BY <2>1
      <3>2. (c - i + n) % n = c - i + n
        BY <3>1, GoneRound
      <3>3. c - (c - i + n) + n = i
        OBVIOUS
      <3>4. i % n = i
        BY GoneRound
      <3> QED
        BY <3>1, <3>2, <3>3, <3>4
    <2>2. CASE i <= c
      <3>1. c - i + n \in n..2 * n - 1 /\ (c - i + n) - n = c - i /\ c - i \in 0..n - 1
        BY <2>2
      <3>2. (c - i + n) % n = c - i
        BY <3>1, GoneRound
      <3>3. c - (c - i) + n = i + n /\ i + n \in n..2 * n - 1 /\ (i + n) - n = i
        OBVIOUS
      <3>4. (i + n) % n = i
        BY <3>3, GoneRound
      <3>5. c - i = 0 => (c - n + n) % n = i
        <4>1. c - n + n = c /\ c \in 0..n - 1
          OBVIOUS
        <4>2. c % n = c
          BY <4>1, GoneRound
        <4> QED
          BY <4>1, <4>2
      <3> QED
        BY <3>1, <3>2, <3>3, <3>4, <3>5
    <2> QED
      BY <2>1, <2>2
  <1> QED
    BY <1>1, <1>2

FirstOf(S) == CHOOSE k \in S : \A j \in S : k <= j
FarOf(n, off, away, i) == IF off = 1 /\ away[i] = 0 THEN n ELSE away[i]

LEMMA OneLess ==
  ASSUME NEW n \in Nat, NEW off \in Nat, off <= 1, NEW a \in 0..n - 1, ~(off = 1 /\ a = 0)
  PROVE  a - off \in 0..n - 1
  <1>1. CASE off = 0
    BY <1>1
  <1>2. CASE off = 1
    BY <1>2
  <1> QED
    BY <1>1, <1>2

\* Going through all places, from the one next to the first or from the first, the
\* match that is met first is the nearest.
Rounds(n, off, place, away, matches, found) ==
  /\ n \in Nat /\ n > 0 /\ off \in Nat /\ off <= 1
  /\ place \in [0..n -> 0..n - 1] /\ away \in [0..n - 1 -> 0..n - 1]
  /\ \A j \in 0..n : away[place[j]] = IF j = n THEN 0 ELSE j
  /\ \A i \in 0..n - 1 : place[away[i]] = i /\ (away[i] = 0 => place[n] = i)
  /\ matches \in SUBSET (0..n - 1)
  /\ found = {k \in 0..n - 1 : place[k + off] \in matches}

FirstIsNearest(n, off, place, away, matches, found) ==
  /\ found = {} <=> matches = {}
  /\ found # {} =>
       /\ FirstOf(found) \in 0..n - 1
       /\ place[FirstOf(found) + off] \in matches
       /\ \A i \in matches :
            FarOf(n, off, away, place[FirstOf(found) + off]) <= FarOf(n, off, away, i)

LEMMA Nearest ==
  ASSUME NEW n, NEW off, NEW place, NEW away, NEW matches, NEW found,
         Rounds(n, off, place, away, matches, found)
  PROVE  FirstIsNearest(n, off, place, away, matches, found)
  <1> USE DEF Rounds
  <1> /\ n \in Nat /\ n > 0 /\ off \in Nat /\ off <= 1
      /\ place \in [0..n -> 0..n - 1] /\ away \in [0..n - 1 -> 0..n - 1]
      /\ \A j \in 0..n : away[place[j]] = IF j = n THEN 0 ELSE j
      /\ \A i \in 0..n - 1 : place[away[i]] = i /\ (away[i] = 0 => place[n] = i)
      /\ matches \in SUBSET (0..n - 1)
      /\ found = {k \in 0..n - 1 : place[k + off] \in matches}
    OBVIOUS
  <1> HIDE DEF Rounds
  <1>1. ASSUME NEW i \in 0..n - 1
        PROVE  /\ FarOf(n, off, away, i) - off \in 0..n - 1
               /\ place[FarOf(n, off, away, i)] = i
    <2>1. away[i] \in 0..n - 1
      OBVIOUS
    <2>2. CASE off = 1 /\ away[i] = 0
      <3>1. n - off \in 0..n - 1 /\ place[n] = i
        BY <2>2
      <3> QED
        BY <2>2, <3>1 DEF FarOf
    <2>3. CASE ~(off = 1 /\ away[i] = 0)
      <3>1. place[away[i]] = i
        OBVIOUS
      <3>3. away[i] - off \in 0..n - 1
        BY <2>1, <2>3, OneLess, Zenon
      <3> QED
        BY <2>3, <3>1, <3>3 DEF FarOf
    <2> QED
      BY <2>2, <2>3
  <1>2. ASSUME NEW k \in 0..n - 1
        PROVE  FarOf(n, off, away, place[k + off]) = k + off
    <2>1. k + off \in 0..n
      OBVIOUS
    <2>2. away[place[k + off]] = IF k + off = n THEN 0 ELSE k + off
      BY <2>1
    <2>3. k + off = n => off = 1
      OBVIOUS
    <2>4. off = 1 => k + off # 0
      OBVIOUS
    <2>5. CASE k + off = n
      <3>1. off = 1 /\ away[place[k + off]] = 0
        BY <2>2, <2>3, <2>5, Zenon
      <3> QED
        BY <2>5, <3>1, Zenon DEF FarOf
    <2>6. CASE k + off # n
      <3>1. away[place[k + off]] = k + off
        BY <2>2, <2>6, Zenon
      <3> QED
        BY <2>4, <3>1, Zenon DEF FarOf
    <2> QED
      BY <2>5, <2>6
  <1>3. ASSUME NEW i \in matches
        PROVE  FarOf(n, off, away, i) - off \in found
    <2> i \in 0..n - 1
      OBVIOUS
    <2>1. (FarOf(n, off, away, i) - off) + off = FarOf(n, off, away, i)
      <3>1. FarOf(n, off, away, i) \in Int /\ off \in Int
        BY DEF FarOf
      <3> QED
        BY <3>1
    <2> DEFINE k == FarOf(n, off, away, i) - off
    <2>2. k \in 0..n - 1 /\ k + off = FarOf(n, off, away, i) /\ place[FarOf(n, off, away, i)] = i
      BY <1>1, <2>1
    <2>3. k \in 0..n - 1 /\ place[k + off] \in matches
      BY <2>2, Zenon
    <2> HIDE DEF k
    <2>4. k \in found
      BY <2>3
    <2> QED
      BY <2>4 DEF k
  <1>4. found = {} <=> matches = {}
    BY <1>3
  <1>5. ASSUME found # {}
        PROVE  /\ FirstOf(found) \in 0..n - 1
               /\ place[FirstOf(found) + off] \in matches
               /\ \A i \in matches :
                    FarOf(n, off, away, place[FirstOf(found) + off]) <= FarOf(n, off, away, i)
    <2> DEFINE first == FirstOf(found)
    <2>1. first \in found /\ \A j \in found : first <= j
      <3>1. found \subseteq Nat
        OBVIOUS
      <3>2. \E k \in found : \A j \in found : k <= j
        BY <1>5, <3>1, LeastElement, Zenon
      <3> QED
        BY <3>2 DEF FirstOf
    <2>2. first \in 0..n - 1 /\ place[first + off] \in matches
      BY <2>1
    <2>3. ASSUME NEW i \in matches
          PROVE  first + off <= FarOf(n, off, away, i)
      <3>1. FarOf(n, off, away, i) \in Int /\ off \in Int
        BY DEF FarOf
      <3>2. first <= FarOf(n, off, away, i) - off
        BY <1>3, <2>1
      <3> HIDE DEF first
      <3> QED
        BY <2>2, <3>1, <3>2
    <2> HIDE DEF first
    <2>4. FarOf(n, off, away, place[first + off]) = first + off
      BY <1>2, <2>2
    <2> QED
      BY <2>2, <2>3, <2>4 DEF first
  <1> QED
    BY <1>4, <1>5, Zenon DEF FirstIsNearest

NcUps == {"next_up", "tinker_up"}
NcNexts == {"next_up", "next_down"}
NcDirections == {"tinker_down", "tinker_up", "next_down", "next_up"}

\* As in SearchFinds.
MatchesOf(pattern) == {i \in 0..N - 1 : Matches(ItemOf(F, i), pattern)}
AwayOf(d, i) == IF d \in NcUps THEN (cur - i + N) % N ELSE (i - cur + N) % N
FarIn(d, i) == IF d \in NcNexts /\ AwayOf(d, i) = 0 THEN N ELSE AwayOf(d, i)

LEMMA Searched ==
  ASSUME N \in Nat, N > 0, cur \in 0..N - 1, NEW pattern, NEW d \in NcDirections
  PROVE  /\ MatchesOf(pattern) # {} =>
              /\ MextMatch(pattern, d).ends = "keys"
              /\ MextMatch(pattern, d).ans \in MatchesOf(pattern)
              /\ \A i \in MatchesOf(pattern) : FarIn(d, MextMatch(pattern, d).ans) <= FarIn(d, i)
         /\ MatchesOf(pattern) = {} =>
              /\ MextMatch(pattern, d).ans = Nowhere
              /\ \/ MextMatch(pattern, d).ends = "keys"
                 \/ MextMatch(pattern, d).ends = "hung" /\ d \in NcNexts /\ cur \in {0, N - 1}
  <1> DEFINE step == IF d \in NcUps THEN -1 ELSE 1
             start == CASE d = "next_down" -> cur + 1
                        [] d = "next_up" -> cur - 1
                        [] OTHER -> cur
             found == {k \in 0..N - 1 : Matches(ItemOf(F, (start + k * step + N) % N), pattern)}
             first == FirstOf(found)
             off == IF d \in NcNexts THEN 1 ELSE 0
             place == [j \in 0..N |-> IF d \in NcUps THEN (cur - j + N) % N ELSE (cur + j + N) % N]
             away == [i \in 0..N - 1 |-> AwayOf(d, i)]
             all == MatchesOf(pattern)
  <1>1. MextMatch(pattern, d) =
          IF found # {} THEN [ends |-> "keys", ans |-> (start + first * step + N) % N]
          ELSE [ends |-> IF start \in 0..N - 1 THEN "keys" ELSE "hung", ans |-> Nowhere]
    BY DEF MextMatch, NcUps, FirstOf
  <1>2. ASSUME NEW k \in 0..N - 1
        PROVE  k + off \in 0..N /\ (start + k * step + N) % N = place[k + off]
    <2>1. k + off \in 0..N
      OBVIOUS
    <2>2. CASE d \in NcUps
      <3>1. start + k * step = cur - (k + off)
        BY <2>2 DEF NcUps, NcNexts
      <3> HIDE DEF start, step, off
      <3> QED
        BY <2>1, <2>2, <3>1
    <2>3. CASE d \notin NcUps
      <3>1. start + k * step = cur + (k + off)
        BY <2>3 DEF NcUps, NcNexts, NcDirections
      <3> HIDE DEF start, step, off
      <3> QED
        BY <2>1, <2>3, <3>1
    <2> QED
      BY <2>1, <2>2, <2>3
  <1>3. off \in Nat /\ off <= 1 /\ (off = 1 <=> d \in NcNexts)
    OBVIOUS
  <1>4. start \notin 0..N - 1 => d \in NcNexts /\ cur \in {0, N - 1}
    BY DEF NcNexts
  <1> HIDE DEF step, start, off
  <1>5. /\ place \in [0..N -> 0..N - 1] /\ away \in [0..N - 1 -> 0..N - 1]
        /\ \A j \in 0..N : away[place[j]] = IF j = N THEN 0 ELSE j
        /\ \A i \in 0..N - 1 : place[away[i]] = i /\ (away[i] = 0 => place[N] = i)
    <2>1. CASE d \in NcUps
      <3>1. /\ \A j \in 0..N : place[j] = (cur - j + N) % N
            /\ \A i \in 0..N - 1 : away[i] = (cur - i + N) % N
        BY <2>1 DEF AwayOf
      <3>2. /\ \A j \in 0..N : /\ (cur - j + N) % N \in 0..N - 1
                               /\ (cur - ((cur - j + N) % N) + N) % N = IF j = N THEN 0 ELSE j
            /\ \A i \in 0..N - 1 : /\ (cur - i + N) % N \in 0..N - 1
                                   /\ (cur - ((cur - i + N) % N) + N) % N = i
                                   /\ (cur - i + N) % N = 0 => (cur - N + N) % N = i
        BY RoundUp, Zenon
      <3>3. place \in [0..N -> 0..N - 1] /\ away \in [0..N - 1 -> 0..N - 1]
        BY <2>1, <3>1, <3>2 DEF AwayOf
      <3> HIDE DEF place, away
      <3>4. ASSUME NEW j \in 0..N PROVE away[place[j]] = IF j = N THEN 0 ELSE j
        <4>1. /\ place[j] \in 0..N - 1 /\ place[j] = (cur - j + N) % N
              /\ away[place[j]] = (cur - place[j] + N) % N
          BY <3>1, <3>2, Zenon
        <4>2. (cur - ((cur - j + N) % N) + N) % N = IF j = N THEN 0 ELSE j
          BY <3>2, Zenon
        <4> QED
          BY <4>1, <4>2, Zenon
      <3>5. ASSUME NEW i \in 0..N - 1
            PROVE  place[away[i]] = i /\ (away[i] = 0 => place[N] = i)
        <4>1. /\ away[i] \in 0..N - 1 /\ away[i] = (cur - i + N) % N
              /\ away[i] \in 0..N
          <5>1. away[i] = (cur - i + N) % N /\ (cur - i + N) % N \in 0..N - 1
            BY <3>1, <3>2, Zenon
          <5>2. \A j \in 0..N - 1 : j \in 0..N
            OBVIOUS
          <5> QED
            BY <5>1, <5>2, Zenon
        <4>2. N \in 0..N
          OBVIOUS
        <4>3. place[away[i]] = (cur - away[i] + N) % N /\ place[N] = (cur - N + N) % N
          BY <3>1, <4>1, <4>2, Zenon
        <4>4. /\ (cur - ((cur - i + N) % N) + N) % N = i
              /\ (cur - i + N) % N = 0 => (cur - N + N) % N = i
          BY <3>2, Zenon
        <4> QED
          BY <4>1, <4>3, <4>4, Zenon
      <3> QED
        BY <3>3, <3>4, <3>5
    <2>2. CASE d \notin NcUps
      <3>1. /\ \A j \in 0..N : place[j] = (cur + j + N) % N
            /\ \A i \in 0..N - 1 : away[i] = (i - cur + N) % N
        BY <2>2 DEF AwayOf
      <3>2. /\ \A j \in 0..N : /\ (cur + j + N) % N \in 0..N - 1
                               /\ (((cur + j + N) % N) - cur + N) % N = IF j = N THEN 0 ELSE j
            /\ \A i \in 0..N - 1 : /\ (i - cur + N) % N \in 0..N - 1
                                   /\ (cur + ((i - cur + N) % N) + N) % N = i
                                   /\ (i - cur + N) % N = 0 => (cur + N + N) % N = i
        BY RoundDown, Zenon
      <3>3. place \in [0..N -> 0..N - 1] /\ away \in [0..N - 1 -> 0..N - 1]
        BY <2>2, <3>1, <3>2 DEF AwayOf
      <3> HIDE DEF place, away
      <3>4. ASSUME NEW j \in 0..N PROVE away[place[j]] = IF j = N THEN 0 ELSE j
        <4>1. /\ place[j] \in 0..N - 1 /\ place[j] = (cur + j + N) % N
              /\ away[place[j]] = (place[j] - cur + N) % N
          BY <3>1, <3>2, Zenon
        <4>2. (((cur + j + N) % N) - cur + N) % N = IF j = N THEN 0 ELSE j
          BY <3>2, Zenon
        <4> QED
          BY <4>1, <4>2, Zenon
      <3>5. ASSUME NEW i \in 0..N - 1
            PROVE  place[away[i]] = i /\ (away[i] = 0 => place[N] = i)
        <4>1. /\ away[i] \in 0..N - 1 /\ away[i] = (i - cur + N) % N
              /\ away[i] \in 0..N
          <5>1. away[i] = (i - cur + N) % N /\ (i - cur + N) % N \in 0..N - 1
            BY <3>1, <3>2, Zenon
          <5>2. \A j \in 0..N - 1 : j \in 0..N
            OBVIOUS
          <5> QED
            BY <5>1, <5>2, Zenon
        <4>2. N \in 0..N
          OBVIOUS
        <4>3. place[away[i]] = (cur + away[i] + N) % N /\ place[N] = (cur + N + N) % N
          BY <3>1, <4>1, <4>2, Zenon
        <4>4. /\ (cur + ((i - cur + N) % N) + N) % N = i
              /\ (i - cur + N) % N = 0 => (cur + N + N) % N = i
          BY <3>2, Zenon
        <4> QED
          BY <4>1, <4>3, <4>4, Zenon
      <3> QED
        BY <3>3, <3>4, <3>5
    <2> QED
      BY <2>1, <2>2
  <1>6. all \in SUBSET (0..N - 1)
    BY DEF MatchesOf
  <1>7. found = {k \in 0..N - 1 : place[k + off] \in all}
    <2>1. ASSUME NEW k \in 0..N - 1
          PROVE  Matches(ItemOf(F, (start + k * step + N) % N), pattern) <=> place[k + off] \in all
      <3>1. k + off \in 0..N /\ (start + k * step + N) % N = place[k + off] /\ place[k + off] \in 0..N - 1
        BY <1>2, <1>5
      <3> HIDE DEF place
      <3> QED
        BY <3>1, Zenon DEF MatchesOf
    <2> HIDE DEF place, all
    <2> QED
      BY <2>1, Zenon
  <1>8. \A i \in 0..N - 1 : FarIn(d, i) = FarOf(N, off, away, i)
    BY <1>3 DEF FarIn, FarOf
  <1> HIDE DEF place, away, all, found
  <1>9. /\ found = {} <=> all = {}
        /\ found # {} =>
              /\ first \in 0..N - 1
              /\ place[first + off] \in all
              /\ \A i \in all : FarOf(N, off, away, place[first + off]) <= FarOf(N, off, away, i)
    <2>1. /\ N \in Nat /\ N > 0 /\ off \in Nat /\ off <= 1
          /\ place \in [0..N -> 0..N - 1] /\ away \in [0..N - 1 -> 0..N - 1]
          /\ all \in SUBSET (0..N - 1)
      BY <1>3, <1>5, <1>6, Zenon
    <2>2. /\ \A j \in 0..N : away[place[j]] = IF j = N THEN 0 ELSE j
          /\ \A i \in 0..N - 1 : place[away[i]] = i /\ (away[i] = 0 => place[N] = i)
      BY <1>5, Zenon
    <2>3. Rounds(N, off, place, away, all, found)
      BY <2>1, <2>2, <1>7, Zenon DEF Rounds
    <2> QED
      BY <2>3, Nearest, Zenon DEF FirstIsNearest
  <1>10. CASE all # {}
    <2>1. /\ first \in 0..N - 1 /\ place[first + off] \in all
          /\ \A i \in all : FarOf(N, off, away, place[first + off]) <= FarOf(N, off, away, i)
      BY <1>9, <1>10, Zenon
    <2> HIDE DEF first
    <2>2. MextMatch(pattern, d) = [ends |-> "keys", ans |-> place[first + off]]
      BY <1>1, <1>2, <1>9, <1>10, <2>1, Zenon DEF first
    <2>3. MextMatch(pattern, d).ends = "keys" /\ MextMatch(pattern, d).ans = place[first + off]
      BY <2>2
    <2>4. \A i \in all : i \in 0..N - 1
      BY <1>6
    <2>5. \A i \in all : FarIn(d, place[first + off]) <= FarIn(d, i)
      BY <1>8, <2>1, <2>4, Zenon
    <2> QED
      BY <1>10, <2>1, <2>3, <2>5, Zenon DEF all
  <1>11. CASE all = {}
    <2>1. MextMatch(pattern, d) = [ends |-> IF start \in 0..N - 1 THEN "keys" ELSE "hung", ans |-> Nowhere]
      BY <1>1, <1>9, <1>11, Zenon
    <2>2. /\ MextMatch(pattern, d).ends = IF start \in 0..N - 1 THEN "keys" ELSE "hung"
          /\ MextMatch(pattern, d).ans = Nowhere
      BY <2>1
    <2> QED
      BY <1>4, <1>11, <2>2, Zenon DEF all
  <1> QED
    BY <1>10, <1>11

-----------------------------------------------------------------------------
(* nconf: the calls, and the list of the last one                          *)

NcItem == [id : Nat, tag : STRING, str : Seq(Letters)]

NcFrames ==
  [kind : {"menu", "choice"}, items : Seq(NcItem), active : {Nowhere} \cup Values,
   index : Int, last_top_row : Int, in_search : BOOLEAN, direction : NcDirections,
   pattern : Seq(Letters)]

\* A menu that something was entered from knows where it was.
Remembered(f) == f.kind = "menu" /\ f.active = Nowhere /\ f.index \in Nat /\ f.last_top_row \in Nat

OuterOK(outer) == outer \in Seq(NcFrames) /\ \A i \in 1..Len(outer) : Remembered(outer[i])

FrameOK(f) == f \in NcFrames /\ (f.kind = "menu" => f.active = Nowhere)

ListNow == [n |-> item_count, rows |-> Min({item_count, height}), top |-> top, cur |-> cur]

\* While a key is waited for, the library has the items of the last call, if
\* there are any, and their place is one.
KeysOK ==
  /\ frames \in Seq(NcFrames) /\ frames # <<>> /\ OuterOK(Front(frames)) /\ FrameOK(F)
  /\ ListOK(ListNow)
  /\ N > 0 => item_count = N

NcInv ==
  /\ height \in Nat /\ height > 0
  /\ ncpc = "keys" => KeysOK
  /\ CurrentIsSeen

LEMMA Appended ==
  ASSUME NEW S, NEW s \in Seq(S), NEW e \in S
  PROVE  /\ Append(s, e) \in Seq(S) /\ Append(s, e) # <<>> /\ Len(Append(s, e)) = Len(s) + 1
         /\ Last(Append(s, e)) = e /\ Front(Append(s, e)) = s
  <1>1. /\ Append(s, e) \in Seq(S) /\ Append(s, e) # <<>> /\ Len(Append(s, e)) = Len(s) + 1
        /\ Append(s, e)[Len(s) + 1] = e
    OBVIOUS
  <1>2. Front(Append(s, e)) = s
    <2>1. Front(Append(s, e)) = SubSeq(Append(s, e), 1, Len(s))
      BY <1>1 DEF Front
    <2> QED
      BY <2>1
  <1> QED
    BY <1>1, <1>2 DEF Last

LEMMA FrontAndLast ==
  ASSUME NEW S, NEW s \in Seq(S), s # <<>>
  PROVE  /\ Front(s) \in Seq(S) /\ Last(s) \in S /\ Len(Front(s)) = Len(s) - 1
         /\ \A i \in 1..Len(s) - 1 : Front(s)[i] = s[i]
  <1>1. Len(s) \in Nat /\ Len(s) > 0 /\ s = [i \in 1..Len(s) |-> s[i]]
    OBVIOUS
  <1>2. Front(s) = SubSeq(s, 1, Len(s) - 1)
    BY DEF Front
  <1>3. SubSeq(s, 1, Len(s) - 1) \in Seq(S)
    OBVIOUS
  <1>4. Len(SubSeq(s, 1, Len(s) - 1)) = Len(s) - 1
    BY <1>1
  <1>5. \A i \in 1..Len(s) - 1 : SubSeq(s, 1, Len(s) - 1)[i] = s[i]
    BY <1>1
  <1>6. Last(s) \in S
    BY <1>1 DEF Last
  <1> QED
    BY <1>2, <1>3, <1>4, <1>5, <1>6

LEMMA InList ==
  ASSUME NEW l, ListOK(l), NEW h \in Nat, l.rows <= h
  PROVE  l.cur \in 0..l.n - 1 /\ InSight(l.top, l.cur, h)
  BY DEF ListOK, InSight

LEMMA ListPlaced ==
  ASSUME NEW n \in Nat, n > 0, NEW t, NEW c, height' \in Nat, height' > 0
  PROVE  /\ ListPlace(n, t, c).n = n /\ ListPlace(n, t, c).rows = Min({n, height'})
         /\ ListPlace(n, t, c).top = t /\ ListPlace(n, t, c).cur = c
         /\ Min({n, height'}) \in Nat /\ Min({n, height'}) > 0
         /\ Min({n, height'}) <= n /\ Min({n, height'}) <= height'
         /\ ListOK(ListPlace(n, 0, 0))
  <1>1. Min({n, height'}) = IF n <= height' THEN n ELSE height'
    BY MinOfTwo
  <1> DEFINE r == Min({n, height'})
  <1>2. r \in Nat /\ r > 0 /\ r <= n /\ r <= height'
    BY <1>1
  <1>3. /\ ListPlace(n, t, c).n = n /\ ListPlace(n, t, c).rows = r
        /\ ListPlace(n, t, c).top = t /\ ListPlace(n, t, c).cur = c
        /\ ListPlace(n, 0, 0) = [n |-> n, rows |-> r, top |-> 0, cur |-> 0]
    BY DEF ListPlace
  <1> HIDE DEF r
  <1>4. ListOK(ListPlace(n, 0, 0))
    BY <1>2, <1>3 DEF ListOK
  <1> QED
    BY <1>2, <1>3, <1>4 DEF r

\* What was put in its place is where it is.
LEMMA PutInPlace ==
  ASSUME NEW m, ListOK(m), Place(m), m.rows = Min({m.n, height'}),
         height' \in Nat, height' > 0
  PROVE  ListOK(ListNow)' /\ cur' \in 0..m.n - 1 /\ InSight(top', cur', height')
  <1>1. m \in [n : Nat, rows : Nat, top : Nat, cur : Nat] /\ m.n \in Nat /\ m.n > 0
    BY DEF ListOK
  <1>2. m.rows <= height'
    BY <1>1, ListPlaced
  <1>3. ListNow' = m
    BY <1>1 DEF Place, ListNow
  <1>4. m.cur \in 0..m.n - 1 /\ InSight(m.top, m.cur, height')
    BY <1>2, InList
  <1> QED
    BY <1>3, <1>4 DEF Place

\* A list of n items, r of them in sight, can be at the place that f remembers.
StillThere(f, n, r) ==
  /\ 0 <= f.last_top_row /\ f.last_top_row <= n - r
  /\ f.last_top_row <= f.index /\ f.index < f.last_top_row + r

\* What show_menu shows of f: its items, at the place that it remembers, if
\* that is one still.
ShownWell(outer, f) ==
  /\ ncpc' \in {"keys", "crashed"} /\ KeysOK' /\ CurrentIsSeen'
  /\ Last(frames').items = f.items
  /\ f.items # <<>> /\ f.index \in 0..Len(f.items) - 1 => cur' = f.index
  /\ f.items # <<>> /\ StillThere(f, Len(f.items), Min({Len(f.items), height'})) =>
       top' = f.last_top_row

LEMMA MenuShown ==
  ASSUME NEW outer, NEW f, OuterOK(outer), FrameOK(f),
         f.kind = "menu" => f.index # Nowhere,
         f.items = <<>> => item_count \in Nat /\ item_count > 0,
         height' \in Nat, height' > 0, ShowMenuOf(outer, f)
  PROVE  ShownWell(outer, f)
  <1> DEFINE n == IF f.items = <<>> THEN item_count ELSE Len(f.items)
             r == Min({n, height'})
             l == ListPlace(n, 0, 0)
             c == CenterItem(l, f.index, f.last_top_row)
             g == [f EXCEPT !.last_top_row = c.row]
  <1>1. /\ f.items \in Seq(NcItem) /\ f.index \in Int /\ f.last_top_row \in Int
        /\ f \in NcFrames
    BY DEF FrameOK, NcFrames
  <1>2. n \in Nat /\ n > 0
    BY <1>1
  <1>3. /\ Place(c.list) /\ frames' = Append(outer, g)
        /\ ncpc' = "keys" \/ (f.index = Nowhere /\ ncpc' = "crashed")
    BY DEF ShowMenuOf
  <1>4. f.items # <<>> => n = Len(f.items)
    OBVIOUS
  <1> HIDE DEF n
  <1>5. /\ ListOK(l) /\ l.n = n /\ l.rows = r /\ r \in Nat /\ r <= height'
    <2>1. ListPlace(n, 0, 0).n = n /\ ListPlace(n, 0, 0).rows = Min({n, height'})
      BY DEF ListPlace
    <2>2. Min({n, height'}) \in Nat /\ Min({n, height'}) <= height'
      BY <1>2, ListPlaced, Zenon
    <2>3. ListOK(ListPlace(n, 0, 0))
      BY <1>2, ListPlaced, Zenon
    <2> QED
      BY <2>1, <2>2, <2>3, Zenon
  <1> HIDE DEF l, r
  <1>6. /\ Moves(l, c.list) /\ c.row \in Int
        /\ f.index \in 0..n - 1 => c.list.cur = f.index
        /\ StillThere(f, n, r) => c.list.top = f.last_top_row
    BY <1>1, <1>2, <1>5, Centered DEF StillThere
  <1> HIDE DEF c
  <1>7. ListOK(c.list) /\ c.list.n = n /\ c.list.rows = Min({n, height'})
    BY <1>5, <1>6 DEF Moves, r
  <1>8. ListOK(ListNow)' /\ cur' \in 0..n - 1 /\ InSight(top', cur', height') /\ item_count' = n
    BY <1>3, <1>7, PutInPlace DEF Place
  <1>9. /\ g \in NcFrames /\ g.items = f.items /\ g.kind = f.kind /\ g.active = f.active
    BY <1>1, <1>6 DEF NcFrames
  <1> HIDE DEF g
  <1>10. /\ frames' \in Seq(NcFrames) /\ frames' # <<>>
         /\ Last(frames') = g /\ Front(frames') = outer
    BY <1>3, <1>9, Appended DEF OuterOK
  <1>11. KeysOK'
    <2>1. OuterOK(Front(frames))'
      BY <1>10 DEF OuterOK, Remembered
    <2>2. FrameOK(F)'
      BY <1>9, <1>10 DEF FrameOK, F
    <2>3. N' > 0 => item_count' = N'
      <3>1. N' = Len(f.items)
        BY <1>9, <1>10 DEF N, F
      <3>2. N' > 0 => f.items # <<>>
        BY <3>1
      <3> QED
        BY <1>4, <1>8, <3>1, <3>2
    <2> QED
      BY <1>8, <1>10, <2>1, <2>2, <2>3 DEF KeysOK
  <1>12. CurrentIsSeen'
    <2>1. N' = Len(f.items) /\ (N' > 0 => f.items # <<>>) /\ F'.kind = f.kind /\ N' \in Nat
      BY <1>1, <1>9, <1>10 DEF N, F
    <2>2. N' > 0 => cur' \in 0..N' - 1 /\ InSight(top', cur', height')
      BY <1>4, <1>8, <2>1
    <2>3. ncpc' = "crashed" => F'.kind = "choice"
      BY <1>1, <1>3, <2>1 DEF NcFrames
    <2>4. ncpc' # "hung"
      BY <1>3
    <2> QED
      BY <2>2, <2>3, <2>4 DEF CurrentIsSeen
  <1>13. ncpc' \in {"keys", "crashed"} /\ Last(frames').items = f.items
    BY <1>3, <1>9, <1>10
  <1>14. f.items # <<>> /\ f.index \in 0..Len(f.items) - 1 => cur' = f.index
    BY <1>3, <1>4, <1>6 DEF Place
  <1>15. f.items # <<>> /\ StillThere(f, Len(f.items), Min({Len(f.items), height'})) =>
           top' = f.last_top_row
    <2>1. f.items # <<>> => n = Len(f.items) /\ r = Min({Len(f.items), height'})
      BY <1>4, Zenon DEF r
    <2>2. c.list.top = top'
      BY <1>3 DEF Place
    <2> QED
      BY <1>6, <2>1, <2>2, Zenon
  <1> QED
    BY <1>11, <1>12, <1>13, <1>14, <1>15 DEF ShownWell

\* The loops around it add only where a choice looks for its value.
LEMMA LoopShown ==
  ASSUME NEW outer, NEW f, OuterOK(outer), FrameOK(f),
         f.kind = "menu" => f.index # Nowhere,
         f.items = <<>> => item_count \in Nat /\ item_count > 0,
         top \in Nat, height' \in Nat, height' > 0, ShowLoop(outer, f)
  PROVE  /\ ncpc' \in {"keys", "crashed"} /\ KeysOK' /\ CurrentIsSeen'
         /\ f.active = Nowhere => ShownWell(outer, f)
  <1> DEFINE active == {i \in 0..Len(f.items) - 1 : ItemOf(f, i).id = f.active}
             i == CHOOSE j \in active : TRUE
             g == [f EXCEPT !.index = i, !.last_top_row = top]
  <1>1. CASE active = {}
    <2>1. ShowMenuOf(outer, f)
      BY <1>1 DEF ShowLoop
    <2>2. ShownWell(outer, f)
      BY <2>1, MenuShown
    <2> QED
      BY <2>2 DEF ShownWell
  <1>2. CASE active # {}
    <2>1. ShowMenuOf(outer, g)
      BY <1>2 DEF ShowLoop
    <2>2. i \in active /\ i \in Nat
      BY <1>2
    <2>3. f.items \in Seq(NcItem)
      BY DEF FrameOK, NcFrames
    <2>4. f.active # Nowhere
      <3>1. i \in 0..Len(f.items) - 1 /\ f.items[i + 1].id = f.active
        BY <2>2 DEF ItemOf
      <3> HIDE DEF i
      <3>2. i + 1 \in 1..Len(f.items)
        BY <2>3, <3>1
      <3>3. f.items[i + 1] \in NcItem
        BY <2>3, <3>2
      <3> QED
        BY <3>1, <3>3 DEF NcItem, Nowhere
    <2> HIDE DEF i
    <2>5. /\ FrameOK(g) /\ g.index = i /\ g.items = f.items /\ g.kind = f.kind
      <3>1. f \in NcFrames /\ i \in Int /\ top \in Int
        BY <2>2 DEF FrameOK
      <3>2. /\ g \in NcFrames /\ g.index = i /\ g.items = f.items /\ g.kind = f.kind
            /\ g.active = f.active
        BY <3>1 DEF NcFrames
      <3> HIDE DEF g
      <3> QED
        BY <3>2 DEF FrameOK
    <2> HIDE DEF g
    <2>6. ShownWell(outer, g)
      BY <2>1, <2>2, <2>5, MenuShown DEF Nowhere
    <2> QED
      BY <2>4, <2>6 DEF ShownWell
  <1> QED
    BY <1>1, <1>2

\* What changes the last call only, and not its items, keeps the list in order
\* if it puts what was in order in its place.
LEMMA LastChanged ==
  ASSUME KeysOK, NEW g, FrameOK(g), g.items = F.items, Change(g),
         NEW m, ListOK(m), Place(m), m.n = item_count, m.rows = Min({m.n, height'}),
         height' \in Nat, height' > 0
  PROVE  /\ KeysOK' /\ F' = g /\ N' = N
         /\ N' > 0 => cur' \in 0..N' - 1 /\ InSight(top', cur', height')
  <1>1. Front(frames) \in Seq(NcFrames) /\ g \in NcFrames /\ OuterOK(Front(frames))
    BY DEF KeysOK, OuterOK, FrameOK
  <1>2. /\ frames' \in Seq(NcFrames) /\ frames' # <<>>
        /\ Last(frames') = g /\ Front(frames') = Front(frames)
    BY <1>1, Appended DEF Change
  <1>3. F' = g /\ N' = N
    BY <1>2 DEF F, N
  <1>4. OuterOK(Front(frames))'
    BY <1>1, <1>2 DEF OuterOK, Remembered
  <1>5. /\ ListOK(ListNow)' /\ cur' \in 0..m.n - 1 /\ InSight(top', cur', height')
        /\ item_count' = m.n
    BY PutInPlace DEF Place
  <1>6. N > 0 => item_count = N
    BY DEF KeysOK
  <1>7. FrameOK(F)'
    BY <1>3 DEF FrameOK
  <1> QED
    BY <1>2, <1>3, <1>4, <1>5, <1>6, <1>7 DEF KeysOK

\* The list as it is.
LEMMA NothingMoves ==
  ASSUME KeysOK, height \in Nat, height > 0, SameHeight
  PROVE  /\ ListOK(ListPlace(item_count, top, cur)) /\ item_count \in Nat /\ item_count > 0
         /\ top \in Nat /\ cur \in Nat
         /\ ListPlace(item_count, top, cur).n = item_count
         /\ ListPlace(item_count, top, cur).rows = Min({item_count, height'})
         /\ Min({item_count, height'}) \in Nat /\ Min({item_count, height'}) <= height'
         /\ Stay => Place(ListPlace(item_count, top, cur))
         /\ N \in Nat /\ (N > 0 => cur \in 0..N - 1 /\ item_count = N)
  <1> DEFINE r == Min({item_count, height})
  <1>1. ListOK(ListNow) /\ ListNow = [n |-> item_count, rows |-> r, top |-> top, cur |-> cur]
    BY DEF KeysOK, ListNow
  <1>2. Min({item_count, height'}) = r
    BY DEF SameHeight
  <1>3. ListPlace(item_count, top, cur) = ListNow
    BY <1>2 DEF ListPlace, ListNow
  <1> HIDE DEF r
  <1>4. /\ item_count \in Nat /\ r \in Nat /\ top \in Nat /\ cur \in Nat
        /\ r > 0 /\ r <= item_count /\ top <= item_count - r /\ top <= cur /\ cur < top + r
    BY <1>1 DEF ListOK
  <1>5. r <= height'
    BY <1>2, <1>4, ListPlaced DEF SameHeight
  <1>6. N \in Nat
    BY FrontAndLast DEF KeysOK, FrameOK, NcFrames, N
  <1>7. N > 0 => cur \in 0..N - 1 /\ item_count = N
    BY <1>4 DEF KeysOK
  <1>8. Stay => Place(ListPlace(item_count, top, cur))
    BY <1>1, <1>3 DEF Place, Stay
  <1> QED
    BY <1>1, <1>2, <1>3, <1>4, <1>5, <1>6, <1>7, <1>8

LEMMA LookedFor ==
  ASSUME KeysOK, height \in Nat, height > 0, SameHeight,
         NEW f, FrameOK(f), f.items = F.items, LookFor(f)
  PROVE  /\ KeysOK' /\ CurrentIsSeen'
         /\ Last(frames').pattern = f.pattern /\ Last(frames').direction = f.direction
         /\ MatchesOf(f.pattern) = {} => Stay
         /\ MatchesOf(f.pattern) # {} =>
              /\ cur' \in MatchesOf(f.pattern) /\ InSight(top', cur', height')
              /\ \A i \in MatchesOf(f.pattern) : FarIn(f.direction, cur') <= FarIn(f.direction, i)
  <1> DEFINE m == MextMatch(f.pattern, f.direction)
             l == ListPlace(item_count, top, cur)
             c == CenterItem(l, m.ans, f.last_top_row)
             all == MatchesOf(f.pattern)
             g1 == [f EXCEPT !.index = m.ans]
             g2 == [f EXCEPT !.index = m.ans, !.last_top_row = c.row]
  <1>1. /\ ListOK(l) /\ item_count \in Nat /\ item_count > 0 /\ top \in Nat /\ cur \in Nat
        /\ l.n = item_count /\ l.rows = Min({item_count, height'})
        /\ Min({item_count, height'}) \in Nat /\ Min({item_count, height'}) <= height'
        /\ N \in Nat /\ (N > 0 => cur \in 0..N - 1 /\ item_count = N)
        /\ Stay => Place(l)
    BY NothingMoves
  <1>2. height' \in Nat /\ height' > 0
    BY DEF SameHeight
  <1>3. f \in NcFrames /\ f.direction \in NcDirections /\ f.last_top_row \in Int
    BY DEF FrameOK, NcFrames
  <1>4. /\ ncpc' = m.ends
        /\ IF m.ans = Nowhere THEN Change(g1) /\ Stay ELSE Change(g2) /\ Place(c.list)
    BY DEF LookFor
  <1>5. all \subseteq 0..N - 1
    BY DEF MatchesOf
  <1>6. all # {} => N > 0
    <2> SUFFICES ASSUME all # {} PROVE N > 0
      OBVIOUS
    <2>1. PICK i \in all : i \in 0..N - 1
      BY <1>5
    <2> QED
      BY <1>1, <2>1
  <1>7. /\ all # {} =>
             /\ m.ends = "keys" /\ m.ans \in all
             /\ \A i \in all : FarIn(f.direction, m.ans) <= FarIn(f.direction, i)
        /\ all = {} =>
             /\ m.ans = Nowhere
             /\ \/ N > 0 /\ m.ends = "keys"
                \/ N = 0 /\ m.ends = "crashed"
                \/ N > 0 /\ m.ends = "hung" /\ f.direction \in NcNexts /\ cur \in {0, N - 1}
    <2>1. CASE N = 0
      <3>1. m = [ends |-> "crashed", ans |-> Nowhere]
        BY <2>1 DEF MextMatch
      <3>2. m.ends = "crashed" /\ m.ans = Nowhere
        BY <3>1
      <3> QED
        BY <1>6, <2>1, <3>2
    <2>2. CASE N > 0
      BY <1>1, <1>3, <2>2, Searched, Zenon
    <2> QED
      BY <1>1, <2>1, <2>2
  <1> HIDE DEF m, l, all
  <1>8. CASE all = {}
    <2>1. Change(g1) /\ Stay /\ Place(l) /\ m.ans \in Int
      BY <1>1, <1>4, <1>7, <1>8 DEF Nowhere
    <2>2. /\ g1 \in NcFrames /\ g1.items = f.items /\ g1.kind = f.kind /\ g1.active = f.active
          /\ g1.pattern = f.pattern /\ g1.direction = f.direction
      BY <1>3, <2>1 DEF NcFrames
    <2> HIDE DEF g1
    <2>3. FrameOK(g1) /\ g1.items = F.items
      BY <2>2 DEF FrameOK
    <2>4. /\ KeysOK' /\ F' = g1 /\ N' = N
          /\ N' > 0 => cur' \in 0..N' - 1 /\ InSight(top', cur', height')
      BY <1>1, <1>2, <2>1, <2>3, LastChanged
    <2>5. ASSUME ncpc' = "hung"
          PROVE  /\ \A i \in 0..N' - 1 : ~Matches(ItemOf(F', i), F'.pattern)
                 /\ F'.direction \in {"next_up", "next_down"} /\ cur' \in {0, N' - 1}
      <3>1. ASSUME NEW i \in 0..N' - 1 PROVE ~Matches(ItemOf(F', i), F'.pattern)
        <4>1. ItemOf(F', i) = ItemOf(F, i) /\ F'.pattern = f.pattern /\ i \in 0..N - 1
          BY <2>2, <2>3, <2>4 DEF ItemOf
        <4>2. i \notin MatchesOf(f.pattern)
          BY <1>8 DEF all
        <4> QED
          BY <4>1, <4>2 DEF MatchesOf
      <3>2. f.direction \in NcNexts /\ cur \in {0, N - 1}
        BY <1>4, <1>7, <1>8, <2>5
      <3> QED
        BY <2>1, <2>2, <2>4, <3>1, <3>2 DEF NcNexts, Stay
    <2>6. ncpc' = "crashed" => N' = 0
      BY <1>4, <1>7, <1>8, <2>4
    <2>7. CurrentIsSeen'
      BY <2>4, <2>5, <2>6, Zenon DEF CurrentIsSeen
    <2>8. Last(frames').pattern = f.pattern /\ Last(frames').direction = f.direction
      BY <2>2, <2>4 DEF F
    <2> QED
      BY <1>8, <2>1, <2>4, <2>7, <2>8 DEF all
  <1>9. CASE all # {}
    <2>1. m.ans \in 0..N - 1 /\ N > 0 /\ m.ends = "keys" /\ item_count = N
      BY <1>1, <1>5, <1>6, <1>7, <1>9
    <2>2. m.ans \in Int /\ m.ans # Nowhere /\ m.ans \in 0..item_count - 1
      BY <2>1 DEF Nowhere
    <2>3. Change(g2) /\ Place(c.list) /\ ncpc' = "keys"
      BY <1>4, <2>1, <2>2
    <2>4. /\ Moves(l, c.list) /\ c.row \in Int
          /\ m.ans \in 0..item_count - 1 => c.list.cur = m.ans
      BY <1>1, <1>2, <1>3, <2>2, Centered
    <2> HIDE DEF c
    <2>5. /\ g2 \in NcFrames /\ g2.items = f.items /\ g2.kind = f.kind /\ g2.active = f.active
          /\ g2.pattern = f.pattern /\ g2.direction = f.direction
      BY <1>3, <2>2, <2>4 DEF NcFrames
    <2> HIDE DEF g2
    <2>6. FrameOK(g2) /\ g2.items = F.items
      BY <2>5 DEF FrameOK
    <2>7. /\ ListOK(c.list) /\ c.list.n = item_count /\ c.list.rows = Min({c.list.n, height'})
          /\ cur' = m.ans
      BY <1>1, <2>2, <2>3, <2>4 DEF Moves, Place
    <2>8. /\ KeysOK' /\ F' = g2 /\ N' = N
          /\ N' > 0 => cur' \in 0..N' - 1 /\ InSight(top', cur', height')
      BY <1>2, <2>3, <2>6, <2>7, LastChanged
    <2>9. CurrentIsSeen'
      BY <2>3, <2>8, Zenon DEF CurrentIsSeen
    <2>10. Last(frames').pattern = f.pattern /\ Last(frames').direction = f.direction
      BY <2>5, <2>8 DEF F
    <2>11. InSight(top', cur', height')
      BY <2>1, <2>8
    <2> QED
      BY <1>7, <1>9, <2>7, <2>8, <2>9, <2>10, <2>11, Zenon DEF all
  <1> QED
    BY <1>8, <1>9

LEMMA LeftWell ==
  ASSUME KeysOK, top \in Nat, cur \in Nat
  PROVE  /\ FrameOK(Left) /\ Left.kind = F.kind
         /\ F.kind = "menu" => Remembered(Left)
         /\ FrameOK(SearchOver([F EXCEPT !.index = Nowhere]))
         /\ SearchOver([F EXCEPT !.index = Nowhere]).items = F.items
  <1> DEFINE f1 == [F EXCEPT !.index = Nowhere]
             f2 == [F EXCEPT !.index = cur, !.last_top_row = top]
  <1>1. F \in NcFrames /\ (F.kind = "menu" => F.active = Nowhere)
    BY DEF KeysOK, FrameOK
  <1>2. /\ f1 \in NcFrames /\ f1.kind = F.kind /\ f1.active = F.active /\ f1.items = F.items
        /\ f2 \in NcFrames /\ f2.kind = F.kind /\ f2.active = F.active
        /\ f2.index = cur /\ f2.last_top_row = top
    <2>1. f1 \in NcFrames /\ f1.kind = F.kind /\ f1.active = F.active /\ f1.items = F.items
      <3>1. Nowhere \in Int
        BY DEF Nowhere
      <3> QED
        BY <1>1, <3>1 DEF NcFrames
    <2>2. /\ f2 \in NcFrames /\ f2.kind = F.kind /\ f2.active = F.active
          /\ f2.index = cur /\ f2.last_top_row = top
      <3>1. cur \in Int /\ top \in Int
        OBVIOUS
      <3> QED
        BY <1>1, <3>1 DEF NcFrames
    <2> QED
      BY <2>1, <2>2
  <1> HIDE DEF f1, f2
  <1>3. ASSUME NEW f \in NcFrames
        PROVE  /\ SearchOver(f) \in NcFrames /\ SearchOver(f).kind = f.kind
               /\ SearchOver(f).active = f.active /\ SearchOver(f).items = f.items
               /\ SearchOver(f).index = f.index /\ SearchOver(f).last_top_row = f.last_top_row
    <2>1. <<>> \in Seq(Letters) /\ "tinker_down" \in NcDirections
      BY DEF NcDirections
    <2> QED
      BY <2>1 DEF SearchOver, NcFrames
  <1>4. Left = IF F.kind = "choice" THEN SearchOver(f1) ELSE SearchOver(f2)
    BY DEF Left, f1, f2
  <1>5. FrameOK(Left) /\ Left.kind = F.kind
    BY <1>1, <1>2, <1>3, <1>4 DEF FrameOK
  <1>6. F.kind = "menu" => Remembered(Left)
    BY <1>1, <1>2, <1>3, <1>4 DEF Remembered
  <1>7. FrameOK(SearchOver(f1)) /\ SearchOver(f1).items = F.items
    BY <1>1, <1>2, <1>3 DEF FrameOK
  <1> QED
    BY <1>5, <1>6, <1>7 DEF f1

\* A call that begins.
LEMMA NewFrame ==
  ASSUME NEW kind \in {"menu", "choice"}, NEW items \in Seq(NcItem),
         NEW v \in {Nowhere} \cup Values, kind = "menu" => v = Nowhere
  PROVE  /\ FrameOK([NcFrame(kind, items) EXCEPT !.active = v])
         /\ [NcFrame(kind, items) EXCEPT !.active = v].index # Nowhere
         /\ [NcFrame(kind, items) EXCEPT !.active = v].items = items
         /\ v = Nowhere => [NcFrame(kind, items) EXCEPT !.active = v] = NcFrame(kind, items)
  <1> DEFINE none == NcFrame(kind, items)
             g == [none EXCEPT !.active = v]
  <1>1. /\ <<>> \in Seq(Letters) /\ "tinker_down" \in NcDirections /\ 0 \in Int
        /\ Nowhere \in {Nowhere} \cup Values
    BY DEF NcDirections
  <1>2. /\ none \in NcFrames /\ none.kind = kind /\ none.items = items /\ none.index = 0
        /\ none.active = Nowhere
    BY <1>1 DEF NcFrame, NcFrames
  <1> HIDE DEF none
  <1>3. /\ g \in NcFrames /\ g.kind = kind /\ g.items = items /\ g.index = 0 /\ g.active = v
    BY <1>2 DEF NcFrames
  <1>4. v = Nowhere => g = none
    BY <1>2 DEF NcFrames
  <1> HIDE DEF g
  <1>5. FrameOK(g) /\ g.index # Nowhere
    BY <1>3 DEF FrameOK, Nowhere
  <1> QED
    BY <1>3, <1>4, <1>5 DEF g, none

LEMMA NewMenu ==
  ASSUME NEW items \in Seq(NcItem)
  PROVE  /\ FrameOK(NcFrame("menu", items)) /\ NcFrame("menu", items).index # Nowhere
         /\ NcFrame("menu", items).items = items
  <1> DEFINE f == NcFrame("menu", items)
  <1>1. "menu" \in {"menu", "choice"} /\ Nowhere \in {Nowhere} \cup Values
    OBVIOUS
  <1>2. [f EXCEPT !.active = Nowhere] = f
    BY <1>1, NewFrame, Zenon
  <1>3. /\ FrameOK([f EXCEPT !.active = Nowhere])
        /\ [f EXCEPT !.active = Nowhere].index # Nowhere
        /\ [f EXCEPT !.active = Nowhere].items = items
    BY <1>1, NewFrame, Zenon
  <1> QED
    BY <1>2, <1>3, Zenon

LEMMA ItemsAreItems ==
  /\ \A items \in NcMenus \cup NcChoices : items \in Seq(NcItem)
  /\ \A h \in NcHeights : h \in Nat /\ h > 0
  <1>1. \A items \in NcMenus \cup NcChoices : items \in Seq(NcItem)
    BY NcMenuAssumption, Zenon DEF NcItem
  <1>2. NcHeights \subseteq Nat \ {0}
    BY NcMenuAssumption, Zenon
  <1>3. \A h \in NcHeights : h \in Nat /\ h > 0
    BY <1>2
  <1> QED
    BY <1>1, <1>3

LEMMA NcInvStarts ==
  ASSUME NcMenuInit
  PROVE  NcInv
  BY DEF NcMenuInit, NcInv, CurrentIsSeen

LEMMA RootEntered ==
  ASSUME EnterRoot
  PROVE  height' \in Nat /\ height' > 0 /\ KeysOK' /\ CurrentIsSeen'
  <1>1. PICK items \in NcMenus \ {<<>>} : ShowLoop(<<>>, NcFrame("menu", items))
    BY DEF EnterRoot
  <1>2. items \in Seq(NcItem) /\ height' \in Nat /\ height' > 0
    BY ItemsAreItems DEF EnterRoot
  <1> DEFINE f == NcFrame("menu", items)
  <1>3. /\ FrameOK(f) /\ f.index # Nowhere /\ f.items = items
    BY <1>2, NewMenu
  <1>4. OuterOK(<<>>)
    BY DEF OuterOK
  <1> HIDE DEF f
  <1>5. KeysOK' /\ CurrentIsSeen'
    <2>1. f.active = Nowhere
      BY DEF f, NcFrame
    <2>2. ShowMenuOf(<<>>, f)
      <3>1. {i \in 0..Len(f.items) - 1 : ItemOf(f, i).id = f.active} = {}
        <4>1. ASSUME NEW i \in 0..Len(f.items) - 1 PROVE ItemOf(f, i).id # f.active
          <5>1. f.items[i + 1] \in NcItem
            BY <1>2, <1>3
          <5> QED
            BY <2>1, <5>1 DEF ItemOf, NcItem, Nowhere
        <4> QED
          BY <4>1
      <3> QED
        BY <1>1, <3>1 DEF ShowLoop, f
    <2>3. ShownWell(<<>>, f)
      BY <1>1, <1>2, <1>3, <1>4, <2>2, MenuShown
    <2> QED
      BY <2>3 DEF ShownWell
  <1> QED
    BY <1>2, <1>5

LEMMA KeysStep ==
  ASSUME NcInv, ncpc = "keys"
  PROVE  /\ KeysOK /\ height \in Nat /\ height > 0
         /\ top \in Nat /\ cur \in Nat /\ item_count \in Nat /\ item_count > 0
         /\ Front(frames) \in Seq(NcFrames) /\ OuterOK(Front(frames)) /\ FrameOK(F)
         /\ N \in Nat
  <1>1. KeysOK /\ height \in Nat /\ height > 0
    BY DEF NcInv
  <1>2. ListNow = [n |-> item_count, rows |-> Min({item_count, height}), top |-> top, cur |-> cur]
    BY DEF ListNow
  <1>3. ListOK(ListNow)
    BY <1>1 DEF KeysOK
  <1>4. top \in Nat /\ cur \in Nat /\ item_count \in Nat
    BY <1>2, <1>3 DEF ListOK
  <1>5. item_count > 0
    <2>1. ListNow.rows > 0 /\ ListNow.rows <= ListNow.n /\ ListNow.rows \in Nat
      BY <1>3 DEF ListOK
    <2>2. ListNow.n = item_count
      BY <1>2
    <2> QED
      BY <1>4, <2>1, <2>2
  <1>6. F.items \in Seq(NcItem)
    BY <1>1 DEF KeysOK, FrameOK, NcFrames
  <1> QED
    BY <1>1, <1>4, <1>5, <1>6 DEF KeysOK, OuterOK, N

LEMMA MovedInMenu ==
  ASSUME NcInv, MoveInMenu
  PROVE  KeysOK' /\ CurrentIsSeen'
  <1> DEFINE l == ListPlace(item_count, top, cur)
             g == SearchOver([F EXCEPT !.index = Nowhere])
  <1>1. ncpc = "keys" /\ SameHeight /\ Change(g) /\ ncpc' = "keys"
    BY DEF MoveInMenu
  <1>2. PICK r \in {"down", "up", "first", "last", "page_down", "page_up"} : Place(Drive(l, r))
    BY DEF MoveInMenu
  <1>3. /\ KeysOK /\ height \in Nat /\ height > 0 /\ top \in Nat /\ cur \in Nat
        /\ height' \in Nat /\ height' > 0
    BY <1>1, KeysStep DEF SameHeight
  <1>4. ListOK(l) /\ l.n = item_count /\ l.rows = Min({item_count, height'})
    BY <1>1, <1>3, NothingMoves
  <1>5. FrameOK(g) /\ g.items = F.items
    BY <1>3, LeftWell
  <1> HIDE DEF l, g
  <1>6. Moves(l, Drive(l, r))
    BY <1>4, Driven
  <1> DEFINE m == Drive(l, r)
  <1>7. ListOK(m) /\ m.n = item_count /\ m.rows = Min({m.n, height'}) /\ Place(m)
    BY <1>2, <1>4, <1>6 DEF Moves
  <1> HIDE DEF m
  <1>8. /\ KeysOK'
        /\ N' > 0 => cur' \in 0..N' - 1 /\ InSight(top', cur', height')
    BY <1>1, <1>3, <1>5, <1>7, LastChanged
  <1> QED
    BY <1>1, <1>8, Zenon DEF CurrentIsSeen

\* Keys that leave the list as it is.
LEMMA OnlySearchChanged ==
  ASSUME NcInv, ncpc = "keys", SameHeight, ncpc' = "keys", Stay,
         NEW g, FrameOK(g), g.items = F.items, Change(g)
  PROVE  KeysOK' /\ CurrentIsSeen'
  <1> DEFINE l == ListPlace(item_count, top, cur)
  <1>1. /\ KeysOK /\ height \in Nat /\ height > 0 /\ height' \in Nat /\ height' > 0
    BY KeysStep DEF SameHeight
  <1>2. /\ ListOK(l) /\ l.n = item_count /\ l.rows = Min({item_count, height'})
        /\ Place(l)
    BY <1>1, NothingMoves
  <1> HIDE DEF l
  <1>3. /\ KeysOK'
        /\ N' > 0 => cur' \in 0..N' - 1 /\ InSight(top', cur', height')
    BY <1>1, <1>2, LastChanged
  <1> QED
    BY <1>3, Zenon DEF CurrentIsSeen

LEMMA SearchKeysOK ==
  ASSUME NcInv, ToggleSearch \/ EraseLetter
  PROVE  KeysOK' /\ CurrentIsSeen'
  <1>1. ncpc = "keys" /\ SameHeight /\ ncpc' = "keys" /\ Stay
    BY DEF ToggleSearch, EraseLetter
  <1>2. F \in NcFrames /\ (F.kind = "menu" => F.active = Nowhere)
    BY <1>1, KeysStep DEF FrameOK
  <1>3. CASE ToggleSearch
    <2> DEFINE b == ~F.in_search
               g == [F EXCEPT !.in_search = b, !.pattern = <<>>, !.direction = "tinker_down",
                              !.index = Nowhere]
    <2>1. Change(g)
      BY <1>3 DEF ToggleSearch
    <2>2. <<>> \in Seq(Letters) /\ "tinker_down" \in NcDirections /\ Nowhere \in Int
      BY DEF NcDirections, Nowhere
    <2> b \in BOOLEAN
      OBVIOUS
    <2> HIDE DEF b
    <2>3. g \in NcFrames /\ g.items = F.items /\ g.kind = F.kind /\ g.active = F.active
      BY <1>2, <2>2 DEF NcFrames
    <2> HIDE DEF g
    <2>4. FrameOK(g)
      BY <1>2, <2>3 DEF FrameOK
    <2> QED
      BY <1>1, <2>1, <2>3, <2>4, OnlySearchChanged
  <1>4. CASE EraseLetter
    <2> DEFINE p == IF F.pattern = <<>> THEN F.pattern ELSE Front(F.pattern)
               d == AdjMatchDir(F.direction)
               g == [F EXCEPT !.pattern = p, !.direction = d, !.index = Nowhere]
    <2>1. Change(g)
      BY <1>4 DEF EraseLetter
    <2>2. F.pattern \in Seq(Letters) /\ F.direction \in NcDirections
      BY <1>2 DEF NcFrames
    <2>3. p \in Seq(Letters)
      BY <2>2, FrontAndLast
    <2>4. d \in NcDirections
      BY <2>2 DEF AdjMatchDir, NcDirections
    <2> HIDE DEF p, d
    <2>5. g \in NcFrames /\ g.items = F.items /\ g.kind = F.kind /\ g.active = F.active
      <3>1. Nowhere \in Int
        BY DEF Nowhere
      <3> QED
        BY <1>2, <2>3, <2>4, <3>1 DEF NcFrames
    <2> HIDE DEF g
    <2>6. FrameOK(g)
      BY <1>2, <2>5 DEF FrameOK
    <2> QED
      BY <1>1, <2>1, <2>5, <2>6, OnlySearchChanged
  <1> QED
    BY <1>3, <1>4

LEMMA ItemsChanged ==
  ASSUME NcInv, ItemsChange
  PROVE  height' \in Nat /\ height' > 0 /\ KeysOK' /\ CurrentIsSeen'
  <1>1. PICK items \in NcMenus \cup NcChoices :
          ShowLoop(Front(frames), [Left EXCEPT !.items = items])
    BY DEF ItemsChange
  <1>2. /\ items \in Seq(NcItem) /\ height' \in Nat /\ height' > 0
    BY ItemsAreItems DEF ItemsChange
  <1>3. /\ KeysOK /\ top \in Nat /\ cur \in Nat /\ item_count \in Nat /\ item_count > 0
        /\ OuterOK(Front(frames))
    BY KeysStep DEF ItemsChange
  <1>4. /\ FrameOK(Left) /\ Left.kind = F.kind /\ (F.kind = "menu" => Remembered(Left))
    BY <1>3, LeftWell
  <1> DEFINE g == [Left EXCEPT !.items = items]
  <1>5. /\ g \in NcFrames /\ g.kind = Left.kind /\ g.active = Left.active /\ g.index = Left.index
    BY <1>2, <1>4 DEF FrameOK, NcFrames
  <1> HIDE DEF g
  <1>6. FrameOK(g) /\ (g.kind = "menu" => g.index # Nowhere)
    BY <1>4, <1>5 DEF FrameOK, Remembered, Nowhere
  <1>7. ShowLoop(Front(frames), g)
    BY <1>1 DEF g
  <1> QED
    BY <1>2, <1>3, <1>6, <1>7, LoopShown

LEMMA ItemEntered ==
  ASSUME NcInv, EnterItem
  PROVE  KeysOK' /\ CurrentIsSeen'
  <1> DEFINE outer == Append(Front(frames), Left)
  <1>1. /\ KeysOK /\ top \in Nat /\ cur \in Nat /\ item_count \in Nat /\ item_count > 0
        /\ OuterOK(Front(frames)) /\ height' \in Nat /\ height' > 0 /\ F.kind = "menu"
    BY KeysStep DEF EnterItem, SameHeight
  <1>2. FrameOK(Left) /\ Remembered(Left)
    BY <1>1, LeftWell
  <1>3. OuterOK(outer)
    <2>1. Front(frames) \in Seq(NcFrames) /\ Left \in NcFrames
      BY <1>1, <1>2 DEF OuterOK, FrameOK
    <2>2. outer \in Seq(NcFrames) /\ Len(outer) = Len(Front(frames)) + 1
      BY <2>1, Appended
    <2>3. ASSUME NEW i \in 1..Len(outer) PROVE Remembered(outer[i])
      <3>1. CASE i = Len(Front(frames)) + 1
        <4>1. outer[i] = Left
          BY <2>1, <3>1
        <4> QED
          BY <1>2, <4>1
      <3>2. CASE i # Len(Front(frames)) + 1
        <4>1. i \in 1..Len(Front(frames))
          BY <2>1, <2>2, <3>2
        <4>2. outer[i] = Front(frames)[i]
          BY <2>1, <4>1
        <4> QED
          BY <1>1, <4>1, <4>2 DEF OuterOK
      <3> QED
        BY <3>1, <3>2
    <2> QED
      BY <2>2, <2>3 DEF OuterOK
  <1> HIDE DEF outer
  <1>4. CASE \E items \in NcMenus : ShowLoop(outer, NcFrame("menu", items))
    <2>1. PICK items \in NcMenus : ShowLoop(outer, NcFrame("menu", items))
      BY <1>4
    <2>2. items \in Seq(NcItem)
      BY ItemsAreItems
    <2> DEFINE f == NcFrame("menu", items)
    <2>3. FrameOK(f) /\ f.index # Nowhere
      BY <2>2, NewMenu
    <2> HIDE DEF f
    <2>4. ShowLoop(outer, f)
      BY <2>1 DEF f
    <2> QED
      BY <1>1, <1>3, <2>3, <2>4, LoopShown
  <1>5. CASE \E items \in NcChoices, v \in Values :
               ShowLoop(outer, [NcFrame("choice", items) EXCEPT !.active = v])
    <2>1. PICK items \in NcChoices, v \in Values :
            ShowLoop(outer, [NcFrame("choice", items) EXCEPT !.active = v])
      BY <1>5
    <2>2. items \in Seq(NcItem)
      BY ItemsAreItems
    <2> DEFINE f == [NcFrame("choice", items) EXCEPT !.active = v]
    <2>3. FrameOK(f) /\ f.index # Nowhere
      BY <2>2, NewFrame
    <2> HIDE DEF f
    <2>4. ShowLoop(outer, f)
      BY <2>1 DEF f
    <2> QED
      BY <1>1, <1>3, <2>3, <2>4, LoopShown
  <1> QED
    BY <1>4, <1>5 DEF EnterItem, outer

LEMMA ListLeft ==
  ASSUME NcInv, LeaveList
  PROVE  /\ height' = height /\ CurrentIsSeen' /\ (ncpc' = "keys" => KeysOK')
         /\ LeavingComesBack
  <1>1. /\ KeysOK /\ top \in Nat /\ cur \in Nat /\ item_count \in Nat /\ item_count > 0
        /\ OuterOK(Front(frames)) /\ height' \in Nat /\ height' > 0 /\ height' = height
    BY KeysStep DEF LeaveList, SameHeight
  <1>2. CASE Len(frames) > 1
    <2> DEFINE inner == Front(frames)
               back == Last(inner)
    <2>1. PICK items \in NcMenus : ShowLoop(Front(inner), [back EXCEPT !.items = items])
      BY <1>2 DEF LeaveList
    <2>2. items \in Seq(NcItem)
      BY ItemsAreItems
    <2>3. inner \in Seq(NcFrames) /\ Len(inner) = Len(frames) - 1 /\ Len(frames) \in Nat
      BY <1>1, FrontAndLast DEF KeysOK
    <2> HIDE DEF inner
    <2>4. inner # <<>>
      BY <1>2, <2>3
    <2>5. OuterOK(inner)
      BY <1>1 DEF inner
    <2>6. /\ Front(inner) \in Seq(NcFrames) /\ back \in NcFrames /\ Len(Front(inner)) = Len(inner) - 1
          /\ \A i \in 1..Len(inner) - 1 : Front(inner)[i] = inner[i]
      BY <2>3, <2>4, FrontAndLast
    <2>7. Remembered(back)
      <3>1. Len(inner) \in 1..Len(inner)
        BY <2>3, <2>4
      <3> QED
        BY <2>5, <3>1 DEF OuterOK, Last
    <2>8. OuterOK(Front(inner))
      <3>1. \A i \in 1..Len(Front(inner)) : i \in 1..Len(inner) /\ Front(inner)[i] = inner[i]
        BY <2>3, <2>6
      <3> QED
        BY <2>5, <2>6, <3>1 DEF OuterOK
    <2> DEFINE g == [back EXCEPT !.items = items]
    <2> HIDE DEF back
    <2>9. /\ g \in NcFrames /\ g.kind = back.kind /\ g.active = back.active /\ g.index = back.index
          /\ g.last_top_row = back.last_top_row /\ g.items = items
      BY <2>2, <2>6 DEF NcFrames
    <2>10. ShowLoop(Front(inner), g)
      BY <2>1 DEF back
    <2> HIDE DEF g
    <2>11. FrameOK(g) /\ g.active = Nowhere /\ g.index # Nowhere
      BY <2>7, <2>9 DEF FrameOK, Remembered, Nowhere
    <2>12. /\ KeysOK' /\ CurrentIsSeen' /\ ShownWell(Front(inner), g)
      BY <1>1, <2>8, <2>10, <2>11, LoopShown
    <2> DEFINE n == Len(Last(frames').items)
    <2>13. n = Len(items) /\ n \in Nat /\ (n > 0 => items # <<>>)
      BY <2>2, <2>9, <2>12 DEF ShownWell
    <2> HIDE DEF n
    <2>14. back.index \in Nat /\ back.last_top_row \in Nat
      BY <2>7 DEF Remembered
    <2>15. back.index < n => cur' = back.index
      <3> SUFFICES ASSUME back.index < n PROVE cur' = back.index
        OBVIOUS
      <3>1. n > 0 /\ back.index \in 0..n - 1
        BY <2>13, <2>14
      <3> QED
        BY <2>9, <2>12, <2>13, <3>1 DEF ShownWell
    <2>16. ASSUME back.last_top_row + height <= n,
                  InSight(back.last_top_row, back.index, height)
           PROVE  top' = back.last_top_row
      <3>1. height <= n /\ n > 0
        BY <1>1, <2>13, <2>14, <2>16
      <3>2. Min({n, height'}) = height
        BY <1>1, <2>13, <3>1, MinOfTwo
      <3>3. StillThere(g, n, height)
        BY <1>1, <2>9, <2>13, <2>14, <2>16 DEF StillThere, InSight
      <3> QED
        BY <2>9, <2>12, <2>13, <3>1, <3>2, <3>3 DEF ShownWell
    <2>17. LeavingComesBack
      BY <2>15, <2>16 DEF LeavingComesBack, back, inner, n
    <2> QED
      BY <1>1, <2>12, <2>17
  <1>3. CASE ~(Len(frames) > 1)
    <2>1. ncpc' = "idle"
      BY <1>3 DEF LeaveList
    <2> QED
      BY <1>1, <1>3, <2>1 DEF CurrentIsSeen, LeavingComesBack
  <1> QED
    BY <1>2, <1>3

LEMMA Searching ==
  ASSUME NcInv, TypeLetter \/ FindNext
  PROVE  height' = height /\ KeysOK' /\ CurrentIsSeen' /\ SearchFinds
  <1>1. ncpc = "keys" /\ SameHeight
    BY DEF TypeLetter, FindNext
  <1>2. KeysOK /\ height \in Nat /\ height > 0 /\ FrameOK(F)
    BY <1>1, KeysStep
  <1>3. PICK f : FrameOK(f) /\ f.items = F.items /\ LookFor(f)
    <2>1. F \in NcFrames /\ F.pattern \in Seq(Letters) /\ F.direction \in NcDirections
      BY <1>2 DEF FrameOK, NcFrames
    <2>2. CASE TypeLetter
      <3>1. PICK c \in Letters :
              LookFor([F EXCEPT !.pattern = Append(@, c), !.direction = AdjMatchDir(@)])
        BY <2>2 DEF TypeLetter
      <3> DEFINE p == Append(F.pattern, c)
                 d == AdjMatchDir(F.direction)
                 g == [F EXCEPT !.pattern = p, !.direction = d]
      <3>2. p \in Seq(Letters)
        BY <2>1
      <3>3. d \in NcDirections
        BY <2>1 DEF AdjMatchDir, NcDirections
      <3>4. LookFor(g)
        BY <3>1
      <3> HIDE DEF p, d
      <3>5. g \in NcFrames /\ g.items = F.items /\ g.kind = F.kind /\ g.active = F.active
        BY <2>1, <3>2, <3>3 DEF NcFrames
      <3> HIDE DEF g
      <3>6. FrameOK(g)
        BY <1>2, <3>5 DEF FrameOK
      <3> QED
        BY <3>4, <3>5, <3>6
    <2>3. CASE FindNext
      <3>1. PICK d \in {"next_down", "next_up"} : LookFor([F EXCEPT !.direction = d])
        BY <2>3 DEF FindNext
      <3> DEFINE g == [F EXCEPT !.direction = d]
      <3>2. d \in NcDirections
        BY DEF NcDirections
      <3>3. g \in NcFrames /\ g.items = F.items /\ g.kind = F.kind /\ g.active = F.active
        BY <2>1, <3>2 DEF NcFrames
      <3>4. LookFor(g)
        BY <3>1
      <3> HIDE DEF g
      <3>5. FrameOK(g)
        BY <1>2, <3>3 DEF FrameOK
      <3> QED
        BY <3>3, <3>4, <3>5
    <2> QED
      BY <2>2, <2>3
  <1>4. /\ KeysOK' /\ CurrentIsSeen'
        /\ Last(frames').pattern = f.pattern /\ Last(frames').direction = f.direction
        /\ MatchesOf(f.pattern) = {} => Stay
        /\ MatchesOf(f.pattern) # {} =>
             /\ cur' \in MatchesOf(f.pattern) /\ InSight(top', cur', height')
             /\ \A i \in MatchesOf(f.pattern) : FarIn(f.direction, cur') <= FarIn(f.direction, i)
    BY <1>1, <1>2, <1>3, LookedFor
  <1>5. SearchFinds
    <2> DEFINE g == Last(frames')
    <2>1. /\ MatchesOf(g.pattern) = {} => Stay
          /\ MatchesOf(g.pattern) # {} =>
               /\ cur' \in MatchesOf(g.pattern) /\ InSight(top', cur', height')
               /\ \A i \in MatchesOf(g.pattern) : FarIn(g.direction, cur') <= FarIn(g.direction, i)
      BY <1>4
    <2> HIDE DEF g
    <2> QED
      BY <2>1, Zenon DEF SearchFinds, MatchesOf, FarIn, AwayOf, NcUps, NcNexts, g
  <1> QED
    BY <1>1, <1>4, <1>5 DEF SameHeight

\* What nconf shows, whatever its menus are and however they change.
LEMMA NcInvKept ==
  ASSUME NcInv, [NcMenuNext]_ncmenuvars
  PROVE  NcInv'
  <1>1. CASE EnterRoot
    BY <1>1, RootEntered DEF NcInv
  <1>2. CASE EnterItem
    BY <1>2, ItemEntered DEF NcInv, EnterItem, SameHeight
  <1>3. CASE LeaveList
    BY <1>3, ListLeft DEF NcInv
  <1>4. CASE ItemsChange
    BY <1>4, ItemsChanged DEF NcInv
  <1>5. CASE MoveInMenu
    BY <1>5, MovedInMenu DEF NcInv, MoveInMenu, SameHeight
  <1>6. CASE ToggleSearch \/ EraseLetter
    <2>1. height' = height
      BY <1>6 DEF ToggleSearch, EraseLetter, SameHeight
    <2> QED
      BY <1>6, <2>1, SearchKeysOK DEF NcInv
  <1>7. CASE TypeLetter \/ FindNext
    BY <1>7, Searching DEF NcInv
  <1>8. CASE UNCHANGED ncmenuvars
    BY <1>8 DEF NcInv, ncmenuvars, KeysOK, CurrentIsSeen, ListNow, F, N
  <1> QED
    BY <1>1, <1>2, <1>3, <1>4, <1>5, <1>6, <1>7, <1>8 DEF NcMenuNext

\* nconf's list is right: the current item can be seen, a search finds the
\* nearest match, and who leaves a menu is back where it was entered.
THEOREM ListCorrect == NcMenuSpec => ListIsTrue
  <1>1. NcMenuInit => NcInv
    BY NcInvStarts
  <1>2. NcInv /\ [NcMenuNext]_ncmenuvars => NcInv'
    BY NcInvKept
  <1>3. NcInv => CurrentIsSeen
    BY DEF NcInv
  <1>4. NcInv /\ [NcMenuNext]_ncmenuvars => [SearchFinds /\ LeavingComesBack]_ncmenuvars
    <2> SUFFICES ASSUME NcInv, NcMenuNext PROVE SearchFinds /\ LeavingComesBack
      OBVIOUS
    <2>1. SearchFinds
      <3>1. CASE TypeLetter \/ FindNext
        BY <3>1, Searching
      <3>2. CASE ~(TypeLetter \/ FindNext)
        BY <3>2 DEF SearchFinds
      <3> QED
        BY <3>1, <3>2
    <2>2. LeavingComesBack
      <3>1. CASE LeaveList
        BY <3>1, ListLeft
      <3>2. CASE ~LeaveList
        BY <3>2 DEF LeavingComesBack
      <3> QED
        BY <3>1, <3>2
    <2> QED
      BY <2>1, <2>2
  <1> QED
    BY <1>1, <1>2, <1>3, <1>4, PTL DEF NcMenuSpec, ListIsTrue

=============================================================================
