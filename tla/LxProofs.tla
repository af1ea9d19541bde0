------------------------------ MODULE LxProofs ------------------------------
(* What the list dialogs and the text box show is what they act on, for any  *)
(* number of items, any text and any heights: proofs about LxMenu,           *)
(* LxChecklist and LxText.                                                   *)
EXTENDS LxMenu, LxChecklist, LxText, FiniteSetTheorems, WellFoundedInduction, TLAPS

\* The lines of a window with items from s on, of which line c is lit, or none.
Listed(rows, s, c) == [y \in Lines(rows) |-> [item |-> s + y, lit |-> y = c]]
Plain(rows, s) == [y \in Lines(rows) |-> [item |-> s + y, lit |-> FALSE]]

LEMMA LightOff ==
  ASSUME NEW rows \in Nat, NEW s \in Int, NEW c \in Lines(rows), NEW f,
         f = PrintItem(Listed(rows, s, c), s + c, c, FALSE)
  PROVE  f = Plain(rows, s)
  <1>1. f = [y \in Lines(rows) |-> f[y]] /\ Plain(rows, s) = [y \in Lines(rows) |-> Plain(rows, s)[y]]
    BY DEF PrintItem, Listed, Plain
  <1>2. ASSUME NEW y \in Lines(rows) PROVE f[y] = Plain(rows, s)[y]
    <2>1. c \in Int
      BY DEF Lines
    <2>2. CASE y = c
      BY <2>1, <2>2 DEF PrintItem, Listed, Plain
    <2>3. CASE y # c
      <3>1. (y = c) = FALSE
        BY <2>3
      <3>2. f[y] = Listed(rows, s, c)[y]
        BY <2>3 DEF PrintItem, Listed
      <3>3. Listed(rows, s, c)[y] = [item |-> s + y, lit |-> FALSE]
        BY <3>1 DEF Listed
      <3> QED
        BY <3>2, <3>3 DEF Plain
    <2> QED
      BY <2>2, <2>3
  <1> QED
    BY <1>1, <1>2

LEMMA LightOn ==
  ASSUME NEW rows \in Nat, NEW s \in Int, NEW c \in Lines(rows), NEW f,
         f = PrintItem(Plain(rows, s), s + c, c, TRUE)
  PROVE  f = Listed(rows, s, c)
  <1>1. f = [y \in Lines(rows) |-> f[y]]
        /\ Listed(rows, s, c) = [y \in Lines(rows) |-> Listed(rows, s, c)[y]]
    BY DEF PrintItem, Listed, Plain
  <1>2. ASSUME NEW y \in Lines(rows) PROVE f[y] = Listed(rows, s, c)[y]
    <2>1. c \in Int
      BY DEF Lines
    <2>2. CASE y = c
      <3>1. (y = c) = TRUE
        BY <2>2
      <3>2. Listed(rows, s, c)[y] = [item |-> s + y, lit |-> TRUE]
        BY <3>1 DEF Listed
      <3> QED
        BY <2>1, <2>2, <3>2 DEF PrintItem, Plain
    <2>3. CASE y # c
      <3>1. (y = c) = FALSE
        BY <2>3
      <3>2. f[y] = Plain(rows, s)[y]
        BY <2>3 DEF PrintItem, Plain
      <3>3. Listed(rows, s, c)[y] = [item |-> s + y, lit |-> FALSE]
        BY <3>1 DEF Listed
      <3> QED
        BY <3>2, <3>3 DEF Plain
    <2> QED
      BY <2>2, <2>3
  <1> QED
    BY <1>1, <1>2

\* The window scrolled by one line up or down, with the item that comes in printed.
LEMMA ScrollUp ==
  ASSUME NEW rows \in Nat, rows > 0, NEW s \in Int, NEW f,
         f = PrintItem(Scrolled(Plain(rows, s), -1), s - 1, 0, FALSE)
  PROVE  f = Plain(rows, s - 1)
  <1>1. f = [y \in Lines(rows) |-> f[y]]
        /\ Plain(rows, s - 1) = [y \in Lines(rows) |-> Plain(rows, s - 1)[y]]
    BY DEF PrintItem, Scrolled, Plain
  <1>2. ASSUME NEW y \in Lines(rows) PROVE f[y] = Plain(rows, s - 1)[y]
    <2>1. CASE y = 0
      <3>1. f[y] = [item |-> s - 1, lit |-> FALSE]
        BY <2>1 DEF PrintItem, Scrolled, Plain
      <3>2. s - 1 = s - 1 + y
        BY <2>1
      <3> QED
        BY <3>1, <3>2 DEF Plain
    <2>2. CASE y # 0
      <3>1. y + (-1) \in Lines(rows) /\ s + (y + (-1)) = (s - 1) + y
        BY <2>2 DEF Lines
      <3>2. f[y] = Plain(rows, s)[y + (-1)]
        BY <2>2, <3>1 DEF PrintItem, Scrolled, Plain
      <3> QED
        BY <3>1, <3>2 DEF Plain
    <2> QED
      BY <2>1, <2>2
  <1> QED
    BY <1>1, <1>2

LEMMA ScrollDown ==
  ASSUME NEW rows \in Nat, rows > 0, NEW s \in Int, NEW f,
         f = PrintItem(Scrolled(Plain(rows, s), 1), s + rows, rows - 1, FALSE)
  PROVE  f = Plain(rows, s + 1)
  <1>1. f = [y \in Lines(rows) |-> f[y]]
        /\ Plain(rows, s + 1) = [y \in Lines(rows) |-> Plain(rows, s + 1)[y]]
    BY DEF PrintItem, Scrolled, Plain
  <1>2. ASSUME NEW y \in Lines(rows) PROVE f[y] = Plain(rows, s + 1)[y]
    <2>1. CASE y = rows - 1
      <3>1. f[y] = [item |-> s + rows, lit |-> FALSE]
        BY <2>1 DEF PrintItem, Scrolled, Plain
      <3>2. s + rows = s + 1 + y
        BY <2>1
      <3> QED
        BY <3>1, <3>2 DEF Plain
    <2>2. CASE y # rows - 1
      <3>1. y + 1 \in Lines(rows) /\ s + (y + 1) = (s + 1) + y
        BY <2>2 DEF Lines
      <3>2. f[y] = Plain(rows, s)[y + 1]
        BY <2>2, <3>1 DEF PrintItem, Scrolled, Plain
      <3> QED
        BY <3>1, <3>2 DEF Plain
    <2> QED
      BY <2>1, <2>2
  <1> QED
    BY <1>1, <1>2

-----------------------------------------------------------------------------
(* dialog_menu                                                             *)

\* What is chosen is in the list, also in a window that is not up to date;
\* while a page key moves the list no line of one that is is lit.
MenuInv ==
  /\ mItems \in Nat /\ mSaved \in Nat /\ mSteps \in Nat /\ mStale \in BOOLEAN
  /\ mpc \in {"closed", "open", "paging up", "paging down", "crashed"}
  /\ mpc \notin {"closed", "crashed"} =>
       /\ mSelected = None \/ mSelected \in 0..mItems - 1
       /\ mRows \in Nat /\ mRows > 0 /\ mScroll \in Nat /\ mScroll + mRows <= mItems
       /\ mChoice \in Lines(mRows) /\ mFirst \in Nat
  /\ mpc = "open" /\ mStale = FALSE => mScreen = Listed(mRows, mScroll, mChoice)
  /\ mpc \in {"paging up", "paging down"} /\ mStale = FALSE => mScreen = Plain(mRows, mScroll)

\* The list that is laid out reaches no further than the items, and the chosen
\* one is seen; it starts at the first item that is printed unless that is an
\* old one.
LEMMA LayoutFits ==
  ASSUME NEW count \in Nat, count > 0, NEW rows \in Nat, rows > 0, rows <= count,
         NEW saved \in Nat, NEW oldChoice \in Nat, NEW oldFirst \in Nat,
         NEW selected \in {None} \cup 0..count - 1,
         oldChoice < count,
         NEW l, l = Layout(count, rows, selected, saved, oldChoice, oldFirst)
  PROVE  /\ l.scroll \in Nat /\ l.scroll + rows <= count
         /\ l.choice \in Lines(rows) /\ l.first \in Nat
         /\ l.scroll + l.choice = IF selected # None THEN selected ELSE oldChoice
         /\ l.first = l.scroll \/ (l.scroll = 0 /\ l.first = oldFirst)
         /\ LET choice == IF selected # None THEN selected ELSE oldChoice
            IN  saved <= choice /\ choice < saved + rows /\ saved + rows <= count => l.scroll = saved
  <1> DEFINE choice == IF selected # None THEN selected ELSE oldChoice
             fits == saved <= choice /\ saved + rows > choice /\ saved + rows <= count
             kept == IF fits THEN [scroll |-> saved, first |-> saved, choice |-> choice - saved]
                             ELSE [scroll |-> 0, first |-> oldFirst, choice |-> choice]
             half == rows \div 2
             top(c) == IF c >= count - half THEN count - rows ELSE c - half
  <1>1. choice \in Nat /\ choice < count
    BY DEF None
  <1>2. half \in Nat /\ half < rows /\ rows - half <= half + 1
    OBVIOUS
  <1>3. l = IF kept.choice < rows THEN kept
            ELSE [scroll |-> top(kept.choice), first |-> top(kept.choice),
                  choice |-> kept.choice - top(kept.choice)]
    BY DEF Layout
  <1> HIDE DEF choice, half
  <1>4. CASE fits
    BY <1>1, <1>3, <1>4 DEF Lines, choice
  <1>5. CASE ~fits /\ choice < rows
    BY <1>1, <1>3, <1>5 DEF Lines, choice
  <1>6. CASE ~fits /\ choice >= rows
    <2>1. kept.choice = choice
      BY <1>6
    <2> HIDE DEF kept
    <2>2. PICK t : t = top(choice)
      OBVIOUS
    <2>3. t \in Nat /\ t + rows <= count /\ choice - t \in Lines(rows)
      BY <1>1, <1>2, <1>6, <2>2 DEF Lines
    <2>4. l = [scroll |-> t, first |-> t, choice |-> choice - t]
      BY <1>1, <1>3, <1>6, <2>1, <2>2
    <2>5. l.scroll = t /\ l.first = t /\ l.choice = choice - t
      BY <2>4
    <2> QED
      BY <1>1, <1>6, <2>3, <2>5 DEF choice, Lines
  <1> QED
    BY <1>1, <1>4, <1>5, <1>6

\* What a window that was drawn shows.
LEMMA Drawn ==
  ASSUME NEW count \in Nat, count > 0, NEW height \in Nat, height > 0,
         NEW saved \in Nat, NEW oldChoice \in Nat, NEW oldFirst \in Nat,
         NEW selected \in {None} \cup 0..count - 1,
         oldChoice < count,
         Draw(count, selected, saved, oldChoice, oldFirst, height)
  PROVE  /\ mItems' = count /\ mSelected' = selected /\ mSaved' = saved
         /\ mpc' \in {"open", "crashed"}
         /\ mRows' \in Nat /\ mRows' > 0 /\ mScroll' \in Nat /\ mScroll' + mRows' <= mItems'
         /\ mChoice' \in Lines(mRows') /\ mFirst' \in Nat
         /\ mFirst' = mScroll' => mpc' = "open" /\ mScreen' = Listed(mRows', mScroll', mChoice')
         /\ mScroll' + mChoice' = IF selected # None THEN selected ELSE oldChoice
         /\ mFirst' = mScroll' \/ (mScroll' = 0 /\ mFirst' = oldFirst)
         /\ LET choice == IF selected # None THEN selected ELSE oldChoice
            IN  saved <= choice /\ choice < saved + mRows' /\ saved + mRows' <= count =>
                  mScroll' = saved
  <1> DEFINE rows == MinOf(height, count)
  <1>1. rows \in Nat /\ rows > 0 /\ rows <= count
    BY DEF MinOf
  <1>2. PICK l : l = Layout(count, rows, selected, saved, oldChoice, oldFirst)
    OBVIOUS
  <1>3. /\ mItems' = count /\ mSelected' = selected /\ mSaved' = saved /\ mRows' = rows
        /\ mScroll' = l.scroll /\ mChoice' = l.choice /\ mFirst' = l.first
        /\ mScreen' = [y \in Lines(rows) |-> [item |-> l.first + y, lit |-> y = l.choice]]
        /\ mpc' = IF l.first + rows <= count THEN "open" ELSE "crashed"
    BY <1>2 DEF Draw
  <1> HIDE DEF rows
  <1>4. /\ l.scroll \in Nat /\ l.scroll + rows <= count
        /\ l.choice \in Lines(rows) /\ l.first \in Nat
    BY <1>1, <1>2, LayoutFits
  <1>8. l.first = l.scroll \/ (l.scroll = 0 /\ l.first = oldFirst)
    BY <1>1, <1>2, LayoutFits
  <1>7. l.scroll + l.choice = IF selected # None THEN selected ELSE oldChoice
    BY <1>1, <1>2, LayoutFits
  <1>5. LET choice == IF selected # None THEN selected ELSE oldChoice
        IN  saved <= choice /\ choice < saved + rows /\ saved + rows <= count => l.scroll = saved
    BY <1>1, <1>2, LayoutFits
  <1>6. mFirst' = mScroll' => mpc' = "open" /\ mScreen' = Listed(mRows', mScroll', mChoice')
    BY <1>3, <1>4 DEF Listed
  <1> QED
    BY <1>1, <1>3, <1>4, <1>5, <1>6, <1>7, <1>8

LEMMA MenuInit1 == MenuInit => MenuInv
  <1> SUFFICES ASSUME MenuInit PROVE MenuInv
    OBVIOUS
  <1>1. mpc = "closed" /\ mItems = 0 /\ mSaved = 0 /\ mSteps = 0 /\ mStale = FALSE
    BY DEF MenuInit
  <1> QED
    BY <1>1 DEF MenuInv

LEMMA MenuFacts ==
  ASSUME MenuInv, mpc \notin {"closed", "crashed"}
  PROVE  /\ mRows \in Nat /\ mRows > 0 /\ mScroll \in Nat /\ mScroll + mRows <= mItems
         /\ mChoice \in Lines(mRows) /\ mItems \in Nat /\ mSteps \in Nat
  BY DEF MenuInv

\* The window does not reach past the last item.
Fits(scroll) == scroll + mRows <= mItems

LEMMA NaturalIsInt ==
  ASSUME NEW n \in Nat
  PROVE  n \in Int
  OBVIOUS

\* A key that ends with the item chosen lit, in a window where none was.
LEMMA Shown ==
  ASSUME mItems \in Nat, mRows \in Nat,
         MenuInv, mpc \in {"open", "paging up", "paging down"}, mpc' = "open", mSteps' \in Nat, Stays,
         NEW scroll \in Nat, Fits(scroll), NEW choice \in Lines(mRows), NEW screen,
         mStale = FALSE => screen = Plain(mRows, scroll),
         Show(screen, scroll, choice)
  PROVE  MenuInv'
  <1>0. scroll \in Int
    BY NaturalIsInt, Zenon
  <1>1. ASSUME mStale = FALSE PROVE mScreen' = Listed(mRows, scroll, choice)
    <2>1. mScreen' = PrintItem(Plain(mRows, scroll), scroll + choice, choice, TRUE)
      BY <1>1 DEF Show
    <2> QED
      BY <1>0, <2>1, LightOn, Zenon
  <1>2. mScroll' = scroll /\ mChoice' = choice
    BY DEF Show
  <1> QED
    BY <1>1, <1>2 DEF MenuInv, Stays, mcall, Fits

LEMMA UnlitWindow ==
  ASSUME MenuInv, mpc = "open", mStale = FALSE
  PROVE  Unlit = Plain(mRows, mScroll)
  <1>1. mRows \in Nat /\ mScroll \in Int /\ mChoice \in Lines(mRows)
        /\ mScreen = Listed(mRows, mScroll, mChoice)
    BY DEF MenuInv
  <1> QED
    BY <1>1, LightOff DEF Unlit

\* The window after it was scrolled by one item.
LEMMA ScrolledWindow ==
  ASSUME MenuInv, mpc \notin {"closed", "crashed"}, NEW screen, screen = Plain(mRows, mScroll)
  PROVE  /\ ScrolledUp(screen) = Plain(mRows, mScroll - 1)
         /\ ScrolledDown(screen) = Plain(mRows, mScroll + 1)
  <1>1. mRows \in Nat /\ mRows > 0 /\ mScroll \in Int
    BY MenuFacts
  <1> QED
    BY <1>1, ScrollUp, ScrollDown DEF ScrolledUp, ScrolledDown

LEMMA Counted ==
  ASSUME NEW n \in Nat
  PROVE  n + 1 \in Nat
  OBVIOUS

LEMMA PageStepKeeps ==
  ASSUME mItems \in Nat, mRows \in Nat,
         MenuInv, mpc \in {"paging up", "paging down"}, UNCHANGED mpc,
         NEW scrolls \in BOOLEAN, NEW screen, NEW scroll, NEW moves \in BOOLEAN, NEW choice,
         scrolls => scroll \in Nat /\ Fits(scroll),
         scrolls /\ mStale = FALSE => screen = Plain(mRows, scroll),
         moves => choice \in Lines(mRows),
         PageStep(scrolls, screen, scroll, moves, choice)
  PROVE  MenuInv'
  <1>0. mSteps \in Nat
    BY MenuFacts
  <1>1. mSteps' = mSteps + 1 /\ Stays
    BY DEF PageStep
  <1>2. UNCHANGED <<mItems, mSelected, mSaved, mFirst, mRows, mStale>>
    BY <1>1 DEF Stays, mcall
  <1>3. mSteps' \in Nat
    BY <1>0, <1>1, Counted, Zenon
  <1>4. /\ mScroll' \in Nat /\ mScroll' + mRows <= mItems /\ mChoice' \in Lines(mRows)
        /\ mStale = FALSE => mScreen' = Plain(mRows, mScroll')
    <2>1. CASE scrolls
      <3>1. mScroll' = scroll /\ mScreen' = screen /\ mChoice' = mChoice
        BY <2>1 DEF PageStep
      <3>2. mChoice \in Lines(mRows)
        BY MenuFacts
      <3> QED
        BY <2>1, <3>1, <3>2 DEF Fits
    <2>2. CASE ~scrolls
      <3>1. mChoice' = (IF moves THEN choice ELSE mChoice) /\ UNCHANGED <<mScroll, mScreen>>
        BY <2>2 DEF PageStep
      <3>2. mChoice \in Lines(mRows) /\ mScroll \in Nat /\ mScroll + mRows <= mItems
        BY MenuFacts
      <3>3. mStale = FALSE => mScreen = Plain(mRows, mScroll)
        BY DEF MenuInv
      <3>4. mChoice' \in Lines(mRows)
        BY <3>1, <3>2
      <3> QED
        BY <3>1, <3>2, <3>3, <3>4
    <2> QED
      BY <2>1, <2>2
  <1> QED
    BY <1>2, <1>3, <1>4 DEF MenuInv

LEMMA MenuStep == MenuInv /\ [MenuNext]_menuvars => MenuInv'
  <1> SUFFICES ASSUME MenuInv, [MenuNext]_menuvars PROVE MenuInv'
    OBVIOUS
  <1>1. CASE OpenMenu
    <2>0. PICK count \in 1..MenuItems, height \in MenuHeights :
            \E selected \in {None} \cup 0..count - 1 : Draw(count, selected, mSaved, 0, 0, height)
      BY <1>1 DEF OpenMenu
    <2>1. PICK selected \in {None} \cup 0..count - 1 : Draw(count, selected, mSaved, 0, 0, height)
      BY <2>0
    <2>a. mSaved \in Nat
      BY DEF MenuInv
    <2>b. height \in Nat /\ height > 0
      BY <2>0, MenuBoxConstants
    <2>c. count \in Nat /\ count > 0
      BY <2>0, MenuBoxConstants
    <2>2. count \in Nat /\ count > 0 /\ height \in Nat /\ height > 0 /\ mSaved \in Nat
      BY <2>a, <2>b, <2>c
    <2>3. mSteps' = 0 /\ mStale' = FALSE
      BY <1>1 DEF OpenMenu
    <2>4. /\ mItems' = count /\ mSelected' = selected /\ mSaved' = mSaved
          /\ mpc' \in {"open", "crashed"}
          /\ mRows' \in Nat /\ mRows' > 0 /\ mScroll' \in Nat /\ mScroll' + mRows' <= mItems'
          /\ mChoice' \in Lines(mRows') /\ mFirst' \in Nat
          /\ mFirst' = mScroll' => mScreen' = Listed(mRows', mScroll', mChoice')
      BY <2>1, <2>2, Drawn
    <2>5. mFirst' = mScroll' \/ (mScroll' = 0 /\ mFirst' = 0)
      BY <2>1, <2>2, Drawn
    <2> QED
      BY <2>2, <2>3, <2>4, <2>5 DEF MenuInv
  <1>2. CASE ResizeMenu
    <2>1. PICK height \in MenuHeights : Draw(mItems, mSelected, mSaved, mChoice, mFirst, height)
      BY <1>2 DEF ResizeMenu
    <2>2. /\ mItems \in Nat /\ mItems > 0 /\ height \in Nat /\ height > 0 /\ mSaved \in Nat
          /\ mSelected \in {None} \cup 0..mItems - 1
          /\ mChoice \in Nat /\ mFirst \in Nat /\ mChoice < mItems
      BY <1>2, MenuBoxConstants DEF MenuInv, ResizeMenu, Lines
    <2>3. mSteps' = mSteps /\ mStale' = (mFirst' # mScroll')
      BY <1>2 DEF ResizeMenu
    <2>4. /\ mItems' = mItems /\ mSelected' = mSelected /\ mSaved' = mSaved
          /\ mpc' \in {"open", "crashed"}
          /\ mRows' \in Nat /\ mRows' > 0 /\ mScroll' \in Nat /\ mScroll' + mRows' <= mItems'
          /\ mChoice' \in Lines(mRows') /\ mFirst' \in Nat
          /\ mFirst' = mScroll' => mScreen' = Listed(mRows', mScroll', mChoice')
      BY <2>1, <2>2, Drawn
    <2>5. mStale' \in BOOLEAN /\ (mStale' = FALSE => mFirst' = mScroll')
      BY <2>3
    <2> QED
      BY <2>2, <2>3, <2>4, <2>5 DEF MenuInv
  <1>3. CASE KeyUp
    <2>1. mpc = "open" /\ mpc' = "open" /\ mSteps' \in Nat /\ Stays
      BY <1>3 DEF KeyUp, MenuInv
    <2>2. /\ mRows \in Nat /\ mScroll \in Nat /\ mScroll + mRows <= mItems /\ mChoice \in Lines(mRows)
          /\ mRows > 0 /\ mItems \in Nat
      BY <2>1 DEF MenuInv
    <2>3. CASE mChoice < 2 /\ mScroll # 0
      <3>1. Show(ScrolledUp(Unlit), mScroll - 1, mChoice)
        BY <1>3, <2>3 DEF KeyUp
      <3>2. mStale = FALSE => ScrolledUp(Unlit) = Plain(mRows, mScroll - 1)
        BY <2>1, UnlitWindow, ScrolledWindow
      <3>3. mScroll - 1 \in Nat /\ Fits(mScroll - 1)
        BY <2>2, <2>3 DEF Fits
      <3> QED
        BY <2>1, <2>2, <3>1, <3>2, <3>3, Shown
    <2>4. CASE ~(mChoice < 2 /\ mScroll # 0)
      <3>0. Fits(mScroll)
        BY <2>2 DEF Fits
      <3>1. PICK c : c = IF mChoice > 0 THEN mChoice - 1 ELSE 0
        OBVIOUS
      <3>2. Show(Unlit, mScroll, c)
        BY <1>3, <2>4, <3>1 DEF KeyUp
      <3>3. c \in Lines(mRows)
        BY <2>2, <3>1 DEF Lines
      <3> QED
        BY <2>1, <2>2, <3>0, <3>2, <3>3, UnlitWindow, Shown
    <2> QED
      BY <2>3, <2>4
  <1>4. CASE KeyDown
    <2>1. mpc = "open" /\ mpc' = "open" /\ mSteps' \in Nat /\ Stays
      BY <1>4 DEF KeyDown, MenuInv
    <2>2. /\ mRows \in Nat /\ mScroll \in Nat /\ mScroll + mRows <= mItems /\ mChoice \in Lines(mRows)
          /\ mRows > 0 /\ mItems \in Nat
      BY <2>1 DEF MenuInv
    <2>3. CASE mChoice > mRows - 3 /\ mScroll + mRows < mItems
      <3>1. Show(ScrolledDown(Unlit), mScroll + 1, mChoice)
        BY <1>4, <2>3 DEF KeyDown
      <3>2. mStale = FALSE => ScrolledDown(Unlit) = Plain(mRows, mScroll + 1)
        BY <2>1, UnlitWindow, ScrolledWindow
      <3>3. mScroll + 1 \in Nat /\ Fits(mScroll + 1)
        BY <2>2, <2>3 DEF Fits
      <3> QED
        BY <2>1, <2>2, <3>1, <3>2, <3>3, Shown
    <2>4. CASE ~(mChoice > mRows - 3 /\ mScroll + mRows < mItems)
      <3>0. Fits(mScroll)
        BY <2>2 DEF Fits
      <3>1. PICK c : c = MinOf(mChoice + 1, mRows - 1)
        OBVIOUS
      <3>2. Show(Unlit, mScroll, c)
        BY <1>4, <2>4, <3>1 DEF KeyDown
      <3>3. c \in Lines(mRows)
        BY <2>2, <3>1 DEF Lines, MinOf
      <3> QED
        BY <2>1, <2>2, <3>0, <3>2, <3>3, UnlitWindow, Shown
    <2> QED
      BY <2>3, <2>4
  <1>5. CASE KeyLetter
    <2>1. mpc = "open" /\ mpc' = "open" /\ mSteps' \in Nat /\ Stays
      BY <1>5 DEF KeyLetter, MenuInv
    <2>2. PICK i \in Lines(mRows) : Show(Unlit, mScroll, i)
      BY <1>5 DEF KeyLetter
    <2>3. mItems \in Nat /\ mRows \in Nat /\ mScroll \in Nat /\ Fits(mScroll)
      BY <2>1 DEF MenuInv, Fits
    <2> QED
      BY <2>1, <2>2, <2>3, UnlitWindow, Shown
  <1>6. CASE KeyPage
    <2>1. mStale = FALSE => Unlit = Plain(mRows, mScroll)
      BY <1>6, UnlitWindow DEF KeyPage
    <2> QED
      BY <1>6, <2>1 DEF KeyPage, Stays, MenuInv, mcall
  <1>7. CASE PageUp
    <2>1. mpc = "paging up" /\ UNCHANGED mpc
      BY <1>7 DEF PageUp, PageStep
    <2>2. /\ mRows \in Nat /\ mScroll \in Nat /\ mScroll + mRows <= mItems /\ mChoice \in Lines(mRows)
          /\ mItems \in Nat /\ (mStale = FALSE => mScreen = Plain(mRows, mScroll))
      BY <2>1 DEF MenuInv
    <2>3. mStale = FALSE => ScrolledUp(mScreen) = Plain(mRows, mScroll - 1)
      BY <2>1, <2>2, ScrolledWindow
    <2>4. mScroll > 0 => mScroll - 1 \in Nat /\ Fits(mScroll - 1)
      BY <2>2 DEF Fits
    <2>5. mChoice > 0 => mChoice - 1 \in Lines(mRows)
      BY <2>2 DEF Lines
    <2>6. (mScroll > 0) \in BOOLEAN /\ (mChoice > 0) \in BOOLEAN
      OBVIOUS
    <2>7. PageStep(mScroll > 0, ScrolledUp(mScreen), mScroll - 1, mChoice > 0, mChoice - 1)
      BY <1>7 DEF PageUp
    <2> QED
      BY <2>1, <2>3, <2>2, <2>4, <2>5, <2>6, <2>7, PageStepKeeps
  <1>8. CASE PageDown
    <2>1. mpc = "paging down" /\ UNCHANGED mpc
      BY <1>8 DEF PageDown, PageStep
    <2>2. /\ mRows \in Nat /\ mScroll \in Nat /\ mScroll + mRows <= mItems /\ mChoice \in Lines(mRows)
          /\ mItems \in Nat /\ (mStale = FALSE => mScreen = Plain(mRows, mScroll))
      BY <2>1 DEF MenuInv
    <2>3. mStale = FALSE => ScrolledDown(mScreen) = Plain(mRows, mScroll + 1)
      BY <2>1, <2>2, ScrolledWindow
    <2>4. mScroll + mRows < mItems => mScroll + 1 \in Nat /\ Fits(mScroll + 1)
      BY <2>2 DEF Fits
    <2>5. mChoice + 1 < mRows => mChoice + 1 \in Lines(mRows)
      BY <2>2 DEF Lines
    <2>6. (mScroll + mRows < mItems) \in BOOLEAN /\ (mChoice + 1 < mRows) \in BOOLEAN
      OBVIOUS
    <2>7. PageStep(mScroll + mRows < mItems, ScrolledDown(mScreen), mScroll + 1,
                   mChoice + 1 < mRows, mChoice + 1)
      BY <1>8 DEF PageDown
    <2> QED
      BY <2>1, <2>3, <2>2, <2>4, <2>5, <2>6, <2>7, PageStepKeeps
  <1>9. CASE PageEnds
    <2>1. mpc \in {"paging up", "paging down"} /\ mpc' = "open" /\ mSteps' \in Nat /\ Stays
          /\ Show(mScreen, mScroll, mChoice)
      BY <1>9 DEF PageEnds, MenuInv
    <2>2. /\ mItems \in Nat /\ mRows \in Nat
          /\ mScroll \in Nat /\ Fits(mScroll) /\ mChoice \in Lines(mRows)
          /\ (mStale = FALSE => mScreen = Plain(mRows, mScroll))
      BY <2>1 DEF MenuInv, Fits
    <2> QED
      BY <2>1, <2>2, Shown
  <1>10. CASE MoveButton
    BY <1>10 DEF MoveButton, MenuInv, mcall, mview
  <1>11. CASE PickItem
    BY <1>11 DEF PickItem, MenuInv, mview
  <1>12. CASE LeaveMenu
    BY <1>12 DEF LeaveMenu, MenuInv, mview
  <1>13. CASE UNCHANGED menuvars
    BY <1>13 DEF menuvars, MenuInv, mcall, mview
  <1> QED
    BY <1>1, <1>2, <1>3, <1>4, <1>5, <1>6, <1>7, <1>8, <1>9, <1>10, <1>11, <1>12, <1>13 DEF MenuNext

\* The window shows the list from the item that is scrolled to, within the list,
\* and lights the one a key acts on, for menus and windows of any size
\* (menubox.c:65-98, 252-375).
THEOREM MenuShows == MenuSpec => []MenuShowsList
  <1>1. MenuInv => MenuShowsList
    BY DEF MenuInv, MenuShowsList, ShowsList, Listed
  <1> QED
    BY <1>1, MenuInit1, MenuStep, PTL DEF MenuSpec

\* An item that can be seen from a position is no further than the window reaches.
LEMMA SeenFrom ==
  ASSUME NEW count \in Nat, NEW a \in Nat, NEW r \in Nat, NEW t, NEW item \in {None} \cup 0..count - 1,
         LET choice == IF item # None THEN item ELSE 0
         IN  a <= choice /\ choice < a + r /\ a + r <= count => t = a
  PROVE  item # None /\ item \in a..a + r - 1 /\ a + r <= count => t = a
  BY DEF None

LEMMA Difference ==
  ASSUME NEW a \in Int, NEW b \in Int, NEW c, a + b = c
  PROVE  c - a = b
  OBVIOUS

\* A menu opens on the item that the caller selected, and does not move the list
\* when it need not, wherever the list was before (menubox.c:252-275).
THEOREM MenuOpens == MenuSpec => MenuOpensOnSelected
  <1> DEFINE Opens ==
        OpenMenu =>
          /\ mpc' = "open"
          /\ mSelected' # None =>
               /\ mScreen'[mSelected' - mScroll'] = [item |-> mSelected', lit |-> TRUE]
               /\ mSelected' \in mSaved..mSaved + mRows' - 1 /\ mSaved + mRows' <= mItems' =>
                    mScroll' = mSaved
  <1>1. MenuInv /\ [MenuNext]_menuvars => [Opens]_menuvars
    <2> SUFFICES ASSUME MenuInv, OpenMenu
                 PROVE  /\ mpc' = "open"
                        /\ mSelected' # None =>
                             /\ mScreen'[mSelected' - mScroll'] = [item |-> mSelected', lit |-> TRUE]
                             /\ mSelected' \in mSaved..mSaved + mRows' - 1
                                  /\ mSaved + mRows' <= mItems' => mScroll' = mSaved
      BY DEF menuvars
    <2>0. PICK count \in 1..MenuItems, height \in MenuHeights :
            \E selected \in {None} \cup 0..count - 1 : Draw(count, selected, mSaved, 0, 0, height)
      BY DEF OpenMenu
    <2>1. PICK selected \in {None} \cup 0..count - 1 : Draw(count, selected, mSaved, 0, 0, height)
      BY <2>0
    <2>a. mSaved \in Nat
      BY DEF MenuInv
    <2>b. height \in Nat /\ height > 0
      BY <2>0, MenuBoxConstants
    <2>c. count \in Nat /\ count > 0
      BY <2>0, MenuBoxConstants
    <2>2. count \in Nat /\ count > 0 /\ height \in Nat /\ height > 0 /\ mSaved \in Nat
      BY <2>a, <2>b, <2>c
    <2>3. mFirst' = mScroll' \/ (mScroll' = 0 /\ mFirst' = 0)
      BY <2>1, <2>2, Drawn
    <2>4. mFirst' = mScroll' => mpc' = "open" /\ mScreen' = Listed(mRows', mScroll', mChoice')
      BY <2>1, <2>2, Drawn
    <2>5. /\ mItems' = count /\ mSelected' = selected
          /\ mRows' \in Nat /\ mScroll' \in Nat /\ mChoice' \in Lines(mRows')
      BY <2>1, <2>2, Drawn
    <2>6. mScroll' + mChoice' = IF selected # None THEN selected ELSE 0
      BY <2>1, <2>2, Drawn
    <2>7. LET choice == IF selected # None THEN selected ELSE 0
          IN  mSaved <= choice /\ choice < mSaved + mRows' /\ mSaved + mRows' <= count =>
                mScroll' = mSaved
      BY <2>1, <2>2, Drawn
    <2>8. ASSUME mSelected' # None
          PROVE  mScreen'[mSelected' - mScroll'] = [item |-> mSelected', lit |-> TRUE]
      <3>0. selected \in Int /\ mChoice' \in Int /\ mSelected' = selected /\ selected # None
        BY <2>2, <2>5, <2>8 DEF Lines, None
      <3>a. mScroll' + mChoice' = selected
        BY <2>6, <3>0
      <3>b. mScroll' \in Int
        BY <2>5
      <3>1. selected - mScroll' = mChoice'
        BY <3>a, <3>b, <3>0, Difference
      <3>2. (mChoice' = mChoice') = TRUE
        OBVIOUS
      <3>3. Listed(mRows', mScroll', mChoice')[mChoice'] = [item |-> mScroll' + mChoice', lit |-> TRUE]
        BY <2>5, <3>2 DEF Listed
      <3> QED
        BY <2>3, <2>4, <3>0, <3>1, <3>3, <3>a
    <2>9. mpc' = "open"
      BY <2>3, <2>4
    <2>10. mSelected' # None /\ mSelected' \in mSaved..mSaved + mRows' - 1 /\ mSaved + mRows' <= mItems' =>
             mScroll' = mSaved
      <3>1. PICK r \in Nat : r = mRows'
        BY <2>5
      <3>2. PICK t : t = mScroll'
        OBVIOUS
      <3>3. LET choice == IF selected # None THEN selected ELSE 0
            IN  mSaved <= choice /\ choice < mSaved + r /\ mSaved + r <= count => t = mSaved
        BY <2>7, <3>1, <3>2, Zenon
      <3>4. selected # None /\ selected \in mSaved..mSaved + r - 1 /\ mSaved + r <= count => t = mSaved
        BY <2>1, <2>2, <3>1, <3>3, SeenFrom, Zenon
      <3> QED
        BY <2>5, <3>1, <3>2, <3>4, Zenon
    <2> QED
      BY <2>8, <2>9, <2>10
  <1> QED
    BY <1>1, MenuInit1, MenuStep, PTL DEF MenuSpec, MenuOpensOnSelected

-----------------------------------------------------------------------------
(* dialog_checklist                                                        *)

Lighted(screen, item, line) == PrintItem(screen, item, line, TRUE)
Unlighted(screen, item, line) == PrintItem(screen, item, line, FALSE)

\* What is printed twice on a line is what was printed last.
LEMMA PrintTwice ==
  ASSUME NEW f, NEW i, NEW c
  PROVE  Lighted(Unlighted(f, i, c), i, c) = Lighted(f, i, c)
  BY DEF PrintItem, Lighted, Unlighted

\* The lemmas about single lines, for these names.
LEMMA Lines1 ==
  ASSUME NEW rows \in Nat, NEW s \in Int, NEW c \in Lines(rows)
  PROVE  /\ Unlighted(Listed(rows, s, c), s + c, c) = Plain(rows, s)
         /\ Lighted(Plain(rows, s), s + c, c) = Listed(rows, s, c)
  <1>1. PICK f : f = PrintItem(Listed(rows, s, c), s + c, c, FALSE)
    OBVIOUS
  <1>2. PICK g : g = PrintItem(Plain(rows, s), s + c, c, TRUE)
    OBVIOUS
  <1>3. f = Plain(rows, s) /\ g = Listed(rows, s, c)
    BY <1>1, <1>2, LightOff, LightOn, Zenon
  <1> QED
    BY <1>1, <1>2, <1>3, Zenon DEF Lighted, Unlighted

LEMMA Lines2 ==
  ASSUME NEW rows \in Nat, rows > 0, NEW s \in Int
  PROVE  /\ Unlighted(Scrolled(Plain(rows, s), -1), s - 1, 0) = Plain(rows, s - 1)
         /\ Unlighted(Scrolled(Plain(rows, s), 1), s + rows, rows - 1) = Plain(rows, s + 1)
  <1>1. PICK f : f = PrintItem(Scrolled(Plain(rows, s), -1), s - 1, 0, FALSE)
    OBVIOUS
  <1>2. PICK g : g = PrintItem(Scrolled(Plain(rows, s), 1), s + rows, rows - 1, FALSE)
    OBVIOUS
  <1>3. f = Plain(rows, s - 1) /\ g = Plain(rows, s + 1)
    BY <1>1, <1>2, ScrollUp, ScrollDown, Zenon
  <1> QED
    BY <1>1, <1>2, <1>3, Zenon DEF Unlighted

\* The window scrolled with the item that comes in lit, after the item that was
\* lit there is printed without.
LEMMA LitAbove ==
  ASSUME NEW rows \in Nat, rows > 0, NEW s \in Int
  PROVE  Lighted(Scrolled(Unlighted(Listed(rows, s, 0), s, 0), -1), s - 1, 0) = Listed(rows, s - 1, 0)
  <1>0. 0 \in Lines(rows) /\ s + 0 = s /\ s - 1 \in Int /\ s - 1 + 0 = s - 1
    BY DEF Lines
  <1>1. Unlighted(Listed(rows, s, 0), s, 0) = Plain(rows, s)
    BY <1>0, Lines1
  <1>2. PICK g : g = Scrolled(Plain(rows, s), -1)
    OBVIOUS
  <1>3. Unlighted(g, s - 1, 0) = Plain(rows, s - 1)
    BY <1>2, Lines2
  <1>4. Lighted(Unlighted(g, s - 1, 0), s - 1, 0) = Lighted(g, s - 1, 0)
    BY PrintTwice
  <1>5. Lighted(Plain(rows, s - 1), s - 1, 0) = Listed(rows, s - 1, 0)
    BY <1>0, Lines1
  <1> QED
    BY <1>1, <1>2, <1>3, <1>4, <1>5

LEMMA LitBelow ==
  ASSUME NEW rows \in Nat, rows > 0, NEW s \in Int
  PROVE  Lighted(Scrolled(Unlighted(Listed(rows, s, rows - 1), s + rows - 1, rows - 1), 1),
                 s + rows, rows - 1) = Listed(rows, s + 1, rows - 1)
  <1>0. rows - 1 \in Lines(rows) /\ s + (rows - 1) = s + rows - 1
        /\ s + 1 \in Int /\ s + 1 + (rows - 1) = s + rows
    BY DEF Lines
  <1>1. Unlighted(Listed(rows, s, rows - 1), s + rows - 1, rows - 1) = Plain(rows, s)
    BY <1>0, Lines1
  <1>2. PICK g : g = Scrolled(Plain(rows, s), 1)
    OBVIOUS
  <1>3. Unlighted(g, s + rows, rows - 1) = Plain(rows, s + 1)
    BY <1>2, Lines2
  <1>4. Lighted(Unlighted(g, s + rows, rows - 1), s + rows, rows - 1) = Lighted(g, s + rows, rows - 1)
    BY PrintTwice
  <1>5. Lighted(Plain(rows, s + 1), s + rows, rows - 1) = Listed(rows, s + 1, rows - 1)
    BY <1>0, Lines1
  <1> QED
    BY <1>1, <1>2, <1>3, <1>4, <1>5

\* A window of one line is printed over.
LEMMA OneLine ==
  ASSUME NEW s \in Int, NEW t \in Int
  PROVE  Lighted(Listed(1, s, 0), t, 0) = Listed(1, t, 0)
  <1>0. PICK f : f = Lighted(Listed(1, s, 0), t, 0)
    OBVIOUS
  <1>1. Lines(1) = {0}
    BY DEF Lines
  <1>2. f = [y \in {0} |-> f[y]] /\ Listed(1, t, 0) = [y \in {0} |-> Listed(1, t, 0)[y]]
    BY <1>0, <1>1 DEF PrintItem, Listed, Lighted
  <1>3. f[0] = [item |-> t, lit |-> TRUE]
    BY <1>0, <1>1 DEF PrintItem, Listed, Lighted
  <1>4. (0 = 0) = TRUE /\ t + 0 = t
    OBVIOUS
  <1>5. Listed(1, t, 0)[0] = [item |-> t, lit |-> TRUE]
    BY <1>1, <1>4 DEF Listed
  <1> QED
    BY <1>0, <1>2, <1>3, <1>5

\* What one of the dialog's windows shows of count items, for a list of that height.
Showing(count, height, rows, scroll, choice) ==
  /\ count > 0 /\ rows = IF height < count THEN height ELSE count
  /\ scroll \in Nat /\ choice \in Lines(rows) /\ scroll + rows <= count

ListInv ==
  /\ lItems \in Nat /\ lHeight \in Nat \ {0} /\ lpc \in {"closed", "open"}
  /\ lpc = "open" =>
       /\ Showing(lItems, lHeight, lRows, lScroll, lChoice)
       /\ lScreen = Listed(lRows, lScroll, lChoice)

LEMMA ListDrawn ==
  ASSUME NEW count \in Nat, count > 0, NEW height \in Nat \ {0}, NEW scroll \in Nat, NEW choice \in Nat,
         scroll + choice < count, scroll = 0 \/ scroll + height <= count,
         DrawList(count, height, scroll, choice)
  PROVE  /\ lItems' = count /\ lHeight' = height
         /\ Showing(lItems', lHeight', lRows', lScroll', lChoice')
         /\ lScreen' = Listed(lRows', lScroll', lChoice')
  <1>1. PICK rows : rows = IF height < count THEN height ELSE count
    OBVIOUS
  <1>2. PICK s : s = IF choice >= height THEN choice - height + 1 ELSE scroll
    OBVIOUS
  <1>3. PICK c : c = IF choice >= height THEN height - 1 ELSE choice
    OBVIOUS
  <1>4. /\ lItems' = count /\ lHeight' = height /\ lRows' = rows /\ lScroll' = s /\ lChoice' = c
        /\ lScreen' = [y \in Lines(rows) |-> [item |-> s + y, lit |-> y = c]]
    BY <1>1, <1>2, <1>3 DEF DrawList
  <1>5. Showing(count, height, rows, s, c)
    BY <1>1, <1>2, <1>3 DEF Showing, Lines
  <1> QED
    BY <1>4, <1>5 DEF Listed

LEMMA ListInit1 == ListInit => ListInv
  BY DEF ListInit, ListInv

\* The highlight moved to another line of the window.
LEMMA Highlighted ==
  ASSUME NEW i \in Lines(lRows), ListInv, lpc = "open", Highlight(i)
  PROVE  lScroll' = lScroll /\ lChoice' = i /\ lScreen' = Listed(lRows, lScroll, i)
  <1>1. lRows \in Nat /\ lScroll \in Int /\ lChoice \in Lines(lRows)
        /\ lScreen = Listed(lRows, lScroll, lChoice)
    BY DEF ListInv, Showing
  <1>2. CASE i = lChoice
    BY <1>1, <1>2 DEF Highlight
  <1>3. CASE i # lChoice
    <2>1. PICK f : f = PrintItem(lScreen, lScroll + lChoice, lChoice, FALSE)
      OBVIOUS
    <2>2. f = Plain(lRows, lScroll)
      BY <1>1, <2>1, LightOff, Zenon
    <2>3. lScreen' = PrintItem(f, lScroll + i, i, TRUE)
      BY <1>3, <2>1 DEF Highlight
    <2>4. lScreen' = Listed(lRows, lScroll, i)
      BY <1>1, <2>2, <2>3, LightOn, Zenon
    <2> QED
      BY <2>4 DEF Highlight
  <1> QED
    BY <1>2, <1>3

LEMMA MovedUp ==
  ASSUME NEW items \in Nat, NEW height \in Nat, height > 0, NEW rows \in Nat, NEW s \in Nat, s # 0,
         Showing(items, height, rows, s, 0), lHeight = height, lScreen = Listed(rows, s, 0),
         NEW f, f = Lighted(ListScrolled(0, s, -1), s - 1, 0)
  PROVE  f = Listed(rows, s - 1, 0) /\ Showing(items, height, rows, s - 1, 0)
  <1>1. rows > 0 /\ (height = 1 => rows = 1)
    BY DEF Showing
  <1>2. Showing(items, height, rows, s - 1, 0)
    BY DEF Showing
  <1>3. CASE height = 1
    <2>1. f = Lighted(Listed(1, s, 0), s - 1, 0)
      BY <1>1, <1>3 DEF ListScrolled
    <2> QED
      BY <1>1, <1>2, <1>3, <2>1, OneLine
  <1>4. CASE height > 1
    <2>1. f = Lighted(Scrolled(Unlighted(Listed(rows, s, 0), s, 0), -1), s - 1, 0)
      BY <1>4 DEF ListScrolled, Unlighted
    <2> QED
      BY <1>1, <1>2, <2>1, LitAbove
  <1> QED
    BY <1>3, <1>4

LEMMA MovedDown ==
  ASSUME NEW items \in Nat, NEW height \in Nat, height > 0, NEW rows \in Nat, NEW s \in Nat, NEW c \in Nat,
         c = rows - 1, s + c < items - 1,
         Showing(items, height, rows, s, c), lHeight = height, lScreen = Listed(rows, s, c),
         NEW f, f = Lighted(ListScrolled(rows - 1, s + rows - 1, 1), s + rows, rows - 1)
  PROVE  f = Listed(rows, s + 1, rows - 1) /\ Showing(items, height, rows, s + 1, rows - 1)
  <1>1. rows > 0 /\ (height = 1 => rows = 1)
    BY DEF Showing
  <1>2. Showing(items, height, rows, s + 1, rows - 1)
    BY DEF Showing
  <1>3. CASE height = 1
    <2>1. f = Lighted(Listed(1, s, 0), s + 1, 0)
      BY <1>1, <1>3 DEF ListScrolled
    <2> QED
      BY <1>1, <1>2, <1>3, <2>1, OneLine
  <1>4. CASE height > 1
    <2>1. f = Lighted(Scrolled(Unlighted(Listed(rows, s, rows - 1), s + rows - 1, rows - 1), 1),
                      s + rows, rows - 1)
      BY <1>4 DEF ListScrolled, Unlighted
    <2> QED
      BY <1>1, <1>2, <2>1, LitBelow
  <1> QED
    BY <1>3, <1>4

LEMMA ListStep == ListInv /\ [ListNext]_listvars => ListInv'
  <1> SUFFICES ASSUME ListInv, [ListNext]_listvars PROVE ListInv'
    OBVIOUS
  <1>1. CASE OpenList
    <2>1. PICK count \in 1..ListItems, height \in ListHeights :
            \E marked \in 0..count - 1 : DrawList(count, height, 0, marked)
      BY <1>1 DEF OpenList
    <2>2. PICK marked \in 0..count - 1 : DrawList(count, height, 0, marked)
      BY <2>1
    <2>3. count \in Nat /\ count > 0 /\ height \in Nat \ {0} /\ marked \in Nat /\ 0 + marked < count
      BY ListConstants
    <2>4. /\ lItems' = count /\ lHeight' = height
          /\ Showing(lItems', lHeight', lRows', lScroll', lChoice')
          /\ lScreen' = Listed(lRows', lScroll', lChoice')
      BY <2>2, <2>3, ListDrawn
    <2>5. lpc' = "open"
      BY <1>1 DEF OpenList
    <2> QED
      BY <2>3, <2>4, <2>5 DEF ListInv
  <1>2. CASE ResizeList
    <2>1. lpc = "open" /\ lpc' = lpc /\ DrawList(lItems, lHeight, lScroll, lChoice)
      BY <1>2 DEF ResizeList
    <2>2. lItems \in Nat /\ lHeight \in Nat \ {0} /\ Showing(lItems, lHeight, lRows, lScroll, lChoice)
      BY <2>1 DEF ListInv
    <2>3. /\ lItems > 0 /\ lScroll \in Nat /\ lChoice \in Nat /\ lScroll + lChoice < lItems
          /\ lScroll = 0 \/ lScroll + lHeight <= lItems
      BY <2>2 DEF Showing, Lines
    <2>4. /\ lItems' = lItems /\ lHeight' = lHeight
          /\ Showing(lItems', lHeight', lRows', lScroll', lChoice')
          /\ lScreen' = Listed(lRows', lScroll', lChoice')
      BY <2>1, <2>2, <2>3, ListDrawn
    <2> QED
      BY <2>1, <2>2, <2>4 DEF ListInv
  <1>3. CASE ListMove
    <2>1. lpc = "open" /\ UNCHANGED <<lpc, lItems, lHeight, lRows>>
      BY <1>3 DEF ListMove
    <2>2. lItems \in Nat /\ lHeight \in Nat \ {0} /\ Showing(lItems, lHeight, lRows, lScroll, lChoice)
          /\ lScreen = Listed(lRows, lScroll, lChoice)
      BY <2>1 DEF ListInv
    <2>a. lRows \in Nat /\ lScroll \in Nat /\ lChoice \in Nat /\ lHeight \in Nat /\ lHeight > 0
      BY <2>2 DEF Showing, Lines
    <2>3. ASSUME NEW i \in Lines(lRows), Highlight(i) PROVE ListInv'
      <3>1. lScroll' = lScroll /\ lChoice' = i /\ lScreen' = Listed(lRows, lScroll, i)
        BY <2>1, <2>3, Highlighted
      <3>2. Showing(lItems, lHeight, lRows, lScroll, i)
        BY <2>2 DEF Showing
      <3> QED
        BY <2>1, <2>2, <3>1, <3>2 DEF ListInv
    <2>4. CASE ListUp
      <3>1. CASE lChoice # 0 /\ Highlight(lChoice - 1)
        <4>1. lChoice - 1 \in Lines(lRows)
          BY <2>2, <3>1 DEF Showing, Lines
        <4> QED
          BY <2>3, <3>1, <4>1
      <3>2. CASE ~(lChoice # 0 /\ Highlight(lChoice - 1))
        <4>1. /\ lChoice = 0 /\ lScroll # 0 /\ lScroll' = lScroll - 1 /\ lChoice' = lChoice
              /\ lScreen' = Lighted(ListScrolled(0, lScroll, -1), lScroll - 1, 0)
          BY <2>4, <3>2 DEF ListUp, Lighted
        <4>2. lScreen' = Listed(lRows, lScroll', 0) /\ Showing(lItems, lHeight, lRows, lScroll', 0)
          BY <2>2, <2>a, <4>1, MovedUp
        <4> QED
          BY <2>1, <2>2, <4>1, <4>2 DEF ListInv
      <3> QED
        BY <3>1, <3>2
    <2>5. CASE ListDown
      <3>1. CASE lChoice # lRows - 1 /\ Highlight(lChoice + 1)
        <4>1. lChoice + 1 \in Lines(lRows)
          BY <2>2, <3>1 DEF Showing, Lines
        <4> QED
          BY <2>3, <3>1, <4>1
      <3>2. CASE ~(lChoice # lRows - 1 /\ Highlight(lChoice + 1))
        <4>1. /\ lChoice = lRows - 1 /\ lScroll + lChoice < lItems - 1
              /\ lScroll' = lScroll + 1 /\ lChoice' = lChoice
              /\ lScreen' = Lighted(ListScrolled(lRows - 1, lScroll + lRows - 1, 1),
                                    lScroll + lRows, lRows - 1)
          BY <2>5, <3>2 DEF ListDown, Lighted
        <4>2. /\ lScreen' = Listed(lRows, lScroll', lRows - 1)
              /\ Showing(lItems, lHeight, lRows, lScroll', lRows - 1)
          BY <2>2, <2>a, <4>1, MovedDown
        <4> QED
          BY <2>1, <2>2, <4>1, <4>2 DEF ListInv
      <3> QED
        BY <3>1, <3>2
    <2>6. CASE ListLetter
      BY <2>3, <2>6 DEF ListLetter
    <2> QED
      BY <1>3, <2>4, <2>5, <2>6 DEF ListMove
  <1>4. CASE ListButton
    BY <1>4 DEF ListButton, ListInv
  <1>5. CASE ListReturn
    BY <1>5 DEF ListReturn, ListInv
  <1>6. CASE UNCHANGED listvars
    BY <1>6 DEF listvars, ListInv
  <1> QED
    BY <1>1, <1>2, <1>3, <1>4, <1>5, <1>6 DEF ListNext

\* What is lit in the list of a choice is the value that Enter picks, however the
\* list was scrolled, for choices and windows of any size (checklist.c:137-318).
THEOREM ListShows == ListSpec => []ListShowsChoice
  <1>1. ListInv => ListShowsChoice
    BY DEF ListInv, ListShowsChoice, ShowsList, Listed, Showing
  <1> QED
    BY <1>1, ListInit1, ListStep, PTL DEF ListSpec

\* The menu shows where the user is, for menus and windows of any size
\* (menubox.c:180-426).
THEOREM MenuCorrect == MenuSpec => MenuIsTrue
  BY MenuShows, MenuOpens DEF MenuIsTrue

-----------------------------------------------------------------------------
(* dialog_textbox: get_line and back_lines, in lines                       *)

LEMMA LeastElement ==
  ASSUME NEW S, S \subseteq Nat, S # {}
  PROVE  \E least \in S : \A n \in S : least <= n
  <1>1. PICK least \in S : \A n \in S : ~(<<n, least>> \in OpToRel(<, Nat))
    BY NatLessThanWellFounded, WFMin
  <1>2. ASSUME NEW n \in S PROVE least <= n
    <2>1. ~(<<n, least>> \in OpToRel(<, Nat)) /\ n \in Nat /\ least \in Nat
      BY <1>1
    <2>2. ~(n < least)
      BY <2>1 DEF OpToRel
    <2> HIDE <1>1
    <2>3. \A k, m \in Nat : ~(k < m) => m <= k
      OBVIOUS
    <2> QED
      BY <2>1, <2>2, <2>3
  <1> QED
    BY <1>2

LEMMA LeastIsMin ==
  ASSUME NEW S, S \subseteq Nat, S # {}
  PROVE  Min(S) \in S /\ \A n \in S : Min(S) <= n
  <1>1. \E least \in S : \A n \in S : least <= n
    BY LeastElement
  <1> QED
    BY <1>1 DEF Min

LEMMA GreatestIsMax ==
  ASSUME NEW S, S \subseteq Int, S # {}, NEW bound \in Int, \A n \in S : n <= bound
  PROVE  Max(S) \in S /\ \A n \in S : Max(S) >= n
  <1> DEFINE T == {bound - n : n \in S}
  <1>1. T \subseteq Nat /\ T # {}
    <2>1. T # {}
      OBVIOUS
    <2>2. ASSUME NEW n \in S PROVE bound - n \in Nat
      BY n \in Int, n <= bound
    <2> QED
      BY <2>1, <2>2
  <1>2. PICK t \in T : \A u \in T : t <= u
    BY <1>1, LeastElement
  <1>3. PICK greatest \in S : t = bound - greatest
    BY <1>2
  <1>4. ASSUME NEW n \in S PROVE greatest >= n
    <2>1. bound - n \in T
      OBVIOUS
    <2>2. bound - greatest <= bound - n /\ n \in Int /\ greatest \in Int
      BY <1>2, <1>3, <2>1
    <2> QED
      BY <2>2
  <1>5. \E m \in S : \A n \in S : m >= n
    BY <1>4
  <1> QED
    BY <1>5 DEF Max

LEMMA LineOfNext ==
  ASSUME NEW text, NEW p \in Nat
  PROVE  /\ IsFiniteSet(NewLines(text, 0, p)) /\ LineOf(text, p) \in Nat /\ LineOf(text, 0) = 0
         /\ LineOf(text, p + 1) = LineOf(text, p) + (IF text[p + 1] = NewLine THEN 1 ELSE 0)
  <1> DEFINE S == NewLines(text, 0, p)
             U == NewLines(text, 0, p + 1)
  <1>1. IsFiniteSet(S)
    <2>1. IsFiniteSet(0..p - 1) /\ S \in SUBSET (0..p - 1)
      BY FS_Interval DEF NewLines
    <2> QED
      BY <2>1, FS_Subset
  <1>2. Cardinality(S) \in Nat
    BY <1>1, FS_CardinalityType
  <1>3. LineOf(text, 0) = 0
    <2>1. NewLines(text, 0, 0) = {}
      BY DEF NewLines
    <2> QED
      BY <2>1, FS_EmptySet DEF LineOf
  <1>4. 0..(p + 1) - 1 = 0..p - 1 \cup {p} /\ p \notin 0..p - 1
    OBVIOUS
  <1>5. CASE text[p + 1] = NewLine
    <2>1. U = S \cup {p} /\ p \notin S
      BY <1>4, <1>5 DEF NewLines
    <2>2. Cardinality(U) = Cardinality(S) + 1
      BY <1>1, <2>1, FS_AddElement
    <2> QED
      BY <1>1, <1>2, <1>3, <1>5, <2>2 DEF LineOf
  <1>6. CASE text[p + 1] # NewLine
    <2>1. U = S
      BY <1>4, <1>6 DEF NewLines
    <2> QED
      BY <1>1, <1>2, <1>3, <1>6, <2>1 DEF LineOf
  <1> QED
    BY <1>5, <1>6

LEMMA LineOfGrows ==
  ASSUME NEW text, NEW p \in Nat, NEW q \in Nat, p <= q
  PROVE  LineOf(text, p) <= LineOf(text, q)
  <1>1. NewLines(text, 0, p) \subseteq NewLines(text, 0, q)
    BY DEF NewLines
  <1>2. IsFiniteSet(NewLines(text, 0, q))
    BY LineOfNext
  <1> QED
    BY <1>1, <1>2, FS_Subset DEF LineOf

LEMMA NoLineBetween ==
  ASSUME NEW text, NEW p \in Nat, NEW q \in Nat, p <= q, \A i \in p..q - 1 : text[i + 1] # NewLine
  PROVE  LineOf(text, p) = LineOf(text, q)
  <1>1. ASSUME NEW i \in NewLines(text, 0, q) PROVE i \in NewLines(text, 0, p)
    BY DEF NewLines
  <1>2. NewLines(text, 0, p) \subseteq NewLines(text, 0, q)
    BY DEF NewLines
  <1>3. NewLines(text, 0, p) = NewLines(text, 0, q)
    BY <1>1, <1>2
  <1> QED
    BY <1>3 DEF LineOf

Ended(text) == Len(text) \in Nat /\ Len(text) > 0 /\ Lined(text)

NumLines(text) == LineOf(text, Len(text))

LEMMA Starts ==
  ASSUME NEW text, Ended(text)
  PROVE  /\ \A p \in LineStarts(text) :
              /\ p \in Nat /\ p <= Len(text) /\ (p # 0 => text[p] = NewLine)
              /\ LineOf(text, p) \in Nat /\ LineOf(text, p) <= NumLines(text)
              /\ p # 0 => LineOf(text, p) > 0
         /\ 0 \in LineStarts(text) /\ Len(text) \in LineStarts(text) /\ NumLines(text) \in Nat
         /\ NumLines(text) > 0
         /\ \A p \in Nat : p < Len(text) /\ text[p + 1] = NewLine => p + 1 \in LineStarts(text)
  <1>1. ASSUME NEW p \in LineStarts(text)
        PROVE  p \in Nat /\ p <= Len(text) /\ (p # 0 => text[p] = NewLine)
    <2>1. CASE p = 0
      BY <2>1 DEF Ended
    <2>2. CASE p # 0
      <3>1. PICK q \in NewLines(text, 0, Len(text)) : p = q + 1
        BY <2>2 DEF LineStarts
      <3>2. q \in 0..Len(text) - 1 /\ text[q + 1] = NewLine
        BY <3>1 DEF NewLines
      <3> QED
        BY <3>1, <3>2 DEF Ended
    <2> QED
      BY <2>1, <2>2
  <1>2. \A p \in Nat : p < Len(text) /\ text[p + 1] = NewLine => p + 1 \in LineStarts(text)
    BY DEF LineStarts, NewLines, Ended
  <1>3. 0 \in LineStarts(text)
    BY DEF LineStarts
  <1>4. Len(text) \in LineStarts(text)
    <2>1. Len(text) - 1 \in Nat /\ (Len(text) - 1) + 1 = Len(text) /\ Len(text) - 1 < Len(text)
      BY DEF Ended
    <2>2. text[(Len(text) - 1) + 1] = NewLine
      BY <2>1 DEF Ended, Lined
    <2> QED
      BY <1>2, <2>1, <2>2
  <1>5. ASSUME NEW p \in LineStarts(text)
        PROVE  /\ LineOf(text, p) \in Nat /\ LineOf(text, p) <= NumLines(text)
               /\ p # 0 => LineOf(text, p) > 0
    <2>1. p \in Nat /\ p <= Len(text) /\ (p # 0 => text[p] = NewLine) /\ Len(text) \in Nat
      BY <1>1 DEF Ended
    <2>2. LineOf(text, p) \in Nat
      BY <2>1, LineOfNext
    <2>3. LineOf(text, p) <= NumLines(text)
      BY <2>1, LineOfGrows DEF NumLines
    <2>4. ASSUME p # 0 PROVE LineOf(text, p) > 0
      <3>1. p - 1 \in Nat /\ (p - 1) + 1 = p /\ text[p] = NewLine
        BY <2>1, <2>4
      <3>2. /\ LineOf(text, p - 1) \in Nat
            /\ LineOf(text, (p - 1) + 1) =
                 LineOf(text, p - 1) + (IF text[(p - 1) + 1] = NewLine THEN 1 ELSE 0)
        BY <3>1, LineOfNext
      <3> QED
        BY <3>1, <3>2
    <2> QED
      BY <2>2, <2>3, <2>4
  <1>6. NumLines(text) \in Nat /\ NumLines(text) > 0
    BY <1>4, <1>5 DEF NumLines, Ended
  <1> QED
    BY <1>1, <1>2, <1>3, <1>4, <1>5, <1>6

\* A line starts at one place.
LEMMA OneStart ==
  ASSUME NEW text, Ended(text), NEW p \in LineStarts(text), NEW q \in LineStarts(text),
         LineOf(text, p) = LineOf(text, q)
  PROVE  p = q
  <1>1. ASSUME NEW a \in LineStarts(text), NEW b \in LineStarts(text), a < b
        PROVE  LineOf(text, a) # LineOf(text, b)
    <2>1. a \in Nat /\ b \in Nat /\ (b # 0 => text[b] = NewLine)
      BY Starts
    <2>2. b - 1 \in Nat /\ (b - 1) + 1 = b /\ a <= b - 1 /\ text[(b - 1) + 1] = NewLine
      BY <1>1, <2>1
    <2>3. LineOf(text, b) = LineOf(text, b - 1) + 1 /\ LineOf(text, b - 1) \in Nat
      BY <2>2, LineOfNext
    <2>4. LineOf(text, a) <= LineOf(text, b - 1) /\ LineOf(text, a) \in Nat
      BY <2>1, <2>2, LineOfGrows, LineOfNext
    <2> QED
      BY <2>3, <2>4
  <1>2. p \in Nat /\ q \in Nat
    BY Starts
  <1>3. ~(p < q) /\ ~(q < p)
    BY <1>1
  <1> QED
    BY <1>2, <1>3

Spots(text) == [page : LineStarts(text), begin : BOOLEAN, end : BOOLEAN]

\* The place v lines down, where having read on at the end of the text is one more line.
Stands(text, s, v) ==
  /\ s \in Spots(text) /\ v \in Nat /\ v <= NumLines(text) + 1
  /\ LineOf(text, s.page) = IF v <= NumLines(text) THEN v ELSE NumLines(text)
  /\ s.end <=> v = NumLines(text) + 1

LEMMA LineBelow ==
  ASSUME NEW text, Ended(text), NEW s \in Spots(text)
  PROVE  /\ Stands(text, GetLine(text, s), LineOf(text, s.page) + 1)
         /\ GetLine(text, s).begin = s.begin
  <1> DEFINE p == s.page
             len == Len(text)
             ends == NewLines(text, p, len)
             g == GetLine(text, s)
  <1>1. /\ p \in LineStarts(text) /\ p \in Nat /\ p <= len /\ len \in Nat
        /\ LineOf(text, p) \in Nat /\ LineOf(text, p) <= NumLines(text) /\ NumLines(text) \in Nat
        /\ len \in LineStarts(text)
    BY Starts DEF Spots, Ended
  <1>2. CASE p = len
    <2>1. ends = {}
      BY <1>1, <1>2 DEF NewLines
    <2>2. g = [s EXCEPT !.page = len, !.end = TRUE]
      BY <2>1 DEF GetLine
    <2>3. g \in Spots(text) /\ g.page = len /\ g.end = TRUE /\ g.begin = s.begin
      BY <1>1, <2>2 DEF Spots
    <2> HIDE DEF g
    <2>4. LineOf(text, p) = NumLines(text)
      BY <1>2 DEF NumLines
    <2>5. Stands(text, g, LineOf(text, p) + 1)
      BY <1>1, <2>3, <2>4 DEF Stands, NumLines
    <2> QED
      BY <2>3, <2>5 DEF g
  <1>3. CASE p # len
    <2>1. len - 1 \in ends
      <3>1. len - 1 \in p..len - 1 /\ (len - 1) + 1 = len
        BY <1>1, <1>3
      <3> QED
        BY <3>1 DEF Ended, Lined, NewLines
    <2>2. ends \subseteq Nat
      BY <1>1 DEF NewLines
    <2> DEFINE m == Min(ends)
    <2>3. m \in ends /\ \A e \in ends : m <= e
      BY <2>1, <2>2, LeastIsMin
    <2>4. g = [s EXCEPT !.page = m + 1, !.end = FALSE]
      BY <2>1 DEF GetLine
    <2>5. m \in Nat /\ p <= m /\ m < len /\ text[m + 1] = NewLine
      BY <1>1, <2>3 DEF NewLines
    <2>6. \A i \in p..m - 1 : text[i + 1] # NewLine
      <3>1. ASSUME NEW i \in p..m - 1, text[i + 1] = NewLine PROVE FALSE
        <4>1. i \in p..len - 1 /\ ~(m <= i)
          BY <1>1, <2>5
        <4>2. i \in ends
          BY <3>1, <4>1 DEF NewLines
        <4> QED
          BY <2>3, <4>1, <4>2
      <3> QED
        BY <3>1
    <2> HIDE DEF m, ends
    <2>7. LineOf(text, m) = LineOf(text, p)
      BY <1>1, <2>5, <2>6, NoLineBetween
    <2>8. LineOf(text, m + 1) = LineOf(text, p) + 1
      BY <2>5, <2>7, LineOfNext
    <2>9. m + 1 \in LineStarts(text)
      BY <2>5, Starts
    <2>10. LineOf(text, m + 1) <= NumLines(text)
      BY <2>9, Starts
    <2>11. g \in Spots(text) /\ g.page = m + 1 /\ g.end = FALSE /\ g.begin = s.begin
      BY <2>4, <2>9 DEF Spots
    <2> HIDE DEF g, p
    <2>12. Stands(text, g, LineOf(text, p) + 1)
      BY <1>1, <2>8, <2>10, <2>11 DEF Stands
    <2> QED
      BY <2>11, <2>12 DEF g, p
  <1> QED
    BY <1>2, <1>3

Above(v) == IF v = 0 THEN 0 ELSE v - 1

LEMMA LineAbove ==
  ASSUME NEW text, Ended(text), NEW s, NEW v, Stands(text, s, v)
  PROVE  /\ Stands(text, BackLine(text, s), Above(v))
         /\ BackLine(text, s).begin <=> v <= 1 \/ s.begin
  <1> DEFINE p == s.page
             len == Len(text)
             ends == NewLines(text, 0, p - 1)
             g == BackLine(text, s)
             last == NumLines(text)
  <1>1. /\ s \in Spots(text) /\ p \in LineStarts(text) /\ p \in Nat /\ p <= len /\ len \in Nat
        /\ LineOf(text, p) \in Nat /\ last \in Nat /\ last > 0
        /\ len \in LineStarts(text) /\ 0 \in LineStarts(text)
        /\ v \in Nat /\ v <= last + 1 /\ (s.end <=> v = last + 1)
        /\ LineOf(text, p) = IF v <= last THEN v ELSE last
    BY Starts DEF Stands, Spots, Ended
  <1>2. CASE v = last + 1
    <2>1. p = len /\ s.end
      <3>1. LineOf(text, p) = LineOf(text, len) /\ s.end
        BY <1>1, <1>2 DEF NumLines
      <3> QED
        BY <1>1, <3>1, OneStart
    <2>2. g = [s EXCEPT !.end = FALSE]
      BY <2>1 DEF BackLine
    <2>3. g \in Spots(text) /\ g.page = p /\ g.end = FALSE /\ g.begin = s.begin
      BY <1>1, <2>2 DEF Spots
    <2> HIDE DEF g, p, last
    <2>4. Above(v) = last /\ ~(v <= 1)
      BY <1>1, <1>2 DEF Above
    <2>5. Stands(text, g, last)
      BY <1>1, <1>2, <2>3 DEF Stands, last
    <2> QED
      BY <2>3, <2>4, <2>5 DEF g
  <1>3. CASE v # last + 1 /\ ends = {}
    <2>1. ~s.end
      BY <1>1, <1>3
    <2>2. g = [s EXCEPT !.page = 0, !.begin = TRUE]
      BY <1>3, <2>1 DEF BackLine
    <2>3. g \in Spots(text) /\ g.page = 0 /\ g.end = s.end /\ g.begin = TRUE
      BY <1>1, <2>2 DEF Spots
    <2>4. v <= 1
      <3>1. CASE p = 0
        <4>1. LineOf(text, p) = 0
          BY <3>1, LineOfNext
        <4> QED
          BY <1>1, <1>3, <4>1
      <3>2. CASE p # 0
        <4>1. p - 1 \in Nat /\ (p - 1) + 1 = p /\ 0 <= p - 1
          BY <1>1, <3>2
        <4>2. \A i \in 0..(p - 1) - 1 : text[i + 1] # NewLine
          BY <1>3 DEF NewLines
        <4>3. LineOf(text, 0) = LineOf(text, p - 1) /\ LineOf(text, 0) = 0
          BY <4>1, <4>2, NoLineBetween, LineOfNext
        <4>4. LineOf(text, (p - 1) + 1) =
                LineOf(text, p - 1) + (IF text[(p - 1) + 1] = NewLine THEN 1 ELSE 0)
          BY <4>1, LineOfNext
        <4> HIDE DEF p
        <4>5. LineOf(text, p) <= 1
          BY <1>1, <4>1, <4>3, <4>4
        <4> QED
          BY <1>1, <1>3, <4>5
      <3> QED
        BY <3>1, <3>2
    <2> HIDE DEF g, p, last
    <2>5. Above(v) = 0
      BY <1>1, <2>4 DEF Above
    <2>6. LineOf(text, 0) = 0
      BY LineOfNext
    <2>7. Stands(text, g, 0)
      BY <1>1, <2>1, <2>3, <2>6 DEF Stands, last
    <2> QED
      BY <2>3, <2>4, <2>5, <2>7 DEF g
  <1>4. CASE v # last + 1 /\ ends # {}
    <2>1. ~s.end
      BY <1>1, <1>4
    <2>2. g = [s EXCEPT !.page = Max(ends) + 1]
      BY <1>4, <2>1 DEF BackLine
    <2>3. ends \subseteq Int /\ (\A e \in ends : e <= len) /\ len \in Int
      BY <1>1 DEF NewLines
    <2> DEFINE m == Max(ends)
    <2>4. m \in ends /\ \A e \in ends : m >= e
      BY <1>4, <2>3, GreatestIsMax
    <2>5. m \in Nat /\ m <= p - 2 /\ text[m + 1] = NewLine
      BY <1>1, <2>4 DEF NewLines
    <2>6. \A i \in m + 1..(p - 1) - 1 : text[i + 1] # NewLine
      <3>1. ASSUME NEW i \in m + 1..(p - 1) - 1, text[i + 1] = NewLine PROVE FALSE
        <4>1. i \in 0..(p - 1) - 1 /\ ~(m >= i)
          BY <1>1, <2>5
        <4>2. i \in ends
          BY <3>1, <4>1 DEF NewLines
        <4> QED
          BY <2>4, <4>1, <4>2
      <3> QED
        BY <3>1
    <2> HIDE DEF m, ends
    <2>7. p - 1 \in Nat /\ (p - 1) + 1 = p /\ m + 1 \in Nat /\ m + 1 <= p - 1 /\ m < len /\ p # 0
      BY <1>1, <2>5
    <2>8. LineOf(text, m + 1) = LineOf(text, p - 1)
      BY <2>6, <2>7, NoLineBetween
    <2>9. text[p] = NewLine
      BY <1>1, <2>7, Starts
    <2>10. LineOf(text, (p - 1) + 1) =
             LineOf(text, p - 1) + (IF text[(p - 1) + 1] = NewLine THEN 1 ELSE 0)
      BY <2>7, LineOfNext
    <2>11. m + 1 \in LineStarts(text)
      BY <2>5, <2>7, Starts
    <2>12. LineOf(text, m + 1) \in Nat /\ LineOf(text, m + 1) > 0
      BY <2>5, <2>11, Starts
    <2>13. LineOf(text, m + 1) = LineOf(text, p) - 1
      BY <2>7, <2>8, <2>9, <2>10, <2>12
    <2>14. /\ g \in Spots(text) /\ g.page = m + 1 /\ g.end = s.end /\ g.begin = s.begin
      BY <1>1, <2>2, <2>11 DEF Spots, m
    <2> HIDE DEF g, p, last
    <2>15. v = LineOf(text, p) /\ ~(v <= 1) /\ Above(v) = v - 1 /\ v <= last
      BY <1>1, <1>4, <2>12, <2>13 DEF Above
    <2>16. Stands(text, g, v - 1)
      BY <1>1, <2>1, <2>13, <2>14, <2>15 DEF Stands, last
    <2> QED
      BY <2>14, <2>15, <2>16 DEF g
  <1> QED
    BY <1>2, <1>3, <1>4

\* What holds at 0 and is passed on holds up to n.
LEMMA PassedOn ==
  ASSUME NEW n \in Nat, NEW G, 0 \in G, \A i \in 0..n - 1 : i \in G => i + 1 \in G
  PROVE  \A i \in 0..n : i \in G
  <1> DEFINE S == {i \in 0..n : i \notin G}
  <1> SUFFICES ASSUME S # {} PROVE FALSE
    OBVIOUS
  <1>1. S \subseteq Nat
    OBVIOUS
  <1>2. PICK i \in S : \A j \in S : i <= j
    BY <1>1, LeastElement
  <1>3. i \in 0..n /\ i \notin G /\ i # 0
    BY <1>2
  <1>4. i - 1 \in 0..n - 1 /\ (i - 1) + 1 = i /\ i - 1 \in 0..n /\ ~(i <= i - 1)
    BY <1>3
  <1>5. i - 1 \in G
    BY <1>2, <1>4
  <1> QED
    BY <1>3, <1>4, <1>5

\* Walks of n steps.
CanWalk(P, step, s, n) == step \in [P -> P] /\ s \in P /\ n \in Nat

IsWalk(w, P, step, s, n) ==
  w \in [0..n -> P] /\ w[0] = s /\ \A i \in 1..n : w[i] = step[w[i - 1]]

LEMMA WalkExists ==
  ASSUME NEW P, NEW step, NEW s, NEW n, CanWalk(P, step, s, n)
  PROVE  \E w : IsWalk(w, P, step, s, n)
  <1> step \in [P -> P] /\ s \in P /\ n \in Nat
    BY DEF CanWalk
  <1> DEFINE Walks(k) == \E w \in [0..k -> P] : w[0] = s /\ \A i \in 1..k : w[i] = step[w[i - 1]]
             G == {k \in 0..n : Walks(k)}
  <1>1. 0 \in G
    <2> DEFINE w == [i \in 0..0 |-> s]
    <2>1. w \in [0..0 -> P] /\ w[0] = s /\ \A i \in 1..0 : w[i] = step[w[i - 1]]
      OBVIOUS
    <2>2. Walks(0)
      BY <2>1
    <2> QED
      BY <2>2
  <1>2. ASSUME NEW k \in 0..n - 1, k \in G PROVE k + 1 \in G
    <2>1. PICK w \in [0..k -> P] : w[0] = s /\ \A i \in 1..k : w[i] = step[w[i - 1]]
      BY <1>2
    <2> DEFINE x == [i \in 0..k + 1 |-> IF i = k + 1 THEN step[w[k]] ELSE w[i]]
    <2>2. \A i \in 0..k + 1 : i # k + 1 => i \in 0..k
      OBVIOUS
    <2>3. k \in 0..k
      OBVIOUS
    <2>4. x \in [0..k + 1 -> P]
      BY <2>2, <2>3
    <2>5. \A i \in 0..k : x[i] = w[i]
      OBVIOUS
    <2>6. x[k + 1] = step[w[k]]
      OBVIOUS
    <2> HIDE DEF x
    <2>7. x[0] = s
      BY <2>1, <2>5
    <2>8. ASSUME NEW i \in 1..k + 1 PROVE x[i] = step[x[i - 1]]
      <3>1. CASE i = k + 1
        <4>1. i - 1 = k
          BY <3>1
        <4> QED
          BY <2>3, <2>5, <2>6, <3>1, <4>1
      <3>2. CASE i # k + 1
        <4>1. i \in 1..k /\ i \in 0..k /\ i - 1 \in 0..k
          BY <3>2
        <4> QED
          BY <2>1, <2>5, <4>1
      <3> QED
        BY <3>1, <3>2
    <2>9. Walks(k + 1)
      BY <2>4, <2>7, <2>8
    <2>10. k + 1 \in 0..n
      OBVIOUS
    <2> HIDE DEF Walks
    <2> QED
      BY <2>9, <2>10
  <1> HIDE DEF Walks
  <1>3. \A i \in 0..n : i \in G
    <2> HIDE DEF G
    <2> QED
      BY <1>1, <1>2, PassedOn
  <1>4. Walks(n)
    BY <1>3
  <1> QED
    BY <1>4 DEF Walks, IsWalk

Forth(text, s, n) == CHOOSE w : w = [i \in 0..n |-> IF i = 0 THEN s ELSE GetLine(text, w[i - 1])]

BackTurn(text, s) == IF s.begin THEN s ELSE BackLine(text, s)

Back(text, s, n) ==
  CHOOSE w : w = [i \in 0..n |-> IF i = 0 THEN [s EXCEPT !.begin = FALSE]
                                 ELSE BackTurn(text, w[i - 1])]

LEMMA GetLinesWalk ==
  ASSUME NEW text, NEW s, NEW n
  PROVE  GetLines(text, s, n) = Forth(text, s, n)[n]
  BY DEF GetLines, Forth

LEMMA BackLinesWalk ==
  ASSUME NEW text, NEW s, NEW n
  PROVE  BackLines(text, s, n) = Back(text, s, n)[n]
  BY DEF BackLines, Back, BackTurn

Low(text, v) == IF v <= NumLines(text) + 1 THEN v ELSE NumLines(text) + 1

LEMMA WentForth ==
  ASSUME NEW text, Ended(text), NEW s \in Spots(text), NEW n \in Nat
  PROVE  /\ Forth(text, s, n)[0] = s
         /\ \A i \in 1..n : /\ Stands(text, Forth(text, s, n)[i], Low(text, LineOf(text, s.page) + i))
                            /\ Forth(text, s, n)[i].begin = s.begin
  <1> DEFINE P == Spots(text)
             step == [x \in P |-> GetLine(text, x)]
             f == Forth(text, s, n)
             v == LineOf(text, s.page)
             last == NumLines(text)
  <1>1. step \in [P -> P]
    BY LineBelow DEF Stands
  <1>2. PICK w \in [0..n -> P] : w[0] = s /\ \A i \in 1..n : w[i] = step[w[i - 1]]
    <2>1. s \in P
      OBVIOUS
    <2>2. CanWalk(P, step, s, n)
      BY <1>1, <2>1 DEF CanWalk
    <2> HIDE DEF P, step
    <2>3. PICK w : IsWalk(w, P, step, s, n)
      BY <2>2, WalkExists, Zenon
    <2> QED
      BY <2>3, Zenon DEF IsWalk
  <1>3. w = [i \in 0..n |-> IF i = 0 THEN s ELSE GetLine(text, w[i - 1])]
    <2>1. ASSUME NEW i \in 0..n PROVE w[i] = IF i = 0 THEN s ELSE GetLine(text, w[i - 1])
      <3>1. CASE i = 0
        BY <1>2, <3>1
      <3>2. CASE i # 0
        <4>1. i \in 1..n /\ i - 1 \in 0..n
          BY <3>2
        <4> QED
          BY <1>2, <3>2, <4>1
      <3> QED
        BY <3>1, <3>2
    <2> QED
      BY <2>1
  <1>4. f = [i \in 0..n |-> IF i = 0 THEN s ELSE GetLine(text, f[i - 1])]
    BY <1>3 DEF Forth
  <1> HIDE DEF f
  <1>5. f[0] = s /\ \A i \in 0..n - 1 : f[i + 1] = GetLine(text, f[i])
    <2>1. 0 \in 0..n /\ \A i \in 0..n - 1 : i + 1 \in 0..n /\ i + 1 # 0 /\ (i + 1) - 1 = i
      OBVIOUS
    <2>2. f[0] = s
      BY <1>4, <2>1
    <2>3. ASSUME NEW i \in 0..n - 1 PROVE f[i + 1] = GetLine(text, f[i])
      <3>1. i + 1 \in 0..n /\ i + 1 # 0 /\ (i + 1) - 1 = i
        BY <2>1
      <3>2. f[i + 1] = IF i + 1 = 0 THEN s ELSE GetLine(text, f[(i + 1) - 1])
        BY <1>4, <3>1
      <3> QED
        BY <3>1, <3>2
    <2> QED
      BY <2>2, <2>3
  <1>6. v \in Nat /\ last \in Nat /\ v <= last
    BY Starts DEF Spots
  <1> DEFINE G == {i \in 0..n : /\ f[i] \in P /\ f[i].begin = s.begin
                                /\ LineOf(text, f[i].page) = (IF v + i <= last THEN v + i ELSE last)
                                /\ i # 0 => Stands(text, f[i], Low(text, v + i))}
  <1>7. 0 \in G
    BY <1>5, <1>6
  <1>8. ASSUME NEW i \in 0..n - 1, i \in G PROVE i + 1 \in G
    <2>1. /\ f[i] \in P /\ f[i].begin = s.begin
          /\ LineOf(text, f[i].page) = (IF v + i <= last THEN v + i ELSE last)
          /\ f[i + 1] = GetLine(text, f[i]) /\ i + 1 \in 0..n /\ i \in Nat
      BY <1>5, <1>8
    <2>2. /\ Stands(text, f[i + 1], LineOf(text, f[i].page) + 1)
          /\ f[i + 1].begin = s.begin
      BY <2>1, LineBelow
    <2>3. LineOf(text, f[i].page) + 1 = Low(text, v + (i + 1))
      BY <1>6, <2>1 DEF Low
    <2>4. Low(text, v + (i + 1)) = IF v + (i + 1) <= last + 1 THEN v + (i + 1) ELSE last + 1
      BY DEF Low
    <2>5. Stands(text, f[i + 1], Low(text, v + (i + 1)))
      BY <2>2, <2>3
    <2>6. LineOf(text, f[i + 1].page) =
            (IF v + (i + 1) <= last THEN v + (i + 1) ELSE last)
      <3>1. LineOf(text, f[i + 1].page) =
              IF Low(text, v + (i + 1)) <= last THEN Low(text, v + (i + 1)) ELSE last
        BY <2>5 DEF Stands
      <3> HIDE DEF v, last
      <3> QED
        BY <1>6, <2>1, <2>4, <3>1
    <2>7. f[i + 1] \in P
      BY <2>5 DEF Stands
    <2> HIDE DEF P, v, last
    <2> QED
      BY <2>1, <2>2, <2>5, <2>6, <2>7
  <1>9. \A i \in 0..n : i \in G
    <2> HIDE DEF G
    <2> QED
      BY <1>7, <1>8, PassedOn
  <1>10. ASSUME NEW i \in 1..n
         PROVE  Stands(text, f[i], Low(text, v + i)) /\ f[i].begin = s.begin
    <2>1. i \in 0..n /\ i # 0
      OBVIOUS
    <2> QED
      BY <1>9, <2>1
  <1> QED
    BY <1>5, <1>10 DEF f

Higher(v, i) == IF v <= i THEN 0 ELSE v - i

LEMMA WentBack ==
  ASSUME NEW text, Ended(text), NEW s, NEW v, Stands(text, s, v), NEW n \in Nat
  PROVE  /\ Stands(text, BackLines(text, s, n), Higher(v, n))
         /\ BackLines(text, s, n).begin <=> n # 0 /\ v <= n
  <1> DEFINE P == {x \in Spots(text) : \E u \in Nat : Stands(text, x, u)}
             step == [x \in P |-> BackTurn(text, x)]
             f == Back(text, s, n)
             t == [s EXCEPT !.begin = FALSE]
  <1>1. t \in P /\ Stands(text, t, v) /\ t.begin = FALSE /\ v \in Nat
    <2>1. s \in Spots(text) /\ v \in Nat
      BY DEF Stands
    <2>2. t \in Spots(text) /\ t.begin = FALSE /\ t.page = s.page /\ t.end = s.end
      BY <2>1 DEF Spots
    <2> HIDE DEF t
    <2>3. Stands(text, t, v)
      BY <2>2 DEF Stands
    <2> QED
      BY <2>1, <2>2, <2>3
  <1>2. step \in [P -> P]
    <2>1. ASSUME NEW x \in P PROVE BackTurn(text, x) \in P
      <3>1. CASE x.begin
        BY <3>1 DEF BackTurn
      <3>2. CASE ~x.begin
        <4>1. PICK u \in Nat : Stands(text, x, u)
          OBVIOUS
        <4>2. Stands(text, BackLine(text, x), Above(u))
          BY <4>1, LineAbove
        <4>3. BackLine(text, x) \in Spots(text) /\ Above(u) \in Nat
          BY <4>2 DEF Stands
        <4> QED
          BY <3>2, <4>2, <4>3 DEF BackTurn
      <3> QED
        BY <3>1, <3>2
    <2> HIDE DEF P
    <2> QED
      BY <2>1
  <1>3. PICK w \in [0..n -> P] : w[0] = t /\ \A i \in 1..n : w[i] = step[w[i - 1]]
    <2>1. CanWalk(P, step, t, n)
      BY <1>1, <1>2 DEF CanWalk
    <2> HIDE DEF P, step, t
    <2>2. PICK w : IsWalk(w, P, step, t, n)
      BY <2>1, WalkExists, Zenon
    <2> QED
      BY <2>2, Zenon DEF IsWalk
  <1> HIDE DEF P, t
  <1>4. w = [i \in 0..n |-> IF i = 0 THEN t ELSE BackTurn(text, w[i - 1])]
    <2>1. ASSUME NEW i \in 0..n PROVE w[i] = IF i = 0 THEN t ELSE BackTurn(text, w[i - 1])
      <3>1. CASE i = 0
        BY <1>3, <3>1
      <3>2. CASE i # 0
        <4>1. i \in 1..n /\ i - 1 \in 0..n
          BY <3>2
        <4> QED
          BY <1>3, <3>2, <4>1
      <3> QED
        BY <3>1, <3>2
    <2> QED
      BY <2>1
  <1>5. f = [i \in 0..n |-> IF i = 0 THEN t ELSE BackTurn(text, f[i - 1])]
    BY <1>4 DEF Back, t
  <1> HIDE DEF f
  <1>6. f[0] = t /\ \A i \in 0..n - 1 : f[i + 1] = BackTurn(text, f[i])
    <2>1. 0 \in 0..n /\ \A i \in 0..n - 1 : i + 1 \in 0..n /\ i + 1 # 0 /\ (i + 1) - 1 = i
      OBVIOUS
    <2>2. f[0] = t
      BY <1>5, <2>1
    <2>3. ASSUME NEW i \in 0..n - 1 PROVE f[i + 1] = BackTurn(text, f[i])
      <3>1. i + 1 \in 0..n /\ i + 1 # 0 /\ (i + 1) - 1 = i
        BY <2>1
      <3>2. f[i + 1] = IF i + 1 = 0 THEN t ELSE BackTurn(text, f[(i + 1) - 1])
        BY <1>5, <3>1
      <3> QED
        BY <3>1, <3>2
    <2> QED
      BY <2>2, <2>3
  <1> DEFINE G == {i \in 0..n : /\ Stands(text, f[i], Higher(v, i))
                                /\ f[i].begin <=> i # 0 /\ v <= i}
  <1>7. 0 \in G
    <2>1. Higher(v, 0) = v
      BY <1>1 DEF Higher
    <2> QED
      BY <1>1, <1>6, <2>1
  <1>8. ASSUME NEW i \in 0..n - 1, i \in G PROVE i + 1 \in G
    <2>1. /\ Stands(text, f[i], Higher(v, i)) /\ (f[i].begin <=> i # 0 /\ v <= i)
          /\ f[i + 1] = BackTurn(text, f[i]) /\ i \in Nat /\ i + 1 \in 0..n /\ i + 1 # 0
      BY <1>6, <1>8
    <2>2. CASE f[i].begin
      <3>1. f[i + 1] = f[i] /\ v <= i
        BY <2>1, <2>2 DEF BackTurn
      <3>2. Higher(v, i) = Higher(v, i + 1) /\ v <= i + 1
        BY <1>1, <2>1, <3>1 DEF Higher
      <3> QED
        BY <2>1, <2>2, <3>1, <3>2
    <2>3. CASE ~f[i].begin
      <3>1. f[i + 1] = BackLine(text, f[i])
        BY <2>1, <2>3 DEF BackTurn
      <3>2. /\ Stands(text, f[i + 1], Above(Higher(v, i)))
            /\ f[i + 1].begin <=> Higher(v, i) <= 1
        BY <2>1, <2>3, <3>1, LineAbove
      <3>3. Above(Higher(v, i)) = Higher(v, i + 1) /\ (Higher(v, i) <= 1 <=> v <= i + 1)
        BY <1>1, <2>1 DEF Above, Higher
      <3> QED
        BY <2>1, <3>2, <3>3
    <2> QED
      BY <2>2, <2>3
  <1>9. \A i \in 0..n : i \in G
    <2> HIDE DEF G
    <2> QED
      BY <1>7, <1>8, PassedOn
  <1>10. n \in G
    BY <1>9
  <1> QED
    BY <1>10, BackLinesWalk DEF f

LEMMA MinOfTwo ==
  ASSUME NEW m \in Int, NEW n \in Int
  PROVE  Min({m, n}) = IF m <= n THEN m ELSE n
  <1>1. CASE m <= n
    <2>1. m \in {m, n} /\ \A k \in {m, n} : m <= k
      BY <1>1
    <2> QED
      BY <1>1, <2>1 DEF Min
  <1>2. CASE ~(m <= n)
    <2>1. n \in {m, n} /\ \A k \in {m, n} : n <= k
      BY <1>2
    <2> QED
      BY <1>2, <2>1 DEF Min
  <1> QED
    BY <1>1, <1>2

LEMMA MaxOfTwo ==
  ASSUME NEW m \in Int, NEW n \in Int
  PROVE  Max({m, n}) = IF m >= n THEN m ELSE n
  <1>1. CASE m >= n
    <2>1. m \in {m, n} /\ \A k \in {m, n} : m >= k
      BY <1>1
    <2> QED
      BY <1>1, <2>1 DEF Max
  <1>2. CASE ~(m >= n)
    <2>1. n \in {m, n} /\ \A k \in {m, n} : n >= k
      BY <1>2
    <2> QED
      BY <1>2, <2>1 DEF Max
  <1> QED
    BY <1>1, <1>2

-----------------------------------------------------------------------------
(* dialog_textbox: the keys that jump                                      *)

Before(S, o) == {p \in S : p < o}
Rank(S, o) == Cardinality(Before(S, o))
Ones(S, k) == {o \in S : Rank(S, o) < k}

LEMMA Ranks ==
  ASSUME NEW S, S \subseteq Nat, IsFiniteSet(S), NEW o \in S, NEW p \in S
  PROVE  Rank(S, o) \in Nat /\ (o < p => Rank(S, o) < Rank(S, p))
  <1>1. \A q \in S : IsFiniteSet(Before(S, q)) /\ Rank(S, q) \in Nat
    <2>1. ASSUME NEW q \in S PROVE IsFiniteSet(Before(S, q)) /\ Rank(S, q) \in Nat
      <3>1. Before(S, q) \in SUBSET S
        BY DEF Before
      <3>2. IsFiniteSet(Before(S, q))
        BY <3>1, FS_Subset
      <3> QED
        BY <3>2, FS_CardinalityType DEF Rank
    <2> QED
      BY <2>1
  <1>2. ASSUME o < p PROVE Rank(S, o) < Rank(S, p)
    <2>1. o \notin Before(S, o) /\ IsFiniteSet(Before(S, o))
      BY <1>1 DEF Before
    <2>2. /\ IsFiniteSet(Before(S, o) \cup {o})
          /\ Cardinality(Before(S, o) \cup {o}) = Rank(S, o) + 1
      BY <2>1, FS_AddElement DEF Rank
    <2>3. Before(S, o) \cup {o} \in SUBSET Before(S, p)
      <3>1. \A q \in S : q < o => q < p
        BY <1>2
      <3>2. o \in S /\ o < p
        BY <1>2
      <3> QED
        BY <3>1, <3>2 DEF Before
    <2>4. Cardinality(Before(S, o) \cup {o}) <= Rank(S, p)
      BY <1>1, <2>3, FS_Subset DEF Rank
    <2> QED
      BY <1>1, <2>2, <2>4
  <1> QED
    BY <1>1, <1>2

\* The first k, if there are more.
LEMMA FirstOnes ==
  ASSUME NEW S, S \subseteq Nat, IsFiniteSet(S), NEW k \in Nat, NEW o \in S \ Ones(S, k)
  PROVE  Cardinality(Ones(S, k)) = k /\ \A p \in Ones(S, k) : p < o
  <1>1. ASSUME NEW j \in Nat, NEW p \in Ones(S, j), NEW q \in S \ Ones(S, j) PROVE p < q
    <2>1. p \in S /\ q \in S /\ p \in Nat /\ q \in Nat /\ Rank(S, p) < j /\ ~(Rank(S, q) < j)
      BY <1>1 DEF Ones
    <2>2. Rank(S, p) \in Nat /\ Rank(S, q) \in Nat /\ (q < p => Rank(S, q) < Rank(S, p))
      BY <2>1, Ranks
    <2> QED
      BY <2>1, <2>2
  <1> DEFINE G == {j \in 0..k : IsFiniteSet(Ones(S, j)) /\ Cardinality(Ones(S, j)) = j}
  <1>2. 0 \in G
    <2>1. Ones(S, 0) = {}
      <3>1. ASSUME NEW p \in S PROVE ~(Rank(S, p) < 0)
        <4>1. Rank(S, p) \in Nat
          BY Ranks
        <4> QED
          BY <4>1
      <3> QED
        BY <3>1 DEF Ones
    <2> QED
      BY <2>1, FS_EmptySet
  <1>3. ASSUME NEW j \in 0..k - 1, j \in G PROVE j + 1 \in G
    <2>1. j \in Nat /\ j + 1 \in 0..k /\ j < k /\ IsFiniteSet(Ones(S, j)) /\ Cardinality(Ones(S, j)) = j
      BY <1>3
    <2>2. o \in S /\ Rank(S, o) \in Nat /\ ~(Rank(S, o) < k)
      BY Ranks DEF Ones
    <2>3. o \in S \ Ones(S, j)
      <3>1. ~(Rank(S, o) < j)
        BY <2>1, <2>2
      <3> QED
        BY <2>2, <3>1 DEF Ones
    <2>4. PICK m \in S \ Ones(S, j) : \A n \in S \ Ones(S, j) : m <= n
      <3>1. S \ Ones(S, j) \subseteq Nat /\ S \ Ones(S, j) # {}
        BY <2>3
      <3> QED
        BY <3>1, LeastElement
    <2>5. Before(S, m) = Ones(S, j)
      <3>1. ASSUME NEW p \in S, p < m PROVE p \in Ones(S, j)
        <4>1. ~(m <= p)
          BY <3>1
        <4> QED
          BY <2>4, <4>1
      <3>2. \A p \in Ones(S, j) : p \in S /\ p < m
        BY <1>1, <2>1 DEF Ones
      <3> QED
        BY <3>1, <3>2 DEF Before
    <2>6. m \in S /\ Rank(S, m) = j /\ m \notin Ones(S, j)
      BY <2>1, <2>5 DEF Rank
    <2>7. Ones(S, j + 1) = Ones(S, j) \cup {m}
      <3>1. ASSUME NEW q \in S, Rank(S, q) < j + 1, q # m PROVE Rank(S, q) < j
        <4>1. /\ Rank(S, q) \in Nat /\ (q < m => Rank(S, q) < Rank(S, m))
              /\ (m < q => Rank(S, m) < Rank(S, q)) /\ q \in Nat /\ m \in Nat
          BY <2>6, Ranks
        <4> QED
          BY <2>1, <2>6, <3>1, <4>1
      <3>2. ASSUME NEW q \in S, Rank(S, q) < j PROVE Rank(S, q) < j + 1
        <4>1. Rank(S, q) \in Nat
          BY Ranks
        <4> QED
          BY <2>1, <3>2, <4>1
      <3>3. Rank(S, m) < j + 1
        BY <2>1, <2>6
      <3>4. Ones(S, j + 1) \subseteq Ones(S, j) \cup {m}
        BY <3>1 DEF Ones
      <3>5. Ones(S, j) \cup {m} \subseteq Ones(S, j + 1)
        BY <2>6, <3>2, <3>3 DEF Ones
      <3> QED
        BY <3>4, <3>5
    <2>8. IsFiniteSet(Ones(S, j + 1)) /\ Cardinality(Ones(S, j + 1)) = j + 1
      BY <2>1, <2>6, <2>7, FS_AddElement
    <2> QED
      BY <2>1, <2>8
  <1>4. \A j \in 0..k : j \in G
    <2> HIDE DEF G
    <2> QED
      BY <1>2, <1>3, PassedOn
  <1>5. k \in G
    BY <1>4
  <1> QED
    BY <1>1, <1>5

LEMMA KeysAreFirst ==
  ASSUME NEW places, places \subseteq Nat, NEW from \in Nat, NEW to \in Nat, JumpKeys \in Nat
  PROVE  LET seen == {o \in places : from <= o /\ o < to}
             jump == UpdateText(places, from, to)
         IN  /\ jump \subseteq seen
             /\ \A o \in seen \ jump : Cardinality(jump) = JumpKeys /\ \A p \in jump : p < o
  <1> DEFINE seen == {o \in places : from <= o /\ o < to}
             jump == UpdateText(places, from, to)
  <1>1. seen = {o \in places : o \in from..to - 1}
    <2>1. \A o \in places : from <= o /\ o < to <=> o \in from..to - 1
      <3>1. ASSUME NEW o \in Nat PROVE from <= o /\ o < to <=> o \in from..to - 1
        OBVIOUS
      <3> QED
        BY <3>1
    <2> QED
      BY <2>1
  <1>2. IsFiniteSet(seen) /\ seen \subseteq Nat
    <2>1. IsFiniteSet(from..to - 1)
      BY FS_Interval
    <2>2. seen \in SUBSET (from..to - 1)
      <3> HIDE DEF seen
      <3> QED
        BY <1>1
    <2>3. seen \subseteq Nat
      OBVIOUS
    <2> QED
      BY <2>1, <2>2, <2>3, FS_Subset
  <1>3. jump = Ones(seen, JumpKeys)
    BY <1>1 DEF UpdateText, Ones, Rank, Before
  <1> HIDE DEF seen
  <1>4. Ones(seen, JumpKeys) \subseteq seen
    BY DEF Ones
  <1>5. \A o \in seen \ Ones(seen, JumpKeys) :
          /\ Cardinality(Ones(seen, JumpKeys)) = JumpKeys
          /\ \A p \in Ones(seen, JumpKeys) : p < o
    BY <1>2, FirstOnes
  <1> QED
    BY <1>3, <1>4, <1>5 DEF seen

-----------------------------------------------------------------------------
(* dialog_textbox: the page that is printed                                *)

\* The page that starts with line t is what is shown.
PageIs(text, height, t, page, s, length) ==
  /\ t \in Nat /\ t <= NumLines(text)
  /\ page \in LineStarts(text) /\ LineOf(text, page) = t
  /\ Stands(text, s, Low(text, t + height)) /\ (s.begin <=> t = 0)
  /\ length = Low(text, t + height) - t

\* What a search scrolls to fills its page, as far as the text can.
FillsPage(text, height, t) == t = 0 \/ t + height <= NumLines(text) + 1

OpenOK ==
  LET t == LineOf(buf, shown)
  IN  /\ PageIs(buf, boxh, t, shown, spot, page_length)
      /\ tSearch => FillsPage(buf, boxh, t) /\ keys = UpdateText(jumps, shown, spot.page)

ClosedOK ==
  /\ shown \in LineStarts(buf) /\ vscroll = LineOf(buf, shown)
  /\ FillsPage(buf, boxh, vscroll)

\* While the box is open it shows a page, which for a search is full where the text
\* allows it; while a search is away its line is remembered.
TextInv ==
  /\ Len(buf) \in Nat /\ Len(buf) > 0 /\ boxh \in Nat /\ boxh > 0
  /\ tSearch \in BOOLEAN /\ jumps \subseteq Nat
  /\ (tpc = "open" /\ Lined(buf) => OpenOK)
  /\ (tpc = "closed" /\ Lined(buf) /\ tSearch => ClosedOK)

\* What print_page prints from, and what it then leaves.
TopOf(text, s, search, height) ==
  IF search THEN BackLines(text, GetLines(text, s, height), height) ELSE s

LEMMA PrintedWalk ==
  ASSUME NEW text, NEW s, NEW search, NEW places, NEW height,
         PrintPage(text, s, search, places, height)
  PROVE  LET top == TopOf(text, s, search, height)
             f == Forth(text, top, height)
             last == {i \in 1..height : f[i].end}
         IN  /\ shown' = top.page
             /\ keys' = (IF search THEN UpdateText(places, top.page, GetLines(text, s, height).page)
                                   ELSE {})
             /\ spot' = f[height]
             /\ page_length' = IF last = {} THEN height ELSE Min(last)
  BY DEF PrintPage, TopOf, Forth

LEMMA LowIs ==
  ASSUME NEW text, Ended(text), NEW v \in Nat
  PROVE  /\ Low(text, v) \in Nat /\ Low(text, v) <= NumLines(text) + 1 /\ NumLines(text) \in Nat
         /\ NumLines(text) > 0
         /\ Low(text, v) = IF v <= NumLines(text) + 1 THEN v ELSE NumLines(text) + 1
  <1>1. NumLines(text) \in Nat /\ NumLines(text) > 0
    BY Starts
  <1> QED
    BY <1>1 DEF Low

\* Reading on from the start of a line prints the page that it starts.
LEMMA PageFrom ==
  ASSUME NEW text, Ended(text), NEW top \in Spots(text), NEW height \in Nat, height > 0,
         NEW t, t = LineOf(text, top.page), top.begin <=> t = 0,
         NEW s, s = Forth(text, top, height)[height],
         NEW length, LET last == {i \in 1..height : Forth(text, top, height)[i].end}
                     IN  length = IF last = {} THEN height ELSE Min(last)
  PROVE  PageIs(text, height, t, top.page, s, length)
  <1> DEFINE f == Forth(text, top, height)
             max == NumLines(text)
             last == {i \in 1..height : f[i].end}
  <1>1. top.page \in LineStarts(text) /\ t \in Nat /\ t <= max /\ max \in Nat /\ max > 0
    BY Starts DEF Spots
  <1>2. \A i \in 1..height : Stands(text, f[i], Low(text, t + i)) /\ f[i].begin = top.begin
    BY WentForth
  <1> HIDE DEF f, max
  <1>3. height \in 1..height
    OBVIOUS
  <1>4. Stands(text, s, Low(text, t + height)) /\ (s.begin <=> t = 0)
    <2>1. s = f[height]
      BY DEF f
    <2> QED
      BY <1>2, <1>3, <2>1
  <1>5. ASSUME NEW i \in 1..height
        PROVE  f[i].end <=> t + i >= max + 1
    <2>1. f[i].end <=> Low(text, t + i) = max + 1
      BY <1>2 DEF Stands, max
    <2>2. i \in Nat /\ t + i \in Nat
      BY <1>1
    <2>3. Low(text, t + i) = IF t + i <= max + 1 THEN t + i ELSE max + 1
      BY DEF Low, max
    <2>4. Low(text, t + i) = max + 1 <=> t + i >= max + 1
      BY <1>1, <2>2, <2>3
    <2> QED
      BY <2>1, <2>4
  <1>6. Low(text, t + height) = IF t + height <= max + 1 THEN t + height ELSE max + 1
    BY DEF Low, max
  <1>7. length = IF last = {} THEN height ELSE Min(last)
    BY DEF f
  <1>8. length = Low(text, t + height) - t
    <2>1. CASE t + height <= max
      <3>1. \A i \in 1..height : ~(t + i >= max + 1)
        BY <1>1, <2>1
      <3>2. last = {}
        BY <1>5, <3>1
      <3>3. Low(text, t + height) = t + height
        BY <1>1, <1>6, <2>1
      <3>4. length = height
        BY <1>7, <3>2
      <3> HIDE DEF last
      <3> QED
        BY <1>1, <3>3, <3>4
    <2>2. CASE ~(t + height <= max)
      <3>1. max + 1 - t \in 1..height
        BY <1>1, <2>2
      <3>2. max + 1 - t \in last
        <4>1. t + (max + 1 - t) >= max + 1
          BY <1>1
        <4> QED
          BY <1>5, <3>1, <4>1
      <3>3. \A i \in last : max + 1 - t <= i
        <4>1. \A i \in 1..height : t + i >= max + 1 => max + 1 - t <= i
          BY <1>1
        <4> QED
          BY <1>5, <4>1
      <3>4. last \subseteq Nat /\ last # {}
        BY <3>2
      <3> HIDE DEF last
      <3>5. Min(last) \in last /\ Min(last) <= max + 1 - t
        BY <3>2, <3>4, LeastIsMin
      <3>6. Min(last) = max + 1 - t
        <4>1. max + 1 - t <= Min(last) /\ Min(last) \in Nat
          BY <3>3, <3>4, <3>5
        <4> QED
          BY <1>1, <3>5, <4>1
      <3>7. length = max + 1 - t
        BY <1>7, <3>4, <3>6
      <3>8. Low(text, t + height) = max + 1
        BY <1>1, <1>6, <2>2
      <3> QED
        BY <1>1, <3>7, <3>8
    <2> QED
      BY <2>1, <2>2
  <1> QED
    BY <1>1, <1>4, <1>8 DEF PageIs, max

\* The line that the page of print_page starts with.
TopLine(text, k, search, height) ==
  IF search THEN Higher(Low(text, k + height), height) ELSE k

LEMMA TopStands ==
  ASSUME NEW text, Ended(text), NEW s \in Spots(text), NEW height \in Nat, height > 0,
         NEW search \in BOOLEAN,
         search \/ (s.begin <=> LineOf(text, s.page) = 0),
         NEW top, top = TopOf(text, s, search, height)
  PROVE  LET t == TopLine(text, LineOf(text, s.page), search, height)
         IN  /\ top \in Spots(text) /\ LineOf(text, top.page) = t /\ (top.begin <=> t = 0)
             /\ search => /\ FillsPage(text, height, t)
                          /\ LineOf(text, GetLines(text, s, height).page) =
                               IF Low(text, t + height) <= NumLines(text)
                               THEN Low(text, t + height) ELSE NumLines(text)
                          /\ GetLines(text, s, height).page \in LineStarts(text)
  <1> DEFINE k == LineOf(text, s.page)
             max == NumLines(text)
             ahead == GetLines(text, s, height)
             v == Low(text, k + height)
             t == TopLine(text, k, search, height)
  <1>1. k \in Nat /\ k <= max /\ max \in Nat /\ max > 0
    BY Starts DEF Spots
  <1>2. CASE ~search
    <2>1. top = s /\ t = k
      BY <1>2 DEF TopOf, TopLine
    <2> QED
      BY <1>2, <2>1
  <1>3. CASE search
    <2>1. Stands(text, ahead, v)
      <3>1. height \in 1..height
        OBVIOUS
      <3> QED
        BY <3>1, WentForth, GetLinesWalk
    <2>2. top = BackLines(text, ahead, height) /\ t = Higher(v, height)
      BY <1>3 DEF TopOf, TopLine
    <2>3. Stands(text, top, Higher(v, height)) /\ (top.begin <=> height # 0 /\ v <= height)
      BY <2>1, <2>2, WentBack
    <2>4. v \in Nat /\ v = IF k + height <= max + 1 THEN k + height ELSE max + 1
      <3>1. k + height \in Nat
        BY <1>1
      <3> QED
        BY <3>1, LowIs
    <2> HIDE DEF k, max, v
    <2>5. Higher(v, height) = IF v <= height THEN 0 ELSE v - height
      BY DEF Higher
    <2>6. t \in Nat /\ t <= max /\ (t = 0 <=> v <= height) /\ (t = 0 \/ t + height <= max + 1)
      <3> HIDE DEF t
      <3>1. t = IF v <= height THEN 0 ELSE v - height
        BY <2>2, <2>5
      <3> QED
        BY <1>1, <2>4, <3>1
    <2>7. Low(text, t + height) = v
      <3>1. Low(text, t + height) = IF t + height <= max + 1 THEN t + height ELSE max + 1
        BY DEF Low, max
      <3> HIDE DEF t
      <3>2. t = IF v <= height THEN 0 ELSE v - height
        BY <2>2, <2>5
      <3>3. CASE v <= height
        <4>1. t = 0
          BY <3>2, <3>3
        <4>2. v = IF height <= max + 1 THEN height ELSE max + 1
          BY <1>1, <2>4, <3>3
        <4> QED
          BY <3>1, <4>1, <4>2
      <3>4. CASE ~(v <= height)
        <4>1. t = v - height
          BY <3>2, <3>4
        <4>2. t + height = v
          BY <2>4, <4>1
        <4>3. v <= max + 1
          BY <1>1, <2>4
        <4> QED
          BY <3>1, <4>2, <4>3
      <3> QED
        BY <3>3, <3>4
    <2>8. top \in Spots(text) /\ LineOf(text, top.page) = t /\ (top.begin <=> t = 0)
      <3>1. /\ top \in Spots(text) /\ LineOf(text, top.page) = IF t <= max THEN t ELSE max
        BY <2>2, <2>3 DEF Stands, max
      <3> HIDE DEF t
      <3> QED
        BY <2>3, <2>6, <3>1
    <2>9. /\ LineOf(text, ahead.page) = IF v <= max THEN v ELSE max
          /\ ahead.page \in LineStarts(text)
      BY <2>1 DEF Stands, Spots, max
    <2> HIDE DEF t, ahead
    <2>10. FillsPage(text, height, t)
      BY <2>6 DEF FillsPage, max
    <2> QED
      BY <1>3, <2>7, <2>8, <2>9, <2>10 DEF k, max, t, ahead
  <1> QED
    BY <1>2, <1>3

CanPrint(text, s, search, height) ==
  /\ Ended(text) /\ s \in Spots(text) /\ height \in Nat /\ height > 0 /\ search \in BOOLEAN
  /\ search \/ (s.begin <=> LineOf(text, s.page) = 0)

LEMMA Printed ==
  ASSUME NEW text, NEW s, NEW search, NEW places, NEW height,
         CanPrint(text, s, search, height), PrintPage(text, s, search, places, height)
  PROVE  LET t == TopLine(text, LineOf(text, s.page), search, height)
         IN  /\ PageIs(text, height, t, shown', spot', page_length')
             /\ LineOf(text, shown') = t /\ shown' \in LineStarts(text)
             /\ search => /\ FillsPage(text, height, t)
                          /\ keys' = UpdateText(places, shown', spot'.page)
  <1> DEFINE top == TopOf(text, s, search, height)
             t == TopLine(text, LineOf(text, s.page), search, height)
             f == Forth(text, top, height)
             last == {i \in 1..height : f[i].end}
             ahead == GetLines(text, s, height)
  <1>1. Ended(text) /\ s \in Spots(text) /\ height \in Nat /\ height > 0 /\ search \in BOOLEAN
        /\ (search \/ (s.begin <=> LineOf(text, s.page) = 0))
    BY DEF CanPrint
  <1>2. /\ shown' = top.page
        /\ keys' = (IF search THEN UpdateText(places, top.page, ahead.page) ELSE {})
        /\ spot' = f[height]
        /\ page_length' = IF last = {} THEN height ELSE Min(last)
    BY PrintedWalk
  <1>3. /\ top \in Spots(text) /\ LineOf(text, top.page) = t /\ (top.begin <=> t = 0)
        /\ search => /\ FillsPage(text, height, t)
                     /\ LineOf(text, ahead.page) =
                          IF Low(text, t + height) <= NumLines(text)
                          THEN Low(text, t + height) ELSE NumLines(text)
                     /\ ahead.page \in LineStarts(text)
    BY <1>1, TopStands
  <1>4. PageIs(text, height, t, shown', spot', page_length')
    <2> HIDE DEF top, t
    <2>1. PageIs(text, height, t, top.page, spot', page_length')
      BY <1>1, <1>2, <1>3, PageFrom
    <2> QED
      BY <1>2, <2>1
  <1>5. ASSUME search PROVE keys' = UpdateText(places, shown', spot'.page)
    <2> HIDE DEF top, t, ahead
    <2>1. LineOf(text, ahead.page) = LineOf(text, spot'.page) /\ spot'.page \in LineStarts(text)
      BY <1>3, <1>4, <1>5 DEF PageIs, Stands, Spots
    <2>2. ahead.page = spot'.page
      BY <1>1, <1>3, <1>5, <2>1, OneStart
    <2> QED
      BY <1>2, <1>5, <2>2
  <1>6. shown' \in LineStarts(text) /\ LineOf(text, shown') = t
    <2> HIDE DEF top, t
    <2> QED
      BY <1>2, <1>3 DEF Spots
  <1> QED
    BY <1>3, <1>4, <1>5, <1>6

\* Reading n lines back from the end of a page, no less than the page but for its first line.
LEMMA BackFromPage ==
  ASSUME NEW text, Ended(text), NEW height \in Nat, height > 0, NEW t, NEW page, NEW s, NEW length,
         PageIs(text, height, t, page, s, length),
         NEW n \in Nat, n + 1 >= length, s.end => n # 0
  PROVE  /\ BackLines(text, s, n) \in Spots(text)
         /\ LineOf(text, BackLines(text, s, n).page) = Higher(Low(text, t + height), n)
         /\ BackLines(text, s, n).begin <=> LineOf(text, BackLines(text, s, n).page) = 0
         /\ Low(text, t + height) = t + length /\ length \in Nat /\ length > 0 /\ length <= height
  <1> DEFINE v == Low(text, t + height)
             max == NumLines(text)
             b == BackLines(text, s, n)
  <1>1. /\ t \in Nat /\ t <= max /\ max \in Nat /\ max > 0
        /\ v \in Nat /\ v = IF t + height <= max + 1 THEN t + height ELSE max + 1
    <2>1. t \in Nat /\ t <= max
      BY DEF PageIs
    <2>2. t + height \in Nat
      BY <2>1
    <2> QED
      BY <2>1, <2>2, LowIs
  <1>2. Stands(text, s, v) /\ length = v - t /\ (s.end <=> v = max + 1)
    BY DEF PageIs, Stands
  <1>3. Stands(text, b, Higher(v, n)) /\ (b.begin <=> n # 0 /\ v <= n)
    BY <1>2, WentBack
  <1>4. /\ b \in Spots(text) /\ Higher(v, n) \in Nat
        /\ LineOf(text, b.page) = IF Higher(v, n) <= max THEN Higher(v, n) ELSE max
    BY <1>3 DEF Stands, max
  <1> HIDE DEF v, max, b
  <1>5. v = t + length /\ length \in Nat /\ length > 0 /\ length <= height
    BY <1>1, <1>2
  <1>6. Higher(v, n) = IF v <= n THEN 0 ELSE v - n
    BY DEF Higher
  <1>7. Higher(v, n) <= max
    BY <1>1, <1>2, <1>6
  <1>8. LineOf(text, b.page) = Higher(v, n)
    BY <1>4, <1>7
  <1>9. Higher(v, n) = 0 <=> n # 0 /\ v <= n
    BY <1>1, <1>5, <1>6
  <1> QED
    BY <1>3, <1>4, <1>5, <1>8, <1>9 DEF v, max, b

-----------------------------------------------------------------------------
(* dialog_textbox: what each key prints                                    *)

\* A page is printed from s, which stands at line k.
PrintsAt(s, k, height) ==
  /\ PrintPage(buf, s, tSearch, jumps, height)
  /\ CanPrint(buf, s, tSearch, height) /\ LineOf(buf, s.page) = k

LEMMA PageAfter ==
  ASSUME NEW s, NEW k, NEW height, PrintsAt(s, k, height), UNCHANGED <<buf, tSearch, jumps>>,
         boxh' = height
  PROVE  /\ OpenOK'
         /\ LineOf(buf, shown') = TopLine(buf, k, tSearch, height)
  <1> DEFINE t == TopLine(buf, k, tSearch, height)
  <1>1. /\ PageIs(buf, height, t, shown', spot', page_length')
        /\ LineOf(buf, shown') = t /\ shown' \in LineStarts(buf)
        /\ tSearch => /\ FillsPage(buf, height, t)
                      /\ keys' = UpdateText(jumps, shown', spot'.page)
    BY Printed DEF PrintsAt
  <1> HIDE DEF t
  <1>2. buf' = buf /\ tSearch' = tSearch /\ jumps' = jumps /\ boxh' = height
    OBVIOUS
  <1>3. OpenOK'
    BY <1>1, <1>2 DEF OpenOK
  <1> QED
    BY <1>1, <1>3 DEF t

\* What a key finds.
IsOpen == tpc = "open" /\ Lined(buf) /\ TextInv

LEMMA NowOpen ==
  ASSUME IsOpen
  PROVE  LET t == LineOf(buf, shown)
         IN  /\ Ended(buf) /\ PageIs(buf, boxh, t, shown, spot, page_length)
             /\ tSearch => FillsPage(buf, boxh, t) /\ keys = UpdateText(jumps, shown, spot.page)
             /\ t \in Nat /\ t <= NumLines(buf) /\ NumLines(buf) \in Nat /\ NumLines(buf) > 0
             /\ shown \in LineStarts(buf) /\ spot \in Spots(buf) /\ (spot.begin <=> t = 0)
             /\ Low(buf, t + boxh) = t + page_length
             /\ page_length \in Nat /\ page_length > 0 /\ page_length <= boxh
             /\ spot.end <=> t + page_length = NumLines(buf) + 1
             /\ t + page_length = IF t + boxh <= NumLines(buf) + 1 THEN t + boxh ELSE NumLines(buf) + 1
             /\ boxh \in Nat /\ boxh > 0 /\ tSearch \in BOOLEAN
  <1> DEFINE t == LineOf(buf, shown)
             max == NumLines(buf)
             v == Low(buf, t + boxh)
  <1>1. Ended(buf) /\ OpenOK /\ boxh \in Nat /\ boxh > 0 /\ tSearch \in BOOLEAN
    BY DEF IsOpen, TextInv, Ended
  <1>2. PageIs(buf, boxh, t, shown, spot, page_length)
        /\ (tSearch => FillsPage(buf, boxh, t) /\ keys = UpdateText(jumps, shown, spot.page))
    BY <1>1 DEF OpenOK
  <1>3. /\ t \in Nat /\ t <= max /\ shown \in LineStarts(buf) /\ (spot.begin <=> t = 0)
        /\ Stands(buf, spot, v) /\ page_length = v - t
    BY <1>2 DEF PageIs
  <1>4. t + boxh \in Nat
    BY <1>1, <1>3
  <1>5. /\ v \in Nat /\ max \in Nat /\ max > 0
        /\ v = IF t + boxh <= max + 1 THEN t + boxh ELSE max + 1
    BY <1>1, <1>4, LowIs
  <1>6. spot \in Spots(buf) /\ (spot.end <=> v = max + 1)
    BY <1>3 DEF Stands
  <1> HIDE DEF v, max, t
  <1>7. v = t + page_length /\ page_length \in Nat /\ page_length > 0 /\ page_length <= boxh
    BY <1>1, <1>3, <1>5
  <1> QED
    BY <1>1, <1>2, <1>3, <1>5, <1>6, <1>7 DEF v, max, t

\* A key leads to the page that starts with line k, or, if that is too far down
\* for a search, to the last one.
Leads(k) == \E s : PrintsAt(s, k, boxh')

LEMMA BackPrints ==
  ASSUME IsOpen, NEW n \in Nat, n + 1 >= page_length, spot.end => n # 0,
         Reprint(BackLines(buf, spot, n), boxh'), boxh' \in Nat, boxh' > 0
  PROVE  LET v == LineOf(buf, shown) + page_length
         IN  Leads(IF v <= n THEN 0 ELSE v - n)
  <1> DEFINE t == LineOf(buf, shown)
             v == t + page_length
             b == BackLines(buf, spot, n)
             k == IF v <= n THEN 0 ELSE v - n
  <1>1. /\ Ended(buf) /\ boxh \in Nat /\ boxh > 0 /\ tSearch \in BOOLEAN
        /\ PageIs(buf, boxh, t, shown, spot, page_length)
        /\ Low(buf, t + boxh) = v
    BY NowOpen
  <1>2. /\ b \in Spots(buf) /\ LineOf(buf, b.page) = Higher(Low(buf, t + boxh), n)
        /\ (b.begin <=> LineOf(buf, b.page) = 0)
    <2> HIDE DEF t
    <2> QED
      BY <1>1, BackFromPage
  <1>3. LineOf(buf, b.page) = k
    BY <1>1, <1>2 DEF Higher
  <1>4. CanPrint(buf, b, tSearch, boxh')
    BY <1>1, <1>2 DEF CanPrint
  <1>5. PrintPage(buf, b, tSearch, jumps, boxh')
    BY DEF Reprint
  <1> HIDE DEF b, k
  <1>6. PrintsAt(b, k, boxh')
    BY <1>3, <1>4, <1>5 DEF PrintsAt
  <1>7. Leads(k)
    BY <1>6 DEF Leads
  <1> QED
    BY <1>7 DEF k

LEMMA KeyLeads ==
  ASSUME IsOpen
  PROVE  LET t == LineOf(buf, shown)
             max == NumLines(buf)
         IN  /\ FirstPage => Leads(0)
             /\ LastPage => Leads(IF max + 1 <= boxh THEN 0 ELSE max + 1 - boxh)
             /\ LineUp => Leads(t - 1) /\ t > 0
             /\ PageUpText => Leads(IF t <= boxh THEN 0 ELSE t - boxh)
             /\ LineDown => Leads(t + 1)
             /\ PageDownText => Leads(t + boxh)
             /\ ScrollSideways => Leads(t)
  <1> DEFINE t == LineOf(buf, shown)
             max == NumLines(buf)
             v == t + page_length
  <1>1. /\ Ended(buf) /\ t \in Nat /\ t <= max /\ max \in Nat /\ max > 0
        /\ spot \in Spots(buf) /\ (spot.begin <=> t = 0)
        /\ page_length \in Nat /\ page_length > 0 /\ page_length <= boxh
        /\ (spot.end <=> v = max + 1)
        /\ v = IF t + boxh <= max + 1 THEN t + boxh ELSE max + 1
        /\ boxh \in Nat /\ boxh > 0 /\ tSearch \in BOOLEAN
        /\ Stands(buf, spot, Low(buf, t + boxh)) /\ Low(buf, t + boxh) = v
    BY NowOpen DEF PageIs
  <1>2. ASSUME NEW n \in Nat, n + 1 >= page_length, spot.end => n # 0,
               Reprint(BackLines(buf, spot, n), boxh), boxh' = boxh
        PROVE  Leads(IF v <= n THEN 0 ELSE v - n)
    BY <1>1, <1>2, BackPrints
  <1> HIDE DEF t, max
  <1>3. ASSUME FirstPage PROVE Leads(0)
    <2> DEFINE s == [spot EXCEPT !.begin = TRUE, !.page = 0]
    <2>1. PrintPage(buf, s, tSearch, jumps, boxh) /\ boxh' = boxh
      BY <1>3 DEF FirstPage, Reprint
    <2>2. s \in Spots(buf) /\ s.page = 0 /\ s.begin = TRUE
      BY <1>1, Starts DEF Spots
    <2> HIDE DEF s
    <2>3. LineOf(buf, s.page) = 0
      BY <2>2, LineOfNext
    <2>4. PrintsAt(s, 0, boxh')
      BY <1>1, <2>1, <2>2, <2>3 DEF PrintsAt, CanPrint
    <2> QED
      BY <2>4 DEF Leads
  <1>4. ASSUME LastPage PROVE Leads(IF max + 1 <= boxh THEN 0 ELSE max + 1 - boxh)
    <2> DEFINE e == [spot EXCEPT !.end = TRUE, !.page = Len(buf)]
               b == BackLines(buf, e, boxh)
               k == IF max + 1 <= boxh THEN 0 ELSE max + 1 - boxh
    <2>1. PrintPage(buf, b, tSearch, jumps, boxh) /\ boxh' = boxh
      BY <1>4 DEF LastPage, Reprint
    <2>2. e \in Spots(buf) /\ e.page = Len(buf) /\ e.end = TRUE
      BY <1>1, Starts DEF Spots
    <2> HIDE DEF e
    <2>3. Stands(buf, e, max + 1)
      <3>1. LineOf(buf, e.page) = max
        BY <2>2 DEF max, NumLines
      <3> QED
        BY <1>1, <2>2, <3>1 DEF Stands, max
    <2>4. Stands(buf, b, Higher(max + 1, boxh)) /\ (b.begin <=> boxh # 0 /\ max + 1 <= boxh)
      BY <1>1, <2>3, WentBack
    <2> HIDE DEF b
    <2>5. Higher(max + 1, boxh) = k /\ k \in Nat /\ k <= max /\ (k = 0 <=> max + 1 <= boxh)
      BY <1>1 DEF Higher
    <2>6. b \in Spots(buf) /\ LineOf(buf, b.page) = k
      BY <2>4, <2>5 DEF Stands, max
    <2>7. b.begin <=> k = 0
      BY <1>1, <2>4, <2>5
    <2> HIDE DEF k
    <2>8. PrintsAt(b, k, boxh')
      BY <1>1, <2>1, <2>6, <2>7 DEF PrintsAt, CanPrint
    <2>9. Leads(k)
      BY <2>8 DEF Leads
    <2> QED
      BY <2>9 DEF k
  <1>5. ASSUME LineUp PROVE Leads(t - 1) /\ t > 0
    <2>1. Reprint(BackLines(buf, spot, page_length + 1), boxh) /\ boxh' = boxh /\ ~spot.begin
      BY <1>5 DEF LineUp
    <2>2. page_length + 1 \in Nat /\ page_length + 1 + 1 >= page_length /\ page_length + 1 # 0
      BY <1>1
    <2>3. Leads(IF v <= page_length + 1 THEN 0 ELSE v - (page_length + 1))
      <3> HIDE DEF v
      <3> QED
        BY <1>2, <2>1, <2>2
    <2>4. t > 0
      BY <1>1, <2>1
    <2>5. (IF v <= page_length + 1 THEN 0 ELSE v - (page_length + 1)) = t - 1
      BY <1>1, <2>4
    <2> QED
      BY <2>3, <2>4, <2>5
  <1>6. ASSUME PageUpText PROVE Leads(IF t <= boxh THEN 0 ELSE t - boxh)
    <2>1. Reprint(BackLines(buf, spot, page_length + boxh), boxh) /\ boxh' = boxh
      BY <1>6 DEF PageUpText
    <2>2. /\ page_length + boxh \in Nat /\ page_length + boxh + 1 >= page_length
          /\ page_length + boxh # 0
      BY <1>1
    <2>3. Leads(IF v <= page_length + boxh THEN 0 ELSE v - (page_length + boxh))
      <3> HIDE DEF v
      <3> QED
        BY <1>2, <2>1, <2>2
    <2>4. (IF v <= page_length + boxh THEN 0 ELSE v - (page_length + boxh))
            = IF t <= boxh THEN 0 ELSE t - boxh
      BY <1>1
    <2> QED
      BY <2>3, <2>4
  <1>7. ASSUME LineDown PROVE Leads(t + 1)
    <2>1. Reprint(BackLines(buf, spot, page_length - 1), boxh) /\ boxh' = boxh /\ ~spot.end
      BY <1>7 DEF LineDown
    <2>2. page_length - 1 \in Nat /\ page_length - 1 + 1 >= page_length
      BY <1>1
    <2>3. Leads(IF v <= page_length - 1 THEN 0 ELSE v - (page_length - 1))
      <3> HIDE DEF v
      <3> QED
        BY <1>2, <2>1, <2>2
    <2>4. (IF v <= page_length - 1 THEN 0 ELSE v - (page_length - 1)) = t + 1
      BY <1>1
    <2> QED
      BY <2>3, <2>4
  <1>8. ASSUME PageDownText PROVE Leads(t + boxh)
    <2> DEFINE s == [spot EXCEPT !.begin = FALSE]
    <2>1. PrintPage(buf, s, tSearch, jumps, boxh) /\ boxh' = boxh /\ ~spot.end
      BY <1>8 DEF PageDownText, Reprint
    <2>2. s \in Spots(buf) /\ s.page = spot.page /\ s.begin = FALSE
      BY <1>1 DEF Spots
    <2> HIDE DEF s
    <2>3. v = t + boxh /\ v <= max /\ v # 0
      BY <1>1, <2>1
    <2>4. LineOf(buf, s.page) = v
      <3>1. LineOf(buf, spot.page) = IF v <= max THEN v ELSE max
        BY <1>1 DEF Stands, max
      <3> QED
        BY <2>2, <2>3, <3>1
    <2>5. PrintsAt(s, v, boxh')
      <3> HIDE DEF v
      <3> QED
        BY <1>1, <2>1, <2>2, <2>3, <2>4 DEF PrintsAt, CanPrint
    <2>6. Leads(v)
      BY <2>5 DEF Leads
    <2> QED
      BY <2>3, <2>6
  <1>9. ASSUME ScrollSideways PROVE Leads(t)
    <2>1. Reprint(BackLines(buf, spot, page_length), boxh) /\ boxh' = boxh
      BY <1>9 DEF ScrollSideways
    <2>2. page_length + 1 >= page_length /\ page_length # 0
      BY <1>1
    <2>3. Leads(IF v <= page_length THEN 0 ELSE v - page_length)
      <3> HIDE DEF v
      <3> QED
        BY <1>1, <1>2, <2>1, <2>2
    <2>4. (IF v <= page_length THEN 0 ELSE v - page_length) = t
      BY <1>1
    <2> QED
      BY <2>3, <2>4
  <1> QED
    BY <1>3, <1>4, <1>5, <1>6, <1>7, <1>8, <1>9 DEF t, max

LEMMA ResizeLeads ==
  ASSUME IsOpen, ResizeText
  PROVE  \E k : Leads(k)
  <1>1. /\ boxh \in Nat /\ page_length \in Nat /\ page_length <= boxh
    BY NowOpen
  <1>2. Reprint(BackLines(buf, spot, boxh + 4), boxh') /\ boxh' \in Nat /\ boxh' > 0
    BY TextConstants DEF ResizeText
  <1>3. boxh + 4 \in Nat /\ boxh + 4 + 1 >= page_length /\ boxh + 4 # 0
    BY <1>1
  <1> QED
    BY <1>2, <1>3, BackPrints

LEMMA PageLed ==
  ASSUME NEW k, Leads(k), IsOpen, UNCHANGED <<buf, tSearch, jumps>>
  PROVE  /\ OpenOK'
         /\ LineOf(buf, shown') = TopLine(buf, k, tSearch, boxh')
  <1>1. PICK s : PrintsAt(s, k, boxh')
    BY DEF Leads
  <1> QED
    BY <1>1, PageAfter

TextKey ==
  FirstPage \/ LastPage \/ LineUp \/ PageUpText \/ LineDown \/ PageDownText \/ ScrollSideways

LEMMA KeyKeeps ==
  ASSUME TextKey \/ ResizeText
  PROVE  Kept /\ UNCHANGED <<buf, tSearch, jumps>> /\ (TextKey => boxh' = boxh)
  <1>1. CASE ResizeText
    <2>1. Kept
      BY <1>1 DEF ResizeText
    <2>2. TextKey => boxh' = boxh
      BY DEF TextKey, FirstPage, LastPage, LineUp, PageUpText, LineDown, PageDownText, ScrollSideways
    <2> QED
      BY <2>1, <2>2 DEF Kept
  <1>2. CASE TextKey
    BY <1>2 DEF TextKey, FirstPage, LastPage, LineUp, PageUpText, LineDown, PageDownText,
                ScrollSideways, Kept
  <1> QED
    BY <1>1, <1>2

LEMMA KeyOpen ==
  ASSUME IsOpen, TextKey \/ ResizeText
  PROVE  OpenOK'
  <1>1. \E k : Leads(k)
    <2>1. CASE ResizeText
      BY <2>1, ResizeLeads
    <2>2. CASE TextKey
      BY <2>2, KeyLeads DEF TextKey
    <2> QED
      BY <2>1, <2>2
  <1>2. UNCHANGED <<buf, tSearch, jumps>>
    BY KeyKeeps
  <1> QED
    BY <1>1, <1>2, PageLed

\* A text that is opened n lines down.
OpenedAt(n) == [page |-> 0, begin |-> n = 0, end |-> FALSE]

LEMMA OpenStands ==
  ASSUME NEW text, Ended(text), NEW n \in Nat, n <= NumLines(text)
  PROVE  LET s == GetLines(text, OpenedAt(n), n)
         IN  s \in Spots(text) /\ LineOf(text, s.page) = n /\ (s.begin <=> n = 0)
  <1> DEFINE o == OpenedAt(n)
             s == GetLines(text, o, n)
             max == NumLines(text)
  <1>1. o \in Spots(text) /\ o.page = 0 /\ (o.begin <=> n = 0) /\ max \in Nat
    BY Starts DEF Spots, OpenedAt
  <1>2. LineOf(text, o.page) = 0
    BY <1>1, LineOfNext
  <1> HIDE DEF o
  <1>3. s = Forth(text, o, n)[n]
    BY GetLinesWalk
  <1>4. /\ Forth(text, o, n)[0] = o
        /\ \A i \in 1..n : /\ Stands(text, Forth(text, o, n)[i], Low(text, 0 + i))
                           /\ Forth(text, o, n)[i].begin = o.begin
    BY <1>1, <1>2, WentForth
  <1>5. CASE n = 0
    <2> HIDE DEF s
    <2>1. s = o
      BY <1>3, <1>4, <1>5
    <2> QED
      BY <1>1, <1>2, <1>5, <2>1 DEF s, o
  <1>6. CASE n # 0
    <2>1. n \in 1..n /\ 0 + n = n
      BY <1>6
    <2>2. Stands(text, s, Low(text, n)) /\ s.begin = o.begin
      <3> HIDE DEF s
      <3> QED
        BY <1>3, <1>4, <2>1
    <2>3. Low(text, n) = n
      BY <1>1 DEF Low
    <2> HIDE DEF s
    <2>4. s \in Spots(text) /\ LineOf(text, s.page) = n
      BY <2>2, <2>3 DEF Stands
    <2> QED
      BY <1>1, <2>2, <2>4 DEF s, o
  <1> QED
    BY <1>5, <1>6

LEMMA TextOpened ==
  ASSUME TextInv, OpenText, Lined(buf)'
  PROVE  /\ OpenOK'
         /\ LineOf(buf, shown)' = TopLine(buf', vscroll', tSearch', boxh')
  <1>1. \/ buf' \in Texts /\ tSearch' \in BOOLEAN /\ vscroll' = 0
        \/ tpc = "closed" /\ tSearch /\ UNCHANGED <<buf, tSearch, jumps, vscroll>>
    BY DEF OpenText
  <1>2. Len(buf') \in Nat /\ Len(buf') > 0
    <2>1. CASE buf' \in Texts
      BY <2>1, TextConstants
    <2>2. CASE buf' = buf
      BY <2>2 DEF TextInv
    <2> QED
      BY <1>1, <2>1, <2>2
  <1>3. Ended(buf')
    BY <1>2 DEF Ended, Lined
  <1>4. vscroll' \in Nat /\ vscroll' <= NumLines(buf')
    <2>1. CASE vscroll' = 0
      BY <1>3, <2>1, Starts
    <2>2. CASE tpc = "closed" /\ tSearch /\ UNCHANGED <<buf, vscroll>>
      <3>1. ClosedOK /\ buf' = buf /\ vscroll' = vscroll
        BY <2>2 DEF TextInv, Lined
      <3>2. Ended(buf)
        BY <1>3, <3>1
      <3>3. shown \in LineStarts(buf) /\ vscroll = LineOf(buf, shown)
        BY <3>1 DEF ClosedOK
      <3>4. vscroll \in Nat /\ vscroll <= NumLines(buf)
        BY <3>2, <3>3, Starts
      <3> QED
        BY <3>1, <3>4
    <2> QED
      BY <1>1, <2>1, <2>2
  <1> DEFINE s == GetLines(buf', OpenedAt(vscroll'), vscroll')
  <1>5. s \in Spots(buf') /\ LineOf(buf', s.page) = vscroll' /\ (s.begin <=> vscroll' = 0)
    BY <1>3, <1>4, OpenStands
  <1>6. PrintPage(buf', s, tSearch', jumps', boxh')
    BY DEF OpenText, OpenedAt
  <1>7. tSearch' \in BOOLEAN /\ boxh' \in Nat /\ boxh' > 0
    <2>1. tSearch' \in BOOLEAN
      BY <1>1 DEF TextInv
    <2>2. boxh' \in TextHeights
      BY DEF OpenText
    <2> QED
      BY <2>1, <2>2, TextConstants
  <1> HIDE DEF s
  <1>8. CanPrint(buf', s, tSearch', boxh')
    BY <1>3, <1>5, <1>7 DEF CanPrint
  <1> DEFINE t == TopLine(buf', vscroll', tSearch', boxh')
  <1>9. /\ PageIs(buf', boxh', t, shown', spot', page_length')
        /\ LineOf(buf', shown') = t
        /\ tSearch' => /\ FillsPage(buf', boxh', t)
                       /\ keys' = UpdateText(jumps', shown', spot'.page)
    BY <1>5, <1>6, <1>8, Printed
  <1> HIDE DEF t
  <1>10. OpenOK'
    BY <1>9 DEF OpenOK
  <1> QED
    BY <1>9, <1>10 DEF t

LEMMA TextClosed ==
  ASSUME IsOpen, CloseText, tSearch
  PROVE  ClosedOK'
  <1> DEFINE t == LineOf(buf, shown)
  <1>1. /\ Ended(buf) /\ PageIs(buf, boxh, t, shown, spot, page_length)
        /\ FillsPage(buf, boxh, t) /\ shown \in LineStarts(buf) /\ t \in Nat
        /\ Low(buf, t + boxh) = t + page_length /\ boxh \in Nat /\ boxh > 0
        /\ page_length \in Nat /\ page_length > 0
    BY NowOpen
  <1>2. /\ spot' = BackLines(buf, spot, page_length) /\ vscroll' = LineOf(buf, spot'.page)
        /\ shown' = shown /\ buf' = buf /\ boxh' = boxh
    BY DEF CloseText, LineOf
  <1> HIDE DEF t
  <1>3. LineOf(buf, spot'.page) = Higher(t + page_length, page_length)
    <2>1. page_length + 1 >= page_length /\ page_length # 0
      BY <1>1
    <2> QED
      BY <1>1, <1>2, <2>1, BackFromPage
  <1>4. Higher(t + page_length, page_length) = t
    BY <1>1 DEF Higher
  <1>5. vscroll' = t
    BY <1>2, <1>3, <1>4
  <1> QED
    BY <1>1, <1>2, <1>5 DEF ClosedOK, t

LEMMA TextStep ==
  TextInv /\ [TextNext]_textvars => TextInv'
  <1> SUFFICES ASSUME TextInv, [TextNext]_textvars PROVE TextInv'
    OBVIOUS
  <1> DEFINE Types == /\ Len(buf) \in Nat /\ Len(buf) > 0 /\ boxh \in Nat /\ boxh > 0
                      /\ tSearch \in BOOLEAN /\ jumps \subseteq Nat
  <1>1. Types
    BY DEF TextInv
  <1>2. CASE OpenText
    <2>1. boxh' \in Nat /\ boxh' > 0 /\ tpc' = "open"
      BY <1>2, TextConstants DEF OpenText
    <2>2. \/ buf' \in Texts /\ tSearch' \in BOOLEAN
             /\ jumps' \in (IF tSearch' THEN SUBSET (LineStarts(buf') \ {Len(buf')}) ELSE {{}})
          \/ UNCHANGED <<buf, tSearch, jumps>>
      BY <1>2 DEF OpenText
    <2>3. Len(buf') \in Nat /\ Len(buf') > 0
      <3>1. CASE buf' \in Texts
        BY <3>1, TextConstants
      <3>2. CASE buf' = buf
        BY <1>1, <3>2
      <3> QED
        BY <2>2, <3>1, <3>2
    <2>4. tSearch' \in BOOLEAN
      BY <1>1, <2>2
    <2>5. LineStarts(buf') \subseteq Nat
      BY <2>3 DEF LineStarts, NewLines
    <2>6. jumps' \subseteq Nat
      <3>1. CASE jumps' \in (IF tSearch' THEN SUBSET (LineStarts(buf') \ {Len(buf')}) ELSE {{}})
        BY <2>5, <3>1
      <3>2. CASE jumps' = jumps
        BY <1>1, <3>2
      <3> QED
        BY <2>2, <3>1, <3>2
    <2>7. Lined(buf') => OpenOK'
      BY <1>2, TextOpened DEF Lined
    <2> QED
      BY <2>1, <2>3, <2>4, <2>6, <2>7 DEF TextInv, Lined
  <1>3. CASE CloseText
    <2>1. tpc' = "closed" /\ tpc = "open" /\ UNCHANGED <<buf, tSearch, jumps, boxh>>
      BY <1>3 DEF CloseText
    <2>2. Types'
      BY <1>1, <2>1
    <2>3. ASSUME Lined(buf'), tSearch' PROVE ClosedOK'
      <3>1. IsOpen /\ tSearch
        BY <2>1, <2>3 DEF IsOpen, Lined
      <3> QED
        BY <1>3, <3>1, TextClosed
    <2> QED
      BY <2>1, <2>2, <2>3 DEF TextInv
  <1>4. CASE TextKey \/ ResizeText
    <2>1. Kept /\ UNCHANGED <<buf, tSearch, jumps>> /\ (TextKey => boxh' = boxh)
      BY <1>4, KeyKeeps
    <2>2. tpc = "open" /\ tpc' = "open"
      BY <2>1 DEF Kept
    <2>3. boxh' \in Nat /\ boxh' > 0
      <3>1. CASE ResizeText
        BY <3>1, TextConstants DEF ResizeText
      <3>2. CASE TextKey
        BY <1>1, <2>1, <3>2
      <3> QED
        BY <1>4, <3>1, <3>2
    <2>4. Types'
      BY <1>1, <2>1, <2>3
    <2>5. ASSUME Lined(buf') PROVE OpenOK'
      <3>1. IsOpen
        BY <2>1, <2>2, <2>5 DEF IsOpen, Lined
      <3> QED
        BY <1>4, <3>1, KeyOpen
    <2> QED
      BY <2>2, <2>4, <2>5 DEF TextInv
  <1>5. CASE UNCHANGED textvars
    BY <1>5 DEF textvars, TextInv, OpenOK, ClosedOK, Lined
  <1> QED
    BY <1>2, <1>3, <1>4, <1>5 DEF TextNext, TextKey

LEMMA TextStarts == TextInit => TextInv
  <1> SUFFICES ASSUME TextInit PROVE TextInv
    OBVIOUS
  <1>1. tpc = "idle" /\ buf = <<NewLine>> /\ tSearch = FALSE /\ jumps = {} /\ boxh = 1
    BY DEF TextInit
  <1>2. Len(buf) = 1
    BY <1>1
  <1>3. tpc # "open" /\ tpc # "closed"
    BY <1>1
  <1>4. /\ Len(buf) \in Nat /\ Len(buf) > 0 /\ boxh \in Nat /\ boxh > 0
        /\ tSearch \in BOOLEAN /\ jumps \subseteq Nat
    <2>1. Len(buf) \in Nat /\ Len(buf) > 0
      BY <1>2
    <2>2. boxh \in Nat /\ boxh > 0
      BY <1>1
    <2>3. tSearch \in BOOLEAN /\ jumps \subseteq Nat
      BY <1>1
    <2> QED
      BY <2>1, <2>2, <2>3
  <1> QED
    BY <1>3, <1>4 DEF TextInv

LEMMA PageIsShown == TextInv => TextShowsPage /\ KeysAreShown
  <1> SUFFICES ASSUME TextInv, tpc = "open", Lined(buf)
               PROVE  TextShowsPage /\ KeysAreShown
    BY DEF TextShowsPage, KeysAreShown
  <1> DEFINE t == LineOf(buf, shown)
             max == NumLines(buf)
  <1>1. IsOpen
    BY DEF IsOpen
  <1>2. /\ Ended(buf) /\ PageIs(buf, boxh, t, shown, spot, page_length)
        /\ tSearch => keys = UpdateText(jumps, shown, spot.page)
        /\ t \in Nat /\ t <= max /\ max \in Nat /\ max > 0
        /\ shown \in LineStarts(buf) /\ spot \in Spots(buf) /\ (spot.begin <=> t = 0)
        /\ boxh \in Nat /\ boxh > 0
    BY <1>1, NowOpen
  <1>3. Stands(buf, spot, Low(buf, t + boxh))
    BY <1>2 DEF PageIs
  <1>4. spot.begin <=> shown = 0
    <2>1. t = 0 <=> shown = 0
      <3>1. 0 \in Nat /\ LineOf(buf, 0) = 0
        BY LineOfNext
      <3> QED
        BY <1>2, <3>1, Starts
    <2> QED
      BY <1>2, <2>1
  <1>5. spot.end => spot.page = Len(buf)
    <2>1. ASSUME spot.end PROVE spot.page = Len(buf)
      <3>1. LineOf(buf, spot.page) = max /\ spot.page \in LineStarts(buf)
        <4>1. LineOf(buf, spot.page) = IF Low(buf, t + boxh) <= max THEN Low(buf, t + boxh) ELSE max
          BY <1>3 DEF Stands
        <4>2. Low(buf, t + boxh) = max + 1
          BY <1>3, <2>1 DEF Stands
        <4> HIDE DEF max
        <4> QED
          BY <1>2, <4>1, <4>2 DEF Spots
      <3>2. Len(buf) \in LineStarts(buf) /\ LineOf(buf, Len(buf)) = max
        BY <1>2, Starts DEF NumLines
      <3> QED
        BY <1>2, <3>1, <3>2, OneStart
    <2> QED
      BY <2>1
  <1>6. spot.page = GetLines(buf, [spot EXCEPT !.page = shown], boxh).page
    <2> DEFINE s == [spot EXCEPT !.page = shown]
               f == Forth(buf, s, boxh)
    <2>1. s \in Spots(buf) /\ s.page = shown
      BY <1>2 DEF Spots
    <2>2. boxh \in 1..boxh
      BY <1>2
    <2> HIDE DEF s
    <2>3. Stands(buf, f[boxh], Low(buf, t + boxh))
      BY <1>2, <2>1, <2>2, WentForth
    <2>4. f[boxh].page = spot.page
      <3> HIDE DEF f
      <3>1. /\ f[boxh].page \in LineStarts(buf) /\ spot.page \in LineStarts(buf)
            /\ LineOf(buf, f[boxh].page) = LineOf(buf, spot.page)
        BY <1>3, <2>3 DEF Stands, Spots
      <3> QED
        BY <1>2, <3>1, OneStart
    <2>5. GetLines(buf, s, boxh) = f[boxh]
      BY GetLinesWalk
    <2> QED
      BY <2>4, <2>5 DEF s
  <1>7. TextShowsPage
    BY <1>2, <1>4, <1>5, <1>6 DEF TextShowsPage
  <1>8. KeysAreShown
    <2> SUFFICES ASSUME tSearch PROVE KeysAreShown
      BY DEF KeysAreShown
    <2>1. jumps \subseteq Nat /\ JumpKeys \in Nat /\ keys = UpdateText(jumps, shown, spot.page)
      BY <1>2, TextConstants DEF TextInv
    <2>2. shown \in Nat /\ spot.page \in Nat
      <3>1. spot.page \in LineStarts(buf)
        BY <1>2 DEF Spots
      <3> QED
        BY <1>2, <3>1, Starts
    <2> QED
      BY <2>1, <2>2, KeysAreFirst DEF KeysAreShown
  <1> QED
    BY <1>7, <1>8

LEMMA KeyScrolls ==
  ASSUME TextInv, TextNext PROVE TextScrolls
  <1> SUFFICES ASSUME tpc = "open", Lined(buf), ~tSearch, TextKey PROVE TextScrolls
    BY DEF TextScrolls, TextKey
  <1> DEFINE t == LineOf(buf, shown)
             is == LineOf(buf, shown')
             max == NumLines(buf)
             last == IF max + 1 <= boxh THEN 0 ELSE max + 1 - boxh
  <1>1. IsOpen
    BY DEF IsOpen
  <1>2. UNCHANGED <<buf, tSearch, jumps>> /\ boxh' = boxh
    BY KeyKeeps
  <1>3. /\ t \in Nat /\ max \in Nat /\ max > 0 /\ boxh \in Nat /\ boxh > 0
    BY <1>1, NowOpen
  <1>4. \A k : Leads(k) => OpenOK' /\ is = k
    BY <1>1, <1>2, PageLed DEF TopLine
  <1>5. /\ FirstPage => Leads(0)
        /\ LastPage => Leads(last)
        /\ LineUp => Leads(t - 1)
        /\ PageUpText => Leads(IF t <= boxh THEN 0 ELSE t - boxh)
        /\ LineDown => Leads(t + 1)
        /\ PageDownText => Leads(t + boxh)
        /\ ScrollSideways => Leads(t)
    BY <1>1, KeyLeads
  <1>6. ASSUME PageUpText PROVE is = Max({0, t - boxh})
    <2> HIDE DEF is, t
    <2>1. is = IF t <= boxh THEN 0 ELSE t - boxh
      BY <1>4, <1>5, <1>6
    <2>2. t - boxh \in Int
      BY <1>3
    <2>3. Max({0, t - boxh}) = IF 0 >= t - boxh THEN 0 ELSE t - boxh
      BY <2>2, MaxOfTwo
    <2> QED
      BY <1>3, <2>1, <2>3
  <1>7. ASSUME LastPage PROVE spot'.end /\ page_length' = Min({boxh, LineOf(buf, Len(buf)) + 1})
    <2>1. is = last /\ OpenOK'
      BY <1>4, <1>5, <1>7
    <2>2. /\ Stands(buf, spot', Low(buf, last + boxh)) /\ page_length' = Low(buf, last + boxh) - last
      <3> HIDE DEF last
      <3> QED
        BY <1>2, <2>1 DEF OpenOK, PageIs
    <2>3. Low(buf, last + boxh) = max + 1
      <3>1. Low(buf, last + boxh) = IF last + boxh <= max + 1 THEN last + boxh ELSE max + 1
        BY DEF Low
      <3> HIDE DEF max
      <3> QED
        BY <1>3, <3>1
    <2>4. spot'.end
      BY <2>2, <2>3 DEF Stands
    <2>5. Min({boxh, max + 1}) = IF boxh <= max + 1 THEN boxh ELSE max + 1
      <3> HIDE DEF max
      <3> QED
        BY <1>3, MinOfTwo
    <2>6. page_length' = Min({boxh, max + 1})
      <3>1. page_length' = (max + 1) - last
        <4> HIDE DEF max, last
        <4> QED
          BY <2>2, <2>3
      <3> HIDE DEF max
      <3>2. (max + 1) - last = IF boxh <= max + 1 THEN boxh ELSE max + 1
        BY <1>3
      <3> QED
        BY <2>5, <3>1, <3>2
    <2> QED
      BY <2>4, <2>6 DEF NumLines
  <1> HIDE DEF t, is, last
  <1>8. /\ FirstPage => is = 0
        /\ LineUp => is = t - 1
        /\ LineDown => is = t + 1
        /\ PageDownText => is = t + boxh
        /\ ScrollSideways => is = t
    BY <1>4, <1>5
  <1> QED
    BY <1>6, <1>7, <1>8 DEF TextScrolls, t, is

LEMMA ComesBack ==
  ASSUME TextInv, TextNext PROVE SearchComesBack
  <1> SUFFICES ASSUME tpc = "closed", Lined(buf), tSearch, OpenText,
                      UNCHANGED <<buf, boxh, jumps, tSearch, vscroll>>
               PROVE  shown' = shown
    BY DEF SearchComesBack
  <1>1. ClosedOK
    BY DEF TextInv
  <1>2. Ended(buf) /\ boxh \in Nat /\ boxh > 0
    BY DEF TextInv, Ended
  <1>3. /\ shown \in LineStarts(buf) /\ vscroll = LineOf(buf, shown)
        /\ (vscroll = 0 \/ vscroll + boxh <= NumLines(buf) + 1)
    BY <1>1 DEF ClosedOK, FillsPage
  <1>4. OpenOK' /\ LineOf(buf, shown)' = TopLine(buf', vscroll', tSearch', boxh')
    BY TextOpened DEF Lined
  <1>5. LineOf(buf, shown') = TopLine(buf, vscroll, tSearch, boxh) /\ shown' \in LineStarts(buf)
    BY <1>4 DEF OpenOK, PageIs
  <1>6. vscroll \in Nat /\ vscroll <= NumLines(buf) /\ NumLines(buf) \in Nat
    BY <1>2, <1>3, Starts
  <1>7. TopLine(buf, vscroll, tSearch, boxh) = vscroll
    <2> DEFINE v == Low(buf, vscroll + boxh)
               max == NumLines(buf)
    <2>1. v = IF vscroll + boxh <= max + 1 THEN vscroll + boxh ELSE max + 1
      BY DEF Low
    <2>2. TopLine(buf, vscroll, tSearch, boxh) = IF v <= boxh THEN 0 ELSE v - boxh
      BY DEF TopLine, Higher
    <2> HIDE DEF v, max
    <2>3. vscroll = 0 \/ vscroll + boxh <= max + 1
      BY <1>3 DEF max
    <2>4. max \in Nat
      BY <1>6 DEF max
    <2>5. (IF v <= boxh THEN 0 ELSE v - boxh) = vscroll
      BY <1>2, <1>6, <2>1, <2>3, <2>4
    <2> QED
      BY <2>2, <2>5
  <1> QED
    BY <1>2, <1>3, <1>5, <1>7, OneStart

\* What a text box shows is a page of its text, the one that the keys lead to;
\* the number keys jump to what is on it, and who comes back from there sees the
\* same page, for texts and boxes of any size (textbox.c:43-387, mconf.c:search_conf).
THEOREM TextCorrect == TextSpec => TextIsShown
  <1>1. TextInv /\ [TextNext]_textvars => [TextScrolls /\ SearchComesBack]_textvars
    BY KeyScrolls, ComesBack
  <1> QED
    BY <1>1, TextStarts, TextStep, PageIsShown, PTL DEF TextSpec, TextIsShown

=============================================================================
