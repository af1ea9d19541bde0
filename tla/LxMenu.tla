------------------------------- MODULE LxMenu -------------------------------
(***************************************************************************)
(* support/kconfig/lxdialog/menubox.c: dialog_menu, a list of items that   *)
(* may be longer than its window, with five buttons.  mconf calls it over  *)
(* and over: what the user picked may change the items, and the position   *)
(* of the list is handed from one call to the next (s_scroll).             *)
(***************************************************************************)
EXTENDS LxList

CONSTANTS
  MenuItems,    \* the longest menu
  MenuHeights   \* the heights that the terminal leaves for a menu

ASSUME MenuBoxConstants == MenuItems \in Nat /\ MenuHeights \subseteq Nat \ {0}

VARIABLES
  mpc,          \* closed, open (waits for a key), paging up, paging down, crashed
  mItems,       \* item_count()
  mSelected,    \* the item that the caller wants selected, or None
  mSaved,       \* *s_scroll
  mScroll, mChoice, mFirst, mRows,   \* scroll, choice, first_item, max_choice
  mSteps,       \* i of the loops of the page keys
  mScreen,      \* the lines of the window
  mButton,
  mStale        \* the window was drawn again, from an item that is not scroll's

mcall == <<mItems, mSelected, mSaved>>
mview == <<mScroll, mChoice, mScreen>>
menuvars == <<mpc, mcall, mview, mFirst, mRows, mSteps, mButton, mStale>>

None == -1

MinOf(a, b) == IF a < b THEN a ELSE b

MenuInit ==
  /\ mpc = "closed"
  /\ mItems = 0 /\ mSelected = None /\ mSaved = 0
  /\ mScroll = 0 /\ mChoice = 0 /\ mFirst = 0 /\ mRows = 0 /\ mSteps = 0
  /\ mScreen = <<>> /\ mButton = 0 /\ mStale = FALSE

-----------------------------------------------------------------------------
(* From do_resize: to the first key.                                       *)

\* mutant: the saved position is taken without asking whether the list still reaches that far
LayoutMutant(count, rows, selected, saved, oldChoice, oldFirst) ==
  LET choice == IF selected # None THEN selected ELSE oldChoice
  IN  IF saved <= choice /\ saved + rows > choice
      THEN [scroll |-> saved, first |-> saved, choice |-> choice - saved]
      ELSE IF choice < rows THEN [scroll |-> 0, first |-> oldFirst, choice |-> choice]
      ELSE [scroll |-> choice - rows \div 2, first |-> choice - rows \div 2,
            choice |-> rows \div 2]

\* Where the list starts: at the saved position if the selected item is
\* seen from there, else at the top, or around that item.
Layout(count, rows, selected, saved, oldChoice, oldFirst) ==
  LET choice == IF selected # None THEN selected ELSE oldChoice
      fits == saved <= choice /\ saved + rows > choice /\ saved + rows <= count
      kept == IF fits THEN [scroll |-> saved, first |-> saved, choice |-> choice - saved]
                      ELSE [scroll |-> 0, first |-> oldFirst, choice |-> choice]
      top == IF kept.choice >= count - rows \div 2 THEN count - rows
                                                   ELSE kept.choice - rows \div 2
  IN  IF kept.choice < rows THEN kept
      ELSE [scroll |-> top, first |-> top, choice |-> kept.choice - top]

\* Draw the window.  item_str() of an item past the last one follows a null pointer.
Draw(count, selected, saved, oldChoice, oldFirst, height) ==
  LET rows == MinOf(height, count)
      l == Layout(count, rows, selected, saved, oldChoice, oldFirst)
  IN  /\ mItems' = count /\ mSelected' = selected /\ mSaved' = saved
      /\ mRows' = rows
      /\ mScroll' = l.scroll /\ mChoice' = l.choice /\ mFirst' = l.first
      /\ mScreen' = [y \in Lines(rows) |-> [item |-> l.first + y, lit |-> y = l.choice]]
      /\ mpc' = IF l.first + rows <= count THEN "open" ELSE "crashed"

\* mconf shows a menu that is not empty; its items and the one to select may
\* be others than when the position was saved.
OpenMenu ==
  /\ mpc = "closed"
  /\ \E count \in 1..MenuItems, height \in MenuHeights :
       \E selected \in {None} \cup 0..count - 1 : Draw(count, selected, mSaved, 0, 0, height)
  /\ mSteps' = 0 /\ mButton' = 0 /\ mStale' = FALSE

\* KEY_RESIZE.  The button that is highlighted is the first one, whatever button is.
ResizeMenu ==
  /\ mpc = "open"
  /\ \E height \in MenuHeights : Draw(mItems, mSelected, mSaved, mChoice, mFirst, height)
  /\ mStale' = (mFirst' # mScroll')
  /\ UNCHANGED <<mSteps, mButton>>

-----------------------------------------------------------------------------
(* The keys that move in the list.  Each takes the highlight off first,    *)
(* and puts it on the item that is chosen then.                            *)

Unlit == PrintItem(mScreen, mScroll + mChoice, mChoice, FALSE)

\* mutant: the item is printed before scroll moves on to it
ScrolledUpMutant(screen) == PrintItem(Scrolled(screen, -1), mScroll, 0, FALSE)

\* do_scroll, and print the item that comes in
ScrolledUp(screen) == PrintItem(Scrolled(screen, -1), mScroll - 1, 0, FALSE)
ScrolledDown(screen) == PrintItem(Scrolled(screen, 1), mScroll + mRows, mRows - 1, FALSE)

Show(screen, scroll, choice) ==
  /\ mScroll' = scroll /\ mChoice' = choice
  /\ mScreen' = PrintItem(screen, scroll + choice, choice, TRUE)

Stays == UNCHANGED <<mcall, mFirst, mRows, mButton, mStale>>

KeyUp ==
  /\ mpc = "open"
  /\ IF mChoice < 2 /\ mScroll # 0 THEN Show(ScrolledUp(Unlit), mScroll - 1, mChoice)
     ELSE Show(Unlit, mScroll, IF mChoice > 0 THEN mChoice - 1 ELSE 0)
  /\ Stays /\ UNCHANGED <<mpc, mSteps>>

KeyDown ==
  /\ mpc = "open"
  /\ IF mChoice > mRows - 3 /\ mScroll + mRows < mItems
     THEN Show(ScrolledDown(Unlit), mScroll + 1, mChoice)
     ELSE Show(Unlit, mScroll, MinOf(mChoice + 1, mRows - 1))
  /\ Stays /\ UNCHANGED <<mpc, mSteps>>

\* a letter, the first one of an item that is seen
KeyLetter ==
  /\ mpc = "open"
  /\ \E i \in Lines(mRows) : Show(Unlit, mScroll, i)
  /\ Stays /\ UNCHANGED <<mpc, mSteps>>

KeyPage ==
  /\ mpc = "open"
  /\ mpc' \in {"paging up", "paging down"} /\ mSteps' = 0 /\ mScreen' = Unlit
  /\ UNCHANGED <<mScroll, mChoice>> /\ Stays

PageStep(scrolls, screen, scroll, moves, choice) ==
  /\ mSteps < mRows /\ mSteps' = mSteps + 1
  /\ IF scrolls THEN mScroll' = scroll /\ mScreen' = screen /\ mChoice' = mChoice
     ELSE mChoice' = (IF moves THEN choice ELSE mChoice) /\ UNCHANGED <<mScroll, mScreen>>
  /\ Stays /\ UNCHANGED mpc

PageUp ==
  /\ mpc = "paging up"
  /\ PageStep(mScroll > 0, ScrolledUp(mScreen), mScroll - 1, mChoice > 0, mChoice - 1)

PageDown ==
  /\ mpc = "paging down"
  /\ PageStep(mScroll + mRows < mItems, ScrolledDown(mScreen), mScroll + 1,
              mChoice + 1 < mRows, mChoice + 1)

PageEnds ==
  /\ mpc \in {"paging up", "paging down"} /\ mSteps >= mRows
  /\ mpc' = "open" /\ Show(mScreen, mScroll, mChoice)
  /\ Stays /\ UNCHANGED mSteps

-----------------------------------------------------------------------------
(* The buttons, and the ends of the call.                                  *)

MoveButton ==
  /\ mpc = "open"
  /\ \E n \in {mButton - 1, mButton + 1} : mButton' = IF n < 0 THEN 4 ELSE IF n > 4 THEN 0 ELSE n
  /\ UNCHANGED <<mpc, mcall, mview, mFirst, mRows, mSteps, mStale>>

\* The item scroll + choice is the one that the caller acts on.
PickItem ==
  /\ mpc = "open"
  /\ mpc' = "closed" /\ mSaved' = mScroll
  /\ UNCHANGED <<mItems, mSelected, mview, mFirst, mRows, mSteps, mButton, mStale>>

\* Esc, e and x leave the menu; conf() then starts the next one from its top.
LeaveMenu ==
  /\ mpc = "open"
  /\ mpc' = "closed" /\ mSaved' = 0
  /\ UNCHANGED <<mItems, mSelected, mview, mFirst, mRows, mSteps, mButton, mStale>>

MenuNext ==
  \/ OpenMenu \/ ResizeMenu
  \/ KeyUp \/ KeyDown \/ KeyLetter \/ KeyPage \/ PageUp \/ PageDown \/ PageEnds
  \/ MoveButton \/ PickItem \/ LeaveMenu

MenuSpec == MenuInit /\ [][MenuNext]_menuvars

-----------------------------------------------------------------------------
(* Properties                                                              *)

\* The window shows the items from scroll on, all of them items of the list,
\* and exactly the one that a key would act on is lit, however the list was
\* scrolled and resized before.  The exception is what the code gets wrong: a
\* window that was drawn again with a first_item that is not scroll.
MenuShowsList ==
  mpc = "open" /\ ~mStale =>
    /\ ShowsList(mScreen, mRows, mScroll, mChoice)
    /\ mChoice \in Lines(mRows) /\ mScroll >= 0 /\ mScroll + mRows <= mItems

\* A menu that is opened shows the item that the caller selected, lit, and
\* does not move the list if the item can be seen from where the list was.
MenuOpensOnSelected ==
  [][OpenMenu =>
       /\ mpc' = "open"
       /\ mSelected' # None =>
            /\ mScreen'[mSelected' - mScroll'] = [item |-> mSelected', lit |-> TRUE]
            /\ mSelected' \in mSaved..mSaved + mRows' - 1 /\ mSaved + mRows' <= mItems' =>
                 mScroll' = mSaved]_menuvars

\* The menu shows where the user is, from its opening on.
MenuIsTrue == []MenuShowsList /\ MenuOpensOnSelected

=============================================================================
