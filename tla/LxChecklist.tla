----------------------------- MODULE LxChecklist -----------------------------
(***************************************************************************)
(* support/kconfig/lxdialog/checklist.c: dialog_checklist, the list from   *)
(* which mconf lets the user choose one value of a choice.                 *)
(***************************************************************************)
EXTENDS LxList

CONSTANTS
  ListItems,    \* the longest choice
  ListHeights   \* list_height, which mconf makes 6

ASSUME ListConstants == ListItems \in Nat /\ ListHeights \subseteq Nat \ {0}

VARIABLES
  lpc,          \* closed, open
  lItems,       \* item_count()
  lHeight, lRows,     \* list_height, max_choice
  lScroll, lChoice,
  lScreen,
  lButton,
  lPicked       \* the item that is selected when the dialog returns, or Nobody

listvars == <<lpc, lItems, lHeight, lRows, lScroll, lChoice, lScreen, lButton, lPicked>>

Nobody == -1

ListInit ==
  /\ lpc = "closed" /\ lItems = 0 /\ lHeight = 1 /\ lRows = 0
  /\ lScroll = 0 /\ lChoice = 0 /\ lScreen = <<>> /\ lButton = 0 /\ lPicked = Nobody

-----------------------------------------------------------------------------
(* From do_resize: to the first key.                                       *)

DrawList(count, height, scroll, choice) ==
  LET rows == IF height < count THEN height ELSE count
      s == IF choice >= height THEN choice - height + 1 ELSE scroll
      c == IF choice >= height THEN height - 1 ELSE choice
  IN  /\ lItems' = count /\ lHeight' = height /\ lRows' = rows
      /\ lScroll' = s /\ lChoice' = c
      /\ lScreen' = [y \in Lines(rows) |-> [item |-> s + y, lit |-> y = c]]

\* marked: the item to highlight, the one that the caller selected or else the
\* one with the tag X; without either the first one is.
OpenList ==
  /\ lpc = "closed"
  /\ \E count \in 1..ListItems, height \in ListHeights :
       \E marked \in 0..count - 1 : DrawList(count, height, 0, marked)
  /\ lpc' = "open" /\ lButton' = 0 /\ lPicked' = Nobody

ResizeList ==
  /\ lpc = "open"
  /\ DrawList(lItems, lHeight, lScroll, lChoice)
  /\ UNCHANGED <<lpc, lButton, lPicked>>

-----------------------------------------------------------------------------
(* The keys                                                                *)

\* mutant: a window of one line is scrolled too, and the item that was lit stays lit
ListScrolledMutant(line, item, n) == Scrolled(lScreen, n)

\* The item comes off the line where it is lit, and the window moves by n; a
\* window of one line is printed over.
ListScrolled(line, item, n) ==
  IF lHeight > 1 THEN Scrolled(PrintItem(lScreen, item, line, FALSE), n) ELSE lScreen

\* the highlight moves to another line
Highlight(i) ==
  /\ lChoice' = i
  /\ lScreen' = IF i = lChoice THEN lScreen
                ELSE PrintItem(PrintItem(lScreen, lScroll + lChoice, lChoice, FALSE),
                               lScroll + i, i, TRUE)
  /\ UNCHANGED lScroll

ListUp ==
  \/ lChoice # 0 /\ Highlight(lChoice - 1)
  \/ /\ lChoice = 0 /\ lScroll # 0
     /\ lScroll' = lScroll - 1
     /\ lScreen' = PrintItem(ListScrolled(0, lScroll, -1), lScroll - 1, 0, TRUE)
     /\ UNCHANGED lChoice

ListDown ==
  \/ lChoice # lRows - 1 /\ Highlight(lChoice + 1)
  \/ /\ lChoice = lRows - 1 /\ lScroll + lChoice < lItems - 1
     /\ lScroll' = lScroll + 1
     /\ lScreen' = PrintItem(ListScrolled(lRows - 1, lScroll + lRows - 1, 1),
                             lScroll + lRows, lRows - 1, TRUE)
     /\ UNCHANGED lChoice

\* a letter, the first one of an item that is seen
ListLetter == \E i \in Lines(lRows) : Highlight(i)

ListMove ==
  /\ lpc = "open"
  /\ ListUp \/ ListDown \/ ListLetter
  /\ UNCHANGED <<lpc, lItems, lHeight, lRows, lButton, lPicked>>

ListButton ==
  /\ lpc = "open" /\ lButton' = 1 - lButton
  /\ UNCHANGED <<lpc, lItems, lHeight, lRows, lScroll, lChoice, lScreen, lPicked>>

\* Select, or Help (h and ? whatever button is highlighted); Esc and x pick nothing.
ListReturn ==
  /\ lpc = "open" /\ lpc' = "closed"
  /\ lPicked' \in {lScroll + lChoice, Nobody} /\ lButton' \in {lButton, 1}
  /\ UNCHANGED <<lItems, lHeight, lRows, lScroll, lChoice, lScreen>>

ListNext == OpenList \/ ResizeList \/ ListMove \/ ListButton \/ ListReturn

ListSpec == ListInit /\ [][ListNext]_listvars

-----------------------------------------------------------------------------
(* Properties                                                              *)

\* The window shows the items from scroll on, without going past the end of
\* the list, and lights the item that Enter picks: what the user sees lit is
\* what the choice is set to, also in a window of one line, which is not scrolled.
ListShowsChoice ==
  lpc = "open" =>
    /\ ShowsList(lScreen, lRows, lScroll, lChoice)
    /\ lChoice \in Lines(lRows) /\ lScroll >= 0 /\ lScroll + lRows <= lItems

=============================================================================
