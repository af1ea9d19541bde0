------------------------------- MODULE LxList -------------------------------
(***************************************************************************)
(* What the two list dialogs of lxdialog share: the lines of a window,     *)
(* printed one at a time, and scrolled.  A line shows an item, by its      *)
(* number in the list of items, and whether that item is highlighted; how  *)
(* it is drawn is left out.                                                *)
(***************************************************************************)
EXTENDS Integers

Blank == -1

Lines(height) == 0..height - 1

\* print_item(index, line, selected)
PrintItem(screen, index, line, lit) ==
  [screen EXCEPT ![line] = [item |-> index, lit |-> lit]]

\* wscrl(win, n): the lines move up by n, those that come in are blank.
Scrolled(screen, n) ==
  [y \in DOMAIN screen |->
     IF y + n \in DOMAIN screen THEN screen[y + n] ELSE [item |-> Blank, lit |-> FALSE]]

\* What the window should show of a list: one item a line from scroll on, the chosen one lit.
ShowsList(screen, height, scroll, choice) ==
  screen = [y \in Lines(height) |-> [item |-> scroll + y, lit |-> y = choice]]

=============================================================================
