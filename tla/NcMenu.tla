------------------------------- MODULE NcMenu -------------------------------
(***************************************************************************)
(* make nconfig, support/kconfig/nconf.c: the menus and choices that conf  *)
(* and conf_choice show, one in another, and the search in them by typing. *)
(* The list itself, which item is the current one and which is the first   *)
(* that is seen, is kept by the menu library, that is external.  What the  *)
(* user sets changes the items; Session says what it does.                 *)
(***************************************************************************)
EXTENDS Integers, Sequences, SequencesExt

CONSTANTS
  NcMenus,     \* what build_conf may make: sequences of items
  NcChoices,   \* and conf_choice
  NcHeights,   \* mwin_max_lines
  Letters,     \* what can be typed
  MaxPattern,  \* bounds: the length of a pattern,
  MaxDepth,    \* and calls of conf in each other
  Values       \* the values that choices may have

\* Items have a place in memory.  nconf starts with 20 lines or more, of which
\* all but 7 are for the menu; none is resized to less than 8.
ASSUME NcMenuAssumption ==
  /\ \A items \in NcMenus \cup NcChoices :
       items \in Seq([id : Nat, tag : STRING, str : Seq(Letters)])
  /\ NcHeights \subseteq Nat \ {0}

VARIABLES
  ncpc,        \* idle, keys (wgetch), hung, crashed
  frames,      \* the calls of conf and conf_choice, the last one waits for a key
  item_count,  \* how many items the library has
  top, cur,    \* top_row() and the index of current_item()
  height

ncmenuvars == <<ncpc, frames, item_count, top, cur, height>>

Nowhere == -1

NcMenuInit == ncpc = "idle" /\ frames = <<>> /\ item_count = 0 /\ top = 0 /\ cur = 0 /\ height = 1

\* The locals of a call.
NcFrame(kind, items) ==
  [kind |-> kind, items |-> items, active |-> Nowhere, index |-> 0, last_top_row |-> 0,
   in_search |-> FALSE, direction |-> "tinker_down", pattern |-> <<>>]

F == Last(frames)
N == Len(F.items)
ItemOf(f, i) == f.items[i + 1]
Change(f) == frames' = Append(Front(frames), f)

-----------------------------------------------------------------------------
(* The menu library.  Rows that are out of range are refused.              *)

ListPlace(n, t, c) == [n |-> n, rows |-> Min({n, height'}), top |-> t, cur |-> c]

SetTopRow(l, row) ==
  IF row \in 0..l.n - l.rows /\ row # l.top THEN [l EXCEPT !.top = row, !.cur = row] ELSE l

\* An item out of sight is scrolled to; none, behind the last one, is refused.
GoTo(l, i) ==
  IF i \notin 0..l.n - 1 THEN l
  ELSE [l EXCEPT !.cur = i,
                 !.top = IF i < @ THEN i ELSE IF i >= @ + l.rows THEN i - l.rows + 1 ELSE @]

Drive(l, request) ==
  LET down == Min({l.n - l.rows - l.top, l.rows})
      up == Min({l.top, l.rows})
  IN  CASE request = "down" -> GoTo(l, l.cur + 1)
        [] request = "up" -> GoTo(l, l.cur - 1)
        [] request = "first" -> GoTo(l, 0)
        [] request = "last" -> GoTo(l, l.n - 1)
        [] request = "page_down" -> [l EXCEPT !.top = @ + down, !.cur = @ + down]
        [] request = "page_up" -> [l EXCEPT !.top = @ - up, !.cur = @ - up]

-----------------------------------------------------------------------------
(* Showing a menu.                                                         *)

\* center_item: the list, and last_top_row.
CenterItem(l, selected, last_top_row) ==
  LET at == SetTopRow(l, last_top_row)
      row == Min({Max({selected - height' \div 2, 0}), l.n - height'})
      seen == selected >= at.top /\ selected < at.top + height'
  IN  IF seen THEN [list |-> GoTo(at, selected), row |-> at.top]
      ELSE [list |-> GoTo(SetTopRow(at, row), selected), row |-> row]

Place(l) == item_count' = l.n /\ top' = l.top /\ cur' = l.cur
Stay == UNCHANGED <<item_count, top, cur>>

\* show_menu, with items that were just made: the library starts from the
\* first one.  A list without items it refuses, and keeps those it has, blank.
\* Where no item is selected, what lies before the first one is looked for: the
\* library refuses it, or the program crashes.
ShowMenuOf(outer, f) ==
  LET n == IF f.items = <<>> THEN item_count ELSE Len(f.items)
      c == CenterItem(ListPlace(n, 0, 0), f.index, f.last_top_row)
  IN  /\ Place(c.list)
      /\ frames' = Append(outer, [f EXCEPT !.last_top_row = c.row])
      /\ ncpc' = "keys" \/ (f.index = Nowhere /\ ncpc' = "crashed")

\* The outer loop of conf, and that of conf_choice, which looks for the value
\* that was active when it was called, from where the last list was.
ShowLoop(outer, f) ==
  LET active == {i \in 0..Len(f.items) - 1 : ItemOf(f, i).id = f.active}
      i == CHOOSE j \in active : TRUE
  IN  ShowMenuOf(outer, IF active = {} THEN f ELSE [f EXCEPT !.index = i, !.last_top_row = top])

\* (The direction is set when the next search starts.)
SearchOver(f) == [f EXCEPT !.in_search = FALSE, !.pattern = <<>>, !.direction = "tinker_down"]

\* After a key that ends the inner loop; only conf remembers where it is.
Left ==
  SearchOver(IF F.kind = "choice" THEN [F EXCEPT !.index = Nowhere]
             ELSE [F EXCEPT !.index = cur, !.last_top_row = top])

SameHeight == UNCHANGED height

-----------------------------------------------------------------------------
(* Searching.                                                              *)

Matches(item, pattern) ==
  \E i \in 0..Len(item.str) - Len(pattern) : SubSeq(item.str, i + 1, i + Len(pattern)) = pattern

\* get_mext_match goes round until it is back at match_start, which may lie
\* beside the list.
MextMatch(pattern, direction) ==
  LET step == IF direction \in {"next_up", "tinker_up"} THEN -1 ELSE 1
      match_start == CASE direction = "next_down" -> cur + 1
                       [] direction = "next_up" -> cur - 1
                       [] OTHER -> cur
      found == {k \in 0..N - 1 : Matches(ItemOf(F, (match_start + k * step + N) % N), pattern)}
      first == CHOOSE k \in found : \A j \in found : k <= j
  IN  IF N = 0 THEN [ends |-> "crashed", ans |-> Nowhere]
      ELSE IF found # {} THEN [ends |-> "keys", ans |-> (match_start + first * step + N) % N]
      ELSE [ends |-> IF match_start \in 0..N - 1 THEN "keys" ELSE "hung", ans |-> Nowhere]

\* mutant: a match is gone to only if it is not in sight
LookForMutant(f) ==
  LET m == MextMatch(f.pattern, f.direction)
      c == CenterItem(ListPlace(item_count, top, cur), m.ans, f.last_top_row)
  IN  /\ ncpc' = m.ends
      /\ IF m.ans = Nowhere \/ m.ans \in top..top + height - 1
         THEN Change([f EXCEPT !.index = m.ans]) /\ Stay
         ELSE Change([f EXCEPT !.index = m.ans, !.last_top_row = c.row]) /\ Place(c.list)

\* do_match looks for the pattern; conf or conf_choice center on what it found.
LookFor(f) ==
  LET m == MextMatch(f.pattern, f.direction)
      c == CenterItem(ListPlace(item_count, top, cur), m.ans, f.last_top_row)
  IN  /\ ncpc' = m.ends
      /\ IF m.ans = Nowhere THEN Change([f EXCEPT !.index = m.ans]) /\ Stay
         ELSE Change([f EXCEPT !.index = m.ans, !.last_top_row = c.row]) /\ Place(c.list)

AdjMatchDir(d) == CASE d = "next_down" -> "tinker_down" [] d = "next_up" -> "tinker_up" [] OTHER -> d

\* '/', and Esc in a search
ToggleSearch ==
  /\ ncpc = "keys" /\ SameHeight
  /\ Change([F EXCEPT !.in_search = ~@, !.pattern = <<>>, !.direction = "tinker_down",
                         !.index = Nowhere])
  /\ UNCHANGED ncpc /\ Stay

\* What is typed, the page keys and End among it, whose codes end like those
\* of the letters R, S and h.
TypeLetter ==
  /\ ncpc = "keys" /\ F.in_search /\ Len(F.pattern) < MaxPattern /\ SameHeight
  /\ \E c \in Letters :
       LookFor([F EXCEPT !.pattern = Append(@, c), !.direction = AdjMatchDir(@)])

FindNext ==
  /\ ncpc = "keys" /\ F.in_search /\ SameHeight
  /\ \E d \in {"next_down", "next_up"} : LookFor([F EXCEPT !.direction = d])

\* Without a pattern, the byte before it is written, a zero of match_direction.
EraseLetter ==
  /\ ncpc = "keys" /\ F.in_search /\ SameHeight
  /\ Change([F EXCEPT !.pattern = IF @ = <<>> THEN @ ELSE Front(@),
                         !.direction = AdjMatchDir(@), !.index = Nowhere])
  /\ UNCHANGED ncpc /\ Stay

-----------------------------------------------------------------------------
(* The other keys.                                                         *)

\* Of these, only Home ends a search.
MoveInMenu ==
  /\ ncpc = "keys" /\ SameHeight
  /\ \E r \in {"down", "up", "first", "last", "page_down", "page_up"} :
       /\ F.in_search => r = "first"
       /\ Place(Drive(ListPlace(item_count, top, cur), r))
  /\ Change(SearchOver([F EXCEPT !.index = Nowhere])) /\ UNCHANGED ncpc

\* A resize, and the function keys: what they set or load may change all
\* items.  So may the keys that set a value in a menu.
ItemsChange ==
  /\ ncpc = "keys" /\ height' \in NcHeights
  /\ \E items \in IF F.kind = "choice" THEN NcChoices ELSE NcMenus :
       ShowLoop(Front(frames), [Left EXCEPT !.items = items])

\* main calls conf with the root menu, that has something in it.
EnterRoot ==
  /\ ncpc = "idle" /\ height' \in NcHeights
  /\ \E items \in NcMenus \ {<<>>} : ShowLoop(<<>>, NcFrame("menu", items))

\* Enter, on a menu or a choice.
EnterItem ==
  /\ ncpc = "keys" /\ F.kind = "menu" /\ N > 0 /\ Len(frames) < MaxDepth /\ SameHeight
  /\ LET outer == Append(Front(frames), Left)
     IN  \/ /\ ItemOf(F, cur).tag = "m"
            /\ \E items \in NcMenus : ShowLoop(outer, NcFrame("menu", items))
         \/ /\ ItemOf(F, cur).tag = "t"
            /\ \E items \in NcChoices, v \in Values :
                 ShowLoop(outer, [NcFrame("choice", items) EXCEPT !.active = v])

\* Esc and Left, and a value of a choice that is picked.  The menu around is
\* made again, with what was set in here.  The root menu has no Left, and Esc
\* ends a search.
LeaveList ==
  /\ ncpc = "keys" /\ SameHeight
  /\ IF Len(frames) > 1
     THEN \E items \in NcMenus :
            ShowLoop(Front(Front(frames)), [Last(Front(frames)) EXCEPT !.items = items])
     ELSE ~F.in_search /\ ncpc' = "idle" /\ frames' = <<>> /\ Stay

NcMenuNext ==
  \/ EnterRoot \/ EnterItem \/ LeaveList \/ ItemsChange \/ MoveInMenu
  \/ ToggleSearch \/ TypeLetter \/ FindNext \/ EraseLetter

NcMenuSpec == NcMenuInit /\ [][NcMenuNext]_ncmenuvars

-----------------------------------------------------------------------------
(* Properties                                                              *)

InSight(t, c, h) == t <= c /\ c < t + h

\* The current item of a menu that is not empty is one of it and can be seen,
\* however the list was searched, rebuilt with other items, or resized.  The
\* program crashes only where the menu is empty or a choice has lost its value,
\* and hangs only in looking up from the first item, or down from the last,
\* for what is nowhere: three things that the code does not think of.
CurrentIsSeen ==
  /\ ncpc = "keys" /\ N > 0 => cur \in 0..N - 1 /\ InSight(top, cur, height)
  /\ ncpc = "crashed" => N = 0 \/ F.kind = "choice"
  /\ ncpc = "hung" =>
       /\ \A i \in 0..N - 1 : ~Matches(ItemOf(F, i), F.pattern)
       /\ F.direction \in {"next_up", "next_down"} /\ cur \in {0, N - 1}

\* What is typed is found: the nearest match is the current item, in the
\* direction of the search, going round; without one nothing moves.
SearchFinds ==
  TypeLetter \/ FindNext =>
    LET f == Last(frames')
        matches == {i \in 0..N - 1 : Matches(ItemOf(F, i), f.pattern)}
        away(i) == IF f.direction \in {"next_up", "tinker_up"} THEN (cur - i + N) % N
                   ELSE (i - cur + N) % N
        far(i) == IF f.direction \in {"next_up", "next_down"} /\ away(i) = 0 THEN N ELSE away(i)
    IN  IF matches = {} THEN Stay
        ELSE /\ cur' \in matches /\ InSight(top', cur', height')
             /\ \A i \in matches : far(cur') <= far(i)

\* Who leaves a menu is back on the item it was entered from, at the same
\* place of the list, unless that has become shorter, or the window, meanwhile.
LeavingComesBack ==
  LeaveList /\ Len(frames) > 1 /\ ncpc' = "keys" =>
    LET f == Last(Front(frames))
        n == Len(Last(frames').items)
    IN  /\ f.index < n => cur' = f.index
        /\ f.last_top_row + height <= n /\ InSight(f.last_top_row, f.index, height) =>
             top' = f.last_top_row

\* All of this, wherever the user goes.
ListIsTrue == []CurrentIsSeen /\ [][SearchFinds /\ LeavingComesBack]_ncmenuvars

=============================================================================
