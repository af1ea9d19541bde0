------------------------------- MODULE LxText -------------------------------
(***************************************************************************)
(* support/kconfig/lxdialog/textbox.c: dialog_textbox, which scrolls over  *)
(* a text by moving one pointer, page, forth with get_line and back with   *)
(* back_lines.  mconf's search gives it update_text, which finds the       *)
(* places on the page that a number key jumps to, and asks for the same    *)
(* page again when the user is back from there (mconf.c: search_conf).     *)
(* A text is a sequence of characters, of which "nl" ends a line.          *)
(***************************************************************************)
EXTENDS Sequences, FiniteSetsExt

CONSTANTS
  Texts,        \* the texts; none is empty
  TextHeights,  \* boxh
  JumpKeys,     \* JUMP_NB: the number keys
  MaxHscroll    \* MAX_LEN: the last column to scroll to

ASSUME TextConstants ==
  /\ Texts \subseteq Seq(STRING) \ {<<>>} /\ TextHeights \subseteq Nat \ {0}
  /\ JumpKeys \in Nat /\ MaxHscroll \in Nat

VARIABLES
  tpc,          \* idle, open, closed
  buf,
  tSearch,      \* update_text is given
  jumps,        \* the offsets of the places that a search found
  boxh,
  spot,         \* page, begin_reached, end_reached
  page_length,
  shown,        \* where the page that is shown starts
  keys,         \* the places that the number keys jump to
  hscroll,
  vscroll       \* what the caller keeps, in lines

textvars == <<tpc, buf, tSearch, jumps, boxh, spot, page_length, shown, keys, hscroll, vscroll>>

NewLine == "nl"

\* the newlines from one offset up to another
NewLines(text, from, to) == {p \in from..to - 1 : text[p + 1] = NewLine}

LineStarts(text) == {0} \cup {p + 1 : p \in NewLines(text, 0, Len(text))}

TextInit ==
  /\ tpc = "idle" /\ buf = <<NewLine>> /\ tSearch = FALSE /\ jumps = {} /\ boxh = 1
  /\ spot = [page |-> 0, begin |-> TRUE, end |-> FALSE] /\ page_length = 0
  /\ shown = 0 /\ keys = {} /\ hscroll = 0 /\ vscroll = 0

-----------------------------------------------------------------------------
(* get_line and back_lines                                                 *)

GetLine(text, s) ==
  LET ends == NewLines(text, s.page, Len(text))
  IN  IF ends = {} THEN [s EXCEPT !.page = Len(text), !.end = TRUE]
                   ELSE [s EXCEPT !.page = Min(ends) + 1, !.end = FALSE]

GetLines(text, s, n) ==
  LET after[i \in 0..n] == IF i = 0 THEN s ELSE GetLine(text, after[i - 1])
  IN  after[n]

\* mutant: the newline that ends the line above is taken for that of the line before it
BackLineMutant(text, s) ==
  LET ends == NewLines(text, 0, s.page)
  IN  IF s.page = Len(text) /\ s.end THEN [s EXCEPT !.end = FALSE]
      ELSE IF ends = {} THEN [s EXCEPT !.page = 0, !.begin = TRUE]
      ELSE [s EXCEPT !.page = Max(ends)]

\* One line back: the end of the text counts as a line once it was reached;
\* otherwise to behind the newline before the last character that was read.
BackLine(text, s) ==
  LET ends == NewLines(text, 0, s.page - 1)
  IN  IF s.page = Len(text) /\ s.end THEN [s EXCEPT !.end = FALSE]
      ELSE IF ends = {} THEN [s EXCEPT !.page = 0, !.begin = TRUE]
      ELSE [s EXCEPT !.page = Max(ends) + 1]

BackLines(text, s, n) ==
  LET after[i \in 0..n] ==
        IF i = 0 THEN [s EXCEPT !.begin = FALSE]
        ELSE IF after[i - 1].begin THEN after[i - 1] ELSE BackLine(text, after[i - 1])
  IN  after[n]

-----------------------------------------------------------------------------
(* print_page, and update_text for the page that is about to be printed    *)

\* mutant: the places of the pages before take keys too
UpdateTextMutant(places, from, to) ==
  {o \in places : o \in from..to - 1 /\ Cardinality({p \in places : p < o}) < JumpKeys}

\* The keys go to the first places on the page.
UpdateText(places, from, to) ==
  LET seen == {o \in places : o \in from..to - 1}
  IN  {o \in seen : Cardinality({p \in seen : p < o}) < JumpKeys}

\* mutant: the lines after the end of the text are counted
PrintPageMutant(text, s, search, places, height) ==
  LET ahead == GetLines(text, s, height)
      top == IF search THEN BackLines(text, ahead, height) ELSE s
  IN  /\ shown' = top.page
      /\ keys' = (IF search THEN UpdateText(places, top.page, ahead.page) ELSE {})
      /\ spot' = GetLines(text, top, height)
      /\ page_length' = height

PrintPage(text, s, search, places, height) ==
  LET ahead == GetLines(text, s, height)
      top == IF search THEN BackLines(text, ahead, height) ELSE s
      after[i \in 0..height] == IF i = 0 THEN top ELSE GetLine(text, after[i - 1])
      last == {i \in 1..height : after[i].end}
  IN  /\ shown' = top.page
      /\ keys' = (IF search THEN UpdateText(places, top.page, ahead.page) ELSE {})
      /\ spot' = after[height]
      /\ page_length' = IF last = {} THEN height ELSE Min(last)

OpenText ==
  /\ tpc' = "open"
  /\ boxh' \in TextHeights
  /\ \/ /\ tpc = "idle" /\ buf' \in Texts /\ tSearch' \in BOOLEAN
        /\ jumps' \in (IF tSearch' THEN SUBSET (LineStarts(buf') \ {Len(buf')}) ELSE {{}})
        /\ vscroll' = 0 /\ hscroll' = 0
     \/ tpc = "closed" /\ tSearch /\ UNCHANGED <<buf, tSearch, jumps, vscroll, hscroll>>
  /\ PrintPage(buf', GetLines(buf', [page |-> 0, begin |-> vscroll' = 0, end |-> FALSE], vscroll'),
               tSearch', jumps', boxh')

Reprint(s, height) == PrintPage(buf, s, tSearch, jumps, height)

Kept == tpc = "open" /\ UNCHANGED <<tpc, buf, tSearch, jumps, vscroll>>

FirstPage ==
  /\ Kept /\ ~spot.begin
  /\ Reprint([spot EXCEPT !.begin = TRUE, !.page = 0], boxh) /\ UNCHANGED <<boxh, hscroll>>

LastPage ==
  /\ Kept
  /\ Reprint(BackLines(buf, [spot EXCEPT !.end = TRUE, !.page = Len(buf)], boxh), boxh)
  /\ UNCHANGED <<boxh, hscroll>>

LineUp ==
  /\ Kept /\ ~spot.begin
  /\ Reprint(BackLines(buf, spot, page_length + 1), boxh) /\ UNCHANGED <<boxh, hscroll>>

PageUpText ==
  /\ Kept /\ ~spot.begin
  /\ Reprint(BackLines(buf, spot, page_length + boxh), boxh) /\ UNCHANGED <<boxh, hscroll>>

LineDown ==
  /\ Kept /\ ~spot.end
  /\ Reprint(BackLines(buf, spot, page_length - 1), boxh) /\ UNCHANGED <<boxh, hscroll>>

PageDownText ==
  /\ Kept /\ ~spot.end
  /\ Reprint([spot EXCEPT !.begin = FALSE], boxh) /\ UNCHANGED <<boxh, hscroll>>

ScrollSideways ==
  /\ Kept /\ hscroll' \in {hscroll - 1, hscroll + 1, 0} \cap 0..MaxHscroll /\ hscroll' # hscroll
  /\ Reprint(BackLines(buf, spot, page_length), boxh) /\ UNCHANGED boxh

\* back_lines(height): the height of the dialog, not of the page
ResizeText ==
  /\ Kept /\ boxh' \in TextHeights
  /\ Reprint(BackLines(buf, spot, boxh + 4), boxh') /\ UNCHANGED hscroll

\* mutant: the lines are counted from where the page ends
CloseTextMutant ==
  /\ tpc = "open" /\ tpc' = "closed"
  /\ vscroll' = (IF tSearch THEN Cardinality(NewLines(buf, 0, spot.page)) ELSE vscroll)
  /\ UNCHANGED <<buf, tSearch, jumps, boxh, page_length, shown, spot, keys, hscroll>>

\* Any of the keys that end the dialog, one of the number keys among them.
CloseText ==
  /\ tpc = "open" /\ tpc' = "closed"
  /\ spot' = BackLines(buf, spot, page_length)
  /\ vscroll' = (IF tSearch THEN Cardinality(NewLines(buf, 0, spot'.page)) ELSE vscroll)
  /\ UNCHANGED <<buf, tSearch, jumps, boxh, page_length, shown, keys, hscroll>>

TextNext ==
  \/ OpenText \/ ResizeText \/ CloseText
  \/ FirstPage \/ LastPage \/ LineUp \/ LineDown \/ PageUpText \/ PageDownText \/ ScrollSideways

TextSpec == TextInit /\ [][TextNext]_textvars

-----------------------------------------------------------------------------
(* Properties, of texts that end in a newline, as those of mconf that are  *)
(* longer than their box do.                                               *)

LineOf(text, offset) == Cardinality(NewLines(text, 0, offset))
Lined(text) == text[Len(text)] = NewLine

\* The page that is shown starts with a line, page stands behind the lines
\* that are shown, and the keys that are ignored are those that would leave the text.
TextShowsPage ==
  tpc = "open" /\ Lined(buf) =>
    /\ shown \in LineStarts(buf)
    /\ spot.page = GetLines(buf, [spot EXCEPT !.page = shown], boxh).page
    /\ spot.begin <=> shown = 0
    /\ spot.end => spot.page = Len(buf)

\* Each key scrolls by what it says, from wherever the keys before it, the end
\* of the text among the lines that are shown, and resizes have left the
\* pointer; sideways does not scroll up or down.
TextScrolls ==
  tpc = "open" /\ Lined(buf) /\ ~tSearch =>
    LET was == LineOf(buf, shown)
        is == LineOf(buf, shown')
    IN  /\ LineDown => is = was + 1
        /\ LineUp => is = was - 1
        /\ PageDownText => is = was + boxh
        /\ PageUpText => is = Max({0, was - boxh})
        /\ ScrollSideways => is = was
        /\ FirstPage => is = 0
        /\ LastPage => spot'.end /\ page_length' = Min({boxh, LineOf(buf, Len(buf)) + 1})

\* The number keys are those of the first places on the page that is shown,
\* and none that has scrolled out of sight still jumps.
KeysAreShown ==
  tpc = "open" /\ Lined(buf) /\ tSearch =>
    LET seen == {o \in jumps : shown <= o /\ o < spot.page}
    IN  /\ keys \subseteq seen
        /\ \A o \in seen \ keys : Cardinality(keys) = JumpKeys /\ \A p \in keys : p < o

\* Who jumps to a place and comes back sees the same page.
SearchComesBack ==
  tpc = "closed" /\ Lined(buf) /\ tSearch /\ UNCHANGED <<buf, boxh, jumps, tSearch, vscroll>> /\ OpenText =>
    shown' = shown

\* What is seen is a page of the text, the one that the keys lead to, with the
\* jumps that are on it.
TextIsShown ==
  []TextShowsPage /\ []KeysAreShown /\ [][TextScrolls /\ SearchComesBack]_textvars

=============================================================================
