------------------------------ MODULE NcDialogs ------------------------------
(***************************************************************************)
(* make nconfig, support/kconfig/nconf.gui.c: the line that is edited, the *)
(* text that is scrolled, the buttons; and those functions of nconf.c that *)
(* ask with them, one window after another.  A character is a number, 0    *)
(* the one that ends the text.                                             *)
(***************************************************************************)
EXTENDS Integers, Sequences, FiniteSets, FiniteSetsExt

CONSTANTS
  NcChars,      \* the printable characters
  NcMaxLen,     \* bound: how long the texts get
  NcWidths,     \* prompt_width
  NcTexts,      \* what is scrolled: sequences of "x" and "nl"
  NcLines,      \* lines and columns, less what the frame takes
  NcColumns

\* nconf.c:1502: at least 20 lines and 75 columns, to start with.
ASSUME DialogConstants ==
  /\ NcChars \subseteq Nat \ {0} /\ NcMaxLen \in Nat
  /\ NcWidths \subseteq Nat \ {0} /\ NcLines \subseteq Nat \ {0} /\ NcColumns \subseteq Nat \ {0}
  /\ NcTexts \subseteq Seq({"x", "nl"})

VARIABLES
  caller,       \* idle, string, load, save, search, help, exit, exited
  window,       \* none, input, scroll, buttons, message
  init,         \* what the line starts from: a value, or filename
  result,          \* dialog_input_result, and dialog_input_result_len
  result_len,
  cursor_position, cursor_form_win, prompt_width,
  page,         \* the text that is scrolled, and where it is
  button,       \* current_item of the buttons
  changed,      \* conf_get_changed()
  told,         \* do_exit said that the changes were not saved
  unsaved,      \* history: the configuration in memory is neither the one of the file
                \* that was read at first nor the one that was written last
  load_failed   \* history: since then a load failed, and nothing was changed after it

inbox == <<init, result, result_len, cursor_position, cursor_form_win, prompt_width>>
saving == <<changed, told, unsaved, load_failed>>
dialogvars == <<caller, window, inbox, page, button, saving>>

NoPage == [text |-> <<>>, start_y |-> 0, start_x |-> 0, text_lines |-> 0, text_cols |-> 0]

DialogInit ==
  /\ caller = "idle" /\ window = "none"
  /\ changed \in BOOLEAN /\ unsaved = changed /\ told = FALSE /\ load_failed = FALSE
  /\ init = <<>> /\ result = <<>> /\ result_len = 0
  /\ cursor_position = 0 /\ cursor_form_win = 0 /\ prompt_width = 1
  /\ page = NoPage /\ button = 0

Shut == window' = "none" /\ caller' = "idle"
Refuses == window' = "message" /\ UNCHANGED caller

-----------------------------------------------------------------------------
(* dialog_inputbox                                                         *)

TextLen == Min({n \in DOMAIN result : result[n] = 0} \cup {result_len})

\* strncpy clears the buffer behind the text.
OpenLine(text) ==
  /\ window' = "input" /\ init' = text
  /\ result_len' = Max({result_len, Len(text) + 1})
  /\ result' = [k \in 0..result_len' - 1 |-> IF k < Len(text) THEN text[k + 1] ELSE 0]
  /\ prompt_width' \in NcWidths
  /\ cursor_position' = Len(text)
  /\ cursor_form_win' = Min({Len(text), prompt_width' - 1})

\* After each key the cursor is kept in the window, which is then printed anew.
CursorTo(place, in_window) ==
  /\ cursor_position' = place
  /\ cursor_form_win' = Max({Min({in_window, prompt_width - 1}), 0})

SameBuffer == UNCHANGED <<result, result_len>>

LineBackspace ==
  /\ cursor_position > 0
  /\ result' = [k \in DOMAIN result |->
               IF k \in cursor_position - 1..TextLen - 1 THEN result[k + 1] ELSE result[k]]
  /\ CursorTo(cursor_position - 1, cursor_form_win - 1) /\ UNCHANGED result_len

\* One byte more is moved than the text has, which may lie behind the buffer.
LineDelete ==
  /\ cursor_position < TextLen
  /\ \E beyond \in IF TextLen + 1 < result_len THEN {result[TextLen + 1]} ELSE NcChars \cup {0} :
       result' = [k \in DOMAIN result |->
                 IF k = TextLen THEN beyond
                 ELSE IF k \in cursor_position..TextLen - 1 THEN result[k + 1] ELSE result[k]]
  /\ CursorTo(cursor_position, cursor_form_win) /\ UNCHANGED result_len

LineMove ==
  /\ \/ cursor_position < TextLen /\ CursorTo(cursor_position + 1, cursor_form_win + 1)
     \/ cursor_position > 0 /\ CursorTo(cursor_position - 1, cursor_form_win - 1)
     \/ CursorTo(0, 0)
     \/ CursorTo(TextLen, Min({TextLen, prompt_width - 1}))
  /\ SameBuffer

\* The buffer grows with the text.
LineInsert ==
  /\ TextLen < NcMaxLen
  /\ result_len' = Max({result_len, TextLen + 2})
  /\ \E c \in NcChars :
       result' = [k \in 0..result_len' - 1 |->
                 IF k = cursor_position THEN c
                 ELSE IF k \in cursor_position + 1..TextLen + 1 THEN result[k - 1] ELSE result[k]]
  /\ CursorTo(cursor_position + 1, cursor_form_win + 1)

LineKey ==
  /\ window = "input" /\ (LineBackspace \/ LineDelete \/ LineMove \/ LineInsert)
  /\ UNCHANGED <<caller, window, init, prompt_width, page, button, saving>>

-----------------------------------------------------------------------------
(* show_scroll_win: the pad has every line of the text, the window shows   *)
(* one line and one column less than it counts.                            *)

get_line_no(text) == 1 + Cardinality({i \in DOMAIN text : text[i] = "nl"})

\* where a line starts: behind the newline before it
get_line(text, n) ==
  IF n = 0 THEN 1
  ELSE 1 + (CHOOSE i \in DOMAIN text :
              text[i] = "nl" /\ Cardinality({j \in 1..i : text[j] = "nl"}) = n)

get_line_length(text, from) ==
  Min({i \in from..Len(text) + 1 : i = Len(text) + 1 \/ text[i] = "nl"}) - from

TotalCols(text) ==
  2 + Max({get_line_length(text, get_line(text, n)) : n \in 0..get_line_no(text) - 1})

OpenPage(text) ==
  /\ window' = "scroll"
  /\ \E lines \in NcLines, columns \in NcColumns :
       page' = [text |-> text, start_y |-> 0, start_x |-> 0,
                text_lines |-> Min({get_line_no(text), lines}),
                text_cols |-> Min({TotalCols(text), columns})]

Within(n, last) == IF n < 0 THEN 0 ELSE Min({n, last})

ScrollKey ==
  /\ window = "scroll"
  /\ LET total == get_line_no(page.text)
         last == total - page.text_lines
         right == TotalCols(page.text) - page.text_cols
         rows == {page.start_y + page.text_lines - 2, page.start_y - (page.text_lines + 2),
                  0, last, page.start_y + 1, page.start_y - 1}
     IN  \/ \E y \in rows : page' = [page EXCEPT !.start_y = Within(y, last)]
         \/ \E x \in {page.start_x - 1, page.start_x + 1} :
              page' = [page EXCEPT !.start_x = Within(x, right)]
  /\ UNCHANGED <<caller, window, inbox, button, saving>>

-----------------------------------------------------------------------------
(* Those who ask.                                                          *)

\* conf_string with what a symbol has, conf_load and conf_save with filename.
AskLine ==
  /\ caller = "idle" /\ caller' \in {"string", "load", "save", "search"}
  /\ \E n \in 0..NcMaxLen : \E text \in [1..n -> NcChars] :
       (caller' = "search" => text = <<>>) /\ OpenLine(text)
  /\ UNCHANGED <<page, button, saving>>

\* show_help and the function keys; also F1 while a line is edited
AskHelp ==
  /\ \/ caller = "idle" /\ caller' = "help"
     \/ window = "input" /\ UNCHANGED caller
  /\ \E text \in NcTexts : OpenPage(text)
  /\ UNCHANGED <<inbox, button, saving>>

\* The line starts again from what it first started from.
LeaveHelp ==
  /\ window = "scroll" /\ page' = NoPage
  /\ IF caller = "help" THEN Shut /\ UNCHANGED inbox ELSE OpenLine(init) /\ UNCHANGED caller
  /\ UNCHANGED <<button, saving>>

LeaveLine ==
  /\ window = "input" /\ Shut /\ UNCHANGED <<inbox, page, button, saving>>

\* What is in memory is changed, perhaps; is written; and is kept when a file cannot be
\* read, although conf_read has cleared the change count before it knows that.
Edits ==
  \E edit \in BOOLEAN :
    /\ changed' = (changed \/ edit) /\ unsaved' = (unsaved \/ edit)
    /\ load_failed' = (load_failed /\ ~edit)
Saves == changed' = FALSE /\ unsaved' = FALSE /\ load_failed' = FALSE
Loads == changed' = TRUE /\ unsaved' = TRUE /\ load_failed' = FALSE
FailsToLoad == changed' = FALSE /\ load_failed' = TRUE /\ UNCHANGED unsaved
SameCount == UNCHANGED <<changed, unsaved, load_failed>>

\* mutant: the change count is cleared before it is known whether the file is written
EnterLineMutant ==
  /\ window = "input" /\ UNCHANGED <<inbox, page, button, told>>
  /\ \/ caller = "string" /\ Shut /\ Edits
     \/ caller = "string" /\ Refuses /\ SameCount
     \/ caller \in {"load", "save"} /\ TextLen = 0 /\ Shut /\ SameCount
     \/ caller = "load" /\ TextLen > 0 /\ Shut /\ Loads
     \/ caller = "load" /\ TextLen > 0 /\ Refuses /\ FailsToLoad
     \/ caller = "save" /\ TextLen > 0 /\ Shut /\ Saves
     \/ caller = "save" /\ TextLen > 0 /\ Refuses /\ changed' = FALSE /\ UNCHANGED <<unsaved, load_failed>>

\* Enter, or the key of code 0.  A value or a file may be refused.
EnterLine ==
  /\ window = "input" /\ UNCHANGED <<inbox, page, button, told>>
  /\ \/ caller = "string" /\ Shut /\ Edits
     \/ caller = "string" /\ Refuses /\ SameCount
     \/ caller \in {"load", "save"} /\ TextLen = 0 /\ Shut /\ SameCount
     \/ caller = "load" /\ TextLen > 0 /\ Shut /\ Loads
     \/ caller = "load" /\ TextLen > 0 /\ Refuses /\ FailsToLoad
     \/ caller = "save" /\ TextLen > 0 /\ Shut /\ Saves
     \/ caller = "save" /\ TextLen > 0 /\ Refuses /\ SameCount

\* search_conf shows what sym_re_search found.
FoundSymbols ==
  /\ window = "input" /\ caller = "search" /\ caller' = "help"
  /\ \E text \in NcTexts : OpenPage(text)
  /\ UNCHANGED <<inbox, button, saving>>

\* do_exit: btn_dialog with <save> and <don't save>, if anything was changed
AskExit ==
  /\ caller = "idle" /\ caller' = (IF changed THEN "exit" ELSE "exited")
  /\ window' = (IF changed THEN "buttons" ELSE "none") /\ button' = 0
  /\ UNCHANGED <<inbox, page, saving>>

\* Left and Right, without going round; Enter, or the key of code 0 for the
\* first one; Esc goes on as before.
ButtonsKey ==
  /\ window = "buttons" /\ UNCHANGED <<inbox, page>>
  /\ \/ button' = 1 - button /\ UNCHANGED <<caller, window, saving>>
     \/ Shut /\ button' = 0 /\ UNCHANGED saving
     \/ \E answer \in {button, 0} :
          /\ button' = 0
          /\ \/ answer = 0 /\ caller' = "exited" /\ window' = "none" /\ Saves /\ UNCHANGED told
             \/ Refuses /\ told' = TRUE /\ SameCount

LeaveMessage ==
  /\ window = "message" /\ UNCHANGED <<page, button, saving>>
  /\ IF caller = "exit" THEN caller' = "exited" /\ window' = "none" /\ UNCHANGED inbox
     ELSE OpenLine(init) /\ UNCHANGED caller

DialogNext ==
  \/ AskLine \/ AskHelp \/ AskExit \/ LineKey \/ ScrollKey \/ ButtonsKey
  \/ EnterLine \/ LeaveLine \/ LeaveHelp \/ FoundSymbols \/ LeaveMessage

DialogSpec == DialogInit /\ [][DialogNext]_dialogvars

-----------------------------------------------------------------------------
(* Properties                                                              *)

NcPart(from, to) == [i \in 1..to - from |-> result[from + i - 1]]

NcEditor ==
  INSTANCE LxLine WITH editing <- window = "input", Chars <- NcChars, MaxLen <- NcMaxLen,
    before <- NcPart(0, cursor_position), after <- NcPart(cursor_position, TextLen)

\* The text ends in the buffer, however it was edited, and the cursor is in the
\* window, which does not begin before the text.
LineInSight ==
  window = "input" =>
    /\ TextLen < result_len /\ cursor_position \in 0..TextLen
    /\ cursor_form_win \in 0..Min({cursor_position, prompt_width - 1})

\* What is scrolled stays in the window; at its end the last line that a
\* newline ends can be read, and the end of the longest line.  (The window has
\* a line less than is counted, so that what comes after the last newline is
\* never seen, and nothing at all of a text without any.)
PageInSight ==
  window = "scroll" =>
    LET lines == get_line_no(page.text)
        seen == page.start_y..page.start_y + page.text_lines - 2
    IN  /\ seen \subseteq 0..lines - 2 /\ (page.text_lines > 1 => seen # {})
        /\ \A n \in 0..lines - 1 :
             page.start_x = TotalCols(page.text) - page.text_cols =>
               get_line_length(page.text, get_line(page.text, n)) <= page.start_x + page.text_cols - 1

\* When the program ends with a configuration in memory that was not written, do_exit
\* has told the user so, whatever was loaded, saved and refused before; and it told so
\* of no other.  The one exception: after a load that failed the change count is 0
\* (confdata.c:413), and if nothing was changed since, what was changed before is lost
\* untold.
ExitTells ==
  caller = "exited" => (told => unsaved) /\ (unsaved => told \/ load_failed)

\* The line is edited as the keys say, although the characters are moved in a
\* buffer that grows, is read beyond its end and starts anew after each
\* refusal; what is shown is where the user is; and nothing is lost untold but after a
\* load that failed.
DialogsAreTrue == NcEditor!LineSpec /\ [](LineInSight /\ PageInSight /\ ExitTells)

=============================================================================
