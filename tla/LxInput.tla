------------------------------- MODULE LxInput -------------------------------
(***************************************************************************)
(* support/kconfig/lxdialog/inputbox.c: dialog_inputbox, a box of one line *)
(* that scrolls sideways over a text in a static buffer.  A character is a *)
(* number, 0 the one that ends the text and also an empty cell of the box. *)
(***************************************************************************)
EXTENDS Integers, Sequences

CONSTANTS
  Chars,        \* the printable characters
  MaxLen,       \* MAX_LEN: the buffer is one byte longer
  Widths        \* box_width; 69 in mconf

ASSUME InputConstants ==
  Chars \subseteq Nat \ {0} /\ MaxLen \in Nat /\ Widths \subseteq Nat \ {0}

VARIABLES
  ipc,          \* closed, open, or overrun: a text that did not fit was copied over
                \* what the program keeps behind the buffer
  instr,        \* dialog_input_result
  len, pos,
  show_x, input_x,
  iWidth,       \* box_width
  cells,        \* what the box shows
  iButton       \* -1 when the box is selected, 0 for Ok, 1 for Help

inputvars == <<ipc, instr, len, pos, show_x, input_x, iWidth, cells, iButton>>

Nul == 0

InputInit ==
  /\ ipc = "closed" /\ instr = [i \in 0..MaxLen |-> Nul]
  /\ len = 0 /\ pos = 0 /\ show_x = 0 /\ input_x = 0
  /\ iWidth = 1 /\ cells = [x \in {0} |-> Nul] /\ iButton = -1

-----------------------------------------------------------------------------
(* From do_resize: to the first key: the cursor goes behind the text.      *)

DrawInput(text, n, width) ==
  /\ len' = n /\ pos' = n
  /\ show_x' = (IF n >= width THEN n - width + 1 ELSE 0)
  /\ input_x' = (IF n >= width THEN width - 1 ELSE n)
  /\ cells' = [x \in 0..width - 1 |->
                 IF x < input_x' THEN text[show_x' + x] ELSE Nul]
  /\ iWidth' = width

\* strcpy(instr, init) of a text that fits: what the last call left stays behind it.
OpenInput ==
  /\ ipc = "closed"
  /\ \E n \in 0..MaxLen, width \in Widths :
       \E init \in [0..n - 1 -> Chars] :
         /\ instr' = [i \in 0..MaxLen |->
                        IF i < n THEN init[i] ELSE IF i = n THEN Nul ELSE instr[i]]
         /\ DrawInput(instr', n, width)
  /\ ipc' = "open" /\ iButton' = -1

\* The same of a longer one, which a file, a default or another front end may have given
\* a symbol: nothing checks its length, and what follows is open.
OverrunInput ==
  /\ ipc = "closed" /\ ipc' = "overrun"
  /\ UNCHANGED <<instr, len, pos, show_x, input_x, iWidth, cells, iButton>>

ResizeInput ==
  /\ ipc = "open" /\ DrawInput(instr, len, iWidth) /\ UNCHANGED <<ipc, instr, iButton>>

-----------------------------------------------------------------------------
(* The keys of the box.  Redraw: the text from show_x on, and one blank if *)
(* it ends in the box; the cells after that are not written.               *)

Redraw(text, from) ==
  LET end == CHOOSE e \in from..MaxLen : text[e] = Nul /\ \A i \in from..e - 1 : text[i] # Nul
  IN  cells' = [x \in DOMAIN cells |-> IF from + x <= end THEN text[from + x] ELSE cells[x]]

BoxKey == ipc = "open" /\ iButton = -1 /\ UNCHANGED <<ipc, iWidth, iButton>>

\* mutant: show_x stays when the cursor is at the left end of the box
InputBackspaceMutant ==
  /\ pos > 0
  /\ show_x' = show_x
  /\ input_x' = (IF input_x = 0 THEN 0 ELSE input_x - 1)
  /\ instr' = [i \in 0..MaxLen |->
                 IF i = len - 1 THEN Nul
                 ELSE IF pos < len /\ i \in pos - 1..len - 1 THEN instr[i + 1] ELSE instr[i]]
  /\ pos' = pos - 1 /\ len' = len - 1
  /\ Redraw(instr', show_x')

InputBackspace ==
  /\ pos > 0
  /\ show_x' = (IF input_x = 0 THEN show_x - 1 ELSE show_x)
  /\ input_x' = (IF input_x = 0 THEN 0 ELSE input_x - 1)
  /\ instr' = [i \in 0..MaxLen |->
                 IF i = len - 1 THEN Nul
                 ELSE IF pos < len /\ i \in pos - 1..len - 1 THEN instr[i + 1] ELSE instr[i]]
  /\ pos' = pos - 1 /\ len' = len - 1
  /\ Redraw(instr', show_x')

InputLeft ==
  /\ pos > 0 /\ pos' = pos - 1
  /\ IF input_x > 0
     THEN input_x' = input_x - 1 /\ UNCHANGED <<show_x, cells>>
     ELSE show_x' = show_x - 1 /\ Redraw(instr, show_x') /\ UNCHANGED input_x
  /\ UNCHANGED <<instr, len>>

InputRight ==
  /\ pos < len /\ pos' = pos + 1
  /\ IF input_x < iWidth - 1
     THEN input_x' = input_x + 1 /\ UNCHANGED <<show_x, cells>>
     ELSE show_x' = show_x + 1 /\ Redraw(instr, show_x') /\ UNCHANGED input_x
  /\ UNCHANGED <<instr, len>>

\* mutant: the characters behind the cursor are moved from the front, over each other
InputInsertMutant ==
  /\ len < MaxLen
  /\ \E c \in Chars :
       instr' = [i \in 0..MaxLen |->
                   IF i = len + 1 THEN Nul
                   ELSE IF i = pos THEN c
                   ELSE IF i > pos /\ i <= len THEN instr[pos] ELSE instr[i]]
  /\ pos' = pos + 1 /\ len' = len + 1
  /\ show_x' = (IF input_x = iWidth - 1 THEN show_x + 1 ELSE show_x)
  /\ input_x' = (IF input_x = iWidth - 1 THEN input_x ELSE input_x + 1)
  /\ Redraw(instr', show_x')

\* A full buffer takes no character.
InputInsert ==
  /\ len < MaxLen
  /\ \E c \in Chars :
       instr' = [i \in 0..MaxLen |->
                   IF i = len + 1 THEN Nul
                   ELSE IF i = pos THEN c
                   ELSE IF i > pos /\ i <= len THEN instr[i - 1] ELSE instr[i]]
  /\ pos' = pos + 1 /\ len' = len + 1
  /\ show_x' = (IF input_x = iWidth - 1 THEN show_x + 1 ELSE show_x)
  /\ input_x' = (IF input_x = iWidth - 1 THEN input_x ELSE input_x + 1)
  /\ Redraw(instr', show_x')

EditInput == BoxKey /\ (InputBackspace \/ InputLeft \/ InputRight \/ InputInsert)

-----------------------------------------------------------------------------
(* The keys of the buttons, and the ends of the call.                      *)

\* Tab and Down go on; Up goes back; Left and Right do on a button only.
ButtonKey ==
  /\ ipc = "open"
  /\ iButton' \in {-1, 0, 1} \ {iButton}
  /\ UNCHANGED <<ipc, instr, len, pos, show_x, input_x, iWidth, cells>>

\* Ok and Enter in the box return the text, Help returns 1, Esc leaves.
CloseInput ==
  /\ ipc = "open" /\ ipc' = "closed"
  /\ UNCHANGED <<instr, len, pos, show_x, input_x, iWidth, cells, iButton>>

InputNext == OpenInput \/ OverrunInput \/ ResizeInput \/ EditInput \/ ButtonKey \/ CloseInput

InputSpec == InputInit /\ [][InputNext]_inputvars

-----------------------------------------------------------------------------
(* Properties                                                              *)

Part(from, n) == [i \in 1..n |-> instr[from + i - 1]]

Editor == INSTANCE LxLine WITH editing <- ipc = "open", before <- Part(0, pos), after <- Part(pos, len - pos)

\* The box is a line editor, as long as it is opened with texts that fit: each key does
\* to the text around the cursor what it says, although the characters are moved in the
\* buffer one by one, the box scrolls, and an earlier text is left behind the end.
InputIsLine == Editor!LineSpec

\* No key takes the text over the end of the buffer.  The cursor stays in the box
\* and on the character that the next key works on, and the box shows the text
\* from show_x on and nothing behind its end, with one cell of it cleared by a key
\* that shortens the text.
InputShowsText ==
  ipc = "open" =>
    /\ len <= MaxLen
    /\ pos = show_x + input_x /\ pos \in 0..len
    /\ input_x \in 0..iWidth - 1 /\ show_x >= 0
    /\ instr[len] = Nul /\ \A i \in 0..len - 1 : instr[i] # Nul
    /\ cells = [x \in 0..iWidth - 1 |->
                  IF show_x + x < len THEN instr[show_x + x] ELSE Nul]

\* What is edited is a line, and the line is what is seen, until the box is opened
\* with a text that is longer than the buffer (inputbox.c:56).
InputIsShown == InputIsLine /\ []InputShowsText

=============================================================================
