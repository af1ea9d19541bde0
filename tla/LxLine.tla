------------------------------- MODULE LxLine -------------------------------
(***************************************************************************)
(* What an input box promises: a line of at most MaxLen characters, edited *)
(* at a cursor, between the text before it and the text after it.          *)
(***************************************************************************)
EXTENDS Sequences, Integers

CONSTANTS Chars, MaxLen

VARIABLES editing, before, after

Line == before \o after

LineInit == editing = FALSE /\ before = <<>> /\ after = <<>>

\* a text to start from, with the cursor behind it
Begin == ~editing /\ editing' = TRUE /\ after' = <<>> /\ Len(before') <= MaxLen

Insert ==
  /\ Len(Line) < MaxLen
  /\ \E c \in Chars : before' = Append(before, c)
  /\ after' = after

Backspace ==
  /\ before # <<>>
  /\ before' = SubSeq(before, 1, Len(before) - 1) /\ after' = after

\* the character behind the cursor; only nconf has a key for it,
Delete == after # <<>> /\ before' = before /\ after' = Tail(after)

\* and one for the start of the line
Home == before' = <<>> /\ after' = Line

Move == before' \o after' = Line /\ Len(before') - Len(before) \in {-1, 1}

\* the cursor goes behind the text, by a key or when the terminal is resized
End == before' = Line /\ after' = <<>>

Edit == editing /\ editing' = TRUE /\ (Insert \/ Backspace \/ Delete \/ Move \/ Home \/ End)

Return == editing /\ editing' = FALSE /\ UNCHANGED <<before, after>>

LineNext == Begin \/ Edit \/ Return

LineSpec == LineInit /\ [][LineNext]_<<editing, before, after>>

=============================================================================
