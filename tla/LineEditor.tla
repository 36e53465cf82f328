----------------------------- MODULE LineEditor -----------------------------
(***************************************************************************)
(* What the shell's line editor promises: a text with a cursor in it, and  *)
(* the commands entered last, to be looked up again.                       *)
(***************************************************************************)
EXTENDS Naturals, Sequences

CONSTANTS
  Char,    \* the characters of a command
  Known,   \* what a prefix is completed to
  HistMax  \* the number of commands kept

VARIABLES
  before, after,  \* the text before the cursor and from it on
  past,           \* the commands kept, the oldest first
  at              \* how many of them are before the one looked up

vars == <<before, after, past, at>>

Text == before \o after

Init == before = <<>> /\ after = <<>> /\ past = <<>> /\ at = 0

Type(c) == before' = Append(before, c) /\ UNCHANGED <<after, past, at>>

Erase ==
  /\ before # <<>>
  /\ before' = SubSeq(before, 1, Len(before) - 1)
  /\ UNCHANGED <<after, past, at>>

Left ==
  /\ before # <<>>
  /\ before' = SubSeq(before, 1, Len(before) - 1)
  /\ after' = <<before[Len(before)]>> \o after
  /\ UNCHANGED <<past, at>>

Right ==
  /\ after # <<>>
  /\ before' = Append(before, Head(after)) /\ after' = Tail(after)
  /\ UNCHANGED <<past, at>>

LookUp(i) ==
  /\ past # <<>>
  /\ before' = past[i + 1] /\ after' = <<>> /\ at' = i /\ UNCHANGED past

Older == at > 0 /\ LookUp(at - 1)
Newer == LookUp(IF at + 1 < Len(past) THEN at + 1 ELSE Len(past) - 1)

(* The cursor goes to the end of the text, which may have been completed.   *)
Complete ==
  /\ before' \in {Text} \cup Known /\ after' = <<>>
  /\ SubSeq(before', 1, Len(Text)) = Text
  /\ UNCHANGED <<past, at>>

(* The text is a command: it is kept unless it is that entered before it.   *)
Kept(command) ==
  IF past # <<>> /\ past[Len(past)] = command
  THEN past
  ELSE Append(IF Len(past) = HistMax THEN Tail(past) ELSE past, command)

Enter ==
  /\ before' = <<>> /\ after' = <<>>
  /\ past' = IF Text = <<>> THEN past ELSE Kept(Text)
  /\ at' = Len(past')

Next ==
  \/ \E c \in Char : Type(c)
  \/ Erase \/ Left \/ Right \/ Older \/ Newer \/ Complete \/ Enter

Spec == Init /\ [][Next]_vars
=============================================================================
