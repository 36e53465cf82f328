-------------------------------- MODULE Shell --------------------------------
(***************************************************************************)
(* The line editor of the shell: the loop of finsh_thread_entry in         *)
(* components/finsh/shell.c, one step per character that finsh_getchar     *)
(* returns (how it waits for one is in module SerialRx).  The echo on the  *)
(* console, what a command does, and the completion of options, which      *)
(* needs a space in the line, are left out.                                *)
(*                                                                         *)
(* The arrow keys send ESC, "[" and a letter, "A" up, "B" down, "C" right, *)
(* "D" left.                                                               *)
(***************************************************************************)
EXTENDS Naturals, SequencesExt, FiniteSetsExt

CONSTANTS
  Char,       \* the characters that are typed into commands
  Nul,        \* the character '\0'
  Names,      \* the names of the commands, sequences of characters
  CmdSize,    \* FINSH_CMD_SIZE
  HistLines,  \* FINSH_HISTORY_LINES
  LineMax     \* bound: the longest line typed; CmdSize + 1 for any length

ShellAssumption ==
  /\ Char \subseteq {"A", "B", "C", "D", "x"} /\ Nul \notin Char
  /\ CmdSize \in Nat \ {0, 1} /\ HistLines \in Nat \ {0}
  /\ LineMax \in 1 .. CmdSize + 1
  /\ Names \subseteq UNION {[1 .. n -> Char] : n \in 1 .. CmdSize - 1}

VARIABLE sh \* struct finsh_shell

Line == [0 .. CmdSize -> Char \cup {Nul}]

TypeOK ==
  /\ sh.stat \in {"WAIT_NORMAL", "WAIT_SPEC_KEY", "WAIT_FUNC_KEY"}
  /\ sh.line \in Line
  /\ {sh.position, sh.curpos} \subseteq 0 .. CmdSize
  /\ sh.history \in [0 .. HistLines - 1 -> Line]
  /\ {sh.count, sh.current} \subseteq 0 .. HistLines

Clear == [i \in 0 .. CmdSize |-> Nul]

Init ==
  sh = [stat |-> "WAIT_NORMAL", line |-> Clear, position |-> 0, curpos |-> 0,
        history |-> [i \in 0 .. HistLines - 1 |-> Clear], count |-> 0, current |-> 0]

(* strlen; line[CmdSize] is never written.                                  *)
Length(line) == Min({i \in 0 .. CmdSize : line[i] = Nul})

(* The line is replaced and the cursor goes to its end.                     *)
Shows(line) == [sh EXCEPT !.line = line, !.position = Length(line), !.curpos = Length(line)]

-----------------------------------------------------------------------------
(* Arrow keys.                                                              *)
Recall(i) == [Shows(sh.history[i]) EXCEPT !.current = i]

Up == IF sh.current > 0 THEN Recall(sh.current - 1) ELSE sh

Down ==
  IF sh.count = 0 THEN sh
  ELSE Recall(IF sh.current + 1 < sh.count THEN sh.current + 1 ELSE sh.count - 1)

CursorLeft  == IF sh.curpos > 0 THEN [sh EXCEPT !.curpos = @ - 1] ELSE sh
CursorRight == IF sh.curpos < sh.position THEN [sh EXCEPT !.curpos = @ + 1] ELSE sh

Arrow == [A |-> Up, B |-> Down, C |-> CursorRight, D |-> CursorLeft]

-----------------------------------------------------------------------------
(* shell_auto_complete: what all names that start with the text have in     *)
(* common, if there are any.                                                *)
Common(line) ==
  LET text    == [i \in 1 .. Length(line) |-> line[i - 1]]
      matches == {n \in Names : IsPrefix(text, n)}
  IN  IF text = <<>> \/ matches = {} THEN text ELSE LongestCommonPrefix(matches)

Tab ==
  LET text == Common(sh.line)
  IN  Shows([i \in 0 .. CmdSize |-> IF i < Len(text) THEN text[i + 1] ELSE sh.line[i]])

(* The character before the cursor; positions are not below the cursor, for *)
(* as long as LineOK holds.                                                 *)
(* Mutant: the last character stays where it was.                           *)
Backspace_KeepsLast ==
  IF sh.curpos = 0 THEN sh
  ELSE [sh EXCEPT !.position = @ - 1, !.curpos = @ - 1,
                  !.line = [i \in 0 .. CmdSize |->
                              IF i >= sh.curpos - 1 /\ i < sh.position - 1
                              THEN sh.line[i + 1] ELSE sh.line[i]]]

Backspace ==
  IF sh.curpos = 0 THEN sh
  ELSE [sh EXCEPT !.position = @ - 1, !.curpos = @ - 1,
                  !.line = [i \in 0 .. CmdSize |->
                              CASE i = sh.position - 1                           -> Nul
                                [] i >= sh.curpos - 1 /\ i < sh.position - 1     -> sh.line[i + 1]
                                [] OTHER                                         -> sh.line[i]]]

(* shell_push_history; the last place of a row is never used.               *)
Row == [i \in 0 .. CmdSize |-> IF i < sh.position THEN sh.line[i] ELSE Nul]

(* Mutant: a full history is not moved.                                     *)
Pushed_NotMoved ==
  IF sh.count = HistLines
  THEN [sh EXCEPT !.history[HistLines - 1] = Row]
  ELSE [sh EXCEPT !.history[sh.count] = Row, !.count = @ + 1]

Pushed ==
  IF sh.count = HistLines
  THEN [sh EXCEPT !.history = [i \in 0 .. HistLines - 1 |->
                                 IF i = HistLines - 1 THEN Row ELSE @[i + 1]]]
  ELSE [sh EXCEPT !.history[sh.count] = Row, !.count = @ + 1]

Same == sh.count > 0 /\ sh.history[sh.count - 1] = sh.line

PushHistory ==
  LET kept == IF sh.position = 0 \/ Same THEN sh ELSE Pushed
  IN  [kept EXCEPT !.current = kept.count]

(* The command is executed, and the line is empty.                          *)
Enter == [PushHistory EXCEPT !.line = Clear, !.position = 0, !.curpos = 0]

(* A character is put before the cursor; a line that is full starts again.  *)
Insert(c) ==
  LET position == IF sh.position >= CmdSize THEN 0 ELSE sh.position
      at       == IF sh.curpos < position THEN sh.curpos ELSE position
      line     == [i \in 0 .. CmdSize |->
                     CASE i = at                    -> c
                       [] i > at /\ i <= position   -> sh.line[i - 1]
                       [] OTHER                     -> sh.line[i]]
      full     == position + 1 >= CmdSize
  IN  [sh EXCEPT !.line = line, !.position = IF full THEN 0 ELSE position + 1,
                                !.curpos = IF full THEN 0 ELSE @ + 1]

-----------------------------------------------------------------------------
Normal(key) ==
  CASE key = "NUL"       -> sh
    [] key = "TAB"       -> Tab
    [] key = "BACKSPACE" -> Backspace
    [] key = "ENTER"     -> Enter
    [] OTHER             -> Insert(key)

Controls == {"NUL", "TAB", "BACKSPACE", "ENTER"}
Letters == {"[", "A", "B", "C", "D"}

InSequence(key) ==
  \/ sh.stat = "WAIT_SPEC_KEY" /\ key \in Letters
  \/ sh.stat = "WAIT_FUNC_KEY" /\ key \in DOMAIN Arrow

(* One round of the loop; ESC and what follows it are taken first.          *)
Key(key) ==
  CASE key = "ESC"                                 -> [sh EXCEPT !.stat = "WAIT_SPEC_KEY"]
    [] InSequence(key) /\ sh.stat = "WAIT_SPEC_KEY" -> [sh EXCEPT !.stat = "WAIT_FUNC_KEY"]
    [] InSequence(key) /\ sh.stat = "WAIT_FUNC_KEY" -> [Arrow[key] EXCEPT !.stat = "WAIT_NORMAL"]
    [] OTHER                                       -> [Normal(key) EXCEPT !.stat = "WAIT_NORMAL"]

(* The bound: only Char, and only into lines shorter than LineMax.          *)
Typed(key) ==
  key \in Controls \cup {"ESC"} \/ InSequence(key) \/ (key \in Char /\ sh.position < LineMax)

Next ==
  \E key \in {"ESC"} \cup Controls \cup Letters \cup Char : Typed(key) /\ sh' = Key(key)

Spec == Init /\ [][Next]_sh

-----------------------------------------------------------------------------
(* The cursor is in the line or at its end, and nothing of an older line is *)
(* left behind the end (shell.c:816: "clear command line").                 *)
LineOK ==
  /\ sh.curpos <= sh.position
  /\ \A i \in 0 .. CmdSize : i >= sh.position => sh.line[i] = Nul

(* The editor implements LineEditor, for lines shorter than CmdSize.        *)
TextOf(line) == [i \in 1 .. Length(line) |-> line[i - 1]]

Abstract == INSTANCE LineEditor WITH
  Known   <- {LongestCommonPrefix(names) : names \in SUBSET Names \ {{}}},
  HistMax <- HistLines,
  before  <- SubSeq(TextOf(sh.line), 1, sh.curpos),
  after   <- SubSeq(TextOf(sh.line), sh.curpos + 1, Length(sh.line)),
  past    <- [i \in 1 .. sh.count |-> TextOf(sh.history[i - 1])],
  at      <- sh.current
=============================================================================
