------------------------------- MODULE Shell -------------------------------
(***************************************************************************)
(* sh.cpp: a command is typed (LineInput says how it is read), kept in the *)
(* history and carried out.  Left out: the system calls it is carried out  *)
(* with, which are in the modules of the kernel, the screen, the waits,    *)
(* and the heap, which freeAll empties after most commands.                *)
(*                                                                         *)
(* history_buf is rows of Width bytes, one behind the other, and a row has *)
(* no byte for the zero that is written behind it: that goes to the first  *)
(* byte of the next row, and behind the last row to history_index, which   *)
(* the linker places there.  A line of Width characters or more loses its  *)
(* zero to the line that is recorded next.                                 *)
(***************************************************************************)
EXTENDS Integers, Sequences, SequencesExt

CONSTANTS
  Rows,         \* rows of history_buf (30)
  Width,        \* bytes of a row (30)
  Command,      \* bound: the lines that are typed, without the enter
  MaxRecorded   \* bound: lines that are recorded

VARIABLES
  history_buf, history_index, history_count,
  exited,
  recorded     \* history: the lines typed that were not empty

shellVars == <<history_buf, history_index, history_count, exited, recorded>>

Zero == "zero"
NewLine == "\n"
Space == " "

\* Buffers have some room, and what is typed is neither of the bytes a line ends with.
ShellConstants ==
  /\ {Rows, Width} \subseteq Nat \ {0}
  /\ \A line \in Command :
       /\ line \in Seq(STRING)
       /\ \A i \in DOMAIN line : line[i] \notin {Zero, NewLine}

RowStart(row) == row * Width
RowBytes(row) == RowStart(row) .. RowStart(row) + Width - 1

Init ==
  /\ history_buf = [byte \in 0 .. RowStart(Rows) - 1 |-> Zero]
  /\ history_index = 0
  /\ history_count = 0
  /\ exited = FALSE
  /\ recorded = <<>>

-----------------------------------------------------------------------------
(* What is shown *)

\* Mutant: the list starts at the index, and not as many rows before it.
ShownRow_FromIndex(i) == (history_index + i) % Rows

\* The row the i-th line of the list shows.
ShownRow(i) == (history_index + i - history_count + Rows) % Rows

\* A line is shown up to a zero, in whatever row that is; the newline in front of
\* one is not seen.  What lies behind the last row is not followed.
ShownEnd(p) ==
  Min({ e \in p .. RowStart(Rows) :
          e = RowStart(Rows) \/ history_buf[e] \in {Zero, NewLine} })

ShownFrom(p) == [k \in 1 .. ShownEnd(p) - p |-> history_buf[p + k - 1]]

History == [i \in 1 .. history_count |-> ShownFrom(RowStart(ShownRow(i - 1)))]

-----------------------------------------------------------------------------
(* What is recorded *)

\* The bytes of the line, with the enter behind them, in a buffer of zeroes.
Byte(line, k) ==
  IF k < Len(line) THEN line[k + 1] ELSE IF k = Len(line) THEN NewLine ELSE Zero

\* The row, and the zero behind it.
Copied(line) ==
  [byte \in DOMAIN history_buf |->
     IF byte \in RowBytes(history_index)
     THEN Byte(line, byte - RowStart(history_index))
     ELSE IF byte = RowStart(history_index + 1) THEN Zero ELSE history_buf[byte]]

\* Behind the last row the zero makes the index zero, before it is used again: for
\* the newline at the end of the row, and for the row that is next.
record(line) ==
  LET index == IF history_index = Rows - 1 THEN 0 ELSE history_index
      last == RowStart(index) + Width - 1
      copied == Copied(line)
  IN /\ history_buf' = [copied EXCEPT ![last] = IF @ = NewLine THEN Zero ELSE @]
     /\ history_index' = (index + 1) % Rows
     /\ history_count' = IF history_count < Rows THEN history_count + 1 ELSE history_count
     /\ recorded' = Append(recorded, line)

\* The first word of the line is q.
Exits(line) ==
  \E i \in DOMAIN line :
    /\ line[i] = "q"
    /\ \A j \in 1 .. i - 1 : line[j] = Space
    /\ i = Len(line) \/ line[i + 1] = Space

run(line) ==
  /\ ~exited
  /\ Len(recorded) < MaxRecorded
  /\ IF line # <<>> THEN record(line)
     ELSE UNCHANGED <<history_buf, history_index, history_count, recorded>>
  /\ exited' = Exits(line)

Next == \E line \in Command : run(line)

Spec == Init /\ [][Next]_shellVars

-----------------------------------------------------------------------------
(* Properties *)

\* As long as fewer lines were recorded than there are rows, the history lists
\* them as they were typed, oldest first.  A line that fills its row is shown by
\* its first characters, and the line below it once more behind them.
HistoryInOrder ==
  Len(recorded) < Rows =>
    /\ history_count = Len(recorded)
    /\ \A k \in 1 .. Len(recorded) :
         History[k] =
           IF Len(recorded[k]) < Width THEN recorded[k]
           ELSE SubSeq(recorded[k], 1, Width)
                  \o (IF k = Len(recorded) THEN <<>> ELSE History[k + 1])
=============================================================================
