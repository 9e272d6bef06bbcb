-------------------------- MODULE ConsolePrograms --------------------------
(***************************************************************************)
(* What a user types at: the reading of a line, the shell and the line     *)
(* editor, each with variables of its own.  Programs runs them.            *)
(***************************************************************************)
EXTENDS Integers, Sequences

CONSTANTS
  KEYBOARD_BUFFER_SIZE, MAX_LINE_LENGTH, Letter, MaxPosition,  \* see LineInput
  Rows, Width, Command, MaxRecorded,                           \* see Shell
  MAX_LINES, MAX_DISPLAY_LINES, PAGE_SIZE, Word, TypedLine,    \* see Edlin
  TypedNumber, FileName, InitialFile, DirectoryEntries, EditedEntries

VARIABLES
  reader, memory, position, shift_down, finished, typed, misled,
  history_buf, history_index, history_count, exited, recorded,
  textBuffer, totalLines, currentLineIndex, displayStartLineNumber,
  insertPosition, initialFileName, saving, written, directory, running

edlinVars == <<textBuffer, totalLines, currentLineIndex, displayStartLineNumber,
  insertPosition, initialFileName, saving, written, directory, running>>
inputVars == <<reader, memory, position, shift_down, finished, typed, misled>>
shellVars == <<history_buf, history_index, history_count, exited, recorded>>

LI == INSTANCE LineInput
SH == INSTANCE Shell
ED == INSTANCE Edlin

ASSUME ConsoleAssumption ==
  LI!InputConstants /\ SH!ShellConstants /\ ED!EdlinConstants

\* edlin: a command changes the text at the current line and nowhere else (Edlin).
EditsOneLine == ED!EditsOneLine

\* edlin: a file saved under a new name is loaded again as it was (Edlin).
SavedTextIsLoaded == ED!SavedTextIsLoaded

\* keyboard.cpp and readInputLine: the line handed on is the one that was typed,
\* backspaces taken into account (LineInput).
LineIsTyped == LI!LineIsTyped

\* sh: the history lists the lines in the order they were typed, and how much of
\* each it shows (Shell).
HistoryInOrder == SH!HistoryInOrder
=============================================================================
