----------------------------- MODULE LineInput -----------------------------
(***************************************************************************)
(* The two ways a line is read from the keyboard: readCommand of           *)
(* keyboard.cpp, with which the shell reads a command, and readInputLine,  *)
(* which edlin.cpp and adventure.cpp each have.  They are compared with    *)
(* what a user means by typing: keys add a character, backspace takes the  *)
(* last one back.                                                          *)
(*                                                                         *)
(* readCommand stores the scan code of a key at ioMemory and its character *)
(* KEYBOARD_BUFFER_SIZE behind it, in one and the same stretch of memory.  *)
(* The paging keys of edlin (Edlin), echo and cursor are left out.         *)
(***************************************************************************)
EXTENDS Integers, Sequences, SequencesExt

CONSTANTS
  KEYBOARD_BUFFER_SIZE,  \* bytes between a scan code and its character (64)
  MAX_LINE_LENGTH,       \* characters readInputLine stores (65)
  Letter,                \* keys that have two characters, by shift
  MaxPosition            \* bound: keys of a line

VARIABLES
  reader,     \* "readCommand" or "readInputLine"
  memory,     \* from KEYBOARD_BUFFER on, or the line buffer
  position,   \* ioMemory or inputPosition
  shift_down,
  finished,
  typed,      \* history: what the user means
  misled      \* history: a key was typed that readCommand takes wrongly

inputVars == <<reader, memory, position, shift_down, finished, typed, misled>>

Zero == <<"zero">>
ScanCode(key) == <<"scan", key>>
Character(letter) == <<"character", letter, shift_down>>
EnterKey == "enter"
BackspaceKey == "backspace"
OtherKey == "other"     \* a key neither of them has a character for
NewLine == <<"newline">>

\* The keys are told apart, and the memory holds a line of readInputLine.
InputConstants ==
  /\ KEYBOARD_BUFFER_SIZE \in Nat \ {0} /\ MaxPosition \in Nat
  /\ Letter \cap {EnterKey, BackspaceKey, OtherKey} = {}
  /\ MAX_LINE_LENGTH \in 0 .. MaxPosition + KEYBOARD_BUFFER_SIZE

\* sh zeroes the buffer before it reads a command (sh.cpp:119).
Init ==
  /\ reader \in {"readCommand", "readInputLine"}
  /\ memory = [i \in -1 .. MaxPosition + KEYBOARD_BUFFER_SIZE |-> Zero]
  /\ position = 0
  /\ shift_down = FALSE
  /\ finished = FALSE
  /\ typed = <<>>
  /\ misled = FALSE

\* Make and break codes of the shift keys; other break codes are skipped.
pressShift(down) ==
  /\ ~finished
  /\ shift_down' = down
  /\ UNCHANGED <<reader, memory, position, finished, typed, misled>>

\* What a line editor makes of a key.
Means(key) ==
  IF key \in Letter THEN Append(typed, Character(key))
  ELSE IF key = BackspaceKey /\ typed # <<>> THEN Front(typed)
  ELSE typed

\* Mutant: the two bytes the pointer steps over are taken for one.
AfterBackspace_StepsOver(p) == p

\* readCommand steps back over the key before and the backspace itself, and
\* then forward with every key.
AfterBackspace(p) == p - 2 + 1

\* The scan code stored, the character, the bytes a backspace zeroes.
CommandBytes(key) ==
  LET scanned == [memory EXCEPT ![position] = ScanCode(key)]
      char == position + KEYBOARD_BUFFER_SIZE
  IN IF key \in Letter THEN [scanned EXCEPT ![char] = Character(key)]
     ELSE IF key = EnterKey THEN [scanned EXCEPT ![char] = NewLine]
     ELSE IF key = BackspaceKey /\ position # 0
          THEN [i \in DOMAIN scanned |-> IF i \in {position - 1, position - 2}
                                         THEN Zero ELSE scanned[i]]
     ELSE scanned

\* A key without a character, a backspace at the start ("Do nothing", and yet
\* the pointers move on) and a scan code stored where the command is.
Misleads(key) ==
  \/ key = OtherKey
  \/ key = BackspaceKey /\ position = 0
  \/ position >= KEYBOARD_BUFFER_SIZE

readCommand(key) ==
  /\ reader = "readCommand"
  /\ ~finished
  /\ position <= MaxPosition
  /\ memory' = CommandBytes(key)
  /\ position' = IF key = BackspaceKey /\ position # 0
                 THEN AfterBackspace(position) ELSE position + 1
  /\ finished' = (memory'[position' - 1] = ScanCode(EnterKey))
  /\ typed' = Means(key)
  /\ misled' = (misled \/ Misleads(key))
  /\ UNCHANGED <<reader, shift_down>>

\* The keys that have a character, while there is room in the line.
Stores(key) == key \in Letter /\ position < MAX_LINE_LENGTH

\* The zero that ends the line is the memory's own here.
readInputLine(key) ==
  /\ reader = "readInputLine"
  /\ ~finished
  /\ LET stores == Stores(key)
     IN /\ memory' = IF stores THEN [memory EXCEPT ![position] = Character(key)]
                     ELSE IF key = EnterKey THEN [memory EXCEPT ![position] = Zero]
                     ELSE memory
        /\ position' = IF stores THEN position + 1
                       ELSE IF key = BackspaceKey /\ position > 0 THEN position - 1
                       ELSE position
        /\ typed' = IF key \in Letter /\ ~stores THEN typed ELSE Means(key)
  /\ finished' = (key = EnterKey)
  /\ UNCHANGED <<reader, shift_down, misled>>

Next ==
  \/ \E down \in BOOLEAN : pressShift(down)
  \/ \E key \in Letter \cup {EnterKey, BackspaceKey, OtherKey} :
       readCommand(key) \/ readInputLine(key)

Spec == Init /\ [][Next]_inputVars

-----------------------------------------------------------------------------
(* Properties *)

\* Where a string ends: at a newline, a zero, or the end of the memory.
StringEnd(i) ==
  Min({ j \in i .. MaxPosition + KEYBOARD_BUFFER_SIZE + 1 :
          j \notin DOMAIN memory \/ memory[j] \in {Zero, NewLine} })

StringAt(i) == [k \in 1 .. StringEnd(i) - i |-> memory[i + k - 1]]

Line == StringAt(IF reader = "readCommand" THEN KEYBOARD_BUFFER_SIZE ELSE 0)

\* The line handed on is what was typed and not taken back, whatever stood in
\* the buffer behind it, as long as no more keys than the buffer has room for
\* and no key without a character were typed to readCommand.
LineIsTyped == finished /\ ~misled => Line = typed
=============================================================================
