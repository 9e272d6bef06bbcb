------------------------------ MODULE Programs ------------------------------
(***************************************************************************)
(* One user program at a time: the adventure, the compiler and assembler,  *)
(* the editor, the reading of a line, the shell, and one that waits (wait  *)
(* of libc) for the timer.  Each starts in memory of its own that sysExec  *)
(* has zeroed, so the variables of the ones that do not run stay as they   *)
(* start.                                                                  *)
(***************************************************************************)
EXTENDS Adventure, Timer, ConsolePrograms, ToolPrograms

VARIABLE program

programVars == <<program, advVars, toolVars, edlinVars, inputVars, shellVars, timerVars>>

ProgramsInit ==
  /\ program \in {"adventure", "cc and al", "edlin", "reading a line", "sh", "waiting"}
  /\ Init /\ TimerInit /\ TC!Init /\ ED!Init /\ LI!Init /\ SH!Init
  /\ program # "cc and al" => definedFunctions = {"main"}
  /\ program # "edlin" => initialFileName = ED!NoFile
  /\ program # "reading a line" => reader = "readCommand"

\* A step of the timer or of the wait while that program runs.
WaitingStep(A) ==
  /\ program = "waiting" /\ A
  /\ UNCHANGED <<program, advVars, toolVars, edlinVars, inputVars, shellVars>>

ProgramsNext ==
  \/ WaitingStep(TimerNext)
  \/ /\ program' = program
     /\ UNCHANGED timerVars
     /\ \/ /\ program = "adventure" /\ Next
           /\ UNCHANGED <<toolVars, edlinVars, inputVars, shellVars>>
        \/ /\ program = "cc and al" /\ TC!Next
           /\ UNCHANGED <<advVars, edlinVars, inputVars, shellVars>>
        \/ /\ program = "edlin" /\ ED!Next
           /\ UNCHANGED <<advVars, toolVars, inputVars, shellVars>>
        \/ /\ program = "reading a line" /\ LI!Next
           /\ UNCHANGED <<advVars, toolVars, edlinVars, shellVars>>
        \/ /\ program = "sh" /\ SH!Next
           /\ UNCHANGED <<advVars, toolVars, edlinVars, inputVars>>

ProgramsSpec == ProgramsInit /\ [][ProgramsNext]_programVars

\* The system timer goes on, and a wait polls far more often than it ticks, so
\* that it cannot miss the counter being past its end again and again.
ProgramsFairSpec ==
  /\ ProgramsSpec
  /\ WF_programVars(WaitingStep(TimerInterrupt))
  /\ SF_programVars(WaitingStep(WaitEnds))

\* The programs' variables have their types: the wait's counters are within a word,
\* the game's player is in a room, the assembler's sections and labels are within its
\* tables, the editor's text is within its lines, the line read is within its buffer,
\* and the shell's index is a row of its history.  The listing may start at no line.
\* Nothing is said of the compiler's arrays, which it does not test: its behaviours
\* end where one of them would overflow.
ProgramsTypeOK ==
  /\ TypeOK /\ TimerTypeOK /\ TC!TypeOK /\ ED!TypeOK
  /\ position \in 0 .. IF reader = "readCommand" THEN MaxPosition + 1 ELSE MAX_LINE_LENGTH
  /\ history_index \in 0 .. Rows - 1 /\ history_count \in 0 .. Rows
=============================================================================
