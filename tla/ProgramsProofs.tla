--------------------------- MODULE ProgramsProofs ---------------------------
(***************************************************************************)
(* Proofs about Programs: whichever program runs, what is proved of it     *)
(* alone holds of it there, and the variables of all of them have their    *)
(* types.                                                                  *)
(***************************************************************************)
EXTENDS Programs, UserProgramsProofs, ToolchainProofs

-----------------------------------------------------------------------------
(* Bounds of the reading of a line and of the shell *)

\* readCommand steps back by one less than it steps forward twice, and never
\* before the start; readInputLine stops at the end of the line buffer.
InLine == position \in 0 .. IF reader = "readCommand" THEN MaxPosition + 1 ELSE MAX_LINE_LENGTH

LEMMA StaysInLine == LI!Spec => []InLine
<1>1. MaxPosition \in Nat /\ MAX_LINE_LENGTH \in Nat
  BY ConsoleAssumption DEF LI!InputConstants
<1>2. LI!Init => InLine
  BY <1>1 DEF LI!Init, InLine
<1>3. InLine /\ [LI!Next]_(LI!inputVars) => InLine'
  <2>1. ASSUME InLine, UNCHANGED LI!inputVars
        PROVE  InLine'
    BY <2>1 DEF InLine, LI!inputVars
  <2>2. ASSUME InLine, NEW down \in BOOLEAN, LI!pressShift(down)
        PROVE  InLine'
    BY <2>2 DEF InLine, LI!pressShift
  <2>3. ASSUME InLine, NEW key, LI!readCommand(key)
        PROVE  InLine'
    <3>1. /\ reader = "readCommand" /\ reader' = reader /\ position <= MaxPosition
          /\ position' = IF key = LI!BackspaceKey /\ position # 0
                         THEN position - 2 + 1 ELSE position + 1
      BY <2>3 DEF LI!readCommand, LI!AfterBackspace
    <3>2. position \in Nat
      BY <1>1, <2>3, <3>1 DEF InLine
    <3> QED
      BY <1>1, <3>1, <3>2 DEF InLine
  <2>4. ASSUME InLine, NEW key, LI!readInputLine(key)
        PROVE  InLine'
    <3>1. /\ reader # "readCommand" /\ reader' = reader
          /\ \/ position < MAX_LINE_LENGTH /\ position' = position + 1
             \/ position > 0 /\ position' = position - 1
             \/ position' = position
      BY <2>4 DEF LI!readInputLine, LI!Stores
    <3>2. position \in 0 .. MAX_LINE_LENGTH
      BY <2>4, <3>1 DEF InLine
    <3>3. position' \in 0 .. MAX_LINE_LENGTH
      BY <1>1, <3>1, <3>2
    <3> QED
      BY <3>1, <3>3 DEF InLine
  <2> QED
    BY <2>1, <2>2, <2>3, <2>4 DEF LI!Next
<1> QED
  BY <1>2, <1>3, PTL DEF LI!Spec

\* The index goes round the rows of history_buf.
InRows == history_index \in 0 .. Rows - 1 /\ history_count \in 0 .. Rows

LEMMA StaysInRows == SH!Spec => []InRows
<1>1. Rows \in Nat \ {0}
  BY ShellConstantsAre
<1>2. SH!Init => InRows
  BY <1>1 DEF SH!Init, InRows
<1>3. ASSUME InRows, NEW c, SH!run(c)
      PROVE  InRows'
  <2>1. CASE UNCHANGED <<history_index, history_count>>
    BY <1>3, <2>1 DEF InRows
  <2>2. CASE SH!record(c)
    <3>1. PICK index : /\ index = IF history_index = Rows - 1 THEN 0 ELSE history_index
                       /\ history_index' = (index + 1) % Rows
      BY <2>2 DEF SH!record
    <3>2. index \in 0 .. Rows - 1
      BY <1>1, <1>3, <3>1 DEF InRows
    <3>3. (index + 1) % Rows \in 0 .. Rows - 1
      BY <1>1, <3>2
    <3>4. history_count' = IF history_count < Rows THEN history_count + 1 ELSE history_count
      BY <2>2 DEF SH!record
    <3>5. history_count' \in 0 .. Rows
      BY <1>1, <1>3, <3>4 DEF InRows
    <3> QED
      BY <3>1, <3>3, <3>5 DEF InRows
  <2> QED
    BY <1>3, <2>1, <2>2 DEF SH!run
<1>4. InRows /\ [SH!Next]_(SH!shellVars) => InRows'
  <2>1. ASSUME InRows, UNCHANGED SH!shellVars
        PROVE  InRows'
    BY <2>1 DEF InRows, SH!shellVars
  <2> QED
    BY <1>3, <2>1 DEF SH!Next
<1> QED
  BY <1>2, <1>4, PTL DEF SH!Spec

-----------------------------------------------------------------------------
(* One program at a time *)

\* A program's variables change by its own steps only.
LEMMA StepsAreOfPrograms ==
  ASSUME [ProgramsNext]_programVars
  PROVE  /\ [Next]_advVars /\ [TimerNext]_timerVars
         /\ [TC!Next]_(TC!toolVars) /\ [ED!Next]_(ED!edlinVars)
         /\ [LI!Next]_(LI!inputVars) /\ [SH!Next]_(SH!shellVars)
<1>1. /\ (UNCHANGED toolVars => UNCHANGED TC!toolVars)
      /\ (UNCHANGED edlinVars => UNCHANGED ED!edlinVars)
      /\ (UNCHANGED inputVars => UNCHANGED LI!inputVars)
      /\ (UNCHANGED shellVars => UNCHANGED SH!shellVars)
  BY DEF toolVars, TC!toolVars, TC!ccVars, TC!alVars, edlinVars, ED!edlinVars,
         inputVars, LI!inputVars, shellVars, SH!shellVars
<1>2. CASE UNCHANGED programVars
  BY <1>1, <1>2 DEF programVars
<1>3. CASE WaitingStep(TimerNext)
  BY <1>1, <1>3 DEF WaitingStep
<1>4. CASE Next /\ UNCHANGED <<timerVars, toolVars, edlinVars, inputVars, shellVars>>
  BY <1>1, <1>4
<1>5. CASE TC!Next /\ UNCHANGED <<timerVars, advVars, edlinVars, inputVars, shellVars>>
  BY <1>1, <1>5
<1>6. CASE ED!Next /\ UNCHANGED <<timerVars, advVars, toolVars, inputVars, shellVars>>
  BY <1>1, <1>6
<1>7. CASE LI!Next /\ UNCHANGED <<timerVars, advVars, toolVars, edlinVars, shellVars>>
  BY <1>1, <1>7
<1>8. CASE SH!Next /\ UNCHANGED <<timerVars, advVars, toolVars, edlinVars, inputVars>>
  BY <1>1, <1>8
<1> QED
  BY <1>2, <1>3, <1>4, <1>5, <1>6, <1>7, <1>8 DEF ProgramsNext

\* The user programs side by side, each in memory of its own, are each the program
\* it is alone.
THEOREM EachProgramRuns ==
  ProgramsSpec => Spec /\ TimerSpec /\ TC!Spec /\ ED!Spec /\ LI!Spec /\ SH!Spec
<1>1. ProgramsInit => Init /\ TimerInit /\ TC!Init /\ ED!Init /\ LI!Init /\ SH!Init
  BY DEF ProgramsInit
<1>2. [ProgramsNext]_programVars =>
        /\ [Next]_advVars /\ [TimerNext]_timerVars
        /\ [TC!Next]_(TC!toolVars) /\ [ED!Next]_(ED!edlinVars)
        /\ [LI!Next]_(LI!inputVars) /\ [SH!Next]_(SH!shellVars)
  BY StepsAreOfPrograms
<1> QED
  BY <1>1, <1>2, PTL DEF ProgramsSpec, Spec, TimerSpec, TC!Spec, ED!Spec, LI!Spec, SH!Spec

\* Whatever is typed, edited or waited for, and whatever is compiled that fits the
\* compiler's arrays, the variables of each program have their types while all run:
\* the lines of the editor, the labels and sections of the assembler, the place in
\* the keyboard's buffer and the row of the history are within their arrays.
THEOREM ProgramsTyped == ProgramsSpec => []ProgramsTypeOK
<1>1. TypeOK /\ TimerTypeOK /\ TC!TypeOK /\ ED!TypeOK /\ InLine /\ InRows => ProgramsTypeOK
  BY DEF ProgramsTypeOK, InLine, InRows
<1> QED
  BY <1>1, EachProgramRuns, GameIsNeverWon, TypeCorrect, ToolchainTyped,
     EditorKeepsItsTypes, StaysInLine, StaysInRows, PTL

\* What is promised of each program is kept while Programs runs it: the eggs are
\* out of reach, the line read is the one typed, the history is in order, labels
\* are where they are said to be, waits are full, an edit changes one line and a
\* saved text is loaded again.
THEOREM ProgramsKeepTheirPromises ==
  ProgramsSpec =>
    /\ [](EggsOutOfReach /\ LineIsTyped /\ HistoryInOrder /\ LabelsArePositions)
    /\ WaitsFullTime /\ EditsOneLine /\ SavedTextIsLoaded
BY EachProgramRuns, GameIsNeverWon, ReadsWhatIsTyped, HistoryIsInOrder,
   LabelsAreTruePositions, WaitsAreFull, EditsStayInPlace, SavedIsLoaded, PTL
=============================================================================
