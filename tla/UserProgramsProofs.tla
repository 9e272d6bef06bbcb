------------------------- MODULE UserProgramsProofs -------------------------
(***************************************************************************)
(* Proofs about user programs.  A wait lasts as long as it says, for every *)
(* rate of the timer and every width of the counters.  The adventure cannot *)
(* be won, whatever the player touches and wherever things are dropped.    *)
(* The line a program reads is the one typed; the history of the shell is  *)
(* in order; a command of the line editor changes the text in one place.   *)
(***************************************************************************)
EXTENDS Timer, Adventure, ConsolePrograms, ScanProofs, SequenceTheorems

-----------------------------------------------------------------------------
(* Waits *)

\* What a wait relies on: the timer interrupts it has seen account for all the
\* way the counter has come since the wait began (more of them once it wraps).
Elapsed ==
  futureCount # NotWaiting /\ futureCount >= waitsFor
    => systemTimerInterruptCount + waitsFor =< waited + futureCount

TimerInv == TimerTypeOK /\ Elapsed

\* A counter goes up by one, or back to zero.
LEMMA IncrementedIsCount ==
  ASSUME NEW count \in Count
  PROVE  Incremented(count) = IF count + 1 = CounterModulus THEN 0 ELSE count + 1
BY TimerAssumption DEF Incremented, Count

\* A quotient of a counter is a value of a counter.
LEMMA QuotientIsCount ==
  ASSUME NEW count \in Count
  PROVE  count \div SYSTEM_INTERRUPTS_PER_SECOND \in Count
BY TimerAssumption DEF Count

-----------------------------------------------------------------------------
\* Counters start at zero and nobody waits.
LEMMA InitEstablishes == TimerInit => TimerInv
BY TimerAssumption DEF TimerInit, TimerInv, TimerTypeOK, Elapsed, Count, NotWaiting

\* The counter goes on by one with the history, or back to zero.
LEMMA TimerPreserves ==
  ASSUME TimerInv, TimerInterrupt
  PROVE  TimerInv'
<1>1. TimerTypeOK'
  <2>1. /\ Incremented(totalInterruptCount) \in Count
        /\ Incremented(systemTimerInterruptCount) \in Count
    BY IncrementedIsCount, TimerAssumption DEF TimerInv, TimerTypeOK, Count
  <2>2. Incremented(totalInterruptCount) \div SYSTEM_INTERRUPTS_PER_SECOND \in Count
    BY <2>1, QuotientIsCount
  <2>3. uptimeSeconds' \in Count
    BY <2>2, TimerAssumption DEF TimerInterrupt, TimerInv, TimerTypeOK, Count
  <2>4. waited' \in 0 .. CounterModulus
    BY TimerAssumption DEF TimerInterrupt, TimerInv, TimerTypeOK
  <2> QED
    BY <2>1, <2>3, <2>4 DEF TimerInterrupt, TimerInv, TimerTypeOK
<1>2. Elapsed'
  <2>1. systemTimerInterruptCount' = Incremented(systemTimerInterruptCount)
    BY DEF TimerInterrupt
  <2>2. systemTimerInterruptCount' = IF systemTimerInterruptCount + 1 = CounterModulus
                                     THEN 0 ELSE systemTimerInterruptCount + 1
    BY <2>1, IncrementedIsCount DEF TimerInv, TimerTypeOK
  <2> QED
    BY <2>2, TimerAssumption DEF TimerInterrupt, TimerInv, TimerTypeOK, Elapsed, Count, NotWaiting
<1> QED
  BY <1>1, <1>2 DEF TimerInv

\* Other interrupts leave the timer's counter and the waits alone.
LEMMA OtherPreserves ==
  ASSUME TimerInv, OtherInterrupt
  PROVE  TimerInv'
<1>1. Incremented(totalInterruptCount) \in Count
  BY IncrementedIsCount, TimerAssumption DEF TimerInv, TimerTypeOK, Count
<1> QED
  BY <1>1 DEF OtherInterrupt, TimerInv, TimerTypeOK, Elapsed

\* The end of a wait is its length past the counter, unless it wraps; then it
\* is less than the length.
LEMMA EndOfWait ==
  ASSUME NEW count \in Count, NEW interrupts \in Nat, interrupts < CounterModulus,
         NEW end, end = (count + interrupts) % CounterModulus
  PROVE  end \in Count /\ (end >= interrupts => end = count + interrupts)
<1>1. count + interrupts < CounterModulus => end = count + interrupts
  BY TimerAssumption DEF Count
<1>2. count + interrupts >= CounterModulus => end = count + interrupts - CounterModulus
  BY TimerAssumption DEF Count
<1> QED
  BY <1>1, <1>2, TimerAssumption DEF Count

\* A wait starts with the equality of Elapsed, unless its end wraps.
LEMMA WaitStartsPreserves ==
  ASSUME NEW interrupts \in {1, SYSTEM_INTERRUPTS_PER_SECOND},
         TimerInv, WaitStarts(interrupts)
  PROVE  TimerInv'
<1> DEFINE end == (systemTimerInterruptCount + interrupts) % CounterModulus
<1>1. /\ systemTimerInterruptCount \in Count
      /\ interrupts \in Nat /\ interrupts < CounterModulus
  BY TimerAssumption DEF TimerInv, TimerTypeOK
<1>2. end \in Count /\ (end >= interrupts => end = systemTimerInterruptCount + interrupts)
  BY <1>1, EndOfWait, Zenon
<1>3. futureCount' = end
  BY DEF WaitStarts
<1> HIDE DEF end
<1>4. TimerTypeOK'
  BY <1>2, <1>3, TimerAssumption DEF WaitStarts, TimerInv, TimerTypeOK
<1>5. Elapsed'
  BY <1>1, <1>2, <1>3 DEF WaitStarts, Elapsed, Count
<1> QED
  BY <1>4, <1>5 DEF TimerInv

\* Every step keeps the invariant.
LEMMA NextPreserves == TimerInv /\ [TimerNext]_timerVars => TimerInv'
<1> SUFFICES ASSUME TimerInv, [TimerNext]_timerVars PROVE TimerInv'
  OBVIOUS
<1>1. CASE TimerInterrupt
  BY <1>1, TimerPreserves
<1>2. CASE OtherInterrupt
  BY <1>2, OtherPreserves
<1>3. CASE sysWait
  BY <1>3, WaitStartsPreserves DEF sysWait
<1>4. CASE sysWaitOneInterrupt
  BY <1>4, WaitStartsPreserves DEF sysWaitOneInterrupt
<1>5. CASE WaitEnds
  BY <1>5 DEF WaitEnds, TimerInv, TimerTypeOK, Elapsed
<1>6. CASE UNCHANGED timerVars
  BY <1>6 DEF timerVars, TimerInv, TimerTypeOK, Elapsed
<1> QED
  BY <1>1, <1>2, <1>3, <1>4, <1>5, <1>6 DEF TimerNext

-----------------------------------------------------------------------------
\* Counters keep to their width (systemInterruptHandler, sysWait).
THEOREM TypeCorrect == TimerSpec => []TimerTypeOK
<1>1. TimerInv => TimerTypeOK
  BY DEF TimerInv
<1> QED
  BY <1>1, InitEstablishes, NextPreserves, PTL DEF TimerSpec

\* A wait whose end did not wrap ends only after more interrupts than it was
\* asked to wait for, also when the counter wraps meanwhile (sysWait).
THEOREM WaitsAreFull == TimerSpec => WaitsFullTime
<1> DEFINE Full == futureCount # NotWaiting /\ futureCount' = NotWaiting
                     /\ futureCount >= waitsFor => waited > waitsFor
<1>1. TimerInv /\ [TimerNext]_timerVars => [Full]_timerVars
  <2> SUFFICES ASSUME TimerInv, TimerNext PROVE Full
    OBVIOUS
  <2>1. CASE WaitEnds
    BY <2>1, TimerAssumption DEF WaitEnds, TimerInv, TimerTypeOK, Elapsed, Count, NotWaiting
  <2>2. CASE TimerInterrupt \/ OtherInterrupt
    BY <2>2 DEF TimerInterrupt, OtherInterrupt
  <2>3. CASE sysWait \/ sysWaitOneInterrupt
    BY <2>3 DEF sysWait, sysWaitOneInterrupt, WaitStarts
  <2> QED
    BY <2>1, <2>2, <2>3 DEF TimerNext
<1> QED
  BY <1>1, InitEstablishes, NextPreserves, PTL DEF TimerSpec, WaitsFullTime

-----------------------------------------------------------------------------
(* The adventure: the rooms with the golden eggs are cut off, so the eggs stay *)
(* where they are, so the treasures are never together. *)

Inv == TypeOK /\ EggsOutOfReach

\* No exit leads into the rooms that are cut off from outside them, and every
\* exit leads to a room.
LEMMA ExitsStayOutside ==
  ASSUME NEW c \in connections, c[1] \notin CutOff
  PROVE  c[3] \in Rooms \ CutOff
BY SMTT(60) DEF connections, CutOff, Rooms

\* As long as the eggs are not in the building the treasures are not together.
LEMMA NoWinWithoutEggs ==
  ASSUME NEW place, NEW things, things["eggs"] = 23
  PROVE  ~AllCollected(place, things)
BY DEF AllCollected, Treasures

\* No play of the game is won, and the state stays well-formed.
LEMMA InvHolds == Init => Inv
<1> SUFFICES ASSUME Init PROVE Inv
  OBVIOUS
<1>1. location \in [Objects -> Rooms \cup {Carried, Gone}]
  <2>1. ASSUME NEW o \in Objects PROVE StartLocation(o) \in -1 .. 29
    BY DEF StartLocation, Carried, Objects, Treasures
  <2>2. -1 .. 29 \subseteq Rooms \cup {Carried, Gone}
    BY DEF Rooms, Carried
  <2> QED
    BY <2>1, <2>2 DEF Init
<1>2. location["eggs"] = 23
  <2>1. "eggs" \in Objects
    BY DEF Objects, Treasures
  <2>2. StartLocation("eggs") = 23
    BY DEF StartLocation
  <2> QED
    BY <2>1, <2>2 DEF Init
<1>3. /\ playerLocation = 0 /\ grateLocked = TRUE
      /\ vaseBroken = FALSE /\ over = "no"
  BY DEF Init
<1>4. 0 \in Rooms \ CutOff
  BY DEF Rooms, CutOff
<1> QED
  BY <1>1, <1>2, <1>3, <1>4 DEF Inv, TypeOK, EggsOutOfReach

\* Each command keeps the eggs where they are and the player away from them.
LEMMA InvStep == Inv /\ [Next]_advVars => Inv'
<1> SUFFICES ASSUME Inv, [Next]_advVars PROVE Inv'
  OBVIOUS
<1> USE DEF Inv, TypeOK, EggsOutOfReach
<1> Touched \subseteq Objects
  BY AdventureAssumption
<1> "eggs" \in Objects /\ "snake" \in Objects /\ "vase" \in Objects
  BY DEF Objects, Treasures
<1>1. ASSUME NEW d, go(d) PROVE Inv'
  <2>1. PICK c \in connections :
          /\ c[1] = playerLocation
          /\ playerLocation' = c[3]
          /\ CheckForWin(c[3], location)
    BY <1>1 DEF go
  <2>2. c[3] \in Rooms \ CutOff
    BY <2>1, ExitsStayOutside
  <2>3. over' = "no"
    BY <2>1, NoWinWithoutEggs DEF CheckForWin
  <2> QED
    BY <1>1, <2>1, <2>2, <2>3 DEF go
<1>2. ASSUME NEW o \in Touched, take(o) PROVE Inv'
  <2>1. o # "eggs"
    BY <1>2 DEF take, CutOff
  <2>2. location' \in [Objects -> Rooms \cup {Carried, Gone}] /\ location'["eggs"] = 23
    BY <1>2, <2>1 DEF take
  <2>3. over' = "no"
    BY <1>2, <2>2, NoWinWithoutEggs DEF take, CheckForWin
  <2> QED
    BY <1>2, <2>2, <2>3 DEF take
<1>3. ASSUME NEW o \in Touched, drop(o) PROVE Inv'
  <2>1. o # "eggs"
    <3>1. location[o] = -1
      BY <1>3 DEF drop, Carried
    <3> QED
      BY <3>1
  <2>2. location' \in [Objects -> Rooms \cup {Carried, Gone}] /\ location'["eggs"] = 23
    BY <1>3, <2>1 DEF drop
  <2>3. over' = "no"
    BY <1>3, <2>2, NoWinWithoutEggs DEF drop, CheckForWin
  <2> QED
    BY <1>3, <2>2, <2>3 DEF drop
<1>4. CASE dropVase
  BY <1>4 DEF dropVase
<1>5. ASSUME NEW far \in {10, 29}, sayMagicWord(far) PROVE Inv'
  <2>1. playerLocation' \in Rooms \ CutOff
    BY <1>5 DEF sayMagicWord, Rooms, CutOff
  <2>2. over' = "no"
    BY <1>5, NoWinWithoutEggs DEF sayMagicWord, CheckForWin
  <2> QED
    BY <1>5, <2>1, <2>2 DEF sayMagicWord
<1>6. ASSUME NEW locks \in BOOLEAN, turnKey(locks) PROVE Inv'
  BY <1>6 DEF turnKey
<1>7. CASE quit
  BY <1>7 DEF quit
<1>8. CASE UNCHANGED advVars
  BY <1>8 DEF advVars
<1> QED
  BY <1>1, <1>2, <1>3, <1>4, <1>5, <1>6, <1>7, <1>8 DEF Next

\* Whatever the player does, the eggs are never reached and the game is never
\* won.
THEOREM GameIsNeverWon == Spec => [](TypeOK /\ EggsOutOfReach)
<1>1. Init => Inv
  BY InvHolds
<1>2. Inv /\ [Next]_advVars => Inv'
  BY InvStep
<1>3. Inv => TypeOK /\ EggsOutOfReach
  BY DEF Inv
<1> QED
  BY <1>1, <1>2, <1>3, PTL DEF Spec

-----------------------------------------------------------------------------
(* Reading a line *)

\* The memory's places.
Cells == -1 .. MaxPosition + KEYBOARD_BUFFER_SIZE

\* A key's character and whether shift was down.
Characters == {"character"} \X Letter \X BOOLEAN

\* The line stands from a place on.
Holds(place) == \A k \in 1 .. Len(typed) : memory[place + k - 1] = typed[k]

\* readCommand, as long as it is not misled: the characters of what is typed, and
\* not taken back, stand behind the scan codes; what stands behind them will be
\* overwritten.  Enter leaves a newline there.
CommandRead ==
  reader = "readCommand" /\ ~misled =>
    /\ Holds(KEYBOARD_BUFFER_SIZE)
    /\ IF finished
       THEN /\ position = Len(typed) + 1
            /\ position <= MaxPosition + 1
            /\ memory[KEYBOARD_BUFFER_SIZE + Len(typed)] = LI!NewLine
       ELSE position = Len(typed)

\* readInputLine: the characters stand from the start of the line on, and enter
\* leaves a zero behind them.
LineRead ==
  reader = "readInputLine" =>
    /\ Holds(0)
    /\ position = Len(typed) /\ position <= MAX_LINE_LENGTH
    /\ finished => memory[Len(typed)] = LI!Zero

ReadingInv ==
  /\ reader \in {"readCommand", "readInputLine"}
  /\ memory = [i \in Cells |-> memory[i]]
  /\ shift_down \in BOOLEAN /\ finished \in BOOLEAN /\ misled \in BOOLEAN
  /\ typed \in Seq(Characters)
  /\ CommandRead /\ LineRead

\* A character is neither a newline nor a zero nor a scan code.
LEMMA CharactersAreApart ==
  ASSUME NEW c \in Characters
  PROVE  c # LI!Zero /\ c # LI!NewLine
<1>1. Len(c) = 3
  BY DEF Characters
<1>2. Len(LI!Zero) = 1 /\ Len(LI!NewLine) = 1
  BY DEF LI!Zero, LI!NewLine
<1> QED
  BY <1>1, <1>2

\* What a letter adds is a character.
LEMMA CharacterIs ==
  ASSUME ReadingInv, NEW key \in Letter
  PROVE  LI!Character(key) \in Characters
BY DEF ReadingInv, LI!Character, Characters

\* Scan codes are told apart, and none is a zero.
LEMMA ScanCodes ==
  ASSUME NEW key
  PROVE  /\ LI!ScanCode(key) = LI!ScanCode(LI!EnterKey) <=> key = LI!EnterKey
         /\ LI!Zero # LI!ScanCode(LI!EnterKey)
<1>1. LI!ScanCode(key)[2] = key /\ LI!ScanCode(LI!EnterKey)[2] = LI!EnterKey
  BY DEF LI!ScanCode
<1>2. Len(LI!ScanCode(LI!EnterKey)) = 2 /\ Len(LI!Zero) = 1
  BY DEF LI!ScanCode, LI!Zero
<1> QED
  BY <1>1, <1>2

\* A line whose characters stand from a place on, with an end behind them, is
\* what is read from there.
LEMMA StringIsTyped ==
  ASSUME LI!InputConstants, ReadingInv, NEW place \in {0, KEYBOARD_BUFFER_SIZE}, Holds(place),
         place + Len(typed) <= MaxPosition + KEYBOARD_BUFFER_SIZE,
         memory[place + Len(typed)] \in {LI!Zero, LI!NewLine}
  PROVE  LI!StringAt(place) = typed
<1> DEFINE end == place + Len(typed)
           last == MaxPosition + KEYBOARD_BUFFER_SIZE + 1
           ends == { j \in place .. last :
                       j \notin DOMAIN memory \/ memory[j] \in {LI!Zero, LI!NewLine} }
<1>1. /\ place \in Nat /\ Len(typed) \in Nat /\ last \in Nat /\ typed \in Seq(Characters)
      /\ MaxPosition \in Nat /\ KEYBOARD_BUFFER_SIZE \in Nat
  BY DEF LI!InputConstants, ReadingInv
<1>2. DOMAIN memory = Cells
  BY DEF ReadingInv
<1>3. end \in ends
  <2>1. end \in place .. last
    BY <1>1
  <2> QED
    BY <2>1
<1>4. ASSUME NEW j \in ends, j < end
      PROVE  FALSE
  <2> DEFINE k == j - place + 1
  <2>1. k \in 1 .. Len(typed) /\ place + k - 1 = j /\ j \in Cells
    <3>1. j \in place .. last /\ j < place + Len(typed)
      BY <1>4
    <3>2. place + Len(typed) < last
      BY <1>1
    <3> HIDE DEF ends
    <3> QED
      BY <1>1, <3>1, <3>2 DEF Cells
  <2>2. memory[j] = typed[k]
    BY <2>1 DEF Holds
  <2>3. typed[k] \in Characters
    BY <1>1, <2>1
  <2> QED
    BY <1>2, <1>4, <2>1, <2>2, <2>3, CharactersAreApart
<1>5. LI!StringEnd(place) = end
  <2>1. LI!StringEnd(place) = CHOOSE x \in ends : \A y \in ends : x <= y
    BY DEF LI!StringEnd, LI!Min
  <2>2. \A y \in ends : end <= y /\ y \in Int
    BY <1>1, <1>4
  <2> HIDE DEF ends
  <2> QED
    BY <1>1, <1>3, <2>1, <2>2
<1>6. LI!StringAt(place) = [k \in 1 .. Len(typed) |-> typed[k]]
  <2>1. end - place = Len(typed)
    BY <1>1
  <2> QED
    BY <1>5, <2>1 DEF LI!StringAt, Holds
<1>7. typed = [k \in 1 .. Len(typed) |-> typed[k]]
  BY <1>1
<1> QED
  BY <1>6, <1>7

\* Nothing is typed and nothing stored.
LEMMA ReadingStarts == ASSUME LI!InputConstants, LI!Init PROVE ReadingInv
<1>1. /\ reader \in {"readCommand", "readInputLine"}
      /\ memory = [i \in Cells |-> LI!Zero]
      /\ position = 0 /\ shift_down = FALSE /\ finished = FALSE /\ misled = FALSE
      /\ typed = <<>>
  BY DEF LI!Init, Cells
<1>2. memory = [i \in Cells |-> memory[i]]
  BY <1>1
<1>3. typed \in Seq(Characters) /\ Len(typed) = 0
  BY <1>1
<1>4. MAX_LINE_LENGTH >= 0
  BY DEF LI!InputConstants
<1>5. CommandRead /\ LineRead
  BY <1>1, <1>3, <1>4 DEF CommandRead, LineRead, Holds
<1> QED
  BY <1>1, <1>2, <1>3, <1>5 DEF ReadingInv

\* The shift keys store nothing.
LEMMA PressShiftKeeps ==
  ASSUME ReadingInv, NEW down \in BOOLEAN, LI!pressShift(down)
  PROVE  ReadingInv'
BY DEF ReadingInv, LI!pressShift, CommandRead, LineRead, Holds

\* What a key adds to the line or takes back from it.
LEMMA MeansIs ==
  ASSUME LI!InputConstants, ReadingInv, NEW key
  PROVE  /\ LI!Means(key) \in Seq(Characters)
         /\ key \in Letter =>
              /\ Len(LI!Means(key)) = Len(typed) + 1
              /\ LI!Means(key)[Len(typed) + 1] = LI!Character(key)
              /\ \A k \in 1 .. Len(typed) : LI!Means(key)[k] = typed[k]
         /\ key = LI!BackspaceKey /\ Len(typed) # 0 =>
              /\ Len(LI!Means(key)) = Len(typed) - 1
              /\ \A k \in 1 .. Len(typed) - 1 : LI!Means(key)[k] = typed[k]
         /\ key = LI!BackspaceKey /\ Len(typed) = 0 => LI!Means(key) = typed
         /\ key \in {LI!EnterKey, LI!OtherKey} => LI!Means(key) = typed
<1>1. typed \in Seq(Characters) /\ Len(typed) \in Nat /\ (typed = <<>> <=> Len(typed) = 0)
  BY DEF ReadingInv
<1>2. /\ LI!BackspaceKey \notin Letter /\ LI!EnterKey \notin Letter /\ LI!OtherKey \notin Letter
      /\ LI!BackspaceKey \notin {LI!EnterKey, LI!OtherKey}
  BY DEF LI!InputConstants, LI!BackspaceKey, LI!EnterKey, LI!OtherKey
<1>3. CASE key \in Letter
  <2>1. LI!Character(key) \in Characters
    BY <1>3, CharacterIs
  <2>2. LI!Means(key) = Append(typed, LI!Character(key))
    BY <1>3 DEF LI!Means
  <2> DEFINE c == LI!Character(key)
             longer == Append(typed, c)
  <2>3. c \in Characters
    BY <2>1
  <2> HIDE DEF c
  <2>4. /\ longer \in Seq(Characters) /\ Len(longer) = Len(typed) + 1
        /\ longer[Len(typed) + 1] = c
        /\ \A k \in 1 .. Len(typed) : longer[k] = typed[k]
    BY <1>1, <2>3
  <2> HIDE DEF longer
  <2>5. LI!Means(key) = longer
    BY <2>2 DEF longer, c
  <2> QED
    BY <1>2, <1>3, <2>4, <2>5 DEF c
<1>4. CASE key = LI!BackspaceKey /\ Len(typed) # 0
  <2>1. LI!Means(key) = SubSeq(typed, 1, Len(typed) - 1)
    BY <1>1, <1>2, <1>4 DEF LI!Means, LI!Front
  <2> DEFINE l == Len(typed) - 1
             shorter == SubSeq(typed, 1, l)
  <2>2. l \in Nat /\ l \in Int /\ 1 \in Int /\ \A k \in 1 .. l : typed[k] \in Characters
    BY <1>1, <1>4
  <2> HIDE DEF l
  <2>3. /\ shorter \in Seq(Characters) /\ Len(shorter) = l
        /\ \A k \in 1 .. l : shorter[k] = typed[k]
    BY <2>2, SubSeqProperties
  <2> HIDE DEF shorter
  <2>4. LI!Means(key) = shorter
    BY <2>1 DEF shorter, l
  <2> QED
    BY <1>2, <1>4, <2>3, <2>4 DEF l
<1>5. CASE key \notin Letter /\ ~(key = LI!BackspaceKey /\ Len(typed) # 0)
  <2>1. LI!Means(key) = typed
    BY <1>1, <1>5 DEF LI!Means
  <2> QED
    BY <1>1, <1>5, <2>1
<1> QED
  BY <1>3, <1>4, <1>5

\* The bytes a key changes: its scan code's, its character's, and two that a
\* backspace zeroes.
LEMMA CommandBytesAre ==
  ASSUME LI!InputConstants, ReadingInv, NEW key, position \in Nat, position <= MaxPosition
  PROVE  LET bytes == LI!CommandBytes(key)
             char == position + KEYBOARD_BUFFER_SIZE
         IN  /\ key \in Letter => bytes[char] = LI!Character(key)
             /\ key = LI!EnterKey => bytes[char] = LI!NewLine
             /\ key \in Letter \cup {LI!EnterKey} => bytes[position] = LI!ScanCode(key)
             /\ key = LI!BackspaceKey /\ position # 0 => bytes[position - 2] = LI!Zero
             /\ \A i \in Cells : i > position /\ i # char => bytes[i] = memory[i]
<1> DEFINE bytes == LI!CommandBytes(key)
           char == position + KEYBOARD_BUFFER_SIZE
           scanned == [memory EXCEPT ![position] = LI!ScanCode(key)]
<1>1. /\ memory = [i \in Cells |-> memory[i]]
      /\ position \in Cells /\ char \in Cells /\ char # position
      /\ position # 0 => position - 2 \in Cells
  BY DEF ReadingInv, Cells, LI!InputConstants
<1>2. /\ scanned = [i \in Cells |-> IF i = position THEN LI!ScanCode(key) ELSE memory[i]]
  BY <1>1
<1>3. /\ LI!BackspaceKey \notin Letter /\ LI!EnterKey \notin Letter
      /\ LI!BackspaceKey # LI!EnterKey
  BY DEF LI!InputConstants, LI!BackspaceKey, LI!EnterKey, LI!OtherKey
<1>4. bytes = IF key \in Letter THEN [scanned EXCEPT ![char] = LI!Character(key)]
              ELSE IF key = LI!EnterKey THEN [scanned EXCEPT ![char] = LI!NewLine]
              ELSE IF key = LI!BackspaceKey /\ position # 0
                   THEN [i \in DOMAIN scanned |-> IF i \in {position - 1, position - 2}
                                                  THEN LI!Zero ELSE scanned[i]]
              ELSE scanned
  BY DEF LI!CommandBytes
<1> HIDE DEF bytes, char, scanned
<1>5. CASE key \in Letter
  BY <1>1, <1>2, <1>3, <1>4, <1>5 DEF bytes, char
<1>6. CASE key = LI!EnterKey
  BY <1>1, <1>2, <1>3, <1>4, <1>6 DEF bytes, char
<1>7. CASE key = LI!BackspaceKey /\ position # 0
  <2>1. bytes = [i \in Cells |-> IF i \in {position - 1, position - 2}
                                 THEN LI!Zero ELSE scanned[i]]
    BY <1>2, <1>3, <1>4, <1>7
  <2>2. bytes[position - 2] = LI!Zero
    BY <1>1, <1>7, <2>1
  <2>3. \A i \in Cells : i > position /\ i # char => bytes[i] = memory[i]
    BY <1>2, <2>1 DEF Cells
  <2> QED
    BY <1>3, <1>7, <2>2, <2>3 DEF bytes, char
<1>8. CASE key \notin Letter \cup {LI!EnterKey} /\ ~(key = LI!BackspaceKey /\ position # 0)
  <2>1. bytes = scanned
    BY <1>4, <1>8
  <2> QED
    BY <1>2, <1>8, <2>1 DEF bytes, char, Cells
<1> QED
  BY <1>5, <1>6, <1>7, <1>8

\* The keys change bytes of the memory, and its extent never.
LEMMA MemoryStays ==
  ASSUME ReadingInv, NEW key
  PROVE  LI!CommandBytes(key) = [i \in Cells |-> LI!CommandBytes(key)[i]]
BY DEF ReadingInv, LI!CommandBytes

\* readCommand keeps the invariant, whichever key is typed.
LEMMA ReadCommandKeeps ==
  ASSUME LI!InputConstants, ReadingInv, NEW key, LI!readCommand(key),
         key \in Letter \cup {LI!EnterKey, LI!BackspaceKey, LI!OtherKey}
  PROVE  ReadingInv'
<1> DEFINE n == Len(typed)
           char == position + KEYBOARD_BUFFER_SIZE
<1>1. /\ reader = "readCommand" /\ ~finished /\ position <= MaxPosition
      /\ memory' = LI!CommandBytes(key)
      /\ position' = IF key = LI!BackspaceKey /\ position # 0
                     THEN LI!AfterBackspace(position) ELSE position + 1
      /\ finished' = (memory'[position' - 1] = LI!ScanCode(LI!EnterKey))
      /\ typed' = LI!Means(key)
      /\ misled' = (misled \/ LI!Misleads(key))
      /\ reader' = reader /\ shift_down' = shift_down
  BY DEF LI!readCommand
<1>2. memory' = [i \in Cells |-> memory'[i]]
  BY <1>1, MemoryStays
<1>3. typed' \in Seq(Characters)
  BY <1>1, MeansIs
<1>4. finished' \in BOOLEAN /\ misled' \in BOOLEAN
  BY <1>1 DEF ReadingInv
<1>5. LineRead'
  BY <1>1 DEF LineRead
<1>6. ASSUME ~misled'
      PROVE  CommandRead'
  <2>1. ~misled /\ ~LI!Misleads(key)
    BY <1>1, <1>6
  <2>2. /\ key # LI!OtherKey /\ ~(key = LI!BackspaceKey /\ position = 0)
        /\ ~(position >= KEYBOARD_BUFFER_SIZE)
    BY <2>1 DEF LI!Misleads
  <2>3. position = n /\ n \in Nat /\ \A k \in 1 .. n : memory[KEYBOARD_BUFFER_SIZE + k - 1] = typed[k]
    <3>1. typed \in Seq(Characters) /\ CommandRead
      BY DEF ReadingInv
    <3> QED
      BY <1>1, <2>1, <3>1 DEF CommandRead, Holds
  <2>4. KEYBOARD_BUFFER_SIZE \in Nat \ {0} /\ MaxPosition \in Nat
    BY DEF LI!InputConstants
  <2>5. /\ key \in Letter => memory'[char] = LI!Character(key)
        /\ key = LI!EnterKey => memory'[char] = LI!NewLine
        /\ key \in Letter \cup {LI!EnterKey} => memory'[position] = LI!ScanCode(key)
        /\ key = LI!BackspaceKey => memory'[position - 2] = LI!Zero
        /\ \A i \in Cells : i > position /\ i # char => memory'[i] = memory[i]
    BY <1>1, <2>2, <2>3, CommandBytesAre
  <2>6. \A k \in 1 .. n : memory'[KEYBOARD_BUFFER_SIZE + k - 1] = typed[k]
    <3> TAKE k \in 1 .. n
    <3>1. /\ KEYBOARD_BUFFER_SIZE + k - 1 \in Cells /\ KEYBOARD_BUFFER_SIZE + k - 1 > position
          /\ KEYBOARD_BUFFER_SIZE + k - 1 # char
      BY <1>1, <2>2, <2>3, <2>4 DEF Cells
    <3> QED
      BY <2>3, <2>5, <3>1
  <2>7. /\ LI!BackspaceKey \notin Letter /\ LI!EnterKey \notin Letter
        /\ LI!BackspaceKey # LI!EnterKey
    BY DEF LI!InputConstants, LI!BackspaceKey, LI!EnterKey, LI!OtherKey
  <2> HIDE DEF n, char
  <2>8. CASE key \in Letter
    <3>1. /\ Len(typed') = n + 1 /\ typed'[n + 1] = LI!Character(key)
          /\ \A k \in 1 .. n : typed'[k] = typed[k]
      BY <1>1, <2>8, MeansIs DEF n
    <3>2. position' = n + 1
      BY <1>1, <2>3, <2>7, <2>8
    <3>3. ~finished'
      <4>1. position' - 1 = position
        BY <2>3, <3>2
      <4>2. key # LI!EnterKey
        BY <2>7, <2>8
      <4> QED
        BY <1>1, <2>5, <2>8, <4>1, <4>2, ScanCodes
    <3>4. ASSUME NEW k \in 1 .. n + 1
          PROVE  memory'[KEYBOARD_BUFFER_SIZE + k - 1] = typed'[k]
      <4>1. CASE k \in 1 .. n
        BY <2>6, <3>1, <4>1
      <4>2. CASE k = n + 1
        <5>1. KEYBOARD_BUFFER_SIZE + k - 1 = char
          BY <2>3, <2>4, <4>2 DEF char
        <5> QED
          BY <2>5, <2>8, <3>1, <4>2, <5>1
      <4> QED
        BY <2>3, <4>1, <4>2
    <3> QED
      BY <3>1, <3>2, <3>3, <3>4 DEF CommandRead, Holds
  <2>9. CASE key = LI!EnterKey
    <3>1. typed' = typed /\ Len(typed') = n
      BY <1>1, <2>9, MeansIs DEF n
    <3>2. position' = n + 1 /\ position' - 1 = position
      BY <1>1, <2>3, <2>7, <2>9
    <3>3. finished'
      BY <1>1, <2>5, <2>9, <3>2, ScanCodes
    <3>4. KEYBOARD_BUFFER_SIZE + Len(typed') = char /\ position' <= MaxPosition + 1
      BY <1>1, <2>3, <2>4, <3>1, <3>2 DEF char
    <3> QED
      BY <2>5, <2>6, <2>9, <3>1, <3>2, <3>3, <3>4 DEF CommandRead, Holds
  <2>10. CASE key = LI!BackspaceKey
    <3>1. n # 0 /\ Len(typed') = n - 1 /\ \A k \in 1 .. n - 1 : typed'[k] = typed[k]
      BY <1>1, <2>2, <2>3, <2>10, MeansIs DEF n
    <3>2. position' = n - 1 /\ position' - 1 = position - 2
      BY <1>1, <2>3, <2>10, <3>1 DEF LI!AfterBackspace
    <3>3. ~finished'
      BY <1>1, <2>5, <2>10, <3>2, ScanCodes
    <3>4. \A k \in 1 .. n - 1 : k \in 1 .. n
      BY <2>3
    <3> QED
      BY <2>6, <3>1, <3>2, <3>3, <3>4 DEF CommandRead, Holds
  <2> QED
    BY <2>2, <2>8, <2>9, <2>10
<1>7. CommandRead'
  BY <1>6 DEF CommandRead
<1> QED
  BY <1>1, <1>2, <1>3, <1>4, <1>5, <1>7 DEF ReadingInv

\* So does readInputLine.
LEMMA ReadInputLineKeeps ==
  ASSUME LI!InputConstants, ReadingInv, NEW key, LI!readInputLine(key),
         key \in Letter \cup {LI!EnterKey, LI!BackspaceKey, LI!OtherKey}
  PROVE  ReadingInv'
<1> DEFINE n == Len(typed)
           stores == key \in Letter /\ position < MAX_LINE_LENGTH
<1>1. /\ reader = "readInputLine" /\ ~finished
      /\ memory' = IF stores THEN [memory EXCEPT ![position] = LI!Character(key)]
                   ELSE IF key = LI!EnterKey THEN [memory EXCEPT ![position] = LI!Zero]
                   ELSE memory
      /\ position' = IF stores THEN position + 1
                     ELSE IF key = LI!BackspaceKey /\ position > 0 THEN position - 1
                     ELSE position
      /\ typed' = IF key \in Letter /\ ~stores THEN typed ELSE LI!Means(key)
      /\ finished' = (key = LI!EnterKey)
      /\ reader' = reader /\ shift_down' = shift_down /\ misled' = misled
  BY DEF LI!readInputLine, LI!Stores
<1>2. /\ position = n /\ n \in Nat /\ n <= MAX_LINE_LENGTH
      /\ \A k \in 1 .. n : memory[0 + k - 1] = typed[k]
      /\ memory = [i \in Cells |-> memory[i]]
  <2>1. /\ typed \in Seq(Characters) /\ LineRead
        /\ memory = [i \in Cells |-> memory[i]]
    BY DEF ReadingInv
  <2>2. Holds(0) /\ position = Len(typed) /\ position <= MAX_LINE_LENGTH
    BY <1>1, <2>1 DEF LineRead
  <2>3. \A k \in 1 .. n : memory[0 + k - 1] = typed[k]
    BY <2>2 DEF Holds
  <2>4. n \in Nat
    BY <2>1
  <2> QED
    BY <2>1, <2>2, <2>3, <2>4
<1>3. /\ LI!BackspaceKey \notin Letter /\ LI!EnterKey \notin Letter
      /\ LI!BackspaceKey # LI!EnterKey
      /\ MAX_LINE_LENGTH \in Nat /\ MAX_LINE_LENGTH <= MaxPosition + KEYBOARD_BUFFER_SIZE
      /\ MaxPosition \in Nat /\ KEYBOARD_BUFFER_SIZE \in Nat
  BY DEF LI!InputConstants, LI!BackspaceKey, LI!EnterKey, LI!OtherKey
<1>4. position \in Cells /\ \A k \in 1 .. n : 0 + k - 1 \in Cells /\ 0 + k - 1 # position
  BY <1>2, <1>3 DEF Cells
<1> HIDE DEF n, stores
<1>5. /\ memory' = [i \in Cells |-> memory'[i]]
      /\ \A i \in Cells : i # position => memory'[i] = memory[i]
      /\ stores => memory'[position] = LI!Character(key)
      /\ ~stores /\ key = LI!EnterKey => memory'[position] = LI!Zero
  BY <1>1, <1>2, <1>4
<1>6. typed' \in Seq(Characters)
  BY <1>1, MeansIs DEF ReadingInv
<1>7. \A k \in 1 .. n : memory'[0 + k - 1] = typed[k]
  BY <1>2, <1>4, <1>5
<1>8. CommandRead'
  BY <1>1 DEF CommandRead
<1>9. CASE stores
  <2>1. key \in Letter /\ position < MAX_LINE_LENGTH
    BY <1>9 DEF stores
  <2>2. /\ Len(typed') = n + 1 /\ typed'[n + 1] = LI!Character(key)
        /\ \A k \in 1 .. n : typed'[k] = typed[k]
    BY <1>1, <1>9, <2>1, MeansIs DEF n
  <2>3. position' = n + 1 /\ position' <= MAX_LINE_LENGTH /\ ~finished'
    <3>1. position' = position + 1
      BY <1>1, <1>9
    <3>2. ~finished'
      BY <1>1, <1>3, <2>1
    <3> QED
      BY <1>2, <1>3, <2>1, <3>1, <3>2
  <2>4. ASSUME NEW k \in 1 .. n + 1
        PROVE  memory'[0 + k - 1] = typed'[k]
    <3>1. CASE k \in 1 .. n
      BY <1>7, <2>2, <3>1
    <3>2. CASE k = n + 1
      <4>1. 0 + k - 1 = position
        BY <1>2, <3>2
      <4> QED
        BY <1>5, <1>9, <2>2, <3>2, <4>1
    <3> QED
      BY <1>2, <3>1, <3>2
  <2>5. LineRead'
    BY <2>2, <2>3, <2>4 DEF LineRead, Holds
  <2> QED
    BY <1>1, <1>5, <1>6, <1>8, <2>5 DEF ReadingInv
<1>10. CASE ~stores /\ key = LI!BackspaceKey /\ n # 0
  <2>1. Len(typed') = n - 1 /\ \A k \in 1 .. n - 1 : typed'[k] = typed[k]
    BY <1>1, <1>3, <1>10, MeansIs DEF n
  <2>2. position' = n - 1 /\ n - 1 <= MAX_LINE_LENGTH /\ ~finished'
    <3>1. position' = position - 1
      BY <1>1, <1>2, <1>10
    <3>2. ~finished'
      BY <1>1, <1>3, <1>10
    <3> QED
      BY <1>2, <1>3, <3>1, <3>2
  <2>3. \A k \in 1 .. n - 1 : k \in 1 .. n
    BY <1>2
  <2>4. LineRead'
    BY <1>7, <2>1, <2>2, <2>3 DEF LineRead, Holds
  <2> QED
    BY <1>1, <1>5, <1>6, <1>8, <2>4 DEF ReadingInv
<1>11. CASE ~stores /\ ~(key = LI!BackspaceKey /\ n # 0)
  <2>1. typed' = typed /\ Len(typed') = n
    BY <1>1, <1>3, <1>11, MeansIs DEF n
  <2>2. position' = n
    BY <1>1, <1>2, <1>11
  <2>3. finished' => memory'[n] = LI!Zero
    BY <1>1, <1>2, <1>5, <1>11
  <2>4. LineRead'
    BY <1>2, <1>7, <2>1, <2>2, <2>3 DEF LineRead, Holds
  <2> QED
    BY <1>1, <1>5, <1>6, <1>8, <2>4 DEF ReadingInv
<1> QED
  BY <1>9, <1>10, <1>11

\* Every key keeps the invariant.
LEMMA ReadingGoesOn ==
  ASSUME LI!InputConstants
  PROVE  ReadingInv /\ [LI!Next]_(LI!inputVars) => ReadingInv'
<1> SUFFICES ASSUME ReadingInv, [LI!Next]_(LI!inputVars)
             PROVE  ReadingInv'
  OBVIOUS
<1>1. CASE LI!Next
  BY <1>1, PressShiftKeeps, ReadCommandKeeps, ReadInputLineKeeps DEF LI!Next
<1>2. CASE UNCHANGED LI!inputVars
  BY <1>2 DEF LI!inputVars, ReadingInv, CommandRead, LineRead, Holds
<1> QED
  BY <1>1, <1>2

\* A finished line is the line that was typed.
LEMMA FinishedIsTyped ==
  ASSUME LI!InputConstants, ReadingInv
  PROVE  LI!LineIsTyped
<1> SUFFICES ASSUME finished, ~misled
             PROVE  LI!Line = typed
  BY DEF LI!LineIsTyped
<1>1. /\ KEYBOARD_BUFFER_SIZE \in Nat \ {0} /\ MaxPosition \in Nat /\ MAX_LINE_LENGTH \in Nat
      /\ MAX_LINE_LENGTH <= MaxPosition + KEYBOARD_BUFFER_SIZE /\ Len(typed) \in Nat
  BY DEF LI!InputConstants, ReadingInv
<1>2. CASE reader = "readCommand"
  <2>1. /\ Holds(KEYBOARD_BUFFER_SIZE) /\ Len(typed) + 1 <= MaxPosition + 1
        /\ memory[KEYBOARD_BUFFER_SIZE + Len(typed)] = LI!NewLine
    BY <1>2 DEF ReadingInv, CommandRead
  <2>2. KEYBOARD_BUFFER_SIZE + Len(typed) <= MaxPosition + KEYBOARD_BUFFER_SIZE
    BY <1>1, <2>1
  <2>3. LI!StringAt(KEYBOARD_BUFFER_SIZE) = typed
    BY <2>1, <2>2, StringIsTyped
  <2> QED
    BY <1>2, <2>3 DEF LI!Line
<1>3. CASE reader = "readInputLine"
  <2>1. /\ Holds(0) /\ Len(typed) <= MAX_LINE_LENGTH
        /\ memory[Len(typed)] = LI!Zero
    BY <1>3 DEF ReadingInv, LineRead
  <2>2. 0 + Len(typed) <= MaxPosition + KEYBOARD_BUFFER_SIZE /\ 0 + Len(typed) = Len(typed)
    BY <1>1, <2>1
  <2>3. LI!StringAt(0) = typed
    BY <2>1, <2>2, StringIsTyped
  <2> QED
    BY <1>3, <2>3 DEF LI!Line
<1> QED
  BY <1>2, <1>3 DEF ReadingInv

\* Whatever keys are pressed, in whatever order, the line that readCommand or
\* readInputLine hands on is the one that was typed, backspaces taken into account,
\* as long as readCommand is not given more keys than its buffer has room for or a
\* key without a character (keyboard.cpp:246-345, readInputLine of edlin.cpp).
THEOREM ReadsWhatIsTyped == LI!Spec => []LineIsTyped
<1>1. LI!Init => ReadingInv
  BY ConsoleAssumption, ReadingStarts
<1>2. ReadingInv /\ [LI!Next]_(LI!inputVars) => ReadingInv'
  BY ConsoleAssumption, ReadingGoesOn
<1>3. ReadingInv => LineIsTyped
  BY ConsoleAssumption, FinishedIsTyped DEF LineIsTyped
<1> QED
  BY <1>1, <1>2, <1>3, PTL DEF LI!Spec

-----------------------------------------------------------------------------
(* The history of the shell *)

\* A line is typed without the bytes that end one.
Typed == { line \in Seq(STRING) :
             \A i \in 1 .. Len(line) : line[i] \notin {SH!Zero, SH!NewLine} }

\* What is in a row after a line is recorded there: the newline in its last byte is
\* made zero.
RowByte(line, j) ==
  IF j = Width - 1 /\ SH!Byte(line, j) = SH!NewLine THEN SH!Zero ELSE SH!Byte(line, j)

\* As long as the rows are not full the lines stand in them from the first row on,
\* and a zero behind the last of them.
HistoryInv ==
  /\ recorded \in Seq(Typed)
  /\ history_buf = [byte \in 0 .. SH!RowStart(Rows) - 1 |-> history_buf[byte]]
  /\ Len(recorded) < Rows =>
       /\ history_index = Len(recorded) /\ history_count = Len(recorded)
       /\ \A k \in 1 .. Len(recorded) : \A j \in 0 .. Width - 1 :
            history_buf[SH!RowStart(k - 1) + j] = RowByte(recorded[k], j)
       /\ history_buf[SH!RowStart(Len(recorded))] = SH!Zero

\* The rows lie one behind the other.
LEMMA RowsAre ==
  ASSUME Width \in Nat \ {0}, NEW r \in Nat
  PROVE  /\ SH!RowStart(r) \in Nat /\ SH!RowStart(0) = 0
         /\ SH!RowStart(r + 1) = SH!RowStart(r) + Width
<1>1. PICK w : w = Width /\ w \in Nat
  OBVIOUS
<1>2. r * w \in Nat /\ 0 * w = 0 /\ (r + 1) * w = r * w + w
  BY <1>1
<1> QED
  BY <1>1, <1>2 DEF SH!RowStart

LEMMA RowsApart ==
  ASSUME Width \in Nat \ {0}, NEW r \in Nat, NEW s \in Nat, r < s
  PROVE  SH!RowStart(r) + Width <= SH!RowStart(s)
<1>1. PICK w, d : w = Width /\ w \in Nat \ {0} /\ d = s - r - 1
  OBVIOUS
<1>2. d \in Nat /\ s = r + d + 1
  BY <1>1
<1>3. d * w \in Nat
  BY <1>1, <1>2
<1>4. (r + d + 1) * w = r * w + w + d * w
  BY <1>1, <1>2
<1>5. r * w \in Nat
  BY <1>1
<1> QED
  BY <1>1, <1>2, <1>3, <1>4, <1>5 DEF SH!RowStart

\* The sizes of the history, and what is typed.
LEMMA ShellConstantsAre ==
  Rows \in Nat \ {0} /\ Width \in Nat \ {0} /\ Command \subseteq Typed
BY ConsoleAssumption DEF SH!ShellConstants, Typed

\* Nothing is recorded.
LEMMA HistoryStarts == SH!Init => HistoryInv
<1> SUFFICES ASSUME SH!Init
             PROVE  HistoryInv
  OBVIOUS
<1>1. SH!RowStart(0) = 0 /\ SH!RowStart(Rows) \in Nat \ {0}
  <2>1. 0 < Rows /\ Rows \in Nat /\ 0 \in Nat
    BY ShellConstantsAre
  <2>2. SH!RowStart(0) + Width <= SH!RowStart(Rows)
    BY <2>1, ShellConstantsAre, RowsApart
  <2> QED
    BY <2>1, <2>2, ShellConstantsAre, RowsAre
<1>2. PICK size : size = SH!RowStart(Rows)
  OBVIOUS
<1>3. history_buf = [byte \in 0 .. size - 1 |-> SH!Zero] /\ recorded = <<>>
      /\ history_index = 0 /\ history_count = 0
  BY <1>2 DEF SH!Init
<1>4. history_buf[0] = SH!Zero /\ Len(recorded) = 0 /\ recorded \in Seq(Typed)
  BY <1>1, <1>2, <1>3
<1> QED
  BY <1>1, <1>2, <1>3, <1>4 DEF HistoryInv

\* A line goes into the row behind the last, and a zero behind it.
LEMMA RunKeepsHistory ==
  ASSUME HistoryInv, NEW line \in Command, SH!run(line)
  PROVE  HistoryInv'
<1> DEFINE n == Len(recorded)
<1>1. /\ n \in Nat /\ recorded \in Seq(Typed) /\ line \in Typed
      /\ Rows \in Nat \ {0} /\ Width \in Nat \ {0}
  BY ShellConstantsAre DEF HistoryInv
<1>2. CASE line = <<>>
  BY <1>2 DEF SH!run, HistoryInv
<1>3. CASE line # <<>>
  <2>1. SH!record(line)
    BY <1>3 DEF SH!run
  <2>2. PICK index, last, size :
          /\ index = IF history_index = Rows - 1 THEN 0 ELSE history_index
          /\ last = SH!RowStart(index) + Width - 1
          /\ size = SH!RowStart(Rows)
    OBVIOUS
  <2>3. PICK copied : copied = SH!Copied(line)
    OBVIOUS
  <2>4. /\ recorded' = Append(recorded, line)
        /\ history_buf' = [copied EXCEPT ![last] = IF @ = SH!NewLine THEN SH!Zero ELSE @]
        /\ history_index' = (index + 1) % Rows
        /\ history_count' = IF history_count < Rows THEN history_count + 1 ELSE history_count
    BY <2>1, <2>2, <2>3 DEF SH!record
  <2>5. history_buf = [byte \in 0 .. size - 1 |-> history_buf[byte]]
    BY <2>2 DEF HistoryInv
  <2>6. copied = [byte \in 0 .. size - 1 |->
                    IF byte \in SH!RowBytes(history_index)
                    THEN SH!Byte(line, byte - SH!RowStart(history_index))
                    ELSE IF byte = SH!RowStart(history_index + 1) THEN SH!Zero
                    ELSE history_buf[byte]]
    <3>1. DOMAIN history_buf = 0 .. size - 1
      BY <2>5
    <3> QED
      BY <2>3, <3>1 DEF SH!Copied
  <2>7. history_buf' = [byte \in 0 .. size - 1 |-> history_buf'[byte]]
    BY <2>4, <2>6
  <2>8. /\ recorded' \in Seq(Typed) /\ Len(recorded') = n + 1
        /\ recorded'[n + 1] = line /\ \A k \in 1 .. n : recorded'[k] = recorded[k]
    BY <1>1, <2>4
  <2> HIDE DEF n
  <2>9. ASSUME n + 1 < Rows
        PROVE  /\ history_index' = n + 1 /\ history_count' = n + 1
               /\ \A k \in 1 .. n + 1 : \A j \in 0 .. Width - 1 :
                    history_buf'[SH!RowStart(k - 1) + j] = RowByte(recorded'[k], j)
               /\ history_buf'[SH!RowStart(n + 1)] = SH!Zero
    <3>1. /\ history_index = n /\ history_count = n /\ index = n
          /\ \A k \in 1 .. n : \A j \in 0 .. Width - 1 :
               history_buf[SH!RowStart(k - 1) + j] = RowByte(recorded[k], j)
      <4>1. n < Rows /\ n # Rows - 1
        BY <1>1, <2>9
      <4>2. /\ history_index = n /\ history_count = n
            /\ \A k \in 1 .. n : \A j \in 0 .. Width - 1 :
                 history_buf[SH!RowStart(k - 1) + j] = RowByte(recorded[k], j)
        BY <4>1 DEF HistoryInv, n
      <4> QED
        BY <2>2, <4>1, <4>2
    <3>2. history_index' = n + 1
      <4>1. (n + 1) % Rows = n + 1
        BY <1>1, <2>9
      <4> QED
        BY <2>4, <3>1, <4>1
    <3>3. history_count' = n + 1
      BY <1>1, <2>4, <2>9, <3>1
    <3>4. PICK start, next : start = SH!RowStart(n) /\ next = SH!RowStart(n + 1)
      OBVIOUS
    <3>5. /\ start \in Nat /\ next = start + Width /\ last = start + Width - 1
          /\ size \in Nat /\ next + Width <= size
      <4>1. n + 1 \in Nat
        BY <1>1
      <4>2. SH!RowStart(n + 1) + Width <= SH!RowStart(Rows)
        BY <1>1, <2>9, <4>1, RowsApart
      <4> QED
        BY <1>1, <2>2, <3>1, <3>4, <4>2, RowsAre
    <3>6. ASSUME NEW byte \in 0 .. size - 1
          PROVE  /\ copied[byte] = IF byte \in start .. start + Width - 1
                                   THEN SH!Byte(line, byte - start)
                                   ELSE IF byte = next THEN SH!Zero ELSE history_buf[byte]
                 /\ byte # last => history_buf'[byte] = copied[byte]
                 /\ byte = last => history_buf'[byte] =
                      IF copied[byte] = SH!NewLine THEN SH!Zero ELSE copied[byte]
      <4>1. copied[byte] = IF byte \in start .. start + Width - 1
                           THEN SH!Byte(line, byte - start)
                           ELSE IF byte = next THEN SH!Zero ELSE history_buf[byte]
        BY <2>6, <3>1, <3>4 DEF SH!RowBytes
      <4>2. byte \in DOMAIN copied
        BY <2>6
      <4> QED
        BY <2>4, <4>1, <4>2
    <3>7. ASSUME NEW k \in 1 .. n, NEW j \in 0 .. Width - 1
          PROVE  history_buf'[SH!RowStart(k - 1) + j] = RowByte(recorded'[k], j)
      <4>1. PICK byte : byte = SH!RowStart(k - 1) + j
        OBVIOUS
      <4>2. byte \in 0 .. size - 1 /\ byte < start
        <5>1. k - 1 \in Nat /\ n \in Nat /\ k - 1 < n
          BY <1>1
        <5>2. SH!RowStart(k - 1) + Width <= start /\ SH!RowStart(k - 1) \in Nat
          BY <1>1, <3>4, <5>1, RowsApart, RowsAre
        <5> QED
          BY <1>1, <3>5, <4>1, <5>2
      <4>3. byte # last /\ byte # next /\ byte \notin start .. start + Width - 1
        BY <1>1, <3>5, <4>2
      <4>4. history_buf'[byte] = history_buf[byte]
        BY <3>6, <4>2, <4>3
      <4> QED
        BY <2>8, <3>1, <4>1, <4>4
    <3>8. ASSUME NEW j \in 0 .. Width - 1
          PROVE  history_buf'[SH!RowStart(n) + j] = RowByte(line, j)
      <4>1. PICK byte : byte = start + j
        OBVIOUS
      <4>2. /\ byte \in 0 .. size - 1 /\ byte \in start .. start + Width - 1
            /\ byte - start = j /\ (byte = last <=> j = Width - 1)
        BY <1>1, <3>5, <4>1
      <4>3. copied[byte] = SH!Byte(line, j)
        BY <3>6, <4>2
      <4>4. history_buf'[byte] = RowByte(line, j)
        BY <3>6, <4>2, <4>3 DEF RowByte
      <4> QED
        BY <3>4, <4>1, <4>4
    <3>9. history_buf'[next] = SH!Zero
      <4>1. next \in 0 .. size - 1 /\ next # last /\ next \notin start .. start + Width - 1
        BY <1>1, <3>5
      <4> QED
        BY <3>6, <4>1
    <3>10. ASSUME NEW k \in 1 .. n + 1, NEW j \in 0 .. Width - 1
           PROVE  history_buf'[SH!RowStart(k - 1) + j] = RowByte(recorded'[k], j)
      <4>1. CASE k = n + 1
        <5>1. k - 1 = n
          BY <1>1, <4>1
        <5> QED
          BY <2>8, <3>8, <4>1, <5>1
      <4>2. CASE k \in 1 .. n
        BY <3>7, <4>2
      <4> QED
        BY <1>1, <4>1, <4>2
    <3> QED
      BY <3>2, <3>3, <3>4, <3>9, <3>10
  <2> QED
    BY <2>2, <2>7, <2>8, <2>9 DEF HistoryInv
<1> QED
  BY <1>2, <1>3

\* A line is shown up to the first byte that ends one.
LEMMA ShownEndIs ==
  ASSUME NEW size \in Nat, size = SH!RowStart(Rows), NEW p \in 0 .. size, NEW e \in p .. size,
         \A byte \in p .. e - 1 : history_buf[byte] \notin {SH!Zero, SH!NewLine},
         e = size \/ history_buf[e] \in {SH!Zero, SH!NewLine}
  PROVE  SH!ShownEnd(p) = e
<1> DEFINE ends == { x \in p .. size :
                       x = size \/ history_buf[x] \in {SH!Zero, SH!NewLine} }
<1>1. e \in ends
  OBVIOUS
<1>2. ASSUME NEW y \in ends
      PROVE  e <= y /\ y \in Int
  <2>1. y \in p .. e - 1 => FALSE
    <3>1. ASSUME y \in p .. e - 1
          PROVE  FALSE
      <4>1. y # size
        BY <3>1
      <4> QED
        BY <3>1, <4>1
    <3> QED
      BY <3>1
  <2> QED
    BY <2>1
<1>3. PICK shown : shown = SH!ShownEnd(p)
  OBVIOUS
<1>4. shown = CHOOSE x \in ends : \A y \in ends : x <= y
  BY <1>3 DEF SH!ShownEnd, SH!Min
<1> HIDE DEF ends
<1>5. shown \in ends /\ \A y \in ends : shown <= y
  BY <1>1, <1>2, <1>4
<1>6. shown <= e /\ e <= shown /\ shown \in Int /\ e \in Int
  BY <1>1, <1>2, <1>5
<1> QED
  BY <1>3, <1>6

\* It does end.
LEMMA ShownEndExists ==
  ASSUME NEW size \in Nat, size = SH!RowStart(Rows), NEW p \in 0 .. size
  PROVE  \E e \in p .. size :
           /\ \A byte \in p .. e - 1 : history_buf[byte] \notin {SH!Zero, SH!NewLine}
           /\ e = size \/ history_buf[e] \in {SH!Zero, SH!NewLine}
<1> DEFINE ends == { x \in p .. size :
                       x = size \/ history_buf[x] \in {SH!Zero, SH!NewLine} }
<1>1. size \in ends /\ ends \in SUBSET Nat
  OBVIOUS
<1>2. PICK e \in ends : \A y \in ends : e <= y
  BY <1>1, LeastExists
<1>3. ASSUME NEW byte \in p .. e - 1
      PROVE  history_buf[byte] \notin {SH!Zero, SH!NewLine}
  <2>1. byte \in p .. size /\ byte < e
    BY <1>2
  <2> QED
    BY <1>2, <2>1
<1> QED
  BY <1>2, <1>3

\* What is shown of the k-th line that was recorded.
LEMMA LineIsShown ==
  ASSUME HistoryInv, Len(recorded) < Rows, NEW k \in 1 .. Len(recorded)
  PROVE  SH!ShownFrom(SH!RowStart(k - 1)) =
           IF Len(recorded[k]) < Width THEN recorded[k]
           ELSE SubSeq(recorded[k], 1, Width)
                  \o (IF k = Len(recorded) THEN <<>> ELSE SH!ShownFrom(SH!RowStart(k)))
<1>1. PICK n, line, w, size, p : /\ n = Len(recorded) /\ line = recorded[k] /\ w = Width
                                 /\ size = SH!RowStart(Rows) /\ p = SH!RowStart(k - 1)
  OBVIOUS
<1>2. n \in Nat /\ n < Rows /\ Rows \in Nat /\ w \in Nat \ {0} /\ k \in 1 .. n
  BY <1>1, ShellConstantsAre DEF HistoryInv
<1>3. /\ line \in Typed /\ line \in Seq(STRING) /\ Len(line) \in Nat
      /\ \A i \in 1 .. Len(line) : line[i] \notin {SH!Zero, SH!NewLine}
  BY <1>1 DEF HistoryInv, Typed
<1>4. p \in Nat /\ size \in Nat /\ p + w <= size /\ SH!RowStart(k) = p + w
  <2>1. k - 1 \in Nat /\ k - 1 < Rows /\ k - 1 + 1 = k
    BY <1>2
  <2>2. SH!RowStart(k - 1) + Width <= SH!RowStart(Rows)
    BY <1>1, <1>2, <2>1, RowsApart
  <2>3. SH!RowStart(k - 1 + 1) = SH!RowStart(k - 1) + Width
    BY <1>1, <1>2, <2>1, RowsAre
  <2> QED
    BY <1>1, <1>2, <2>1, <2>2, <2>3, RowsAre
<1>5. ASSUME NEW j \in 0 .. w - 1
      PROVE  history_buf[p + j] = RowByte(line, j)
  BY <1>1, <1>5 DEF HistoryInv
<1>6. ASSUME NEW j \in 0 .. w - 1, j < Len(line)
      PROVE  history_buf[p + j] = line[j + 1] /\ history_buf[p + j] \notin {SH!Zero, SH!NewLine}
  <2>1. j + 1 \in 1 .. Len(line)
    BY <1>2, <1>3, <1>6
  <2>2. SH!Byte(line, j) = line[j + 1] /\ line[j + 1] \notin {SH!Zero, SH!NewLine}
    BY <1>3, <1>6, <2>1 DEF SH!Byte
  <2>3. RowByte(line, j) = line[j + 1]
    BY <2>2 DEF RowByte
  <2> QED
    BY <1>5, <2>2, <2>3
<1>7. CASE Len(line) < w
  <2>1. PICK m, e : m = Len(line) /\ m \in Nat /\ m < w /\ e = p + m
    BY <1>3, <1>7
  <2>2. history_buf[p + m] \in {SH!Zero, SH!NewLine}
    <3>1. m \in 0 .. w - 1
      BY <1>2, <2>1
    <3>2. RowByte(line, m) \in {SH!Zero, SH!NewLine}
      BY <2>1 DEF RowByte, SH!Byte
    <3> QED
      BY <1>5, <3>1, <3>2
  <2>3. \A byte \in p .. e - 1 : history_buf[byte] \notin {SH!Zero, SH!NewLine}
    <3>1. ASSUME NEW byte \in p .. e - 1
          PROVE  history_buf[byte] \notin {SH!Zero, SH!NewLine}
      <4>1. byte - p \in 0 .. w - 1 /\ byte - p < m /\ p + (byte - p) = byte
        BY <1>2, <1>4, <2>1
      <4> QED
        BY <1>6, <2>1, <4>1
    <3> QED
      BY <3>1
  <2>4. SH!ShownEnd(p) = p + m
    <3>1. p \in 0 .. size /\ e \in p .. size
      BY <1>2, <1>4, <2>1
    <3>2. history_buf[e] \in {SH!Zero, SH!NewLine}
      BY <2>1, <2>2
    <3>3. SH!ShownEnd(p) = e
      BY <1>1, <1>4, <2>3, <3>1, <3>2, ShownEndIs
    <3> QED
      BY <2>1, <3>3
  <2>5. SH!ShownFrom(p) = [i \in 1 .. m |-> history_buf[p + i - 1]]
    <3>1. SH!ShownEnd(p) - p = m
      BY <1>4, <2>1, <2>4
    <3> QED
      BY <3>1 DEF SH!ShownFrom
  <2>6. \A i \in 1 .. m : history_buf[p + i - 1] = line[i]
    <3>1. ASSUME NEW i \in 1 .. m
          PROVE  history_buf[p + i - 1] = line[i]
      <4>1. i - 1 \in 0 .. w - 1 /\ i - 1 < m /\ p + (i - 1) = p + i - 1 /\ i - 1 + 1 = i
        BY <1>2, <1>4, <2>1
      <4> QED
        BY <1>6, <2>1, <4>1
    <3> QED
      BY <3>1
  <2>7. line = [i \in 1 .. m |-> line[i]]
    BY <1>3, <2>1
  <2>8. SH!ShownFrom(p) = line
    BY <2>5, <2>6, <2>7
  <2> QED
    BY <1>1, <1>7, <2>8
<1>8. CASE ~(Len(line) < w)
  <2>1. PICK next : next = p + w
    OBVIOUS
  <2>2. next \in 0 .. size /\ p \in 0 .. size /\ w <= Len(line)
    BY <1>2, <1>3, <1>4, <1>8, <2>1
  <2>3. PICK e \in next .. size :
          /\ \A byte \in next .. e - 1 : history_buf[byte] \notin {SH!Zero, SH!NewLine}
          /\ e = size \/ history_buf[e] \in {SH!Zero, SH!NewLine}
    BY <1>1, <1>4, <2>2, ShownEndExists
  <2>4. SH!ShownEnd(next) = e
    BY <1>1, <1>4, <2>2, <2>3, ShownEndIs
  <2>5. \A byte \in p .. e - 1 : history_buf[byte] \notin {SH!Zero, SH!NewLine}
    <3>1. ASSUME NEW byte \in p .. e - 1
          PROVE  history_buf[byte] \notin {SH!Zero, SH!NewLine}
      <4>1. CASE byte < next
        <5>1. byte - p \in 0 .. w - 1 /\ byte - p < Len(line) /\ p + (byte - p) = byte
          BY <1>2, <1>4, <2>1, <2>2, <1>3, <4>1
        <5> QED
          BY <1>6, <5>1
      <4>2. CASE ~(byte < next)
        <5>1. byte \in next .. e - 1
          BY <1>4, <2>1, <2>2, <2>3, <4>2
        <5> QED
          BY <2>3, <5>1
      <4> QED
        BY <4>1, <4>2
    <3> QED
      BY <3>1
  <2>6. SH!ShownEnd(p) = e
    <3>1. e \in p .. size
      BY <1>2, <1>4, <2>1, <2>3
    <3> QED
      BY <1>1, <1>4, <2>2, <2>3, <2>5, <3>1, ShownEndIs
  <2>7. PICK rest : rest = e - next
    OBVIOUS
  <2>8. rest \in Nat /\ e - p = w + rest /\ next = p + w
    BY <1>2, <1>4, <2>1, <2>2, <2>3, <2>7
  <2>9. PICK front, back : /\ front = SubSeq(line, 1, w)
                           /\ back = [i \in 1 .. rest |-> history_buf[next + i - 1]]
    OBVIOUS
  <2>10. SH!ShownFrom(next) = back
    BY <2>4, <2>7, <2>9 DEF SH!ShownFrom
  <2>11. SH!ShownFrom(p) = [i \in 1 .. w + rest |-> history_buf[p + i - 1]]
    BY <2>6, <2>8 DEF SH!ShownFrom
  <2>12. front = [i \in 1 .. w |-> line[i]]
    BY <1>2, <1>3, <2>2, <2>9
  <2>13. SH!ShownFrom(p) = front \o back
    <3>1. PICK S : S = { front[i] : i \in 1 .. w } \cup { back[i] : i \in 1 .. rest }
      OBVIOUS
    <3>2. /\ front \in Seq(S) /\ back \in Seq(S)
          /\ Len(front) = w /\ Len(back) = rest
      <4>1. front \in Seq(S) /\ Len(front) = w
        BY <1>2, <2>12, <3>1
      <4>2. back \in Seq(S) /\ Len(back) = rest
        BY <2>8, <2>9, <3>1
      <4> QED
        BY <4>1, <4>2
    <3>4. front \o back = [i \in 1 .. w + rest |-> IF i <= w THEN front[i] ELSE back[i - w]]
      <4>1. /\ front \o back \in Seq(S) /\ Len(front \o back) = w + rest
            /\ \A i \in 1 .. w + rest :
                 (front \o back)[i] = IF i <= w THEN front[i] ELSE back[i - w]
        BY <3>2, ConcatProperties
      <4>2. PICK both : both = front \o back
        OBVIOUS
      <4>3. both \in Seq(S) /\ Len(both) = w + rest
        BY <4>1, <4>2
      <4>4. both = [i \in 1 .. w + rest |-> both[i]]
        BY <4>3
      <4> QED
        BY <4>1, <4>2, <4>4
    <3>3. ASSUME NEW i \in 1 .. w + rest
          PROVE  history_buf[p + i - 1] = IF i <= w THEN front[i] ELSE back[i - w]
      <4>1. CASE i <= w
        <5>1. i - 1 \in 0 .. w - 1 /\ i - 1 < Len(line) /\ p + (i - 1) = p + i - 1
              /\ i - 1 + 1 = i /\ i \in 1 .. w
          BY <1>2, <1>3, <1>4, <2>2, <2>8, <4>1
        <5>2. history_buf[p + i - 1] = line[i]
          BY <1>6, <5>1
        <5> QED
          BY <2>12, <4>1, <5>1, <5>2
      <4>2. CASE ~(i <= w)
        <5>1. i - w \in 1 .. rest /\ next + (i - w) - 1 = p + i - 1
          BY <1>2, <1>4, <2>8, <4>2
        <5> QED
          BY <2>9, <4>2, <5>1
      <4> QED
        BY <4>1, <4>2
    <3> QED
      BY <2>11, <3>3, <3>4
  <2>14. CASE k = n
    <3>1. history_buf[next] = SH!Zero
      BY <1>1, <1>4, <2>1, <2>14 DEF HistoryInv
    <3>2. SH!ShownEnd(next) = next
      <4>1. next \in next .. size /\ \A byte \in next .. next - 1 : FALSE
        BY <1>4, <2>2
      <4> QED
        BY <1>1, <1>4, <2>2, <3>1, <4>1, ShownEndIs
    <3>3. rest = 0
      BY <1>4, <2>2, <2>4, <2>7, <3>2
    <3>4. front \in Seq(STRING) /\ back = <<>>
      BY <1>2, <1>3, <2>2, <2>9, <3>3
    <3>5. SH!ShownFrom(p) = front \o <<>>
      BY <2>13, <3>4
    <3> QED
      BY <1>1, <1>8, <2>9, <2>14, <3>5
  <2>15. CASE k # n
    BY <1>1, <1>4, <1>8, <2>1, <2>9, <2>10, <2>13, <2>15
  <2> QED
    BY <2>14, <2>15
<1> QED
  BY <1>7, <1>8

\* The list that the rows give is what was recorded.
LEMMA HistoryIsRecorded ==
  ASSUME HistoryInv
  PROVE  SH!HistoryInOrder
<1> SUFFICES ASSUME Len(recorded) < Rows
             PROVE  /\ history_count = Len(recorded)
                    /\ \A k \in 1 .. Len(recorded) :
                         SH!History[k] =
                           IF Len(recorded[k]) < Width THEN recorded[k]
                           ELSE SubSeq(recorded[k], 1, Width)
                                  \o (IF k = Len(recorded) THEN <<>> ELSE SH!History[k + 1])
  BY DEF SH!HistoryInOrder
<1>1. PICK n : n = Len(recorded)
  OBVIOUS
<1>2. n \in Nat /\ n < Rows /\ Rows \in Nat /\ history_index = n /\ history_count = n
  BY <1>1, ShellConstantsAre DEF HistoryInv
<1>3. ASSUME NEW k \in 1 .. n
      PROVE  SH!ShownRow(k - 1) = k - 1
  <2>1. PICK j : j = k - 1 /\ j \in 0 .. Rows - 1
    BY <1>2
  <2>2. n + j - n + Rows = j + Rows
    BY <1>2, <2>1
  <2>3. (j + Rows) % Rows = j
    BY <1>2, <2>1
  <2> QED
    BY <1>2, <2>1, <2>2, <2>3 DEF SH!ShownRow
<1>4. ASSUME NEW k \in 1 .. n
      PROVE  SH!History[k] = SH!ShownFrom(SH!RowStart(k - 1))
  BY <1>2, <1>3 DEF SH!History
<1>5. ASSUME NEW k \in 1 .. n
      PROVE  SH!History[k] =
               IF Len(recorded[k]) < Width THEN recorded[k]
               ELSE SubSeq(recorded[k], 1, Width)
                      \o (IF k = n THEN <<>> ELSE SH!History[k + 1])
  <2>1. SH!History[k] =
          IF Len(recorded[k]) < Width THEN recorded[k]
          ELSE SubSeq(recorded[k], 1, Width)
                 \o (IF k = n THEN <<>> ELSE SH!ShownFrom(SH!RowStart(k)))
    BY <1>1, <1>2, <1>4, LineIsShown
  <2>2. ASSUME k # n
        PROVE  SH!History[k + 1] = SH!ShownFrom(SH!RowStart(k))
    <3>1. k + 1 \in 1 .. n /\ k + 1 - 1 = k
      BY <1>2, <2>2
    <3> QED
      BY <1>4, <3>1
  <2> QED
    BY <2>1, <2>2
<1> QED
  BY <1>1, <1>2, <1>5

\* The history lists the lines that were typed, oldest first, as long as they are
\* fewer than its rows; one that fills its row runs into the line below
\* (sh.cpp:121-133, 199-213).
THEOREM HistoryIsInOrder == SH!Spec => []HistoryInOrder
<1>1. HistoryInv /\ [SH!Next]_(SH!shellVars) => HistoryInv'
  <2>1. ASSUME HistoryInv, UNCHANGED SH!shellVars
        PROVE  HistoryInv'
    BY <2>1 DEF HistoryInv, SH!shellVars
  <2> QED
    BY <2>1, RunKeepsHistory DEF SH!Next
<1>2. HistoryInv => HistoryInOrder
  BY HistoryIsRecorded DEF HistoryInOrder
<1> QED
  BY <1>1, <1>2, HistoryStarts, PTL DEF SH!Spec

-----------------------------------------------------------------------------
(* The line editor *)

\* The provers do not know that a literal is a string.
Char == STRING \cup {ED!NL, ED!NUL}
FileNames == STRING \cup {ED!NoFile, ED!TempFile}

\* In a line there is neither the newline that ends it nor the zero that ends a file.
Plain == Char \ {ED!NL, ED!NUL}
TextLine == { s \in Seq(Plain) : Len(s) <= MAX_LINE_LENGTH }
File == [name : FileNames, content : Seq(Char)]

\* The types of the editor.  A file that is being saved has its temporary file.
EditorInv ==
  /\ textBuffer \in [ED!Index -> TextLine]
  /\ totalLines \in 0 .. MAX_LINES
  /\ currentLineIndex \in 0 .. Word - 1
  /\ displayStartLineNumber \in 0 .. Word - 1
  /\ insertPosition \in {ED!NotInserting} \cup (0 .. Word - 1)
  /\ initialFileName \in FileNames /\ saving \in FileNames
  /\ directory \in Seq(File) /\ Len(directory) <= DirectoryEntries
  /\ saving # ED!NoFile => ED!Exists(directory, ED!TempFile)
  /\ written \in BOOLEAN /\ (written => saving # ED!NoFile)

\* The inner loop of loadFileContent ends, and in the content up to its end there
\* are neither zeroes nor newlines.
LEMMA LineEndIs ==
  ASSUME NEW content, NEW p \in Nat
  PROVE  /\ ED!LineEnd(content, p) \in p .. p + MAX_LINE_LENGTH
         /\ \A q \in p .. ED!LineEnd(content, p) - 1 : ED!At(content, q) \notin {ED!NL, ED!NUL}
         /\ \/ ED!LineEnd(content, p) = p + MAX_LINE_LENGTH
            \/ ED!At(content, ED!LineEnd(content, p)) \in {ED!NL, ED!NUL}
<1> DEFINE ends == { e \in p .. p + MAX_LINE_LENGTH :
                       e = p + MAX_LINE_LENGTH \/ ED!At(content, e) \in {ED!NL, ED!NUL} }
<1>1. MAX_LINE_LENGTH \in Nat
  BY ConsoleAssumption DEF ED!EdlinConstants
<1>2. ends \in SUBSET Nat /\ p + MAX_LINE_LENGTH \in ends
  BY <1>1
<1>3. \E e \in ends : \A y \in ends : e <= y
  BY <1>2, LeastExists
<1>4. ED!LineEnd(content, p) = CHOOSE e \in ends : \A y \in ends : e <= y
  BY DEF ED!LineEnd, ED!Min
<1> DEFINE end == ED!LineEnd(content, p)
<1>5. end \in ends /\ \A y \in ends : end <= y
  BY <1>3, <1>4
<1>6. ASSUME NEW q \in p .. end - 1
      PROVE  ED!At(content, q) \notin {ED!NL, ED!NUL}
  <2>1. q \notin ends
    BY <1>2, <1>5
  <2>2. q \in p .. p + MAX_LINE_LENGTH
    BY <1>1, <1>2, <1>5
  <2> QED
    BY <2>1, <2>2
<1> QED
  BY <1>5, <1>6

\* The next line starts behind this one, or at its end.
LEMMA NextLineIs ==
  ASSUME NEW content, NEW p \in Nat \ {0}
  PROVE  ED!NextLine(content, p) \in Nat \ {0}
<1> DEFINE e == ED!LineEnd(content, p)
<1>1. e \in p .. p + MAX_LINE_LENGTH
  BY LineEndIs
<1>2. ED!NextLine(content, p) = IF ED!At(content, e) = ED!NL THEN e + 1 ELSE e
  BY DEF ED!NextLine
<1> HIDE DEF e
<1> QED
  BY <1>1, <1>2

\* Every line that loadFileContent reads starts somewhere in the content, where the
\* one before it leads.
LEMMA LineStartIs ==
  ASSUME NEW content
  PROVE  /\ ED!LineStart(content) \in [0 .. MAX_LINES -> Nat \ {0}]
         /\ ED!LineStart(content)[0] = 1
         /\ \A k \in 1 .. MAX_LINES :
              ED!LineStart(content)[k] = ED!NextLine(content, ED!LineStart(content)[k - 1])
<1> DEFINE Starts(f) == f = [n \in 0 .. MAX_LINES |->
                               IF n = 0 THEN 1 ELSE ED!NextLine(content, f[n - 1])]
           places == Nat \ {0}
<1>1. MAX_LINES \in Nat
  BY ConsoleAssumption DEF ED!EdlinConstants
<1>2. PICK step \in [(1 .. MAX_LINES) \X places -> places] :
        \A k \in 1 .. MAX_LINES, p \in places : step[<<k, p>>] = ED!NextLine(content, p)
  <2> DEFINE s == [x \in (1 .. MAX_LINES) \X places |-> ED!NextLine(content, x[2])]
  <2>1. s \in [(1 .. MAX_LINES) \X places -> places]
    BY NextLineIs
  <2>2. \A k \in 1 .. MAX_LINES, p \in places : s[<<k, p>>] = ED!NextLine(content, p)
    OBVIOUS
  <2> HIDE DEF s, places
  <2> QED
    BY <2>1, <2>2
<1>3. 1 \in places
  OBVIOUS
<1>4. PICK f : Solves(f, MAX_LINES, places, 1, step)
  <2> HIDE DEF places
  <2> QED
    BY <1>1, <1>2, <1>3, SolutionExists
<1>5. ASSUME NEW k \in 0 .. MAX_LINES, k # 0
      PROVE  f[k] = ED!NextLine(content, f[k - 1])
  <2>1. k \in 1 .. MAX_LINES /\ k - 1 \in 0 .. MAX_LINES
    BY <1>1, <1>5
  <2>2. f[k - 1] \in places
    BY <1>4, <2>1 DEF Solves
  <2> QED
    BY <1>2, <1>4, <2>1, <2>2 DEF Solves
<1>6. Starts(f)
  BY <1>4, <1>5 DEF Solves
<1>7. ED!LineStart(content) = CHOOSE g : Starts(g)
  BY DEF ED!LineStart
<1>8. PICK start : start = ED!LineStart(content)
  OBVIOUS
<1>9. Starts(start)
  BY <1>6, <1>7, <1>8
<1>10. ASSUME NEW k \in 1 .. MAX_LINES, start[k - 1] = f[k - 1]
       PROVE  start[k] = f[k]
  <2>1. k \in 0 .. MAX_LINES /\ k # 0
    BY <1>1
  <2> QED
    BY <1>5, <1>9, <1>10, <2>1
<1>11. start[0] = f[0]
  <2>1. 0 \in 0 .. MAX_LINES
    BY <1>1
  <2> QED
    BY <1>4, <1>9, <2>1 DEF Solves
<1>12. \A k \in 0 .. MAX_LINES : start[k] = f[k]
  <2> DEFINE same == { k \in 0 .. MAX_LINES : start[k] = f[k] }
  <2>1. MAX_LINES \in Nat
    BY <1>1
  <2>2. 0 \in same
    BY <1>11, <2>1
  <2>3. ASSUME NEW k \in 1 .. MAX_LINES, k - 1 \in same
        PROVE  k \in same
    BY <1>10, <2>1, <2>3
  <2>4. 0 .. MAX_LINES \subseteq same
    <3> HIDE DEF same
    <3> QED
      BY ONLY <2>1, <2>2, <2>3, AllPlaces
  <2> QED
    BY <2>4
<1>13. start = [k \in 0 .. MAX_LINES |-> start[k]]
  BY <1>9
<1>14. start \in [0 .. MAX_LINES -> places] /\ start[0] = 1
  <2>1. 0 \in 0 .. MAX_LINES
    BY <1>1
  <2> QED
    BY <1>4, <1>12, <1>13, <2>1 DEF Solves
<1>15. ASSUME NEW k \in 1 .. MAX_LINES
       PROVE  start[k] = ED!NextLine(content, start[k - 1])
  <2>1. k \in 0 .. MAX_LINES /\ k # 0
    BY <1>1
  <2> QED
    BY <1>9, <2>1
<1> QED
  BY <1>8, <1>14, <1>15

\* A file is loaded as lines that fit the buffer, whatever it holds.
LEMMA LoadedIs ==
  ASSUME NEW content \in Seq(Char)
  PROVE  /\ ED!loadFileContent(content) \in Seq(TextLine)
         /\ Len(ED!loadFileContent(content)) <= MAX_LINES
<1> DEFINE start == ED!LineStart(content)
           counts == { n \in 0 .. MAX_LINES : n = MAX_LINES \/ ED!At(content, start[n]) = ED!NUL }
           count == CHOOSE n \in counts : \A m \in counts : n <= m
           line(n) == SubSeq(content, start[n - 1], ED!LineEnd(content, start[n - 1]) - 1)
<1>1. MAX_LINES \in Nat /\ MAX_LINE_LENGTH \in Nat
  BY ConsoleAssumption DEF ED!EdlinConstants
<1>2. ED!loadFileContent(content) = [n \in 1 .. count |-> line(n)]
  BY DEF ED!loadFileContent, ED!Min
<1>3. count \in 0 .. MAX_LINES
  <2>1. counts \in SUBSET Nat /\ MAX_LINES \in counts
    BY <1>1
  <2>2. \E n \in counts : \A m \in counts : n <= m
    BY <2>1, LeastExists
  <2>3. count \in counts
    BY <2>2
  <2> QED
    BY <2>3
<1>4. start \in [0 .. MAX_LINES -> Nat \ {0}]
  BY LineStartIs
<1> HIDE DEF count, start
<1>5. ASSUME NEW n \in 1 .. count
      PROVE  line(n) \in TextLine
  <2> DEFINE p == start[n - 1]
             e == ED!LineEnd(content, p)
  <2>1. p \in Nat \ {0}
    <3>1. n - 1 \in 0 .. MAX_LINES
      BY <1>1, <1>3
    <3> QED
      BY <1>4, <3>1
  <2> HIDE DEF p
  <2>2. /\ e \in p .. p + MAX_LINE_LENGTH
        /\ \A q \in p .. e - 1 : ED!At(content, q) \notin {ED!NL, ED!NUL}
    BY <2>1, LineEndIs
  <2> HIDE DEF e
  <2>3. ASSUME NEW q \in p .. e - 1
        PROVE  content[q] \in Plain
    <3>1. q <= Len(content) /\ content[q] \notin {ED!NL, ED!NUL}
      BY <2>2 DEF ED!At
    <3>2. q \in 1 .. Len(content)
      BY <2>1, <2>2, <3>1
    <3> QED
      BY <3>1, <3>2 DEF Plain
  <2>4. p \in Int /\ e - 1 \in Int
    BY <1>1, <2>1, <2>2
  <2> DEFINE last == e - 1
  <2> HIDE DEF last
  <2>5. /\ SubSeq(content, p, last) \in Seq(Plain)
        /\ Len(SubSeq(content, p, last)) = IF p <= last THEN last - p + 1 ELSE 0
    BY <2>3, <2>4, SubSeqProperties DEF last
  <2>6. (IF p <= last THEN last - p + 1 ELSE 0) <= MAX_LINE_LENGTH
    BY <1>1, <2>1, <2>2 DEF last
  <2>7. SubSeq(content, p, last) \in TextLine
    BY <2>5, <2>6 DEF TextLine
  <2> QED
    BY <2>7 DEF p, e, last
<1> HIDE DEF line
<1> DEFINE loaded == [n \in 1 .. count |-> line(n)]
<1>6. count \in Nat /\ loaded \in [1 .. count -> TextLine]
  BY <1>1, <1>3, <1>5
<1>7. loaded \in Seq(TextLine) /\ Len(loaded) = count
  <2> HIDE DEF loaded
  <2> QED
    BY <1>6
<1> QED
  BY <1>1, <1>2, <1>3, <1>7

\* fsFindFile finds the first entry that is there.
LEMMA FoundIs ==
  ASSUME NEW dir \in Seq(File), NEW name, ED!Exists(dir, name)
  PROVE  /\ ED!Found(dir, name) \in 1 .. Len(dir) /\ dir[ED!Found(dir, name)].name = name
         /\ \A j \in 1 .. Len(dir) : dir[j].name = name => ED!Found(dir, name) <= j
<1> DEFINE places == ED!Positions(dir, name)
<1>1. places \in SUBSET Nat /\ places # {}
  BY DEF ED!Positions, ED!Exists
<1>2. \E i \in places : \A j \in places : i <= j
  BY <1>1, LeastExists
<1>3. ED!Found(dir, name) \in places /\ \A j \in places : ED!Found(dir, name) <= j
  BY <1>2 DEF ED!Found
<1> QED
  BY <1>3 DEF ED!Positions

\* What the editor starts with.
LEMMA LoadedLinesAre ==
  ASSUME NEW dir \in Seq(File), NEW name, name = ED!NoFile \/ ED!Exists(dir, name)
  PROVE  /\ ED!LoadedLines(name, dir) \in Seq(TextLine)
         /\ Len(ED!LoadedLines(name, dir)) \in 0 .. MAX_LINES
         /\ ED!LoadedBuffer(ED!LoadedLines(name, dir)) \in [ED!Index -> TextLine]
<1> DEFINE loaded == ED!LoadedLines(name, dir)
<1>1. MAX_LINES \in Nat /\ MAX_LINE_LENGTH \in Nat
  BY ConsoleAssumption DEF ED!EdlinConstants
<1>2. loaded \in Seq(TextLine) /\ Len(loaded) <= MAX_LINES
  <2>1. CASE name = ED!NoFile
    BY <1>1, <2>1 DEF ED!LoadedLines
  <2>2. CASE name # ED!NoFile
    <3> DEFINE content == dir[ED!Found(dir, name)].content
    <3>1. content \in Seq(Char)
      <4>1. dir[ED!Found(dir, name)] \in File
        BY <2>2, FoundIs
      <4> QED
        BY <4>1 DEF File
    <3>2. loaded = ED!loadFileContent(content)
      BY <2>2 DEF ED!LoadedLines
    <3> HIDE DEF content
    <3> QED
      BY <3>1, <3>2, LoadedIs
  <2> QED
    BY <2>1, <2>2
<1> HIDE DEF loaded
<1>3. <<>> \in TextLine
  BY <1>1 DEF TextLine
<1>4. ASSUME NEW i \in ED!Index
      PROVE  (IF i < Len(loaded) THEN loaded[i + 1] ELSE <<>>) \in TextLine
  <2>1. i \in Nat
    BY DEF ED!Index
  <2>2. CASE i < Len(loaded)
    <3>1. i + 1 \in 1 .. Len(loaded)
      BY <1>2, <2>1, <2>2
    <3> QED
      BY <1>2, <2>2, <3>1
  <2> QED
    BY <1>3, <2>2
<1>5. ED!LoadedBuffer(loaded) \in [ED!Index -> TextLine]
  BY <1>4 DEF ED!LoadedBuffer
<1> QED
  BY <1>1, <1>2, <1>5 DEF loaded

\* The text is the first lines of the buffer.
LEMMA TextIs ==
  ASSUME EditorInv
  PROVE  /\ ED!Text = [n \in 1 .. totalLines |-> textBuffer[n - 1]]
         /\ ED!Text \in Seq(TextLine) /\ Len(ED!Text) = totalLines
         /\ \A n \in 1 .. totalLines : ED!Text[n] = textBuffer[n - 1]
<1> DEFINE text == [n \in 1 .. totalLines |-> textBuffer[n - 1]]
<1>1. totalLines \in Nat /\ totalLines <= MAX_LINES /\ MAX_LINES \in Nat
  BY ConsoleAssumption DEF EditorInv, ED!EdlinConstants
<1>2. ED!Text = text
  <2>1. (IF totalLines < MAX_LINES THEN totalLines ELSE MAX_LINES) = totalLines
    BY <1>1
  <2> QED
    BY <2>1 DEF ED!Text
<1>3. text \in [1 .. totalLines -> TextLine]
  <2>1. ASSUME NEW n \in 1 .. totalLines
        PROVE  textBuffer[n - 1] \in TextLine
    <3>1. n - 1 \in ED!Index
      BY <1>1 DEF ED!Index
    <3> QED
      BY <3>1 DEF EditorInv
  <2> QED
    BY <2>1
<1>4. \A n \in 1 .. totalLines : text[n] = textBuffer[n - 1]
  OBVIOUS
<1> HIDE DEF text
<1>5. text \in Seq(TextLine) /\ Len(text) = totalLines
  BY <1>1, <1>3
<1> QED
  BY <1>2, <1>4, <1>5 DEF text

\* The characters up to each line: those up to the line before, this line, a newline.
Gathers(g, text) ==
  /\ g \in [0 .. Len(text) -> Seq(Char)] /\ g[0] = <<>>
  /\ \A k \in 1 .. Len(text) : g[k] = g[k - 1] \o Append(text[k], ED!NL)

\* The characters of a text are gathered line by line.
LEMMA CharactersAre ==
  ASSUME NEW text \in Seq(TextLine)
  PROVE  /\ ED!Characters(text) \in Seq(Char)
         /\ \E g : Gathers(g, text) /\ ED!Characters(text) = g[Len(text)]
<1> DEFINE pieces == [n \in DOMAIN text |-> Append(text[n], ED!NL)]
           size == Len(text)
           strings == Seq(Char)
           Flattens(f) == f = [i \in 1 .. Len(pieces) |->
                                 IF i = 1 THEN pieces[i] ELSE f[i - 1] \o pieces[i]]
<1>1. size \in Nat /\ DOMAIN text = 1 .. size
  OBVIOUS
<1>2. ASSUME NEW n \in 1 .. size
      PROVE  Append(text[n], ED!NL) \in Seq(Char)
  <2>1. text[n] \in Seq(Char)
    BY DEF TextLine, Plain
  <2> QED
    BY <2>1 DEF Char
<1>3. /\ pieces \in [1 .. size -> Seq(Char)] /\ Len(pieces) = size
      /\ \A n \in 1 .. size : pieces[n] = Append(text[n], ED!NL)
  <2>1. pieces \in [1 .. size -> Seq(Char)] /\ \A n \in 1 .. size : pieces[n] = Append(text[n], ED!NL)
    BY <1>1, <1>2
  <2> HIDE DEF pieces, size
  <2>2. pieces \in Seq(Seq(Char)) /\ Len(pieces) = size
    BY <1>1, <2>1
  <2> QED
    BY <2>1, <2>2
<1>4. ED!Characters(text) = ED!FlattenSeq(pieces)
  BY DEF ED!Characters
<1> HIDE DEF pieces, size
<1>5. PICK step :
        /\ step \in [(1 .. size) \X strings -> strings]
        /\ \A k \in 1 .. size, s \in strings : step[<<k, s>>] = s \o pieces[k]
  <2> DEFINE next == [x \in (1 .. size) \X strings |-> x[2] \o pieces[x[1]]]
  <2>1. \A k \in 1 .. size, s \in strings : s \o pieces[k] \in strings
    BY <1>3, ConcatProperties
  <2>2. next \in [(1 .. size) \X strings -> strings]
    <3> HIDE DEF strings
    <3> QED
      BY <2>1
  <2>3. \A k \in 1 .. size, s \in strings : next[<<k, s>>] = s \o pieces[k]
    OBVIOUS
  <2> HIDE DEF next, strings
  <2> QED
    BY <2>2, <2>3
<1>6. <<>> \in strings
  OBVIOUS
<1>7. PICK g : Solves(g, size, strings, <<>>, step)
  <2> HIDE DEF strings
  <2> QED
    BY <1>1, <1>5, <1>6, SolutionExists
<1>8. /\ g \in [0 .. size -> strings] /\ g[0] = <<>>
      /\ \A k \in 1 .. size : k - 1 \in 0 .. size /\ g[k] = g[k - 1] \o pieces[k]
  <2>1. ASSUME NEW k \in 1 .. size
        PROVE  k - 1 \in 0 .. size /\ g[k] = g[k - 1] \o pieces[k]
    <3>1. k - 1 \in 0 .. size
      BY <1>1
    <3>2. g[k - 1] \in strings
      BY <1>7, <3>1 DEF Solves
    <3> QED
      BY <1>5, <1>7, <3>1, <3>2 DEF Solves
  <2> QED
    BY <1>7, <2>1 DEF Solves
<1>9. Gathers(g, text)
  BY <1>3, <1>8 DEF Gathers, size
<1>10. ED!FlattenSeq(pieces) = g[size]
  <2>1. CASE size = 0
    <3>1. pieces = <<>>
      BY <1>3, <2>1
    <3>2. ED!FlattenSeq(pieces) = pieces
      BY <1>3, <2>1 DEF ED!FlattenSeq
    <3> QED
      BY <1>8, <2>1, <3>1, <3>2
  <2>2. CASE size # 0
    <3>1. PICK f : f = [i \in 1 .. size |-> g[i]]
      OBVIOUS
    <3>2. 1 \in 1 .. size /\ g[1] = pieces[1]
      <4>1. 1 \in 1 .. size /\ 1 - 1 = 0
        BY <1>1, <2>2
      <4>2. g[1] = <<>> \o pieces[1] /\ pieces[1] \in Seq(Char)
        BY <1>3, <1>8, <4>1
      <4> QED
        BY <4>1, <4>2
    <3>3. ASSUME NEW i \in 1 .. size
          PROVE  f[i] = IF i = 1 THEN pieces[i] ELSE f[i - 1] \o pieces[i]
      <4>1. CASE i = 1
        BY <3>1, <3>2, <4>1
      <4>2. CASE i # 1
        <5>1. i - 1 \in 1 .. size
          BY <1>1, <4>2
        <5> QED
          BY <1>8, <3>1, <4>2, <5>1
      <4> QED
        BY <4>1, <4>2
    <3>4. Flattens(f)
      BY <1>3, <3>1, <3>3
    <3>5. PICK h : h = CHOOSE x : Flattens(x)
      OBVIOUS
    <3>6. Flattens(h)
      BY <3>4, <3>5
    <3>7. ED!FlattenSeq(pieces) = h[size]
      BY <1>3, <2>2, <3>5 DEF ED!FlattenSeq
    <3>8. ASSUME NEW i \in 1 .. size
          PROVE  h[i] = IF i = 1 THEN pieces[i] ELSE h[i - 1] \o pieces[i]
      BY <1>3, <3>6
    <3>9. PICK a : a = [k \in 0 .. size |-> IF k = 0 THEN <<>> ELSE h[k]]
      OBVIOUS
    <3>10. ASSUME NEW k \in 1 .. size, a[k - 1] = g[k - 1]
           PROVE  a[k] = g[k]
      <4>1. k \in 0 .. size /\ k - 1 \in 0 .. size /\ k # 0
        BY <1>1
      <4>2. a[k] = h[k]
        BY <3>9, <4>1
      <4>3. CASE k = 1
        BY <3>2, <3>8, <4>2, <4>3
      <4>4. CASE k # 1
        <5>1. a[k - 1] = h[k - 1]
          BY <3>9, <4>1, <4>4
        <5> QED
          BY <1>8, <3>8, <3>10, <4>2, <4>4, <5>1
      <4> QED
        BY <4>3, <4>4
    <3>11. a[0] = g[0]
      BY <1>1, <1>8, <3>9
    <3>12. a[size] = g[size]
      <4> DEFINE same == { k \in 0 .. size : a[k] = g[k] }
      <4>1. size \in Nat
        BY <1>1
      <4>2. 0 \in same
        BY <3>11, <4>1
      <4>3. ASSUME NEW k \in 1 .. size, k - 1 \in same
            PROVE  k \in same
        BY <3>10, <4>1, <4>3
      <4>4. 0 .. size \subseteq same
        <5> HIDE DEF same
        <5> QED
          BY ONLY <4>1, <4>2, <4>3, AllPlaces
      <4> QED
        BY <4>1, <4>4
    <3>13. a[size] = h[size]
      BY <1>1, <2>2, <3>9
    <3> QED
      BY <3>7, <3>12, <3>13
  <2> QED
    BY <2>1, <2>2
<1> QED
  BY <1>1, <1>4, <1>8, <1>9, <1>10 DEF size

\* createFile keeps what is there, and the directory its room.
LEMMA CreatedIs ==
  ASSUME NEW dir \in Seq(File), Len(dir) <= DirectoryEntries, NEW name \in FileNames,
         NEW content \in Seq(Char)
  PROVE  /\ ED!Created(dir, name, content) \in Seq(File)
         /\ Len(ED!Created(dir, name, content)) <= DirectoryEntries
         /\ \A i \in 1 .. Len(dir) :
              i \in 1 .. Len(ED!Created(dir, name, content)) /\ ED!Created(dir, name, content)[i] = dir[i]
<1>1. [name |-> name, content |-> content] \in File
  BY DEF File
<1>2. DirectoryEntries \in Nat
  BY ConsoleAssumption DEF ED!EdlinConstants
<1> QED
  BY <1>1, <1>2 DEF ED!Created

\* One element goes away.
LEMMA RemovedIs ==
  ASSUME NEW S, NEW s \in Seq(S), NEW i \in 1 .. Len(s)
  PROVE  /\ ED!RemoveAt(s, i) \in Seq(S) /\ Len(ED!RemoveAt(s, i)) = Len(s) - 1
         /\ \A k \in 1 .. Len(s) - 1 :
              ED!RemoveAt(s, i)[k] = IF k < i THEN s[k] ELSE s[k + 1]
<1> DEFINE n == Len(s)
           last == i - 1
           first == i + 1
           front == SubSeq(s, 1, last)
           back == SubSeq(s, first, n)
<1>1. n \in Nat /\ \A j \in 1 .. n : s[j] \in S
  OBVIOUS
<1>2. last \in Int /\ first \in Int /\ last < n /\ last >= 0 /\ first = last + 2
  OBVIOUS
<1>3. ED!RemoveAt(s, i) = front \o back
  BY DEF ED!RemoveAt
<1>4. i = last + 1
  OBVIOUS
<1> HIDE DEF n, last, first
<1>5. front \in Seq(S) /\ Len(front) = last /\ \A k \in 1 .. last : front[k] = s[k]
  <2>1. /\ front \in Seq(S) /\ Len(front) = IF 1 <= last THEN last - 1 + 1 ELSE 0
        /\ \A k \in 1 .. last - 1 + 1 : front[k] = s[1 + k - 1]
    BY <1>1, <1>2, SubSeqProperties
  <2>2. ASSUME NEW k \in 1 .. last
        PROVE  k \in 1 .. last - 1 + 1 /\ 1 + k - 1 = k
    BY <1>2
  <2>3. (IF 1 <= last THEN last - 1 + 1 ELSE 0) = last
    BY <1>2
  <2> HIDE DEF front
  <2> QED
    BY <2>1, <2>2, <2>3
<1>6. back \in Seq(S) /\ Len(back) = n - 1 - last /\ \A k \in 1 .. n - 1 - last : back[k] = s[last + k + 1]
  <2>1. /\ back \in Seq(S) /\ Len(back) = IF first <= n THEN n - first + 1 ELSE 0
        /\ \A k \in 1 .. n - first + 1 : back[k] = s[first + k - 1]
    BY <1>1, <1>2, SubSeqProperties
  <2>2. ASSUME NEW k \in 1 .. n - 1 - last
        PROVE  k \in 1 .. n - first + 1 /\ first + k - 1 = last + k + 1
    BY <1>1, <1>2
  <2>3. (IF first <= n THEN n - first + 1 ELSE 0) = n - 1 - last
    BY <1>1, <1>2
  <2> HIDE DEF back
  <2> QED
    BY <2>1, <2>2, <2>3
<1> HIDE DEF front, back
<1>7. /\ front \o back \in Seq(S) /\ Len(front \o back) = Len(front) + Len(back)
      /\ \A k \in 1 .. Len(front) + Len(back) :
           (front \o back)[k] = IF k <= Len(front) THEN front[k] ELSE back[k - Len(front)]
  BY <1>5, <1>6, ConcatProperties
<1>8. Len(front) + Len(back) = n - 1
  BY <1>1, <1>2, <1>5, <1>6
<1>9. ASSUME NEW k \in 1 .. n - 1
      PROVE  (front \o back)[k] = IF k < i THEN s[k] ELSE s[k + 1]
  <2>1. (front \o back)[k] = IF k <= last THEN front[k] ELSE back[k - last]
    BY <1>5, <1>7, <1>8
  <2>2. CASE k <= last
    BY <1>1, <1>2, <1>4, <1>5, <2>1, <2>2
  <2>3. CASE ~(k <= last)
    <3>1. k - last \in 1 .. n - 1 - last /\ last + (k - last) + 1 = k + 1 /\ ~(k < i)
      BY <1>1, <1>2, <1>4, <2>3
    <3>2. back[k - last] = s[last + (k - last) + 1]
      BY <1>6, <3>1
    <3> QED
      BY <2>1, <2>3, <3>1, <3>2
  <2> QED
    BY <2>2, <2>3
<1> QED
  BY <1>3, <1>7, <1>8, <1>9 DEF n

\* One element comes in.
LEMMA InsertedIs ==
  ASSUME NEW s \in Seq(TextLine), NEW i \in 1 .. Len(s) + 1, NEW e \in TextLine,
         NEW r, r = ED!InsertAt(s, i, e),
         NEW one, one = [k \in 1 .. Len(s) + 1 |->
                           IF k < i THEN s[k] ELSE IF k = i THEN e ELSE s[k - 1]]
  PROVE  r \in Seq(TextLine) /\ Len(r) = Len(s) + 1 /\ r = one
<1> DEFINE n == Len(s)
           last == i - 1
           front == SubSeq(s, 1, last)
           back == SubSeq(s, i, n)
           more == front \o <<e>>
<1>1. n \in Nat /\ i \in 1 .. n + 1 /\ \A j \in 1 .. n : s[j] \in TextLine
  OBVIOUS
<1>2. last \in Int /\ last <= n /\ last >= 0 /\ i = last + 1
  OBVIOUS
<1>3. r = more \o back
  BY DEF ED!InsertAt
<1>4. <<e>> \in Seq(TextLine) /\ Len(<<e>>) = 1 /\ <<e>>[1] = e
  OBVIOUS
<1> HIDE DEF n, last
<1>5. front \in Seq(TextLine) /\ Len(front) = last /\ \A k \in 1 .. last : front[k] = s[k]
  <2>1. /\ front \in Seq(TextLine) /\ Len(front) = IF 1 <= last THEN last - 1 + 1 ELSE 0
        /\ \A k \in 1 .. last - 1 + 1 : front[k] = s[1 + k - 1]
    BY <1>1, <1>2, SubSeqProperties
  <2>2. ASSUME NEW k \in 1 .. last
        PROVE  k \in 1 .. last - 1 + 1 /\ 1 + k - 1 = k
    BY <1>2
  <2>3. (IF 1 <= last THEN last - 1 + 1 ELSE 0) = last
    BY <1>2
  <2> HIDE DEF front
  <2> QED
    BY <2>1, <2>2, <2>3
<1>6. back \in Seq(TextLine) /\ Len(back) = n - last /\ \A k \in 1 .. n - last : back[k] = s[last + k]
  <2>1. /\ back \in Seq(TextLine) /\ Len(back) = IF i <= n THEN n - i + 1 ELSE 0
        /\ \A k \in 1 .. n - i + 1 : back[k] = s[i + k - 1]
    BY <1>1, <1>2, SubSeqProperties
  <2>2. ASSUME NEW k \in 1 .. n - last
        PROVE  k \in 1 .. n - i + 1 /\ i + k - 1 = last + k
    BY <1>1, <1>2
  <2>3. (IF i <= n THEN n - i + 1 ELSE 0) = n - last
    BY <1>1, <1>2
  <2> HIDE DEF back
  <2> QED
    BY <2>1, <2>2, <2>3
<1> HIDE DEF front, back
<1>7. more \in Seq(TextLine) /\ Len(more) = last + 1 /\ more[last + 1] = e /\ \A k \in 1 .. last : more[k] = s[k]
  <2>1. /\ more \in Seq(TextLine) /\ Len(more) = Len(front) + Len(<<e>>)
        /\ \A k \in 1 .. Len(front) + Len(<<e>>) :
             more[k] = IF k <= Len(front) THEN front[k] ELSE <<e>>[k - Len(front)]
    BY <1>4, <1>5, ConcatProperties
  <2>2. Len(front) = last /\ Len(<<e>>) = 1 /\ last + 1 - last = 1 /\ ~(last + 1 <= last)
    BY <1>2, <1>4, <1>5
  <2> HIDE DEF more
  <2>3. more[last + 1] = e
    BY <1>2, <1>4, <2>1, <2>2
  <2>4. ASSUME NEW k \in 1 .. last
        PROVE  more[k] = s[k]
    BY <1>2, <1>5, <2>1, <2>2
  <2> QED
    BY <2>1, <2>2, <2>3, <2>4
<1> HIDE DEF more
<1>8. /\ more \o back \in Seq(TextLine) /\ Len(more \o back) = Len(more) + Len(back)
      /\ \A k \in 1 .. Len(more) + Len(back) :
           (more \o back)[k] = IF k <= Len(more) THEN more[k] ELSE back[k - Len(more)]
  BY <1>6, <1>7, ConcatProperties
<1>9. Len(more) + Len(back) = n + 1
  BY <1>1, <1>2, <1>6, <1>7
<1>10. ASSUME NEW k \in 1 .. n + 1
       PROVE  (more \o back)[k] = IF k < i THEN s[k] ELSE IF k = i THEN e ELSE s[k - 1]
  <2>1. (more \o back)[k] = IF k <= last + 1 THEN more[k] ELSE back[k - (last + 1)]
    BY <1>7, <1>8, <1>9
  <2>2. CASE k <= last
    BY <1>1, <1>2, <1>7, <2>1, <2>2
  <2>3. CASE k = last + 1
    BY <1>1, <1>2, <1>7, <2>1, <2>3
  <2>4. CASE k > last + 1
    <3>1. /\ k - (last + 1) \in 1 .. n - last /\ last + (k - (last + 1)) = k - 1
          /\ ~(k < i) /\ k # i /\ ~(k <= last + 1)
      BY <1>1, <1>2, <2>4
    <3>2. back[k - (last + 1)] = s[last + (k - (last + 1))]
      BY <1>6, <3>1
    <3> QED
      BY <2>1, <3>1, <3>2
  <2>5. k <= last \/ k = last + 1 \/ k > last + 1
    BY <1>1, <1>2
  <2> QED
    BY <2>2, <2>3, <2>4, <2>5
<1>11. r \in Seq(TextLine) /\ Len(r) = n + 1
  BY <1>3, <1>8, <1>9
<1>12. r = [k \in 1 .. n + 1 |-> r[k]]
  BY <1>11
<1> QED
  BY <1>3, <1>10, <1>11, <1>12 DEF n

\* The pages of a file are zeroed.
LEMMA PagesAre ==
  ASSUME NEW size \in Nat
  PROVE  ED!Zeroes(ED!Pages(size)) \in Seq(Char)
<1> DEFINE total == ED!Pages(size) * PAGE_SIZE
<1>1. PAGE_SIZE \in Nat \ {0}
  BY ConsoleAssumption DEF ED!EdlinConstants
<1>2. ED!Pages(size) \in Nat
  BY <1>1 DEF ED!Pages
<1>3. total \in Nat
  <2> HIDE DEF total
  <2>1. \A a, b \in Nat : a * b \in Nat
    OBVIOUS
  <2> QED
    BY <1>1, <1>2, <2>1 DEF total
<1>4. ED!Zeroes(ED!Pages(size)) = [i \in 1 .. total |-> ED!NUL]
  BY DEF ED!Zeroes
<1> HIDE DEF total
<1>5. [i \in 1 .. total |-> ED!NUL] \in [1 .. total -> Char]
  BY DEF Char
<1> QED
  BY <1>3, <1>4, <1>5

\* What is stored into them are characters.
LEMMA OverwrittenIs ==
  ASSUME NEW content \in Seq(Char), NEW chars \in Seq(Char)
  PROVE  ED!Overwritten(content, chars) \in Seq(Char)
<1> DEFINE n == Len(content)
           stored == [i \in 1 .. n |-> IF i <= Len(chars) THEN chars[i] ELSE content[i]]
<1>1. n \in Nat /\ Len(chars) \in Nat /\ DOMAIN content = 1 .. n
  OBVIOUS
<1>2. ED!Overwritten(content, chars) = stored
  BY <1>1 DEF ED!Overwritten
<1>3. stored \in [1 .. n -> Char]
  <2>1. ASSUME NEW i \in 1 .. n
        PROVE  (IF i <= Len(chars) THEN chars[i] ELSE content[i]) \in Char
    <3>1. i <= Len(chars) => i \in 1 .. Len(chars)
      BY <1>1
    <3> QED
      BY <3>1
  <2> QED
    BY <2>1
<1> HIDE DEF stored, n
<1> QED
  BY <1>1, <1>2, <1>3

\* What the constants are.
LEMMA EditorConstants ==
  /\ MAX_LINES \in Nat \ {0} /\ MAX_LINE_LENGTH \in Nat /\ MAX_DISPLAY_LINES \in Nat \ {0}
  /\ DirectoryEntries \in Nat \ {0} /\ Word \in Nat /\ Word > MAX_LINES
  /\ TypedLine \subseteq TextLine
  /\ TypedNumber \subseteq 0 .. Word - 1
  /\ FileName \subseteq FileNames
  /\ InitialFile \in File
  /\ ED!NoFile \in FileNames /\ ED!TempFile \in FileNames
<1>1. ASSUME NEW line \in TypedLine
      PROVE  line \in TextLine
  <2>1. /\ line \in Seq(STRING) /\ Len(line) <= MAX_LINE_LENGTH
        /\ \A i \in DOMAIN line : line[i] \notin {ED!NL, ED!NUL}
    BY ConsoleAssumption DEF ED!EdlinConstants
  <2>2. ASSUME NEW i \in 1 .. Len(line)
        PROVE  line[i] \in Plain
    BY <2>1 DEF Plain, Char
  <2>3. line \in Seq(Plain)
    <3>1. line \in [1 .. Len(line) -> Plain] /\ Len(line) \in Nat
      BY <2>1, <2>2
    <3> QED
      BY <3>1
  <2> QED
    BY <2>1, <2>3 DEF TextLine
<1>2. InitialFile \in File
  <2>1. InitialFile \in [name : STRING, content : Seq(STRING)]
    BY ConsoleAssumption DEF ED!EdlinConstants
  <2>2. Seq(STRING) \subseteq Seq(Char)
    BY DEF Char
  <2> QED
    BY <2>1, <2>2 DEF File, FileNames
<1> QED
  BY <1>1, <1>2, ConsoleAssumption DEF ED!EdlinConstants, FileNames

\* The editor starts on an empty text or on the file there is.
LEMMA EditorStarts == ED!Init => EditorInv
<1> SUFFICES ASSUME ED!Init
             PROVE  EditorInv
  OBVIOUS
<1> DEFINE content == ED!Overwritten(ED!Zeroes(ED!Pages(Len(InitialFile.content))), InitialFile.content)
           file == [InitialFile EXCEPT !.content = content]
<1>1. content \in Seq(Char)
  <2>1. InitialFile.content \in Seq(Char)
    BY EditorConstants DEF File
  <2>2. Len(InitialFile.content) \in Nat
    BY <2>1
  <2> QED
    BY <2>1, <2>2, PagesAre, OverwrittenIs
<1>2. file \in File /\ file.name = InitialFile.name
  <2> HIDE DEF content
  <2> QED
    BY <1>1, EditorConstants DEF File
<1>3. directory = IF InitialFile.name = ED!NoFile THEN <<>> ELSE <<file>>
  BY DEF ED!Init
<1> HIDE DEF file
<1>4. /\ directory \in Seq(File) /\ Len(directory) <= 1
      /\ InitialFile.name # ED!NoFile => Len(directory) = 1 /\ directory[1].name = InitialFile.name
  BY <1>2, <1>3
<1>5. initialFileName = ED!NoFile \/ ED!Exists(directory, initialFileName)
  <2>1. initialFileName \in {ED!NoFile, InitialFile.name}
    BY DEF ED!Init
  <2>2. ASSUME initialFileName # ED!NoFile
        PROVE  ED!Exists(directory, initialFileName)
    <3>1. 1 \in DOMAIN directory /\ directory[1].name = initialFileName
      BY <1>4, <2>1, <2>2
    <3> QED
      BY <3>1 DEF ED!Exists, ED!Positions
  <2> QED
    BY <2>2
<1>6. /\ textBuffer \in [ED!Index -> TextLine]
      /\ totalLines \in 0 .. MAX_LINES
  BY <1>4, <1>5, LoadedLinesAre DEF ED!Init
<1>7. /\ currentLineIndex = 0 /\ displayStartLineNumber = 1
      /\ insertPosition = ED!NotInserting /\ saving = ED!NoFile /\ written = FALSE
      /\ initialFileName \in {ED!NoFile, InitialFile.name}
  BY DEF ED!Init
<1>8. InitialFile.name \in FileNames
  BY EditorConstants DEF File
<1>9. currentLineIndex \in 0 .. Word - 1 /\ displayStartLineNumber \in 0 .. Word - 1
  BY <1>7, EditorConstants
<1>10. Len(directory) <= DirectoryEntries
  BY <1>4, EditorConstants
<1> QED
  BY <1>4, <1>6, <1>7, <1>8, <1>9, <1>10, EditorConstants DEF EditorInv

\* A line that is stored is in the buffer.
LEMMA StoredIs ==
  ASSUME NEW buffer \in [ED!Index -> TextLine], NEW index, NEW line \in TextLine
  PROVE  ED!Stored(buffer, index, line) \in [ED!Index -> TextLine]
BY DEF ED!Stored

\* Lines move by one place, within the buffer.
LEMMA ShiftedIs ==
  ASSUME EditorInv, NEW place \in Nat
  PROVE  ED!ShiftedDown(place) \in [ED!Index -> TextLine]
<1>1. ASSUME NEW i \in ED!Index
      PROVE  (IF place < i /\ i <= totalLines THEN textBuffer[i - 1] ELSE textBuffer[i]) \in TextLine
  <2>1. place < i => i - 1 \in ED!Index
    BY EditorConstants DEF ED!Index
  <2> QED
    BY <2>1 DEF EditorInv
<1> QED
  BY <1>1 DEF ED!ShiftedDown

\* A number less one, or the largest word.
LEMMA PreviousIs ==
  ASSUME NEW n \in 0 .. Word - 1
  PROVE  /\ (n - 1) % Word \in 0 .. Word - 1
         /\ (n + 1) % Word = IF n + 1 = Word THEN 0 ELSE n + 1
<1>1. Word \in Nat \ {0}
  BY EditorConstants
<1> QED
  BY <1>1

\* The commands that move about.
LEMMA MovesKeepTypes ==
  ASSUME EditorInv,
         (\E n \in TypedNumber : ED!jump(n)) \/ ED!pageUp \/ ED!pageDown \/ ED!quit
  PROVE  EditorInv'
<1>1. ASSUME NEW n \in TypedNumber, ED!jump(n)
      PROVE  EditorInv'
  <2>1. n \in 1 .. Word - 1 /\ n - 1 \in 0 .. Word - 1
    BY <1>1, EditorConstants DEF ED!jump
  <2> QED
    BY <1>1, <2>1 DEF ED!jump, EditorInv
<1>2. CASE ED!pageUp
  <2>1. displayStartLineNumber' \in 0 .. Word - 1
    BY <1>2, EditorConstants DEF ED!pageUp, EditorInv
  <2> QED
    BY <1>2, <2>1 DEF ED!pageUp, EditorInv
<1>3. CASE ED!pageDown
  <2>1. PICK next : next = (displayStartLineNumber + MAX_DISPLAY_LINES) % Word
    OBVIOUS
  <2>2. next \in 0 .. Word - 1
    <3>1. displayStartLineNumber + MAX_DISPLAY_LINES \in Nat
      BY EditorConstants DEF EditorInv
    <3> QED
      BY <2>1, <3>1, EditorConstants
  <2>3. ED!PagedDown(displayStartLineNumber) \in 0 .. Word - 1
    BY <2>1, <2>2, EditorConstants DEF ED!PagedDown, EditorInv
  <2> QED
    BY <1>3, <2>3 DEF ED!pageDown, EditorInv
<1>4. CASE ED!quit
  BY <1>4 DEF ED!quit, EditorInv
<1> QED
  BY <1>1, <1>2, <1>3, <1>4

\* The commands that change the text.
LEMMA EditsKeepTypes ==
  ASSUME EditorInv,
         \/ \E line \in TypedLine : ED!editTextLine(line) \/ ED!insertNewLine(line)
         \/ ED!startInsert \/ ED!endInsert \/ ED!deleteTextLine
  PROVE  EditorInv'
<1>1. ASSUME NEW line \in TypedLine, ED!editTextLine(line)
      PROVE  EditorInv'
  <2>1. line \in TextLine
    BY EditorConstants
  <2>2. textBuffer' \in [ED!Index -> TextLine]
    BY <1>1, <2>1, StoredIs DEF ED!editTextLine, EditorInv
  <2>3. ED!LineNumber \in 1 .. MAX_LINES
    BY <1>1 DEF ED!editTextLine
  <2>4. totalLines' \in 0 .. MAX_LINES /\ currentLineIndex' \in 0 .. Word - 1
    BY <1>1, <2>3, EditorConstants DEF ED!editTextLine, EditorInv
  <2> QED
    BY <1>1, <2>2, <2>4 DEF ED!editTextLine, EditorInv
<1>2. ASSUME NEW line \in TypedLine, ED!insertNewLine(line)
      PROVE  EditorInv'
  <2>1. line \in TextLine
    BY EditorConstants
  <2>2. insertPosition \in 0 .. Word - 1
    BY <1>2 DEF ED!insertNewLine, EditorInv
  <2>3. insertPosition \in Nat
    BY <2>2, EditorConstants
  <2>4. textBuffer' \in [ED!Index -> TextLine]
    BY <1>2, <2>1, <2>3, ShiftedIs, StoredIs DEF ED!insertNewLine
  <2>5. totalLines' \in 0 .. MAX_LINES
    BY <1>2, EditorConstants DEF ED!insertNewLine, EditorInv
  <2>6. insertPosition' \in 0 .. Word - 1
    BY <1>2, <2>2, PreviousIs, EditorConstants DEF ED!insertNewLine
  <2> QED
    BY <1>2, <2>4, <2>5, <2>6 DEF ED!insertNewLine, EditorInv
<1>3. CASE ED!startInsert
  BY <1>3 DEF ED!startInsert, EditorInv
<1>4. CASE ED!endInsert
  <2>1. insertPosition \in 0 .. Word - 1
    BY <1>4 DEF ED!endInsert, EditorInv
  <2>2. currentLineIndex' \in 0 .. Word - 1
    BY <1>4, <2>1, PreviousIs DEF ED!endInsert
  <2> QED
    BY <1>4, <2>2 DEF ED!endInsert, EditorInv
<1>5. CASE ED!deleteTextLine
  <2>1. totalLines \in 1 .. MAX_LINES
    BY <1>5, EditorConstants DEF ED!deleteTextLine, EditorInv
  <2>2. ASSUME NEW i \in ED!Index
        PROVE  (IF ED!LineNumber - 1 <= i /\ i < totalLines - 1
                THEN textBuffer[i + 1] ELSE textBuffer[i]) \in TextLine
    <3>1. i < totalLines - 1 => i + 1 \in ED!Index
      BY <2>1, EditorConstants DEF ED!Index
    <3> QED
      BY <3>1 DEF EditorInv
  <2>3. textBuffer' \in [ED!Index -> TextLine]
    BY <1>5, <2>2 DEF ED!deleteTextLine
  <2>4. totalLines' = totalLines - 1 /\ totalLines' \in 0 .. MAX_LINES
    BY <1>5, <2>1, EditorConstants DEF ED!deleteTextLine
  <2>5. totalLines' \in 0 .. Word - 1
    BY <2>4, EditorConstants
  <2>6. (totalLines' - 1) % Word \in 0 .. Word - 1
    BY <2>5, PreviousIs
  <2>7. currentLineIndex' \in 0 .. Word - 1
    BY <1>5, <2>6 DEF ED!deleteTextLine, EditorInv
  <2> QED
    BY <1>5, <2>3, <2>4, <2>7 DEF ED!deleteTextLine, EditorInv
<1> QED
  BY <1>1, <1>2, <1>3, <1>4, <1>5

\* A name that stands at a place of a directory is found.
LEMMA ExistsAt ==
  ASSUME NEW dir \in Seq(File), NEW i \in 1 .. Len(dir), NEW name, dir[i].name = name
  PROVE  ED!Exists(dir, name)
BY DEF ED!Exists, ED!Positions

\* The steps of a save, and the power failing between them.
LEMMA SavesKeepTypes ==
  ASSUME EditorInv,
         \/ \E name \in FileName \cup {initialFileName} : ED!openTemp(name)
         \/ ED!writeTarget \/ ED!deleteTemp \/ ED!powerLoss
  PROVE  EditorInv'
<1> DEFINE chars == ED!Characters(ED!Text)
<1>1. chars \in Seq(Char) /\ Len(chars) \in Nat
  <2>1. chars \in Seq(Char)
    BY TextIs, CharactersAre
  <2> QED
    BY <2>1
<1>2. directory \in Seq(File) /\ Len(directory) <= DirectoryEntries
  BY DEF EditorInv
<1> HIDE DEF chars
<1>3. ASSUME NEW name \in FileName \cup {initialFileName}, ED!openTemp(name)
      PROVE  EditorInv'
  <2> DEFINE pages == ED!Zeroes(ED!Pages(Len(chars)))
             created == ED!Created(directory, ED!TempFile, pages)
  <2>1. pages \in Seq(Char)
    BY <1>1, PagesAre
  <2>2. name \in FileNames
    BY EditorConstants DEF EditorInv
  <2>3. directory' = created /\ saving' = name /\ Len(directory) < DirectoryEntries
    BY <1>3 DEF ED!openTemp, chars
  <2>4. created \in Seq(File) /\ Len(created) <= DirectoryEntries
    <3> HIDE DEF pages
    <3> QED
      BY <1>2, <2>1, CreatedIs, EditorConstants
  <2>5. ED!Exists(created, ED!TempFile)
    <3>1. created = Append(directory, [name |-> ED!TempFile, content |-> pages])
      BY <2>3 DEF ED!Created
    <3> DEFINE n == Len(directory) + 1
    <3>2. n \in 1 .. Len(created) /\ created[n].name = ED!TempFile
      <4> HIDE DEF created, pages
      <4> QED
        BY <1>2, <3>1
    <3> HIDE DEF created
    <3> QED
      BY <2>4, <3>2, ExistsAt
  <2> HIDE DEF created
  <2> QED
    BY <1>3, <2>2, <2>3, <2>4, <2>5 DEF ED!openTemp, EditorInv
<1>4. CASE ED!writeTarget
  <2> DEFINE temp == ED!Found(directory, ED!TempFile)
             buffer == ED!Overwritten(directory[temp].content, Append(chars, ED!NUL))
             created == ED!Created(directory, saving, buffer)
  <2>1. directory' = created
    BY <1>4 DEF ED!writeTarget, chars
  <2>2. ED!Exists(directory, ED!TempFile) /\ saving \in FileNames
    BY <1>4 DEF ED!writeTarget, EditorInv
  <2>3. temp \in 1 .. Len(directory) /\ directory[temp].name = ED!TempFile
    BY <1>2, <2>2, FoundIs
  <2> HIDE DEF temp
  <2>4. buffer \in Seq(Char)
    <3>1. directory[temp] \in File
      BY <1>2, <2>3
    <3>2. directory[temp].content \in Seq(Char)
      BY <3>1 DEF File
    <3>3. Append(chars, ED!NUL) \in Seq(Char)
      BY <1>1 DEF Char
    <3> QED
      BY <3>2, <3>3, OverwrittenIs
  <2> HIDE DEF buffer
  <2>5. /\ created \in Seq(File) /\ Len(created) <= DirectoryEntries
        /\ temp \in 1 .. Len(created) /\ created[temp] = directory[temp]
    BY <1>2, <2>2, <2>3, <2>4, CreatedIs
  <2> HIDE DEF created
  <2>6. ED!Exists(created, ED!TempFile)
    BY <2>3, <2>5, ExistsAt
  <2> QED
    BY <1>4, <2>1, <2>5, <2>6 DEF ED!writeTarget, EditorInv
<1>6. CASE ED!deleteTemp
  <2> DEFINE place == ED!Found(directory, ED!TempFile)
  <2>1. /\ directory' = ED!RemoveAt(directory, place)
        /\ saving' = ED!NoFile /\ written' = FALSE
    BY <1>6 DEF ED!deleteTemp
  <2>2. ED!Exists(directory, ED!TempFile)
    BY <1>6 DEF ED!deleteTemp, EditorInv
  <2>3. place \in 1 .. Len(directory)
    BY <1>2, <2>2, FoundIs
  <2> HIDE DEF place
  <2>4. directory' \in Seq(File) /\ Len(directory') = Len(directory) - 1
    BY <1>2, <2>1, <2>3, RemovedIs
  <2>5. Len(directory') <= DirectoryEntries
    BY <1>2, <2>4, EditorConstants
  <2> QED
    BY <1>6, <2>1, <2>4, <2>5, EditorConstants DEF ED!deleteTemp, EditorInv
<1>5. CASE ED!powerLoss
  <2>1. /\ initialFileName' \in FileNames
        /\ initialFileName' = ED!NoFile \/ ED!Exists(directory, initialFileName')
    BY <1>5, EditorConstants DEF ED!powerLoss
  <2>2. /\ textBuffer' \in [ED!Index -> TextLine]
        /\ totalLines' \in 0 .. MAX_LINES
    <3>1. PICK name : name = initialFileName'
      OBVIOUS
    <3>2. /\ textBuffer' = ED!LoadedBuffer(ED!LoadedLines(name, directory))
          /\ totalLines' = Len(ED!LoadedLines(name, directory))
      BY <1>5, <3>1 DEF ED!powerLoss
    <3> QED
      BY <1>2, <2>1, <3>1, <3>2, LoadedLinesAre
  <2>3. 0 \in 0 .. Word - 1 /\ 1 \in 0 .. Word - 1
    BY EditorConstants
  <2> QED
    BY <1>5, <2>1, <2>2, <2>3, EditorConstants DEF ED!powerLoss, EditorInv
<1> QED
  BY <1>3, <1>4, <1>5, <1>6

\* No step of the editor leads out of its types.
LEMMA EditorGoesOn == EditorInv /\ [ED!Next]_(ED!edlinVars) => EditorInv'
<1>1. ASSUME EditorInv, UNCHANGED ED!edlinVars
      PROVE  EditorInv'
  BY <1>1 DEF EditorInv, ED!edlinVars
<1> QED
  BY <1>1, MovesKeepTypes, EditsKeepTypes, SavesKeepTypes DEF ED!Next

\* Whatever is typed, loaded and saved, and wherever the power fails, the text stays
\* in the buffer and the counts of lines keep to their words (edlin.cpp).
THEOREM EditorKeepsItsTypes == ED!Spec => []ED!TypeOK
<1>1. EditorInv => ED!TypeOK
  <2> SUFFICES ASSUME EditorInv
               PROVE  ED!TypeOK
    OBVIOUS
  <2>1. ASSUME NEW i \in ED!Index
        PROVE  Len(textBuffer[i]) <= MAX_LINE_LENGTH
    BY DEF EditorInv, TextLine
  <2> QED
    BY <2>1 DEF EditorInv, ED!TypeOK
<1> QED
  BY <1>1, EditorStarts, EditorGoesOn, PTL DEF ED!Spec

-----------------------------------------------------------------------------
(* What its commands do to the text *)

\* The text after a step of edlin.
LEMMA NextTextIs ==
  ASSUME totalLines' \in 0 .. MAX_LINES, textBuffer' \in [ED!Index -> TextLine]
  PROVE  /\ ED!Text' \in Seq(TextLine) /\ Len(ED!Text') = totalLines'
         /\ \A n \in 1 .. totalLines' : ED!Text'[n] = textBuffer'[n - 1]
<1>1. PICK total, buffer : total = totalLines' /\ buffer = textBuffer'
  OBVIOUS
<1> DEFINE text == [n \in 1 .. total |-> buffer[n - 1]]
<1>2. total \in Nat /\ total <= MAX_LINES /\ MAX_LINES \in Nat
  BY <1>1, EditorConstants
<1>3. ED!Text' = text
  <2>1. (IF total < MAX_LINES THEN total ELSE MAX_LINES) = total
    BY <1>2
  <2> QED
    BY <1>1, <2>1 DEF ED!Text
<1>4. text \in [1 .. total -> TextLine]
  <2>1. ASSUME NEW n \in 1 .. total
        PROVE  buffer[n - 1] \in TextLine
    <3>1. n - 1 \in ED!Index
      BY <1>2 DEF ED!Index
    <3> QED
      BY <1>1, <3>1
  <2> QED
    BY <2>1
<1>5. \A n \in 1 .. total : text[n] = buffer[n - 1]
  OBVIOUS
<1> HIDE DEF text
<1>6. text \in Seq(TextLine) /\ Len(text) = total
  BY <1>2, <1>4
<1> QED
  BY <1>1, <1>3, <1>5, <1>6

\* A line that is typed in insertion mode comes in at the place of insertion.
LEMMA InsertionAddsLine ==
  ASSUME EditorInv, NEW line \in TypedLine, ED!insertNewLine(line), ED!Place <= totalLines
  PROVE  ED!Text' = ED!InsertAt(ED!Text, ED!Place + 1, line)
<1> DEFINE text == ED!Text
           place == ED!Place
           total == totalLines
<1>1. place = insertPosition /\ place \in 0 .. total /\ total \in Nat /\ total < MAX_LINES
  BY EditorConstants DEF ED!insertNewLine, EditorInv, ED!Place, ED!NotInserting
<1>2. line \in TextLine
  BY EditorConstants
<1>3. EditorInv'
  BY EditsKeepTypes
<1>4. /\ text \in Seq(TextLine) /\ Len(text) = total
      /\ \A n \in 1 .. total : text[n] = textBuffer[n - 1]
  BY TextIs
<1>5. totalLines' = total + 1
  BY DEF ED!insertNewLine
<1>6. /\ ED!Text' \in Seq(TextLine) /\ Len(ED!Text') = total + 1
      /\ \A n \in 1 .. total + 1 : ED!Text'[n] = textBuffer'[n - 1]
  BY <1>3, <1>5, NextTextIs DEF EditorInv
<1>7. textBuffer' = [i \in ED!Index |-> IF i = place THEN line
                       ELSE IF place < i /\ i <= total THEN textBuffer[i - 1] ELSE textBuffer[i]]
  BY <1>1 DEF ED!insertNewLine, ED!Stored, ED!ShiftedDown
<1> HIDE DEF text, place, total
<1> DEFINE at == place + 1
           inserted == ED!InsertAt(text, at, line)
<1>8. at \in 1 .. Len(text) + 1 /\ at = place + 1
  BY <1>1, <1>4
<1> HIDE DEF at
<1>9. /\ inserted \in Seq(TextLine) /\ Len(inserted) = total + 1
      /\ \A k \in 1 .. total + 1 :
           inserted[k] = IF k < at THEN text[k] ELSE IF k = at THEN line ELSE text[k - 1]
  <2>1. text \in Seq(TextLine) /\ at \in 1 .. Len(text) + 1 /\ line \in TextLine
    BY <1>2, <1>4, <1>8
  <2>2. PICK r : r = ED!InsertAt(text, at, line)
    OBVIOUS
  <2>3. PICK one : one = [k \in 1 .. Len(text) + 1 |->
                           IF k < at THEN text[k] ELSE IF k = at THEN line ELSE text[k - 1]]
    OBVIOUS
  <2>4. r \in Seq(TextLine) /\ Len(r) = Len(text) + 1 /\ r = one
    BY ONLY <2>1, <2>2, <2>3, InsertedIs
  <2> QED
    BY <1>4, <2>2, <2>3, <2>4
<1> HIDE DEF inserted
<1>10. ASSUME NEW k \in 1 .. total + 1
       PROVE  textBuffer'[k - 1] = inserted[k]
  <2>1. k - 1 \in ED!Index
    BY <1>1, EditorConstants DEF ED!Index
  <2>2. textBuffer'[k - 1] = IF k - 1 = place THEN line
          ELSE IF place < k - 1 /\ k - 1 <= total THEN textBuffer[k - 1 - 1] ELSE textBuffer[k - 1]
    BY <1>7, <2>1
  <2>3. CASE k < place + 1
    <3>1. k \in 1 .. total /\ k - 1 # place /\ ~(place < k - 1)
      BY <1>1, <2>3
    <3> QED
      BY <1>4, <1>8, <1>9, <2>2, <2>3, <3>1
  <2>4. CASE k = place + 1
    <3>1. k - 1 = place /\ ~(k < place + 1)
      BY <1>1, <2>4
    <3> QED
      BY <1>8, <1>9, <2>2, <2>4, <3>1
  <2>5. CASE k > place + 1
    <3>1. /\ k - 1 \in 1 .. total /\ k - 1 # place /\ place < k - 1 /\ k - 1 <= total
          /\ ~(k < place + 1) /\ k # place + 1
      BY <1>1, <2>5
    <3> QED
      BY <1>4, <1>8, <1>9, <2>2, <3>1
  <2> QED
    BY <1>1, <2>3, <2>4, <2>5
<1>11. PICK after : after = ED!Text'
  OBVIOUS
<1>12. /\ after \in Seq(TextLine) /\ Len(after) = Len(inserted)
       /\ \A k \in 1 .. Len(after) : after[k] = inserted[k]
  BY <1>6, <1>9, <1>10, <1>11
<1>13. after = inserted
  BY <1>9, <1>12, SeqEqual
<1> QED
  BY <1>11, <1>13 DEF inserted, text, place, at

\* A line that is typed at the prompt takes the place of the current one, or comes
\* behind the last.
LEMMA EditReplacesLine ==
  ASSUME EditorInv, NEW line \in TypedLine, ED!editTextLine(line), ED!Place <= totalLines
  PROVE  /\ insertPosition = ED!NotInserting
         /\ ED!Place = totalLines => ED!Text' = Append(ED!Text, line)
         /\ ED!Place # totalLines => ED!Text' = ED!ReplaceAt(ED!Text, ED!Place + 1, line)
<1> DEFINE text == ED!Text
           place == ED!Place
           total == totalLines
<1>1. /\ insertPosition = ED!NotInserting /\ place = currentLineIndex
      /\ place \in 0 .. total /\ total \in Nat /\ total <= MAX_LINES
  BY EditorConstants DEF ED!editTextLine, ED!Edits, ED!AtPrompt, EditorInv, ED!Place
<1>2. line \in TextLine
  BY EditorConstants
<1>3. EditorInv'
  BY EditsKeepTypes
<1>4. /\ text \in Seq(TextLine) /\ Len(text) = total
      /\ \A n \in 1 .. total : text[n] = textBuffer[n - 1]
  BY TextIs
<1>5. ED!LineNumber = place + 1 /\ place + 1 \in 1 .. MAX_LINES
  <2>1. ED!LineNumber \in 1 .. MAX_LINES
    BY DEF ED!editTextLine
  <2>2. currentLineIndex \in 0 .. Word - 1
    BY DEF EditorInv
  <2>3. ED!LineNumber = IF currentLineIndex + 1 = Word THEN 0 ELSE currentLineIndex + 1
    BY <2>2, PreviousIs DEF ED!LineNumber
  <2> QED
    BY <1>1, <2>1, <2>3, EditorConstants
<1>6. totalLines' = IF place + 1 > total THEN place + 1 ELSE total
  BY <1>5 DEF ED!editTextLine
<1>7. textBuffer' = [i \in ED!Index |-> IF i = place THEN line ELSE textBuffer[i]]
  <2>1. ED!LineNumber - 1 = place
    BY <1>1, <1>5
  <2>2. textBuffer' = ED!Stored(textBuffer, ED!LineNumber - 1, line)
    BY DEF ED!editTextLine
  <2> QED
    BY <2>1, <2>2 DEF ED!Stored
<1>8. PICK after : after = ED!Text'
  OBVIOUS
<1>9. /\ after \in Seq(TextLine) /\ Len(after) = totalLines'
      /\ \A n \in 1 .. totalLines' : after[n] = textBuffer'[n - 1]
  BY <1>3, <1>8, NextTextIs DEF EditorInv
<1> HIDE DEF text, place, total
<1>10. totalLines' \in Nat /\ totalLines' <= MAX_LINES
  BY <1>1, <1>5, <1>6
<1>11. ASSUME NEW k \in 1 .. totalLines'
       PROVE  after[k] = IF k = place + 1 THEN line ELSE textBuffer[k - 1]
  <2>1. k - 1 \in ED!Index /\ (k - 1 = place <=> k = place + 1)
    BY <1>1, <1>10, EditorConstants DEF ED!Index
  <2> QED
    BY <1>7, <1>9, <2>1
<1>12. ASSUME place = total
       PROVE  after = Append(text, line)
  <2> DEFINE appended == Append(text, line)
  <2>1. /\ appended \in Seq(TextLine) /\ Len(appended) = total + 1
        /\ \A k \in 1 .. total + 1 : appended[k] = IF k = total + 1 THEN line ELSE text[k]
    BY <1>2, <1>4
  <2> HIDE DEF appended
  <2>2. totalLines' = total + 1
    BY <1>1, <1>6, <1>12
  <2>3. ASSUME NEW k \in 1 .. Len(after)
        PROVE  after[k] = appended[k]
    <3>1. k \in 1 .. total + 1 /\ (k # total + 1 => k \in 1 .. total)
      BY <1>1, <1>9, <2>2
    <3> QED
      BY <1>4, <1>11, <1>12, <2>1, <2>2, <3>1
  <2>4. after = appended
    BY <1>9, <2>1, <2>2, <2>3, SeqEqual
  <2> QED
    BY <2>4 DEF appended
<1>13. ASSUME place # total
       PROVE  after = ED!ReplaceAt(text, place + 1, line)
  <2> DEFINE i == place + 1
             replaced == [text EXCEPT ![i] = line]
  <2>1. totalLines' = total /\ i \in 1 .. Len(text)
    BY <1>1, <1>4, <1>6, <1>13
  <2> HIDE DEF i
  <2>2. /\ replaced \in Seq(TextLine) /\ Len(replaced) = Len(text)
        /\ \A k \in 1 .. Len(text) : replaced[k] = IF k = i THEN line ELSE text[k]
    BY <1>2, <1>4, <2>1, ExceptSeq
  <2> HIDE DEF replaced
  <2>3. ASSUME NEW k \in 1 .. Len(after)
        PROVE  after[k] = replaced[k]
    BY <1>4, <1>9, <1>11, <2>1, <2>2 DEF i
  <2>4. after = replaced
    BY <1>4, <1>9, <2>1, <2>2, <2>3, SeqEqual
  <2> QED
    BY <2>4 DEF replaced, i, ED!ReplaceAt
<1> QED
  BY <1>1, <1>8, <1>12, <1>13 DEF text, place, total

\* A deletion takes the current line out.
LEMMA DeletionRemovesLine ==
  ASSUME EditorInv, ED!deleteTextLine, ED!Place <= totalLines
  PROVE  /\ insertPosition = ED!NotInserting /\ ED!Place # totalLines
         /\ ED!Text' = ED!RemoveAt(ED!Text, ED!Place + 1)
<1> DEFINE text == ED!Text
           place == ED!Place
           total == totalLines
<1>1. /\ insertPosition = ED!NotInserting /\ place = currentLineIndex
      /\ place \in 0 .. total /\ total \in Nat /\ total <= MAX_LINES
  BY EditorConstants DEF ED!deleteTextLine, ED!Edits, ED!AtPrompt, EditorInv, ED!Place
<1>2. EditorInv'
  BY EditsKeepTypes
<1>3. /\ text \in Seq(TextLine) /\ Len(text) = total
      /\ \A n \in 1 .. total : text[n] = textBuffer[n - 1]
  BY TextIs
<1>4. ED!LineNumber = place + 1 /\ place + 1 \in 1 .. total
  <2>1. ED!LineNumber \in 1 .. total
    BY DEF ED!deleteTextLine
  <2>2. currentLineIndex \in 0 .. Word - 1
    BY DEF EditorInv
  <2>3. ED!LineNumber = IF currentLineIndex + 1 = Word THEN 0 ELSE currentLineIndex + 1
    BY <2>2, PreviousIs DEF ED!LineNumber
  <2> QED
    BY <1>1, <2>1, <2>3, EditorConstants
<1>5. totalLines' = total - 1
  BY DEF ED!deleteTextLine
<1>6. textBuffer' = [i \in ED!Index |-> IF place <= i /\ i < total - 1 THEN textBuffer[i + 1]
                                        ELSE textBuffer[i]]
  <2>1. ED!LineNumber - 1 = place
    BY <1>1, <1>4
  <2>2. textBuffer' = [i \in ED!Index |-> IF ED!LineNumber - 1 <= i /\ i < totalLines - 1
                                           THEN textBuffer[i + 1] ELSE textBuffer[i]]
    BY DEF ED!deleteTextLine
  <2> QED
    BY <2>1, <2>2
<1>7. PICK after : after = ED!Text'
  OBVIOUS
<1>8. /\ after \in Seq(TextLine) /\ Len(after) = total - 1
      /\ \A n \in 1 .. total - 1 : after[n] = textBuffer'[n - 1]
  BY <1>2, <1>5, <1>7, NextTextIs DEF EditorInv
<1> HIDE DEF text, place, total
<1> DEFINE i == place + 1
           removed == ED!RemoveAt(text, i)
<1>9. i \in 1 .. Len(text)
  BY <1>3, <1>4
<1>10. /\ removed \in Seq(TextLine) /\ Len(removed) = Len(text) - 1
       /\ \A k \in 1 .. Len(text) - 1 : removed[k] = IF k < i THEN text[k] ELSE text[k + 1]
  <2> HIDE DEF i
  <2> QED
    BY <1>3, <1>9, RemovedIs
<1> HIDE DEF removed
<1>11. ASSUME NEW k \in 1 .. total - 1
       PROVE  after[k] = removed[k]
  <2>1. k - 1 \in ED!Index /\ k \in 1 .. total /\ k + 1 \in 1 .. total
    BY <1>1, EditorConstants DEF ED!Index
  <2>2. after[k] = IF place <= k - 1 /\ k - 1 < total - 1 THEN textBuffer[k - 1 + 1]
                   ELSE textBuffer[k - 1]
    BY <1>6, <1>8, <2>1
  <2>3. removed[k] = IF k < i THEN textBuffer[k - 1] ELSE textBuffer[k + 1 - 1]
    BY <1>3, <1>10, <2>1
  <2>4. (place <= k - 1 /\ k - 1 < total - 1 <=> ~(k < i)) /\ k - 1 + 1 = k + 1 - 1
    BY <1>1
  <2> QED
    BY <2>2, <2>3, <2>4
<1>12. after = removed
  BY <1>3, <1>8, <1>10, <1>11, SeqEqual
<1>13. place # total
  BY <1>1, <1>4
<1> QED
  BY <1>1, <1>7, <1>12, <1>13 DEF removed, text, place, total

\* Whatever text was loaded or typed, as long as the place edlin works at lies in it,
\* a command changes the text in that one place and nowhere else: the in-place shifts
\* of insertNewLines and deleteTextLine lose no line and double none
\* (edlin.cpp:446-507).
THEOREM EditsStayInPlace == ED!Spec => EditsOneLine
<1> DEFINE Edited ==
      \/ ED!Text' = ED!Text
      \/ IF insertPosition # ED!NotInserting
         THEN ED!TypesLine(LAMBDA line : ED!InsertAt(ED!Text, ED!Place + 1, line))
         ELSE IF ED!Place = totalLines THEN ED!TypesLine(LAMBDA line : Append(ED!Text, line))
         ELSE \/ ED!Text' = ED!RemoveAt(ED!Text, ED!Place + 1)
              \/ ED!TypesLine(LAMBDA line : ED!ReplaceAt(ED!Text, ED!Place + 1, line))
<1>1. ASSUME EditorInv, ED!Next, ED!Place <= totalLines, saving = ED!NoFile
      PROVE  Edited
  <2>1. ASSUME NEW line \in TypedLine, ED!insertNewLine(line)
        PROVE  Edited
    <3>1. insertPosition # ED!NotInserting
      BY <2>1 DEF ED!insertNewLine
    <3>2. ED!Text' = ED!InsertAt(ED!Text, ED!Place + 1, line)
      BY <1>1, <2>1, InsertionAddsLine
    <3> QED
      BY <3>1, <3>2 DEF ED!TypesLine
  <2>2. ASSUME NEW line \in TypedLine, ED!editTextLine(line)
        PROVE  Edited
    <3>1. /\ insertPosition = ED!NotInserting
          /\ ED!Place = totalLines => ED!Text' = Append(ED!Text, line)
          /\ ED!Place # totalLines => ED!Text' = ED!ReplaceAt(ED!Text, ED!Place + 1, line)
      BY <1>1, <2>2, EditReplacesLine
    <3> QED
      BY <3>1 DEF ED!TypesLine
  <2>3. CASE ED!deleteTextLine
    <3>1. /\ insertPosition = ED!NotInserting /\ ED!Place # totalLines
          /\ ED!Text' = ED!RemoveAt(ED!Text, ED!Place + 1)
      BY <1>1, <2>3, DeletionRemovesLine
    <3> QED
      BY <3>1
  <2>4. ASSUME UNCHANGED <<textBuffer, totalLines>>
        PROVE  Edited
    BY <2>4 DEF ED!Text
  <2>5. (\E n \in TypedNumber : ED!jump(n)) \/ ED!pageUp \/ ED!pageDown \/ ED!quit
          \/ ED!startInsert \/ ED!endInsert
        => UNCHANGED <<textBuffer, totalLines>>
    BY DEF ED!jump, ED!pageUp, ED!pageDown, ED!quit, ED!startInsert, ED!endInsert
  <2>6. (\E name \in FileName \cup {initialFileName} : ED!openTemp(name))
        => UNCHANGED <<textBuffer, totalLines>>
    BY DEF ED!openTemp
  <2>7. ~ED!writeTarget /\ ~ED!deleteTemp /\ ~ED!powerLoss
    BY <1>1 DEF ED!writeTarget, ED!deleteTemp, ED!powerLoss, EditorInv
  <2> HIDE DEF Edited
  <2> QED
    BY <1>1, <2>1, <2>2, <2>3, <2>4, <2>5, <2>6, <2>7 DEF ED!Next
<1>2. EditorInv /\ [ED!Next]_(ED!edlinVars)
      => [ED!Place <= totalLines /\ saving = ED!NoFile => Edited]_(ED!edlinVars)
  BY <1>1
<1>3. EditsOneLine <=> [][ED!Place <= totalLines /\ saving = ED!NoFile => Edited]_(ED!edlinVars)
  BY DEF EditsOneLine, ED!EditsOneLine
<1> QED
  BY <1>2, <1>3, EditorStarts, EditorGoesOn, PTL DEF ED!Spec

-----------------------------------------------------------------------------
(* What it saves is what it loads *)

\* The lines of a text lie in its characters, each from where the one before it
\* and a newline end.
Laid(ends, text, chars) ==
  /\ ends \in [0 .. Len(text) -> Nat] /\ ends[0] = 0 /\ ends[Len(text)] = Len(chars)
  /\ \A k \in 1 .. Len(text) :
       /\ ends[k] = ends[k - 1] + Len(text[k]) + 1 /\ ends[k] <= Len(chars)
       /\ \A j \in 1 .. Len(text[k]) : chars[ends[k - 1] + j] = text[k][j]
       /\ chars[ends[k]] = ED!NL

\* One more line behind those that are gathered.
LEMMA GatheredIs ==
  ASSUME NEW before \in Seq(Char), NEW line \in TextLine,
         NEW after, after = before \o Append(line, ED!NL)
  PROVE  /\ after \in Seq(Char) /\ Len(after) = Len(before) + Len(line) + 1
         /\ \A i \in 1 .. Len(before) : after[i] = before[i]
         /\ \A j \in 1 .. Len(line) : after[Len(before) + j] = line[j]
         /\ after[Len(before) + Len(line) + 1] = ED!NL
<1>1. PICK new : new = Append(line, ED!NL)
  OBVIOUS
<1>2. line \in Seq(Char) /\ Len(line) \in Nat /\ ED!NL \in Char
  <2>1. line \in Seq(Char)
    BY DEF TextLine, Plain
  <2> QED
    BY <2>1 DEF Char
<1>3. /\ new \in Seq(Char) /\ Len(new) = Len(line) + 1 /\ new[Len(line) + 1] = ED!NL
      /\ \A j \in 1 .. Len(line) : new[j] = line[j]
  BY <1>1, <1>2
<1>4. /\ after \in Seq(Char) /\ Len(after) = Len(before) + Len(new)
      /\ \A i \in 1 .. Len(before) + Len(new) :
           after[i] = IF i <= Len(before) THEN before[i] ELSE new[i - Len(before)]
  BY <1>1, <1>3, ConcatProperties
<1>5. Len(before) \in Nat
  OBVIOUS
<1>6. ASSUME NEW j \in 1 .. Len(line) + 1
      PROVE  after[Len(before) + j] = new[j]
  <2>1. /\ Len(before) + j \in 1 .. Len(before) + Len(new) /\ ~(Len(before) + j <= Len(before))
        /\ Len(before) + j - Len(before) = j
    BY <1>2, <1>3, <1>5
  <2>2. PICK i : i = Len(before) + j
    OBVIOUS
  <2>3. after[i] = new[i - Len(before)]
    BY <1>4, <2>1, <2>2
  <2> QED
    BY <2>1, <2>2, <2>3
<1>7. ASSUME NEW i \in 1 .. Len(before)
      PROVE  after[i] = before[i]
  <2>1. i \in 1 .. Len(before) + Len(new) /\ i <= Len(before)
    BY <1>2, <1>3, <1>5
  <2> QED
    BY <1>4, <2>1
<1>8. ASSUME NEW j \in 1 .. Len(line)
      PROVE  after[Len(before) + j] = line[j]
  <2>1. j \in 1 .. Len(line) + 1
    BY <1>2
  <2> QED
    BY <1>3, <1>6, <2>1
<1>9. after[Len(before) + Len(line) + 1] = ED!NL
  <2>1. PICK j : j = Len(line) + 1 /\ j \in 1 .. Len(line) + 1
    BY <1>2
  <2>2. after[Len(before) + j] = ED!NL
    BY <1>3, <1>6, <2>1
  <2>3. Len(before) + j = Len(before) + Len(line) + 1
    BY <1>2, <1>5, <2>1
  <2> QED
    BY <2>2, <2>3
<1>10. Len(after) = Len(before) + Len(line) + 1
  BY <1>2, <1>3, <1>4, <1>5
<1> QED
  BY <1>4, <1>7, <1>8, <1>9, <1>10

\* The characters of a text are its lines, laid one behind the other.
LEMMA CharactersAreLaid ==
  ASSUME NEW text \in Seq(TextLine)
  PROVE  \E ends : Laid(ends, text, ED!Characters(text))
<1>1. PICK g : Gathers(g, text) /\ ED!Characters(text) = g[Len(text)]
  BY CharactersAre
<1>2. PICK n : n = Len(text) /\ n \in Nat
  OBVIOUS
<1>3. g \in [0 .. n -> Seq(Char)] /\ g[0] = <<>>
  BY <1>1, <1>2 DEF Gathers
<1>4. PICK ends : ends = [k \in 0 .. n |-> Len(g[k])]
  OBVIOUS
<1>5. /\ ends \in [0 .. n -> Nat] /\ ends[0] = 0
      /\ \A k \in 0 .. n : ends[k] = Len(g[k]) /\ ends[k] \in Nat
  <2>1. \A k \in 0 .. n : ends[k] = Len(g[k]) /\ ends[k] \in Nat
    BY <1>3, <1>4
  <2>2. ends[0] = Len(g[0]) /\ Len(<<>>) = 0
    BY <1>2, <2>1
  <2> QED
    BY <1>3, <1>4, <2>1, <2>2
<1>6. ASSUME NEW k \in 1 .. n
      PROVE  /\ ends[k] = ends[k - 1] + Len(text[k]) + 1
             /\ ends[k - 1] \in Nat /\ ends[k] \in Nat /\ Len(text[k]) \in Nat
             /\ \A i \in 1 .. ends[k - 1] : g[k][i] = g[k - 1][i]
             /\ \A j \in 1 .. Len(text[k]) : g[k][ends[k - 1] + j] = text[k][j]
             /\ g[k][ends[k]] = ED!NL
  <2>1. k - 1 \in 0 .. n /\ k \in 0 .. n /\ k \in 1 .. Len(text)
    BY <1>2
  <2>2. PICK before, line, after : before = g[k - 1] /\ line = text[k] /\ after = g[k]
    OBVIOUS
  <2>3. before \in Seq(Char) /\ line \in TextLine
    BY <1>3, <2>1, <2>2
  <2>4. after = before \o Append(line, ED!NL)
    BY <1>1, <2>1, <2>2 DEF Gathers
  <2>5. ends[k - 1] = Len(before) /\ ends[k] = Len(after)
    BY <1>5, <2>1, <2>2
  <2>6. Len(line) \in Nat
    BY <2>3 DEF TextLine
  <2>7. /\ Len(after) = Len(before) + Len(line) + 1
        /\ \A i \in 1 .. Len(before) : after[i] = before[i]
        /\ \A j \in 1 .. Len(line) : after[Len(before) + j] = line[j]
        /\ after[Len(before) + Len(line) + 1] = ED!NL
    BY <2>3, <2>4, GatheredIs
  <2>8. ends[k - 1] \in Nat /\ ends[k] \in Nat
    BY <1>5, <2>1
  <2> QED
    BY <2>2, <2>5, <2>6, <2>7, <2>8
<1>7. ASSUME NEW k \in 1 .. n
      PROVE  /\ ends[k] <= ends[n]
             /\ \A i \in 1 .. ends[k] : g[n][i] = g[k][i]
  <2> DEFINE Stays(m) == ends[k] <= ends[m] /\ \A i \in 1 .. ends[k] : g[m][i] = g[k][i]
             there == { m \in 0 .. n : m < k \/ Stays(m) }
  <2>1. k \in Nat /\ ends[k] \in Nat /\ 0 \in there
    BY <1>2, <1>6
  <2>2. ASSUME NEW m \in 1 .. n, m - 1 \in there
        PROVE  m \in there
    <3>1. m \in 0 .. n /\ m \in Nat
      BY <1>2
    <3>2. CASE m < k
      BY <3>1, <3>2
    <3>3. CASE m = k
      BY <2>1, <3>1, <3>3
    <3>4. CASE m > k
      <4>1. ~(m - 1 < k)
        BY <2>1, <3>1, <3>4
      <4>2. Stays(m - 1)
        BY <2>2, <4>1
      <4>3. /\ ends[m] = ends[m - 1] + Len(text[m]) + 1 /\ ends[m - 1] \in Nat
            /\ ends[m] \in Nat /\ Len(text[m]) \in Nat
            /\ \A i \in 1 .. ends[m - 1] : g[m][i] = g[m - 1][i]
        BY <1>6
      <4>4. ends[k] <= ends[m]
        BY <2>1, <4>2, <4>3
      <4>5. ASSUME NEW i \in 1 .. ends[k]
            PROVE  g[m][i] = g[k][i]
        <5>1. i \in 1 .. ends[m - 1]
          BY <2>1, <4>2, <4>3
        <5> QED
          BY <4>2, <4>3, <5>1
      <4> QED
        BY <3>1, <4>4, <4>5
    <3> QED
      BY <2>1, <3>1, <3>2, <3>3, <3>4
  <2>3. n \in there
    <3> HIDE DEF there
    <3>1. 0 .. n \subseteq there
      BY <1>2, <2>1, <2>2, AllPlaces
    <3> QED
      BY <1>2, <3>1
  <2> QED
    BY <1>2, <2>1, <2>3
<1>8. ASSUME NEW k \in 1 .. n
      PROVE  /\ \A j \in 1 .. Len(text[k]) : g[n][ends[k - 1] + j] = text[k][j]
             /\ g[n][ends[k]] = ED!NL
  <2>1. PICK before, all, size : before = ends[k - 1] /\ all = ends[k] /\ size = Len(text[k])
    OBVIOUS
  <2>2. all = before + size + 1 /\ before \in Nat /\ size \in Nat
    BY <1>6, <2>1
  <2>3. \A i \in 1 .. all : g[n][i] = g[k][i]
    BY <1>7, <2>1
  <2>4. g[n][all] = ED!NL
    <3>1. all \in 1 .. all
      BY <2>2
    <3>2. g[n][all] = g[k][all]
      BY <2>3, <3>1
    <3> QED
      BY <1>6, <2>1, <3>2
  <2>5. ASSUME NEW j \in 1 .. size
        PROVE  g[n][before + j] = text[k][j]
    <3>1. before + j \in 1 .. all
      BY <2>2
    <3>2. g[n][before + j] = g[k][before + j]
      BY <2>3, <3>1
    <3> QED
      BY <1>6, <2>1, <3>2
  <2> QED
    BY <2>1, <2>4, <2>5
<1>9. n \in 0 .. n /\ ends[n] = Len(g[n])
  BY <1>2, <1>5
<1> QED
  <2> DEFINE chars == ED!Characters(text)
  <2>1. chars = g[n] /\ n = Len(text)
    BY <1>1, <1>2
  <2> HIDE DEF chars
  <2>2. ends[n] = Len(chars)
    BY <1>9, <2>1
  <2>3. ASSUME NEW k \in 1 .. n
        PROVE  /\ ends[k] = ends[k - 1] + Len(text[k]) + 1 /\ ends[k] <= Len(chars)
               /\ \A j \in 1 .. Len(text[k]) : chars[ends[k - 1] + j] = text[k][j]
               /\ chars[ends[k]] = ED!NL
    BY <1>6, <1>7, <1>8, <2>1, <2>2
  <2>4. Laid(ends, text, chars)
    BY <1>5, <2>1, <2>2, <2>3 DEF Laid
  <2> QED
    BY <2>4 DEF chars

\* A line and its newline lie in a file.
LiesIn(content, line, before, end) ==
  /\ content \in Seq(Char) /\ line \in TextLine /\ before \in Nat /\ end \in Nat
  /\ end = before + Len(line) + 1 /\ end <= Len(content)
  /\ \A j \in 1 .. Len(line) : content[before + j] = line[j]
  /\ content[end] = ED!NL

\* The line is read from there, and the next one behind its newline.
IsReadFrom(content, line, before, end) ==
  /\ ED!LineEnd(content, before + 1) = end
  /\ ED!NextLine(content, before + 1) = end + 1
  /\ SubSeq(content, before + 1, end - 1) = line

\* Where a line and its newline lie in a file, the line is read back.
LEMMA LineIsReadBack ==
  ASSUME NEW content, NEW line, NEW before, NEW end, LiesIn(content, line, before, end)
  PROVE  IsReadFrom(content, line, before, end)
<1> SUFFICES ASSUME content \in Seq(Char), line \in TextLine, before \in Nat, end \in Nat,
                    end = before + Len(line) + 1, end <= Len(content),
                    \A j \in 1 .. Len(line) : content[before + j] = line[j], content[end] = ED!NL
             PROVE  /\ ED!LineEnd(content, before + 1) = end
                    /\ ED!NextLine(content, before + 1) = end + 1
                    /\ SubSeq(content, before + 1, end - 1) = line
  BY DEF LiesIn, IsReadFrom
<1>1. /\ MAX_LINE_LENGTH \in Nat /\ Len(line) \in Nat /\ Len(line) <= MAX_LINE_LENGTH
      /\ line \in Seq(Plain)
  BY EditorConstants DEF TextLine
<1>2. PICK p, e : p = before + 1 /\ e = ED!LineEnd(content, p)
  OBVIOUS
<1>3. p \in Nat
  BY <1>2
<1>4. /\ e \in p .. p + MAX_LINE_LENGTH
      /\ \A q \in p .. e - 1 : ED!At(content, q) \notin {ED!NL, ED!NUL}
      /\ e = p + MAX_LINE_LENGTH \/ ED!At(content, e) \in {ED!NL, ED!NUL}
  BY <1>2, <1>3, LineEndIs
<1>5. ED!At(content, end) = ED!NL
  BY DEF ED!At
<1>6. ~(e > end)
  <2> SUFFICES ASSUME e > end
               PROVE  FALSE
    OBVIOUS
  <2>1. end \in p .. e - 1
    BY <1>1, <1>2, <1>4
  <2> QED
    BY <1>4, <1>5, <2>1
<1>7. ~(e < end)
  <2> SUFFICES ASSUME e < end
               PROVE  FALSE
    OBVIOUS
  <2>1. PICK j : j = e - before
    OBVIOUS
  <2>2. j \in 1 .. Len(line) /\ before + j = e /\ e # p + MAX_LINE_LENGTH /\ e <= Len(content)
    BY <1>1, <1>2, <1>4, <2>1
  <2>3. ED!At(content, e) = line[j]
    BY <2>2 DEF ED!At
  <2>4. line[j] \in Plain
    BY <1>1, <2>2
  <2> QED
    BY <1>4, <2>2, <2>3, <2>4 DEF Plain
<1>8. e = end
  BY <1>1, <1>4, <1>6, <1>7
<1>9. ED!NextLine(content, p) = end + 1
  BY <1>2, <1>5, <1>8 DEF ED!NextLine
<1>10. SubSeq(content, p, end - 1) = line
  <2>1. PICK last : last = end - 1
    OBVIOUS
  <2>2. /\ last \in Int /\ p \in Int /\ last - p + 1 = Len(line)
        /\ (IF p <= last THEN last - p + 1 ELSE 0) = Len(line)
    <3>1. PICK length : length = Len(line) /\ length \in Nat
      BY <1>1
    <3>2. last = before + length /\ p = before + 1
      BY <1>2, <2>1, <3>1
    <3> QED
      BY <3>1, <3>2
  <2>3. \A q \in p .. last : content[q] \in Char
    <3>1. ASSUME NEW q \in p .. last
          PROVE  q \in 1 .. Len(content)
      BY <1>1, <1>2, <2>1
    <3> QED
      BY <3>1
  <2>4. /\ SubSeq(content, p, last) \in Seq(Char) /\ Len(SubSeq(content, p, last)) = Len(line)
        /\ \A k \in 1 .. Len(line) : SubSeq(content, p, last)[k] = content[p + k - 1]
    BY <2>2, <2>3, SubSeqProperties
  <2>5. PICK read : read = SubSeq(content, p, last)
    OBVIOUS
  <2>6. ASSUME NEW k \in 1 .. Len(line)
        PROVE  read[k] = line[k]
    <3>1. PICK q : q = before + k
      OBVIOUS
    <3>2. p + k - 1 = q
      BY <1>2, <3>1
    <3>3. content[q] = line[k]
      BY <3>1
    <3> QED
      BY <2>4, <2>5, <3>2, <3>3
  <2>7. read = line
    <3>1. read \in Seq(Char) /\ Len(read) = Len(line)
      BY <2>4, <2>5
    <3>2. line \in Seq(Char)
      BY <1>1 DEF Plain
    <3>3. \A k \in 1 .. Len(read) : read[k] = line[k]
      BY <2>6, <3>1
    <3> QED
      BY <3>1, <3>2, <3>3, SeqEqual
  <2> QED
    BY <2>1, <2>5, <2>7
<1> QED
  BY <1>2, <1>8, <1>9, <1>10

\* A file that holds the characters of a text and a zero behind them is loaded as
\* that text.
LEMMA RoundTrip ==
  ASSUME NEW text \in Seq(TextLine), Len(text) <= MAX_LINES,
         NEW chars \in Seq(Char), chars = ED!Characters(text),
         NEW content \in Seq(Char), Len(content) > Len(chars),
         \A i \in 1 .. Len(chars) : content[i] = chars[i], content[Len(chars) + 1] = ED!NUL
  PROVE  ED!loadFileContent(content) = text
<1>1. PICK ends : Laid(ends, text, chars)
  BY CharactersAreLaid
<1>2. PICK n, size : n = Len(text) /\ size = Len(chars)
  OBVIOUS
<1>3. n \in Nat /\ size \in Nat /\ n <= MAX_LINES /\ MAX_LINES \in Nat
  BY <1>2, EditorConstants
<1>4. /\ ends \in [0 .. n -> Nat] /\ ends[0] = 0 /\ ends[n] = size
      /\ \A k \in 1 .. n :
           /\ ends[k] = ends[k - 1] + Len(text[k]) + 1 /\ ends[k] <= size
           /\ \A j \in 1 .. Len(text[k]) : chars[ends[k - 1] + j] = text[k][j]
           /\ chars[ends[k]] = ED!NL
  BY <1>1, <1>2 DEF Laid
<1>5. ASSUME NEW k \in 1 .. n
      PROVE  /\ k - 1 \in 0 .. n /\ k \in 0 .. n /\ text[k] \in TextLine
             /\ Len(text[k]) \in Nat /\ ends[k - 1] \in Nat /\ ends[k] \in Nat
  <2>1. k - 1 \in 0 .. n /\ k \in 0 .. n /\ text[k] \in TextLine
    BY <1>2, <1>3
  <2>2. Len(text[k]) \in Nat
    BY <2>1 DEF TextLine
  <2>3. ends[k - 1] \in Nat /\ ends[k] \in Nat
    BY <1>4, <2>1
  <2> QED
    BY <2>1, <2>2, <2>3
<1>6. ASSUME NEW k \in 1 .. n
      PROVE  /\ \A j \in 1 .. Len(text[k]) : content[ends[k - 1] + j] = text[k][j]
             /\ content[ends[k]] = ED!NL /\ ends[k] <= Len(content)
  <2>1. PICK before, length, end : before = ends[k - 1] /\ length = Len(text[k]) /\ end = ends[k]
    OBVIOUS
  <2>2. /\ before \in Nat /\ length \in Nat /\ end = before + length + 1 /\ end <= size
        /\ \A j \in 1 .. length : chars[before + j] = text[k][j]
        /\ chars[end] = ED!NL
    BY <1>4, <1>5, <2>1
  <2>3. \A i \in 1 .. size : content[i] = chars[i]
    BY <1>2
  <2>4. ASSUME NEW j \in 1 .. length
        PROVE  content[before + j] = text[k][j]
    <3>1. before + j \in 1 .. size
      BY <1>3, <2>2
    <3> QED
      BY <2>2, <2>3, <3>1
  <2>5. content[end] = ED!NL
    <3>1. end \in 1 .. size
      BY <1>3, <2>2
    <3> QED
      BY <2>2, <2>3, <3>1
  <2>6. end <= Len(content)
    BY <1>2, <1>3, <2>2
  <2> QED
    BY <2>1, <2>4, <2>5, <2>6
<1>7. ASSUME NEW k \in 1 .. n
      PROVE  /\ ED!LineEnd(content, ends[k - 1] + 1) = ends[k]
             /\ ED!NextLine(content, ends[k - 1] + 1) = ends[k] + 1
             /\ SubSeq(content, ends[k - 1] + 1, ends[k] - 1) = text[k]
  <2>1. PICK file, line, before, end : /\ file = content /\ line = text[k]
                                       /\ before = ends[k - 1] /\ end = ends[k]
    OBVIOUS
  <2>2. /\ line \in TextLine /\ before \in Nat /\ end \in Nat
        /\ end = before + Len(line) + 1 /\ end <= Len(file)
        /\ \A j \in 1 .. Len(line) : file[before + j] = line[j]
        /\ file[end] = ED!NL
    BY <1>4, <1>5, <1>6, <2>1
  <2>3. LiesIn(file, line, before, end)
    BY <2>1, <2>2 DEF LiesIn
  <2>4. IsReadFrom(file, line, before, end)
    BY <2>3, LineIsReadBack
  <2> QED
    BY <2>1, <2>4 DEF IsReadFrom
<1>8. PICK start : start = ED!LineStart(content)
  OBVIOUS
<1>9. \A k \in 0 .. n : start[k] = ends[k] + 1
  <2> DEFINE there == { k \in 0 .. n : start[k] = ends[k] + 1 }
  <2>1. 0 \in there
    BY <1>3, <1>4, <1>8, LineStartIs
  <2>2. ASSUME NEW k \in 1 .. n, k - 1 \in there
        PROVE  k \in there
    <3>1. start[k - 1] = ends[k - 1] + 1
      BY <2>2
    <3>2. k \in 1 .. MAX_LINES
      BY <1>3
    <3>3. start[k] = ED!NextLine(content, start[k - 1])
      BY <1>8, <3>2, LineStartIs
    <3> QED
      BY <1>5, <1>7, <3>1, <3>3
  <2>3. 0 .. n \subseteq there
    <3> HIDE DEF there
    <3> QED
      BY <1>3, <2>1, <2>2, AllPlaces
  <2> QED
    BY <2>3
<1> DEFINE counts == { m \in 0 .. MAX_LINES : m = MAX_LINES \/ ED!At(content, start[m]) = ED!NUL }
           count == CHOOSE m \in counts : \A i \in counts : m <= i
<1>10. n \in counts
  <2>1. n \in 0 .. n /\ n \in 0 .. MAX_LINES
    BY <1>3
  <2>2. start[n] = Len(chars) + 1
    BY <1>2, <1>4, <1>9, <2>1
  <2>3. ED!At(content, start[n]) = ED!NUL
    BY <1>2, <1>3, <2>2 DEF ED!At
  <2> QED
    BY <2>1, <2>3
<1>11. ASSUME NEW m \in counts
       PROVE  n <= m
  <2> SUFFICES ASSUME m < n
               PROVE  FALSE
    BY <1>3
  <2>1. m \in Nat /\ m # MAX_LINES
    BY <1>3
  <2>2. ED!At(content, start[m]) = ED!NUL
    BY <2>1
  <2>3. PICK k : k = m + 1
    OBVIOUS
  <2>4. k \in 1 .. n /\ m = k - 1 /\ m \in 0 .. n
    BY <1>3, <2>1, <2>3
  <2>5. PICK before, length : before = ends[m] /\ length = Len(text[k])
    OBVIOUS
  <2>6. /\ start[m] = before + 1 /\ before \in Nat /\ length \in Nat
        /\ ends[k] = before + length + 1 /\ ends[k] <= Len(content)
        /\ content[ends[k]] = ED!NL
        /\ \A j \in 1 .. length : content[before + j] = text[k][j]
    BY <1>4, <1>5, <1>6, <1>9, <2>4, <2>5
  <2>7. ED!At(content, before + 1) = content[before + 1]
    BY <2>6 DEF ED!At
  <2>8. content[before + 1] # ED!NUL
    <3>1. CASE length = 0
      <4>1. content[before + 1] = ED!NL
        BY <2>6, <3>1
      <4> QED
        BY <4>1 DEF ED!NL, ED!NUL
    <3>2. CASE length # 0
      <4>1. 1 \in 1 .. length
        BY <2>6, <3>2
      <4>2. text[k][1] \in Plain
        BY <1>5, <2>4, <2>5, <4>1 DEF TextLine
      <4> QED
        BY <2>6, <4>1, <4>2 DEF Plain
    <3> QED
      BY <3>1, <3>2
  <2> QED
    BY <2>2, <2>6, <2>7, <2>8
<1>12. count = n
  <2>1. \A m \in counts : m \in Nat
    BY <1>3
  <2>2. count \in counts /\ \A i \in counts : count <= i
    <3>1. \E m \in counts : \A i \in counts : m <= i
      BY <1>10, <1>11
    <3> HIDE DEF counts
    <3> QED
      BY <3>1
  <2>3. count <= n /\ n <= count /\ count \in Nat
    <3> HIDE DEF counts
    <3> QED
      BY <1>10, <1>11, <2>1, <2>2
  <2> QED
    BY <1>3, <2>3
<1>13. ED!loadFileContent(content) =
         [k \in 1 .. count |-> SubSeq(content, start[k - 1], ED!LineEnd(content, start[k - 1]) - 1)]
  BY <1>8 DEF ED!loadFileContent, ED!Min
<1> HIDE DEF count
<1>14. ASSUME NEW k \in 1 .. n
       PROVE  SubSeq(content, start[k - 1], ED!LineEnd(content, start[k - 1]) - 1) = text[k]
  <2>1. start[k - 1] = ends[k - 1] + 1
    BY <1>5, <1>9
  <2> QED
    BY <1>7, <2>1
<1>15. ED!loadFileContent(content) = [k \in 1 .. n |-> text[k]]
  BY <1>12, <1>13, <1>14
<1>16. text = [k \in 1 .. n |-> text[k]]
  BY <1>2
<1> QED
  BY <1>15, <1>16

\* The pages of a file that the text does not fill have room for a zero.
LEMMA PagesHaveRoom ==
  ASSUME NEW size \in Nat, size % PAGE_SIZE # 0
  PROVE  /\ ED!Zeroes(ED!Pages(size)) \in Seq(Char) /\ Len(ED!Zeroes(ED!Pages(size))) > size
<1>1. PICK page : page = PAGE_SIZE /\ page \in Nat \ {0}
  BY ConsoleAssumption DEF ED!EdlinConstants
<1>2. PICK pages : pages = (size + page - 1) \div page
  OBVIOUS
<1>3. pages \in Nat /\ pages = ED!Pages(size)
  <2>1. pages \in Nat
    BY <1>1, <1>2
  <2> QED
    BY <1>1, <1>2, <2>1 DEF ED!Pages
<1>4. pages * page > size
  <2>1. PICK q, r : q = size \div page /\ r = size % page
    OBVIOUS
  <2>2. q \in Nat /\ r \in 1 .. page - 1 /\ size = q * page + r
    BY <1>1, <2>1
  <2>3. pages >= q + 1
    <3>1. PICK rest : rest = (size + page - 1) % page
      OBVIOUS
    <3>2. rest \in 0 .. page - 1 /\ size + page - 1 = pages * page + rest
      BY <1>1, <1>2, <3>1
    <3>3. pages * page >= q * page + 1
      BY <1>1, <1>3, <2>2, <3>2
    <3>4. ASSUME pages <= q
          PROVE  pages * page <= q * page
      BY <1>1, <1>3, <2>2, <3>4
    <3> QED
      BY <1>1, <1>3, <2>2, <3>3, <3>4
  <2>4. pages * page >= (q + 1) * page
    BY <1>1, <1>3, <2>2, <2>3
  <2>5. (q + 1) * page = q * page + page
    BY <1>1, <2>2
  <2> QED
    BY <1>1, <1>3, <2>2, <2>4, <2>5
<1>5. PICK total : total = pages * page /\ total \in Nat
  BY <1>1, <1>3
<1>6. PICK zeroes : zeroes = ED!Zeroes(ED!Pages(size))
  OBVIOUS
<1>7. zeroes = [i \in 1 .. total |-> ED!NUL]
  BY <1>1, <1>3, <1>5, <1>6 DEF ED!Zeroes
<1>8. zeroes \in Seq(Char)
  BY <1>6, PagesAre
<1>9. Len(zeroes) = total
  BY <1>5, <1>7
<1> QED
  BY <1>4, <1>5, <1>6, <1>8, <1>9

\* What is stored into the pages is there, and the zero behind it.
LEMMA StoredIsThere ==
  ASSUME NEW content \in Seq(Char), NEW chars \in Seq(Char), Len(content) > Len(chars),
         NEW buffer, buffer = ED!Overwritten(content, Append(chars, ED!NUL))
  PROVE  /\ buffer \in Seq(Char) /\ Len(buffer) = Len(content)
         /\ \A i \in 1 .. Len(chars) : buffer[i] = chars[i]
         /\ buffer[Len(chars) + 1] = ED!NUL
<1>1. PICK size, total, all : /\ size = Len(chars) /\ total = Len(content)
                              /\ all = Append(chars, ED!NUL)
  OBVIOUS
<1>2. size \in Nat /\ total \in Nat /\ total > size
  BY <1>1
<1>3. /\ all \in Seq(Char) /\ Len(all) = size + 1
      /\ \A i \in 1 .. size : all[i] = chars[i]
      /\ all[size + 1] = ED!NUL
  <2>1. ED!NUL \in Char
    BY DEF Char
  <2> QED
    BY <1>1, <2>1
<1>4. buffer = [i \in 1 .. total |-> IF i <= Len(all) THEN all[i] ELSE content[i]]
  <2>1. DOMAIN content = 1 .. total
    BY <1>1
  <2> QED
    BY <1>1, <2>1 DEF ED!Overwritten
<1>5. buffer \in Seq(Char)
  BY <1>1, <1>3, OverwrittenIs
<1>6. Len(buffer) = total
  BY <1>2, <1>4
<1>7. ASSUME NEW i \in 1 .. size + 1
      PROVE  buffer[i] = all[i]
  <2>1. i \in 1 .. total /\ i <= Len(all)
    BY <1>2, <1>3
  <2> QED
    BY <1>4, <2>1
<1>8. /\ \A i \in 1 .. size : buffer[i] = chars[i]
      /\ buffer[size + 1] = ED!NUL
  <2>1. size + 1 \in 1 .. size + 1 /\ \A i \in 1 .. size : i \in 1 .. size + 1
    BY <1>2
  <2> QED
    BY <1>3, <1>7, <2>1
<1> QED
  BY <1>1, <1>5, <1>6, <1>8

\* While a save goes on nothing is inserted, and the temporary file, if it is the
\* only one, has the zeroed pages for the text until the file is written.
SaveInv ==
  saving # ED!NoFile =>
    /\ insertPosition = ED!NotInserting
    /\ \A i : ~written /\ ED!Positions(directory, ED!TempFile) = {i}
              => directory[i].content = ED!Zeroes(ED!Pages(Len(ED!Characters(ED!Text))))

\* A save is the only thing that goes on between its steps.
LEMMA SaveGoesOn == EditorInv /\ SaveInv /\ [ED!Next]_(ED!edlinVars) => SaveInv'
<1> SUFFICES ASSUME EditorInv, SaveInv, [ED!Next]_(ED!edlinVars)
             PROVE  SaveInv'
  OBVIOUS
<1>1. ASSUME NEW name \in FileName \cup {initialFileName}, ED!openTemp(name)
      PROVE  SaveInv'
  <2>1. PICK zeroes : zeroes = ED!Zeroes(ED!Pages(Len(ED!Characters(ED!Text))))
    OBVIOUS
  <2>2. /\ directory' = ED!Created(directory, ED!TempFile, zeroes)
        /\ Len(directory) < DirectoryEntries
        /\ insertPosition' = ED!NotInserting /\ UNCHANGED <<textBuffer, totalLines>>
    BY <1>1, <2>1 DEF ED!openTemp, ED!AtPrompt
  <2>3. directory' = Append(directory, [name |-> ED!TempFile, content |-> zeroes])
    BY <2>2 DEF ED!Created
  <2>4. PICK n : n = Len(directory) + 1
    OBVIOUS
  <2>5. n \in DOMAIN directory' /\ directory'[n] = [name |-> ED!TempFile, content |-> zeroes]
    <3>1. directory \in Seq(File)
      BY DEF EditorInv
    <3> QED
      BY <2>3, <2>4, <3>1
  <2>6. n \in ED!Positions(directory', ED!TempFile)
    BY <2>5 DEF ED!Positions
  <2>7. zeroes = ED!Zeroes(ED!Pages(Len(ED!Characters(ED!Text'))))
    BY <2>1, <2>2 DEF ED!Text
  <2>8. ASSUME NEW i, ED!Positions(directory', ED!TempFile) = {i}
        PROVE  directory'[i].content = zeroes
    BY <2>5, <2>6, <2>8
  <2> QED
    BY <2>2, <2>7, <2>8 DEF SaveInv
<1>2. CASE UNCHANGED ED!edlinVars
  BY <1>2 DEF SaveInv, ED!edlinVars, ED!Text
<1>3. CASE ED!writeTarget \/ ED!deleteTemp \/ ED!powerLoss
  BY <1>3 DEF SaveInv, ED!writeTarget, ED!deleteTemp, ED!powerLoss
<1>4. ASSUME \/ \E n \in TypedNumber : ED!jump(n)
             \/ ED!pageUp \/ ED!pageDown \/ ED!quit
             \/ ED!startInsert \/ ED!deleteTextLine
             \/ \E line \in TypedLine : ED!editTextLine(line)
      PROVE  SaveInv'
  <2>1. ED!AtPrompt /\ saving' = saving
    BY <1>4 DEF ED!jump, ED!pageUp, ED!pageDown, ED!quit, ED!startInsert, ED!deleteTextLine,
                ED!editTextLine, ED!Edits
  <2> QED
    BY <2>1 DEF ED!AtPrompt, SaveInv
<1>5. ASSUME ED!endInsert \/ \E line \in TypedLine : ED!insertNewLine(line)
      PROVE  SaveInv'
  <2>1. insertPosition # ED!NotInserting /\ saving' = saving
    BY <1>5 DEF ED!endInsert, ED!insertNewLine
  <2> QED
    BY <2>1 DEF SaveInv
<1> QED
  BY <1>1, <1>2, <1>3, <1>4, <1>5 DEF ED!Next

\* The file that is written under a new name is at the end of the directory, and
\* loading it gives the text.
LEMMA SaveIsLoaded ==
  ASSUME EditorInv, SaveInv, ED!writeTarget, NEW i,
         ED!Positions(directory, saving) = {}, ED!Positions(directory, ED!TempFile) = {i},
         Len(directory) < DirectoryEntries, Len(ED!Characters(ED!Text)) % PAGE_SIZE # 0
  PROVE  ED!LoadsText(saving, directory')
<1>1. PICK text, chars : text = ED!Text /\ chars = ED!Characters(text)
  OBVIOUS
<1>2. /\ text \in Seq(TextLine) /\ Len(text) <= MAX_LINES
      /\ chars \in Seq(Char) /\ Len(chars) \in Nat
  <2>1. text \in Seq(TextLine) /\ Len(text) = totalLines
    BY <1>1, TextIs
  <2>2. totalLines <= MAX_LINES
    BY EditorConstants DEF EditorInv
  <2>3. chars \in Seq(Char)
    BY <1>1, <2>1, CharactersAre
  <2> QED
    BY <2>1, <2>2, <2>3
<1>3. PICK dir, after, n : dir = directory /\ after = directory' /\ n = Len(dir)
  OBVIOUS
<1>4. dir \in Seq(File) /\ n \in Nat /\ DOMAIN dir = 1 .. n
  BY <1>3 DEF EditorInv
<1>5. /\ i \in 1 .. n /\ dir[i].name = ED!TempFile
      /\ \A j \in 1 .. n : dir[j].name = ED!TempFile => j = i
      /\ \A j \in 1 .. n : dir[j].name # saving
  <2>1. \A j \in 1 .. n : dir[j].name = ED!TempFile <=> j \in {i}
    BY <1>3, <1>4 DEF ED!Positions
  <2>2. i \in 1 .. n
    BY <1>3, <1>4 DEF ED!Positions
  <2>3. \A j \in 1 .. n : dir[j].name # saving
    BY <1>3, <1>4 DEF ED!Positions
  <2> QED
    BY <2>1, <2>2, <2>3
<1>7. ED!Found(dir, ED!TempFile) = i
  <2>1. ED!Exists(dir, ED!TempFile)
    BY <1>3 DEF ED!Exists
  <2> QED
    BY <1>4, <1>5, <2>1, FoundIs
<1>8. PICK buffer : buffer = ED!Overwritten(dir[i].content, Append(chars, ED!NUL))
  OBVIOUS
<1>9. /\ buffer \in Seq(Char) /\ Len(buffer) > Len(chars)
      /\ \A j \in 1 .. Len(chars) : buffer[j] = chars[j]
      /\ buffer[Len(chars) + 1] = ED!NUL
  <2>1. PICK zeroes : zeroes = ED!Zeroes(ED!Pages(Len(chars)))
    OBVIOUS
  <2>2. dir[i].content = zeroes
    BY <1>1, <1>3, <2>1 DEF SaveInv, ED!writeTarget
  <2>3. zeroes \in Seq(Char) /\ Len(zeroes) > Len(chars)
    BY <1>1, <1>2, <2>1, PagesHaveRoom
  <2> QED
    BY <1>2, <1>8, <2>2, <2>3, StoredIsThere
<1>10. PICK file : file = [name |-> saving, content |-> buffer]
  OBVIOUS
<1>11. file \in File
  BY <1>9, <1>10 DEF File, EditorInv
<1>12. PICK created : created = Append(dir, file)
  OBVIOUS
<1>13. /\ created \in Seq(File) /\ Len(created) = n + 1 /\ created[n + 1] = file
       /\ \A j \in 1 .. n : created[j] = dir[j]
  BY <1>3, <1>4, <1>11, <1>12
<1>14. after = created
  <2>1. created = ED!Created(directory, saving, buffer)
    BY <1>3, <1>10, <1>12 DEF ED!Created
  <2> QED
    BY <1>1, <1>3, <1>7, <1>8, <2>1 DEF ED!writeTarget
<1>15. n + 1 \in 1 .. Len(after) /\ after[n + 1] = file
  BY <1>4, <1>13, <1>14
<1>16. ASSUME NEW k \in 1 .. Len(after), after[k].name = saving
       PROVE  k = n + 1
  <2> SUFFICES ASSUME k # n + 1
               PROVE  FALSE
    OBVIOUS
  <2>1. k \in 1 .. n
    BY <1>4, <1>13, <1>14
  <2> QED
    BY <1>5, <1>13, <1>14, <1>16, <2>1
<1>17. ED!Exists(after, saving) /\ ED!Found(after, saving) = n + 1
  <2>1. ED!Exists(after, saving)
    BY <1>10, <1>13, <1>14, <1>15, ExistsAt
  <2>2. ED!Found(after, saving) \in 1 .. Len(after) /\ after[ED!Found(after, saving)].name = saving
    BY <1>13, <1>14, <2>1, FoundIs
  <2> QED
    BY <1>16, <2>1, <2>2
<1>18. after[n + 1].content = buffer
  BY <1>10, <1>15
<1>19. ED!loadFileContent(buffer) = text
  BY <1>1, <1>2, <1>9, RoundTrip
<1> QED
  BY <1>1, <1>3, <1>17, <1>18, <1>19 DEF ED!LoadsText

\* Deleting the temporary file leaves the file that was saved, though at another
\* place of the directory it may be.
LEMMA DeletionKeepsFile ==
  ASSUME EditorInv, ED!deleteTemp, saving # ED!TempFile, ED!LoadsText(saving, directory)
  PROVE  ED!LoadsText(saving, directory')
<1>1. PICK dir, after, n : dir = directory /\ after = directory' /\ n = Len(dir)
  OBVIOUS
<1>2. dir \in Seq(File) /\ n \in Nat
  BY <1>1 DEF EditorInv
<1>3. PICK p : p = ED!Found(dir, ED!TempFile)
  OBVIOUS
<1>4. PICK f : f = ED!Found(dir, saving)
  OBVIOUS
<1>5. p \in 1 .. n /\ dir[p].name = ED!TempFile /\ after = ED!RemoveAt(dir, p)
  <2>1. ED!Exists(dir, ED!TempFile)
    BY <1>1 DEF ED!deleteTemp, EditorInv
  <2> QED
    BY <1>1, <1>2, <1>3, <2>1, FoundIs DEF ED!deleteTemp
<1>6. /\ f \in 1 .. n /\ dir[f].name = saving /\ f # p
      /\ \A j \in 1 .. n : dir[j].name = saving => f <= j
  <2>1. ED!Exists(dir, saving)
    BY <1>1 DEF ED!LoadsText
  <2> QED
    BY <1>1, <1>2, <1>4, <1>5, <2>1, FoundIs
<1>7. /\ after \in Seq(File) /\ Len(after) = n - 1
      /\ \A k \in 1 .. n - 1 : after[k] = IF k < p THEN dir[k] ELSE dir[k + 1]
  BY <1>1, <1>2, <1>5, RemovedIs
<1>8. PICK g : g = IF f < p THEN f ELSE f - 1
  OBVIOUS
<1>9. g \in 1 .. n - 1 /\ after[g] = dir[f]
  <2>1. g \in 1 .. n - 1 /\ (g < p <=> f < p) /\ (~(f < p) => g + 1 = f) /\ (f < p => g = f)
    BY <1>2, <1>5, <1>6, <1>8
  <2> QED
    BY <1>7, <2>1
<1>10. ASSUME NEW j \in 1 .. n - 1, after[j].name = saving
       PROVE  g <= j
  <2>1. j \in 1 .. n /\ j + 1 \in 1 .. n
    BY <1>2
  <2>2. CASE j < p
    <3>1. f <= j
      BY <1>6, <1>7, <1>10, <2>1, <2>2
    <3> QED
      BY <1>2, <1>5, <1>6, <1>8, <2>1, <2>2, <3>1
  <2>3. CASE ~(j < p)
    <3>1. f <= j + 1
      BY <1>6, <1>7, <1>10, <2>1, <2>3
    <3> QED
      BY <1>2, <1>5, <1>6, <1>8, <2>1, <2>3, <3>1
  <2> QED
    BY <2>2, <2>3
<1>11. ED!Exists(after, saving)
  BY <1>6, <1>7, <1>9, ExistsAt
<1>12. ED!Found(after, saving) = g
  <2>1. PICK h : h = ED!Found(after, saving)
    OBVIOUS
  <2>2. /\ h \in 1 .. n - 1 /\ after[h].name = saving
        /\ \A j \in 1 .. n - 1 : after[j].name = saving => h <= j
    BY <1>7, <1>11, <2>1, FoundIs
  <2>3. h <= g /\ g <= h
    BY <1>6, <1>9, <1>10, <2>2
  <2> QED
    BY <1>2, <1>9, <2>1, <2>2, <2>3
<1> QED
  BY <1>1, <1>4, <1>9, <1>11, <1>12 DEF ED!LoadsText

\* A text that is saved under a new name is the text that loading the file gives, in
\* every order of the commands and for any text, unless its characters fill their
\* last page; deleting the temporary file does not change it (saveFileContent and
\* loadFileContent, edlin.cpp).
THEOREM SavedIsLoaded == ED!Spec => SavedTextIsLoaded
<1> DEFINE Saved == ED!Saves /\ ED!SavesUnhindered
           Both == EditorInv /\ SaveInv
<1>1. ED!Init => Both
  BY EditorStarts DEF SaveInv, ED!Init
<1>2. Both /\ [ED!Next]_(ED!edlinVars) => Both'
  BY EditorGoesOn, SaveGoesOn
<1>3. ASSUME Both, ED!Next, Saved
      PROVE  ED!LoadsText(saving, directory')
  <2>1. saving # ED!NoFile /\ insertPosition = ED!NotInserting /\ directory' # directory
    BY <1>3 DEF SaveInv, ED!Saves
  <2>2. (ED!writeTarget /\ ~written) \/ (ED!deleteTemp /\ written)
    BY <1>3, <2>1 DEF ED!writeTarget, ED!deleteTemp, ED!Next, ED!jump, ED!pageUp, ED!pageDown, ED!quit, ED!startInsert,
         ED!endInsert, ED!insertNewLine, ED!deleteTextLine, ED!editTextLine, ED!openTemp,
         ED!powerLoss, ED!Edits, ED!AtPrompt
  <2> QED
    BY <1>3, <2>2, SaveIsLoaded, DeletionKeepsFile DEF ED!SavesAnew, ED!SavesUnhindered
<1>4. Both /\ [ED!Next]_(ED!edlinVars)
      => [Saved => ED!LoadsText(saving, directory')]_(ED!edlinVars)
  BY <1>3
<1>5. SavedTextIsLoaded <=> [][Saved => ED!LoadsText(saving, directory')]_(ED!edlinVars)
  BY DEF SavedTextIsLoaded, ED!SavedTextIsLoaded
<1> QED
  BY <1>1, <1>2, <1>4, <1>5, PTL DEF ED!Spec
=============================================================================
