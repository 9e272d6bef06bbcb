------------------------------- MODULE Timer -------------------------------
(***************************************************************************)
(* The tick counters of systemInterruptHandler and the waits that watch    *)
(* them (syscalls.cpp).  A wait turns interrupts on and polls the counter  *)
(* of the system timer until it is past a value computed at its start.     *)
(* Counters are unsigned and wrap.                                         *)
(***************************************************************************)
EXTENDS Integers

CONSTANTS
  SYSTEM_INTERRUPTS_PER_SECOND,  \* 150
  SecondsPerMinute,              \* 60
  CounterModulus                 \* values of a counter (2^32)

ASSUME TimerAssumption ==
  /\ SYSTEM_INTERRUPTS_PER_SECOND \in Nat \ {0}
  /\ SecondsPerMinute \in Nat \ {0}
  /\ CounterModulus \in Nat /\ CounterModulus > SYSTEM_INTERRUPTS_PER_SECOND + 1

VARIABLES
  systemTimerInterruptCount,
  totalInterruptCount,
  uptimeSeconds,   \* what printSystemUptime is given
  futureCount,     \* what a wait compares with, or NotWaiting
  waitsFor,        \* timer interrupts the wait asked for
  waited           \* history: timer interrupts since the wait began

timerVars == <<systemTimerInterruptCount, totalInterruptCount, uptimeSeconds,
               futureCount, waitsFor, waited>>

NotWaiting == -1

TimerInit ==
  /\ systemTimerInterruptCount = 0
  /\ totalInterruptCount = 0
  /\ uptimeSeconds = 0
  /\ futureCount = NotWaiting
  /\ waitsFor = 0
  /\ waited = 0

-----------------------------------------------------------------------------
(* systemInterruptHandler.  It runs in user mode and in waits; other calls  *)
(* have interrupts off. *)

Incremented(count) == (count + 1) % CounterModulus

\* Mutant: a wait leaves interrupts off, as every other system call does.
TimerInterrupt_Masked ==
  LET total == Incremented(totalInterruptCount)
      seconds == total \div SYSTEM_INTERRUPTS_PER_SECOND
  IN /\ futureCount = NotWaiting
     /\ totalInterruptCount' = total
     /\ systemTimerInterruptCount' = Incremented(systemTimerInterruptCount)
     /\ uptimeSeconds' = IF total % SYSTEM_INTERRUPTS_PER_SECOND = 0 THEN uptimeSeconds
                         ELSE IF seconds = SecondsPerMinute THEN 0
                         ELSE seconds
     /\ UNCHANGED <<futureCount, waitsFor, waited>>

\* Any interrupt counts, and only the timer's sets the uptime.  What the handler
\* adds to the run times of processes is left out; what it does to the heap is
\* in KernelHeap.
TimerInterrupt ==
  LET total == Incremented(totalInterruptCount)
      seconds == total \div SYSTEM_INTERRUPTS_PER_SECOND
  IN /\ totalInterruptCount' = total
     /\ systemTimerInterruptCount' = Incremented(systemTimerInterruptCount)
     /\ uptimeSeconds' = IF total % SYSTEM_INTERRUPTS_PER_SECOND = 0 THEN uptimeSeconds
                         ELSE IF seconds = SecondsPerMinute THEN 0
                         ELSE seconds
     /\ waited' = IF futureCount # NotWaiting /\ waited < CounterModulus
                  THEN waited + 1 ELSE waited
     /\ UNCHANGED <<futureCount, waitsFor>>

\* The keyboard's and other interrupts.
OtherInterrupt ==
  /\ totalInterruptCount' = Incremented(totalInterruptCount)
  /\ UNCHANGED <<systemTimerInterruptCount, uptimeSeconds, futureCount, waitsFor, waited>>

-----------------------------------------------------------------------------
(* Waits *)

\* Mutant: the end is computed without the wrap of the counter.
WaitStarts_Unwrapped(interrupts) ==
  /\ futureCount = NotWaiting
  /\ futureCount' = systemTimerInterruptCount + interrupts
  /\ waitsFor' = interrupts
  /\ waited' = 0
  /\ UNCHANGED <<systemTimerInterruptCount, totalInterruptCount, uptimeSeconds>>

WaitStarts(interrupts) ==
  /\ futureCount = NotWaiting
  /\ futureCount' = (systemTimerInterruptCount + interrupts) % CounterModulus
  /\ waitsFor' = interrupts
  /\ waited' = 0
  /\ UNCHANGED <<systemTimerInterruptCount, totalInterruptCount, uptimeSeconds>>

sysWait == WaitStarts(SYSTEM_INTERRUPTS_PER_SECOND)

sysWaitOneInterrupt == WaitStarts(1)

\* Mutant: the loop ends when the count is reached.
WaitEnds_AtCount ==
  /\ futureCount # NotWaiting
  /\ systemTimerInterruptCount >= futureCount
  /\ futureCount' = NotWaiting
  /\ UNCHANGED <<systemTimerInterruptCount, totalInterruptCount, uptimeSeconds,
                 waitsFor, waited>>

\* A poll that finds the counter past the end.
WaitEnds ==
  /\ futureCount # NotWaiting
  /\ systemTimerInterruptCount > futureCount
  /\ futureCount' = NotWaiting
  /\ UNCHANGED <<systemTimerInterruptCount, totalInterruptCount, uptimeSeconds,
                 waitsFor, waited>>

TimerNext == TimerInterrupt \/ OtherInterrupt \/ sysWait \/ sysWaitOneInterrupt \/ WaitEnds

TimerSpec == TimerInit /\ [][TimerNext]_timerVars

-----------------------------------------------------------------------------
(* Properties *)

Count == 0 .. CounterModulus - 1

\* Counters keep to their width.
TimerTypeOK ==
  /\ systemTimerInterruptCount \in Count
  /\ totalInterruptCount \in Count
  /\ uptimeSeconds \in Count
  /\ futureCount \in Count \cup {NotWaiting}
  /\ waitsFor \in {0, 1, SYSTEM_INTERRUPTS_PER_SECOND}
  /\ waited \in 0 .. CounterModulus

\* A wait lasts the full time between as many interrupts as it asks for, which
\* takes one interrupt more than that to see - unless the end it computed
\* wrapped: then it ends at once.
WaitsFullTime ==
  [][ futureCount # NotWaiting /\ futureCount' = NotWaiting /\ futureCount >= waitsFor
      => waited > waitsFor ]_timerVars

\* A wait comes to its end.  One whose end is the largest value of the counter
\* does not: no count is past it.
WaitsEnd ==
  futureCount # NotWaiting /\ futureCount # CounterModulus - 1
    ~> futureCount = NotWaiting
=============================================================================
