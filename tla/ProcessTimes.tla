---------------------------- MODULE ProcessTimes ----------------------------
(***************************************************************************)
(* ProcessTable with the times that systemInterruptHandler keeps in the    *)
(* task structs: at every interrupt the running process ages by one in     *)
(* runtime, and every sleeping one in sleepTime.  Interrupts come between  *)
(* system calls; within one they are off or, in a wait, find the tables as *)
(* they are before or after the call.  recentRuntime changes with runtime  *)
(* and is left out.                                                        *)
(***************************************************************************)
EXTENDS ProcessTable

CONSTANT CounterModulus   \* values of a counter (2^32)

ASSUME TimesAssumption == CounterModulus \in Nat \ {0}

VARIABLES
  runtime, sleepTime,    \* of each task struct
  totalInterruptCount,
  born                   \* history: the count when each process was launched

timesVars == <<vars, runtime, sleepTime, totalInterruptCount, born>>

Incremented(count) == (count + 1) % CounterModulus

TimesInit ==
  /\ Init
  /\ runtime = [p \in Slot |-> 0]
  /\ sleepTime = [p \in Slot |-> 0]
  /\ totalInterruptCount = 0
  /\ born = [p \in Slot |-> 0]

-----------------------------------------------------------------------------
\* The slots a call gives out and the slots it cleans.
Launches == { p \in Slot : task[p].pid = 0 /\ task'[p].pid # 0 }

Frees == { p \in Slot : task[p].pid # 0 /\ task'[p].pid = 0 }

\* Mutant: a slot is freed by its pid alone.
KeepsTimes_PidFreed ==
  /\ runtime' = [p \in Slot |-> IF p \in Launches THEN 0 ELSE runtime[p]]
  /\ born' = [p \in Slot |-> IF p \in Launches THEN totalInterruptCount ELSE born[p]]
  /\ UNCHANGED <<sleepTime, totalInterruptCount>>

\* initializeTask zeroes runtime only; sleepTime of a new process is zero
\* because sysFree zeroed the struct.
KeepsTimes ==
  /\ runtime' = [p \in Slot |-> IF p \in Launches \cup Frees THEN 0 ELSE runtime[p]]
  /\ sleepTime' = [p \in Slot |-> IF p \in Frees THEN 0 ELSE sleepTime[p]]
  /\ born' = [p \in Slot |-> IF p \in Launches THEN totalInterruptCount ELSE born[p]]
  /\ UNCHANGED totalInterruptCount

Call == LaunchNext /\ KeepsTimes

systemInterruptHandler ==
  /\ panicked = "no"
  /\ totalInterruptCount' = Incremented(totalInterruptCount)
  /\ runtime' = [runtime EXCEPT ![RUNNING_PID] = Incremented(@)]
  /\ sleepTime' = [p \in Slot |-> IF task[p].state = PROC_SLEEPING
                                  THEN Incremented(sleepTime[p]) ELSE sleepTime[p]]
  /\ UNCHANGED <<vars, born>>

TimesNext == Call \/ systemInterruptHandler

TimesSpec == TimesInit /\ [][TimesNext]_timesVars

-----------------------------------------------------------------------------
(* Properties *)

\* A process that is not dead has been running or asleep at every interrupt
\* since it was launched, and the two times tell which: through launches,
\* returns, reused slots and counters that wrap, no interrupt is counted twice
\* or not at all (what sysShowProcesses prints as the times of a process).
Accounted ==
  \A p \in Slot :
    task[p].state \in {PROC_SLEEPING, PROC_RUNNING} =>
      (runtime[p] + sleepTime[p]) % CounterModulus
        = (totalInterruptCount - born[p]) % CounterModulus
=============================================================================
