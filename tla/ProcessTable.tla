---------------------------- MODULE ProcessTable ----------------------------
(***************************************************************************)
(* The life of processes: the task structs of PROCESS_TABLE_LOC, the pid   *)
(* in RUNNING_PID_LOC and the page directory in CR3, as initializeTask,    *)
(* sysExec, sysExit and sysSwitchToParent change them, with init's         *)
(* recovery from a fault.                                                  *)
(*                                                                         *)
(* Every system call runs with interrupts off and nothing else changes     *)
(* these tables, so a call is one step.  What a process does between its   *)
(* calls is left open: it may make any call next.                          *)
(*                                                                         *)
(* sysKill, sysFree, sysSwitch and scheduler are left to the student       *)
(* ("ASSIGNMENT 4/5 TO DO"); they are modelled after the comments of       *)
(* syscalls.h and schedule.h and the checks of their libc wrappers.        *)
(***************************************************************************)
EXTENDS Integers, Scan

CONSTANT MAX_PROCESSES   \* task structs in the table (32)

ASSUME ProcessAssumption == MAX_PROCESSES \in Nat /\ MAX_PROCESSES >= 2

PROC_SLEEPING == 1
PROC_RUNNING == 2
PROC_ZOMBIE == 3
PROC_KILLED == 4
KERNEL_OWNED == 255

Slot == 1 .. MAX_PROCESSES   \* a task struct, numbered by the pid it holds

VARIABLES
  task,           \* the task structs
  RUNNING_PID,    \* RUNNING_PID_LOC
  pageDirectory,  \* pid whose page directory is in CR3
  initMain,       \* where each process running init's program is in main's loop
  panicked        \* "no", or why the kernel stopped

vars == <<task, RUNNING_PID, pageDirectory, initMain, panicked>>

Task == [pid : {0} \cup Slot, ppid : {0, KERNEL_OWNED} \cup Slot,
         state : 0 .. 4, binaryName : {"none", "init", "other"}]

ZeroTask == [pid |-> 0, ppid |-> 0, state |-> 0, binaryName |-> "none"]

NewTask(pid, ppid, binaryName) ==
  [pid |-> pid, ppid |-> ppid, state |-> PROC_SLEEPING, binaryName |-> binaryName]

\* kInit and launchInit: init is process 1 and runs.
Init ==
  /\ task = [p \in Slot |-> IF p = 1
                            THEN [NewTask(1, KERNEL_OWNED, "init")
                                    EXCEPT !.state = PROC_RUNNING]
                            ELSE ZeroTask]
  /\ RUNNING_PID = 1
  /\ pageDirectory = 1
  /\ initMain = [p \in Slot |-> "kill"]
  /\ panicked = "no"

-----------------------------------------------------------------------------
(* Parts of the calls *)

\* Mutant: the slot of a dead process counts as free before sysFree.
FreeSlots_Dead ==
  { p \in Slot : task[p].pid = 0 \/ task[p].state \in {PROC_ZOMBIE, PROC_KILLED} }

FreeSlots == { p \in Slot : task[p].pid = 0 }

\* Mutant: the scan stops one slot early.
TableFull_OffByOne == \A p \in FreeSlots : p >= MAX_PROCESSES - 1

\* initializeTask panics when its scan looks at the last slot, free or not.
TableFull == \A p \in FreeSlots : p = MAX_PROCESSES

NewPid == FirstOf(FreeSlots)

\* A process can make calls: the kernel runs and it was not zeroed by sysFree
\* (a zeroed task resumes at address 0 and faults).
Calls == panicked = "no" /\ task[RUNNING_PID].pid # 0

\* initializeTask in a call of the running process.
Launched(binaryName) ==
  [task EXCEPT ![NewPid] = NewTask(NewPid, RUNNING_PID, binaryName)]

\* The files a process may run: any program; after a fault, init.
Launchable == IF Calls THEN {"init", "other"} ELSE {"init"}

-----------------------------------------------------------------------------
(* sysExec, after the file is found.  A missing file changes no table. *)

ExecTableFull ==
  /\ panicked = "no"
  /\ TableFull
  /\ panicked' = "table"
  /\ UNCHANGED <<task, RUNNING_PID, pageDirectory, initMain>>

\* Some requestSpecificPage fails.
ExecNoPage ==
  /\ panicked = "no"
  /\ ~TableFull
  /\ \E b \in Launchable : task' = Launched(b)
  /\ pageDirectory' = NewPid
  /\ panicked' = "page"
  /\ UNCHANGED <<RUNNING_PID, initMain>>

\* External: sysKill(pidToKill).
Killed(table, p) ==
  IF table[p].pid # 0 THEN [table EXCEPT ![p].state = PROC_KILLED] ELSE table

\* Mutant: the error path does not switch back.
ExecRejected_NoSwitchBack ==
  /\ panicked = "no"
  /\ ~TableFull
  /\ Calls
  /\ task' = Killed(Launched("other"), NewPid)
  /\ pageDirectory' = NewPid
  /\ UNCHANGED <<RUNNING_PID, initMain, panicked>>

\* The file is no ELF file or its owner may not execute it.
ExecRejected ==
  /\ panicked = "no"
  /\ ~TableFull
  /\ Calls
  /\ task' = Killed(Launched("other"), NewPid)
  /\ pageDirectory' = RUNNING_PID
  /\ UNCHANGED <<RUNNING_PID, initMain, panicked>>

\* Mutant: the caller keeps running beside its child.
ExecStarts_ParentRuns ==
  /\ panicked = "no"
  /\ ~TableFull
  /\ \E b \in Launchable :
       task' = [Launched(b) EXCEPT ![NewPid].state = PROC_RUNNING]
  /\ RUNNING_PID' = NewPid
  /\ pageDirectory' = NewPid
  /\ initMain' = [initMain EXCEPT ![NewPid] = "kill"]
  /\ UNCHANGED panicked

\* The new program starts in ring 3.
ExecStarts ==
  /\ panicked = "no"
  /\ ~TableFull
  /\ \E b \in Launchable :
       task' = [Launched(b) EXCEPT ![RUNNING_PID].state = PROC_SLEEPING,
                                   ![NewPid].state = PROC_RUNNING]
  /\ RUNNING_PID' = NewPid
  /\ pageDirectory' = NewPid
  /\ initMain' = [initMain EXCEPT ![NewPid] = "kill"]
  /\ UNCHANGED panicked

-----------------------------------------------------------------------------
(* Giving the processor back *)

\* The test of syscalls.cpp:862 before the switch to the parent.
NotDead(state) == state # PROC_SLEEPING \/ state # PROC_RUNNING

\* Mutant: the parent is taken to be the process before this one.
sysExit_Previous ==
  /\ Calls
  /\ RUNNING_PID # 1
  /\ LET ppid == RUNNING_PID - 1
     IN /\ task' = [[task EXCEPT ![RUNNING_PID].state = PROC_ZOMBIE]
                      EXCEPT ![ppid].state = PROC_RUNNING]
        /\ RUNNING_PID' = ppid
        /\ pageDirectory' = IF NotDead(task'[ppid].state) THEN ppid ELSE 1
  /\ UNCHANGED <<initMain, panicked>>

sysExit ==
  /\ Calls
  /\ RUNNING_PID # 1
  /\ LET ppid == task[RUNNING_PID].ppid
     IN /\ task' = [[task EXCEPT ![RUNNING_PID].state = PROC_ZOMBIE]
                      EXCEPT ![ppid].state = PROC_RUNNING]
        /\ RUNNING_PID' = ppid
        /\ pageDirectory' = IF NotDead(task'[ppid].state) THEN ppid ELSE 1
  /\ UNCHANGED <<initMain, panicked>>

\* Mutant: libc's check for process 1 is missing.
sysSwitchToParent_Unchecked ==
  /\ Calls
  /\ LET ppid == task[RUNNING_PID].ppid
     IN /\ task' = [[task EXCEPT ![RUNNING_PID].state = PROC_SLEEPING]
                      EXCEPT ![ppid].state = PROC_RUNNING]
        /\ RUNNING_PID' = ppid
        /\ pageDirectory' = ppid
  /\ UNCHANGED <<initMain, panicked>>

\* systemSwitchToParent returns at once in process 1.
sysSwitchToParent ==
  /\ Calls
  /\ RUNNING_PID # 1
  /\ LET ppid == task[RUNNING_PID].ppid
     IN /\ task' = [[task EXCEPT ![RUNNING_PID].state = PROC_SLEEPING]
                      EXCEPT ![ppid].state = PROC_RUNNING]
        /\ RUNNING_PID' = ppid
        /\ pageDirectory' = ppid
  /\ UNCHANGED <<initMain, panicked>>

\* External: sysSwitch(p, currentPid) and scheduler(currentPid).
SwitchedTo(p) ==
  /\ task[p].state = PROC_SLEEPING
  /\ task' = [task EXCEPT ![RUNNING_PID].state = PROC_SLEEPING,
                          ![p].state = PROC_RUNNING]
  /\ RUNNING_PID' = p
  /\ pageDirectory' = p
  /\ UNCHANGED panicked

\* The "switch" command, or the scheduler after any call; libc refuses the
\* running process itself.
SwitchTask(p) ==
  /\ Calls
  /\ p # RUNNING_PID
  /\ SwitchedTo(p)
  /\ UNCHANGED initMain

-----------------------------------------------------------------------------
(* Removing processes *)

\* The "kill" command; libc refuses the running process itself.
KillTask(p) ==
  /\ Calls
  /\ p # RUNNING_PID
  /\ task[p].pid # 0
  /\ task' = Killed(task, p)
  /\ UNCHANGED <<RUNNING_PID, pageDirectory, initMain, panicked>>

\* External: "frees memory and frames for killed or zombie processes".
sysFree ==
  /\ Calls
  /\ task' = [p \in Slot |-> IF task[p].state \in {PROC_ZOMBIE, PROC_KILLED}
                             THEN ZeroTask ELSE task[p]]
  /\ UNCHANGED <<RUNNING_PID, pageDirectory, initMain, panicked>>

-----------------------------------------------------------------------------
(* init's main, in a process that a fault handler started: kill the process *)
(* with the pid before this one, switch to process 1, and again if resumed. *)

Recovering(step) ==
  /\ Calls
  /\ RUNNING_PID # 1
  /\ task[RUNNING_PID].binaryName = "init"
  /\ initMain[RUNNING_PID] = step

InitKills ==
  /\ Recovering("kill")
  /\ task' = Killed(task, RUNNING_PID - 1)
  /\ initMain' = [initMain EXCEPT ![RUNNING_PID] = "switch"]
  /\ UNCHANGED <<RUNNING_PID, pageDirectory, panicked>>

InitSwitches ==
  /\ Recovering("switch")
  /\ SwitchedTo(1)
  /\ initMain' = [initMain EXCEPT ![RUNNING_PID] = "kill"]

-----------------------------------------------------------------------------
\* The calls of the source that are complete, with sysFree.
LaunchNext ==
  \/ ExecTableFull
  \/ ExecNoPage
  \/ ExecRejected
  \/ ExecStarts
  \/ sysExit
  \/ sysSwitchToParent
  \/ sysFree

Next ==
  \/ LaunchNext
  \/ \E p \in Slot : SwitchTask(p) \/ KillTask(p)
  \/ InitKills
  \/ InitSwitches

\* Processes that only start programs, return and are cleaned up.
LaunchSpec == Init /\ [][LaunchNext]_vars

\* All of it.
Spec == Init /\ [][Next]_vars

-----------------------------------------------------------------------------
(* Properties *)

\* The types of all the state.  A task struct holds its own pid or none.
TypeOK ==
  /\ task \in [Slot -> Task]
  /\ \A p \in Slot : task[p].pid \in {0, p}
  /\ RUNNING_PID \in Slot
  /\ pageDirectory \in Slot
  /\ initMain \in [Slot -> {"kill", "switch"}]
  /\ panicked \in {"no", "table", "page"}

\* Between system calls one process is RUNNING, the one RUNNING_PID_LOC
\* names, through every order of exec, exit, switches and kills.
OneRunning ==
  panicked = "no" =>
    \A p \in Slot : task[p].state = PROC_RUNNING <=> p = RUNNING_PID

\* A process runs in its own address space: every path of sysExec and every
\* switch leaves in CR3 the page directory of the process that is resumed.
OwnAddressSpace == panicked = "no" => pageDirectory = RUNNING_PID

\* Process slots are lost to nothing but processes: initializeTask panics only
\* when every slot it can use holds a process that was not freed.
PanicOnlyWhenFull ==
  panicked = "table" => \A p \in 1 .. MAX_PROCESSES - 1 : task[p].pid = p

\* initializeTask never takes the slot of a process that sysFree has not
\* cleaned: a process keeps its parent and its program for its whole life.
SlotNotReused ==
  [][\A p \in Slot :
       task[p].pid # 0 /\ task'[p].pid # 0 =>
         /\ task'[p].ppid = task[p].ppid
         /\ task'[p].binaryName = task[p].binaryName]_vars

\* The callers of the running process, outermost first: each launched the
\* next, waits for it, and still exists.
IsCallChain(n, chain) ==
  /\ chain[1] = 1
  /\ chain[n] = RUNNING_PID
  /\ \A i \in 1 .. n : task[chain[i]].pid = chain[i]
  /\ \A i \in 1 .. n - 1 :
       /\ task[chain[i]].state = PROC_SLEEPING
       /\ task[chain[i + 1]].ppid = chain[i]
  /\ \A i, j \in 1 .. n : chain[i] = chain[j] => i = j

\* While processes only launch others, exit, return to their parents and are
\* freed, the running process descends from init through live sleeping
\* callers, so the parent sysExit resumes is never dead or freed.
CallChain ==
  \E n \in Slot : \E chain \in [1 .. n -> Slot] : IsCallChain(n, chain)

\* Under the same calls a process that gets the processor was launched in this
\* step or was asleep: never a zombie, a killed or a freed one.
ResumesSleeper ==
  [][RUNNING_PID' # RUNNING_PID =>
       \/ task[RUNNING_PID'].pid = 0 /\ task'[RUNNING_PID'].pid # 0
       \/ task[RUNNING_PID'].state = PROC_SLEEPING]_vars

\* syscalls.cpp:858, about sysExit: "Checking the parent's status to make sure
\* it isn't dead before switching back to it".
ExitNotToDead ==
  [][sysExit => task[RUNNING_PID'].state \in {PROC_SLEEPING, PROC_RUNNING}]_vars
=============================================================================
