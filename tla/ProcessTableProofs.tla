------------------------- MODULE ProcessTableProofs -------------------------
(***************************************************************************)
(* Proofs about the process table: for every number of task structs, one   *)
(* process is running, in its own address space, and initializeTask never  *)
(* loses or reuses the slot of a process; and the times of a process add up *)
(* to its age, for every width of the counters.                            *)
(***************************************************************************)
EXTENDS ProcessTimes, ScanProofs

\* A process other than the first has a parent to return to: init alone was
\* launched by the kernel.  The calls that write through task[RUNNING_PID].ppid
\* stay in the table because of this.
HasParent == \A p \in Slot : task[p].pid # 0 /\ p # 1 => task[p].ppid \in Slot

\* The inductive invariant.
ProcessInv ==
  TypeOK /\ HasParent /\ OneRunning /\ OwnAddressSpace /\ PanicOnlyWhenFull

\* A scan that does not panic finds a free slot before the last.
LEMMA NewPidIsFree ==
  ASSUME ~TableFull
  PROVE  NewPid \in Slot /\ task[NewPid].pid = 0
<1>1. FreeSlots \in SUBSET Nat /\ FreeSlots # {}
  BY ProcessAssumption DEF FreeSlots, Slot, TableFull
<1>2. NewPid \in FreeSlots
  BY <1>1, FirstOfIsFirst DEF NewPid
<1> QED
  BY <1>2 DEF FreeSlots

\* The test of sysExit is a tautology: it always switches to the parent.
LEMMA NotDeadAlways == ASSUME NEW state PROVE NotDead(state)
BY DEF NotDead, PROC_SLEEPING, PROC_RUNNING

\* The table with the new process in it.
LEMMA LaunchedTable ==
  ASSUME ProcessInv, ~TableFull, NEW b \in {"init", "other"}
  PROVE  /\ Launched(b) \in [Slot -> Task]
         /\ Launched(b)[NewPid] = NewTask(NewPid, RUNNING_PID, b)
         /\ \A p \in Slot \ {NewPid} : Launched(b)[p] = task[p]
         /\ \A p \in Slot : Launched(b)[p].pid \in {0, p}
         /\ \A p \in Slot : Launched(b)[p].pid # 0 /\ p # 1 => Launched(b)[p].ppid \in Slot
<1>1. NewPid \in Slot
  BY NewPidIsFree
<1>2. NewTask(NewPid, RUNNING_PID, b) \in Task
  BY <1>1 DEF NewTask, Task, PROC_SLEEPING, ProcessInv, TypeOK
<1>3. /\ NewTask(NewPid, RUNNING_PID, b).pid = NewPid
      /\ NewTask(NewPid, RUNNING_PID, b).ppid \in Slot
  BY DEF NewTask, ProcessInv, TypeOK
<1> QED
  BY <1>1, <1>2, <1>3 DEF Launched, ProcessInv, TypeOK, HasParent

\* sysKill changes one state.
LEMMA KilledTable ==
  ASSUME NEW table \in [Slot -> Task], NEW p \in Slot
  PROVE  /\ Killed(table, p) \in [Slot -> Task]
         /\ \A q \in Slot : /\ Killed(table, p)[q].pid = table[q].pid
                            /\ Killed(table, p)[q].ppid = table[q].ppid
                            /\ Killed(table, p)[q].binaryName = table[q].binaryName
         /\ \A q \in Slot \ {p} : Killed(table, p)[q] = table[q]
         /\ table[p].pid # 0 => Killed(table, p)[p].state = PROC_KILLED
BY DEF Killed, Task, PROC_KILLED

\* Process p stops with state s and q runs.
HandOver(table, p, s, q) ==
  [[table EXCEPT ![p].state = s] EXCEPT ![q].state = PROC_RUNNING]

\* Two states changed: the process that stops, then the one that runs.
LEMMA HandedOver ==
  ASSUME NEW table \in [Slot -> Task], NEW p \in Slot, NEW q \in Slot,
         NEW s \in {PROC_SLEEPING, PROC_ZOMBIE}, NEW next,
         next = HandOver(table, p, s, q),
         \A r \in Slot : table[r].state = PROC_RUNNING => r \in {p, q}
  PROVE  /\ next \in [Slot -> Task]
         /\ \A r \in Slot : /\ next[r].pid = table[r].pid
                            /\ next[r].ppid = table[r].ppid
                            /\ next[r].binaryName = table[r].binaryName
         /\ \A r \in Slot : next[r].state = PROC_RUNNING <=> r = q
         /\ \A r \in Slot \ {p, q} : next[r] = table[r]
         /\ p # q => next[p].state = s
BY DEF HandOver, Task, PROC_SLEEPING, PROC_ZOMBIE, PROC_RUNNING

-----------------------------------------------------------------------------
(* The invariant, one lemma per action *)

\* kInit leaves one process, init, without a parent.
LEMMA InitProcessInv == Init => ProcessInv
<1> SUFFICES ASSUME Init PROVE ProcessInv
  OBVIOUS
<1>1. 1 \in Slot
  BY ProcessAssumption DEF Slot
<1>2. TypeOK
  BY <1>1 DEF Init, TypeOK, Task, NewTask, ZeroTask, PROC_SLEEPING, PROC_RUNNING
<1>3. HasParent /\ OneRunning /\ OwnAddressSpace /\ PanicOnlyWhenFull
  BY <1>1 DEF Init, HasParent, OneRunning, OwnAddressSpace, PanicOnlyWhenFull,
              NewTask, ZeroTask, PROC_SLEEPING, PROC_RUNNING
<1> QED
  BY <1>2, <1>3 DEF ProcessInv

\* The panic over the table: the slots before the last are taken.
LEMMA ExecTableFullInv == ASSUME ProcessInv, ExecTableFull PROVE ProcessInv'
<1>1. TypeOK' /\ HasParent' /\ OneRunning' /\ OwnAddressSpace'
  BY DEF ProcessInv, ExecTableFull, TypeOK, HasParent, OneRunning, OwnAddressSpace
<1>2. ASSUME NEW p \in 1 .. MAX_PROCESSES - 1
      PROVE  task[p].pid = p
  <2>1. p \in Slot /\ p # MAX_PROCESSES
    BY ProcessAssumption DEF Slot
  <2>2. p \notin FreeSlots
    BY <2>1 DEF ExecTableFull, TableFull
  <2> QED
    BY <2>1, <2>2 DEF FreeSlots, ProcessInv, TypeOK
<1>3. PanicOnlyWhenFull'
  BY <1>2 DEF PanicOnlyWhenFull, ExecTableFull
<1> QED
  BY <1>1, <1>3 DEF ProcessInv

\* The panic over a page: the new process is in the table and never runs.
LEMMA ExecNoPageInv == ASSUME ProcessInv, ExecNoPage PROVE ProcessInv'
<1>1. PICK b \in Launchable : task' = Launched(b)
  BY DEF ExecNoPage
<1>2. b \in {"init", "other"} /\ ~TableFull
  BY DEF Launchable, ExecNoPage
<1>3. NewPid \in Slot
  BY <1>2, NewPidIsFree
<1>4. TypeOK' /\ HasParent'
  BY <1>1, <1>2, <1>3, LaunchedTable DEF TypeOK, HasParent, ProcessInv, ExecNoPage
<1> QED
  BY <1>4 DEF ProcessInv, ExecNoPage, OneRunning, OwnAddressSpace, PanicOnlyWhenFull

\* A rejected program: its process is killed before it ran.
LEMMA ExecRejectedInv == ASSUME ProcessInv, ExecRejected PROVE ProcessInv'
<1>1. /\ ~TableFull /\ Calls /\ panicked' = "no" /\ panicked = "no"
      /\ task' = Killed(Launched("other"), NewPid)
      /\ pageDirectory' = RUNNING_PID
      /\ RUNNING_PID' = RUNNING_PID /\ initMain' = initMain
  BY DEF ExecRejected
<1>2. NewPid \in Slot /\ task[NewPid].pid = 0 /\ RUNNING_PID # NewPid
  BY <1>1, NewPidIsFree DEF Calls
<1>3. /\ Launched("other") \in [Slot -> Task]
      /\ Launched("other")[NewPid] = NewTask(NewPid, RUNNING_PID, "other")
      /\ \A p \in Slot \ {NewPid} : Launched("other")[p] = task[p]
      /\ \A p \in Slot : Launched("other")[p].pid \in {0, p}
      /\ \A p \in Slot : Launched("other")[p].pid # 0 /\ p # 1
                         => Launched("other")[p].ppid \in Slot
  BY <1>1, LaunchedTable
<1>4. Launched("other")[NewPid].pid # 0
  BY <1>2, <1>3 DEF NewTask, Slot
<1>5. /\ task' \in [Slot -> Task]
      /\ \A q \in Slot : /\ task'[q].pid = Launched("other")[q].pid
                         /\ task'[q].ppid = Launched("other")[q].ppid
      /\ \A q \in Slot \ {NewPid} : task'[q] = task[q]
      /\ task'[NewPid].state = PROC_KILLED
  BY <1>1, <1>2, <1>3, <1>4, KilledTable
<1>6. TypeOK'
  BY <1>1, <1>3, <1>5 DEF ProcessInv, TypeOK
<1>7. HasParent'
  BY <1>3, <1>5 DEF HasParent
<1>8. OneRunning'
  BY <1>1, <1>2, <1>5 DEF ProcessInv, OneRunning, PROC_KILLED, PROC_RUNNING
<1> QED
  BY <1>1, <1>6, <1>7, <1>8 DEF ProcessInv, OwnAddressSpace, PanicOnlyWhenFull

\* A program that starts: its caller sleeps.
LEMMA ExecStartsInv == ASSUME ProcessInv, ExecStarts PROVE ProcessInv'
<1>1. PICK b \in Launchable :
        task' = [Launched(b) EXCEPT ![RUNNING_PID].state = PROC_SLEEPING,
                                    ![NewPid].state = PROC_RUNNING]
  BY DEF ExecStarts
<1>2. /\ ~TableFull /\ panicked = "no" /\ panicked' = "no"
      /\ RUNNING_PID' = NewPid /\ pageDirectory' = NewPid
      /\ initMain' = [initMain EXCEPT ![NewPid] = "kill"]
      /\ b \in {"init", "other"}
  BY DEF ExecStarts, Launchable
<1>3. NewPid \in Slot
  BY <1>2, NewPidIsFree
<1>4. /\ Launched(b) \in [Slot -> Task]
      /\ Launched(b)[NewPid] = NewTask(NewPid, RUNNING_PID, b)
      /\ \A p \in Slot \ {NewPid} : Launched(b)[p] = task[p]
      /\ \A p \in Slot : Launched(b)[p].pid \in {0, p}
      /\ \A p \in Slot : Launched(b)[p].pid # 0 /\ p # 1 => Launched(b)[p].ppid \in Slot
  BY <1>2, LaunchedTable
<1>5. RUNNING_PID \in Slot
  BY DEF ProcessInv, TypeOK
<1>6. \A r \in Slot : Launched(b)[r].state = PROC_RUNNING => r \in {RUNNING_PID, NewPid}
  BY <1>2, <1>4 DEF ProcessInv, OneRunning
<1>7. /\ task' \in [Slot -> Task]
      /\ \A r \in Slot : /\ task'[r].pid = Launched(b)[r].pid
                         /\ task'[r].ppid = Launched(b)[r].ppid
      /\ \A r \in Slot : task'[r].state = PROC_RUNNING <=> r = NewPid
  <2> DEFINE launched == Launched(b)
             this == RUNNING_PID
             new == NewPid
  <2>1. task' = HandOver(launched, this, PROC_SLEEPING, new)
    BY <1>1 DEF HandOver
  <2> HIDE DEF launched, this, new
  <2>2. launched \in [Slot -> Task] /\ this \in Slot /\ new \in Slot
        /\ \A r \in Slot : launched[r].state = PROC_RUNNING => r \in {this, new}
    BY <1>3, <1>4, <1>5, <1>6 DEF launched, this, new
  <2>3. /\ task' \in [Slot -> Task]
        /\ \A r \in Slot : /\ task'[r].pid = launched[r].pid
                           /\ task'[r].ppid = launched[r].ppid
        /\ \A r \in Slot : task'[r].state = PROC_RUNNING <=> r = new
    BY <2>1, <2>2, HandedOver
  <2> QED
    BY <2>3 DEF launched, new
<1>8. TypeOK'
  BY <1>2, <1>3, <1>4, <1>7 DEF ProcessInv, TypeOK
<1>9. HasParent'
  BY <1>4, <1>7 DEF HasParent
<1> QED
  BY <1>2, <1>7, <1>8, <1>9 DEF ProcessInv, OneRunning, OwnAddressSpace, PanicOnlyWhenFull

\* The processor goes from the running process, which stays with state s, to
\* the process q, with its page directory.
LEMMA HandsOverInv ==
  ASSUME ProcessInv, panicked = "no", NEW q \in Slot,
         NEW s \in {PROC_SLEEPING, PROC_ZOMBIE},
         task' = HandOver(task, RUNNING_PID, s, q),
         RUNNING_PID' = q, pageDirectory' = q,
         initMain' \in [Slot -> {"kill", "switch"}], panicked' = "no"
  PROVE  ProcessInv'
<1>1. /\ task \in [Slot -> Task] /\ RUNNING_PID \in Slot
      /\ \A r \in Slot : task[r].state = PROC_RUNNING => r \in {RUNNING_PID, q}
  BY DEF ProcessInv, TypeOK, OneRunning
<1>2. /\ task' \in [Slot -> Task]
      /\ \A r \in Slot : task'[r].pid = task[r].pid /\ task'[r].ppid = task[r].ppid
      /\ \A r \in Slot : task'[r].state = PROC_RUNNING <=> r = q
  BY <1>1, HandedOver
<1>3. TypeOK' /\ HasParent'
  BY <1>2 DEF ProcessInv, TypeOK, HasParent
<1> QED
  BY <1>2, <1>3 DEF ProcessInv, OneRunning, OwnAddressSpace, PanicOnlyWhenFull

\* Only a process with a parent exits or returns to it.
LEMMA ParentInTable ==
  ASSUME ProcessInv, Calls, RUNNING_PID # 1
  PROVE  task[RUNNING_PID].ppid \in Slot
BY DEF ProcessInv, TypeOK, HasParent, Calls

\* sysExit resumes the parent.
LEMMA sysExitInv == ASSUME ProcessInv, sysExit PROVE ProcessInv'
<1> DEFINE ppid == task[RUNNING_PID].ppid
<1>1. ppid \in Slot
  BY ParentInTable DEF sysExit
<1>2. /\ task' = HandOver(task, RUNNING_PID, PROC_ZOMBIE, ppid)
      /\ RUNNING_PID' = ppid /\ pageDirectory' = ppid
      /\ panicked = "no" /\ panicked' = "no"
  BY NotDeadAlways DEF sysExit, HandOver, Calls
<1>3. initMain' \in [Slot -> {"kill", "switch"}]
  BY DEF sysExit, ProcessInv, TypeOK
<1> HIDE DEF ppid
<1> QED
  BY <1>1, <1>2, <1>3, HandsOverInv

\* So does sysSwitchToParent.
LEMMA sysSwitchToParentInv == ASSUME ProcessInv, sysSwitchToParent PROVE ProcessInv'
<1> DEFINE ppid == task[RUNNING_PID].ppid
<1>1. ppid \in Slot
  BY ParentInTable DEF sysSwitchToParent
<1>2. /\ task' = HandOver(task, RUNNING_PID, PROC_SLEEPING, ppid)
      /\ RUNNING_PID' = ppid /\ pageDirectory' = ppid
      /\ panicked = "no" /\ panicked' = "no"
  BY DEF sysSwitchToParent, HandOver, Calls
<1>3. initMain' \in [Slot -> {"kill", "switch"}]
  BY DEF sysSwitchToParent, ProcessInv, TypeOK
<1> HIDE DEF ppid
<1> QED
  BY <1>1, <1>2, <1>3, HandsOverInv

\* A switch by sysSwitch, by the scheduler or by init: to a process that sleeps.
LEMMA SwitchedToInv ==
  ASSUME ProcessInv, panicked = "no", NEW p \in Slot, SwitchedTo(p),
         initMain' \in [Slot -> {"kill", "switch"}]
  PROVE  ProcessInv'
<1>1. /\ task' = HandOver(task, RUNNING_PID, PROC_SLEEPING, p)
      /\ RUNNING_PID' = p /\ pageDirectory' = p /\ panicked' = "no"
  BY DEF SwitchedTo, HandOver
<1> QED
  BY <1>1, HandsOverInv

\* A process other than the running one is killed.
LEMMA KillsInv ==
  ASSUME ProcessInv, panicked = "no", NEW p \in Slot, p # RUNNING_PID,
         task' = Killed(task, p), initMain' \in [Slot -> {"kill", "switch"}],
         UNCHANGED <<RUNNING_PID, pageDirectory, panicked>>
  PROVE  ProcessInv'
<1>1. /\ task' \in [Slot -> Task]
      /\ \A q \in Slot : task'[q].pid = task[q].pid /\ task'[q].ppid = task[q].ppid
      /\ \A q \in Slot \ {p} : task'[q] = task[q]
      /\ task[p].pid # 0 => task'[p].state = PROC_KILLED
      /\ task[p].pid = 0 => task'[p] = task[p]
  BY KilledTable DEF Killed, ProcessInv, TypeOK
<1>2. TypeOK' /\ HasParent'
  BY <1>1 DEF ProcessInv, TypeOK, HasParent
<1>3. OneRunning'
  BY <1>1 DEF ProcessInv, OneRunning, PROC_KILLED, PROC_RUNNING
<1> QED
  BY <1>2, <1>3 DEF ProcessInv, OwnAddressSpace, PanicOnlyWhenFull

\* What sysFree removes is dead, so the running process is not.
LEMMA sysFreeInv == ASSUME ProcessInv, sysFree PROVE ProcessInv'
<1>1. ZeroTask \in Task /\ ZeroTask.pid = 0 /\ ZeroTask.state = 0
  BY DEF ZeroTask, Task
<1>2. TypeOK' /\ HasParent'
  BY <1>1 DEF sysFree, ProcessInv, TypeOK, HasParent
<1>3. OneRunning'
  BY <1>1 DEF sysFree, ProcessInv, OneRunning, Calls, PROC_RUNNING, PROC_ZOMBIE, PROC_KILLED
<1> QED
  BY <1>2, <1>3 DEF ProcessInv, OwnAddressSpace, PanicOnlyWhenFull, sysFree, Calls

\* init kills the process with the pid before its own: not itself.
LEMMA InitKillsInv == ASSUME ProcessInv, InitKills PROVE ProcessInv'
<1>1. RUNNING_PID - 1 \in Slot /\ RUNNING_PID - 1 # RUNNING_PID
  BY ProcessAssumption DEF InitKills, Recovering, ProcessInv, TypeOK, Slot
<1>2. initMain' \in [Slot -> {"kill", "switch"}]
  BY DEF InitKills, ProcessInv, TypeOK
<1>3. panicked = "no" /\ task' = Killed(task, RUNNING_PID - 1)
      /\ UNCHANGED <<RUNNING_PID, pageDirectory, panicked>>
  BY DEF InitKills, Recovering, Calls
<1> QED
  BY <1>1, <1>2, <1>3, KillsInv

\* Every step keeps the invariant.
LEMMA NextProcessInv == ProcessInv /\ [Next]_vars => ProcessInv'
<1> SUFFICES ASSUME ProcessInv, [Next]_vars PROVE ProcessInv'
  OBVIOUS
<1>1. CASE ExecTableFull
  BY <1>1, ExecTableFullInv
<1>2. CASE ExecNoPage
  BY <1>2, ExecNoPageInv
<1>3. CASE ExecRejected
  BY <1>3, ExecRejectedInv
<1>4. CASE ExecStarts
  BY <1>4, ExecStartsInv
<1>5. CASE sysExit
  BY <1>5, sysExitInv
<1>6. CASE sysSwitchToParent
  BY <1>6, sysSwitchToParentInv
<1>7. CASE sysFree
  BY <1>7, sysFreeInv
<1>8. CASE \E p \in Slot : SwitchTask(p)
  <2>1. PICK p \in Slot : SwitchTask(p)
    BY <1>8
  <2>2. panicked = "no" /\ SwitchedTo(p) /\ initMain' \in [Slot -> {"kill", "switch"}]
    BY <2>1 DEF SwitchTask, Calls, ProcessInv, TypeOK
  <2> QED
    BY <2>2, SwitchedToInv
<1>9. CASE \E p \in Slot : KillTask(p)
  <2>1. PICK p \in Slot : KillTask(p)
    BY <1>9
  <2>2. /\ panicked = "no" /\ p # RUNNING_PID /\ task' = Killed(task, p)
        /\ initMain' \in [Slot -> {"kill", "switch"}]
        /\ UNCHANGED <<RUNNING_PID, pageDirectory, panicked>>
    BY <2>1 DEF KillTask, Calls, ProcessInv, TypeOK
  <2> QED
    BY <2>2, KillsInv
<1>10. CASE InitKills
  BY <1>10, InitKillsInv
<1>11. CASE InitSwitches
  <2>1. 1 \in Slot
    BY ProcessAssumption DEF Slot
  <2>2. panicked = "no" /\ SwitchedTo(1) /\ initMain' \in [Slot -> {"kill", "switch"}]
    BY <1>11 DEF InitSwitches, Recovering, Calls, ProcessInv, TypeOK
  <2> QED
    BY <2>1, <2>2, SwitchedToInv
<1>12. CASE UNCHANGED vars
  BY <1>12 DEF vars, ProcessInv, TypeOK, HasParent, OneRunning, OwnAddressSpace,
               PanicOnlyWhenFull
<1> QED
  BY <1>1, <1>2, <1>3, <1>4, <1>5, <1>6, <1>7, <1>8, <1>9, <1>10, <1>11, <1>12
  DEF Next, LaunchNext

\* Every reachable state satisfies the invariant.
LEMMA ProcessInvAlways == Spec => []ProcessInv
<1> QED
  BY InitProcessInv, NextProcessInv, PTL DEF Spec

-----------------------------------------------------------------------------
(* The theorems *)

\* Every operation keeps the types: in particular no call writes a task struct
\* outside the table, whatever the processes do.
THEOREM TypeCorrect == Spec => []TypeOK
<1>1. ProcessInv => TypeOK
  BY DEF ProcessInv
<1> QED
  BY <1>1, ProcessInvAlways, PTL

\* Through every order of exec, exit, switches, kills and frees, exactly the
\* process that RUNNING_PID_LOC names is RUNNING.
THEOREM OneProcessRuns == Spec => []OneRunning
<1>1. ProcessInv => OneRunning
  BY DEF ProcessInv
<1> QED
  BY <1>1, ProcessInvAlways, PTL

\* The process that runs is the one whose page directory is in CR3.
THEOREM AddressSpaceIsOwn == Spec => []OwnAddressSpace
<1>1. ProcessInv => OwnAddressSpace
  BY DEF ProcessInv
<1> QED
  BY <1>1, ProcessInvAlways, PTL

\* initializeTask panics only when every slot before the last is taken.
THEOREM NoSlotIsLost == Spec => []PanicOnlyWhenFull
<1>1. ProcessInv => PanicOnlyWhenFull
  BY DEF ProcessInv
<1> QED
  BY <1>1, ProcessInvAlways, PTL

-----------------------------------------------------------------------------
(* Slots are not reused *)

\* The call does not change the program and the parent of a process.
Identity ==
  \A p \in Slot :
    task[p].pid # 0 /\ task'[p].pid # 0 =>
      /\ task'[p].ppid = task[p].ppid
      /\ task'[p].binaryName = task[p].binaryName

\* The launches write only the task struct that initializeTask found free.
LEMMA LaunchesKeepIdentity ==
  ASSUME ProcessInv, ExecNoPage \/ ExecRejected \/ ExecStarts
  PROVE  /\ NewPid \in Slot /\ task[NewPid].pid = 0
         /\ \A p \in Slot \ {NewPid} :
              /\ task'[p].ppid = task[p].ppid
              /\ task'[p].binaryName = task[p].binaryName
<1>1. ~TableFull
  BY DEF ExecNoPage, ExecRejected, ExecStarts
<1>2. NewPid \in Slot /\ task[NewPid].pid = 0
  BY <1>1, NewPidIsFree
<1>3. CASE ExecNoPage
  <2>1. PICK b \in {"init", "other"} : task' = Launched(b)
    BY <1>3 DEF ExecNoPage, Launchable
  <2> QED
    BY <1>1, <1>2, <2>1, LaunchedTable
<1>4. CASE ExecRejected
  <2>1. Launched("other") \in [Slot -> Task]
        /\ \A p \in Slot \ {NewPid} : Launched("other")[p] = task[p]
    BY <1>1, LaunchedTable
  <2>2. task' = Killed(Launched("other"), NewPid)
    BY <1>4 DEF ExecRejected
  <2> QED
    BY <1>2, <2>1, <2>2, KilledTable
<1>5. CASE ExecStarts
  <2>1. PICK b \in {"init", "other"} :
          task' = [Launched(b) EXCEPT ![RUNNING_PID].state = PROC_SLEEPING,
                                      ![NewPid].state = PROC_RUNNING]
    BY <1>5 DEF ExecStarts, Launchable
  <2>2. Launched(b) \in [Slot -> Task]
        /\ \A p \in Slot \ {NewPid} : Launched(b)[p] = task[p]
    BY <1>1, LaunchedTable
  <2>3. \A p \in Slot : /\ task'[p].ppid = Launched(b)[p].ppid
                       /\ task'[p].binaryName = Launched(b)[p].binaryName
    <3> HIDE DEF Launched
    <3> QED
      BY <2>1, <2>2 DEF Task
  <2> QED
    BY <1>2, <2>2, <2>3
<1> QED
  BY <1>2, <1>3, <1>4, <1>5

\* The calls that hand the processor over change states only.
LEMMA StatesKeepIdentity ==
  ASSUME ProcessInv, NEW p \in Slot, NEW q \in Slot, NEW s,
         task' = HandOver(task, p, s, q)
  PROVE  Identity
BY DEF ProcessInv, TypeOK, Task, HandOver, Identity

\* Every step leaves the identity of processes alone.
LEMMA NextIdentity == ProcessInv /\ [Next]_vars => Identity
<1> SUFFICES ASSUME ProcessInv, [Next]_vars PROVE Identity
  OBVIOUS
<1>0. task \in [Slot -> Task] /\ RUNNING_PID \in Slot
  BY DEF ProcessInv, TypeOK
<1>1. CASE ExecTableFull
  BY <1>1 DEF ExecTableFull, Identity
<1>2. CASE ExecNoPage \/ ExecRejected \/ ExecStarts
  BY <1>2, LaunchesKeepIdentity DEF Identity
<1>3. CASE sysExit
  <2>1. task[RUNNING_PID].ppid \in Slot
    BY <1>3, ParentInTable DEF sysExit
  <2>2. task' = HandOver(task, RUNNING_PID, PROC_ZOMBIE, task[RUNNING_PID].ppid)
    BY <1>3 DEF sysExit, HandOver
  <2> QED
    BY <1>0, <2>1, <2>2, StatesKeepIdentity
<1>4. CASE sysSwitchToParent
  <2>1. task[RUNNING_PID].ppid \in Slot
    BY <1>4, ParentInTable DEF sysSwitchToParent
  <2>2. task' = HandOver(task, RUNNING_PID, PROC_SLEEPING, task[RUNNING_PID].ppid)
    BY <1>4 DEF sysSwitchToParent, HandOver
  <2> QED
    BY <1>0, <2>1, <2>2, StatesKeepIdentity
<1>5. CASE sysFree
  BY <1>5 DEF sysFree, Identity, ZeroTask
<1>6. ASSUME NEW p \in Slot, SwitchedTo(p)
      PROVE  Identity
  <2>1. task' = HandOver(task, RUNNING_PID, PROC_SLEEPING, p)
    BY <1>6 DEF SwitchedTo, HandOver
  <2> QED
    BY <1>0, <2>1, StatesKeepIdentity
<1>7. ASSUME NEW p \in Slot, task' = Killed(task, p)
      PROVE  Identity
  BY <1>0, <1>7, KilledTable DEF Identity
<1>8. CASE \E p \in Slot : SwitchTask(p)
  BY <1>6, <1>8 DEF SwitchTask
<1>9. CASE \E p \in Slot : KillTask(p)
  BY <1>7, <1>9 DEF KillTask
<1>10. CASE InitKills
  <2>1. RUNNING_PID - 1 \in Slot
    BY <1>0, <1>10, ProcessAssumption DEF InitKills, Recovering, Slot
  <2> QED
    BY <1>7, <1>10, <2>1 DEF InitKills
<1>11. CASE InitSwitches
  <2>1. 1 \in Slot
    BY ProcessAssumption DEF Slot
  <2> QED
    BY <1>6, <1>11, <2>1 DEF InitSwitches
<1>12. CASE UNCHANGED vars
  BY <1>12 DEF vars, Identity
<1> QED
  BY <1>1, <1>2, <1>3, <1>4, <1>5, <1>8, <1>9, <1>10, <1>11, <1>12
  DEF Next, LaunchNext

\* initializeTask never takes the slot of a process that sysFree has not
\* cleaned, so nobody returns to a different program than the one that called.
THEOREM SlotsAreNotReused == Spec => SlotNotReused
<1>1. ProcessInv /\ [Next]_vars =>
        [\A p \in Slot :
           task[p].pid # 0 /\ task'[p].pid # 0 =>
             /\ task'[p].ppid = task[p].ppid
             /\ task'[p].binaryName = task[p].binaryName]_vars
  BY NextIdentity DEF Identity
<1> QED
  BY <1>1, ProcessInvAlways, PTL DEF Spec, SlotNotReused

-----------------------------------------------------------------------------
(* The call chain, while processes only launch others, exit, return to their *)
(* parents and are freed *)

\* A chain of any length; that it fits the table follows.
Chained == \E n \in Nat \ {0} : \E chain \in [1 .. n -> Slot] : IsCallChain(n, chain)

LaunchInv == ProcessInv /\ Chained

\* A chain names a process once, so it is no longer than the table.
LEMMA ChainFits == Chained => CallChain
<1> SUFFICES ASSUME Chained PROVE CallChain
  OBVIOUS
<1>0. PICK n \in Nat \ {0} : \E chain \in [1 .. n -> Slot] : IsCallChain(n, chain)
  BY DEF Chained
<1>1. PICK chain \in [1 .. n -> Slot] : IsCallChain(n, chain)
  BY <1>0
<1>2. chain \in Injection(1 .. n, Slot)
  BY <1>1 DEF IsCallChain, Injection, IsInjective
<1>3. /\ IsFiniteSet(Slot) /\ Cardinality(Slot) = MAX_PROCESSES
      /\ Cardinality(1 .. n) = n
  BY ProcessAssumption, FS_Interval DEF Slot
<1>4. n <= MAX_PROCESSES
  <2>1. Cardinality(1 .. n) <= Cardinality(Slot)
    BY <1>2, <1>3, FS_Injection
  <2> QED
    BY <1>3, <2>1
<1>5. n \in Slot
  BY <1>4, ProcessAssumption DEF Slot
<1> QED
  BY <1>1, <1>5 DEF CallChain

\* A step that leaves the running process and the chain's task structs alone
\* leaves the chain.
LEMMA ChainKept ==
  ASSUME NEW n \in Nat \ {0}, NEW chain \in [1 .. n -> Slot], IsCallChain(n, chain),
         RUNNING_PID' = RUNNING_PID,
         \A i \in 1 .. n : task'[chain[i]] = task[chain[i]]
  PROVE  Chained'
<1>1. IsCallChain(n, chain)'
  BY DEF IsCallChain
<1> QED
  BY <1>1 DEF Chained

\* A new process is not in the chain of the process that launches it.
LEMMA NewPidNotInChain ==
  ASSUME ProcessInv, ~TableFull,
         NEW n \in Nat \ {0}, NEW chain \in [1 .. n -> Slot], IsCallChain(n, chain)
  PROVE  \A i \in 1 .. n : chain[i] # NewPid
<1>1. NewPid \in Slot /\ task[NewPid].pid = 0
  BY NewPidIsFree
<1>2. \A i \in 1 .. n : task[chain[i]].pid # 0
  BY ProcessAssumption DEF IsCallChain, Slot
<1> QED
  BY <1>1, <1>2

\* A launch that fails after initializeTask leaves the chain.
LEMMA FailedLaunchChain ==
  ASSUME ProcessInv, ~TableFull, Chained, RUNNING_PID' = RUNNING_PID,
         \A p \in Slot \ {NewPid} : task'[p] = task[p]
  PROVE  Chained'
<1>0. PICK n \in Nat \ {0} : \E chain \in [1 .. n -> Slot] : IsCallChain(n, chain)
  BY DEF Chained
<1>1. PICK chain \in [1 .. n -> Slot] : IsCallChain(n, chain)
  BY <1>0
<1>2. \A i \in 1 .. n : task'[chain[i]] = task[chain[i]]
  BY <1>1, NewPidNotInChain
<1> QED
  BY <1>1, <1>2, ChainKept

\* A launch appends the new process to the chain.
LEMMA LaunchChain ==
  ASSUME ProcessInv, ~TableFull, Chained, NEW b \in {"init", "other"},
         task' = [Launched(b) EXCEPT ![RUNNING_PID].state = PROC_SLEEPING,
                                     ![NewPid].state = PROC_RUNNING],
         RUNNING_PID' = NewPid
  PROVE  Chained'
<1>0. PICK n \in Nat \ {0} : \E chain \in [1 .. n -> Slot] : IsCallChain(n, chain)
  BY DEF Chained
<1>1. PICK chain \in [1 .. n -> Slot] : IsCallChain(n, chain)
  BY <1>0
<1>2. /\ \A i \in 1 .. n : chain[i] # NewPid
      /\ NewPid \in Slot
  BY <1>1, NewPidNotInChain, NewPidIsFree
<1>3. /\ Launched(b) \in [Slot -> Task]
      /\ Launched(b)[NewPid] = NewTask(NewPid, RUNNING_PID, b)
      /\ \A p \in Slot \ {NewPid} : Launched(b)[p] = task[p]
  BY LaunchedTable
<1>4. chain[n] = RUNNING_PID /\ RUNNING_PID # NewPid /\ RUNNING_PID \in Slot
  BY <1>1, <1>2 DEF IsCallChain
<1>5. /\ task'[NewPid].pid = NewPid /\ task'[NewPid].ppid = RUNNING_PID
      /\ task'[RUNNING_PID].pid = task[RUNNING_PID].pid
      /\ task'[RUNNING_PID].ppid = task[RUNNING_PID].ppid
      /\ task'[RUNNING_PID].state = PROC_SLEEPING
      /\ \A p \in Slot \ {NewPid, RUNNING_PID} : task'[p] = task[p]
  <2> HIDE DEF Launched
  <2> QED
    BY <1>2, <1>3, <1>4 DEF NewTask, Task
<1> PICK new \in Slot : new = NewPid
  BY <1>2
<1> DEFINE m == n + 1
           longer == [i \in 1 .. m |-> IF i \in 1 .. n THEN chain[i] ELSE new]
<1>6. /\ longer \in [1 .. m -> Slot] /\ m \in Nat \ {0}
      /\ longer[m] = NewPid
      /\ \A i \in 1 .. n : longer[i] = chain[i]
      /\ 1 .. m = 1 .. n \cup {m} /\ m \notin 1 .. n
      /\ m - 1 = n
  BY <1>2
<1> HIDE DEF m, longer
<1>7. longer[1] = 1 /\ 1 \in 1 .. n
  BY <1>1, <1>6 DEF IsCallChain
<1>8. ASSUME NEW i \in 1 .. m
      PROVE  task'[longer[i]].pid = longer[i]
  <2>1. CASE i = m
    BY <1>5, <1>6, <2>1
  <2>2. CASE i # m
    <3>1. i \in 1 .. n /\ longer[i] = chain[i] /\ chain[i] \in Slot \ {NewPid}
      BY <1>2, <1>6, <2>2
    <3>2. task[chain[i]].pid = chain[i]
      BY <1>1, <3>1 DEF IsCallChain
    <3> QED
      BY <1>5, <3>1, <3>2
  <2> QED
    BY <2>1, <2>2
<1>9. ASSUME NEW i \in 1 .. m - 1
      PROVE  /\ task'[longer[i]].state = PROC_SLEEPING
             /\ task'[longer[i + 1]].ppid = longer[i]
  <2>1. i \in 1 .. n /\ longer[i] = chain[i] /\ chain[i] \in Slot \ {NewPid}
    BY <1>2, <1>6
  <2>2. CASE i = n
    <3>1. longer[i] = RUNNING_PID /\ longer[i + 1] = NewPid
      BY <1>4, <1>6, <2>1, <2>2
    <3> QED
      BY <1>5, <3>1
  <2>3. CASE i # n
    <3>1. i \in 1 .. n - 1 /\ i + 1 \in 1 .. n /\ longer[i + 1] = chain[i + 1]
          /\ chain[i + 1] \in Slot \ {NewPid}
      BY <1>2, <1>6, <2>1, <2>3
    <3>2. task[chain[i]].state = PROC_SLEEPING /\ task[chain[i + 1]].ppid = chain[i]
      BY <1>1, <3>1 DEF IsCallChain
    <3>3. task'[chain[i]].state = PROC_SLEEPING
      BY <1>5, <2>1, <3>2
    <3>4. task'[chain[i + 1]].ppid = chain[i]
      BY <1>5, <3>1, <3>2
    <3> QED
      BY <2>1, <3>1, <3>3, <3>4
  <2> QED
    BY <2>2, <2>3
<1>10. \A i, j \in 1 .. m : longer[i] = longer[j] => i = j
  BY <1>1, <1>2, <1>6 DEF IsCallChain
<1>11. IsCallChain(m, longer)'
  BY <1>6, <1>7, <1>8, <1>9, <1>10 DEF IsCallChain
<1> QED
  BY <1>6, <1>11 DEF Chained

\* The running process of a chain has a caller, which sleeps and is its parent.
LEMMA Caller ==
  ASSUME NEW n \in Nat \ {0}, NEW chain \in [1 .. n -> Slot], IsCallChain(n, chain),
         RUNNING_PID # 1
  PROVE  /\ n - 1 \in Nat \ {0}
         /\ chain[n - 1] = task[RUNNING_PID].ppid
         /\ task[chain[n - 1]].state = PROC_SLEEPING
         /\ chain[n - 1] # RUNNING_PID
<1>1. n # 1
  BY DEF IsCallChain
<1>2. n - 1 \in 1 .. n - 1 /\ n \in 1 .. n /\ n - 1 \in 1 .. n /\ (n - 1) + 1 = n /\ n - 1 # n
  BY <1>1
<1> QED
  BY <1>2 DEF IsCallChain

\* Giving the processor back takes the running process off the chain.
LEMMA ReturnChain ==
  ASSUME ProcessInv, Chained, panicked = "no", RUNNING_PID # 1,
         NEW s \in {PROC_SLEEPING, PROC_ZOMBIE},
         task' = HandOver(task, RUNNING_PID, s, task[RUNNING_PID].ppid),
         RUNNING_PID' = task[RUNNING_PID].ppid
  PROVE  Chained'
<1>0. PICK n \in Nat \ {0} : \E chain \in [1 .. n -> Slot] : IsCallChain(n, chain)
  BY DEF Chained
<1>1. PICK chain \in [1 .. n -> Slot] : IsCallChain(n, chain)
  BY <1>0
<1> DEFINE m == n - 1
           shorter == [i \in 1 .. m |-> chain[i]]
<1>2. /\ m \in Nat \ {0} /\ chain[m] = task[RUNNING_PID].ppid
      /\ chain[n] = RUNNING_PID
  BY <1>1, Caller DEF IsCallChain
<1>3. /\ shorter \in [1 .. m -> Slot]
      /\ \A i \in 1 .. m : shorter[i] = chain[i] /\ i \in 1 .. n /\ i # n
      /\ 1 \in 1 .. m /\ m \in 1 .. m /\ n \in 1 .. n
      /\ \A i \in 1 .. m - 1 : i \in 1 .. m /\ i \in 1 .. n - 1 /\ i + 1 \in 1 .. m /\ i # m
  BY <1>2
<1>4. \A i \in 1 .. m : chain[i] # RUNNING_PID
  BY <1>1, <1>2, <1>3 DEF IsCallChain
<1>5. \A i \in 1 .. m - 1 : chain[i] # chain[m]
  BY <1>1, <1>3 DEF IsCallChain
<1>6. /\ task \in [Slot -> Task] /\ RUNNING_PID \in Slot /\ chain[m] \in Slot
      /\ \A r \in Slot : task[r].state = PROC_RUNNING => r \in {RUNNING_PID, chain[m]}
  BY <1>2, <1>3 DEF ProcessInv, TypeOK, OneRunning
<1> HIDE DEF m
<1>7. /\ \A r \in Slot : task'[r].pid = task[r].pid /\ task'[r].ppid = task[r].ppid
      /\ \A r \in Slot \ {RUNNING_PID, chain[m]} : task'[r] = task[r]
  BY <1>2, <1>6, HandedOver
<1> USE DEF m
<1> HIDE DEF shorter
<1>8. shorter[1] = 1 /\ shorter[m] = RUNNING_PID'
  BY <1>1, <1>2, <1>3 DEF IsCallChain
<1>9. \A i \in 1 .. m : task'[shorter[i]].pid = shorter[i]
  BY <1>1, <1>3, <1>7 DEF IsCallChain
<1>10. ASSUME NEW i \in 1 .. m - 1
       PROVE  /\ task'[shorter[i]].state = PROC_SLEEPING
              /\ task'[shorter[i + 1]].ppid = shorter[i]
  <2>1. /\ i \in 1 .. m /\ i \in 1 .. n - 1 /\ i + 1 \in 1 .. m
        /\ shorter[i] = chain[i] /\ shorter[i + 1] = chain[i + 1]
        /\ chain[i] \in Slot /\ chain[i + 1] \in Slot
    BY <1>3
  <2>2. task[chain[i]].state = PROC_SLEEPING /\ task[chain[i + 1]].ppid = chain[i]
    BY <1>1, <2>1 DEF IsCallChain
  <2>3. chain[i] # RUNNING_PID /\ chain[i] # chain[m]
    BY <1>4, <1>5, <2>1
  <2> QED
    BY <1>7, <2>1, <2>2, <2>3
<1>11. \A i, j \in 1 .. m : shorter[i] = shorter[j] => i = j
  BY <1>1, <1>3 DEF IsCallChain
<1>12. IsCallChain(m, shorter)'
  BY <1>8, <1>9, <1>10, <1>11 DEF IsCallChain
<1> QED
  BY <1>2, <1>3, <1>12 DEF Chained

\* Init launches nothing: the chain is process 1 alone.
LEMMA InitChained == Init => Chained
<1> SUFFICES ASSUME Init PROVE Chained
  OBVIOUS
<1> DEFINE chain == [i \in 1 .. 1 |-> 1]
<1>1. 1 \in Slot /\ chain \in [1 .. 1 -> Slot] /\ chain[1] = 1
  BY ProcessAssumption DEF Slot
<1>2. task[1].pid = 1 /\ RUNNING_PID = 1
  BY <1>1 DEF Init, NewTask
<1> HIDE DEF chain
<1>3. IsCallChain(1, chain)
  BY <1>1, <1>2 DEF IsCallChain
<1>4. \E c \in [1 .. 1 -> Slot] : IsCallChain(1, c)
  BY <1>1, <1>3
<1>5. 1 \in Nat \ {0}
  OBVIOUS
<1> QED
  BY <1>4, <1>5 DEF Chained

\* No sleeping process is freed, so the whole chain stays.
LEMMA sysFreeChain == ASSUME ProcessInv, Chained, sysFree PROVE Chained'
<1>0. PICK n \in Nat \ {0} : \E chain \in [1 .. n -> Slot] : IsCallChain(n, chain)
  BY DEF Chained
<1>1. PICK chain \in [1 .. n -> Slot] : IsCallChain(n, chain)
  BY <1>0
<1>2. task[RUNNING_PID].state = PROC_RUNNING
  BY DEF ProcessInv, OneRunning, sysFree, Calls, TypeOK
<1>3. ASSUME NEW i \in 1 .. n
      PROVE  task[chain[i]].state \in {PROC_SLEEPING, PROC_RUNNING}
  BY <1>1, <1>2 DEF IsCallChain
<1>4. \A i \in 1 .. n : task'[chain[i]] = task[chain[i]]
  BY <1>3 DEF sysFree, PROC_SLEEPING, PROC_RUNNING, PROC_ZOMBIE, PROC_KILLED
<1> QED
  BY <1>1, <1>4, ChainKept DEF sysFree

\* Every launch, exit, return and free keeps the chain of callers.
LEMMA NextLaunchInv == LaunchInv /\ [LaunchNext]_vars => LaunchInv'
<1> SUFFICES ASSUME LaunchInv, [LaunchNext]_vars PROVE LaunchInv'
  OBVIOUS
<1>0. ProcessInv /\ Chained
  BY DEF LaunchInv
<1>1. ProcessInv'
  BY <1>0, NextProcessInv DEF Next
<1> SUFFICES Chained'
  BY <1>1 DEF LaunchInv
<1>2. CASE ExecTableFull \/ UNCHANGED vars
  <2>1. task' = task /\ RUNNING_PID' = RUNNING_PID
    BY <1>2 DEF ExecTableFull, vars
  <2>2. PICK n \in Nat \ {0} : \E chain \in [1 .. n -> Slot] : IsCallChain(n, chain)
    BY <1>0 DEF Chained
  <2>3. PICK chain \in [1 .. n -> Slot] : IsCallChain(n, chain)
    BY <2>2
  <2>4. IsCallChain(n, chain)'
    BY <2>1, <2>3 DEF IsCallChain
  <2> QED
    BY <2>4 DEF Chained
<1>3. CASE ExecNoPage
  <2>1. PICK b \in {"init", "other"} : task' = Launched(b)
    BY <1>3 DEF ExecNoPage, Launchable
  <2>2. ~TableFull /\ RUNNING_PID' = RUNNING_PID
    BY <1>3 DEF ExecNoPage
  <2>3. \A p \in Slot \ {NewPid} : task'[p] = task[p]
    BY <1>0, <2>1, <2>2, LaunchedTable
  <2> QED
    BY <1>0, <2>2, <2>3, FailedLaunchChain
<1>4. CASE ExecRejected
  <2>1. /\ ~TableFull /\ RUNNING_PID' = RUNNING_PID
        /\ task' = Killed(Launched("other"), NewPid)
    BY <1>4 DEF ExecRejected
  <2>2. /\ Launched("other") \in [Slot -> Task] /\ NewPid \in Slot
        /\ \A p \in Slot \ {NewPid} : Launched("other")[p] = task[p]
    BY <1>0, <2>1, LaunchedTable, NewPidIsFree
  <2>3. \A p \in Slot \ {NewPid} : task'[p] = task[p]
    BY <2>1, <2>2, KilledTable
  <2> QED
    BY <1>0, <2>1, <2>3, FailedLaunchChain
<1>5. CASE ExecStarts
  <2>1. PICK b \in {"init", "other"} :
          task' = [Launched(b) EXCEPT ![RUNNING_PID].state = PROC_SLEEPING,
                                      ![NewPid].state = PROC_RUNNING]
    BY <1>5 DEF ExecStarts, Launchable
  <2>2. ~TableFull /\ RUNNING_PID' = NewPid
    BY <1>5 DEF ExecStarts
  <2> QED
    BY <1>0, <2>1, <2>2, LaunchChain
<1>6. CASE sysExit
  <2>1. /\ panicked = "no" /\ RUNNING_PID # 1
        /\ task' = HandOver(task, RUNNING_PID, PROC_ZOMBIE, task[RUNNING_PID].ppid)
        /\ RUNNING_PID' = task[RUNNING_PID].ppid
    BY <1>6 DEF sysExit, HandOver, Calls
  <2> QED
    BY <1>0, <2>1, ReturnChain
<1>7. CASE sysSwitchToParent
  <2>1. /\ panicked = "no" /\ RUNNING_PID # 1
        /\ task' = HandOver(task, RUNNING_PID, PROC_SLEEPING, task[RUNNING_PID].ppid)
        /\ RUNNING_PID' = task[RUNNING_PID].ppid
    BY <1>7 DEF sysSwitchToParent, HandOver, Calls
  <2> QED
    BY <1>0, <2>1, ReturnChain
<1>8. CASE sysFree
  BY <1>0, <1>8, sysFreeChain
<1> QED
  BY <1>2, <1>3, <1>4, <1>5, <1>6, <1>7, <1>8 DEF LaunchNext

\* Every reachable state has the chain of callers.
LEMMA LaunchInvAlways == LaunchSpec => []LaunchInv
<1>1. Init => LaunchInv
  BY InitProcessInv, InitChained DEF LaunchInv
<1> QED
  BY <1>1, NextLaunchInv, PTL DEF LaunchSpec

\* However launches, exits, returns and frees follow one another, the running
\* process descends from init through live sleeping callers.
THEOREM CallersWait == LaunchSpec => []CallChain
<1>1. LaunchInv => CallChain
  BY ChainFits DEF LaunchInv
<1> QED
  BY <1>1, LaunchInvAlways, PTL

\* The process that gets the processor is new or asleep.
LEMMA NextResumes ==
  ASSUME LaunchInv, LaunchNext, RUNNING_PID' # RUNNING_PID
  PROVE  \/ task[RUNNING_PID'].pid = 0 /\ task'[RUNNING_PID'].pid # 0
         \/ task[RUNNING_PID'].state = PROC_SLEEPING
<1>0. ProcessInv /\ Chained /\ RUNNING_PID \in Slot
  BY DEF LaunchInv, ProcessInv, TypeOK
<1>1. CASE ExecStarts
  <2>1. PICK b \in {"init", "other"} :
          task' = [Launched(b) EXCEPT ![RUNNING_PID].state = PROC_SLEEPING,
                                      ![NewPid].state = PROC_RUNNING]
    BY <1>1 DEF ExecStarts, Launchable
  <2>2. /\ ~TableFull /\ RUNNING_PID' = NewPid
        /\ NewPid \in Slot /\ task[NewPid].pid = 0
    BY <1>1, NewPidIsFree DEF ExecStarts
  <2>3. /\ Launched(b) \in [Slot -> Task]
        /\ Launched(b)[NewPid] = NewTask(NewPid, RUNNING_PID, b)
    BY <1>0, <2>2, LaunchedTable
  <2>4. Launched(b)[NewPid].pid # 0
    BY <2>2, <2>3 DEF NewTask, Slot
  <2>5. task'[NewPid].pid = Launched(b)[NewPid].pid
    <3> HIDE DEF Launched
    <3> QED
      BY <1>0, <2>1, <2>2, <2>3 DEF Task
  <2> QED
    BY <2>2, <2>4, <2>5
<1>2. CASE sysExit \/ sysSwitchToParent
  <2>1. RUNNING_PID # 1 /\ RUNNING_PID' = task[RUNNING_PID].ppid
    BY <1>2 DEF sysExit, sysSwitchToParent
  <2>2. PICK n \in Nat \ {0} : \E chain \in [1 .. n -> Slot] : IsCallChain(n, chain)
    BY <1>0 DEF Chained
  <2>3. PICK chain \in [1 .. n -> Slot] : IsCallChain(n, chain)
    BY <2>2
  <2> QED
    BY <2>1, <2>3, Caller
<1> QED
  BY <1>1, <1>2 DEF LaunchNext, ExecTableFull, ExecNoPage, ExecRejected, sysFree

\* sysExit and sysSwitchToParent never resume a zombie, a killed or a freed
\* process, as long as only launches, exits, returns and frees happen.
THEOREM OnlySleepersResume == LaunchSpec => ResumesSleeper
<1>1. LaunchInv /\ [LaunchNext]_vars =>
        [RUNNING_PID' # RUNNING_PID =>
           \/ task[RUNNING_PID'].pid = 0 /\ task'[RUNNING_PID'].pid # 0
           \/ task[RUNNING_PID'].state = PROC_SLEEPING]_vars
  BY NextResumes
<1> QED
  BY <1>1, LaunchInvAlways, PTL DEF LaunchSpec, ResumesSleeper

-----------------------------------------------------------------------------
(* The times of a process *)

Count == 0 .. CounterModulus - 1

\* A process that is not dead: at every interrupt one of its times goes up.
Alive(t) == t.state \in {PROC_SLEEPING, PROC_RUNNING}

TimesType ==
  /\ runtime \in [Slot -> Count]
  /\ sleepTime \in [Slot -> Count]
  /\ totalInterruptCount \in Count
  /\ born \in [Slot -> Count]

\* A free task struct is not asleep and has slept for no time, which is all that
\* a process launched in it relies on.
FreeSlotsClean == \A p \in Slot : task[p].pid = 0 => ~Alive(task[p]) /\ sleepTime[p] = 0

TimesInv == LaunchInv /\ TimesType /\ FreeSlotsClean /\ Accounted

-----------------------------------------------------------------------------
(* Counters *)

\* A sum of two counts, a difference and an increment, each by one case split.
LEMMA CountArithmetic ==
  ASSUME NEW a \in Count, NEW b \in Count
  PROVE  /\ Incremented(a) = IF a + 1 = CounterModulus THEN 0 ELSE a + 1
         /\ (a + b) % CounterModulus = IF a + b < CounterModulus THEN a + b
                                       ELSE a + b - CounterModulus
         /\ (a - b) % CounterModulus = IF a >= b THEN a - b
                                       ELSE a - b + CounterModulus
<1>1. Incremented(a) = IF a + 1 = CounterModulus THEN 0 ELSE a + 1
  BY TimesAssumption DEF Incremented, Count
<1>2. (a + b) % CounterModulus = IF a + b < CounterModulus THEN a + b
                                 ELSE a + b - CounterModulus
  BY TimesAssumption DEF Count
<1>3. (a - b) % CounterModulus = IF a >= b THEN a - b ELSE a - b + CounterModulus
  BY TimesAssumption DEF Count
<1> QED
  BY <1>1, <1>2, <1>3

\* Counters keep to their width.
LEMMA IncrementedIsCount ==
  ASSUME NEW a \in Count
  PROVE  Incremented(a) \in Count
BY TimesAssumption DEF Incremented, Count

\* An interrupt that counts in one time of a process and in the total keeps
\* its account.
LEMMA BothCount ==
  ASSUME NEW r \in Count, NEW s \in Count, NEW c \in Count, NEW b \in Count,
         (r + s) % CounterModulus = (c - b) % CounterModulus
  PROVE  /\ (Incremented(r) + s) % CounterModulus = (Incremented(c) - b) % CounterModulus
         /\ (r + Incremented(s)) % CounterModulus = (Incremented(c) - b) % CounterModulus
<1> DEFINE sum(x, y) == IF x + y < CounterModulus THEN x + y ELSE x + y - CounterModulus
           gap(x, y) == IF x >= y THEN x - y ELSE x - y + CounterModulus
           next(x) == IF x + 1 = CounterModulus THEN 0 ELSE x + 1
<1>1. \A x, y \in Count : /\ (x + y) % CounterModulus = sum(x, y)
                          /\ (x - y) % CounterModulus = gap(x, y)
                          /\ Incremented(x) = next(x)
  BY CountArithmetic
<1>2. /\ Incremented(r) \in Count /\ Incremented(s) \in Count /\ Incremented(c) \in Count
      /\ Incremented(r) = next(r) /\ Incremented(s) = next(s) /\ Incremented(c) = next(c)
  BY <1>1, IncrementedIsCount
<1>3. sum(r, s) = gap(c, b)
  BY <1>1
<1>4. /\ sum(next(r), s) = gap(next(c), b)
      /\ sum(r, next(s)) = gap(next(c), b)
  BY <1>3, TimesAssumption DEF Count
<1> HIDE DEF sum, gap, next
<1>5. /\ (Incremented(r) + s) % CounterModulus = sum(next(r), s)
      /\ (r + Incremented(s)) % CounterModulus = sum(r, next(s))
      /\ (Incremented(c) - b) % CounterModulus = gap(next(c), b)
  BY <1>1, <1>2
<1> QED
  BY <1>4, <1>5

-----------------------------------------------------------------------------
(* Calls *)

\* What a call may do to one process: nobody is alive after it who was not
\* alive before or launched by it.
Continues(p) ==
  Alive(task'[p]) => task'[p].pid # 0 /\ (task[p].pid = 0 \/ Alive(task[p]))

\* The launches give life to the new process only; the caller was running.
LEMMA LaunchesContinue ==
  ASSUME LaunchInv, FreeSlotsClean, ExecNoPage \/ ExecRejected \/ ExecStarts, NEW p \in Slot
  PROVE  Continues(p)
<1>1. /\ ProcessInv /\ ~TableFull
      /\ task \in [Slot -> Task] /\ RUNNING_PID \in Slot
  BY DEF LaunchInv, ProcessInv, TypeOK, ExecNoPage, ExecRejected, ExecStarts
<1>2. NewPid \in Slot /\ task[NewPid].pid = 0 /\ NewPid # 0
  BY <1>1, NewPidIsFree DEF Slot
<1>3. ASSUME NEW b \in {"init", "other"}
      PROVE  /\ Launched(b) \in [Slot -> Task]
             /\ Launched(b)[NewPid].pid = NewPid
             /\ \A q \in Slot \ {NewPid} : Launched(b)[q] = task[q]
  BY <1>1, LaunchedTable DEF NewTask
<1>4. CASE ExecNoPage
  <2>1. PICK b \in {"init", "other"} : task' = Launched(b)
    BY <1>4 DEF ExecNoPage, Launchable
  <2> QED
    BY <1>2, <1>3, <2>1 DEF Continues, FreeSlotsClean
<1>5. CASE ExecRejected
  <2>1. task' = Killed(Launched("other"), NewPid)
    BY <1>5 DEF ExecRejected
  <2>2. /\ \A q \in Slot \ {NewPid} : task'[q] = task[q]
        /\ task'[NewPid].state = PROC_KILLED
    BY <1>2, <1>3, <2>1, KilledTable
  <2>3. ~Alive(task'[NewPid])
    BY <2>2 DEF Alive, PROC_KILLED, PROC_SLEEPING, PROC_RUNNING
  <2> QED
    BY <2>2, <2>3 DEF Continues, FreeSlotsClean
<1>6. CASE ExecStarts
  <2>1. PICK b \in {"init", "other"} :
          task' = [Launched(b) EXCEPT ![RUNNING_PID].state = PROC_SLEEPING,
                                      ![NewPid].state = PROC_RUNNING]
    BY <1>6 DEF ExecStarts, Launchable
  <2> DEFINE launched == Launched(b)
  <2>2. /\ launched \in [Slot -> Task]
        /\ launched[NewPid].pid = NewPid
        /\ \A q \in Slot \ {NewPid} : launched[q] = task[q]
    BY <1>3
  <2> HIDE DEF launched
  <2>3. /\ task'[p].pid = launched[p].pid
        /\ p \notin {RUNNING_PID, NewPid} => task'[p] = launched[p]
    BY <1>1, <1>2, <2>1, <2>2 DEF Task, launched
  <2>4. Alive(task[RUNNING_PID])
    BY <1>1, <1>6 DEF ProcessInv, OneRunning, ExecStarts, Alive
  <2> QED
    BY <1>2, <2>2, <2>3, <2>4 DEF Continues, FreeSlotsClean
<1> QED
  BY <1>4, <1>5, <1>6

\* The process a call returns to was asleep (it is the caller in the chain).
LEMMA ReturnsContinue ==
  ASSUME LaunchInv, FreeSlotsClean, sysExit \/ sysSwitchToParent, NEW p \in Slot
  PROVE  Continues(p)
<1> DEFINE ppid == task[RUNNING_PID].ppid
<1>1. /\ ProcessInv /\ Chained /\ Calls /\ RUNNING_PID # 1
      /\ task \in [Slot -> Task] /\ RUNNING_PID \in Slot
  BY DEF LaunchInv, ProcessInv, TypeOK, sysExit, sysSwitchToParent
<1>2. ppid \in Slot
  BY <1>1, ParentInTable
<1>3. Alive(task[ppid])
  <2>1. PICK n \in Nat \ {0} : \E chain \in [1 .. n -> Slot] : IsCallChain(n, chain)
    BY <1>1 DEF Chained
  <2>2. PICK chain \in [1 .. n -> Slot] : IsCallChain(n, chain)
    BY <2>1
  <2> QED
    BY <1>1, <2>2, Caller DEF Alive
<1>4. Alive(task[RUNNING_PID])
  BY <1>1 DEF ProcessInv, OneRunning, Calls, Alive
<1>5. PICK s \in {PROC_SLEEPING, PROC_ZOMBIE} : task' = HandOver(task, RUNNING_PID, s, ppid)
  BY DEF sysExit, sysSwitchToParent, HandOver
<1> HIDE DEF ppid
<1>6. /\ task'[p].pid = task[p].pid
      /\ p \notin {RUNNING_PID, ppid} => task'[p] = task[p]
  BY <1>1, <1>2, <1>5 DEF HandOver, Task
<1> QED
  BY <1>3, <1>4, <1>6 DEF Continues, FreeSlotsClean

\* No call brings the dead back.
LEMMA CallContinues ==
  ASSUME LaunchInv, FreeSlotsClean, LaunchNext, NEW p \in Slot
  PROVE  Continues(p)
<1>1. CASE ExecNoPage \/ ExecRejected \/ ExecStarts
  BY <1>1, LaunchesContinue
<1>2. CASE sysExit \/ sysSwitchToParent
  BY <1>2, ReturnsContinue
<1>3. CASE ExecTableFull
  BY <1>3 DEF ExecTableFull, Continues, FreeSlotsClean
<1>4. CASE sysFree
  BY <1>4 DEF sysFree, Continues, FreeSlotsClean, Alive, ZeroTask, PROC_SLEEPING, PROC_RUNNING
<1> QED
  BY <1>1, <1>2, <1>3, <1>4 DEF LaunchNext

-----------------------------------------------------------------------------
(* The invariant *)

\* A call moves no time but of what it launches and frees.
LEMMA CallInv == ASSUME TimesInv, Call PROVE TimesInv'
<1>1. LaunchInv'
  BY NextLaunchInv DEF TimesInv, Call
<1>2. \A p \in Slot : Continues(p)
  BY CallContinues DEF TimesInv, Call
<1>3. TimesType'
  BY TimesAssumption DEF TimesInv, TimesType, Call, KeepsTimes, Count
<1>4. FreeSlotsClean'
  BY <1>2 DEF TimesInv, TimesType, FreeSlotsClean, Call, KeepsTimes, Continues, Frees, Launches
<1>5. Accounted'
  <2> SUFFICES ASSUME NEW p \in Slot, Alive(task'[p])
               PROVE  (runtime'[p] + sleepTime'[p]) % CounterModulus
                        = (totalInterruptCount' - born'[p]) % CounterModulus
    BY DEF Accounted, Alive
  <2>1. task'[p].pid # 0 /\ p \notin Frees
    BY <1>2 DEF Continues, Frees
  <2>2. CASE task[p].pid = 0
    <3>1. /\ p \in Launches /\ sleepTime[p] = 0
      BY <2>1, <2>2 DEF Launches, TimesInv, FreeSlotsClean
    <3>2. /\ runtime'[p] = 0 /\ sleepTime'[p] = 0
          /\ born'[p] = totalInterruptCount /\ totalInterruptCount' = totalInterruptCount
      BY <2>1, <3>1 DEF Call, KeepsTimes
    <3>3. totalInterruptCount - totalInterruptCount = 0 /\ 0 + 0 = 0
      BY DEF TimesInv, TimesType, Count
    <3> QED
      BY <3>2, <3>3
  <2>3. CASE task[p].pid # 0
    <3>1. p \notin Launches /\ Alive(task[p])
      BY <1>2, <2>3 DEF Launches, Continues
    <3>2. /\ runtime'[p] = runtime[p] /\ sleepTime'[p] = sleepTime[p]
          /\ born'[p] = born[p] /\ totalInterruptCount' = totalInterruptCount
      BY <2>1, <3>1 DEF Call, KeepsTimes
    <3> QED
      BY <3>1, <3>2 DEF TimesInv, Accounted, Alive
  <2> QED
    BY <2>2, <2>3
<1> QED
  BY <1>1, <1>3, <1>4, <1>5 DEF TimesInv

\* An interrupt counts for the running process in one time, for a sleeping
\* one in the other.
LEMMA InterruptInv == ASSUME TimesInv, systemInterruptHandler PROVE TimesInv'
<1>0. /\ UNCHANGED vars /\ panicked = "no"
      /\ task' = task /\ born' = born /\ totalInterruptCount' = Incremented(totalInterruptCount)
  BY DEF systemInterruptHandler, vars
<1>1. LaunchInv'
  BY <1>0, NextLaunchInv DEF TimesInv
<1>2. RUNNING_PID \in Slot /\ \A p \in Slot : task[p].state = PROC_RUNNING <=> p = RUNNING_PID
  BY <1>0 DEF TimesInv, LaunchInv, ProcessInv, TypeOK, OneRunning
<1>3. TimesType'
  BY <1>0, <1>2, IncrementedIsCount DEF systemInterruptHandler, TimesInv, TimesType
<1>4. FreeSlotsClean'
  BY <1>0 DEF systemInterruptHandler, TimesInv, FreeSlotsClean, Alive
<1>5. Accounted'
  <2> SUFFICES ASSUME NEW p \in Slot, Alive(task[p])
               PROVE  (runtime'[p] + sleepTime'[p]) % CounterModulus
                        = (Incremented(totalInterruptCount) - born[p]) % CounterModulus
    BY <1>0 DEF Accounted, Alive
  <2>1. /\ runtime[p] \in Count /\ sleepTime[p] \in Count
        /\ totalInterruptCount \in Count /\ born[p] \in Count
        /\ (runtime[p] + sleepTime[p]) % CounterModulus
             = (totalInterruptCount - born[p]) % CounterModulus
    BY DEF TimesInv, TimesType, Accounted, Alive
  <2>2. CASE p = RUNNING_PID
    <3>1. runtime'[p] = Incremented(runtime[p]) /\ sleepTime'[p] = sleepTime[p]
      BY <1>2, <2>2 DEF systemInterruptHandler, TimesInv, TimesType, PROC_RUNNING, PROC_SLEEPING
    <3> QED
      BY <2>1, <3>1, BothCount
  <2>3. CASE p # RUNNING_PID
    <3>1. runtime'[p] = runtime[p] /\ sleepTime'[p] = Incremented(sleepTime[p])
      BY <1>2, <2>3 DEF systemInterruptHandler, TimesInv, TimesType, Alive
    <3> QED
      BY <2>1, <3>1, BothCount
  <2> QED
    BY <2>2, <2>3
<1> QED
  BY <1>1, <1>3, <1>4, <1>5 DEF TimesInv

\* All counts start at zero.
LEMMA InitTimesInv == TimesInit => TimesInv
<1> SUFFICES ASSUME TimesInit PROVE TimesInv
  OBVIOUS
<1>1. LaunchInv
  BY InitProcessInv, InitChained DEF LaunchInv, TimesInit
<1>2. TimesType
  BY TimesAssumption DEF TimesInit, TimesType, Count
<1>3. FreeSlotsClean
  BY DEF TimesInit, Init, FreeSlotsClean, Alive, NewTask, ZeroTask, PROC_SLEEPING, PROC_RUNNING
<1>4. Accounted
  <2>1. \A p \in Slot : runtime[p] + sleepTime[p] = 0 /\ totalInterruptCount - born[p] = 0
    BY DEF TimesInit
  <2> QED
    BY <2>1 DEF Accounted
<1> QED
  BY <1>1, <1>2, <1>3, <1>4 DEF TimesInv

\* Every step keeps the invariant.
LEMMA NextTimesInv == TimesInv /\ [TimesNext]_timesVars => TimesInv'
<1> SUFFICES ASSUME TimesInv, [TimesNext]_timesVars PROVE TimesInv'
  OBVIOUS
<1>1. CASE UNCHANGED timesVars
  <2>1. LaunchInv'
    BY <1>1, NextLaunchInv DEF timesVars, TimesInv
  <2>2. task' = task /\ UNCHANGED <<runtime, sleepTime, totalInterruptCount, born>>
    BY <1>1 DEF timesVars, vars
  <2> QED
    BY <2>1, <2>2 DEF TimesInv, TimesType, FreeSlotsClean, Accounted
<1> QED
  BY <1>1, CallInv, InterruptInv DEF TimesNext

-----------------------------------------------------------------------------
\* Through launches, returns and reused task structs, with counters that wrap,
\* every interrupt since its launch counts in just one of the times of a
\* process that is not dead (systemInterruptHandler, initializeTask).
THEOREM TimesAddUp == TimesSpec => []Accounted
<1>1. TimesInv => Accounted
  BY DEF TimesInv
<1> QED
  BY <1>1, InitTimesInv, NextTimesInv, PTL DEF TimesSpec
=============================================================================
