----------------------------- MODULE KernelHeap -----------------------------
(***************************************************************************)
(* The kernel heap of libc-main.cpp (kMalloc, kFree) under the nesting of  *)
(* the system interrupt: systemInterruptHandler turns interrupts on again  *)
(* before printSystemUptime allocates and frees its strings, so the next   *)
(* timer interrupt may come between any two accesses of kMalloc.           *)
(*                                                                         *)
(* System calls allocate with interrupts off, so their kMalloc is one      *)
(* step; what they keep (names, pipe buffers) stays allocated while the    *)
(* process runs in user mode or in sysWait, where interrupts come.  The    *)
(* kernel's kFreeAll is left out: nothing in the repository calls it.      *)
(***************************************************************************)
EXTENDS Integers, Sequences, SequencesExt, Scan

CONSTANTS
  KERNEL_MAX_HEAP_OBJECTS,  \* slots of the heap (0x300)
  Pid,                      \* processes that make calls
  UptimeObjects,            \* objects printSystemUptime allocates (5)
  MaxNesting                \* bound of the model: interrupts under way at once

ASSUME HeapAssumption ==
  /\ KERNEL_MAX_HEAP_OBJECTS \in Nat \ {0}
  /\ Pid \subseteq 1 .. 254
  /\ UptimeObjects \in Nat \ {0}
  /\ MaxNesting \in Nat

KERNEL_OWNED == 255

Slot == 0 .. KERNEL_MAX_HEAP_OBJECTS - 1

VARIABLES
  heap,       \* the pid byte of each heap object
  held,       \* slots that system calls keep a pointer to
  handlers,   \* printSystemUptime calls under way, the innermost last
  nullUsed    \* a null from kMalloc was written through

heapVars == <<heap, held, handlers, nullUsed>>

\* A handler scans the heap from heapIndex, is about to take the slot there,
\* or frees what it holds, first allocated first.
NewHandler == [phase |-> "scan", heapIndex |-> 0, holds |-> <<>>]

HeapInit ==
  /\ heap = [s \in Slot |-> 0]
  /\ held = {}
  /\ handlers = <<>>
  /\ nullUsed = FALSE

-----------------------------------------------------------------------------
(* System calls: no handler is under way, or one of them waits in sysWait *)
(* with no handler under way. *)

Calls == handlers = <<>> /\ ~nullUsed

FreeSlots == { s \in Slot : heap[s] = 0 }

\* kMalloc in a system call.  None of them tests the result for null before it
\* copies into it (sysExec, syscalls.cpp:613).
CallAllocates(pid) ==
  /\ Calls
  /\ \/ /\ FreeSlots = {}
        /\ nullUsed' = TRUE
        /\ UNCHANGED <<heap, held>>
     \/ /\ FreeSlots # {}
        /\ heap' = [heap EXCEPT ![FirstOf(FreeSlots)] = pid]
        /\ held' = held \cup {FirstOf(FreeSlots)}
        /\ UNCHANGED nullUsed
  /\ UNCHANGED handlers

\* Mutant: the fill starts behind the byte with the pid.
kFree_Usable(slot) == heap

kFree(slot) == [heap EXCEPT ![slot] = 0]

CallFrees(slot) ==
  /\ Calls
  /\ slot \in held
  /\ heap' = kFree(slot)
  /\ held' = held \ {slot}
  /\ UNCHANGED <<handlers, nullUsed>>

-----------------------------------------------------------------------------
(* systemInterruptHandler, from enableInterrupts on *)

Interrupt ==
  /\ ~nullUsed
  /\ Len(handlers) < MaxNesting
  /\ handlers' = Append(handlers, NewHandler)
  /\ UNCHANGED <<heap, held, nullUsed>>

Top == handlers[Len(handlers)]

\* The innermost handler is in this phase; the others wait for it.
Handles(phase) == handlers # <<>> /\ Top.phase = phase /\ ~nullUsed

Replaced(handler) == [handlers EXCEPT ![Len(handlers)] = handler]

\* Mutant: the scan stops before the last slot.
HandlerTests_ShortScan ==
  /\ Handles("scan")
  /\ \/ /\ Top.heapIndex = KERNEL_MAX_HEAP_OBJECTS - 1
        /\ nullUsed' = TRUE
        /\ UNCHANGED handlers
     \/ /\ Top.heapIndex < KERNEL_MAX_HEAP_OBJECTS - 1
        /\ handlers' = Replaced(IF heap[Top.heapIndex] = 0
                                THEN [Top EXCEPT !.phase = "take"]
                                ELSE [Top EXCEPT !.heapIndex = @ + 1])
        /\ UNCHANGED nullUsed
  /\ UNCHANGED <<heap, held>>

\* kMalloc tests the pid of one slot.
HandlerTests ==
  /\ Handles("scan")
  /\ \/ /\ Top.heapIndex = KERNEL_MAX_HEAP_OBJECTS
        /\ nullUsed' = TRUE
        /\ UNCHANGED handlers
     \/ /\ Top.heapIndex < KERNEL_MAX_HEAP_OBJECTS
        /\ handlers' = Replaced(IF heap[Top.heapIndex] = 0
                                THEN [Top EXCEPT !.phase = "take"]
                                ELSE [Top EXCEPT !.heapIndex = @ + 1])
        /\ UNCHANGED nullUsed
  /\ UNCHANGED <<heap, held>>

\* Mutant: kMalloc returns the slot without marking it as taken.
HandlerTakes_Unmarked ==
  /\ Handles("take")
  /\ LET holds == Append(Top.holds, Top.heapIndex)
     IN handlers' = Replaced(
          [phase |-> IF Len(holds) = UptimeObjects THEN "free" ELSE "scan",
           heapIndex |-> 0, holds |-> holds])
  /\ UNCHANGED <<heap, held, nullUsed>>

\* kMalloc writes the pid into the slot it found free.
HandlerTakes ==
  /\ Handles("take")
  /\ heap' = [heap EXCEPT ![Top.heapIndex] = KERNEL_OWNED]
  /\ LET holds == Append(Top.holds, Top.heapIndex)
     IN handlers' = Replaced(
          [phase |-> IF Len(holds) = UptimeObjects THEN "free" ELSE "scan",
           heapIndex |-> 0, holds |-> holds])
  /\ UNCHANGED <<held, nullUsed>>

\* kFree of the next object; after the last the handler returns.
HandlerFrees ==
  /\ Handles("free")
  /\ heap' = kFree(Head(Top.holds))
  /\ handlers' = IF Len(Top.holds) = 1
                 THEN Front(handlers)
                 ELSE Replaced([Top EXCEPT !.holds = Tail(@)])
  /\ UNCHANGED <<held, nullUsed>>

HeapNext ==
  \/ \E pid \in Pid : CallAllocates(pid)
  \/ \E slot \in Slot : CallFrees(slot)
  \/ Interrupt
  \/ HandlerTests
  \/ HandlerTakes
  \/ HandlerFrees

HeapSpec == HeapInit /\ [][HeapNext]_heapVars

-----------------------------------------------------------------------------
(* Properties *)

\* Types of the variables.  A handler's scan never runs past the end of the
\* heap, and a handler holds no more objects than printSystemUptime asks for.
HeapTypeOK ==
  /\ heap \in [Slot -> 0 .. KERNEL_OWNED]
  /\ held \subseteq Slot
  /\ Len(handlers) <= MaxNesting
  /\ \A i \in DOMAIN handlers :
       /\ handlers[i].phase \in {"scan", "take", "free"}
       /\ handlers[i].heapIndex \in 0 .. KERNEL_MAX_HEAP_OBJECTS
       /\ handlers[i].phase = "take" => handlers[i].heapIndex \in Slot
       /\ handlers[i].holds \in Seq(Slot)
       /\ Len(handlers[i].holds) <= UptimeObjects
  /\ nullUsed \in BOOLEAN

HeldBy(i) == Range(handlers[i].holds)

UsedSlots == { s \in Slot : heap[s] # 0 }

\* A slot belongs to one owner: no interrupt between kMalloc's test and its
\* write hands a slot to two handlers, or to a handler and a system call.
Exclusive ==
  /\ \A i \in DOMAIN handlers : HeldBy(i) \cap held = {}
  /\ \A i, j \in DOMAIN handlers : i # j => HeldBy(i) \cap HeldBy(j) = {}
  /\ \A i \in DOMAIN handlers : IsInjective(handlers[i].holds)

\* The slots in use are those somebody holds: the handlers neither lose an
\* object nor free one that is in use, and when the last returns the heap is
\* as the first found it.
UsedIsHeld == UsedSlots = held \cup UNION { HeldBy(i) : i \in DOMAIN handlers }

\* A null from kMalloc means a full heap, whatever interrupts came during the
\* scan: what nested handlers took and freed behind heapIndex leaves no slot
\* that the scan missed.  (Nobody tests for the null: sysExec, syscalls.cpp:613.)
NullOnlyWhenFull == nullUsed => UsedSlots = Slot
=============================================================================
