------------------------ MODULE KernelServicesProofs ------------------------
(***************************************************************************)
(* Proofs about what the rest of the kernel stands on.                     *)
(* KernelHeap: for every size of the heap and every depth of nesting, no   *)
(* slot has two owners, none is lost, and null means full.                 *)
(* DiskCache: its state is well typed, a valid line always holds its       *)
(* sector, no sector has two lines, with the cache hidden the block layer  *)
(* is SectorStore, and evictions are of the line used least recently until *)
(* the clock wraps.                                                        *)
(* NetReceive: for every ring, packet size and queue, the driver takes the *)
(* packets the card stored, whole, each once and in their order.           *)
(***************************************************************************)
EXTENDS KernelHeap, DiskCacheLRU, NetReceive, ScanProofs

-----------------------------------------------------------------------------
(* The kernel heap                                                         *)

Handler == [phase : {"scan", "take", "free"},
            heapIndex : 0 .. KERNEL_MAX_HEAP_OBJECTS,
            holds : Seq(Slot)]

\* A handler that frees has something to free, one that allocates needs more.
HandlersTyped ==
  /\ handlers \in Seq(Handler)
  /\ \A i \in DOMAIN handlers :
       IF handlers[i].phase = "free" THEN handlers[i].holds # <<>>
       ELSE Len(handlers[i].holds) < UptimeObjects

\* What system calls and the first i handlers hold.  Handlers above the i-th
\* come and go while it is interrupted; these slots stay as they are.
Below(i) == held \cup UNION { HeldBy(k) : k \in 1 .. i }

\* A handler has passed only slots that are still in use, and the slot it is
\* about to take is in use by nobody that outlives its interruption.
ScansRight ==
  \A i \in DOMAIN handlers :
    /\ handlers[i].phase = "scan" =>
         \A s \in Slot : s < handlers[i].heapIndex => s \in Below(i)
    /\ handlers[i].phase = "take" =>
         handlers[i].heapIndex \in Slot /\ handlers[i].heapIndex \notin Below(i)

\* The inductive invariant.
HeapInv ==
  HeapTypeOK /\ HandlersTyped /\ Exclusive /\ UsedIsHeld /\ ScansRight /\ NullOnlyWhenFull

-----------------------------------------------------------------------------
(* Sequences *)

\* Appending adds one element to the range.
LEMMA RangeOfAppend ==
  ASSUME NEW S, NEW s \in Seq(S), NEW e \in S
  PROVE  /\ Append(s, e) \in Seq(S)
         /\ Len(Append(s, e)) = Len(s) + 1
         /\ Range(Append(s, e)) = Range(s) \cup {e}
         /\ IsInjective(s) /\ e \notin Range(s) => IsInjective(Append(s, e))
<1>1. DOMAIN s = 1 .. Len(s) /\ DOMAIN Append(s, e) = 1 .. Len(s) + 1 /\ Len(s) \in Nat
  OBVIOUS
<1>2. \A i \in 1 .. Len(s) : Append(s, e)[i] = s[i]
  OBVIOUS
<1>3. Append(s, e)[Len(s) + 1] = e
  OBVIOUS
<1>4. 1 .. Len(s) + 1 = (1 .. Len(s)) \cup {Len(s) + 1}
  BY <1>1
<1>5. Range(Append(s, e)) = Range(s) \cup {e}
  BY <1>1, <1>2, <1>3, <1>4 DEF Range
<1>6. IsInjective(s) /\ e \notin Range(s) => IsInjective(Append(s, e))
  BY <1>1, <1>2, <1>3, <1>4 DEF Range, IsInjective
<1> QED
  BY <1>5, <1>6

\* The tail of a sequence without repetitions has lost its head, and only that.
LEMMA RangeOfTail ==
  ASSUME NEW S, NEW s \in Seq(S), s # <<>>, IsInjective(s)
  PROVE  /\ Tail(s) \in Seq(S)
         /\ Len(Tail(s)) = Len(s) - 1
         /\ Head(s) \in S /\ Head(s) \in Range(s)
         /\ Range(Tail(s)) = Range(s) \ {Head(s)}
         /\ IsInjective(Tail(s))
         /\ Len(s) = 1 => Range(s) = {Head(s)}
<1>1. DOMAIN s = 1 .. Len(s) /\ DOMAIN Tail(s) = 1 .. Len(s) - 1 /\ Len(s) \in Nat \ {0}
  OBVIOUS
<1>2. \A i \in 1 .. Len(s) - 1 : Tail(s)[i] = s[i + 1]
  OBVIOUS
<1>3. Head(s) = s[1] /\ 1 \in DOMAIN s
  BY <1>1
<1>4. \A i \in 1 .. Len(s) : i = 1 \/ i - 1 \in 1 .. Len(s) - 1
  BY <1>1
<1>5. Range(Tail(s)) \subseteq Range(s) \ {Head(s)}
  BY <1>1, <1>2, <1>3 DEF Range, IsInjective
<1>6. Range(s) \ {Head(s)} \subseteq Range(Tail(s))
  <2>1. ASSUME NEW i \in 1 .. Len(s), i # 1 PROVE s[i] \in Range(Tail(s))
    <3>1. i - 1 \in DOMAIN Tail(s) /\ Tail(s)[i - 1] = s[i]
      BY <2>1, <1>1, <1>2, <1>4
    <3> QED
      BY <3>1 DEF Range
  <2> QED
    BY <2>1, <1>1, <1>3 DEF Range
<1>7. IsInjective(Tail(s))
  BY <1>1, <1>2 DEF IsInjective
<1>8. Len(s) = 1 => Range(s) = {Head(s)}
  BY <1>1, <1>3 DEF Range
<1>9. Head(s) \in S /\ Head(s) \in Range(s)
  BY <1>1, <1>3 DEF Range
<1> QED
  BY <1>5, <1>6, <1>7, <1>8, <1>9

-----------------------------------------------------------------------------
(* One step *)

\* Writing the pid byte of a slot takes it or gives it back.
LEMMA PidWritten ==
  ASSUME heap \in [Slot -> 0 .. KERNEL_OWNED], NEW s \in Slot, NEW pid \in 0 .. KERNEL_OWNED,
         heap' = [heap EXCEPT ![s] = pid]
  PROVE  /\ heap' \in [Slot -> 0 .. KERNEL_OWNED]
         /\ pid = 0 => UsedSlots' = UsedSlots \ {s}
         /\ pid # 0 => UsedSlots' = UsedSlots \cup {s}
BY DEF UsedSlots

\* 0 and KERNEL_OWNED are pid bytes.
LEMMA PidBytes == 0 \in 0 .. KERNEL_OWNED /\ KERNEL_OWNED \in 0 .. KERNEL_OWNED /\ KERNEL_OWNED # 0
BY DEF KERNEL_OWNED

\* The innermost handler and the state it is in.
LEMMA TopIsHandler ==
  ASSUME HeapInv, handlers # <<>>
  PROVE  /\ Len(handlers) \in Nat \ {0}
         /\ DOMAIN handlers = 1 .. Len(handlers)
         /\ Top \in Handler
         /\ UsedSlots = Below(Len(handlers))
<1>1. Len(handlers) \in Nat \ {0} /\ DOMAIN handlers = 1 .. Len(handlers) /\ Top \in Handler
  BY DEF HeapInv, HandlersTyped, Top
<1> QED
  BY <1>1 DEF HeapInv, Below, UsedIsHeld

\* A new handler in the place of the innermost leaves the others alone.
LEMMA ReplacedHandlers ==
  ASSUME HeapInv, handlers # <<>>, NEW h \in Handler, handlers' = Replaced(h), held' = held
  PROVE  /\ handlers' \in Seq(Handler)
         /\ Len(handlers') = Len(handlers)
         /\ DOMAIN handlers' = 1 .. Len(handlers)
         /\ handlers'[Len(handlers)] = h
         /\ \A i \in 1 .. Len(handlers) - 1 : handlers'[i] = handlers[i]
         /\ \A i \in 1 .. Len(handlers) - 1 : HeldBy(i)' = HeldBy(i)
         /\ \A i \in 1 .. Len(handlers) - 1 : Below(i)' = Below(i)
<1>1. handlers \in Seq(Handler) /\ Len(handlers) \in Nat \ {0}
  BY TopIsHandler DEF HeapInv, HandlersTyped
<1>2. /\ handlers' \in Seq(Handler)
      /\ Len(handlers') = Len(handlers)
      /\ DOMAIN handlers' = 1 .. Len(handlers)
      /\ handlers'[Len(handlers)] = h
      /\ \A i \in 1 .. Len(handlers) - 1 : handlers'[i] = handlers[i]
  BY <1>1 DEF Replaced
<1>3. \A i \in 1 .. Len(handlers) - 1 : HeldBy(i)' = HeldBy(i)
  BY <1>2 DEF HeldBy
<1>4. ASSUME NEW i \in 1 .. Len(handlers) - 1 PROVE Below(i)' = Below(i)
  <2>1. \A k \in 1 .. i : HeldBy(k)' = HeldBy(k)
    BY <1>1, <1>3
  <2> QED
    BY <2>1 DEF Below
<1> QED
  BY <1>2, <1>3, <1>4

\* Below the innermost handler the invariant stays as it is when only that one
\* changes; what is left to show is about the new state h of that handler.
LEMMA ReplacedInv ==
  ASSUME HeapInv, handlers # <<>>, ~nullUsed,
         NEW h \in Handler, handlers' = Replaced(h), held' = held, nullUsed' = nullUsed,
         heap' \in [Slot -> 0 .. KERNEL_OWNED],
         UsedSlots' = Below(Len(handlers) - 1) \cup Range(h.holds),
         Range(h.holds) \cap Below(Len(handlers) - 1) = {},
         IsInjective(h.holds),
         Len(h.holds) <= UptimeObjects,
         IF h.phase = "free" THEN h.holds # <<>> ELSE Len(h.holds) < UptimeObjects,
         h.phase = "scan" => \A s \in Slot : s < h.heapIndex => s \in UsedSlots',
         h.phase = "take" => h.heapIndex \in Slot /\ h.heapIndex \notin UsedSlots'
  PROVE  HeapInv'
<1>n. PICK n : n = Len(handlers)
  OBVIOUS
<1>1. /\ n \in Nat \ {0} /\ DOMAIN handlers = 1 .. n
      /\ handlers \in Seq(Handler)
  BY <1>n, TopIsHandler DEF HeapInv, HandlersTyped
<1>2. /\ handlers' \in Seq(Handler)
      /\ Len(handlers') = n
      /\ DOMAIN handlers' = 1 .. n
      /\ handlers'[n] = h
      /\ \A i \in 1 .. n - 1 : handlers'[i] = handlers[i]
      /\ \A i \in 1 .. n - 1 : HeldBy(i)' = HeldBy(i)
      /\ \A i \in 1 .. n - 1 : Below(i)' = Below(i)
  BY <1>n, ReplacedHandlers
<1>3. HeldBy(n)' = Range(h.holds)
  BY <1>2 DEF HeldBy
<1>4. 1 .. n = (1 .. n - 1) \cup {n} /\ n \notin 1 .. n - 1
  BY <1>1
<1>5. Below(n)' = UsedSlots'
  <2>1. UNION { HeldBy(k)' : k \in 1 .. n }
          = (UNION { HeldBy(k) : k \in 1 .. n - 1 }) \cup Range(h.holds)
    BY <1>2, <1>3, <1>4
  <2> QED
    BY <1>n, <2>1 DEF Below
<1>6. HeapTypeOK'
  <2>1. held \subseteq Slot /\ n <= MaxNesting /\ nullUsed \in BOOLEAN
    BY <1>n DEF HeapInv, HeapTypeOK
  <2>2. ASSUME NEW i \in DOMAIN handlers'
        PROVE  /\ handlers'[i].phase \in {"scan", "take", "free"}
               /\ handlers'[i].heapIndex \in 0 .. KERNEL_MAX_HEAP_OBJECTS
               /\ handlers'[i].phase = "take" => handlers'[i].heapIndex \in Slot
               /\ handlers'[i].holds \in Seq(Slot)
               /\ Len(handlers'[i].holds) <= UptimeObjects
    <3>1. CASE i = n
      BY <3>1, <1>2 DEF Handler
    <3>2. CASE i \in 1 .. n - 1
      <4>1. handlers'[i] = handlers[i] /\ i \in DOMAIN handlers
        BY <3>2, <1>1, <1>2, <1>4
      <4> QED
        BY <4>1 DEF HeapInv, HeapTypeOK
    <3> QED
      BY <3>1, <3>2, <1>2, <1>4
  <2> QED
    BY <2>1, <2>2, <1>2 DEF HeapTypeOK
<1>7. HandlersTyped'
  BY <1>1, <1>2, <1>4 DEF HeapInv, HandlersTyped
<1>8. Exclusive'
  <2>1. /\ \A i \in 1 .. n - 1 : HeldBy(i) \cap held = {}
        /\ \A i, j \in 1 .. n - 1 : i # j => HeldBy(i) \cap HeldBy(j) = {}
        /\ \A i \in 1 .. n - 1 : IsInjective(handlers[i].holds)
    BY <1>1, <1>4 DEF HeapInv, Exclusive
  <2>2. /\ Range(h.holds) \cap held = {}
        /\ \A i \in 1 .. n - 1 : Range(h.holds) \cap HeldBy(i) = {}
    BY <1>n DEF Below
  <2>3. \A i \in 1 .. n : HeldBy(i)' \cap held' = {}
    BY <2>1, <2>2, <1>2, <1>3, <1>4
  <2>4. \A i, j \in 1 .. n : i # j => HeldBy(i)' \cap HeldBy(j)' = {}
    BY <2>1, <2>2, <1>2, <1>3, <1>4
  <2>5. \A i \in 1 .. n : IsInjective(handlers'[i].holds)
    BY <2>1, <1>2, <1>4
  <2> QED
    BY <2>3, <2>4, <2>5, <1>2 DEF Exclusive
<1>9. UsedIsHeld'
  BY <1>5, <1>2 DEF UsedIsHeld, Below
<1>10. ScansRight'
  <2>1. ASSUME NEW i \in DOMAIN handlers'
        PROVE  /\ handlers'[i].phase = "scan" =>
                    \A s \in Slot : s < handlers'[i].heapIndex => s \in Below(i)'
               /\ handlers'[i].phase = "take" =>
                    handlers'[i].heapIndex \in Slot /\ handlers'[i].heapIndex \notin Below(i)'
    <3>1. CASE i = n
      BY <3>1, <1>2, <1>5
    <3>2. CASE i \in 1 .. n - 1
      <4>1. handlers'[i] = handlers[i] /\ i \in DOMAIN handlers /\ Below(i)' = Below(i)
        BY <3>2, <1>1, <1>2, <1>4
      <4> QED
        BY <4>1 DEF HeapInv, ScansRight
    <3> QED
      BY <3>1, <3>2, <1>2, <1>4
  <2> QED
    BY <2>1 DEF ScansRight
<1>11. NullOnlyWhenFull'
  BY DEF NullOnlyWhenFull
<1> QED
  BY <1>6, <1>7, <1>8, <1>9, <1>10, <1>11 DEF HeapInv

\* What the innermost handler holds is its own, and with the rest it makes up
\* all that is in use.
LEMMA TopHolds ==
  ASSUME HeapInv, handlers # <<>>
  PROVE  /\ UsedSlots = Below(Len(handlers) - 1) \cup Range(Top.holds)
         /\ Range(Top.holds) \cap Below(Len(handlers) - 1) = {}
         /\ Top.holds \in Seq(Slot)
         /\ IsInjective(Top.holds)
         /\ Len(Top.holds) <= UptimeObjects
         /\ IF Top.phase = "free" THEN Top.holds # <<>> ELSE Len(Top.holds) < UptimeObjects
         /\ Top.phase = "scan" => \A s \in Slot : s < Top.heapIndex => s \in UsedSlots
         /\ Top.phase = "take" => Top.heapIndex \in Slot /\ Top.heapIndex \notin UsedSlots
<1>n. PICK n : n = Len(handlers)
  OBVIOUS
<1>1. /\ n \in Nat \ {0} /\ DOMAIN handlers = 1 .. n
      /\ Top \in Handler /\ Top = handlers[n] /\ UsedSlots = Below(n)
  BY <1>n, TopIsHandler DEF Top
<1>2. 1 .. n = (1 .. n - 1) \cup {n} /\ n \notin 1 .. n - 1 /\ n \in DOMAIN handlers
  BY <1>1
<1>3. HeldBy(n) = Range(Top.holds)
  BY <1>1 DEF HeldBy
<1>4. UsedSlots = Below(n - 1) \cup Range(Top.holds)
  <2>1. UNION { HeldBy(k) : k \in 1 .. n }
          = (UNION { HeldBy(k) : k \in 1 .. n - 1 }) \cup Range(Top.holds)
    BY <1>2, <1>3
  <2> QED
    BY <1>1, <2>1 DEF Below
<1>5. Range(Top.holds) \cap Below(n - 1) = {}
  <2>1. /\ HeldBy(n) \cap held = {}
        /\ \A k \in 1 .. n - 1 : HeldBy(n) \cap HeldBy(k) = {}
    BY <1>1, <1>2 DEF HeapInv, Exclusive
  <2> QED
    BY <2>1, <1>3 DEF Below
<1>6. /\ IsInjective(Top.holds)
      /\ Top.holds \in Seq(Slot)
      /\ Len(Top.holds) <= UptimeObjects
  BY <1>1, <1>2 DEF HeapInv, Exclusive, HeapTypeOK
<1>7. IF Top.phase = "free" THEN Top.holds # <<>> ELSE Len(Top.holds) < UptimeObjects
  BY <1>1, <1>2 DEF HeapInv, HandlersTyped
<1>8. /\ Top.phase = "scan" => \A s \in Slot : s < Top.heapIndex => s \in UsedSlots
      /\ Top.phase = "take" => Top.heapIndex \in Slot /\ Top.heapIndex \notin UsedSlots
  BY <1>1, <1>2 DEF HeapInv, ScansRight
<1> QED
  BY <1>n, <1>4, <1>5, <1>6, <1>7, <1>8

-----------------------------------------------------------------------------
(* The actions *)

\* What the invariant says of the heap and its owners while both stay.
LEMMA UnchangedParts ==
  ASSUME HeapInv, heap' = heap, held' = held, handlers' = handlers
  PROVE  HandlersTyped' /\ Exclusive' /\ UsedIsHeld' /\ ScansRight'
<1>1. UsedSlots' = UsedSlots /\ \A i : HeldBy(i)' = HeldBy(i)
  BY DEF UsedSlots, HeldBy
<1>2. \A i : Below(i)' = Below(i)
  BY <1>1 DEF Below
<1>3. HandlersTyped'
  BY DEF HeapInv, HandlersTyped
<1>4. Exclusive' /\ UsedIsHeld'
  BY <1>1 DEF HeapInv, Exclusive, UsedIsHeld
<1>5. ScansRight'
  BY <1>2 DEF HeapInv, ScansRight
<1> QED
  BY <1>3, <1>4, <1>5

\* A system call allocates or frees while no handler is under way.
LEMMA CallStep ==
  ASSUME HeapInv,
         \/ \E pid \in Pid : CallAllocates(pid)
         \/ \E slot \in Slot : CallFrees(slot)
  PROVE  HeapInv'
<1> USE HeapAssumption
<1>1. handlers = <<>> /\ handlers' = <<>> /\ ~nullUsed
  BY DEF CallAllocates, CallFrees, Calls
<1>2. DOMAIN handlers = {} /\ DOMAIN handlers' = {} /\ Len(handlers') = 0
  BY <1>1
<1>3. /\ UsedSlots = held /\ held \subseteq Slot /\ heap \in [Slot -> 0 .. KERNEL_OWNED]
      /\ nullUsed = FALSE
  BY <1>1, <1>2 DEF HeapInv, UsedIsHeld, HeapTypeOK
<1> DEFINE Balanced == /\ heap' \in [Slot -> 0 .. KERNEL_OWNED]
                       /\ held' \subseteq Slot
                       /\ UsedSlots' = held'
                       /\ nullUsed' \in BOOLEAN
                       /\ nullUsed' => UsedSlots' = Slot
<1>4. Balanced
  <2>1. ASSUME NEW pid \in Pid, CallAllocates(pid), FreeSlots = {}
        PROVE  Balanced
    BY <2>1, <1>3 DEF CallAllocates, FreeSlots, UsedSlots
  <2>2. ASSUME NEW pid \in Pid, CallAllocates(pid), FreeSlots # {}
        PROVE  Balanced
    <3>1. FreeSlots \in SUBSET Nat
      BY DEF FreeSlots, Slot
    <3>2. FirstOf(FreeSlots) \in Slot
      BY <2>2, <3>1, FirstOfIsFirst DEF FreeSlots
    <3>3. pid \in 1 .. 254
      OBVIOUS
    <3>4. /\ heap' = [heap EXCEPT ![FirstOf(FreeSlots)] = pid]
          /\ held' = held \cup {FirstOf(FreeSlots)} /\ nullUsed' = nullUsed
      BY <2>2 DEF CallAllocates
    <3>5. heap' \in [Slot -> 0 .. KERNEL_OWNED]
      BY <1>3, <3>2, <3>3, <3>4 DEF KERNEL_OWNED
    <3>6. UsedSlots' = held'
      BY <1>3, <3>2, <3>3, <3>4 DEF UsedSlots
    <3> QED
      BY <1>1, <1>3, <3>2, <3>4, <3>5, <3>6
  <2>3. ASSUME NEW slot \in Slot, CallFrees(slot)
        PROVE  Balanced
    <3>1. heap' = [heap EXCEPT ![slot] = 0] /\ held' = held \ {slot} /\ nullUsed' = nullUsed
      BY <2>3 DEF CallFrees, kFree
    <3>2. heap' \in [Slot -> 0 .. KERNEL_OWNED] /\ UsedSlots' = held'
      BY <1>3, <3>1 DEF KERNEL_OWNED, UsedSlots
    <3> QED
      BY <1>1, <1>3, <3>1, <3>2
  <2> QED
    BY <2>1, <2>2, <2>3
<1>5. HeapTypeOK'
  BY <1>2, <1>4 DEF HeapTypeOK
<1>6. HandlersTyped' /\ Exclusive' /\ ScansRight'
  BY <1>1, <1>2 DEF HandlersTyped, Exclusive, ScansRight
<1>7. UsedIsHeld' /\ NullOnlyWhenFull'
  BY <1>2, <1>4 DEF UsedIsHeld, NullOnlyWhenFull
<1> QED
  BY <1>5, <1>6, <1>7 DEF HeapInv

\* A handler that is about to allocate or free keeps the invariant, because
\* what it changes is its own and in use by nobody else.
LEMMA HandlerStep ==
  ASSUME HeapInv, HandlerTests \/ HandlerTakes \/ HandlerFrees
  PROVE  HeapInv'
<1> USE HeapAssumption
<1>1. handlers # <<>> /\ ~nullUsed
  BY DEF HandlerTests, HandlerTakes, HandlerFrees, Handles
<1>n. PICK n : n = Len(handlers)
  OBVIOUS
<1>2. /\ n \in Nat \ {0} /\ DOMAIN handlers = 1 .. n
      /\ Top \in Handler
      /\ UsedSlots = Below(n - 1) \cup Range(Top.holds)
      /\ Range(Top.holds) \cap Below(n - 1) = {}
      /\ Top.holds \in Seq(Slot)
      /\ IsInjective(Top.holds)
      /\ Len(Top.holds) <= UptimeObjects
      /\ IF Top.phase = "free" THEN Top.holds # <<>> ELSE Len(Top.holds) < UptimeObjects
      /\ Top.phase = "scan" => \A s \in Slot : s < Top.heapIndex => s \in UsedSlots
      /\ Top.phase = "take" => Top.heapIndex \in Slot /\ Top.heapIndex \notin UsedSlots
  BY <1>1, <1>n, TopIsHandler, TopHolds
<1>3. heap \in [Slot -> 0 .. KERNEL_OWNED] /\ held \subseteq Slot
  BY DEF HeapInv, HeapTypeOK
<1>4. ASSUME HandlerTests, Top.heapIndex = KERNEL_MAX_HEAP_OBJECTS
      PROVE  HeapInv'
  <2>1. heap' = heap /\ held' = held /\ handlers' = handlers /\ nullUsed' = TRUE
    BY <1>4 DEF HandlerTests
  <2>2. \A s \in Slot : s < KERNEL_MAX_HEAP_OBJECTS
    BY DEF Slot
  <2>3. UsedSlots' = UsedSlots
    BY <2>1 DEF UsedSlots
  <2>4. UsedSlots = Slot
    BY <1>2, <1>4, <2>2 DEF HandlerTests, Handles, UsedSlots
  <2>5. HeapTypeOK' /\ NullOnlyWhenFull'
    BY <2>1, <2>3, <2>4 DEF HeapInv, HeapTypeOK, NullOnlyWhenFull
  <2>6. HandlersTyped' /\ Exclusive' /\ UsedIsHeld' /\ ScansRight'
    BY <2>1, UnchangedParts
  <2> QED
    BY <2>5, <2>6 DEF HeapInv
<1>5. ASSUME HandlerTests, Top.heapIndex < KERNEL_MAX_HEAP_OBJECTS
      PROVE  HeapInv'
  <2> DEFINE h == IF heap[Top.heapIndex] = 0 THEN [Top EXCEPT !.phase = "take"]
                  ELSE [Top EXCEPT !.heapIndex = @ + 1]
  <2>1. /\ heap' = heap /\ held' = held /\ nullUsed' = nullUsed
        /\ handlers' = Replaced(h) /\ Top.phase = "scan"
    BY <1>5 DEF HandlerTests, Handles
  <2>2. Top.heapIndex \in Slot
    BY <1>2, <1>5 DEF Handler, Slot
  <2>3. UsedSlots' = UsedSlots
    BY <2>1 DEF UsedSlots
  <2>4. /\ h \in Handler /\ h.holds = Top.holds
        /\ h.phase \in {"scan", "take"}
        /\ h.phase = "take" => h.heapIndex = Top.heapIndex /\ heap[Top.heapIndex] = 0
        /\ h.phase = "scan" => h.heapIndex = Top.heapIndex + 1 /\ heap[Top.heapIndex] # 0
    BY <1>2, <1>5, <2>1 DEF Handler
  <2> HIDE DEF h
  <2>5. h.phase = "take" => h.heapIndex \in Slot /\ h.heapIndex \notin UsedSlots
    BY <2>2, <2>4 DEF UsedSlots
  <2>6. h.phase = "scan" => \A s \in Slot : s < h.heapIndex => s \in UsedSlots
    <3> SUFFICES ASSUME h.phase = "scan", NEW s \in Slot, s < h.heapIndex PROVE s \in UsedSlots
      OBVIOUS
    <3>1. s < Top.heapIndex \/ s = Top.heapIndex
      BY <2>2, <2>4 DEF Slot
    <3> QED
      BY <3>1, <1>2, <2>1, <2>2, <2>4 DEF UsedSlots
  <2>7. IF h.phase = "free" THEN h.holds # <<>> ELSE Len(h.holds) < UptimeObjects
    BY <1>2, <2>1, <2>4
  <2> QED
    BY <1>1, <1>2, <1>3, <1>n, <2>1, <2>3, <2>4, <2>5, <2>6, <2>7, ReplacedInv
<1>6. ASSUME HandlerTakes PROVE HeapInv'
  <2> DEFINE holds == Append(Top.holds, Top.heapIndex)
             h == [phase |-> IF Len(holds) = UptimeObjects THEN "free" ELSE "scan",
                   heapIndex |-> 0, holds |-> holds]
  <2>1. /\ heap' = [heap EXCEPT ![Top.heapIndex] = KERNEL_OWNED]
        /\ held' = held /\ nullUsed' = nullUsed
        /\ handlers' = Replaced(h) /\ Top.phase = "take"
    BY <1>6 DEF HandlerTakes, Handles
  <2>2. Top.heapIndex \in Slot /\ Top.heapIndex \notin UsedSlots
    BY <1>2, <2>1
  <2>3. /\ holds \in Seq(Slot)
        /\ Len(holds) = Len(Top.holds) + 1 /\ Len(Top.holds) \in Nat
        /\ Range(holds) = Range(Top.holds) \cup {Top.heapIndex}
        /\ IsInjective(holds)
    BY <1>2, <2>2, RangeOfAppend
  <2>4. heap' \in [Slot -> 0 .. KERNEL_OWNED] /\ UsedSlots' = UsedSlots \cup {Top.heapIndex}
    BY <1>3, <2>1, <2>2, PidWritten, PidBytes
  <2> HIDE DEF holds
  <2>5. /\ h \in Handler /\ h.holds = holds /\ h.phase \in {"scan", "free"}
        /\ h.heapIndex = 0
        /\ h.phase = "free" <=> Len(holds) = UptimeObjects
    BY <2>3 DEF Handler
  <2> HIDE DEF h
  <2>6. IF h.phase = "free" THEN h.holds # <<>> ELSE Len(h.holds) < UptimeObjects
    BY <1>2, <2>1, <2>3, <2>5
  <2>7. UsedSlots' = Below(n - 1) \cup Range(h.holds) /\ Range(h.holds) \cap Below(n - 1) = {}
    BY <1>2, <2>2, <2>3, <2>4, <2>5
  <2>8. h.phase = "scan" => \A s \in Slot : s < h.heapIndex => s \in UsedSlots'
    BY <2>5 DEF Slot
  <2>9. Len(h.holds) <= UptimeObjects
    BY <1>2, <2>1, <2>3, <2>5
  <2> QED
    BY <1>1, <1>n, <2>1, <2>3, <2>4, <2>5, <2>6, <2>7, <2>8, <2>9, ReplacedInv
<1>7. ASSUME HandlerFrees, Len(Top.holds) # 1 PROVE HeapInv'
  <2> DEFINE h == [Top EXCEPT !.holds = Tail(@)]
  <2>1. /\ heap' = [heap EXCEPT ![Head(Top.holds)] = 0]
        /\ held' = held /\ nullUsed' = nullUsed
        /\ handlers' = Replaced(h) /\ Top.phase = "free" /\ Top.holds # <<>>
    BY <1>2, <1>7 DEF HandlerFrees, Handles, kFree
  <2>2. /\ Tail(Top.holds) \in Seq(Slot)
        /\ Len(Tail(Top.holds)) = Len(Top.holds) - 1
        /\ Head(Top.holds) \in Slot /\ Head(Top.holds) \in Range(Top.holds)
        /\ Range(Tail(Top.holds)) = Range(Top.holds) \ {Head(Top.holds)}
        /\ IsInjective(Tail(Top.holds))
    BY <1>2, <2>1, RangeOfTail
  <2>3. heap' \in [Slot -> 0 .. KERNEL_OWNED] /\ UsedSlots' = UsedSlots \ {Head(Top.holds)}
    BY <1>3, <2>1, <2>2, PidWritten, PidBytes
  <2>4. h \in Handler /\ h.holds = Tail(Top.holds) /\ h.phase = "free"
    BY <1>2, <2>1, <2>2 DEF Handler
  <2> HIDE DEF h
  <2>5. Len(h.holds) <= UptimeObjects /\ h.holds # <<>>
    <3>1. Len(Top.holds) \in Nat \ {0, 1}
      BY <1>2, <1>7, <2>1
    <3>2. Len(h.holds) = Len(Top.holds) - 1
      BY <2>2, <2>4
    <3>3. Len(h.holds) <= UptimeObjects
      BY <3>1, <3>2, <1>2
    <3>4. Len(h.holds) # 0
      BY <3>1, <3>2
    <3> QED
      BY <3>3, <3>4
  <2>6. UsedSlots' = Below(n - 1) \cup Range(h.holds) /\ Range(h.holds) \cap Below(n - 1) = {}
    BY <1>2, <2>2, <2>3, <2>4
  <2> QED
    BY <1>1, <1>n, <2>1, <2>2, <2>3, <2>4, <2>5, <2>6, ReplacedInv
<1>8. ASSUME HandlerFrees, Len(Top.holds) = 1 PROVE HeapInv'
  <2>1. /\ heap' = [heap EXCEPT ![Head(Top.holds)] = 0]
        /\ held' = held /\ nullUsed' = nullUsed
        /\ handlers' = Front(handlers) /\ Top.phase = "free" /\ Top.holds # <<>>
    BY <1>2, <1>8 DEF HandlerFrees, Handles, kFree
  <2>2. Head(Top.holds) \in Slot /\ Range(Top.holds) = {Head(Top.holds)}
    BY <1>2, <1>8, <2>1, RangeOfTail
  <2>3. heap' \in [Slot -> 0 .. KERNEL_OWNED] /\ UsedSlots' = UsedSlots \ {Head(Top.holds)}
    BY <1>3, <2>1, <2>2, PidWritten, PidBytes
  <2>4. UsedSlots' = Below(n - 1)
    BY <1>2, <2>2, <2>3
  <2>5. /\ handlers' \in Seq(Handler) /\ Len(handlers') = n - 1
        /\ DOMAIN handlers' = 1 .. n - 1
        /\ \A i \in 1 .. n - 1 : handlers'[i] = handlers[i] /\ i \in DOMAIN handlers
    <3>1. handlers \in Seq(Handler)
      BY DEF HeapInv, HandlersTyped
    <3> QED
      BY <3>1, <1>2, <1>n, <2>1 DEF Front
  <2>6. \A i \in 1 .. n - 1 : HeldBy(i)' = HeldBy(i)
    BY <2>5 DEF HeldBy
  <2>7. ASSUME NEW i \in 1 .. n - 1 PROVE Below(i)' = Below(i)
    <3>1. \A k \in 1 .. i : HeldBy(k)' = HeldBy(k)
      BY <2>6, <1>2
    <3> QED
      BY <3>1, <2>1 DEF Below
  <2>8. HeapTypeOK'
    <3>1. Len(handlers') <= MaxNesting
      BY <2>5, <1>2, <1>n DEF HeapInv, HeapTypeOK
    <3>2. nullUsed' \in BOOLEAN /\ held' \subseteq Slot
      BY <2>1, <1>3 DEF HeapInv, HeapTypeOK
    <3>3. ASSUME NEW i \in DOMAIN handlers'
          PROVE  /\ handlers'[i].phase \in {"scan", "take", "free"}
                 /\ handlers'[i].heapIndex \in 0 .. KERNEL_MAX_HEAP_OBJECTS
                 /\ handlers'[i].phase = "take" => handlers'[i].heapIndex \in Slot
                 /\ handlers'[i].holds \in Seq(Slot)
                 /\ Len(handlers'[i].holds) <= UptimeObjects
      <4>1. handlers'[i] = handlers[i] /\ i \in DOMAIN handlers
        BY <2>5
      <4> QED
        BY <4>1 DEF HeapInv, HeapTypeOK
    <3> QED
      BY <3>1, <3>2, <3>3, <2>3 DEF HeapTypeOK
  <2>9. HandlersTyped' /\ Exclusive'
    BY <2>1, <2>5, <2>6 DEF HeapInv, HandlersTyped, Exclusive
  <2>10. ScansRight'
    BY <2>5, <2>7 DEF HeapInv, ScansRight
  <2>11. UsedIsHeld'
    BY <2>1, <2>4, <2>5, <2>6 DEF UsedIsHeld, Below
  <2>12. NullOnlyWhenFull'
    BY <1>1, <2>1 DEF NullOnlyWhenFull
  <2> QED
    BY <2>8, <2>9, <2>10, <2>11, <2>12 DEF HeapInv
<1>9. Top.heapIndex = KERNEL_MAX_HEAP_OBJECTS \/ Top.heapIndex < KERNEL_MAX_HEAP_OBJECTS
  BY <1>2 DEF Handler
<1> QED
  BY <1>4, <1>5, <1>6, <1>7, <1>8, <1>9

\* A new handler holds nothing and has passed nothing.
LEMMA InterruptStep == HeapInv /\ Interrupt => HeapInv'
<1> SUFFICES ASSUME HeapInv, Interrupt PROVE HeapInv'
  OBVIOUS
<1> USE HeapAssumption
<1>n. PICK n : n = Len(handlers)
  OBVIOUS
<1>1. /\ handlers \in Seq(Handler) /\ n \in Nat /\ DOMAIN handlers = 1 .. n
      /\ handlers' = Append(handlers, NewHandler) /\ n < MaxNesting /\ ~nullUsed
      /\ heap' = heap /\ held' = held /\ nullUsed' = nullUsed
  BY <1>n DEF HeapInv, HandlersTyped, Interrupt
<1>2. NewHandler \in Handler /\ Range(NewHandler.holds) = {} /\ IsInjective(NewHandler.holds)
  BY DEF NewHandler, Handler, Range, IsInjective
<1>3. /\ handlers' \in Seq(Handler) /\ Len(handlers') = n + 1
      /\ DOMAIN handlers' = 1 .. n + 1
      /\ \A i \in 1 .. n : handlers'[i] = handlers[i]
      /\ handlers'[n + 1] = NewHandler
      /\ 1 .. n + 1 = (1 .. n) \cup {n + 1}
  BY <1>1, <1>2, <1>n
<1>4. (\A i \in 1 .. n : HeldBy(i)' = HeldBy(i)) /\ HeldBy(n + 1)' = {}
  BY <1>2, <1>3 DEF HeldBy
<1>5. ASSUME NEW i \in 1 .. n PROVE Below(i)' = Below(i)
  <2>1. \A k \in 1 .. i : HeldBy(k)' = HeldBy(k)
    BY <1>4, <1>1
  <2> QED
    BY <2>1, <1>1 DEF Below
<1>6. UsedSlots' = UsedSlots
  BY <1>1 DEF UsedSlots
<1>7. HeapTypeOK'
  <2>1. /\ NewHandler.phase = "scan" /\ NewHandler.heapIndex = 0
        /\ NewHandler.holds \in Seq(Slot) /\ Len(NewHandler.holds) = 0
    BY DEF NewHandler
  <2>2. 0 \in 0 .. KERNEL_MAX_HEAP_OBJECTS /\ 0 <= UptimeObjects
    OBVIOUS
  <2>3. ASSUME NEW i \in 1 .. n + 1
        PROVE  /\ handlers'[i].phase \in {"scan", "take", "free"}
               /\ handlers'[i].heapIndex \in 0 .. KERNEL_MAX_HEAP_OBJECTS
               /\ handlers'[i].phase = "take" => handlers'[i].heapIndex \in Slot
               /\ handlers'[i].holds \in Seq(Slot)
               /\ Len(handlers'[i].holds) <= UptimeObjects
    BY <2>1, <2>2, <1>1, <1>3 DEF HeapInv, HeapTypeOK
  <2> QED
    BY <2>3, <1>1, <1>3 DEF HeapInv, HeapTypeOK
<1>8. HandlersTyped'
  BY <1>1, <1>3 DEF HeapInv, HandlersTyped, NewHandler
<1>9. Exclusive'
  BY <1>1, <1>2, <1>3, <1>4 DEF HeapInv, Exclusive
<1>10. ScansRight'
  BY <1>1, <1>3, <1>5 DEF HeapInv, ScansRight, NewHandler, Slot
<1>11. UsedIsHeld'
  BY <1>1, <1>3, <1>4, <1>6 DEF HeapInv, UsedIsHeld
<1>12. NullOnlyWhenFull'
  BY <1>1 DEF NullOnlyWhenFull
<1> QED
  BY <1>7, <1>8, <1>9, <1>10, <1>11, <1>12 DEF HeapInv

-----------------------------------------------------------------------------
(* The theorems *)

\* The heap starts empty.
LEMMA HeapInvInit == HeapInit => HeapInv
<1> SUFFICES ASSUME HeapInit PROVE HeapInv
  OBVIOUS
<1>1. /\ DOMAIN handlers = {} /\ Len(handlers) = 0 /\ handlers \in Seq(Handler)
      /\ held = {} /\ nullUsed = FALSE
  BY DEF HeapInit
<1>2. heap \in [Slot -> 0 .. KERNEL_OWNED] /\ UsedSlots = {}
  BY PidBytes DEF HeapInit, UsedSlots
<1>3. HeapTypeOK
  <2>1. Len(handlers) <= MaxNesting
    BY <1>1, HeapAssumption
  <2>2. held \subseteq Slot
    BY <1>1
  <2>3. nullUsed \in BOOLEAN
    BY <1>1, Zenon
  <2> QED
    BY <2>1, <2>2, <2>3, <1>1, <1>2 DEF HeapTypeOK
<1>4. HandlersTyped /\ Exclusive /\ ScansRight
  BY <1>1 DEF HandlersTyped, Exclusive, ScansRight
<1>5. UsedIsHeld /\ NullOnlyWhenFull
  BY <1>1, <1>2 DEF UsedIsHeld, NullOnlyWhenFull
<1> QED
  BY <1>3, <1>4, <1>5 DEF HeapInv

\* Every step keeps the invariant.
LEMMA HeapInvStep == HeapInv /\ [HeapNext]_heapVars => HeapInv'
<1>1. ASSUME HeapInv, UNCHANGED heapVars PROVE HeapInv'
  <2>1. heap' = heap /\ held' = held /\ handlers' = handlers /\ nullUsed' = nullUsed
    BY <1>1 DEF heapVars
  <2>2. HandlersTyped' /\ Exclusive' /\ UsedIsHeld' /\ ScansRight'
    BY <1>1, <2>1, UnchangedParts
  <2>3. HeapTypeOK' /\ NullOnlyWhenFull'
    BY <1>1, <2>1 DEF HeapInv, HeapTypeOK, NullOnlyWhenFull, UsedSlots
  <2> QED
    BY <2>2, <2>3 DEF HeapInv
<1> QED
  BY <1>1, CallStep, HandlerStep, InterruptStep DEF HeapNext

\* Every reachable state of the heap satisfies the invariant.
LEMMA HeapInvAlways == HeapSpec => []HeapInv
BY HeapInvInit, HeapInvStep, PTL DEF HeapSpec

\* The variables stay in their types: no handler scans past the end of the
\* heap or holds more than printSystemUptime asks for.
THEOREM HeapTypeCorrect == HeapSpec => []HeapTypeOK
<1>1. HeapInv => HeapTypeOK
  BY DEF HeapInv
<1> QED
  BY <1>1, HeapInvAlways, PTL

\* No slot is ever in the hands of two owners.
THEOREM SlotsAreExclusive == HeapSpec => []Exclusive
<1>1. HeapInv => Exclusive
  BY DEF HeapInv
<1> QED
  BY <1>1, HeapInvAlways, PTL

\* What is in use is held by somebody: nested handlers lose nothing.
THEOREM NothingIsLost == HeapSpec => []UsedIsHeld
<1>1. HeapInv => UsedIsHeld
  BY DEF HeapInv
<1> QED
  BY <1>1, HeapInvAlways, PTL

\* kMalloc returns null only when every slot is in use.
THEOREM NullMeansFull == HeapSpec => []NullOnlyWhenFull
<1>1. HeapInv => NullOnlyWhenFull
  BY DEF HeapInv
<1> QED
  BY <1>1, HeapInvAlways, PTL

-----------------------------------------------------------------------------
(* The disk cache                                                          *)

\* The sectors of a block of the file system are on the disk.
LEMMA BlockExtent ==
  ASSUME NEW b \in Block
  PROVE  /\ SectorStart(b) \in Sector
         /\ \A i \in 0 .. SectorsPerBlock - 1 : SectorStart(b) + i \in Sector
<1> DEFINE S == SectorsPerBlock
<1>1. b \in Nat /\ Blocks \in Nat /\ b + 1 <= Blocks /\ S \in Nat \ {0}
      /\ EXT2_SECTOR_START \in Nat
  BY CacheAssumption DEF Block
<1>2. (b + 1) * S <= Blocks * S
  BY <1>1
<1>3. (b + 1) * S = b * S + S /\ b * S \in Nat /\ Blocks * S \in Nat
  BY <1>1
<1> QED
  BY <1>1, <1>2, <1>3 DEF SectorStart, Sector

\* The three ways diskReadSector chooses a line choose a line of the cache.
LEMMA ChosenLines ==
  ASSUME TypeOK
  PROVE  /\ Hits # {} => FirstOf(Hits) \in Hits
         /\ InvalidLines # {} => FirstOf(InvalidLines) \in InvalidLines
         /\ LRULine \in Line
         /\ \A k \in Line :
              CacheLineDetail[LRULine].accessTime <= CacheLineDetail[k].accessTime
<1>1. Line \subseteq Nat /\ 0 \in Line
  BY CacheAssumption DEF Line
<1>2. Hits \subseteq Line /\ InvalidLines \subseteq Line
  BY DEF Hits, InvalidLines
<1>3. Hits # {} => FirstOf(Hits) \in Hits
  BY <1>1, <1>2, FirstOfIsFirst
<1>4. InvalidLines # {} => FirstOf(InvalidLines) \in InvalidLines
  BY <1>1, <1>2, FirstOfIsFirst
<1>5. \A k \in Line : CacheLineDetail[k].accessTime \in 0 .. ClockModulus - 1
  BY DEF TypeOK, Detail
<1>6. /\ LRULine \in Line
      /\ \A k \in Line : CacheLineDetail[LRULine].accessTime <= CacheLineDetail[k].accessTime
  <2> DEFINE below == { l \in Line : CacheLineDetail[l].accessTime < ClockModulus - 1 }
             times == { CacheLineDetail[l].accessTime : l \in below }
             oldest == { l \in below : \A k \in below :
                           CacheLineDetail[l].accessTime <= CacheLineDetail[k].accessTime }
  <2>1. CASE below = {}
    <3>1. LRULine = 0
      BY <2>1 DEF LRULine
    <3>2. \A k \in Line : CacheLineDetail[k].accessTime = ClockModulus - 1
      BY <2>1, <1>5, CacheAssumption
    <3> QED
      BY <1>1, <3>1, <3>2, CacheAssumption
  <2>2. CASE below # {}
    <3>1. times \in SUBSET Nat /\ times # {}
      BY <2>2, <1>5
    <3>2. PICK t \in times : \A u \in times : t <= u
      BY <3>1, LeastExists
    <3>3. oldest # {}
      BY <3>2
    <3>4. oldest \in SUBSET Nat
      BY <1>1
    <3>5. FirstOf(oldest) \in oldest
      BY <3>3, <3>4, FirstOfIsFirst
    <3>6. LRULine \in oldest
      BY <2>2, <3>5 DEF LRULine
    <3>7. ASSUME NEW k \in Line
          PROVE  CacheLineDetail[LRULine].accessTime <= CacheLineDetail[k].accessTime
      BY <1>5, <3>6, CacheAssumption
    <3> QED
      BY <3>6, <3>7
  <2> QED
    BY <2>1, <2>2
<1> QED
  BY <1>3, <1>4, <1>6

-----------------------------------------------------------------------------
(* The invariant *)

CacheInv == TypeOK /\ Coherent /\ NoAlias

\* A transfer in progress is at a sector of the disk.
LEMMA TransferInDisk ==
  ASSUME TypeOK, transfer.kind \in {"read", "write"}
  PROVE  /\ transfer \in Transfer /\ transfer # Store!Idle
         /\ transfer.x \in 0 .. SectorsPerBlock - 1
         /\ transfer.count \in 1 .. SectorsPerBlock
         /\ transfer.first \in Sector
         /\ sectorNumber \in Sector
<1>1. transfer \in Transfer /\ transfer # Store!Idle
  BY DEF TypeOK, Store!Idle
<1>2. /\ transfer.x \in 0 .. SectorsPerBlock - 1
      /\ transfer.count \in 1 .. SectorsPerBlock
      /\ transfer.first \in Sector
      /\ transfer.x < transfer.count
      /\ transfer.first + transfer.count - 1 \in Sector
  BY <1>1 DEF TypeOK, Transfer, Store!Idle
<1> QED
  BY <1>1, <1>2, CacheAssumption DEF sectorNumber, Sector

TransferOK ==
  /\ transfer \in Transfer
  /\ transfer # Store!Idle =>
       /\ transfer.x < transfer.count
       /\ transfer.first + transfer.count - 1 \in Sector

\* The loop's step leaves a transfer that stays on the disk.
LEMMA AdvanceTransfer ==
  ASSUME TypeOK, transfer.kind \in {"read", "write"}, Store!Advance
  PROVE  TransferOK'
<1>1. CASE transfer.x + 1 = transfer.count
  BY <1>1 DEF Store!Advance, Transfer, TransferOK
<1>2. CASE transfer.x + 1 # transfer.count
  <2>1. transfer' = [transfer EXCEPT !.x = transfer.x + 1]
    BY <1>2 DEF Store!Advance
  <2>2. transfer \in Transfer /\ transfer # Store!Idle
    BY TransferInDisk
  <2>3. /\ transfer.x + 1 \in 0 .. SectorsPerBlock - 1
        /\ transfer.x + 1 < transfer.count
        /\ transfer.first + transfer.count - 1 \in Sector
    BY <1>2, <2>2, TransferInDisk, CacheAssumption DEF TypeOK
  <2>4. transfer' \in Transfer
    BY <2>1, <2>2, <2>3 DEF Transfer, Store!Idle
  <2>5. /\ transfer'.x = transfer.x + 1
        /\ transfer'.count = transfer.count
        /\ transfer'.first = transfer.first
    BY <2>1, <2>2 DEF Transfer, Store!Idle
  <2> QED
    BY <2>3, <2>4, <2>5 DEF TransferOK, Transfer
<1> QED
  BY <1>1, <1>2

\* Init establishes the invariant: the cache memory is zero.
LEMMA InitCacheInv == Init => CacheInv
<1> SUFFICES ASSUME Init PROVE CacheInv
  OBVIOUS
<1> USE CacheAssumption
<1>1. 0 \in Sector
  <2>1. Blocks * SectorsPerBlock \in Nat \ {0}
    OBVIOUS
  <2> QED
    BY <2>1 DEF Sector
<1>2. TypeOK
  BY <1>1 DEF Init, Store!Init, TypeOK, Store!Buffer, Detail, ZeroDetail, Transfer
<1>3. Coherent /\ NoAlias
  BY DEF Init, Coherent, NoAlias, ZeroDetail
<1> QED
  BY <1>2, <1>3 DEF CacheInv

\* A line loaded on a miss holds the disk's sector, and no other line has it.
LEMMA LoadLineStep ==
  ASSUME CacheInv, transfer.kind = "read", Hits = {}, NEW l \in Line, LoadLine(l)
  PROVE  CacheInv'
<1> USE CacheAssumption
<1>1. TypeOK /\ Coherent /\ NoAlias
  BY DEF CacheInv
<1>2. sectorNumber \in Sector /\ transfer.x \in 0 .. SectorsPerBlock - 1
  BY <1>1, TransferInDisk
<1>3. TransferOK'
  <2>1. Store!Advance
    BY DEF LoadLine
  <2> QED
    BY <1>1, <2>1, AdvanceTransfer
<1>4. Tick \in 0 .. ClockModulus - 1
  BY <1>1 DEF Tick, TypeOK
<1> DEFINE new == [sector |-> sectorNumber, valid |-> 1, accessTime |-> Tick]
<1>5. /\ CacheLineDetail' = [CacheLineDetail EXCEPT ![l] = new]
      /\ cacheData' = [cacheData EXCEPT ![l] = disk[sectorNumber]]
      /\ destination' = [destination EXCEPT ![transfer.x] = disk[sectorNumber]]
      /\ cacheLRUtime' = Tick
      /\ disk' = disk
  BY DEF LoadLine, CopyOut, DiskRead
<1>6. new \in Detail
  BY <1>2, <1>4 DEF Detail
<1>7. TypeOK'
  BY <1>1, <1>2, <1>3, <1>4, <1>5, <1>6 DEF TypeOK, TransferOK, Store!Buffer, Transfer
<1>8. Coherent'
  BY <1>1, <1>2, <1>5 DEF TypeOK, Coherent
<1>9. \A k \in Line : CacheLineDetail[k].valid = 1 => CacheLineDetail[k].sector # sectorNumber
  BY DEF Hits
<1>10. NoAlias'
  BY <1>1, <1>5, <1>9 DEF TypeOK, NoAlias
<1> QED
  BY <1>7, <1>8, <1>10 DEF CacheInv

\* An empty cache is coherent with any disk.
LEMMA FlushedCache ==
  ASSUME CacheLineDetail' = [l \in Line |-> ZeroDetail], cacheData' = [l \in Line |-> Zero]
  PROVE  /\ Coherent' /\ NoAlias'
         /\ CacheLineDetail' \in [Line -> Detail]
         /\ cacheData' \in [Line -> Data]
<1>1. 0 \in Sector
  <2>1. Blocks * SectorsPerBlock \in Nat \ {0}
    BY CacheAssumption
  <2> QED
    BY <2>1, CacheAssumption DEF Sector
<1> QED
  BY <1>1, CacheAssumption DEF Coherent, NoAlias, ZeroDetail, Detail

\* Every step of the block layer keeps the invariant.
LEMMA NextCacheInv == CacheInv /\ [Next]_vars => CacheInv'
<1> SUFFICES ASSUME CacheInv, [Next]_vars PROVE CacheInv'
  OBVIOUS
<1> USE CacheAssumption
<1>0. TypeOK /\ Coherent /\ NoAlias
  BY DEF CacheInv
<1>1. ASSUME NEW b \in Block, ReadBlock(b) PROVE CacheInv'
  <2>1. transfer' = [kind |-> "read", first |-> SectorStart(b), count |-> SectorsPerBlock, x |-> 0]
    BY <1>1 DEF ReadBlock, Store!Read
  <2>2. /\ SectorStart(b) \in Sector
        /\ SectorStart(b) + SectorsPerBlock - 1 \in Sector
    BY BlockExtent DEF Sector
  <2>3. TypeOK'
    BY <1>0, <1>1, <2>1, <2>2 DEF TypeOK, ReadBlock, cacheVars, Transfer, Store!Buffer
  <2>4. Coherent' /\ NoAlias'
    BY <1>0, <1>1 DEF ReadBlock, cacheVars, Coherent, NoAlias
  <2> QED
    BY <2>3, <2>4 DEF CacheInv
<1>2. ASSUME NEW b \in Block, NEW source \in Store!Buffer, WriteBlock(b, source)
      PROVE  CacheInv'
  <2>1. transfer' = [kind |-> "write", first |-> SectorStart(b), count |-> SectorsPerBlock,
                     x |-> 0, source |-> source]
    BY <1>2 DEF WriteBlock, Store!Write
  <2>2. /\ SectorStart(b) \in Sector
        /\ SectorStart(b) + SectorsPerBlock - 1 \in Sector
    BY BlockExtent DEF Sector
  <2>3. transfer' \in Transfer
    BY <2>1, <2>2 DEF Transfer
  <2>4. TypeOK'
    BY <1>0, <1>2, <2>1, <2>2, <2>3 DEF TypeOK, WriteBlock, cacheVars, Store!Buffer
  <2>5. Coherent' /\ NoAlias'
    BY <1>0, <1>2 DEF WriteBlock, cacheVars, Coherent, NoAlias
  <2> QED
    BY <2>4, <2>5 DEF CacheInv
<1>3. ASSUME NEW s \in Sector, ReadOneSector(s) PROVE CacheInv'
  <2>1. transfer' = [kind |-> "read", first |-> s, count |-> 1, x |-> 0]
    BY <1>3 DEF ReadOneSector, Store!Read
  <2>2. s + 1 - 1 \in Sector
    BY DEF Sector
  <2>3. TypeOK'
    BY <1>0, <1>3, <2>1, <2>2 DEF TypeOK, ReadOneSector, cacheVars, Transfer, Store!Buffer
  <2>4. Coherent' /\ NoAlias'
    BY <1>0, <1>3 DEF ReadOneSector, cacheVars, Coherent, NoAlias
  <2> QED
    BY <2>3, <2>4 DEF CacheInv
<1>4. CASE CacheHit
  <2> DEFINE l == FirstOf(Hits)
  <2>1. l \in Line
    BY <1>0, <1>4, ChosenLines DEF CacheHit, Hits
  <2>2. Tick \in 0 .. ClockModulus - 1
    BY <1>0 DEF Tick, TypeOK
  <2>3. /\ transfer.x \in 0 .. SectorsPerBlock - 1
        /\ TransferOK'
    <3>1. Store!Advance /\ transfer.kind \in {"read", "write"}
      BY <1>4 DEF CacheHit
    <3> QED
      BY <1>0, <3>1, TransferInDisk, AdvanceTransfer
  <2>4. /\ CacheLineDetail' = [CacheLineDetail EXCEPT ![l].accessTime = Tick]
        /\ destination' = [destination EXCEPT ![transfer.x] = cacheData[l]]
        /\ cacheLRUtime' = Tick /\ disk' = disk /\ cacheData' = cacheData
    BY <1>4 DEF CacheHit, CopyOut
  <2> HIDE DEF l
  <2>5. CacheLineDetail' \in [Line -> Detail]
    BY <1>0, <2>1, <2>2, <2>4 DEF TypeOK, Detail
  <2>6. \A k \in Line : /\ CacheLineDetail'[k].valid = CacheLineDetail[k].valid
                        /\ CacheLineDetail'[k].sector = CacheLineDetail[k].sector
    BY <1>0, <2>1, <2>4 DEF TypeOK, Detail
  <2>7. TypeOK'
    BY <1>0, <2>1, <2>2, <2>3, <2>4, <2>5 DEF TypeOK, TransferOK, Store!Buffer, Transfer
  <2>8. Coherent' /\ NoAlias'
    BY <1>0, <2>4, <2>6 DEF Coherent, NoAlias
  <2> QED
    BY <2>7, <2>8 DEF CacheInv
<1>5. CASE CacheFill
  <2>1. FirstOf(InvalidLines) \in Line
    BY <1>0, <1>5, ChosenLines DEF CacheFill, InvalidLines
  <2> QED
    BY <1>5, <2>1, LoadLineStep DEF CacheFill
<1>6. CASE CacheEvict
  <2>1. LRULine \in Line
    BY <1>0, ChosenLines
  <2> QED
    BY <1>6, <2>1, LoadLineStep DEF CacheEvict
<1>7. CASE diskWriteSector
  <2>1. /\ transfer.x \in 0 .. SectorsPerBlock - 1
        /\ sectorNumber \in Sector
        /\ TransferOK'
    <3>1. Store!Advance /\ transfer.kind \in {"read", "write"}
      BY <1>7 DEF diskWriteSector
    <3> QED
      BY <1>0, <3>1, TransferInDisk, AdvanceTransfer
  <2>2. transfer.source \in Store!Buffer
    BY <1>0, <1>7 DEF diskWriteSector, TypeOK, Transfer, Store!Idle
  <2>3. disk' \in [Sector -> Data]
    BY <1>0, <1>7, <2>1, <2>2 DEF diskWriteSector, DiskWrite, TypeOK, Store!Buffer
  <2>4. /\ Coherent' /\ NoAlias'
        /\ CacheLineDetail' \in [Line -> Detail]
        /\ cacheData' \in [Line -> Data]
    BY <1>7, FlushedCache DEF diskWriteSector, FlushCache
  <2> QED
    BY <1>0, <1>7, <2>1, <2>3, <2>4 DEF CacheInv, TypeOK, TransferOK, diskWriteSector, Store!Buffer, Transfer
<1>8. CASE PowerLoss
  <2>1. /\ Coherent' /\ NoAlias'
        /\ CacheLineDetail' \in [Line -> Detail]
        /\ cacheData' \in [Line -> Data]
    BY <1>8, FlushedCache DEF PowerLoss
  <2> QED
    BY <1>0, <1>8, <2>1 DEF CacheInv, TypeOK, PowerLoss, Store!Buffer, Transfer
<1>9. CASE UNCHANGED vars
  BY <1>0, <1>9 DEF CacheInv, TypeOK, Coherent, NoAlias, vars, Store!Buffer, Transfer
<1> QED
  BY <1>1, <1>2, <1>3, <1>4, <1>5, <1>6, <1>7, <1>8, <1>9 DEF Next

\* diskReadSector and diskWriteSector keep the cache well formed: whatever
\* the size of the cache, of the blocks and of the disk.
THEOREM TypeCorrect == Spec => []TypeOK
<1>1. CacheInv => TypeOK
  BY DEF CacheInv
<1> QED
  BY <1>1, InitCacheInv, NextCacheInv, PTL DEF Spec

\* A valid line always holds what the disk holds for its sector.
THEOREM CacheCoherent == Spec => []Coherent
<1>1. CacheInv => Coherent
  BY DEF CacheInv
<1> QED
  BY <1>1, InitCacheInv, NextCacheInv, PTL DEF Spec

\* No sector is ever in two lines.
THEOREM CacheHasNoAlias == Spec => []NoAlias
<1>1. CacheInv => NoAlias
  BY DEF CacheInv
<1> QED
  BY <1>1, InitCacheInv, NextCacheInv, PTL DEF Spec

-----------------------------------------------------------------------------
(* Refinement *)

\* Starting a readBlock, a writeBlock or a sector read is a Begin of the
\* abstract store: the extent it covers is on the disk.
LEMMA BeginRefines ==
  ASSUME NEW first \in Sector, NEW count \in 1 .. SectorsPerBlock,
         \A i \in 0 .. count - 1 : first + i \in Sector,
         transfer = Store!Idle, UNCHANGED <<disk, destination>>,
         \/ transfer' = Store!Read(first, count)
         \/ \E source \in Store!Buffer : transfer' = Store!Write(first, count, source)
  PROVE  Store!Begin
<1>1. <<first, count>> \in Store!Extent
  BY DEF Store!Extent
<1> QED
  BY <1>1 DEF Store!Begin

\* Every step of the block layer is a step of the store or leaves it alone.
LEMMA StepRefines ==
  CacheInv /\ [Next]_vars => [Store!Next]_Store!storeVars
<1> SUFFICES ASSUME CacheInv, [Next]_vars
             PROVE  [Store!Next]_Store!storeVars
  OBVIOUS
<1> USE CacheAssumption
<1>0. TypeOK /\ Coherent
  BY DEF CacheInv
<1>1. ASSUME NEW b \in Block, ReadBlock(b) PROVE Store!Next
  <2>1. Store!Begin
    BY <1>1, BlockExtent, BeginRefines DEF ReadBlock
  <2> QED
    BY <2>1 DEF Store!Next
<1>2. ASSUME NEW b \in Block, NEW source \in Store!Buffer, WriteBlock(b, source)
      PROVE  Store!Next
  <2>1. Store!Begin
    BY <1>2, BlockExtent, BeginRefines DEF WriteBlock
  <2> QED
    BY <2>1 DEF Store!Next
<1>3. ASSUME NEW s \in Sector, ReadOneSector(s) PROVE Store!Next
  <2>1. \A i \in 0 .. 1 - 1 : s + i \in Sector
    BY DEF Sector
  <2>2. Store!Begin
    BY <1>3, <2>1, BeginRefines DEF ReadOneSector
  <2> QED
    BY <2>2 DEF Store!Next
<1>4. CASE CacheHit
  <2>1. FirstOf(Hits) \in Hits
    BY <1>0, <1>4, ChosenLines DEF CacheHit
  <2>2. cacheData[FirstOf(Hits)] = disk[sectorNumber]
    BY <1>0, <2>1 DEF Hits, Coherent
  <2>3. Store!ReadSector
    BY <1>4, <2>2 DEF CacheHit, CopyOut, Store!ReadSector, sectorNumber
  <2> QED
    BY <2>3 DEF Store!Next
<1>5. ASSUME NEW l \in Line, transfer.kind = "read", LoadLine(l)
      PROVE  Store!Next
  <2>1. Store!ReadSector
    BY <1>5 DEF LoadLine, CopyOut, DiskRead, Store!ReadSector, sectorNumber
  <2> QED
    BY <2>1 DEF Store!Next
<1>6. CASE CacheFill
  <2>1. FirstOf(InvalidLines) \in Line
    BY <1>0, <1>6, ChosenLines DEF CacheFill, InvalidLines
  <2> QED
    BY <1>5, <1>6, <2>1 DEF CacheFill
<1>7. CASE CacheEvict
  <2>1. LRULine \in Line
    BY <1>0, ChosenLines
  <2> QED
    BY <1>5, <1>7, <2>1 DEF CacheEvict
<1>8. CASE diskWriteSector
  <2>1. Store!WriteSector
    BY <1>8 DEF diskWriteSector, DiskWrite, Store!WriteSector, sectorNumber
  <2> QED
    BY <2>1 DEF Store!Next
<1>9. CASE PowerLoss
  BY <1>9 DEF PowerLoss, Store!PowerLoss, Store!Next
<1>10. CASE UNCHANGED vars
  BY <1>10 DEF vars, Store!storeVars
<1> QED
  BY <1>1, <1>2, <1>3, <1>4, <1>6, <1>7, <1>8, <1>9, <1>10 DEF Next

\* With the cache hidden, readBlock, writeBlock and diskReadSector are the
\* plain sector store, whatever hits, evictions, flushes and power losses.
THEOREM Refinement == Spec => ImplementsSectorStore
<1>1. Init => Store!Init
  BY DEF Init
<1> QED
  BY <1>1, StepRefines, InitCacheInv, NextCacheInv, PTL
     DEF Spec, ImplementsSectorStore, Store!Spec

-----------------------------------------------------------------------------
(* The least recently used line *)

\* Line l was last used before line k, by the clock and by the history.
Before(l, k) ==
  /\ CacheLineDetail[l].accessTime < CacheLineDetail[k].accessTime
  /\ <<CacheLineDetail[l].sector, CacheLineDetail[k].sector>> \in usedBefore

\* Until the clock wraps no line has a time ahead of it, and the times of the
\* lines are in the order of their last uses, no two of them equal.
TimesInOrder ==
  ~clockWrapped =>
    /\ \A l \in ValidLines : CacheLineDetail[l].accessTime <= cacheLRUtime
    /\ \A l, k \in ValidLines : l # k => Before(l, k) \/ Before(k, l)

HistoryInv == CacheInv /\ TimesInOrder

\* A history of the cache is a history of the block layer.
LEMMA HistoryIsSpec ==
  /\ HistoryInit => Init
  /\ [HistoryNext]_historyVars => [Next]_vars
BY DEF HistoryInit, HistoryNext, historyVars, Next

\* A use of a line, at a hit or after a miss, makes it the last in both orders.
LEMMA UseKeepsOrder ==
  ASSUME HistoryInv, CacheInv', NEW l \in Line, Used(sectorNumber),
         CacheLineDetail'[l].valid = 1, CacheLineDetail'[l].sector = sectorNumber,
         CacheLineDetail'[l].accessTime = Tick, cacheLRUtime' = Tick,
         \A k \in Line \ {l} : CacheLineDetail'[k] = CacheLineDetail[k]
  PROVE  TimesInOrder'
<1> SUFFICES ASSUME ~clockWrapped'
             PROVE  /\ \A k \in ValidLines' : CacheLineDetail'[k].accessTime <= cacheLRUtime'
                    /\ \A j, k \in ValidLines' : j # k => Before(j, k)' \/ Before(k, j)'
  BY DEF TimesInOrder
<1>1. /\ \A k \in ValidLines : CacheLineDetail[k].accessTime <= cacheLRUtime
      /\ \A j, k \in ValidLines : j # k => Before(j, k) \/ Before(k, j)
  BY DEF HistoryInv, TimesInOrder, Used
<1>2. Tick = cacheLRUtime + 1 /\ cacheLRUtime \in Nat
  <2>1. Tick # 0
    BY DEF Used
  <2>2. cacheLRUtime \in 0 .. ClockModulus - 1
    BY DEF HistoryInv, CacheInv, TypeOK
  <2> QED
    BY <2>1, <2>2, CacheAssumption DEF Tick
<1>3. \A k \in Line : CacheLineDetail[k].accessTime \in Nat
  BY DEF HistoryInv, CacheInv, TypeOK, Detail
<1> DEFINE others == Cached' \ {sectorNumber}
<1>4. usedBefore' = (usedBefore \cap (others \X others)) \cup (others \X {sectorNumber})
  BY DEF Used
<1>5. ASSUME NEW k \in ValidLines', k # l
      PROVE  /\ k \in ValidLines /\ CacheLineDetail'[k] = CacheLineDetail[k]
             /\ CacheLineDetail'[k].sector \in others
             /\ CacheLineDetail'[k].accessTime < Tick
  <2>1. k \in Line /\ CacheLineDetail'[k].valid = 1 /\ CacheLineDetail'[k] = CacheLineDetail[k]
    BY <1>5 DEF ValidLines
  <2>2. CacheLineDetail'[k].sector # sectorNumber
    BY <1>5, <2>1 DEF CacheInv, NoAlias
  <2>3. k \in ValidLines
    BY <2>1 DEF ValidLines
  <2>4. CacheLineDetail'[k].sector \in Cached'
    BY DEF Cached
  <2>5. CacheLineDetail[k].accessTime < Tick
    BY <1>1, <1>2, <1>3, <2>1, <2>3
  <2> QED
    BY <2>1, <2>2, <2>3, <2>4, <2>5
<1>6. ASSUME NEW k \in ValidLines'
      PROVE  CacheLineDetail'[k].accessTime <= cacheLRUtime'
  <2>1. CASE k = l
    BY <1>2, <2>1
  <2>2. CASE k # l
    BY <1>2, <1>3, <1>5, <2>2 DEF ValidLines
  <2> QED
    BY <2>1, <2>2
<1>7. ASSUME NEW k \in ValidLines', k # l
      PROVE  Before(k, l)'
  BY <1>4, <1>5, <1>7 DEF Before
<1>8. ASSUME NEW j \in ValidLines', NEW k \in ValidLines', j # l, k # l, Before(j, k)
      PROVE  Before(j, k)'
  <2>1. /\ CacheLineDetail'[j] = CacheLineDetail[j] /\ CacheLineDetail'[j].sector \in others
        /\ CacheLineDetail'[k] = CacheLineDetail[k] /\ CacheLineDetail'[k].sector \in others
    BY <1>5, <1>8
  <2> QED
    BY <1>4, <1>8, <2>1 DEF Before
<1>9. ASSUME NEW j \in ValidLines', NEW k \in ValidLines', j # k
      PROVE  Before(j, k)' \/ Before(k, j)'
  <2>1. CASE j = l \/ k = l
    BY <1>7, <1>9, <2>1
  <2>2. CASE j # l /\ k # l
    <3>1. Before(j, k) \/ Before(k, j)
      BY <1>1, <1>5, <1>9, <2>2
    <3> QED
      BY <1>8, <2>2, <3>1
  <2> QED
    BY <2>1, <2>2
<1> QED
  BY <1>6, <1>9

\* Every step keeps the two orders the same.
LEMMA NextHistoryInv == HistoryInv /\ [HistoryNext]_historyVars => HistoryInv'
<1> SUFFICES ASSUME HistoryInv, [HistoryNext]_historyVars
             PROVE  HistoryInv'
  OBVIOUS
<1>1. CacheInv /\ CacheInv'
  BY HistoryIsSpec, NextCacheInv DEF HistoryInv
<1>2. CacheLineDetail \in [Line -> Detail] /\ TypeOK
  BY <1>1 DEF CacheInv, TypeOK
<1>3. CASE CacheHit /\ Used(sectorNumber)
  <2>1. FirstOf(Hits) \in Hits
    BY <1>2, <1>3, ChosenLines DEF CacheHit
  <2>2. PICK l \in Line : l = FirstOf(Hits) /\ l \in Hits
    BY <2>1 DEF Hits
  <2>3. /\ CacheLineDetail' = [CacheLineDetail EXCEPT ![l].accessTime = Tick]
        /\ cacheLRUtime' = Tick
    BY <1>3, <2>2 DEF CacheHit
  <2>4. CacheLineDetail[l].valid = 1 /\ CacheLineDetail[l].sector = sectorNumber
    BY <2>2 DEF Hits
  <2>5. /\ CacheLineDetail'[l].valid = 1 /\ CacheLineDetail'[l].sector = sectorNumber
        /\ CacheLineDetail'[l].accessTime = Tick
        /\ \A k \in Line \ {l} : CacheLineDetail'[k] = CacheLineDetail[k]
    BY <1>2, <2>3, <2>4 DEF Detail
  <2> QED
    BY <1>1, <1>3, <2>3, <2>5, UseKeepsOrder DEF HistoryInv
<1>4. ASSUME NEW l \in Line, LoadLine(l), Used(sectorNumber)
      PROVE  HistoryInv'
  <2>1. /\ CacheLineDetail' = [CacheLineDetail EXCEPT
             ![l] = [sector |-> sectorNumber, valid |-> 1, accessTime |-> Tick]]
        /\ cacheLRUtime' = Tick
    BY <1>4 DEF LoadLine
  <2>2. /\ CacheLineDetail'[l].valid = 1 /\ CacheLineDetail'[l].sector = sectorNumber
        /\ CacheLineDetail'[l].accessTime = Tick
        /\ \A k \in Line \ {l} : CacheLineDetail'[k] = CacheLineDetail[k]
    BY <1>2, <2>1
  <2> QED
    BY <1>1, <1>4, <2>1, <2>2, UseKeepsOrder DEF HistoryInv
<1>5. CASE (CacheFill \/ CacheEvict) /\ Used(sectorNumber)
  <2>1. InvalidLines # {} => FirstOf(InvalidLines) \in Line
    BY <1>2, ChosenLines DEF InvalidLines
  <2>2. LRULine \in Line
    BY <1>2, ChosenLines
  <2> QED
    BY <1>4, <1>5, <2>1, <2>2 DEF CacheFill, CacheEvict
<1>6. CASE diskWriteSector \/ PowerLoss
  <2>1. CacheLineDetail' = [l \in Line |-> ZeroDetail]
    BY <1>6 DEF diskWriteSector, FlushCache, PowerLoss
  <2>2. ValidLines' = {}
    BY <2>1 DEF ValidLines, ZeroDetail
  <2> QED
    BY <1>1, <2>2 DEF HistoryInv, TimesInOrder
<1>7. CASE UNCHANGED <<CacheLineDetail, cacheLRUtime, usedBefore, clockWrapped>>
  BY <1>1, <1>7 DEF HistoryInv, TimesInOrder, ValidLines, Before
<1> QED
  BY <1>3, <1>5, <1>6, <1>7
     DEF HistoryNext, historyVars, vars, cacheVars, ReadBlock, WriteBlock, ReadOneSector

\* The line that a step gives to another sector is the one LRULine chose.
LEMMA EvictedIsOldest ==
  ASSUME HistoryInv, [HistoryNext]_historyVars, NEW l \in Line,
         CacheLineDetail[l].valid = 1, CacheLineDetail'[l].valid = 1,
         CacheLineDetail'[l].sector # CacheLineDetail[l].sector
  PROVE  l = LRULine /\ InvalidLines = {}
<1>1. CacheLineDetail \in [Line -> Detail] /\ TypeOK
  BY DEF HistoryInv, CacheInv, TypeOK
<1>2. CASE CacheHit
  <2>1. CacheLineDetail' = [CacheLineDetail EXCEPT ![FirstOf(Hits)].accessTime = Tick]
    BY <1>2 DEF CacheHit
  <2> QED
    BY <1>1, <2>1 DEF Detail
<1>3. CASE CacheFill
  <2>1. FirstOf(InvalidLines) \in InvalidLines
    BY <1>1, <1>3, ChosenLines DEF CacheFill
  <2>2. FirstOf(InvalidLines) # l
    BY <2>1 DEF InvalidLines
  <2> QED
    BY <1>1, <1>3, <2>2 DEF CacheFill, LoadLine
<1>4. CASE CacheEvict
  BY <1>1, <1>4 DEF CacheEvict, LoadLine
<1>5. CASE diskWriteSector \/ PowerLoss
  BY <1>5 DEF diskWriteSector, FlushCache, PowerLoss, ZeroDetail
<1>6. CASE UNCHANGED CacheLineDetail
  BY <1>6
<1> QED
  BY <1>2, <1>3, <1>4, <1>5, <1>6
     DEF HistoryNext, historyVars, vars, cacheVars, ReadBlock, WriteBlock, ReadOneSector

\* Whatever hits, fills, flushes and power losses came before, the line that a miss
\* reuses is the one whose sector was last asked for before those of all other
\* lines, as long as the clock has not wrapped since the cache was emptied: the
\* access times are enough to find it, in a cache of any size (fs.cpp:49-80).
THEOREM EvictionIsLRU == HistorySpec => EvictsLeastRecentlyUsed
<1>1. HistoryInit => HistoryInv
  BY HistoryIsSpec, InitCacheInv DEF HistoryInit, HistoryInv, TimesInOrder, ValidLines, Init, ZeroDetail
<1>2. HistoryInv /\ [HistoryNext]_historyVars =>
        [\A l \in Line :
           /\ ~clockWrapped
           /\ CacheLineDetail[l].valid = 1
           /\ CacheLineDetail'[l].valid = 1
           /\ CacheLineDetail'[l].sector # CacheLineDetail[l].sector
           => \A k \in Line \ {l} :
                <<CacheLineDetail[l].sector, CacheLineDetail[k].sector>> \in usedBefore
        ]_historyVars
  <2> SUFFICES ASSUME HistoryInv, [HistoryNext]_historyVars, NEW l \in Line, ~clockWrapped,
                      CacheLineDetail[l].valid = 1, CacheLineDetail'[l].valid = 1,
                      CacheLineDetail'[l].sector # CacheLineDetail[l].sector,
                      NEW k \in Line \ {l}
               PROVE  <<CacheLineDetail[l].sector, CacheLineDetail[k].sector>> \in usedBefore
    OBVIOUS
  <2>1. l = LRULine /\ InvalidLines = {}
    BY EvictedIsOldest
  <2>2. TypeOK /\ CacheLineDetail \in [Line -> Detail]
    BY DEF HistoryInv, CacheInv, TypeOK
  <2>3. l \in ValidLines /\ k \in ValidLines
    BY <2>1, <2>2 DEF ValidLines, InvalidLines, Detail
  <2>4. CacheLineDetail[l].accessTime <= CacheLineDetail[k].accessTime
    BY <2>1, <2>2, ChosenLines
  <2>5. CacheLineDetail[l].accessTime \in Int /\ CacheLineDetail[k].accessTime \in Int
    BY <2>2 DEF Detail
  <2>6. Before(l, k) \/ Before(k, l)
    BY <2>3 DEF HistoryInv, TimesInOrder
  <2> QED
    BY <2>4, <2>5, <2>6 DEF Before
<1> QED
  BY <1>1, <1>2, NextHistoryInv, PTL DEF HistorySpec, EvictsLeastRecentlyUsed

-----------------------------------------------------------------------------
(* Round the ring *)

\* A remainder of a sum that is less than twice the modulus.
LEMMA Remainder ==
  ASSUME NEW n \in Nat \ {0}, NEW a \in 0 .. 2 * n - 1
  PROVE  a % n = IF a < n THEN a ELSE a - n
OBVIOUS

\* The ring has at least two pages.
LEMMA PagesIsNat == Pages \in Nat /\ Pages >= 2 /\ PSTOP = PSTART + Pages /\ PSTART \in Nat \ {0}
BY NetAssumption DEF Pages

\* Behind wraps at most once.
LEMMA BehindIs ==
  ASSUME NEW p \in Page, NEW i \in 0 .. Pages
  PROVE  /\ Behind(p, i) = IF p + i < PSTOP THEN p + i ELSE p + i - Pages
         /\ Behind(p, i) \in Page
<1>1. p - PSTART + i \in 0 .. 2 * Pages - 1
  BY PagesIsNat DEF Page
<1>2. (p - PSTART + i) % Pages =
        IF p - PSTART + i < Pages THEN p - PSTART + i ELSE p - PSTART + i - Pages
  <2> DEFINE a == p - PSTART + i
  <2>1. a \in 0 .. 2 * Pages - 1 /\ Pages \in Nat \ {0}
    BY <1>1, PagesIsNat
  <2> HIDE DEF a
  <2>2. a % Pages = IF a < Pages THEN a ELSE a - Pages
    BY <2>1, Remainder
  <2> QED
    BY <1>1, <2>2, PagesIsNat DEF a, Page
<1>3. p \in PSTART .. PSTOP - 1
  BY DEF Page
<1>4. Behind(p, i) = IF p + i < PSTOP THEN p + i ELSE p + i - Pages
  BY <1>2, <1>3, PagesIsNat DEF Behind
<1> QED
  BY <1>3, <1>4, PagesIsNat DEF Page

\* A distance wraps when it goes past the end of the ring.
LEMMA DistanceIs ==
  ASSUME NEW p \in Page, NEW q \in Page
  PROVE  Distance(p, q) = IF p <= q THEN q - p ELSE q - p + Pages
<1>1. q - p + Pages \in 0 .. 2 * Pages - 1 /\ p \in Nat /\ q \in Nat
  BY PagesIsNat DEF Page
<1>2. (q - p + Pages) % Pages = IF q - p + Pages < Pages THEN q - p + Pages ELSE q - p + Pages - Pages
  <2> DEFINE a == q - p + Pages
  <2>1. a \in 0 .. 2 * Pages - 1 /\ Pages \in Nat \ {0}
    BY <1>1, PagesIsNat
  <2> HIDE DEF a
  <2>2. a % Pages = IF a < Pages THEN a ELSE a - Pages
    BY <2>1, Remainder
  <2> QED
    BY <1>1, <2>2, PagesIsNat DEF a, Page
<1> QED
  BY <1>1, <1>2, PagesIsNat DEF Distance

\* Steps round the ring add up, and two of less than a round that end on the
\* same page are the same.
LEMMA BehindAdds ==
  ASSUME NEW p \in Page, NEW a \in 0 .. Pages - 1, NEW b \in 0 .. Pages - 1
  PROVE  /\ a + b < Pages => Behind(Behind(p, a), b) = Behind(p, a + b)
         /\ Behind(p, a) = Behind(p, b) => a = b
         /\ Behind(p, 0) = p
         /\ Distance(Behind(p, a), Behind(p, b)) = IF a <= b THEN b - a ELSE b - a + Pages
<1> DEFINE q == Behind(p, a)
           r == Behind(p, b)
<1>1. /\ p \in PSTART .. PSTOP - 1 /\ a \in 0 .. Pages /\ b \in 0 .. Pages
      /\ p \in Nat /\ a \in Nat /\ b \in Nat
  BY PagesIsNat DEF Page
<1>2. q = (IF p + a < PSTOP THEN p + a ELSE p + a - Pages) /\ q \in Page
  BY <1>1, BehindIs
<1>3. r = (IF p + b < PSTOP THEN p + b ELSE p + b - Pages) /\ r \in Page
  BY <1>1, BehindIs
<1>4. Distance(q, r) = IF q <= r THEN r - q ELSE r - q + Pages
  <2> HIDE DEF q, r
  <2> QED
    BY <1>2, <1>3, DistanceIs
<1>5. Behind(q, b) = IF q + b < PSTOP THEN q + b ELSE q + b - Pages
  <2> HIDE DEF q
  <2> QED
    BY <1>1, <1>2, BehindIs
<1>6. Behind(p, 0) = p
  <2>1. Behind(p, 0) = IF p + 0 < PSTOP THEN p + 0 ELSE p + 0 - Pages
    BY PagesIsNat, BehindIs
  <2> QED
    BY <1>1, <2>1, PagesIsNat
<1>7. ASSUME a + b < Pages
      PROVE  Behind(p, a + b) = IF p + (a + b) < PSTOP THEN p + (a + b) ELSE p + (a + b) - Pages
  <2>1. a + b \in 0 .. Pages
    BY <1>1, <1>7, PagesIsNat
  <2> QED
    BY <2>1, BehindIs
<1>8. a < Pages /\ b < Pages
  BY PagesIsNat
<1> HIDE DEF q, r
<1>9. a + b < Pages => Behind(q, b) = Behind(p, a + b)
  BY <1>1, <1>2, <1>5, <1>7, <1>8, PagesIsNat
<1>10. q = r => a = b
  BY <1>1, <1>2, <1>3, <1>8, PagesIsNat
<1>11. Distance(q, r) = IF a <= b THEN b - a ELSE b - a + Pages
  BY <1>1, <1>2, <1>3, <1>4, <1>8, PagesIsNat
<1> QED
  BY <1>6, <1>9, <1>10, <1>11 DEF q, r

-----------------------------------------------------------------------------
(* The inductive invariant *)

Id == 0 .. Ids - 1

Packet == [id : Id, kind : Kind, size : 1 .. MaxPages, page : Page]

\* What page q of a packet holds.
Part(packet, q, nextPage) ==
  [id |-> packet.id, kind |-> packet.kind, part |-> q + 1, size |-> packet.size,
   nextPage |-> nextPage]

\* The packets lie one behind the other from page first to page current, f[i] pages
\* in front of the last of the first i; one page always stays free.
Laid(f, first, current, packets, memory) ==
  /\ f \in [0 .. Len(packets) -> Nat] /\ f[0] = 0
  /\ \A i \in 1 .. Len(packets) : f[i] = f[i - 1] + packets[i].size
  /\ \A i, j \in 0 .. Len(packets) : i <= j => f[i] <= f[j]
  /\ f[Len(packets)] <= Pages - 2
  /\ current = Behind(first, f[Len(packets)])
  /\ \A i \in 1 .. Len(packets) :
       /\ packets[i].page = Behind(first, f[i - 1])
       /\ \A q \in 0 .. packets[i].size - 1 :
            memory[Behind(first, f[i - 1] + q)] = Part(packets[i], q, Behind(first, f[i]))

\* g[k] are the UDP packets of a sequence and of the first k packets behind them.
Collects(g, m, packets) ==
  /\ g \in [0 .. m -> Seq(Id)]
  /\ \A k \in 1 .. m : g[k] = IF packets[k].kind = "udp"
                             THEN Append(g[k - 1], packets[k].id) ELSE g[k - 1]

\* What the queue holds of the UDP packets that were taken.
Kept(ids) == SubSeq(ids, 1, Min({Len(ids), MAX_QUEUED_PACKETS}))

\* The first m packets are those the call still has to take.
Delivering(m) ==
  \E g : /\ Collects(g, m, pending)
         /\ expected = g[m]
         /\ payloadQueue = Kept(g[0])

InLoop == pc \in {"loop", "data", "release"}

\* Where a call stands.
Calling(f, m) ==
  /\ currentPage = Behind(Following(BOUND), f[m])
  /\ Delivering(m)
  /\ pc \in {"data", "release"} =>
       m >= 1 /\ header = Part(pending[1], 0, Behind(Following(BOUND), f[1]))
  /\ pc = "release" =>
       frame = [i \in 1 .. header.size |->
                  Part(pending[1], i - 1, Behind(Following(BOUND), f[1]))]

Types ==
  /\ CURR \in Page /\ BOUND \in PSTART - 1 .. PSTOP - 1
  /\ pc \in {"idle", "current", "loop", "data", "release"}
  /\ arrived \in Id
  /\ pending \in Seq(Packet)
  /\ pc # "idle" => receivePage = Following(BOUND)
  /\ pc \in {"idle", "current"} => payloadQueue = <<>>
  /\ pc = "idle" => payload = Kept(expected)

RingInv ==
  \E f : /\ Laid(f, Following(BOUND), CURR, pending, ring)
         /\ InLoop => \E m \in 0 .. Len(pending) : Calling(f, m)

NetInv == Types /\ RingInv

-----------------------------------------------------------------------------
(* The card *)

\* The page behind a boundary is one of the ring.
LEMMA FollowingIsPage ==
  ASSUME NEW boundary \in PSTART - 1 .. PSTOP - 1
  PROVE  Following(boundary) \in Page
BY NetAssumption DEF Following, Page

\* The free pages are all but those in use and one.
LEMMA FreePagesAre ==
  ASSUME Types, NEW used \in 0 .. Pages - 2, CURR = Behind(Following(BOUND), used)
  PROVE  FreePages = Pages - 1 - used
<1>1. Following(BOUND) \in Page
  BY FollowingIsPage DEF Types
<1>2. used \in 0 .. Pages /\ used \in Nat
  BY PagesIsNat
<1>3. CURR = IF Following(BOUND) + used < PSTOP THEN Following(BOUND) + used
             ELSE Following(BOUND) + used - Pages
  BY <1>1, <1>2, BehindIs
<1>4. BOUND \in PSTART - 1 .. PSTOP - 1
  BY DEF Types
<1> QED
  BY <1>2, <1>3, <1>4, PagesIsNat DEF Following, FreePages

\* An arrival keeps the packets that lie in the ring and adds one behind them.
LEMMA ArrivalIsLaid ==
  ASSUME Types, NEW f, Laid(f, Following(BOUND), CURR, pending, ring),
         NEW size \in 1 .. MaxPages, NEW kind \in Kind, Arrives(size, kind)
  PROVE  \E g : /\ Laid(g, Following(BOUND), CURR', pending', ring')
                /\ \A m \in 0 .. Len(pending) : g[m] = f[m]
<1> DEFINE n == Len(pending)
           first == Following(BOUND)
           new == [id |-> arrived, kind |-> kind, size |-> size, page |-> CURR]
           g == [j \in 0 .. n + 1 |-> IF j <= n THEN f[j] ELSE f[n] + size]
<1>1. /\ n \in Nat /\ f \in [0 .. n -> Nat] /\ f[0] = 0 /\ f[n] <= Pages - 2
      /\ \A i \in 1 .. n : f[i] = f[i - 1] + pending[i].size
      /\ \A i, j \in 0 .. n : i <= j => f[i] <= f[j]
      /\ CURR = Behind(first, f[n])
  BY DEF Types, Laid
<1>2. \A i \in 1 .. n :
        /\ pending[i].page = Behind(first, f[i - 1])
        /\ \A q \in 0 .. pending[i].size - 1 :
             ring[Behind(first, f[i - 1] + q)] = Part(pending[i], q, Behind(first, f[i]))
  BY DEF Laid
<1>3. first \in Page
  BY FollowingIsPage DEF Types
<1>4. f[n] \in Nat /\ f[n] \in 0 .. Pages - 2 /\ size \in Nat /\ size >= 1
  BY <1>1, NetAssumption
<1>5. FreePages = Pages - 1 - f[n]
  BY <1>1, <1>4, FreePagesAre
<1>6. /\ size < FreePages
      /\ ring' = [p \in Page |->
           IF Distance(CURR, p) < size
           THEN [id |-> arrived, kind |-> kind, part |-> Distance(CURR, p) + 1,
                 size |-> size, nextPage |-> Behind(CURR, size)]
           ELSE IF Unused(p) THEN NoContent ELSE ring[p]]
      /\ CURR' = Behind(CURR, size)
      /\ pending' = Append(pending, new)
  BY DEF Arrives
<1>7. f[n] + size <= Pages - 2
  BY <1>4, <1>5, <1>6, PagesIsNat
<1>8. /\ Len(pending') = n + 1 /\ pending'[n + 1] = new
      /\ \A i \in 1 .. n : pending'[i] = pending[i]
  <2>1. pending \in Seq(Packet)
    BY DEF Types
  <2> HIDE DEF new
  <2> QED
    BY <1>6, <2>1
<1>9. new.id = arrived /\ new.kind = kind /\ new.size = size /\ new.page = CURR
  OBVIOUS
<1>10. \A i \in 1 .. n : pending[i].size \in Nat
  <2> TAKE i \in 1 .. n
  <2>1. pending[i] \in Packet
    BY DEF Types
  <2> QED
    BY <2>1, NetAssumption DEF Packet
<1> HIDE DEF n, first, new
<1>11. /\ g \in [0 .. n + 1 -> Nat] /\ g[n + 1] = f[n] + size
       /\ \A m \in 0 .. n : g[m] = f[m]
  BY <1>1, <1>4
<1> HIDE DEF g
<1>12. g[0] = 0 /\ \A i \in 1 .. n + 1 : g[i] = g[i - 1] + pending'[i].size
  <2>1. ASSUME NEW i \in 1 .. n
        PROVE  g[i] = g[i - 1] + pending'[i].size
    <3>1. i \in 0 .. n /\ i - 1 \in 0 .. n
      BY <1>1
    <3> QED
      BY <1>1, <1>8, <1>11, <3>1
  <2>2. g[n + 1] = g[(n + 1) - 1] + pending'[n + 1].size
    BY <1>1, <1>8, <1>9, <1>11
  <2>3. ASSUME NEW i \in 1 .. n + 1
        PROVE  g[i] = g[i - 1] + pending'[i].size
    <3>1. i \in 1 .. n \/ i = n + 1
      BY <1>1
    <3> QED
      BY <2>1, <2>2, <3>1
  <2>4. g[0] = 0
    BY <1>1, <1>11
  <2> QED
    BY <2>3, <2>4
<1>13. ASSUME NEW i \in 0 .. n + 1, NEW j \in 0 .. n + 1, i <= j
       PROVE  g[i] <= g[j]
  <2>1. CASE j \in 0 .. n
    <3>1. i \in 0 .. n
      BY <1>1, <1>13, <2>1
    <3>2. f[i] <= f[j]
      BY <1>1, <1>13, <2>1, <3>1
    <3> QED
      BY <1>11, <2>1, <3>1, <3>2
  <2>2. CASE i = n + 1 /\ j = n + 1
    BY <1>11, <2>2
  <2>3. CASE i \in 0 .. n /\ j = n + 1
    <3>1. n \in 0 .. n /\ i <= n
      BY <1>1, <2>3
    <3>2. f[i] <= f[n] /\ f[i] \in Nat
      BY <1>1, <2>3, <3>1
    <3>3. g[i] = f[i] /\ g[j] = f[n] + size
      BY <1>11, <2>3
    <3> QED
      BY <1>4, <3>2, <3>3
  <2> QED
    BY <1>1, <1>13, <2>1, <2>2, <2>3
<1>14. CURR' = Behind(first, f[n] + size)
  <2>1. f[n] \in 0 .. Pages - 1 /\ size \in 0 .. Pages - 1 /\ f[n] + size < Pages
    BY <1>4, <1>7, PagesIsNat
  <2> QED
    BY <1>1, <1>3, <1>6, <2>1, BehindAdds
<1>15. ASSUME NEW o \in 0 .. f[n] - 1
       PROVE  ring'[Behind(first, o)] = ring[Behind(first, o)]
  <2>1. o \in 0 .. Pages - 1 /\ f[n] \in 0 .. Pages - 1 /\ o \in 0 .. Pages /\ o < f[n]
    BY <1>4, PagesIsNat
  <2>2. Behind(first, o) \in Page
    BY <1>3, <2>1, BehindIs
  <2>3. Distance(CURR, Behind(first, o)) = o - f[n] + Pages
    BY <1>1, <1>3, <2>1, BehindAdds
  <2>4. ~(Distance(CURR, Behind(first, o)) < FreePages)
    BY <1>4, <1>5, <2>1, <2>3, PagesIsNat
  <2>5. ~(Distance(CURR, Behind(first, o)) < size)
    BY <1>4, <1>7, <2>1, <2>3, PagesIsNat
  <2>6. ~Unused(Behind(first, o))
    BY <2>4 DEF Unused
  <2> QED
    BY <1>6, <2>2, <2>5, <2>6
<1>16. ASSUME NEW q \in 0 .. size - 1
       PROVE  ring'[Behind(first, f[n] + q)] = Part(new, q, CURR')
  <2>1. /\ f[n] + q \in 0 .. Pages - 1 /\ f[n] \in 0 .. Pages - 1 /\ f[n] + q \in 0 .. Pages
        /\ f[n] <= f[n] + q /\ (f[n] + q) - f[n] = q /\ q < size
    BY <1>4, <1>7, PagesIsNat
  <2> DEFINE o == f[n] + q
  <2> HIDE DEF o
  <2>2. Behind(first, o) \in Page
    BY <1>3, <2>1, BehindIs DEF o
  <2>3. Distance(CURR, Behind(first, o)) = q
    <3>1. o \in 0 .. Pages - 1 /\ f[n] \in 0 .. Pages - 1 /\ f[n] <= o /\ o - f[n] = q
      BY <2>1 DEF o
    <3> QED
      BY <1>1, <1>3, <3>1, BehindAdds
  <2>4. ring'[Behind(first, o)] =
          [id |-> arrived, kind |-> kind, part |-> q + 1, size |-> size,
           nextPage |-> CURR']
    BY <1>6, <2>1, <2>2, <2>3
  <2> QED
    BY <1>9, <2>4 DEF Part, o
<1>17. ASSUME NEW i \in 1 .. n + 1
       PROVE  /\ pending'[i].page = Behind(first, g[i - 1])
              /\ \A q \in 0 .. pending'[i].size - 1 :
                   ring'[Behind(first, g[i - 1] + q)] = Part(pending'[i], q, Behind(first, g[i]))
  <2>1. CASE i \in 1 .. n
    <3>1. i - 1 \in 0 .. n /\ i \in 0 .. n /\ n \in 0 .. n /\ i <= n
      BY <1>1, <2>1
    <3>2. g[i] = f[i] /\ g[i - 1] = f[i - 1] /\ pending'[i] = pending[i]
      BY <1>8, <1>11, <2>1, <3>1
    <3>3. f[i] <= f[n] /\ f[i] = f[i - 1] + pending[i].size /\ f[i - 1] \in Nat /\ f[i] \in Nat
      BY <1>1, <2>1, <3>1
    <3>4. \A q \in 0 .. pending[i].size - 1 : f[i - 1] + q \in 0 .. f[n] - 1
      BY <1>4, <1>10, <2>1, <3>3
    <3> QED
      BY <1>2, <1>15, <2>1, <3>2, <3>4
  <2>2. CASE i = n + 1
    <3>1. g[i - 1] = f[n] /\ g[i] = f[n] + size /\ pending'[i] = new
      <4>1. i - 1 = n /\ n \in 0 .. n
        BY <1>1, <2>2
      <4> QED
        BY <1>8, <1>11, <2>2, <4>1
    <3> QED
      BY <1>1, <1>9, <1>14, <1>16, <3>1
  <2> QED
    BY <1>1, <2>1, <2>2
<1>18. Laid(g, first, CURR', pending', ring')
  BY <1>7, <1>8, <1>11, <1>12, <1>13, <1>14, <1>17 DEF Laid
<1> QED
  BY <1>11, <1>18 DEF first, n

\* The boundary a packet's header asks for puts the driver on the next packet.
LEMMA BoundaryIsInFront ==
  ASSUME NEW nextPage \in Page
  PROVE  /\ NewBoundary(nextPage) \in PSTART - 1 .. PSTOP - 1
         /\ Following(NewBoundary(nextPage)) = nextPage
BY NetAssumption DEF Page, NewBoundary, Following

\* A release takes the first packet and leaves the others as they lie.
LEMMA ReleaseIsLaid ==
  ASSUME Types, NEW f, Laid(f, Following(BOUND), CURR, pending, ring),
         Len(pending) >= 1, Release(Behind(Following(BOUND), f[1])),
         UNCHANGED <<ring, CURR>>
  PROVE  /\ BOUND' \in PSTART - 1 .. PSTOP - 1
         /\ receivePage' = Following(BOUND')
         /\ pending' \in Seq(Packet) /\ Len(pending') = Len(pending) - 1
         /\ \A i \in 1 .. Len(pending) - 1 : pending'[i] = pending[i + 1]
         /\ \E g : /\ Laid(g, Following(BOUND'), CURR', pending', ring')
                   /\ \A m \in 1 .. Len(pending) :
                        Behind(Following(BOUND'), g[m - 1]) = Behind(Following(BOUND), f[m])
<1> DEFINE n == Len(pending)
           first == Following(BOUND)
           second == Following(BOUND')
           g == [j \in 0 .. n - 1 |-> f[j + 1] - f[1]]
<1>1. /\ n \in Nat /\ n >= 1 /\ f \in [0 .. n -> Nat] /\ f[0] = 0 /\ f[n] <= Pages - 2
      /\ \A i \in 1 .. n : f[i] = f[i - 1] + pending[i].size
      /\ \A i, j \in 0 .. n : i <= j => f[i] <= f[j]
      /\ CURR = Behind(first, f[n])
  BY DEF Types, Laid
<1>2. \A i \in 1 .. n :
        /\ pending[i].page = Behind(first, f[i - 1])
        /\ \A q \in 0 .. pending[i].size - 1 :
             ring[Behind(first, f[i - 1] + q)] = Part(pending[i], q, Behind(first, f[i]))
  BY DEF Laid
<1>3. first \in Page
  BY FollowingIsPage DEF Types
<1>4. pending \in Seq(Packet) /\ pending' = Tail(pending)
  BY DEF Types, Release
<1>5. \A i \in 1 .. n : pending[i].size \in Nat
  <2> TAKE i \in 1 .. n
  <2>1. pending[i] \in Packet
    BY <1>4
  <2> QED
    BY <2>1, NetAssumption DEF Packet
<1>6. /\ pending' \in Seq(Packet) /\ Len(pending') = n - 1
      /\ \A i \in 1 .. n - 1 : pending'[i] = pending[i + 1]
  BY <1>1, <1>4
<1>7. \A i \in 0 .. n : f[i] \in Nat /\ f[i] <= Pages - 2 /\ f[i] \in 0 .. Pages - 1
  BY <1>1, PagesIsNat
<1>8. Behind(first, f[1]) \in Page
  <2>1. f[1] \in 0 .. Pages
    BY <1>1, <1>7, PagesIsNat
  <2> QED
    BY <1>3, <2>1, BehindIs
<1>9. BOUND' = NewBoundary(Behind(first, f[1])) /\ receivePage' = Following(BOUND')
  BY DEF Release
<1> HIDE DEF n, first
<1>10. BOUND' \in PSTART - 1 .. PSTOP - 1 /\ second = Behind(first, f[1])
  BY <1>8, <1>9, BoundaryIsInFront
<1> HIDE DEF second
<1>11. /\ g \in [0 .. n - 1 -> Nat] /\ \A j \in 0 .. n - 1 : g[j] = f[j + 1] - f[1]
  <2>1. \A j \in 0 .. n - 1 : j + 1 \in 0 .. n /\ 1 \in 0 .. n /\ 1 <= j + 1
    BY <1>1
  <2>2. \A j \in 0 .. n - 1 : f[j + 1] - f[1] \in Nat
    BY <1>1, <1>7, <2>1
  <2> QED
    BY <2>2
<1> HIDE DEF g
<1>12. ASSUME NEW o \in Nat, f[1] + o \in 0 .. Pages - 1
       PROVE  Behind(second, o) = Behind(first, f[1] + o)
  <2>1. f[1] \in 0 .. Pages - 1 /\ o \in 0 .. Pages - 1 /\ f[1] + o < Pages
    BY <1>1, <1>7, <1>12, PagesIsNat
  <2> QED
    BY <1>3, <1>10, <2>1, BehindAdds
<1>13. ASSUME NEW m \in 1 .. n
       PROVE  /\ g[m - 1] \in Nat /\ g[m - 1] = f[m] - f[1] /\ f[m] \in Nat /\ f[1] \in Nat
              /\ Behind(second, g[m - 1]) = Behind(first, f[m])
  <2>1. m - 1 \in 0 .. n - 1 /\ (m - 1) + 1 = m /\ m \in 0 .. n /\ 1 \in 0 .. n
    BY <1>1
  <2>2. g[m - 1] = f[m] - f[1] /\ g[m - 1] \in Nat
    BY <1>11, <2>1
  <2>3. f[1] \in Nat /\ f[m] \in 0 .. Pages - 1
    BY <1>7, <2>1
  <2>4. f[1] + g[m - 1] = f[m]
    BY <2>2, <2>3
  <2> QED
    BY <1>12, <2>2, <2>3, <2>4
<1>14. g[0] = 0 /\ g[n - 1] <= Pages - 2
  BY <1>1, <1>7, <1>13, PagesIsNat
<1>15. \A i \in 1 .. n - 1 : g[i] = g[i - 1] + pending'[i].size
  <2> TAKE i \in 1 .. n - 1
  <2>1. i \in 1 .. n /\ i + 1 \in 1 .. n /\ (i + 1) - 1 = i
    BY <1>1
  <2>2. g[i] = f[i + 1] - f[1] /\ g[i - 1] = f[i] - f[1]
    BY <1>13, <2>1
  <2>3. f[i + 1] = f[i] + pending[i + 1].size /\ pending'[i] = pending[i + 1]
    BY <1>1, <1>6, <2>1
  <2>4. f[i] \in Nat /\ f[1] \in Nat /\ pending[i + 1].size \in Nat
    BY <1>5, <1>13, <2>1
  <2> QED
    BY <2>2, <2>3, <2>4
<1>16. \A i, j \in 0 .. n - 1 : i <= j => g[i] <= g[j]
  <2> TAKE i, j \in 0 .. n - 1
  <2>1. i + 1 \in 0 .. n /\ j + 1 \in 0 .. n /\ 1 \in 0 .. n
    BY <1>1
  <2>2. g[i] = f[i + 1] - f[1] /\ g[j] = f[j + 1] - f[1]
    BY <1>11
  <2>3. i <= j => f[i + 1] <= f[j + 1]
    BY <1>1, <2>1
  <2> QED
    BY <1>7, <2>1, <2>2, <2>3
<1>17. CURR' = Behind(second, g[n - 1])
  BY <1>1, <1>13
<1>18. ASSUME NEW i \in 1 .. n - 1
       PROVE  /\ pending'[i].page = Behind(second, g[i - 1])
              /\ \A q \in 0 .. pending'[i].size - 1 :
                   ring'[Behind(second, g[i - 1] + q)] = Part(pending'[i], q, Behind(second, g[i]))
  <2>1. i \in 1 .. n /\ i + 1 \in 1 .. n /\ (i + 1) - 1 = i /\ i + 1 \in 0 .. n
    BY <1>1
  <2>2. pending'[i] = pending[i + 1] /\ pending[i + 1].size \in Nat
    BY <1>5, <1>6, <2>1
  <2>3. Behind(second, g[i - 1]) = Behind(first, f[i]) /\ Behind(second, g[i]) = Behind(first, f[i + 1])
    BY <1>13, <2>1
  <2>4. g[i - 1] = f[i] - f[1] /\ g[i - 1] \in Nat /\ f[i] \in Nat /\ f[1] \in Nat
    BY <1>13, <2>1
  <2>5. f[i + 1] = f[i] + pending[i + 1].size /\ f[i + 1] <= Pages - 2
    BY <1>1, <1>7, <2>1
  <2>6. \A q \in 0 .. pending[i + 1].size - 1 :
          Behind(second, g[i - 1] + q) = Behind(first, f[i] + q)
    <3> TAKE q \in 0 .. pending[i + 1].size - 1
    <3>1. PICK one, here, there, size : /\ one = f[1] /\ here = f[i] /\ there = g[i - 1]
                                        /\ size = pending[i + 1].size
      OBVIOUS
    <3>2. /\ there = here - one /\ there \in Nat /\ here \in Nat /\ one \in Nat
          /\ size \in Nat /\ here + size <= Pages - 2 /\ q \in 0 .. size - 1
      BY <2>2, <2>4, <2>5, <3>1
    <3>3. PICK o : o = there + q
      OBVIOUS
    <3>4. o \in Nat /\ one + o = here + q /\ one + o \in 0 .. Pages - 1
      BY <3>2, <3>3, PagesIsNat
    <3>5. Behind(second, o) = Behind(first, one + o)
      BY <1>12, <3>1, <3>4
    <3> QED
      BY <3>1, <3>3, <3>4, <3>5
  <2>7. /\ pending[i + 1].page = Behind(first, f[i])
        /\ \A q \in 0 .. pending[i + 1].size - 1 :
             ring[Behind(first, f[i] + q)] = Part(pending[i + 1], q, Behind(first, f[i + 1]))
    BY <1>2, <2>1
  <2> QED
    BY <2>2, <2>3, <2>6, <2>7
<1>19. Laid(g, second, CURR', pending', ring')
  BY <1>6, <1>11, <1>14, <1>15, <1>16, <1>17, <1>18 DEF Laid
<1> QED
  BY <1>6, <1>9, <1>10, <1>13, <1>19 DEF n, first, second

-----------------------------------------------------------------------------
(* What is delivered *)

\* The smaller of two numbers.
LEMMA MinOf ==
  ASSUME NEW a \in Nat, NEW b \in Nat
  PROVE  Min({a, b}) = IF a <= b THEN a ELSE b
BY DEF Min

\* The queue holds all packets, or as many as it has room for.
LEMMA KeptIs ==
  ASSUME NEW ids, Len(ids) \in Nat
  PROVE  /\ Len(ids) <= MAX_QUEUED_PACKETS => Kept(ids) = SubSeq(ids, 1, Len(ids))
         /\ ~(Len(ids) <= MAX_QUEUED_PACKETS) => Kept(ids) = SubSeq(ids, 1, MAX_QUEUED_PACKETS)
<1>1. MAX_QUEUED_PACKETS \in Nat
  BY NetAssumption
<1>2. Min({Len(ids), MAX_QUEUED_PACKETS}) =
        IF Len(ids) <= MAX_QUEUED_PACKETS THEN Len(ids) ELSE MAX_QUEUED_PACKETS
  BY <1>1, MinOf
<1> QED
  BY <1>2 DEF Kept

\* The queue is what is kept of the packets taken so far.
LEMMA QueuedIsKept ==
  ASSUME NEW ids \in Seq(Id), NEW id \in Id
  PROVE  Kept(Append(ids, id)) = Queued(Kept(ids), id)
<1> DEFINE n == Len(ids)
           all == Append(ids, id)
<1>1. PICK M \in Nat \ {0} : M = MAX_QUEUED_PACKETS
  BY NetAssumption
<1>2. n \in Nat /\ ids \in Seq(Id) /\ n = Len(ids)
  OBVIOUS
<1>3. /\ all \in Seq(Id) /\ Len(all) = n + 1 /\ all[n + 1] = id
      /\ \A i \in 1 .. n : all[i] = ids[i]
  OBVIOUS
<1>4. all = Append(ids, id)
  OBVIOUS
<1> HIDE DEF n, all
<1>5. /\ n <= M => Kept(ids) = SubSeq(ids, 1, n)
      /\ ~(n <= M) => Kept(ids) = SubSeq(ids, 1, M)
      /\ n + 1 <= M => Kept(all) = SubSeq(all, 1, n + 1)
      /\ ~(n + 1 <= M) => Kept(all) = SubSeq(all, 1, M)
  BY <1>1, <1>2, <1>3, KeptIs
<1>6. CASE n < M
  <2>1. SubSeq(ids, 1, n) = ids
    BY <1>2
  <2>2. SubSeq(all, 1, n + 1) = all
    <3>1. SubSeq(all, 1, Len(all)) = all
      BY <1>3
    <3> QED
      BY <1>3, <3>1
  <2>3. Kept(ids) = ids /\ Kept(all) = all
    BY <1>2, <1>5, <1>6, <2>1, <2>2
  <2>4. Queued(ids, id) = Append(ids, id)
    BY <1>1, <1>2, <1>6 DEF Queued
  <2> QED
    BY <1>4, <2>3, <2>4
<1>7. CASE ~(n < M)
  <2>1. SubSeq(ids, 1, M) = SubSeq(all, 1, M) /\ Len(SubSeq(ids, 1, M)) = M
    BY <1>1, <1>2, <1>3, <1>7
  <2>2. Kept(all) = SubSeq(all, 1, M)
    BY <1>1, <1>2, <1>5, <1>7
  <2>3. Kept(ids) = SubSeq(ids, 1, M)
    <3>1. CASE n <= M
      <4>1. n = M
        BY <1>1, <1>2, <1>7, <3>1
      <4> QED
        BY <1>5, <3>1, <4>1
    <3> QED
      BY <1>5, <3>1
  <2> QED
    <3>1. Queued(Kept(ids), id) = Kept(ids)
      <4>1. ~(Len(Kept(ids)) < MAX_QUEUED_PACKETS)
        BY <1>1, <2>1, <2>3
      <4> QED
        BY <4>1 DEF Queued
    <3> QED
      BY <1>4, <2>1, <2>2, <2>3, <3>1
<1> QED
  BY <1>2, <1>1, <1>6, <1>7

\* Of no packets the queue holds none.
LEMMA KeptOfNone == Kept(<<>>) = <<>>
<1>1. Len(<<>>) = 0 /\ 0 \in Nat /\ MAX_QUEUED_PACKETS \in Nat
  BY NetAssumption
<1>2. Min({0, MAX_QUEUED_PACKETS}) = 0
  BY <1>1, MinOf
<1>3. Kept(<<>>) = SubSeq(<<>>, 1, 0)
  BY <1>1, <1>2 DEF Kept
<1> QED
  BY <1>3

\* Every sequence of packets has its UDP packets, collected packet by packet.
LEMMA IdsExist ==
  ASSUME NEW packets \in Seq(Packet)
  PROVE  \E h : Collects(h, Len(packets), packets) /\ h[0] = <<>>
<1> DEFINE n == Len(packets)
           queues == Seq(Id)
           collected(k, ids) ==
             IF packets[k].kind = "udp" THEN Append(ids, packets[k].id) ELSE ids
           step == [x \in (1 .. n) \X queues |-> collected(x[1], x[2])]
<1>1. n \in Nat /\ <<>> \in queues
  OBVIOUS
<1>2. ASSUME NEW k \in 1 .. n, NEW ids \in queues
      PROVE  collected(k, ids) \in queues
  <2>1. packets[k] \in Packet
    OBVIOUS
  <2>2. packets[k].id \in Id
    BY <2>1 DEF Packet
  <2> QED
    BY <2>2
<1>3. step \in [(1 .. n) \X queues -> queues]
  <2> HIDE DEF queues, collected
  <2> QED
    BY <1>2
<1>4. \A k \in 1 .. n, ids \in queues : step[<<k, ids>>] = collected(k, ids)
  OBVIOUS
<1>5. PICK h : Solves(h, n, queues, <<>>, step)
  <2> HIDE DEF n, queues, step
  <2> QED
    BY <1>1, <1>3, SolutionExists
<1>6. /\ h \in [0 .. n -> Seq(Id)] /\ h[0] = <<>>
      /\ \A k \in 1 .. n : h[k] = step[<<k, h[k - 1]>>]
  BY <1>5 DEF Solves
<1>7. ASSUME NEW k \in 1 .. n
      PROVE  h[k] = collected(k, h[k - 1])
  <2>1. k - 1 \in 0 .. n
    BY <1>1
  <2>2. h[k - 1] \in queues
    BY <1>6, <2>1
  <2> HIDE DEF step, collected, queues
  <2> QED
    BY <1>4, <1>6, <2>2
<1>8. Collects(h, n, packets)
  BY <1>6, <1>7 DEF Collects
<1> QED
  BY <1>6, <1>8

\* They are what UdpIds returns.
LEMMA UdpIdsAre ==
  ASSUME NEW packets \in Seq(Packet), NEW h, Collects(h, Len(packets), packets), h[0] = <<>>
  PROVE  UdpIds(packets) = h[Len(packets)]
<1> DEFINE n == Len(packets)
           Ids0(f) == f = [k \in 0 .. n |->
             IF k = 0 THEN <<>>
             ELSE IF packets[k].kind = "udp" THEN Append(f[k - 1], packets[k].id) ELSE f[k - 1]]
           ids == CHOOSE f : Ids0(f)
<1>1. n \in Nat
  OBVIOUS
<1>2. UdpIds(packets) = ids[n]
  BY DEF UdpIds
<1>3. h \in [0 .. n -> Seq(Id)] /\ \A k \in 1 .. n :
        h[k] = IF packets[k].kind = "udp" THEN Append(h[k - 1], packets[k].id) ELSE h[k - 1]
  BY DEF Collects
<1>4. \A k \in 0 .. n : h[k] = IF k = 0 THEN <<>>
          ELSE IF packets[k].kind = "udp" THEN Append(h[k - 1], packets[k].id) ELSE h[k - 1]
  <2> TAKE k \in 0 .. n
  <2>1. k = 0 \/ k \in 1 .. n
    BY <1>1
  <2>2. k \in 1 .. n => k # 0
    BY <1>1
  <2> QED
    BY <1>3, <2>1, <2>2
<1>5. Ids0(h)
  <2>1. h = [k \in 0 .. n |-> h[k]]
    BY <1>3
  <2> QED
    BY <1>4, <2>1
<1>6. Ids0(ids)
  <2> HIDE DEF Ids0
  <2> QED
    BY <1>5
<1>7. \A k \in 0 .. n : ids[k] = IF k = 0 THEN <<>>
         ELSE IF packets[k].kind = "udp" THEN Append(ids[k - 1], packets[k].id) ELSE ids[k - 1]
  <2> HIDE DEF ids
  <2> QED
    BY <1>6
<1>8. ids[0] = h[0]
  <2> HIDE DEF ids
  <2>1. 0 \in 0 .. n
    BY <1>1
  <2> QED
    BY <1>7, <2>1
<1>9. \A k \in 1 .. n : ids[k - 1] = h[k - 1] => ids[k] = h[k]
  <2> HIDE DEF ids
  <2>1. \A k \in 1 .. n : k \in 0 .. n /\ k # 0
    BY <1>1
  <2> QED
    BY <1>4, <1>7, <2>1
<1> HIDE DEF ids
<1>10. \A k \in 0 .. n : ids[k] = h[k]
  <2> DEFINE same == { k \in 0 .. n : ids[k] = h[k] }
  <2>1. n \in Nat
    BY <1>1
  <2>2. 0 \in same
    BY <1>8, <2>1
  <2>3. ASSUME NEW k \in 1 .. n, k - 1 \in same
        PROVE  k \in same
    BY <1>9, <2>1, <2>3
  <2>4. 0 .. n \subseteq same
    <3> HIDE DEF same
    <3> QED
      BY ONLY <2>1, <2>2, <2>3, AllPlaces
  <2> QED
    BY <2>4
<1> QED
  BY <1>1, <1>2, <1>10

-----------------------------------------------------------------------------
(* Each step keeps the invariant *)

\* An empty ring and no call.
LEMMA NetInitially == NetInit => NetInv
<1> SUFFICES ASSUME NetInit
             PROVE  NetInv
  OBVIOUS
<1>1. Following(BOUND) = PSTART /\ PSTART \in Page
  BY NetAssumption DEF NetInit, Following, Page
<1>2. Types
  <2>1. PSTART \in Page /\ 0 \in Id /\ PSTART - 1 \in PSTART - 1 .. PSTOP - 1
    BY NetAssumption DEF Page, Id
  <2> QED
    BY <2>1, KeptOfNone DEF NetInit, Types
<1>3. RingInv
  <2> DEFINE f == [j \in 0 .. 0 |-> 0]
  <2>1. f \in [0 .. 0 -> Nat] /\ f[0] = 0
    OBVIOUS
  <2> HIDE DEF f
  <2>2. Len(pending) = 0 /\ CURR = PSTART
    BY DEF NetInit
  <2>3. Behind(PSTART, 0) = PSTART
    BY <1>1, PagesIsNat, BehindAdds
  <2>4. Laid(f, Following(BOUND), CURR, pending, ring)
    BY <1>1, <2>1, <2>2, <2>3, PagesIsNat DEF Laid
  <2>5. ~InLoop
    BY DEF NetInit, InLoop
  <2> QED
    BY <2>4, <2>5 DEF RingInv
<1> QED
  BY <1>2, <1>3 DEF NetInv

\* A packet that arrives is behind those the call has still to take.
LEMMA ArrivesKeepsNet ==
  ASSUME NetInv, NEW size \in 1 .. MaxPages, NEW kind \in Kind, Arrives(size, kind)
  PROVE  NetInv'
<1>1. PICK f : /\ Laid(f, Following(BOUND), CURR, pending, ring)
               /\ InLoop => \E m \in 0 .. Len(pending) : Calling(f, m)
  BY DEF NetInv, RingInv
<1>2. PICK g : /\ Laid(g, Following(BOUND), CURR', pending', ring')
               /\ \A m \in 0 .. Len(pending) : g[m] = f[m]
  BY <1>1, ArrivalIsLaid DEF NetInv
<1>3. UNCHANGED driver
  BY DEF Arrives
<1> DEFINE new == [id |-> arrived, kind |-> kind, size |-> size, page |-> CURR]
<1>4. pending' = Append(pending, new) /\ pending \in Seq(Packet)
  BY DEF Arrives, NetInv, Types
<1>5. new \in Packet
  BY DEF NetInv, Types, Packet
<1> HIDE DEF new
<1>6. /\ pending' \in Seq(Packet) /\ Len(pending') = Len(pending) + 1 /\ Len(pending) \in Nat
      /\ \A i \in 1 .. Len(pending) : pending'[i] = pending[i]
  BY <1>4, <1>5
<1>7. Types'
  <2>1. CURR' \in Page
    <3>1. Following(BOUND) \in Page
      BY FollowingIsPage DEF NetInv, Types
    <3>2. g[Len(pending')] \in 0 .. Pages /\ CURR' = Behind(Following(BOUND), g[Len(pending')])
      BY <1>2, <1>6, PagesIsNat DEF Laid
    <3> QED
      BY <3>1, <3>2, BehindIs
  <2>2. arrived' \in Id
    BY NetAssumption DEF Arrives, NetInv, Types, Id
  <2>3. UNCHANGED <<BOUND, pc, receivePage, payloadQueue, payload, expected>>
    BY <1>3 DEF driver
  <2> QED
    BY <1>6, <2>1, <2>2, <2>3 DEF NetInv, Types, Kept
<1>8. ASSUME InLoop
      PROVE  \E m \in 0 .. Len(pending') : Calling(g, m)'
  <2>1. PICK m \in 0 .. Len(pending) : Calling(f, m)
    BY <1>1, <1>8
  <2>2. PICK h : Collects(h, m, pending) /\ expected = h[m] /\ payloadQueue = Kept(h[0])
    BY <2>1 DEF Calling, Delivering
  <2>3. Collects(h, m, pending')
    <3>1. \A k \in 1 .. m : pending'[k] = pending[k]
      BY <1>6
    <3> QED
      BY <2>2, <3>1 DEF Collects
  <2>4. Delivering(m)'
    BY <1>3, <2>2, <2>3 DEF Delivering, Collects, Kept, driver
  <2>5. /\ g[m] = f[m] /\ m \in 0 .. Len(pending')
        /\ m >= 1 => g[1] = f[1] /\ pending'[1] = pending[1]
    BY <1>2, <1>6
  <2>6. Calling(g, m)'
    BY <1>3, <2>1, <2>4, <2>5 DEF Calling, Following, driver
  <2> QED
    BY <2>5, <2>6
<1>9. RingInv'
  <2>1. Laid(g, Following(BOUND'), CURR', pending', ring')
    BY <1>2, <1>3 DEF driver, Following
  <2>2. InLoop' => \E m \in 0 .. Len(pending') : Calling(g, m)'
    BY <1>3, <1>8 DEF InLoop, driver
  <2> QED
    BY <2>1, <2>2 DEF RingInv
<1> QED
  BY <1>7, <1>9 DEF NetInv

\* A step that moves no boundary and takes no packet.
RingKept == UNCHANGED <<card, pending, BOUND>>

\* Packets lie as they lay while the ring stays as it is.
LEMMA KeptRing ==
  ASSUME NEW f, Laid(f, Following(BOUND), CURR, pending, ring), RingKept
  PROVE  Laid(f, Following(BOUND), CURR, pending, ring)'
BY DEF Laid, RingKept, card, Following, Behind, Part

\* A call begins where the boundary is.
LEMMA BeginKeepsNet == ASSUME NetInv, Begin PROVE NetInv'
<1>1. PICK f : Laid(f, Following(BOUND), CURR, pending, ring)
  BY DEF NetInv, RingInv
<1>2. Laid(f, Following(BOUND), CURR, pending, ring)'
  BY <1>1, KeptRing DEF Begin, RingKept
<1>3. ~InLoop'
  BY DEF Begin, InLoop
<1>4. Types'
  BY DEF NetInv, Types, Begin, card, Following
<1> QED
  BY <1>2, <1>3, <1>4 DEF NetInv, RingInv

\* The packets of the call are those that lie in the ring when CURR is read.
LEMMA ReadCurrentKeepsNet == ASSUME NetInv, ReadCurrent PROVE NetInv'
<1>1. PICK f : Laid(f, Following(BOUND), CURR, pending, ring)
  BY DEF NetInv, RingInv
<1>2. Laid(f, Following(BOUND), CURR, pending, ring)'
  BY <1>1, KeptRing DEF ReadCurrent, RingKept
<1>3. Types'
  BY DEF NetInv, Types, ReadCurrent, card, Following
<1>4. pending \in Seq(Packet) /\ Len(pending) \in Nat /\ payloadQueue = <<>>
  BY DEF NetInv, Types, ReadCurrent
<1>5. PICK h : Collects(h, Len(pending), pending) /\ h[0] = <<>>
  BY <1>4, IdsExist
<1>6. UdpIds(pending) = h[Len(pending)]
  BY <1>4, <1>5, UdpIdsAre
<1>7. PICK m \in 0 .. Len(pending) : m = Len(pending)
  BY <1>4
<1>8. Delivering(m)'
  <2>1. /\ Collects(h, m, pending) /\ expected' = h[m] /\ payloadQueue' = Kept(h[0])
        /\ pending' = pending
    BY <1>4, <1>5, <1>6, <1>7, KeptOfNone DEF ReadCurrent
  <2> QED
    BY <2>1 DEF Delivering, Collects, Kept
<1>9. currentPage' = Behind(Following(BOUND), f[m])
  BY <1>1, <1>7 DEF Laid, ReadCurrent
<1>10. pc' = "loop" /\ BOUND' = BOUND /\ pending' = pending
  BY DEF ReadCurrent
<1>11. Calling(f, m)'
  BY <1>8, <1>9, <1>10 DEF Calling, Following, Behind
<1> QED
  BY <1>2, <1>3, <1>10, <1>11 DEF NetInv, RingInv

\* In the loop, a packet is left exactly when the pages differ, and the first of
\* those left lies at receivePage.
LEMMA FirstIsThere ==
  ASSUME Types, NEW f, Laid(f, Following(BOUND), CURR, pending, ring),
         NEW m \in 0 .. Len(pending), Calling(f, m), pc = "loop"
  PROVE  /\ More <=> m >= 1
         /\ m >= 1 => ring[receivePage] = Part(pending[1], 0, Behind(Following(BOUND), f[1]))
<1> DEFINE first == Following(BOUND)
<1>1. first \in Page /\ receivePage = first /\ currentPage = Behind(first, f[m])
  BY FollowingIsPage DEF Types, Calling
<1>2. Len(pending) \in Nat
  BY DEF Types
<1>3. /\ f[0] = 0 /\ \A i \in 0 .. Len(pending) : f[i] \in Nat /\ f[i] <= Pages - 2
      /\ m >= 1 => f[1] = f[0] + pending[1].size /\ f[1] <= f[m]
  <2>1. /\ f \in [0 .. Len(pending) -> Nat] /\ f[0] = 0 /\ f[Len(pending)] <= Pages - 2
        /\ \A i \in 1 .. Len(pending) : f[i] = f[i - 1] + pending[i].size
        /\ \A i, j \in 0 .. Len(pending) : i <= j => f[i] <= f[j]
    BY DEF Laid
  <2>2. ASSUME NEW i \in 0 .. Len(pending)
        PROVE  f[i] \in Nat /\ f[i] <= Pages - 2
    <3>1. Len(pending) \in 0 .. Len(pending) /\ i <= Len(pending)
      BY <1>2
    <3>2. f[i] <= f[Len(pending)] /\ f[i] \in Nat /\ f[Len(pending)] \in Nat
      BY <2>1, <3>1
    <3> QED
      BY <2>1, <3>2, PagesIsNat
  <2>3. ASSUME m >= 1
        PROVE  f[1] = f[0] + pending[1].size /\ f[1] <= f[m]
    <3>1. 1 \in 1 .. Len(pending) /\ 1 \in 0 .. Len(pending) /\ 1 <= m /\ 1 - 1 = 0
      BY <1>2, <2>3
    <3>2. f[1] = f[1 - 1] + pending[1].size
      BY <2>1, <3>1
    <3> QED
      BY <2>1, <3>1, <3>2
  <2> QED
    BY <2>1, <2>2, <2>3
<1>4. m >= 1 => pending[1].size \in Nat /\ pending[1].size >= 1
  <2> SUFFICES ASSUME m >= 1
               PROVE  pending[1].size \in Nat /\ pending[1].size >= 1
    OBVIOUS
  <2>1. pending[1] \in Packet
    BY <1>2 DEF Types
  <2> QED
    BY <2>1, NetAssumption DEF Packet
<1>5. f[m] \in 0 .. Pages - 1 /\ f[0] \in 0 .. Pages - 1 /\ m \in Nat
  BY <1>2, <1>3, PagesIsNat
<1>6. Behind(first, 0) = first
  BY <1>1, <1>3, <1>5, BehindAdds
<1>7. Behind(first, f[m]) = first => f[m] = 0
  BY <1>1, <1>3, <1>5, <1>6, BehindAdds
<1>8. f[m] = 0 <=> m = 0
  BY <1>2, <1>3, <1>4, <1>5
<1>9. More <=> m >= 1
  BY <1>1, <1>5, <1>6, <1>7, <1>8 DEF More
<1>10. ASSUME m >= 1
       PROVE  ring[receivePage] = Part(pending[1], 0, Behind(first, f[1]))
  <2>1. 1 \in 1 .. Len(pending) /\ 0 \in 0 .. pending[1].size - 1
    BY <1>2, <1>4, <1>10
  <2>2. ring[Behind(first, f[1 - 1] + 0)] = Part(pending[1], 0, Behind(first, f[1]))
    BY <2>1 DEF Laid
  <2>3. f[1 - 1] + 0 = 0
    BY <1>3
  <2> QED
    BY <1>1, <1>6, <2>2, <2>3
<1> QED
  BY <1>9, <1>10

\* The header that is read is that of the first packet.
LEMMA ReadHeaderKeepsNet == ASSUME NetInv, ReadHeader PROVE NetInv'
<1>1. PICK f : /\ Laid(f, Following(BOUND), CURR, pending, ring)
               /\ InLoop => \E m \in 0 .. Len(pending) : Calling(f, m)
  BY DEF NetInv, RingInv
<1>2. PICK m \in 0 .. Len(pending) : Calling(f, m)
  BY <1>1 DEF ReadHeader, InLoop
<1>3. Laid(f, Following(BOUND), CURR, pending, ring)'
  BY <1>1, KeptRing DEF ReadHeader, RingKept
<1>4. Types'
  BY DEF NetInv, Types, ReadHeader, card, Following
<1>5. m >= 1 /\ header' = Part(pending[1], 0, Behind(Following(BOUND), f[1]))
  BY <1>1, <1>2, FirstIsThere DEF ReadHeader, NetInv
<1>6. Delivering(m)'
  BY <1>2 DEF Calling, Delivering, ReadHeader, Collects, Kept
<1>7. Calling(f, m)'
  BY <1>2, <1>5, <1>6 DEF Calling, ReadHeader, Following, Behind, Part
<1>8. pending' = pending
  BY DEF ReadHeader
<1> QED
  BY <1>3, <1>4, <1>7, <1>8 DEF NetInv, RingInv

\* The pages that are read are those of the first packet.
LEMMA ReadDataKeepsNet == ASSUME NetInv, ReadData PROVE NetInv'
<1> DEFINE first == Following(BOUND)
<1>1. PICK f : /\ Laid(f, first, CURR, pending, ring)
               /\ InLoop => \E m \in 0 .. Len(pending) : Calling(f, m)
  BY DEF NetInv, RingInv
<1>2. PICK m \in 0 .. Len(pending) : Calling(f, m)
  BY <1>1 DEF ReadData, InLoop
<1>3. Laid(f, first, CURR, pending, ring)'
  BY <1>1, KeptRing DEF ReadData, RingKept
<1>4. Types'
  BY DEF NetInv, Types, ReadData, card, Following
<1>5. m >= 1 /\ header = Part(pending[1], 0, Behind(first, f[1]))
  BY <1>2 DEF Calling, ReadData
<1>6. Delivering(m)'
  BY <1>2 DEF Calling, Delivering, ReadData, Collects, Kept
<1>7. /\ receivePage = first /\ first \in Page /\ Len(pending) \in Nat
      /\ pending \in Seq(Packet)
  BY FollowingIsPage DEF NetInv, Types, ReadData
<1>8. pending[1] \in Packet /\ pending[1].size \in 1 .. MaxPages /\ header.size = pending[1].size
  <2>1. pending[1] \in Packet
    BY <1>5, <1>7
  <2> QED
    BY <1>5, <2>1 DEF Packet, Part
<1>9. ASSUME NEW i \in 1 .. header.size
      PROVE  ring[Behind(first, i - 1)] = Part(pending[1], i - 1, Behind(first, f[1]))
  <2>1. 1 \in 1 .. Len(pending) /\ i - 1 \in 0 .. pending[1].size - 1 /\ i - 1 \in Nat
    BY <1>5, <1>7, <1>8, NetAssumption
  <2>2. ring[Behind(first, f[1 - 1] + (i - 1))] = Part(pending[1], i - 1, Behind(first, f[1]))
    BY <1>1, <2>1 DEF Laid
  <2>3. f[1 - 1] + (i - 1) = i - 1
    BY <1>1, <2>1 DEF Laid
  <2> QED
    BY <2>2, <2>3
<1>10. frame' = [i \in 1 .. header.size |-> Part(pending[1], i - 1, Behind(first, f[1]))]
  BY <1>7, <1>9 DEF ReadData
<1>11. UNCHANGED <<currentPage, BOUND, pending, header>> /\ pc' = "release"
  BY DEF ReadData
<1>12. Calling(f, m)'
  BY <1>2, <1>5, <1>6, <1>10, <1>11 DEF Calling, Following, Behind, Part
<1> QED
  BY <1>3, <1>4, <1>11, <1>12 DEF NetInv, RingInv

\* The packet that is taken leaves the others as the call left to do.
LEMMA ReleaseLeaves ==
  ASSUME NetInv, NEW f, Laid(f, Following(BOUND), CURR, pending, ring),
         NEW m \in 0 .. Len(pending), m >= 1, Calling(f, m),
         Release(Behind(Following(BOUND), f[1])),
         UNCHANGED <<card, currentPage, expected, payload>>, pc' = "loop",
         NEW h, Collects(h, m, pending), expected = h[m], payloadQueue' = Kept(h[1])
  PROVE  NetInv'
<1>1. /\ BOUND' \in PSTART - 1 .. PSTOP - 1
      /\ receivePage' = Following(BOUND')
      /\ pending' \in Seq(Packet) /\ Len(pending') = Len(pending) - 1
      /\ \A i \in 1 .. Len(pending) - 1 : pending'[i] = pending[i + 1]
  <2>1. Len(pending) >= 1 /\ UNCHANGED <<ring, CURR>>
    BY DEF NetInv, Types, card
  <2> QED
    BY <2>1, ReleaseIsLaid DEF NetInv
<1>2. PICK g : /\ Laid(g, Following(BOUND'), CURR', pending', ring')
               /\ \A k \in 1 .. Len(pending) :
                    Behind(Following(BOUND'), g[k - 1]) = Behind(Following(BOUND), f[k])
  <2>1. Len(pending) >= 1 /\ UNCHANGED <<ring, CURR>>
    BY DEF NetInv, Types, card
  <2> QED
    BY <2>1, ReleaseIsLaid DEF NetInv
<1>3. Types'
  BY <1>1 DEF NetInv, Types, card
<1>4. Len(pending) \in Nat /\ m \in 1 .. Len(pending) /\ m \in Nat
  BY DEF NetInv, Types
<1> DEFINE l == m - 1
           rest == [k \in 0 .. l |-> h[k + 1]]
<1>5. l \in Nat /\ l \in 0 .. Len(pending') /\ l + 1 = m
  BY <1>1, <1>4
<1>6. /\ h \in [0 .. m -> Seq(Id)]
      /\ \A k \in 1 .. m : h[k] = IF pending[k].kind = "udp"
                                 THEN Append(h[k - 1], pending[k].id) ELSE h[k - 1]
  BY DEF Collects
<1>7. currentPage = Behind(Following(BOUND'), g[l])
  BY <1>2, <1>4 DEF Calling
<1> HIDE DEF l
<1>8. rest \in [0 .. l -> Seq(Id)] /\ \A k \in 0 .. l : rest[k] = h[k + 1]
  BY <1>5, <1>6
<1> HIDE DEF rest
<1>9. \A k \in 1 .. l : rest[k] = IF pending'[k].kind = "udp"
                                 THEN Append(rest[k - 1], pending'[k].id) ELSE rest[k - 1]
  <2> TAKE k \in 1 .. l
  <2>1. k \in 0 .. l /\ k - 1 \in 0 .. l /\ k + 1 \in 1 .. m /\ (k + 1) - 1 = k
        /\ (k - 1) + 1 = k /\ k \in 1 .. Len(pending) - 1
    BY <1>4, <1>5
  <2>2. rest[k] = h[k + 1] /\ rest[k - 1] = h[(k - 1) + 1]
    BY <1>8, <2>1
  <2>3. pending'[k] = pending[k + 1]
    BY <1>1, <2>1
  <2>4. h[k + 1] = IF pending[k + 1].kind = "udp"
                   THEN Append(h[(k + 1) - 1], pending[k + 1].id) ELSE h[(k + 1) - 1]
    BY <1>6, <2>1
  <2>5. h[(k - 1) + 1] = h[k] /\ h[(k + 1) - 1] = h[k]
    BY <2>1
  <2> QED
    BY <2>2, <2>3, <2>4, <2>5
<1>10. rest[l] = h[m] /\ rest[0] = h[1]
  BY <1>5, <1>8
<1>11. Delivering(l)'
  BY <1>8, <1>9, <1>10 DEF Delivering, Collects, Kept
<1>12. PICK k \in 0 .. Len(pending') : k = l
  BY <1>5
<1>13. Calling(g, k)'
  <2>1. Delivering(k)'
    BY <1>8, <1>9, <1>10, <1>12 DEF Delivering, Collects, Kept
  <2> QED
    BY <1>7, <1>12, <2>1 DEF Calling, Following, Behind
<1>14. RingInv'
  BY <1>2, <1>13 DEF RingInv
<1> QED
  BY <1>3, <1>14 DEF NetInv

\* A bad packet is left behind and nothing is queued.
LEMMA SkipBadKeepsNet == ASSUME NetInv, SkipBad PROVE NetInv'
<1>1. PICK f : /\ Laid(f, Following(BOUND), CURR, pending, ring)
               /\ InLoop => \E m \in 0 .. Len(pending) : Calling(f, m)
  BY DEF NetInv, RingInv
<1>2. PICK m \in 0 .. Len(pending) : Calling(f, m)
  BY <1>1 DEF SkipBad, InLoop
<1>3. m >= 1 /\ ring[receivePage] = Part(pending[1], 0, Behind(Following(BOUND), f[1]))
  BY <1>1, <1>2, FirstIsThere DEF SkipBad, NetInv
<1>4. /\ ring[receivePage].nextPage = Behind(Following(BOUND), f[1])
      /\ pending[1].kind = "bad"
  BY <1>3 DEF Part, SkipBad
<1>5. Release(Behind(Following(BOUND), f[1]))
  BY <1>4 DEF SkipBad
<1>6. PICK h : Collects(h, m, pending) /\ expected = h[m] /\ payloadQueue = Kept(h[0])
  BY <1>2 DEF Calling, Delivering
<1>7. h[1] = h[0]
  <2>1. 1 \in 1 .. m
    BY <1>3 DEF NetInv, Types
  <2>2. h[1] = IF pending[1].kind = "udp" THEN Append(h[1 - 1], pending[1].id) ELSE h[1 - 1]
    BY <1>6, <2>1 DEF Collects
  <2>3. h[1] = h[1 - 1]
    BY <1>4, <2>2
  <2> QED
    BY <2>3
<1>8. /\ UNCHANGED <<card, currentPage, expected, payload>> /\ pc' = "loop"
      /\ payloadQueue' = Kept(h[1])
  BY <1>6, <1>7 DEF SkipBad
<1> QED
  BY <1>1, <1>2, <1>3, <1>5, <1>6, <1>8, ReleaseLeaves

\* The first packet is left behind and, if it is UDP, queued.
LEMMA ProcessKeepsNet == ASSUME NetInv, Process PROVE NetInv'
<1>1. PICK f : /\ Laid(f, Following(BOUND), CURR, pending, ring)
               /\ InLoop => \E m \in 0 .. Len(pending) : Calling(f, m)
  BY DEF NetInv, RingInv
<1>2. PICK m \in 0 .. Len(pending) : Calling(f, m)
  BY <1>1 DEF Process, InLoop
<1>3. /\ m >= 1 /\ header = Part(pending[1], 0, Behind(Following(BOUND), f[1]))
      /\ frame = [i \in 1 .. header.size |->
                    Part(pending[1], i - 1, Behind(Following(BOUND), f[1]))]
  BY <1>2 DEF Calling, Process
<1>4. /\ header.nextPage = Behind(Following(BOUND), f[1])
      /\ header.kind = pending[1].kind /\ header.size = pending[1].size
  BY <1>3 DEF Part
<1>5. Release(Behind(Following(BOUND), f[1]))
  BY <1>4 DEF Process
<1>6. PICK h : Collects(h, m, pending) /\ expected = h[m] /\ payloadQueue = Kept(h[0])
  BY <1>2 DEF Calling, Delivering
<1>7. pending[1] \in Packet /\ m \in Nat
  <2>1. pending \in Seq(Packet) /\ Len(pending) \in Nat
    BY DEF NetInv, Types
  <2> QED
    BY <1>3, <2>1
<1>8. frame[1].id = pending[1].id
  <2>1. 1 \in 1 .. header.size
    BY <1>4, <1>7, NetAssumption DEF Packet
  <2>2. frame[1] = Part(pending[1], 1 - 1, Behind(Following(BOUND), f[1]))
    BY <1>3, <2>1
  <2> QED
    BY <2>2 DEF Part
<1>9. /\ h[0] \in Seq(Id) /\ pending[1].id \in Id
      /\ h[1] = IF pending[1].kind = "udp" THEN Append(h[0], pending[1].id) ELSE h[0]
  <2>1. 1 \in 1 .. m /\ 0 \in 0 .. m /\ 1 - 1 = 0
    BY <1>3, <1>7
  <2>2. pending[1].id \in Id
    BY <1>7 DEF Packet
  <2>3. h[0] \in Seq(Id)
    BY <1>6, <2>1 DEF Collects
  <2>4. h[1] = IF pending[1].kind = "udp"
               THEN Append(h[1 - 1], pending[1].id) ELSE h[1 - 1]
    BY <1>6, <2>1 DEF Collects
  <2>5. h[1 - 1] = h[0]
    BY <2>1
  <2> QED
    BY <2>2, <2>3, <2>4, <2>5
<1>10. payloadQueue' = Kept(h[1])
  <2>1. CASE pending[1].kind = "udp"
    <3>1. payloadQueue' = Queued(Kept(h[0]), pending[1].id)
      BY <1>4, <1>6, <1>8, <2>1 DEF Process
    <3>2. Kept(Append(h[0], pending[1].id)) = Queued(Kept(h[0]), pending[1].id)
      BY <1>9, QueuedIsKept
    <3> QED
      BY <1>9, <2>1, <3>1, <3>2
  <2>2. CASE pending[1].kind # "udp"
    BY <1>4, <1>6, <1>9, <2>2 DEF Process
  <2> QED
    BY <2>1, <2>2
<1>11. UNCHANGED <<card, currentPage, expected, payload>> /\ pc' = "loop"
  BY DEF Process
<1> QED
  BY <1>1, <1>2, <1>3, <1>5, <1>6, <1>10, <1>11, ReleaseLeaves

\* A call ends when all its packets are taken.
LEMMA FinishKeepsNet == ASSUME NetInv, Finish PROVE NetInv'
<1>1. PICK f : /\ Laid(f, Following(BOUND), CURR, pending, ring)
               /\ InLoop => \E m \in 0 .. Len(pending) : Calling(f, m)
  BY DEF NetInv, RingInv
<1>2. PICK m \in 0 .. Len(pending) : Calling(f, m)
  BY <1>1 DEF Finish, InLoop
<1>3. m = 0
  <2>1. ~(m >= 1)
    BY <1>1, <1>2, FirstIsThere DEF Finish, NetInv
  <2> QED
    BY <2>1 DEF NetInv, Types
<1>4. payloadQueue = Kept(expected)
  BY <1>2, <1>3 DEF Calling, Delivering
<1>5. Types'
  BY <1>4 DEF NetInv, Types, Finish, card, Following, Kept
<1>6. Laid(f, Following(BOUND), CURR, pending, ring)'
  BY <1>1, KeptRing DEF Finish, RingKept
<1>7. ~InLoop'
  BY DEF Finish, InLoop
<1> QED
  BY <1>5, <1>6, <1>7 DEF NetInv, RingInv

\* Every step of the card or the driver keeps the invariant.
LEMMA NextKeepsNet == NetInv /\ [NetNext]_netVars => NetInv'
<1> SUFFICES ASSUME NetInv, [NetNext]_netVars
             PROVE  NetInv'
  OBVIOUS
<1>1. ASSUME NEW size \in 1 .. MaxPages, NEW kind \in Kind, Arrives(size, kind)
      PROVE  NetInv'
  BY <1>1, ArrivesKeepsNet
<1>2. CASE UNCHANGED netVars
  <2>1. PICK f : /\ Laid(f, Following(BOUND), CURR, pending, ring)
                 /\ InLoop => \E m \in 0 .. Len(pending) : Calling(f, m)
    BY DEF NetInv, RingInv
  <2>2. Laid(f, Following(BOUND), CURR, pending, ring)'
    BY <1>2, <2>1, KeptRing DEF netVars, driver, RingKept
  <2>3. ASSUME NEW m, Calling(f, m)
        PROVE  Calling(f, m)'
    BY <1>2, <2>3 DEF Calling, Delivering, Collects, Kept, Following, Behind, Part, netVars, driver
  <2>4. InLoop' => \E m \in 0 .. Len(pending') : Calling(f, m)'
    BY <1>2, <2>1, <2>3 DEF InLoop, netVars, driver
  <2>5. Types'
    BY <1>2 DEF NetInv, Types, Kept, Following, netVars, card, driver
  <2> QED
    BY <2>2, <2>4, <2>5 DEF NetInv, RingInv
<1> QED
  BY <1>1, <1>2, BeginKeepsNet, ReadCurrentKeepsNet, ReadHeaderKeepsNet, SkipBadKeepsNet,
     ReadDataKeepsNet, ProcessKeepsNet, FinishKeepsNet DEF NetNext, netUDPRcv

\* Every reachable state satisfies the invariant.
LEMMA NetHolds == NetSpec => []NetInv
<1>1. NetInv /\ [NetNext]_netVars => NetInv'
  BY NextKeepsNet
<1> QED
  BY NetInitially, <1>1, PTL DEF NetSpec

-----------------------------------------------------------------------------
(* What the invariant gives *)

\* The offsets of the packets are what PagesBefore returns.
LEMMA PagesBeforeAre ==
  ASSUME NEW packets \in Seq(Packet), NEW h \in [0 .. Len(packets) -> Nat], h[0] = 0,
         \A k \in 1 .. Len(packets) : h[k] = h[k - 1] + packets[k].size
  PROVE  \A k \in 0 .. Len(packets) : PagesBefore(packets)[k] = h[k]
<1> DEFINE n == Len(packets)
           Counts(f) == f = [k \in 0 .. n |-> IF k = 0 THEN 0 ELSE f[k - 1] + packets[k].size]
           pages == CHOOSE f : Counts(f)
<1>1. n \in Nat
  OBVIOUS
<1>2. PagesBefore(packets) = pages
  BY DEF PagesBefore
<1>3. \A k \in 0 .. n : h[k] = IF k = 0 THEN 0 ELSE h[k - 1] + packets[k].size
  <2> TAKE k \in 0 .. n
  <2>1. (k = 0 \/ k \in 1 .. n) /\ (k \in 1 .. n => k # 0)
    BY <1>1
  <2> QED
    BY <2>1
<1>4. Counts(h)
  <2>1. h = [k \in 0 .. n |-> h[k]]
    OBVIOUS
  <2> QED
    BY <1>3, <2>1
<1>5. Counts(pages)
  <2> HIDE DEF Counts
  <2> QED
    BY <1>4
<1>6. \A k \in 0 .. n : pages[k] = IF k = 0 THEN 0 ELSE pages[k - 1] + packets[k].size
  <2> HIDE DEF pages
  <2> QED
    BY <1>5
<1> HIDE DEF pages
<1>7. pages[0] = h[0]
  BY <1>1, <1>6
<1>8. \A k \in 1 .. n : pages[k - 1] = h[k - 1] => pages[k] = h[k]
  <2> TAKE k \in 1 .. n
  <2>1. k \in 0 .. n /\ k # 0
    BY <1>1
  <2> QED
    BY <1>6, <2>1
<1>9. \A k \in 0 .. n : pages[k] = h[k]
  <2> HIDE DEF n
  <2> DEFINE same == { k \in 0 .. n : pages[k] = h[k] }
  <2>1. n \in Nat
    BY <1>1
  <2>2. 0 \in same
    BY <1>7, <2>1
  <2>3. ASSUME NEW k \in 1 .. n, k - 1 \in same
        PROVE  k \in same
    BY <1>8, <2>1, <2>3
  <2>4. 0 .. n \subseteq same
    <3> HIDE DEF same
    <3> QED
      BY ONLY <2>1, <2>2, <2>3, AllPlaces
  <2> QED
    BY <2>4
<1> QED
  BY <1>2, <1>9

\* The packets in the ring are those between the boundary and CURR.
LEMMA NetGivesRing == ASSUME NetInv PROVE RingHoldsPending
<1> DEFINE first == Following(BOUND)
           before == PagesBefore(pending)
           n == Len(pending)
<1>1. PICK f : Laid(f, first, CURR, pending, ring)
  BY DEF NetInv, RingInv
<1>2. pending \in Seq(Packet) /\ n \in Nat
  BY DEF NetInv, Types
<1>3. /\ f \in [0 .. n -> Nat] /\ f[0] = 0
      /\ \A k \in 1 .. n : f[k] = f[k - 1] + pending[k].size
      /\ CURR = Behind(first, f[n])
      /\ \A k \in 1 .. n : pending[k].page = Behind(first, f[k - 1])
  BY <1>1 DEF Laid
<1>4. \A k \in 0 .. n : before[k] = f[k]
  <2> HIDE DEF before
  <2>1. \A k \in 0 .. n : PagesBefore(pending)[k] = f[k]
    BY <1>2, <1>3, PagesBeforeAre
  <2> QED
    BY <2>1 DEF before
<1>5. pc # "idle" => receivePage = first
  BY DEF NetInv, Types
<1>6. n \in 0 .. n /\ \A k \in 1 .. n : k - 1 \in 0 .. n
  BY <1>2
<1> HIDE DEF before, first
<1>7. CURR = Behind(first, before[n])
  BY <1>3, <1>4, <1>6
<1>8. \A k \in 1 .. n : pending[k].page = Behind(first, before[k - 1])
  BY <1>3, <1>4, <1>6
<1> QED
  BY <1>5, <1>7, <1>8 DEF RingHoldsPending, before, first

\* The copied pages are those of one packet.
LEMMA NetGivesCopy == ASSUME NetInv PROVE ReadsIntactPacket
<1> SUFFICES ASSUME pc = "release"
             PROVE  \A i \in 1 .. Len(frame) : frame[i] = [header EXCEPT !.part = i]
  BY DEF ReadsIntactPacket
<1>1. PICK f : /\ Laid(f, Following(BOUND), CURR, pending, ring)
               /\ InLoop => \E m \in 0 .. Len(pending) : Calling(f, m)
  BY DEF NetInv, RingInv
<1>2. PICK m \in 0 .. Len(pending) : Calling(f, m)
  BY <1>1 DEF InLoop
<1> DEFINE next == Behind(Following(BOUND), f[1])
<1>3. /\ m >= 1 /\ header = Part(pending[1], 0, next)
      /\ frame = [i \in 1 .. header.size |-> Part(pending[1], i - 1, next)]
  BY <1>2 DEF Calling
<1> HIDE DEF next
<1>4. pending[1] \in Packet
  BY <1>3 DEF NetInv, Types
<1>5. header.size \in Nat
  BY <1>3, <1>4, NetAssumption DEF Part, Packet
<1>6. Len(frame) = header.size
  BY <1>3, <1>5
<1>7. ASSUME NEW i \in 1 .. header.size
      PROVE  frame[i] = [header EXCEPT !.part = i]
  <2>1. frame[i] = Part(pending[1], i - 1, next)
    BY <1>3
  <2>2. (i - 1) + 1 = i
    BY <1>5
  <2> QED
    BY <1>3, <2>1, <2>2 DEF Part
<1> QED
  BY <1>6, <1>7

\* In every reachable state the packets that the driver has not taken follow each
\* other from its page to CURR: it never skips a packet, takes one twice or hands
\* its pages back too early, whatever arrives meanwhile (net.cpp:192-206, 231-236).
THEOREM PacketsStayInTheRing == NetSpec => []RingHoldsPending
<1>1. NetInv => RingHoldsPending
  BY NetGivesRing
<1> QED
  BY NetHolds, <1>1, PTL

\* The copy of a packet is always one packet, from its first page to its last,
\* round the end of the ring too (net.cpp:210-236).
THEOREM CopiesArePackets == NetSpec => []ReadsIntactPacket
<1>1. NetInv => ReadsIntactPacket
  BY NetGivesCopy
<1> QED
  BY NetHolds, <1>1, PTL

\* Behind every call the payload buffer holds the UDP packets that lay in the ring
\* when the call read CURR, in their order, up to the queue's limit (net.cpp:371-416).
THEOREM DeliversInOrder == NetSpec => []DeliversWhatArrived
<1>1. NetInv => DeliversWhatArrived
  BY DEF NetInv, Types, Kept, DeliversWhatArrived
<1> QED
  BY NetHolds, <1>1, PTL
=============================================================================
