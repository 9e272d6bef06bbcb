----------------------------- MODULE ScanProofs -----------------------------
(* What a first-fit scan returns. *)
EXTENDS Scan, FiniteSets, FiniteSetTheorems, WellFoundedInduction, TLAPS

\* A nonempty set of slot numbers has a least one.  The library proves that
\* strict inclusion of finite sets is well founded; the slot m stands for the
\* set 0 .. m - 1.
LEMMA LeastExists ==
  ASSUME NEW S \in SUBSET Nat, S # {}
  PROVE  \E m \in S : \A k \in S : m <= k
<1> DEFINE T == { 0 .. k - 1 : k \in S }
           R == StrictSubsetOrdering(Nat)
<1>1. T \subseteq FiniteSubsetsOf(Nat)
  <2>1. ASSUME NEW k \in S
        PROVE  0 .. k - 1 \subseteq Nat /\ IsFiniteSet(0 .. k - 1)
    BY FS_Interval
  <2> QED
    BY <2>1 DEF FiniteSubsetsOf
<1>2. T # {}
  OBVIOUS
<1>3. IsWellFoundedOn(R, FiniteSubsetsOf(Nat))
  BY FS_StrictSubsetOrderingWellFounded
<1>4. \E x \in T : \A y \in T : ~ (<<y, x>> \in R)
  <2> HIDE DEF T, R
  <2> QED
    BY <1>1, <1>2, <1>3, WFMin
<1>5. PICK m \in S : \A k \in S : ~ (<<0 .. k - 1, 0 .. m - 1>> \in R)
  BY <1>4
<1>6. ASSUME NEW k \in S, k < m
      PROVE  FALSE
  <2>1. 0 .. k - 1 \subseteq 0 .. m - 1 /\ k \in 0 .. m - 1 /\ k \notin 0 .. k - 1
    BY <1>6
  <2>2. <<0 .. k - 1, 0 .. m - 1>> \in R
    BY <2>1, k \in Nat, m \in Nat DEF StrictSubsetOrdering
  <2> QED
    BY <2>2, <1>5
<1> QED
  BY <1>6

\* A scan of a table that has a fitting slot returns the first of them.
THEOREM FirstOfIsFirst ==
  ASSUME NEW slots \in SUBSET Nat, slots # {}
  PROVE  /\ FirstOf(slots) \in slots
         /\ \A k \in slots : FirstOf(slots) <= k
BY LeastExists DEF FirstOf

\* Induction over places: what holds at 0 and goes on from each place to the next
\* holds at every place.  Otherwise there is a first place where it does not.
LEMMA AllPlaces ==
  ASSUME NEW n \in Nat, NEW S, 0 \in S, \A k \in 1 .. n : k - 1 \in S => k \in S
  PROVE  0 .. n \subseteq S
<1> DEFINE missing == (0 .. n) \ S
<1>1. ASSUME missing # {}
      PROVE  FALSE
  <2>1. missing \in SUBSET Nat
    OBVIOUS
  <2>2. PICK m \in missing : \A k \in missing : m <= k
    BY <1>1, <2>1, LeastExists
  <2>3. m \in 1 .. n /\ m - 1 \in 0 .. n /\ m - 1 \notin missing
    BY <2>2
  <2> QED
    BY <2>2, <2>3
<1> QED
  BY <1>1

\* f is z at 0 and goes on by a step that looks at the place and the value before.
Solves(f, n, S, z, step) ==
  /\ f \in [0 .. n -> S] /\ f[0] = z
  /\ \A k \in 1 .. n : f[k] = step[<<k, f[k - 1]>>]

\* A recursion over the places has a solution.  Otherwise there is a first place
\* m up to which it has none, and the solution up to m - 1 goes on by one step.
LEMMA SolutionExists ==
  ASSUME NEW n \in Nat, NEW S, NEW z \in S, NEW step \in [(1 .. n) \X S -> S]
  PROVE  \E f : Solves(f, n, S, z, step)
<1> DEFINE Solved(f, m) == /\ f \in [0 .. m -> S] /\ f[0] = z
                           /\ \A k \in 1 .. m : f[k] = step[<<k, f[k - 1]>>]
           Without == { m \in 0 .. n : \A f : ~Solved(f, m) }
<1>1. ASSUME Without # {}
      PROVE  FALSE
  <2>1. Without \in SUBSET Nat
    OBVIOUS
  <2>2. PICK m \in Without : \A k \in Without : m <= k
    BY <1>1, <2>1, LeastExists
  <2>3. m # 0
    <3> DEFINE f == [k \in 0 .. 0 |-> z]
    <3>1. Solved(f, 0)
      OBVIOUS
    <3> QED
      BY <2>2, <3>1
  <2>4. m \in 1 .. n /\ m - 1 \in 0 .. n /\ m - 1 \notin Without
    BY <2>2, <2>3
  <2>5. PICK f : Solved(f, m - 1)
    BY <2>4
  <2> DEFINE g == [k \in 0 .. m |-> IF k = m THEN step[<<m, f[m - 1]>>] ELSE f[k]]
  <2>6. f[m - 1] \in S /\ step[<<m, f[m - 1]>>] \in S
    BY <2>4, <2>5
  <2>7. /\ g \in [0 .. m -> S] /\ g[m] = step[<<m, f[m - 1]>>]
        /\ \A k \in 0 .. m - 1 : g[k] = f[k]
    BY <2>4, <2>5, <2>6
  <2> HIDE DEF g
  <2>8. Solved(g, m)
    <3>1. ASSUME NEW k \in 1 .. m
          PROVE  g[k] = step[<<k, g[k - 1]>>]
      <4>1. k - 1 \in 0 .. m - 1
        BY <2>4
      <4>2. CASE k = m
        BY <2>7, <4>1, <4>2
      <4>3. CASE k # m
        <5>1. k \in 1 .. m - 1 /\ k \in 0 .. m - 1
          BY <2>4, <4>3
        <5> QED
          BY <2>5, <2>7, <4>1, <5>1
      <4> QED
        BY <4>2, <4>3
    <3> QED
      BY <2>4, <2>5, <2>7, <3>1
  <2> QED
    BY <2>2, <2>8
<1>2. n \notin Without /\ n \in 0 .. n
  BY <1>1
<1>3. PICK f : Solved(f, n)
  BY <1>2
<1> QED
  BY <1>3 DEF Solves
=============================================================================
