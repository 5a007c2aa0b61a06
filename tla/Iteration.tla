------------------------------ MODULE Iteration ------------------------------
(***************************************************************************)
(* A walk over a list that makes a step for each index, as a recursive     *)
(* function: what it is after each step.  Modules instantiate Step with    *)
(* the steps of their walks.                                               *)
(***************************************************************************)
EXTENDS Integers, FiniteSetTheorems, WellFoundedInduction, TLAPS

CONSTANT Step(_, _, _)  (* what the walk has so far, the list and the index *)

Walks(f, start, list, n) ==
  f = [i \in 0 .. n |-> IF i = 0 THEN start ELSE Step(f[i - 1], list, i)]

Iterated(start, list, n) ==
  CHOOSE f : f = [i \in 0 .. n |-> IF i = 0 THEN start ELSE Step(f[i - 1], list, i)]

(* Induction over Nat, for a statement given as the set of numbers it      *)
(* holds of.                                                               *)
LEMMA SetInduction ==
  ASSUME NEW T, 0 \in T, \A n \in Nat : n \in T => n + 1 \in T
  PROVE  \A n \in Nat : n \in T
<1> SUFFICES ASSUME NEW y \in Nat, y \notin T PROVE FALSE
  OBVIOUS
<1> DEFINE F == {0 .. n : n \in {m \in Nat : m \notin T}}
           R == StrictSubsetOrdering(Nat)
           S == FiniteSubsetsOf(Nat)
<1>1. IsWellFoundedOn(R, S)
  BY FS_StrictSubsetOrderingWellFounded
<1>2. F \subseteq S
  <2>1. \A n \in Nat : 0 .. n \subseteq Nat /\ IsFiniteSet(0 .. n)
    BY FS_Interval
  <2>2. QED
    BY <2>1 DEF FiniteSubsetsOf
<1>3. F # {}
  OBVIOUS
<1> HIDE DEF F, R, S
<1>4. PICK X \in F : \A Z \in F : ~ (<<Z, X>> \in R)
  BY <1>1, <1>2, <1>3, WFMin, Zenon
<1>5. PICK x \in Nat : x \notin T /\ X = 0 .. x
  BY <1>4 DEF F
<1>6. x # 0
  BY <1>5
<1>7. x - 1 \in Nat /\ (x - 1) + 1 = x
  BY <1>5, <1>6
<1>8. x - 1 \notin T
  BY <1>5, <1>7
<1>9. 0 .. x - 1 \in F
  BY <1>7, <1>8 DEF F
<1>10. <<0 .. x - 1, X>> \in R
  <2>1. 0 .. x - 1 \subseteq X /\ 0 .. x - 1 # X
    BY <1>5, <1>6
  <2>2. X \subseteq Nat /\ 0 .. x - 1 \subseteq Nat
    BY <1>5, <1>7
  <2>3. QED
    BY <2>1, <2>2 DEF R, StrictSubsetOrdering
<1>11. QED
  BY <1>4, <1>9, <1>10

LEMMA WalkExists == \A start, list : \A n \in Nat : \E f : Walks(f, start, list, n)
<1> TAKE start, list
<1> DEFINE T == {n \in Nat : \E f : Walks(f, start, list, n)}
<1>1. 0 \in T
  <2>1. Walks([i \in 0 .. 0 |-> start], start, list, 0)
    BY DEF Walks
  <2>2. QED
    BY <2>1
<1>2. ASSUME NEW n \in Nat, n \in T PROVE n + 1 \in T
  <2>1. PICK f : Walks(f, start, list, n)
    BY <1>2
  <2> DEFINE g == [i \in 0 .. n + 1 |-> IF i <= n THEN f[i] ELSE Step(f[n], list, n + 1)]
  <2>2. \A i \in 0 .. n : g[i] = f[i]
    OBVIOUS
  <2>3. g[n + 1] = Step(f[n], list, n + 1)
    OBVIOUS
  <2>4. \A i \in 0 .. n : f[i] = IF i = 0 THEN start ELSE Step(f[i - 1], list, i)
    BY <2>1 DEF Walks
  <2>5. g = [i \in 0 .. n + 1 |-> g[i]]
    OBVIOUS
  <2> HIDE DEF g
  <2>6. \A i \in 0 .. n + 1 : g[i] = IF i = 0 THEN start ELSE Step(g[i - 1], list, i)
    <3> TAKE i \in 0 .. n + 1
    <3>1. CASE i = n + 1
      BY <2>2, <2>3, <3>1
    <3>2. CASE i \in 1 .. n
      <4>1. i - 1 \in 0 .. n
        BY <3>2
      <4>2. QED
        BY <2>2, <2>4, <3>2, <4>1
    <3>3. CASE i = 0
      BY <2>2, <2>4, <3>3
    <3>4. QED
      BY <3>1, <3>2, <3>3
  <2>7. Walks(g, start, list, n + 1)
    BY <2>5, <2>6 DEF Walks
  <2>8. QED
    BY <2>7
<1> HIDE DEF T
<1>3. \A n \in Nat : n \in T
  BY <1>1, <1>2, SetInduction
<1>4. QED
  BY <1>3 DEF T

(* After no step there is what the walk started with, and after each step  *)
(* what it makes of the last.                                              *)
THEOREM Iterates ==
  \A start, list : \A n \in Nat :
    /\ Iterated(start, list, n)[0] = start
    /\ \A i \in 1 .. n :
         Iterated(start, list, n)[i] = Step(Iterated(start, list, n)[i - 1], list, i)
<1> TAKE start, list
<1> TAKE n \in Nat
<1> DEFINE g == Iterated(start, list, n)
<1>1. Walks(g, start, list, n)
  <2>1. \E f : Walks(f, start, list, n)
    BY WalkExists
  <2>2. g = CHOOSE f : Walks(f, start, list, n)
    BY DEF Iterated, Walks
  <2> HIDE DEF g
  <2>3. QED
    BY <2>1, <2>2
<1> HIDE DEF g
<1>2. \A i \in 0 .. n : g[i] = IF i = 0 THEN start ELSE Step(g[i - 1], list, i)
  BY <1>1 DEF Walks
<1>3. g[0] = start /\ \A i \in 1 .. n : g[i] = Step(g[i - 1], list, i)
  BY <1>2
<1>4. QED
  BY <1>3 DEF g
==============================================================================
