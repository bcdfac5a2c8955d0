------------------------------ MODULE Waiting ------------------------------
(***************************************************************************)
(* What the proofs about row locks need of waiting in general: requests    *)
(* that all wait for one another wait in a cycle, somewhere, and a cycle   *)
(* is what a database breaks.                                              *)
(***************************************************************************)
EXTENDS FiniteSetTheorems, WellFoundedInduction, TLAPS

\* Where everyone of a finite set waits for another of the set, some of them
\* wait in a cycle: a smallest set that is closed under waiting is one.
LEMMA CycleOfWaits ==
  ASSUME NEW B, IsFiniteSet(B), B # {}, NEW W,
         \A t \in B : \E u \in B \ {t} : <<t, u>> \in W
  PROVE  \E S \in SUBSET B :
           /\ S # {}
           /\ \A t \in S : \E u \in S \ {t} : <<t, u>> \in W
           /\ \A u \in S : \E t \in S \ {u} : <<t, u>> \in W
<1> DEFINE Closed(S) == \A t \in S : \E u \in S \ {t} : <<t, u>> \in W
           C == {S \in SUBSET B : S # {} /\ Closed(S)}
<1>1. IsWellFoundedOn(StrictSubsetOrdering(B), SUBSET B)
  BY FS_StrictSubsetOrderingWellFounded, FS_FiniteSubsetsOfFinite
<1>2. C \subseteq SUBSET B /\ C # {}
  BY B \in C
<1>3. \E S \in C : \A T \in C : ~ (<<T, S>> \in StrictSubsetOrdering(B))
  <2> HIDE DEF C
  <2> QED
    BY <1>1, <1>2, WFMin
<1>4. PICK S \in C : \A T \in C : ~ (T \subseteq S /\ T # S)
  BY <1>3 DEF StrictSubsetOrdering
<1>5. ASSUME NEW v \in S, \A t \in S \ {v} : <<t, v>> \notin W
      PROVE  FALSE
  <2> DEFINE T == S \ {v}
  <2>1. T \in C
    BY <1>5
  <2> QED
    BY <1>4, <2>1
<1> QED
  BY <1>4, <1>5
=============================================================================
