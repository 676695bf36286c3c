---------------------------- MODULE LeastNumber ----------------------------
(* A fact about numbers the proofs share: a map of origins keeps the least of
   several copies. *)
EXTENDS Integers, FiniteSetTheorems, WellFoundedInduction, TLAPS

(* Every nonempty set of numbers has a least element: of the sets of its members up
   to c, one is least under inclusion. *)
LEMMA Smallest ==
    ASSUME NEW S \in SUBSET Nat, S # {}
    PROVE  \E c \in S : \A d \in S : c <= d
<1> DEFINE Upto(c) == {d \in S : d <= c}
           T == {Upto(c) : c \in S}
<1>1. ASSUME NEW c \in S PROVE IsFiniteSet(Upto(c))
    BY FS_BoundedSetOfNaturals, Upto(c) \in SUBSET Nat, c \in Nat
<1>2. T \subseteq FiniteSubsetsOf(Nat) /\ T # {}
    BY <1>1 DEF FiniteSubsetsOf
<1>3. PICK x \in T : \A y \in T : <<y, x>> \notin StrictSubsetOrdering(Nat)
    <2> HIDE DEF T
    <2> QED BY <1>2, FS_StrictSubsetOrderingWellFounded, WFMin
<1>4. PICK c \in S : x = Upto(c)
    BY <1>3
<1>5. ASSUME NEW d \in S, ~(c <= d) PROVE FALSE
    <2>0. d < c /\ c <= c /\ \A e \in S : e <= d => e <= c
        <3>1. c \in Nat /\ d \in Nat /\ \A e \in S : e \in Nat
            OBVIOUS
        <3> QED BY <3>1, <1>5
    <2>1. Upto(d) \subseteq Upto(c) /\ c \in Upto(c) /\ c \notin Upto(d)
        BY <1>5, <2>0
    <2>2. <<Upto(d), x>> \in StrictSubsetOrdering(Nat)
        BY <1>4, <2>1 DEF StrictSubsetOrdering
    <2> QED BY <1>3, <2>2
<1> QED BY <1>5

=============================================================================
