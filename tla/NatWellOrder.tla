--------------------------- MODULE NatWellOrder ---------------------------
(***************************************************************************)
(* Least and greatest elements of sets of naturals, from the               *)
(* well-foundedness of < on Nat.  The proof modules use them in place of   *)
(* induction: a property of 0..n fails first somewhere, or a set of        *)
(* indices for which a partial result exists has a largest member.         *)
(***************************************************************************)
EXTENDS Naturals, WellFoundedInduction, TLAPS

\* A non-empty set of naturals has a least element.
LEMMA MinExists ==
    ASSUME NEW T \in SUBSET Nat, T # {}
    PROVE  \E x \in T : \A y \in T : x <= y
<1>1. PICK x \in T : \A y \in T : ~(<<y, x>> \in OpToRel(<, Nat))
  BY WFMin, NatLessThanWellFounded
<1>2. ASSUME NEW y \in T PROVE x <= y
  <2>1. ~(<<y, x>> \in OpToRel(<, Nat))
    BY <1>1
  <2>2. ~(y < x)
    BY <2>1 DEF OpToRel
  <2>3. QED
    BY <2>2
<1>3. QED
  BY <1>2

(***************************************************************************)
(* A non-empty set of naturals bounded by n has a greatest element: the    *)
(* least element of its reflection {n - t}, which exists since < is        *)
(* well-founded on Nat.                                                    *)
(***************************************************************************)
LEMMA MaxExists ==
    ASSUME NEW n \in Nat, NEW T \in SUBSET (0..n), T # {}
    PROVE  \E d \in T : \A e \in T : e <= d
<1> DEFINE U == {n - t : t \in T}
<1>1. \A t \in T : n - t \in Nat
  OBVIOUS
<1>2. U \subseteq Nat /\ U # {}
  BY <1>1
<1>3. PICK x \in U : \A y \in U : ~(<<y, x>> \in OpToRel(<, Nat))
  BY <1>2, WFMin, NatLessThanWellFounded
<1>4. PICK d \in T : x = n - d
  OBVIOUS
<1>5. ASSUME NEW e \in T PROVE e <= d
  <2>1. n - e \in U /\ n - d \in Nat /\ n - e \in Nat
    BY <1>1
  <2>2. ~(<<n - e, n - d>> \in OpToRel(<, Nat))
    BY <1>3, <1>4, <2>1
  <2>3. ~(n - e < n - d)
    BY <2>1, <2>2 DEF OpToRel
  <2>4. QED
    BY <2>3
<1>6. QED
  BY <1>5

\* The set of indices of 0..n where a property of a table fails is a set
\* of naturals; when it is not empty it has a least element.
LEMMA FirstIndex ==
    ASSUME NEW n \in Nat, NEW T \in SUBSET (0..n), T # {}
    PROVE  \E k \in T : \A j \in T : k <= j
BY MinExists

=============================================================================
