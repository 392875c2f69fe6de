-------------------------- MODULE SortedSetTheorems --------------------------
(***************************************************************************)
(* Facts about maps and sorted sets that the proofs of the components      *)
(* cite, for all keys, values and members.                                 *)
(***************************************************************************)
EXTENDS SortedSet, WellFoundedInduction, TLAPS

\* m[k] = v leaves a map whose keys are those of m and k.
LEMMA PutMap ==
  ASSUME NEW K, NEW V, NEW m, IsMap(m, K, V), NEW k \in K, NEW v \in V
  PROVE  /\ IsMap(Put(m, k, v), K, V)
         /\ DOMAIN Put(m, k, v) = DOMAIN m \cup {k}
         /\ Put(m, k, v)[k] = v
         /\ \A x \in DOMAIN m \ {k} : Put(m, k, v)[x] = m[x]
  BY DEF IsMap, Put

\* delete(m, k) leaves the other keys alone.
LEMMA DeleteMap ==
  ASSUME NEW K, NEW V, NEW m, IsMap(m, K, V), NEW k
  PROVE  /\ IsMap(Delete(m, k), K, V)
         /\ DOMAIN Delete(m, k) = DOMAIN m \ {k}
         /\ \A x \in DOMAIN m \ {k} : Delete(m, k)[x] = m[x]
  BY DEF IsMap, Delete, Restrict

\* A nonempty set of natural numbers has a smallest element.
LEMMA NatMin ==
  ASSUME NEW S \in SUBSET Nat, S # {}
  PROVE  \E x \in S : \A y \in S : x <= y
<1>1. PICK x \in S : \A y \in S : <<y, x>> \notin OpToRel(<, Nat)
  BY NatLessThanWellFounded, WFMin, Zenon
<1>2. \A y \in S : ~ (y < x)
  BY <1>1 DEF OpToRel
<1> QED BY <1>2

\* The list has a first entry, and it comes before every other.
LEMMA FirstOfEntries ==
  ASSUME NEW S \in SUBSET (Nat \X Nat), S # {}
  PROVE  /\ FirstOf(S) \in S
         /\ \A f \in S \ {FirstOf(S)} : Before(FirstOf(S), f)
<1> DEFINE X == {e[1] : e \in S}
<1>1. PICK x \in X : \A y \in X : x <= y
  <2>1. X \in SUBSET Nat /\ X # {}
    OBVIOUS
  <2> HIDE DEF X
  <2> QED BY <2>1, NatMin
<1> DEFINE T == {e[2] : e \in {g \in S : g[1] = x}}
<1>2. PICK y \in T : \A z \in T : y <= z
  <2>1. T \in SUBSET Nat /\ T # {}
    BY <1>1
  <2> QED BY <2>1, NatMin
<1>3. PICK e \in S : e[1] = x /\ e[2] = y
  BY <1>2
<1>4. ASSUME NEW f \in S \ {e} PROVE Before(e, f)
  <2>1. e[1] <= f[1] /\ e[1] \in Nat /\ f[1] \in Nat /\ e[2] \in Nat /\ f[2] \in Nat
    BY <1>1, <1>3
  <2>2. CASE e[1] < f[1]
    BY <2>2 DEF Before
  <2>3. CASE e[1] = f[1]
    <3>1. e[2] <= f[2]
      BY <2>3, <1>2, <1>3
    <3>2. e[2] # f[2]
      BY <2>3
    <3> QED BY <2>1, <2>3, <3>1, <3>2 DEF Before
  <2> QED BY <2>1, <2>2, <2>3
<1> QED BY <1>3, <1>4 DEF FirstOf
==============================================================================
