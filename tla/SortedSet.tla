------------------------------ MODULE SortedSet ------------------------------
(***************************************************************************)
(* What src/util/zset.go promises to the gateway and to the online         *)
(* service: a map from members to scores, together with the entries in     *)
(* the order of the skip list.  Members are natural numbers standing for   *)
(* the uids in the byte order of Go strings.  The skip list itself, with   *)
(* its levels, spans and back pointers, is module SkipList.                *)
(***************************************************************************)
EXTENDS Integers, FiniteSets, GoMap

\* A node of the list, <<score, member>>.
Entry(m, s) == <<s, m>>
Member(e) == e[2]

\* The order of the list: by score, and by member among equal scores.
Before(e, f) == e[1] < f[1] \/ (e[1] = f[1] /\ e[2] < f[2])

FirstOf(S) == CHOOSE e \in S : \A f \in S \ {e} : Before(e, f)

Entries(z) == {Entry(m, z[m]) : m \in DOMAIN z}

\* The entries ForEachByScore visits between two finite, inclusive borders.
InRange(S, min, max) == {e \in S : min <= e[1] /\ e[1] <= max}

\* Add and Remove on the map and on the list it keeps in step.
ListAdd(S, z, m, s) ==
  (IF m \in DOMAIN z THEN S \ {Entry(m, z[m])} ELSE S) \cup {Entry(m, s)}
ListRemove(S, z, m) == S \ {Entry(m, z[m])}

\* PopMin(1) on a set that is not empty: the member it pops.
MinMember(z) == Member(FirstOf(Entries(z)))
==============================================================================
