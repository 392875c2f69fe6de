-------------------------------- MODULE GoMap --------------------------------
(***************************************************************************)
(* A Go map is a function whose domain is the set of keys present.  The    *)
(* lookup v, ok := m[k] is  k \in DOMAIN m  and  m[k].                     *)
(***************************************************************************)
EXTENDS Functions

\* m is a map[K]V.
IsMap(m, K, V) == DOMAIN m \subseteq K /\ m \in [DOMAIN m -> V]

EmptyMap == [k \in {} |-> k]

\* m[k] = v
Put(m, k, v) == [x \in DOMAIN m \cup {k} |-> IF x = k THEN v ELSE m[x]]

\* delete(m, k)
Delete(m, k) == Restrict(m, DOMAIN m \ {k})
==============================================================================
