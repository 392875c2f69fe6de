-------------------------- MODULE MergeSearchProofs --------------------------
(***************************************************************************)
(* Proofs about MergeSearch, for every set of callers and keys and every   *)
(* number of flights.                                                      *)
(***************************************************************************)
EXTENDS MergeSearch, TLAPS

\* The inductive invariant: TypeOK, SingleFlight and NobodyForgotten need one
\* another, and OwnFlight needs to know what leaders and waiters expect.

\* Channels are only left where a blocked caller reads them.
OnlyWaitersListed ==
  /\ \A k \in Keys : \A w \in WaitingFor(k) : pc[w] = "wait" /\ key[w] = k
  /\ \A p \in Callers : \A w \in taken[p] : pc[w] = "wait"
  /\ \A p \in Callers : taken[p] # {} => pc[p] = "send"

\* A waiter expects the flight of the leader that will serve it.
SameFlight ==
  /\ \A p \in Callers : pc[p] \in {"take", "send", "done"} => result[p] = flight[p]
  /\ \A p, w \in Callers : Leads(p, key[w]) /\ w \in WaitingFor(key[w]) => flight[w] = flight[p]
  /\ \A p, w \in Callers : w \in taken[p] => flight[w] = flight[p]

IInv == TypeOK /\ SingleFlight /\ NobodyForgotten /\ OnlyWaitersListed /\ SameFlight

\* What Put and Delete do to the waiters of each key.
LEMMA WaitsPut ==
  ASSUME IsMap(waits, Keys, SUBSET Callers), NEW k \in Keys, NEW S \in SUBSET Callers,
         waits' = Put(waits, k, S)
  PROVE  /\ IsMap(waits', Keys, SUBSET Callers)
         /\ \A j \in Keys : WaitingFor(j)' = IF j = k THEN S ELSE WaitingFor(j)
  BY DEF IsMap, Put, WaitingFor

LEMMA WaitsDelete ==
  ASSUME IsMap(waits, Keys, SUBSET Callers), NEW k \in Keys, waits' = Delete(waits, k)
  PROVE  /\ IsMap(waits', Keys, SUBSET Callers)
         /\ \A j \in Keys : WaitingFor(j)' = IF j = k THEN {} ELSE WaitingFor(j)
  BY DEF IsMap, Delete, Restrict, WaitingFor

LEMMA WaitingForSubset ==
  ASSUME IsMap(waits, Keys, SUBSET Callers), NEW k \in Keys
  PROVE  WaitingFor(k) \subseteq Callers
  BY DEF IsMap, WaitingFor

LEMMA InitIInv == Init => IInv
  BY DEF Init, IInv, TypeOK, SingleFlight, NobodyForgotten, OnlyWaitersListed, SameFlight,
         IsMap, EmptyMap, WaitingFor, Leads

LEMMA LeadIInv ==
  ASSUME IInv, NEW p \in Callers, NEW k \in Keys, Lead(p, k)
  PROVE  IInv'
<1> USE DEF IInv
<1>w. \A j \in Keys : WaitingFor(j)' = WaitingFor(j)
  BY DEF Lead, WaitingFor
<1>1. TypeOK'
  BY DEF Lead, TypeOK
<1>e. WaitingFor(k) = {}
  <2>1. SUFFICES ASSUME NEW w \in WaitingFor(k) PROVE FALSE
    OBVIOUS
  <2>2. w \in Callers /\ pc[w] = "wait" /\ key[w] = k
    BY WaitingForSubset DEF TypeOK, OnlyWaitersListed
  <2>3. w \notin WaitingFor(key[w])
    BY <2>2 DEF NobodyForgotten, Lead, OnlyWaitersListed
  <2> QED BY <2>2, <2>3
<1>2. SingleFlight'
  BY DEF Lead, SingleFlight, Leads, TypeOK
<1>3. OnlyWaitersListed'
  BY <1>w, WaitingForSubset DEF Lead, OnlyWaitersListed, TypeOK
<1>4. NobodyForgotten'
  BY <1>w DEF Lead, NobodyForgotten, OnlyWaitersListed, TypeOK
<1>5. SameFlight'
  BY <1>w, <1>e, WaitingForSubset DEF Lead, SameFlight, OnlyWaitersListed, TypeOK, Leads
<1> QED BY <1>1, <1>2, <1>3, <1>4, <1>5

LEMMA JoinIInv ==
  ASSUME IInv, NEW p \in Callers, NEW k \in Keys, Join(p, k)
  PROVE  IInv'
<1> USE DEF IInv
<1> DEFINE S == WaitingFor(k) \cup {p}
<1>s. S \in SUBSET Callers /\ waits' = Put(waits, k, S)
  BY WaitingForSubset DEF TypeOK, Join, WaitingFor
<1>w. /\ IsMap(waits', Keys, SUBSET Callers)
      /\ \A j \in Keys : WaitingFor(j)' = IF j = k THEN WaitingFor(k) \cup {p} ELSE WaitingFor(j)
  BY <1>s, WaitsPut DEF TypeOK
<1>q. PICK q \in Callers : Leads(q, k)
  BY DEF SingleFlight, Join
<1>f. flight' = [flight EXCEPT ![p] = flight[q]]
  BY <1>q DEF Join, SingleFlight
<1>n. q # p /\ \A j \in Callers : p \notin taken[j]
  BY <1>q DEF Leads, Join, OnlyWaitersListed, TypeOK
<1>m. \A j \in Keys : p \notin WaitingFor(j)
  BY DEF Join, OnlyWaitersListed
<1>l. \A r \in Callers : \A j \in Keys : Leads(r, j)' <=> Leads(r, j)
  BY DEF Leads, Join, TypeOK
<1>1. TypeOK'
  BY <1>w, <1>f DEF Join, TypeOK
<1>2. SingleFlight'
  BY <1>l DEF Join, SingleFlight
<1>3. OnlyWaitersListed'
  BY <1>w, <1>n, <1>m, WaitingForSubset DEF Join, OnlyWaitersListed, TypeOK
<1>4. NobodyForgotten'
  BY <1>w, <1>n DEF Join, NobodyForgotten, OnlyWaitersListed, TypeOK
<1>5. SameFlight'
  <2>1. \A r \in Callers : pc'[r] \in {"take", "send", "done"} => result'[r] = flight'[r]
    BY <1>f DEF Join, SameFlight, TypeOK
  <2>2. ASSUME NEW r \in Callers, NEW w \in Callers,
               Leads(r, key[w])', w \in WaitingFor(key[w])'
        PROVE  flight'[w] = flight'[r]
    <3>1. CASE w = p
      BY <3>1, <2>2, <1>q, <1>f, <1>n, <1>l DEF Join, SingleFlight, TypeOK
    <3>2. CASE w # p
      <4>1. key'[w] = key[w] /\ key[w] \in Keys /\ r # p
        BY <3>2, <2>2 DEF Join, TypeOK, Leads
      <4>2. Leads(r, key[w]) /\ w \in WaitingFor(key[w])
        BY <4>1, <3>2, <2>2, <1>w, <1>l
      <4> QED BY <4>1, <4>2, <3>2, <1>f DEF SameFlight, TypeOK
    <3> QED BY <3>1, <3>2
  <2>3. \A r, w \in Callers : w \in taken'[r] => flight'[w] = flight'[r]
    BY <1>f, <1>n DEF Join, SameFlight, OnlyWaitersListed, TypeOK
  <2> QED BY <2>1, <2>2, <2>3 DEF SameFlight
<1> QED BY <1>1, <1>2, <1>3, <1>4, <1>5

LEMMA RunIInv ==
  ASSUME IInv, NEW p \in Callers, Run(p)
  PROVE  IInv'
<1> USE DEF IInv
<1>w. \A j \in Keys : WaitingFor(j)' = WaitingFor(j)
  BY DEF Run, WaitingFor
<1>l. \A r \in Callers : \A j \in Keys : Leads(r, j)' <=> Leads(r, j)
  BY DEF Leads, Run, TypeOK
<1>1. TypeOK'
  BY DEF Run, TypeOK
<1>2. SingleFlight'
  BY <1>l DEF Run, SingleFlight
<1>3. OnlyWaitersListed'
  BY <1>w, WaitingForSubset DEF Run, OnlyWaitersListed, TypeOK
<1>4. NobodyForgotten'
  BY <1>w DEF Run, NobodyForgotten, OnlyWaitersListed, TypeOK
<1>5. SameFlight'
  BY <1>w, <1>l DEF Run, SameFlight, OnlyWaitersListed, TypeOK
<1> QED BY <1>1, <1>2, <1>3, <1>4, <1>5

LEMMA TakeIInv ==
  ASSUME IInv, NEW p \in Callers, Take(p)
  PROVE  IInv'
<1> USE DEF IInv
<1> DEFINE k == key[p]
<1>k. k \in Keys /\ Leads(p, k)
  BY DEF TypeOK, Take, Leads
<1>w. /\ IsMap(waits', Keys, SUBSET Callers)
      /\ \A j \in Keys : WaitingFor(j)' = IF j = k THEN {} ELSE WaitingFor(j)
  BY <1>k, WaitsDelete DEF TypeOK, Take
<1>t. taken' = [taken EXCEPT ![p] = WaitingFor(k)]
  BY DEF Take, WaitingFor
<1>l. \A r \in Callers : \A j \in Keys : Leads(r, j)' <=> (Leads(r, j) /\ r # p)
  BY DEF Leads, Take, TypeOK
<1>1. TypeOK'
  BY <1>w, <1>t, <1>k, WaitingForSubset DEF Take, TypeOK
<1>2. SingleFlight'
  BY <1>l, <1>k DEF Take, SingleFlight, Leads
<1>3. OnlyWaitersListed'
  BY <1>w, <1>t, <1>k, WaitingForSubset DEF Take, OnlyWaitersListed, TypeOK
<1>4. NobodyForgotten'
  <2> SUFFICES ASSUME NEW w \in Callers, pc'[w] = "wait"
               PROVE  \/ /\ key'[w] \in caches' /\ w \in WaitingFor(key[w])'
                         /\ \A q \in Callers : w \notin taken'[q]
                      \/ /\ w \notin WaitingFor(key[w])'
                         /\ \E q \in Callers : /\ pc'[q] = "send" /\ w \in taken'[q]
                                               /\ \A r \in Callers \ {q} : w \notin taken'[r]
    BY DEF NobodyForgotten
  <2>1. pc[w] = "wait" /\ w # p /\ key'[w] = key[w] /\ key[w] \in Keys
    BY DEF Take, TypeOK
  <2>e. taken[p] = {}
    BY DEF Take, OnlyWaitersListed
  <2>2. CASE key[w] = k /\ w \in WaitingFor(k)
    <3>1. pc'[p] = "send" /\ w \in taken'[p] /\ \A q \in Callers : w \notin taken[q]
      BY <2>1, <2>2, <1>t DEF NobodyForgotten, Take, TypeOK
    <3> QED BY <3>1, <2>1, <2>2, <1>w, <1>t DEF TypeOK
  <2>3. CASE key[w] # k /\ w \in WaitingFor(key[w])
    <3>1. key[w] \in caches' /\ w \notin WaitingFor(k) /\ \A q \in Callers : w \notin taken[q]
      BY <2>1, <2>3, <1>k DEF NobodyForgotten, Take, OnlyWaitersListed
    <3> QED BY <3>1, <2>1, <2>3, <1>w, <1>t, <1>k DEF TypeOK
  <2>4. CASE w \notin WaitingFor(key[w])
    <3>1. PICK q \in Callers : /\ pc[q] = "send" /\ w \in taken[q]
                               /\ \A r \in Callers \ {q} : w \notin taken[r]
      BY <2>1, <2>4 DEF NobodyForgotten
    <3>2. q # p /\ w \notin WaitingFor(k)
      BY <3>1, <2>1, <2>4, <2>e, <1>k DEF OnlyWaitersListed
    <3> QED BY <3>1, <3>2, <2>1, <2>4, <1>w, <1>t DEF Take, TypeOK
  <2> QED BY <2>2, <2>3, <2>4
<1>5. SameFlight'
  BY <1>w, <1>t, <1>l, <1>k, WaitingForSubset DEF Take, SameFlight, OnlyWaitersListed, TypeOK
<1> QED BY <1>1, <1>2, <1>3, <1>4, <1>5

LEMMA SendIInv ==
  ASSUME IInv, NEW p \in Callers, NEW w \in Callers, Send(p, w)
  PROVE  IInv'
<1> USE DEF IInv
<1>w. \A j \in Keys : WaitingFor(j)' = WaitingFor(j)
  BY DEF Send, WaitingFor
<1>l. \A r \in Callers : \A j \in Keys : Leads(r, j)' <=> Leads(r, j)
  BY DEF Leads, Send, TypeOK
<1>o. /\ p # w /\ \A r \in Callers \ {p} : w \notin taken[r]
      /\ \A j \in Keys : w \notin WaitingFor(j)
  BY WaitingForSubset DEF Send, NobodyForgotten, OnlyWaitersListed, TypeOK
<1>1. TypeOK'
  BY DEF Send, TypeOK
<1>2. SingleFlight'
  BY <1>l DEF Send, SingleFlight
<1>3. OnlyWaitersListed'
  BY <1>w, <1>o, WaitingForSubset DEF Send, OnlyWaitersListed, TypeOK
<1>4. NobodyForgotten'
  <2> SUFFICES ASSUME NEW v \in Callers, pc'[v] = "wait"
               PROVE  \/ /\ key'[v] \in caches' /\ v \in WaitingFor(key[v])'
                         /\ \A q \in Callers : v \notin taken'[q]
                      \/ /\ v \notin WaitingFor(key[v])'
                         /\ \E q \in Callers : /\ pc'[q] = "send" /\ v \in taken'[q]
                                               /\ \A r \in Callers \ {q} : v \notin taken'[r]
    BY DEF NobodyForgotten
  <2>1. v # w /\ pc[v] = "wait" /\ key'[v] = key[v] /\ key[v] \in Keys
    BY DEF Send, TypeOK
  <2>2. \A q \in Callers : v \in taken'[q] <=> v \in taken[q]
    BY <2>1 DEF Send, TypeOK
  <2>3. \A q \in Callers : pc[q] = "send" => pc'[q] = "send"
    BY DEF Send, TypeOK
  <2> QED BY <2>1, <2>2, <2>3, <1>w DEF NobodyForgotten, Send
<1>5. SameFlight'
  BY <1>w, <1>l, <1>o DEF Send, SameFlight, OnlyWaitersListed, TypeOK
<1> QED BY <1>1, <1>2, <1>3, <1>4, <1>5

LEMMA ReturnIInv ==
  ASSUME IInv, NEW p \in Callers, Served(p) \/ Return(p)
  PROVE  IInv'
<1> USE DEF IInv
<1>w. \A j \in Keys : WaitingFor(j)' = WaitingFor(j)
  BY DEF Served, Return, WaitingFor
<1>l. \A r \in Callers : \A j \in Keys : Leads(r, j)' <=> Leads(r, j)
  BY DEF Leads, Served, Return, TypeOK
<1>1. TypeOK'
  BY DEF Served, Return, TypeOK
<1>2. SingleFlight'
  BY <1>l DEF Served, Return, SingleFlight
<1>3. OnlyWaitersListed'
  BY <1>w, WaitingForSubset DEF Served, Return, OnlyWaitersListed, TypeOK
<1>4. NobodyForgotten'
  BY <1>w DEF Served, Return, NobodyForgotten, OnlyWaitersListed, TypeOK
<1>5. SameFlight'
  BY <1>w, <1>l DEF Served, Return, SameFlight, OnlyWaitersListed, TypeOK
<1> QED BY <1>1, <1>2, <1>3, <1>4, <1>5

LEMMA StutterIInv ==
  ASSUME IInv, UNCHANGED vars
  PROVE  IInv'
  BY DEF IInv, vars, TypeOK, SingleFlight, NobodyForgotten, OnlyWaitersListed, SameFlight,
         WaitingFor, Leads

LEMMA NextIInv == IInv /\ [Next]_vars => IInv'
  BY LeadIInv, JoinIInv, RunIInv, TakeIInv, SendIInv, ReturnIInv, StutterIInv
     DEF Next, Step, Stopped

\* The invariant holds in every state MergeSearch reaches.
THEOREM Invariance == Spec => []IInv
  BY InitIInv, NextIInv, PTL DEF Spec

\* caches, waits and the callers' control state stay well formed.
THEOREM TypeCorrectness == Spec => []TypeOK
  BY Invariance, PTL DEF IInv

\* Call never runs the function twice at a time for one key, and caches holds
\* exactly the keys it is running for.
THEOREM FlightsAreSingle == Spec => []SingleFlight
  BY Invariance, PTL DEF IInv

\* No caller blocks on a channel that no leader holds or will find in waits.
THEOREM NobodyIsForgotten == Spec => []NobodyForgotten
  BY Invariance, PTL DEF IInv

\* Call returns the result of the run it started or joined.
THEOREM ResultIsOwn == Spec => []OwnFlight
<1>1. IInv => OwnFlight
  BY DEF IInv, SameFlight, OwnFlight
<1> QED BY <1>1, Invariance, PTL
==============================================================================
