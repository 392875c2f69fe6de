---------------------------- MODULE NamingProofs ----------------------------
(***************************************************************************)
(* Proofs about Naming, for any addresses, processes and interval between  *)
(* keep-alives: the keys change as Directory says, and a process that etcd *)
(* can reach stays listed.                                                 *)
(***************************************************************************)
EXTENDS Naming, TLAPS

-----------------------------------------------------------------------------
(* The inductive invariant. *)

Event == [op : {"put", "del"}, addr : Addrs, id : Ids \cup {NoId}]

\* A process that has not put its key yet is in no report.
Unregistered == {"new", "started", "granted"}
PutOnce == \A n \in DOMAIN log : \A i \in Ids : log[n].id = i => proc[i] \notin Unregistered

\* A process that has put its key is in a report, at its address.
PutSeen(i) == \E n \in DOMAIN log : log[n].addr = home[i] /\ log[n].id = i

\* Between two keep-alives the lease is two intervals longer than the time to
\* the next: nothing has been lost as long as every keep-alive gets through.
UncutInv(i) ==
  /\ i \in linked
  /\ proc[i] = "granted" => left[i] = Ttl
  /\ proc[i] \in Registered => left[i] = due[i] + 2 * KeepAliveTtl
  /\ proc[i] \in Registered => PutSeen(i) /\ (kv[home[i]] = i \/ TakenOver(i))

IInv == TypeOK /\ PutOnce /\ \A i \in Ids \ cut : UncutInv(i)

-----------------------------------------------------------------------------
(* Facts about the steps. *)

\* A report added to the log takes nothing back.
LEMMA LogGrows ==
  ASSUME TypeOK, home' = home, NEW e \in Event, log' = Append(log, e)
  PROVE  /\ log' \in Seq(Event) /\ DOMAIN log \subseteq DOMAIN log'
         /\ \A n \in DOMAIN log : log'[n] = log[n]
         /\ \E last \in DOMAIN log' : log'[last] = e /\ \A n \in DOMAIN log : n < last
         /\ \A n \in DOMAIN log' : n \in DOMAIN log \/ log'[n] = e
         /\ \A i \in Ids : (PutSeen(i) => PutSeen(i)') /\ (TakenOver(i) => TakenOver(i)')
<1>1. log \in Seq(Event)
  BY DEF TypeOK, Event
<1>2. Len(log) + 1 \in DOMAIN log' /\ log'[Len(log) + 1] = e /\ \A n \in DOMAIN log : n < Len(log) + 1
  BY <1>1
<1>3. /\ log' \in Seq(Event) /\ DOMAIN log \subseteq DOMAIN log'
      /\ \A n \in DOMAIN log : log'[n] = log[n]
      /\ \A n \in DOMAIN log' : n \in DOMAIN log \/ log'[n] = e
  BY <1>1
<1>4. \A i \in Ids : (PutSeen(i) => PutSeen(i)') /\ (TakenOver(i) => TakenOver(i)')
  BY <1>3 DEF PutSeen, TakenOver
<1> QED BY <1>2, <1>3, <1>4

\* The steps in which neither the keys nor the log change leave the reports'
\* part of the invariant to the steps of the processes.
LEMMA SameLog ==
  ASSUME UNCHANGED <<kv, log, home>>
  PROVE  \A i : (PutSeen(i)' <=> PutSeen(i)) /\ (TakenOver(i)' <=> TakenOver(i))
  BY DEF PutSeen, TakenOver

\* How far a process may get in a step other than PutKey.
LEMMA Forward ==
  ASSUME TypeOK, PutOnce, UNCHANGED log,
         \A i \in Ids : proc[i] \notin Unregistered => proc'[i] \notin Unregistered
  PROVE  PutOnce'
  BY DEF PutOnce

-----------------------------------------------------------------------------
(* The invariant is inductive. *)

LEMMA InitIInv == Init => IInv
<1> SUFFICES ASSUME Init PROVE IInv
  OBVIOUS
<1>1. TypeOK
  <2>1. log \in Seq(Event) /\ Ttl \in Nat
    BY TtlAssumption DEF Init, Ttl
  <2> QED BY <2>1, TtlAssumption DEF Init, TypeOK, Event
<1>2. PutOnce
  BY DEF Init, PutOnce
<1>3. \A i \in Ids : UncutInv(i)
  BY DEF Init, UncutInv, Registered
<1> QED BY <1>1, <1>2, <1>3 DEF IInv

LEMMA LifeKeepsIInv ==
  ASSUME IInv, NEW i \in Ids, Launch(i) \/ Grant(i) \/ RegisterFails(i) \/ Listen(i) \/ Stop(i)
  PROVE  IInv'
<1>1. UNCHANGED <<kv, log, home, due, linked, cut>>
  BY DEF Launch, Grant, RegisterFails, Listen, Stop, etcd
<1>2. TypeOK'
  <2> USE DEF IInv, TypeOK
  <2>1. CASE Launch(i) \/ RegisterFails(i)
    BY <1>1, <2>1 DEF Launch, RegisterFails, etcd
  <2>2. CASE Grant(i)
    <3>1. Ttl \in 0..Ttl
      BY TtlAssumption DEF Ttl
    <3> QED BY <1>1, <2>2, <3>1 DEF Grant
  <2>3. CASE Listen(i)
    BY <1>1, <2>3 DEF Listen, etcd, Registered
  <2>4. CASE Stop(i)
    BY <1>1, <2>4 DEF Stop, etcd
  <2> QED BY <2>1, <2>2, <2>3, <2>4
<1>3. PutOnce'
  <2>1. \A j \in Ids : proc[j] \notin Unregistered => proc'[j] \notin Unregistered
    BY DEF Launch, Grant, RegisterFails, Listen, Stop, IInv, TypeOK, Unregistered
  <2> QED BY <1>1, <2>1, Forward DEF IInv
<1>4. ASSUME NEW j \in Ids \ cut PROVE UncutInv(j)'
  <2>1. UncutInv(j)
    BY DEF IInv
  <2>2. CASE j # i
    BY <1>1, <2>1, <2>2, SameLog DEF UncutInv, Launch, Grant, RegisterFails, Listen, Stop, etcd, IInv, TypeOK
  <2>3. CASE j = i
    BY <1>1, <2>1, <2>3, SameLog DEF UncutInv, Launch, Grant, RegisterFails, Listen, Stop, etcd, IInv, TypeOK, Registered
  <2> QED BY <2>2, <2>3
<1> QED BY <1>1, <1>2, <1>3, <1>4 DEF IInv

\* The key is put with the lease at its full length.
LEMMA PutKeyKeepsIInv == ASSUME IInv, NEW i \in Ids, PutKey(i) PROVE IInv'
<1> DEFINE e == [op |-> "put", addr |-> home[i], id |-> i]
<1>1. /\ e \in Event /\ log' = Append(log, e) /\ kv' = [kv EXCEPT ![home[i]] = i]
      /\ proc' = [proc EXCEPT ![i] = "registered"] /\ due' = [due EXCEPT ![i] = KeepAliveTtl]
      /\ proc[i] = "granted"
      /\ UNCHANGED <<leased, left, home, linked, listener, cut>>
  BY DEF PutKey, Event, IInv, TypeOK
<1>2. TypeOK
  BY DEF IInv
<1>3. /\ log' \in Seq(Event)
      /\ \A n \in DOMAIN log : log'[n] = log[n]
      /\ \E last \in DOMAIN log' : log'[last] = e /\ \A n \in DOMAIN log : n < last
      /\ \A n \in DOMAIN log' : n \in DOMAIN log \/ log'[n] = e
      /\ \A j \in Ids : (PutSeen(j) => PutSeen(j)') /\ (TakenOver(j) => TakenOver(j)')
      /\ DOMAIN log \subseteq DOMAIN log'
  BY <1>1, <1>2, LogGrows
<1>4. TypeOK'
  <2>1. KeepAliveTtl \in 0..KeepAliveTtl
    BY TtlAssumption
  <2>2. /\ kv' \in [Addrs -> Ids \cup {NoId}] /\ due' \in [Ids -> 0..KeepAliveTtl]
        /\ proc' \in [Ids -> Registered \cup {"new", "started", "granted", "dead"}]
    BY <1>1, <1>2, <2>1 DEF TypeOK, Registered
  <2> QED BY <1>1, <1>2, <1>3, <2>2 DEF TypeOK, Event
<1>5. PutOnce'
  <2> SUFFICES ASSUME NEW n \in DOMAIN log', NEW j \in Ids, log'[n].id = j
               PROVE  proc'[j] \notin Unregistered
    BY DEF PutOnce
  <2>1. proc'[i] = "registered" /\ (j # i => proc'[j] = proc[j])
    BY <1>1, <1>2 DEF TypeOK
  <2>2. j = i \/ (n \in DOMAIN log /\ log[n].id = j)
    BY <1>1, <1>3
  <2> QED BY <2>1, <2>2 DEF IInv, PutOnce, Unregistered
<1>6. ASSUME NEW j \in Ids \ cut PROVE UncutInv(j)'
  <2>1. UncutInv(j)
    BY DEF IInv
  <2>2. CASE j = i
    <3>1. left'[j] = due'[j] + 2 * KeepAliveTtl /\ j \in linked'
      BY <1>1, <1>2, <2>1, <2>2, TtlAssumption DEF UncutInv, TypeOK, Ttl
    <3>2. PutSeen(j)'
      BY <1>1, <1>3, <2>2 DEF PutSeen
    <3>3. kv'[home'[j]] = j /\ proc'[j] = "registered"
      BY <1>1, <1>2, <2>2 DEF TypeOK
    <3> QED BY <3>1, <3>2, <3>3 DEF UncutInv
  <2>3. CASE j # i
    <3>1. UNCHANGED <<proc[j], due[j], left, home, linked>>
      BY <1>1, <1>2, <2>3 DEF TypeOK
    <3>2. kv'[home[j]] = kv[home[j]] \/ (kv'[home[j]] = i /\ home[i] = home[j])
      BY <1>1, <1>2 DEF TypeOK
    <3>3. PutSeen(j) /\ home[i] = home[j] => TakenOver(j)'
      <4> SUFFICES ASSUME PutSeen(j), home[i] = home[j] PROVE TakenOver(j)'
        OBVIOUS
      <4>1. PICK m \in DOMAIN log : log[m].addr = home[j] /\ log[m].id = j
        BY DEF PutSeen
      <4>2. PICK last \in DOMAIN log' : log'[last] = e /\ \A n \in DOMAIN log : n < last
        BY <1>3
      <4>3. m \in DOMAIN log' /\ m < last /\ log'[m] = log[m]
        BY <1>3, <4>2
      <4> QED BY <1>1, <4>1, <4>2, <4>3 DEF TakenOver
    <3> QED BY <1>3, <2>1, <3>1, <3>2, <3>3 DEF UncutInv
  <2> QED BY <2>2, <2>3
<1> QED BY <1>1, <1>4, <1>5, <1>6 DEF IInv

\* A keep-alive comes while two intervals of the lease are left.
LEMMA KeepAliveKeepsIInv == ASSUME IInv, NEW i \in Ids, KeepAlive(i) PROVE IInv'
<1>1. /\ UNCHANGED <<kv, log, leased, proc, home, linked, listener, cut>>
      /\ due[i] = 0 /\ proc[i] \in Registered
      /\ due' = [due EXCEPT ![i] = KeepAliveTtl]
      /\ left' = [left EXCEPT ![i] = IF @ > 0 THEN Ttl ELSE 0]
  BY DEF KeepAlive
<1>2. TypeOK'
  BY <1>1, TtlAssumption DEF IInv, TypeOK, Ttl
<1>3. PutOnce'
  BY <1>1 DEF IInv, PutOnce
<1>4. ASSUME NEW j \in Ids \ cut PROVE UncutInv(j)'
  <2>1. UncutInv(j)
    BY DEF IInv
  <2>2. proc'[j] = proc[j] /\ (proc[j] = "granted" => j # i)
    BY <1>1 DEF Registered
  <2>3. CASE j = i
    <3>1. left'[j] = due'[j] + 2 * KeepAliveTtl
      BY <1>1, <2>1, <2>3, TtlAssumption DEF UncutInv, IInv, TypeOK, Ttl
    <3> QED BY <1>1, <2>1, <2>2, <2>3, <3>1, SameLog DEF UncutInv
  <2>4. CASE j # i
    BY <1>1, <2>1, <2>4, SameLog DEF UncutInv, IInv, TypeOK
  <2> QED BY <2>3, <2>4
<1> QED BY <1>1, <1>2, <1>3, <1>4 DEF IInv

LEMMA LinkKeepsIInv == ASSUME IInv, NEW i \in Ids, LinkFails(i) \/ LinkReturns(i) PROVE IInv'
<1>1. UNCHANGED <<kv, log, leased, left, proc, home, due, listener>>
  BY DEF LinkFails, LinkReturns, etcd
<1>2. linked' \subseteq Ids /\ cut \subseteq cut' /\ cut' \subseteq Ids /\ linked \ linked' \subseteq cut'
  BY DEF LinkFails, LinkReturns, IInv, TypeOK
<1> QED BY <1>1, <1>2, SameLog DEF IInv, TypeOK, PutOnce, UncutInv

\* Time takes as much of the lease as of the time to the next keep-alive.
LEMMA TickKeepsIInv == ASSUME IInv, Tick PROVE IInv'
<1>1. /\ UNCHANGED <<kv, log, leased, proc, home, linked, listener, cut>>
      /\ left' = [i \in Ids |-> IF left[i] > 0 THEN left[i] - 1 ELSE 0]
      /\ due' = [i \in Ids |-> IF due[i] > 0 THEN due[i] - 1 ELSE 0]
      /\ \A i \in linked : proc[i] # "granted" /\ (proc[i] \in Registered => due[i] > 0)
  BY DEF Tick
<1>2. TypeOK'
  BY <1>1, TtlAssumption DEF IInv, TypeOK, Ttl
<1>3. PutOnce'
  BY <1>1 DEF IInv, PutOnce
<1>4. ASSUME NEW j \in Ids \ cut PROVE UncutInv(j)'
  <2>1. UncutInv(j) /\ j \in linked
    BY DEF IInv, UncutInv
  <2>2. proc[j] \in Registered => left'[j] = due'[j] + 2 * KeepAliveTtl
    BY <1>1, <2>1, TtlAssumption DEF UncutInv, IInv, TypeOK
  <2> QED BY <1>1, <2>1, <2>2, SameLog DEF UncutInv
<1> QED BY <1>1, <1>2, <1>3, <1>4 DEF IInv

\* What etcd revokes is not the lease of a process that it can reach, and the
\* key it deletes is not that of another.
LEMMA RevokeKeepsIInv == ASSUME IInv, NEW i \in Ids, Revoke(i) PROVE IInv'
<1> DEFINE e == [op |-> "del", addr |-> home[i], id |-> NoId]
<1>1. /\ left[i] = 0 /\ leased' = leased \ {i}
      /\ UNCHANGED <<left, proc, home, due, linked, listener, cut>>
      /\ \/ UNCHANGED <<kv, log>>
         \/ /\ kv[home[i]] = i
            /\ kv' = [kv EXCEPT ![home[i]] = NoId] /\ log' = Append(log, e)
  BY DEF Revoke
<1>2. TypeOK /\ e \in Event
  BY DEF IInv, TypeOK, Event
<1>3. CASE UNCHANGED <<kv, log>>
  BY <1>1, <1>3, SameLog DEF IInv, TypeOK, PutOnce, UncutInv
<1>4. CASE kv[home[i]] = i /\ kv' = [kv EXCEPT ![home[i]] = NoId] /\ log' = Append(log, e)
  <2>1. /\ log' \in Seq(Event)
        /\ \A n \in DOMAIN log : log'[n] = log[n]
        /\ \A n \in DOMAIN log' : n \in DOMAIN log \/ log'[n] = e
        /\ \A j \in Ids : (PutSeen(j) => PutSeen(j)') /\ (TakenOver(j) => TakenOver(j)')
    BY <1>1, <1>2, <1>4, LogGrows
  <2>2. TypeOK'
    BY <1>1, <1>2, <1>4, <2>1 DEF TypeOK, Event
  <2>3. PutOnce'
    BY <1>1, <2>1, IdsAssumption DEF IInv, PutOnce
  <2>4. ASSUME NEW j \in Ids \ cut PROVE UncutInv(j)'
    <3>1. UncutInv(j)
      BY DEF IInv
    <3>2. proc[j] \in Registered => j # i
      BY <1>1, <1>2, <3>1, TtlAssumption DEF UncutInv, TypeOK
    <3>3. j # i /\ kv[home[j]] = j => kv'[home[j]] = j
      BY <1>2, <1>4 DEF TypeOK
    <3> QED BY <1>1, <2>1, <3>1, <3>2, <3>3 DEF UncutInv
  <2> QED BY <1>1, <2>2, <2>3, <2>4 DEF IInv
<1> QED BY <1>1, <1>3, <1>4

LEMMA NextKeepsIInv == IInv /\ [Next]_vars => IInv'
<1> SUFFICES ASSUME IInv, [Next]_vars PROVE IInv'
  OBVIOUS
<1>1. CASE UNCHANGED vars
  BY <1>1, SameLog DEF vars, etcd, IInv, TypeOK, PutOnce, UncutInv
<1>2. CASE Next
  BY <1>2, LifeKeepsIInv, PutKeyKeepsIInv, KeepAliveKeepsIInv, LinkKeepsIInv, TickKeepsIInv,
     RevokeKeepsIInv DEF Next, Registering
<1> QED BY <1>1, <1>2

LEMMA Invariance == Spec => []IInv
  BY InitIInv, NextKeepsIInv, PTL DEF Spec

-----------------------------------------------------------------------------
(* The theorems. *)

\* naming.Register with a ttl of three keep-alive intervals: whoever never loses
\* etcd is listed as long as it runs, unless another process has taken its
\* address over.
THEOREM UncutIsListed == Spec => []UncutStaysListed
<1>1. IInv => UncutStaysListed
  <2> SUFFICES ASSUME IInv, NEW i \in Ids \ cut, proc[i] \in Registered
               PROVE  left[i] > 0 /\ (kv[home[i]] = i \/ TakenOver(i))
    BY DEF IInv, UncutStaysListed
  <2>1. UncutInv(i) /\ due[i] \in Nat
    BY DEF IInv, TypeOK
  <2> QED BY <2>1, TtlAssumption DEF UncutInv
<1> QED BY <1>1, Invariance, PTL

\* What Put, the revocation of leases and all the rest make of the keys is what
\* Directory allows: each id is put at most once, and only a key that is there
\* is deleted.
THEOREM ImplementsDirectory == Spec => DirectoryImplemented
<1>1. Init => Dir!DirectoryInit
  BY DEF Init, Dir!DirectoryInit
<1>2. IInv /\ [Next]_vars => [Dir!DirectoryNext]_(Dir!directory)
  <2> SUFFICES ASSUME IInv, [Next]_vars PROVE Dir!DirectoryNext \/ UNCHANGED <<kv, log>>
    BY DEF Dir!directory
  <2>1. ASSUME NEW i \in Ids, PutKey(i) PROVE Dir!DirectoryNext
    <3>1. i \notin Dir!Published
      BY <2>1 DEF PutKey, IInv, PutOnce, Unregistered, Dir!Published
    <3>2. Dir!Register(home[i], i)
      BY <2>1, <3>1 DEF PutKey, Dir!Register, Dir!Reported
    <3> QED BY <3>2 DEF Dir!DirectoryNext, IInv, TypeOK
  <2>2. ASSUME NEW i \in Ids, Revoke(i) PROVE Dir!DirectoryNext \/ UNCHANGED <<kv, log>>
    <3>1. CASE kv[home[i]] = i
      <4>1. Dir!Vanish(home[i])
        BY <2>2, <3>1, IdsAssumption DEF Revoke, Dir!Vanish, Dir!Reported
      <4> QED BY <4>1 DEF Dir!DirectoryNext, IInv, TypeOK
    <3> QED BY <2>2, <3>1 DEF Revoke
  <2> QED
    BY <2>1, <2>2 DEF Next, vars, etcd, Tick, Launch, Registering, Grant, RegisterFails, Listen,
       KeepAlive, Stop, LinkFails, LinkReturns
<1> QED BY <1>1, <1>2, Invariance, PTL DEF Spec, DirectoryImplemented, Dir!DirectorySpec
=============================================================================
