------------------------------- MODULE Naming -------------------------------
(***************************************************************************)
(* naming.Register and the life of the process that registers: container's *)
(* start, its keep-alive goroutine, and the lease in etcd under which the  *)
(* key {name}_{host}_{port} is stored.                                     *)
(*                                                                         *)
(* Nothing takes a registration back: Run ends without Deregister, which   *)
(* would only cancel a context that the keep-alive goroutine does not heed *)
(* (its break leaves the select).  A process that stops and one that dies  *)
(* are the same to everybody else.                                         *)
(***************************************************************************)
EXTENDS Naturals, Sequences

CONSTANTS
  Addrs,        \* host:port pairs at which processes of the service start
  Ids,          \* processes, by the service id each makes for itself
  NoId,         \* no id
  KeepAliveTtl  \* seconds between two keep-alives

ASSUME IdsAssumption == NoId \notin Ids
ASSUME AddrsAssumption == Addrs \subseteq Nat
ASSUME TtlAssumption == KeepAliveTtl \in Nat \ {0}

VARIABLES
  kv,        \* etcd: the id stored under each address
  log,       \* etcd: the changes, as a watch reports them
  leased,    \* etcd: ids whose lease has not been revoked
  left,      \* etcd: seconds left of each lease
  proc,      \* how far each process has got
  home,      \* its address
  due,       \* seconds until its next keep-alive
  linked,    \* processes that reach etcd
  listener,  \* the process that listens at each address
  cut        \* history: processes that have ever lost etcd

etcd == <<kv, log, leased, left>>
vars == <<etcd, proc, home, due, linked, listener, cut>>

\* Seeded fault: a lease that is no longer than the time between keep-alives.
TtlTight == KeepAliveTtl
Ttl == 3 * KeepAliveTtl

Registered == {"registered", "serving", "idle"}
Alive(i) == proc[i] \notin {"new", "dead"}

TypeOK ==
  /\ kv \in [Addrs -> Ids \cup {NoId}]
  /\ log \in Seq([op : {"put", "del"}, addr : Addrs, id : Ids \cup {NoId}])
  /\ leased \subseteq Ids /\ left \in [Ids -> 0..Ttl]
  /\ proc \in [Ids -> Registered \cup {"new", "started", "granted", "dead"}]
  /\ home \in [Ids -> Addrs]
  /\ due \in [Ids -> 0..KeepAliveTtl]
  /\ linked \subseteq Ids /\ cut \subseteq Ids
  /\ listener \in [Addrs -> Ids \cup {NoId}]

Init ==
  /\ kv = [a \in Addrs |-> NoId] /\ log = <<>>
  /\ leased = {} /\ left = [i \in Ids |-> 0]
  /\ proc = [i \in Ids |-> "new"]
  /\ home \in [Ids -> Addrs]
  /\ due = [i \in Ids |-> 0]
  /\ linked = Ids /\ cut = {}
  /\ listener = [a \in Addrs |-> NoId]

-----------------------------------------------------------------------------
(* Register, in the order of container_instance and Run: the lease, the key, *)
(* and only then the listener.                                               *)

Launch(i) ==
  /\ proc[i] = "new"
  /\ proc' = [proc EXCEPT ![i] = "started"]
  /\ UNCHANGED <<etcd, home, due, linked, listener, cut>>

Grant(i) ==
  /\ proc[i] = "started" /\ i \in linked
  /\ proc' = [proc EXCEPT ![i] = "granted"]
  /\ leased' = leased \cup {i}
  /\ left' = [left EXCEPT ![i] = Ttl]
  /\ UNCHANGED <<kv, log, home, due, linked, listener, cut>>

\* An error of Grant or Put is a panic of container_instance.
RegisterFails(i) ==
  /\ \/ proc[i] \in {"started", "granted"} /\ i \notin linked
     \/ proc[i] = "granted" /\ i \notin leased
  /\ proc' = [proc EXCEPT ![i] = "dead"]
  /\ UNCHANGED <<etcd, home, due, linked, listener, cut>>

\* Put stores the key whoever's it was, and the keep-alive goroutine starts.
PutKey(i) ==
  /\ proc[i] = "granted" /\ i \in linked /\ i \in leased
  /\ kv' = [kv EXCEPT ![home[i]] = i]
  /\ log' = Append(log, [op |-> "put", addr |-> home[i], id |-> i])
  /\ proc' = [proc EXCEPT ![i] = "registered"]
  /\ due' = [due EXCEPT ![i] = KeepAliveTtl]
  /\ UNCHANGED <<leased, left, home, linked, listener, cut>>

\* Start returns when the address is taken, but Run does not look at its error
\* and waits for a shutdown: the process stays, registered and deaf.
Listen(i) ==
  /\ proc[i] = "registered"
  /\ IF listener[home[i]] = NoId
     THEN listener' = [listener EXCEPT ![home[i]] = i] /\ proc' = [proc EXCEPT ![i] = "serving"]
     ELSE proc' = [proc EXCEPT ![i] = "idle"] /\ UNCHANGED listener
  /\ UNCHANGED <<etcd, home, due, linked, cut>>

\* Seeded fault: the keep-alive puts the key anew.
KeepAlivePuts(i) ==
  /\ proc[i] \in Registered /\ due[i] = 0 /\ i \in linked
  /\ due' = [due EXCEPT ![i] = KeepAliveTtl]
  /\ left' = [left EXCEPT ![i] = Ttl] /\ leased' = leased \cup {i}
  /\ kv' = [kv EXCEPT ![home[i]] = i]
  /\ log' = Append(log, [op |-> "put", addr |-> home[i], id |-> i])
  /\ UNCHANGED <<proc, home, linked, listener, cut>>


\* KeepAliveOnce: its error, that there is no such lease, is dropped.
KeepAlive(i) ==
  /\ proc[i] \in Registered /\ due[i] = 0 /\ i \in linked
  /\ due' = [due EXCEPT ![i] = KeepAliveTtl]
  /\ left' = [left EXCEPT ![i] = IF @ > 0 THEN Ttl ELSE 0]
  /\ UNCHANGED <<kv, log, leased, proc, home, linked, listener, cut>>

Stop(i) ==
  /\ Alive(i)
  /\ proc' = [proc EXCEPT ![i] = "dead"]
  /\ listener' = [listener EXCEPT ![home[i]] = IF @ = i THEN NoId ELSE @]
  /\ UNCHANGED <<etcd, home, due, linked, cut>>

-----------------------------------------------------------------------------
(* Time, the network, and etcd's leases. *)

\* Within a second the keep-alives come first, so that links that fail and
\* return over and over do not keep the second from passing.
LinkFails(i) ==
  /\ Alive(i) /\ i \in linked
  /\ proc[i] \in Registered => due[i] > 0
  /\ linked' = linked \ {i} /\ cut' = cut \cup {i}
  /\ UNCHANGED <<etcd, proc, home, due, listener>>

LinkReturns(i) ==
  /\ Alive(i) /\ i \notin linked
  /\ linked' = linked \cup {i}
  /\ UNCHANGED <<etcd, proc, home, due, listener, cut>>

\* A second passes.  Whoever reaches etcd has done by then what it is due.
Tick ==
  /\ \A i \in linked : proc[i] # "granted" /\ (proc[i] \in Registered => due[i] > 0)
  /\ left' = [i \in Ids |-> IF left[i] > 0 THEN left[i] - 1 ELSE 0]
  /\ due' = [i \in Ids |-> IF due[i] > 0 THEN due[i] - 1 ELSE 0]
  /\ UNCHANGED <<kv, log, leased, proc, home, linked, listener, cut>>

\* etcd revokes a lease that has run out, and deletes what it was put with.
Revoke(i) ==
  /\ i \in leased /\ left[i] = 0
  /\ leased' = leased \ {i}
  /\ IF kv[home[i]] = i
     THEN /\ kv' = [kv EXCEPT ![home[i]] = NoId]
          /\ log' = Append(log, [op |-> "del", addr |-> home[i], id |-> NoId])
     ELSE UNCHANGED <<kv, log>>
  /\ UNCHANGED <<left, proc, home, due, linked, listener, cut>>

Registering(i) == Grant(i) \/ PutKey(i) \/ RegisterFails(i) \/ Listen(i)

Next ==
  \/ Tick
  \/ \E i \in Ids : \/ Launch(i) \/ Registering(i) \/ KeepAlive(i) \/ Revoke(i)
                    \/ Stop(i) \/ LinkFails(i) \/ LinkReturns(i)

Spec == Init /\ [][Next]_vars

\* Time passes, goroutines run, and etcd revokes what has run out.
FairSpec ==
  /\ Spec
  /\ WF_vars(Tick)
  /\ \A i \in Ids : WF_vars(Registering(i)) /\ WF_vars(KeepAlive(i)) /\ WF_vars(Revoke(i))

-----------------------------------------------------------------------------
(* What everybody else relies on. *)

\* The keys change as Directory says: an id is put once, and a key goes once.
Dir == INSTANCE Directory WITH store <- kv
DirectoryImplemented == Dir!DirectorySpec

TakenOver(i) ==
  \E m, n \in DOMAIN log :
    /\ m < n /\ log[m].addr = home[i] /\ log[n].addr = home[i]
    /\ log[m].id = i /\ log[n].op = "put"

\* A process that never lost etcd is listed as long as it lives, unless another
\* one has registered at its address.
UncutStaysListed ==
  /\ TypeOK
  /\ \A i \in Ids \ cut :
       proc[i] \in Registered => left[i] > 0 /\ (kv[home[i]] = i \/ TakenOver(i))

=============================================================================
