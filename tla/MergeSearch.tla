----------------------------- MODULE MergeSearch -----------------------------
(***************************************************************************)
(* MergeSearch.Call: concurrent searches for one key share one run of the  *)
(* function.  The first caller leads; callers that find the key in caches  *)
(* leave a channel in waits and block on it; the leader takes all channels *)
(* when the function has returned and sends each the result.               *)
(*                                                                         *)
(* Each run of the function is a flight, and the flight's number stands    *)
(* for the value or the error it returns.  A caller has one channel per    *)
(* call, so the channel is named by the caller.  waits[k] is a set: the    *)
(* order in which a leader serves its waiters is left open.                *)
(***************************************************************************)
EXTENDS Integers, FiniteSets, GoMap

CONSTANTS
  Callers,     \* goroutines that call Call
  Keys,
  MaxFlights   \* bound: runs of the function, all keys together

ASSUME MaxFlightsAssumption == MaxFlights \in Nat

VARIABLES
  caches,    \* the keys being searched
  waits,     \* per key, the callers whose channels the leader will serve
  pc, key,   \* where each caller is, and the key it asked for
  taken,     \* the channels a leader took and has still to send to
  result,    \* what the call returns: the flight whose result it holds
  flights,   \* flights so far
  flight     \* history: the flight a call started, or found in caches

vars == <<caches, waits, pc, key, taken, result, flights, flight>>

TypeOK ==
  /\ caches \subseteq Keys
  /\ IsMap(waits, Keys, SUBSET Callers)
  /\ pc \in [Callers -> {"idle", "fun", "take", "send", "wait", "done"}]
  /\ key \in [Callers -> Keys]
  /\ taken \in [Callers -> SUBSET Callers]
  /\ result \in [Callers -> Nat]
  /\ flights \in Nat
  /\ flight \in [Callers -> Nat]

Init ==
  /\ caches = {} /\ waits = EmptyMap
  /\ pc = [p \in Callers |-> "idle"]
  /\ key \in [Callers -> Keys]
  /\ taken = [p \in Callers |-> {}]
  /\ result = [p \in Callers |-> 0]
  /\ flights = 0
  /\ flight = [p \in Callers |-> 0]

\* From its first critical section to its second, a caller leads its key.
Leads(p, k) == pc[p] \in {"fun", "take"} /\ key[p] = k

\* Seeded fault: the key is looked up but not entered.
LeadUnannounced(p, k) ==
  /\ pc[p] = "idle" /\ k \notin caches /\ flights < MaxFlights
  /\ flights' = flights + 1
  /\ flight' = [flight EXCEPT ![p] = flights + 1]
  /\ pc' = [pc EXCEPT ![p] = "fun"]
  /\ key' = [key EXCEPT ![p] = k]
  /\ UNCHANGED <<caches, waits, taken, result>>

\* Seeded fault: the wrong variable is entered as the key.
LeadByCaller(p, k) ==
  /\ pc[p] = "idle" /\ k \notin caches /\ flights < MaxFlights
  /\ caches' = caches \cup {p}
  /\ flights' = flights + 1
  /\ flight' = [flight EXCEPT ![p] = flights + 1]
  /\ pc' = [pc EXCEPT ![p] = "fun"]
  /\ key' = [key EXCEPT ![p] = k]
  /\ UNCHANGED <<waits, taken, result>>

\* The first critical section, when nobody searches for the key.
Lead(p, k) ==
  /\ pc[p] = "idle" /\ k \notin caches /\ flights < MaxFlights
  /\ caches' = caches \cup {k}
  /\ flights' = flights + 1
  /\ flight' = [flight EXCEPT ![p] = flights + 1]
  /\ pc' = [pc EXCEPT ![p] = "fun"]
  /\ key' = [key EXCEPT ![p] = k]
  /\ UNCHANGED <<waits, taken, result>>

\* Seeded fault: the second waiter replaces the first.
JoinReplacing(p, k) ==
  /\ pc[p] = "idle" /\ k \in caches
  /\ waits' = Put(waits, k, {p})
  /\ pc' = [pc EXCEPT ![p] = "wait"]
  /\ key' = [key EXCEPT ![p] = k]
  /\ flight' \in {[flight EXCEPT ![p] = flight[q]] : q \in {q \in Callers : Leads(q, k)}}
  /\ UNCHANGED <<caches, taken, result, flights>>

\* The same section, when somebody does.
Join(p, k) ==
  /\ pc[p] = "idle" /\ k \in caches
  /\ waits' = Put(waits, k, (IF k \in DOMAIN waits THEN waits[k] ELSE {}) \cup {p})
  /\ pc' = [pc EXCEPT ![p] = "wait"]
  /\ key' = [key EXCEPT ![p] = k]
  /\ LET leaders == {q \in Callers : Leads(q, k)} IN
       flight' \in {[flight EXCEPT ![p] = f] :
                      f \in IF leaders = {} THEN {0} ELSE {flight[q] : q \in leaders}}
  /\ UNCHANGED <<caches, taken, result, flights>>

\* The function returns.
Run(p) ==
  /\ pc[p] = "fun"
  /\ result' = [result EXCEPT ![p] = flight[p]]
  /\ pc' = [pc EXCEPT ![p] = "take"]
  /\ UNCHANGED <<caches, waits, key, taken, flights, flight>>

\* Seeded fault: the waiters taken are not removed from waits.
TakeKeepingWaits(p) == LET k == key[p] IN
  /\ pc[p] = "take"
  /\ taken' = [taken EXCEPT ![p] = IF k \in DOMAIN waits THEN waits[k] ELSE {}]
  /\ caches' = caches \ {k}
  /\ pc' = [pc EXCEPT ![p] = "send"]
  /\ UNCHANGED <<waits, key, result, flights, flight>>

\* Seeded fault: the waiters are dropped before they are read.
TakeTooLate(p) == LET k == key[p] IN
  /\ pc[p] = "take"
  /\ caches' = caches \ {k}
  /\ waits' = Delete(waits, k)
  /\ pc' = [pc EXCEPT ![p] = "send"]
  /\ UNCHANGED <<taken, key, result, flights, flight>>

\* The second critical section.
Take(p) == LET k == key[p] IN
  /\ pc[p] = "take"
  /\ taken' = [taken EXCEPT ![p] = IF k \in DOMAIN waits THEN waits[k] ELSE {}]
  /\ caches' = caches \ {k}
  /\ waits' = Delete(waits, k)
  /\ pc' = [pc EXCEPT ![p] = "send"]
  /\ UNCHANGED <<key, result, flights, flight>>

\* w <- result: the channel is unbuffered, and only its waiter reads it.
Send(p, w) ==
  /\ pc[p] = "send" /\ w \in taken[p] /\ pc[w] = "wait"
  /\ result' = [result EXCEPT ![w] = result[p]]
  /\ pc' = [pc EXCEPT ![w] = "done"]
  /\ taken' = [taken EXCEPT ![p] = @ \ {w}]
  /\ UNCHANGED <<caches, waits, key, flights, flight>>

Served(p) ==
  /\ pc[p] = "send" /\ taken[p] = {}
  /\ pc' = [pc EXCEPT ![p] = "done"]
  /\ UNCHANGED <<caches, waits, key, taken, result, flights, flight>>

\* Call returns, and its goroutine may call again.
Return(p) ==
  /\ pc[p] = "done"
  /\ pc' = [pc EXCEPT ![p] = "idle"]
  /\ UNCHANGED <<caches, waits, key, taken, result, flights, flight>>

Step(p) == Run(p) \/ Take(p) \/ (\E w \in Callers : Send(p, w)) \/ Served(p) \/ Return(p)

\* The bound admits no other flight and nobody runs.  (That nobody is left
\* waiting then is CallsReturn's to find, not the deadlock check's.)
Stopped ==
  /\ flights = MaxFlights /\ \A p \in Callers : pc[p] \in {"idle", "wait"}
  /\ UNCHANGED vars

Next ==
  \/ \E p \in Callers : (\E k \in Keys : Lead(p, k) \/ Join(p, k)) \/ Step(p)
  \/ Stopped

Spec == Init /\ [][Next]_vars

\* The function returns, and goroutines that can run do run.
FairSpec == Spec /\ \A p \in Callers : WF_vars(Step(p))

-----------------------------------------------------------------------------
(* What the code promises. *)

\* One flight per key at a time, and caches holds exactly the keys in flight.
SingleFlight ==
  /\ \A p, q \in Callers : \A k \in Keys : Leads(p, k) /\ Leads(q, k) => p = q
  /\ \A k \in Keys : k \in caches <=> \E p \in Callers : Leads(p, k)

\* The callers that will be served by one who leads k now.
WaitingFor(k) == IF k \in DOMAIN waits THEN waits[k] ELSE {}

\* A blocked caller has its channel in one place, from which a leader that
\* has not returned will serve it: in waits under a key still being searched,
\* or with the one leader that took it.
NobodyForgotten ==
  \A w \in Callers : pc[w] = "wait" =>
    \/ /\ key[w] \in caches /\ w \in WaitingFor(key[w])
       /\ \A p \in Callers : w \notin taken[p]
    \/ /\ w \notin WaitingFor(key[w])
       /\ \E p \in Callers : /\ pc[p] = "send" /\ w \in taken[p]
                             /\ \A q \in Callers \ {p} : w \notin taken[q]

\* A call returns the result of the flight it led or found under way, never
\* that of an earlier or a later one.
OwnFlight == \A p \in Callers : pc[p] = "done" => result[p] = flight[p]

\* Every call returns, provided the function does.
CallsReturn == \A p \in Callers : pc[p] \in {"fun", "wait"} ~> pc[p] = "done"
==============================================================================
