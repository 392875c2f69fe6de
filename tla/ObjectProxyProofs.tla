-------------------------- MODULE ObjectProxyProofs --------------------------
(***************************************************************************)
(* Proofs about ObjectProxy, for any addresses, finitely many callers, any *)
(* hashes and any bounds of the table and of the channels.                 *)
(*                                                                         *)
(* First what becomes of a request, which depends on nothing that the      *)
(* lists of clients hold: it goes wherever the main loop sends it.  Then   *)
(* what becomes of the lists: the main loop works off the log of the       *)
(* directory change by change, from where the watch began.                 *)
(***************************************************************************)
EXTENDS ObjectProxy, FiniteSetTheorems, SequenceTheorems, TLAPS

-----------------------------------------------------------------------------
(* The inductive invariant: the table of requests. *)

\* The caller that has entered its request holds the mutex until it has queued it.
MutexInv ==
  /\ issued \in Nat
  /\ lock \in Callers \cup {Free, Lost}
  /\ pc \in [Callers -> {"idle", "lock", "push", "wait"}]
  /\ call \in [Callers -> [kind : Kinds, hash : Hashes \cup {0}]]
  /\ \A c \in Callers : pc[c] = "push" <=> lock = c

\* The one request that leaves the table takes the mutex with it, after which
\* none is entered any more.
TableInv ==
  /\ reqs \subseteq 1..issued
  /\ reqs = 1..issued \/ (lock = Lost /\ \E n \in 1..issued : reqs = (1..issued) \ {n})
  /\ alive \in BOOLEAN

-----------------------------------------------------------------------------
(* The inductive invariant: the way of a request. *)

Registered == {a \in Addrs : store[a] # NoId}

\* Of an event only the changes matter, and that there are any.
Told(e) == e.kind = "changes" => e.changes \in Seq(Change) \ {<<>>}
EventsTold(q) == q \in Seq({q[x] : x \in DOMAIN q}) /\ \A x \in DOMAIN q : Told(q[x])

\* What a watch reports and the main loop works off.
ChangesInv ==
  /\ store \in [Addrs -> Ids \cup {NoId}] /\ IsFiniteSet(Registered)
  /\ log \in Seq(Change) /\ todo \in Seq(Change)
  /\ watch \in [state : {"off", "on", "ended"}, pos : Nat]
  /\ EventsTold(events)
  /\ main = "changes" => todo # <<>>

\* channel_send is in the order of issue; what a caller has entered and not yet
\* queued is newer than all of it.
SendsInv ==
  /\ sends \in Seq([n : 1..issued, hash : Nat])
  /\ \A x, y \in DOMAIN sends : x < y => sends[x].n < sends[y].n
  /\ lock \in Callers => issued # 0 /\ \A x \in DOMAIN sends : sends[x].n < issued

\* The main loop's request is older than what is still queued for it.
JobInv ==
  /\ job.req \in [n : 0..issued, hash : Nat]
  /\ IF main \in {"send", "lock"} THEN job.req.n # 0 ELSE job = NoJob
  /\ \A x \in DOMAIN sends : job.req.n < sends[x].n
  /\ lock \in Callers => job.req.n < issued

Client ==
  [addr : Addrs, id : Ids \cup {NoId}, open : BOOLEAN, held : BOOLEAN, loops : Nat,
   queue : Seq(Nat), hand : SUBSET Nat]

\* The requests that have reached a client and are not lost.
Load(k, w) == {k.queue[x] : x \in DOMAIN k.queue} \cup k.hand \cup {w[x] : x \in DOMAIN w}

\* A client's queue is in order, behind what its loops have in hand and what is
\* written; with one loop what is in hand is behind what is written.
InOrderAt(k, w) ==
  /\ \A x, y \in DOMAIN k.queue : x < y => k.queue[x] < k.queue[y]
  /\ \A x \in DOMAIN k.queue, n \in k.hand : n < k.queue[x]
  /\ \A x \in DOMAIN k.queue, y \in DOMAIN w : w[y] < k.queue[x]
  /\ \A n \in k.hand, y \in DOMAIN w : w[y] # n
  /\ \A x, y \in DOMAIN w : w[x] = w[y] => x = y
  /\ IsFiniteSet(k.hand) /\ Cardinality(k.hand) <= k.loops
  /\ k.loops <= 1 =>
       /\ \A x, y \in DOMAIN w : x < y => w[x] < w[y]
       /\ \A n \in k.hand, y \in DOMAIN w : w[y] < n

\* Older than everything that is still on its way to a client.
Passed(n) ==
  /\ n \in 1..issued
  /\ job.req.n # 0 => n < job.req.n
  /\ \A x \in DOMAIN sends : n < sends[x].n
  /\ lock \in Callers => n < issued

ClientsInv ==
  /\ conns \in Seq(Client) /\ wire \in Seq(Seq(Nat)) /\ Len(wire) = Len(conns)
  /\ \A k \in DOMAIN conns : InOrderAt(conns[k], wire[k])
  /\ \A k \in DOMAIN conns : \A n \in Load(conns[k], wire[k]) : Passed(n)
  /\ \A j, k \in DOMAIN conns : j # k => Load(conns[j], wire[j]) \cap Load(conns[k], wire[k]) = {}

IInv == MutexInv /\ TableInv /\ ChangesInv /\ SendsInv /\ JobInv /\ ClientsInv

-----------------------------------------------------------------------------
(* Facts about a client and what its connection has carried. *)

\* A new client carries nothing.
LEMMA NewCarriesNothing ==
  ASSUME NEW a \in Addrs, NEW i \in Ids \cup {NoId}
  PROVE  /\ NewTcpClient(a, i) \in Client
         /\ InOrderAt(NewTcpClient(a, i), <<>>)
         /\ Load(NewTcpClient(a, i), <<>>) = {}
<1>1. NewTcpClient(a, i) \in Client
  BY DEF NewTcpClient, Client
<1>2. Cardinality({}) = 0 /\ IsFiniteSet({})
  BY FS_EmptySet
<1> QED
  BY <1>1, <1>2 DEF NewTcpClient, InOrderAt, Load

\* A client at work.
Carries(k, w) == k \in Client /\ w \in Seq(Nat) /\ InOrderAt(k, w)

\* Connecting a client empties its queue and adds a loop.
LEMMA ConnectCarries ==
  ASSUME NEW k, NEW w, Carries(k, w), NEW r \in BOOLEAN
  PROVE  Carries(Connect(k, r), w) /\ Load(Connect(k, r), w) \subseteq Load(k, w)
<1> DEFINE new == [k EXCEPT !.open = TRUE, !.queue = <<>>, !.loops = k.loops + 1]
<1>1. CASE k.open \/ ~r
  BY <1>1 DEF Connect
<1>2. CASE ~k.open /\ r
  <2>1. Connect(k, r) = new
    BY <1>2 DEF Connect
  <2>2. k.loops \in Nat /\ k.hand \subseteq Nat /\ k.queue \in Seq(Nat) /\ k.loops + 1 \in Nat
    BY DEF Carries, Client
  <2>3. new \in Client /\ new.queue = <<>> /\ new.hand = k.hand /\ new.loops = k.loops + 1
    <3>1. \A q \in Seq(Nat), m \in Nat :
            LET up == [k EXCEPT !.open = TRUE, !.queue = q, !.loops = m]
            IN up \in Client /\ up.queue = q /\ up.hand = k.hand /\ up.loops = m
      BY DEF Carries, Client
    <3>2. <<>> \in Seq(Nat)
      OBVIOUS
    <3> QED BY <2>2, <3>1, <3>2
  <2>4. Cardinality(k.hand) \in Nat
    BY FS_CardinalityType DEF Carries, InOrderAt
  <2>5. InOrderAt(new, w)
    <3>1. Cardinality(new.hand) <= new.loops
      BY <2>2, <2>3, <2>4 DEF Carries, InOrderAt
    <3>2. new.loops <= 1 => k.loops <= 1
      BY <2>2, <2>3
    <3> HIDE DEF new
    <3> QED BY <2>3, <3>1, <3>2 DEF Carries, InOrderAt
  <2>6. Load(new, w) \subseteq Load(k, w)
    <3> HIDE DEF new
    <3> QED BY <2>3 DEF Load
  <2> QED BY <2>1, <2>3, <2>5, <2>6 DEF Carries
<1> QED BY <1>1, <1>2

\* Closing it touches nothing that it carries.
LEMMA CloseCarries ==
  ASSUME NEW k, NEW w, Carries(k, w)
  PROVE  Carries(Close(k), w) /\ Load(Close(k), w) \subseteq Load(k, w)
<1>1. /\ Close(k) \in Client /\ Close(k).queue = k.queue
      /\ Close(k).hand = k.hand /\ Close(k).loops = k.loops
  <2>1. LET shut == [k EXCEPT !.open = FALSE]
        IN shut \in Client /\ shut.queue = k.queue /\ shut.hand = k.hand /\ shut.loops = k.loops
    BY DEF Carries, Client
  <2>2. LET kept == [k EXCEPT !.held = TRUE]
        IN kept \in Client /\ kept.queue = k.queue /\ kept.hand = k.hand /\ kept.loops = k.loops
    BY DEF Carries, Client
  <2> QED BY <2>1, <2>2 DEF Close
<1> QED
  BY <1>1 DEF Carries, InOrderAt, Load

\* Sending a request newer than all it carries.
LEMMA SentCarries ==
  ASSUME NEW k, NEW w, Carries(k, w), NEW p \in Nat, \A n \in Load(k, w) : n < p
  PROVE  Carries(Sent(k, p), w) /\ Load(Sent(k, p), w) \subseteq Load(k, w) \cup {p}
<1>1. CASE ~k.open
  BY <1>1 DEF Sent
<1>2. CASE k.open
  <2> DEFINE new == Sent(k, p)
  <2>1. k.queue \in Seq(Nat) /\ Append(k.queue, p) \in Seq(Nat)
    BY DEF Carries, Client
  <2>2. /\ new \in Client
        /\ new.queue = Append(k.queue, p) /\ new.hand = k.hand /\ new.loops = k.loops
    BY <1>2, <2>1 DEF Carries, Client, Sent
  <2> HIDE DEF new
  <2>3. /\ Len(new.queue) = Len(k.queue) + 1
        /\ \A x \in DOMAIN new.queue :
             (x \in DOMAIN k.queue /\ new.queue[x] = k.queue[x]) \/ (x = Len(k.queue) + 1 /\ new.queue[x] = p)
    BY <2>1, <2>2
  <2>4. Load(new, w) \subseteq Load(k, w) \cup {p}
    BY <2>2, <2>3 DEF Load
  <2>5. \A x, y \in DOMAIN new.queue : x < y => new.queue[x] < new.queue[y]
    <3> SUFFICES ASSUME NEW x \in DOMAIN new.queue, NEW y \in DOMAIN new.queue, x < y
                 PROVE  new.queue[x] < new.queue[y]
      OBVIOUS
    <3>1. x \in DOMAIN k.queue /\ new.queue[x] = k.queue[x] /\ k.queue[x] < p
      <4>1. Len(k.queue) \in Nat /\ x # Len(k.queue) + 1
        BY <2>1, <2>2, <2>3
      <4> QED BY <2>3, <4>1 DEF Load
    <3>2. CASE y \in DOMAIN k.queue /\ new.queue[y] = k.queue[y]
      BY <3>1, <3>2 DEF Carries, InOrderAt
    <3>3. CASE new.queue[y] = p
      BY <3>1, <3>3
    <3> QED BY <2>3, <3>2, <3>3
  <2>6. \A x \in DOMAIN new.queue, n \in new.hand : n < new.queue[x]
    BY <2>2, <2>3 DEF Carries, InOrderAt, Load
  <2>7. \A x \in DOMAIN new.queue, y \in DOMAIN w : w[y] < new.queue[x]
    BY <2>2, <2>3 DEF Carries, InOrderAt, Load
  <2>8. InOrderAt(new, w)
    BY <2>2, <2>5, <2>6, <2>7 DEF Carries, InOrderAt
  <2> QED BY <2>2, <2>4, <2>8 DEF Carries, new
<1> QED BY <1>1, <1>2

\* A loop takes the head of the queue.
LEMMA TakenCarries ==
  ASSUME NEW k, NEW w, Carries(k, w), CanTake(k)
  PROVE  Carries(Taken(k), w) /\ Load(Taken(k), w) \subseteq Load(k, w)
<1> DEFINE new == Taken(k)
<1>1. /\ k.queue \in Seq(Nat) /\ k.queue # <<>> /\ k.loops \in Nat /\ k.hand \subseteq Nat
      /\ IsFiniteSet(k.hand) /\ Cardinality(k.hand) \in Nat /\ Cardinality(k.hand) < k.loops
  BY FS_CardinalityType DEF Carries, Client, InOrderAt, CanTake
<1>2. Head(k.queue) = k.queue[1] /\ 1 \in DOMAIN k.queue /\ k.queue[1] \in Nat /\ Tail(k.queue) \in Seq(Nat)
  BY <1>1
<1>3. /\ new \in Client /\ new.queue = Tail(k.queue)
      /\ new.hand = k.hand \cup {k.queue[1]} /\ new.loops = k.loops
  BY <1>1, <1>2 DEF Carries, Client, Taken
<1> HIDE DEF new
<1>4. \A x \in DOMAIN new.queue : x \in Nat /\ x + 1 \in DOMAIN k.queue /\ 1 < x + 1 /\ new.queue[x] = k.queue[x + 1]
  BY <1>1, <1>3
<1>5. Load(new, w) \subseteq Load(k, w)
  <2>1. \A x \in DOMAIN new.queue : new.queue[x] \in Load(k, w)
    BY <1>4 DEF Load
  <2>2. new.hand \subseteq Load(k, w)
    BY <1>2, <1>3 DEF Load
  <2> QED BY <2>1, <2>2 DEF Load
<1>6. \A x, y \in DOMAIN new.queue : x < y => new.queue[x] < new.queue[y]
  <2> SUFFICES ASSUME NEW x \in DOMAIN new.queue, NEW y \in DOMAIN new.queue, x < y
               PROVE  new.queue[x] < new.queue[y]
    OBVIOUS
  <2>1. x + 1 < y + 1
    BY <1>4
  <2> QED BY <1>4, <2>1 DEF Carries, InOrderAt
<1>7. \A x \in DOMAIN new.queue, n \in new.hand : n < new.queue[x]
  BY <1>2, <1>3, <1>4 DEF Carries, InOrderAt
<1>8. \A x \in DOMAIN new.queue, y \in DOMAIN w : w[y] < new.queue[x]
  BY <1>4 DEF Carries, InOrderAt
<1>9. \A n \in new.hand, y \in DOMAIN w : w[y] # n
  <2>1. \A y \in DOMAIN w : w[y] \in Nat /\ w[y] < k.queue[1]
    BY <1>2 DEF Carries, InOrderAt
  <2>2. \A y \in DOMAIN w : w[y] # k.queue[1]
    BY <1>2, <2>1
  <2> QED BY <1>3, <2>2 DEF Carries, InOrderAt
<1>10. IsFiniteSet(new.hand) /\ Cardinality(new.hand) <= new.loops
  <2>1. /\ IsFiniteSet(k.hand \cup {k.queue[1]})
        /\ Cardinality(k.hand \cup {k.queue[1]}) \in {Cardinality(k.hand), Cardinality(k.hand) + 1}
    BY <1>1, FS_AddElement
  <2> QED BY <1>1, <1>3, <2>1
<1>11. new.loops <= 1 =>
         /\ \A x, y \in DOMAIN w : x < y => w[x] < w[y]
         /\ \A n \in new.hand, y \in DOMAIN w : w[y] < n
  <2> SUFFICES ASSUME new.loops <= 1
               PROVE  /\ \A x, y \in DOMAIN w : x < y => w[x] < w[y]
                      /\ \A n \in new.hand, y \in DOMAIN w : w[y] < n
    OBVIOUS
  <2> QED BY <1>2, <1>3 DEF Carries, InOrderAt
<1> QED
  BY <1>3, <1>5, <1>6, <1>7, <1>8, <1>9, <1>10, <1>11 DEF Carries, InOrderAt, new

\* It writes what it has taken, or fails to.
LEMMA WrittenCarries ==
  ASSUME NEW k, NEW w, Carries(k, w), NEW n \in k.hand
  PROVE  /\ Carries(Written(k, n), w) /\ Load(Written(k, n), w) \subseteq Load(k, w)
         /\ Carries(Written(k, n), Append(w, n)) /\ Load(Written(k, n), Append(w, n)) \subseteq Load(k, w)
<1> DEFINE new == Written(k, n)
           more == Append(w, n)
<1>1. /\ k.queue \in Seq(Nat) /\ k.loops \in Nat /\ k.hand \subseteq Nat /\ n \in Nat
      /\ IsFiniteSet(k.hand) /\ Cardinality(k.hand) \in Nat /\ Cardinality(k.hand) <= k.loops
      /\ w \in Seq(Nat)
  BY FS_CardinalityType DEF Carries, Client, InOrderAt
<1>2. /\ new \in Client /\ new.queue = k.queue
      /\ new.hand = k.hand \ {n} /\ new.loops = k.loops
  BY <1>1 DEF Carries, Client, Written
<1>3. /\ more \in Seq(Nat) /\ Len(more) = Len(w) + 1 /\ Len(w) \in Nat
      /\ \A x \in DOMAIN more : (x \in DOMAIN w /\ more[x] = w[x]) \/ (x = Len(w) + 1 /\ more[x] = n)
  BY <1>1
<1> HIDE DEF new, more
<1>4. IsFiniteSet(new.hand) /\ Cardinality(new.hand) <= new.loops
  <2>1. IsFiniteSet(k.hand \ {n}) /\ Cardinality(k.hand \ {n}) = Cardinality(k.hand) - 1
    BY <1>1, FS_RemoveElement
  <2> QED BY <1>1, <1>2, <2>1
<1>5. k.loops <= 1 => new.hand = {}
  <2>1. IsFiniteSet(k.hand \ {n}) /\ Cardinality(k.hand \ {n}) = Cardinality(k.hand) - 1
    BY <1>1, FS_RemoveElement
  <2>2. ASSUME k.loops <= 1 PROVE Cardinality(new.hand) = 0
    <3>1. Cardinality(new.hand) \in Nat
      BY <1>4, FS_CardinalityType
    <3> QED BY <1>1, <1>2, <2>1, <2>2, <3>1
  <2> QED BY <1>4, <2>2, FS_EmptySet
<1>6. InOrderAt(new, w) /\ Load(new, w) \subseteq Load(k, w)
  BY <1>2, <1>4 DEF Carries, InOrderAt, Load
<1>7. Load(new, more) \subseteq Load(k, w)
  BY <1>2, <1>3 DEF Load
<1>8. InOrderAt(new, more)
  <2>1. \A x \in DOMAIN new.queue, y \in DOMAIN more : more[y] < new.queue[x]
    BY <1>2, <1>3 DEF Carries, InOrderAt
  <2>2. \A m \in new.hand, y \in DOMAIN more : more[y] # m
    BY <1>2, <1>3 DEF Carries, InOrderAt
  <2>3. \A x, y \in DOMAIN more : more[x] = more[y] => x = y
    BY <1>3 DEF Carries, InOrderAt
  <2>4. ASSUME new.loops <= 1
        PROVE  /\ \A x, y \in DOMAIN more : x < y => more[x] < more[y]
               /\ \A m \in new.hand, y \in DOMAIN more : more[y] < m
    <3>1. \A x, y \in DOMAIN w : x < y => w[x] < w[y]
      BY <1>2, <2>4 DEF Carries, InOrderAt
    <3>2. \A y \in DOMAIN w : w[y] < n
      BY <1>2, <2>4 DEF Carries, InOrderAt
    <3>3. ASSUME NEW x \in DOMAIN more, NEW y \in DOMAIN more, x < y PROVE more[x] < more[y]
      <4>1. x \in DOMAIN w /\ more[x] = w[x]
        BY <1>3, <3>3
      <4> QED BY <1>3, <3>1, <3>2, <3>3, <4>1
    <3> QED BY <1>2, <1>5, <2>4, <3>3
  <2> QED BY <1>2, <1>4, <2>1, <2>2, <2>3, <2>4 DEF Carries, InOrderAt
<1> QED
  BY <1>1, <1>2, <1>3, <1>6, <1>7, <1>8 DEF Carries, new, more

-----------------------------------------------------------------------------
(* Facts about the parts of the state. *)

\* An event joins the queue of events, or leaves it.
LEMMA EventJoins ==
  ASSUME NEW q, EventsTold(q), NEW e, Told(e)
  PROVE  EventsTold(Append(q, e))
<1> DEFINE S == {q[x] : x \in DOMAIN q} \cup {e}
           r == Append(q, e)
<1>1. q \in Seq({q[x] : x \in DOMAIN q})
  BY DEF EventsTold
<1>2. q \in Seq(S)
  BY <1>1
<1>3. /\ r \in Seq(S) /\ DOMAIN r = 1..Len(r)
      /\ \A x \in DOMAIN r : r[x] = e \/ \E y \in DOMAIN q : r[x] = q[y]
  BY <1>2
<1> HIDE DEF r, S
<1>4. r \in Seq({r[x] : x \in DOMAIN r})
  BY <1>3
<1>5. \A x \in DOMAIN r : Told(r[x])
  BY <1>3 DEF EventsTold
<1> QED BY <1>4, <1>5 DEF EventsTold, r

\* What is left of the events when the first is taken.
LEMMA EventLeaves ==
  ASSUME NEW q, EventsTold(q), q # <<>>
  PROVE  EventsTold(Tail(q)) /\ Told(Head(q))
<1> DEFINE S == {q[x] : x \in DOMAIN q}
           r == Tail(q)
<1>1. q \in Seq(S)
  BY DEF EventsTold
<1>2. /\ r \in Seq(S) /\ DOMAIN r = 1..Len(r)
      /\ \A x \in DOMAIN r : x + 1 \in DOMAIN q /\ r[x] = q[x + 1]
      /\ Head(q) = q[1] /\ 1 \in DOMAIN q
  BY <1>1
<1> HIDE DEF r, S
<1>3. r \in Seq({r[x] : x \in DOMAIN r})
  BY <1>2
<1>4. \A x \in DOMAIN r : Told(r[x])
  BY <1>2 DEF EventsTold
<1>5. Told(Head(q))
  BY <1>2 DEF EventsTold
<1> QED BY <1>3, <1>4, <1>5 DEF EventsTold, r

\* An order of a finite set has its elements, as many as there are.
LEMMA Ordered ==
  ASSUME NEW S, IsFiniteSet(S), NEW order \in SetToSeqs(S)
  PROVE  Cardinality(S) \in Nat /\ order \in Seq(S) /\ Len(order) = Cardinality(S)
<1> DEFINE len == Cardinality(S)
<1>1. len \in Nat
  BY FS_CardinalityType
<1>2. order \in [1..len -> S]
  BY DEF SetToSeqs
<1> HIDE DEF len
<1>3. order \in Seq(S) /\ Len(order) = len
  BY <1>1, <1>2
<1> QED BY <1>1, <1>3 DEF len

\* Clients may lose what they carry and new ones may come, while the requests
\* that are still on their way stay as they are.
LEMMA LessCarried ==
  ASSUME ClientsInv,
         conns' \in Seq(Client), wire' \in Seq(Seq(Nat)), Len(wire') = Len(conns'),
         \A k \in DOMAIN conns' :
           /\ InOrderAt(conns'[k], wire'[k])
           /\ \/ Load(conns'[k], wire'[k]) = {}
              \/ k \in DOMAIN conns /\ Load(conns'[k], wire'[k]) \subseteq Load(conns[k], wire[k]),
         \A n : Passed(n) => Passed(n)'
  PROVE  ClientsInv'
<1>1. ASSUME NEW k \in DOMAIN conns', NEW n \in Load(conns'[k], wire'[k])
      PROVE  k \in DOMAIN conns /\ n \in Load(conns[k], wire[k])
  BY <1>1
<1>2. ASSUME NEW k \in DOMAIN conns', NEW n \in Load(conns'[k], wire'[k])
      PROVE  Passed(n)'
  <2>1. Passed(n)
    BY <1>1, <1>2 DEF ClientsInv
  <2> QED BY <2>1
<1>3. ASSUME NEW j \in DOMAIN conns', NEW k \in DOMAIN conns', j # k
      PROVE  Load(conns'[j], wire'[j]) \cap Load(conns'[k], wire'[k]) = {}
  <2>1. \A n \in Load(conns'[j], wire'[j]) \cap Load(conns'[k], wire'[k]) :
          /\ j \in DOMAIN conns /\ k \in DOMAIN conns
          /\ n \in Load(conns[j], wire[j]) \cap Load(conns[k], wire[k])
    BY <1>1
  <2> QED BY <1>3, <2>1 DEF ClientsInv
<1> QED BY <1>2, <1>3 DEF ClientsInv

\* One client changes, and carries nothing that it did not carry.
LEMMA OneClient ==
  ASSUME ClientsInv, NEW k, NEW new, NEW w,
         k \in DOMAIN conns => Carries(new, w) /\ Load(new, w) \subseteq Load(conns[k], wire[k]),
         conns' = [conns EXCEPT ![k] = new], wire' = [wire EXCEPT ![k] = w],
         \A n : Passed(n) => Passed(n)'
  PROVE  ClientsInv'
<1>1. conns \in Seq(Client) /\ wire \in Seq(Seq(Nat)) /\ Len(wire) = Len(conns)
  BY DEF ClientsInv
<1>2. CASE k \notin DOMAIN conns
  <2>1. conns' = conns /\ wire' = wire
    BY <1>1, <1>2
  <2> QED BY <1>1, <2>1, LessCarried DEF ClientsInv
<1>3. CASE k \in DOMAIN conns
  <2>1. new \in Client /\ w \in Seq(Nat) /\ k \in 1..Len(conns)
    BY <1>1, <1>3 DEF Carries
  <2>2. /\ conns' \in Seq(Client) /\ Len(conns') = Len(conns)
        /\ \A j \in DOMAIN conns' : j \in DOMAIN conns /\ conns'[j] = IF j = k THEN new ELSE conns[j]
    BY <1>1, <2>1, ExceptSeq
  <2>3. /\ wire' \in Seq(Seq(Nat)) /\ Len(wire') = Len(wire)
        /\ \A j \in DOMAIN wire' : wire'[j] = IF j = k THEN w ELSE wire[j]
    BY <1>1, <2>1, ExceptSeq
  <2>4. ASSUME NEW j \in DOMAIN conns'
        PROVE  /\ InOrderAt(conns'[j], wire'[j])
               /\ j \in DOMAIN conns /\ Load(conns'[j], wire'[j]) \subseteq Load(conns[j], wire[j])
    <3>1. j \in DOMAIN conns /\ j \in DOMAIN wire'
      BY <1>1, <2>2, <2>3
    <3>2. CASE j = k
      BY <1>3, <2>2, <2>3, <3>1, <3>2 DEF Carries
    <3>3. CASE j # k
      BY <2>2, <2>3, <3>1, <3>3 DEF ClientsInv
    <3> QED BY <3>2, <3>3
  <2> QED BY <1>1, <2>2, <2>3, <2>4, LessCarried
<1> QED BY <1>2, <1>3

\* A client as the invariant knows it.
LEMMA ClientCarries ==
  ASSUME ClientsInv, NEW k \in DOMAIN conns
  PROVE  Carries(conns[k], wire[k])
BY DEF ClientsInv, Carries

-----------------------------------------------------------------------------
(* The invariant holds at the start and after every step. *)

\* The proxy starts without clients and without requests.
LEMMA InitIInv == Init => IInv
<1> SUFFICES ASSUME Init PROVE IInv
  OBVIOUS
<1> USE DEF Init, ProxyInit
<1>1. MutexInv
  BY CallersAssumption DEF MutexInv, Kinds, NoCall
<1>2. TableInv
  BY DEF TableInv
<1>3. ChangesInv
  <2>1. Registered = {} /\ IsFiniteSet({})
    BY FS_EmptySet DEF DirectoryInit, Registered
  <2> QED BY <2>1 DEF DirectoryInit, ChangesInv, EventsTold
<1>4. SendsInv
  BY CallersAssumption DEF SendsInv
<1>5. JobInv
  BY CallersAssumption DEF JobInv, NoJob
<1>6. ClientsInv
  BY DEF ClientsInv
<1> QED BY <1>1, <1>2, <1>3, <1>4, <1>5, <1>6 DEF IInv

\* The steps that leave the requests and the clients alone.
LEMMA AsideKeepsIInv ==
  ASSUME IInv,
         \/ Elsewhere \/ Subscribe \/ WatchBegins \/ WatchEnds \/ WatchReports
         \/ \E a \in Addrs : PeerStarts(a) \/ PeerEnds(a)
         \/ UNCHANGED vars
  PROVE  IInv'
<1>1. UNCHANGED <<conns, wire, loop, lock, calls>>
  BY DEF Elsewhere, Subscribe, WatchBegins, WatchEnds, WatchReports, PeerStarts, PeerEnds,
         vars, lists
<1>2. MutexInv' /\ TableInv' /\ SendsInv' /\ JobInv'
  BY <1>1 DEF IInv, MutexInv, TableInv, SendsInv, JobInv, loop, calls
<1>3. ClientsInv'
  BY <1>1 DEF IInv, ClientsInv, Passed, loop, calls
<1>4. ChangesInv'
  <2>1. CASE Elsewhere
    <3>1. UNCHANGED <<todo, watch, events, main>>
      BY <2>1 DEF Elsewhere, loop, subscription, lists
    <3>2. /\ store' \in [Addrs -> Ids \cup {NoId}] /\ log' \in Seq(Change)
          /\ \E a \in Addrs : Registered' \subseteq Registered \cup {a}
      <4>1. store \in [Addrs -> Ids \cup {NoId}] /\ log \in Seq(Change)
        BY DEF IInv, ChangesInv
      <4>2. CASE \E a \in Addrs : Vanish(a)
        <5>1. PICK a \in Addrs : Vanish(a)
          BY <4>2
        <5>2. [op |-> "del", addr |-> a, id |-> NoId] \in Change
          BY DEF Change
        <5>3. Registered' \subseteq Registered \cup {a}
          BY <4>1, <5>1 DEF Vanish, Registered
        <5> QED BY <4>1, <5>1, <5>2, <5>3 DEF Vanish, Reported
      <4>3. CASE \E a \in Addrs, i \in Ids : Register(a, i)
        <5>1. PICK a \in Addrs, i \in Ids : Register(a, i)
          BY <4>3
        <5>2. [op |-> "put", addr |-> a, id |-> i] \in Change
          BY DEF Change
        <5>3. Registered' \subseteq Registered \cup {a}
          BY <4>1, <5>1 DEF Register, Registered
        <5> QED BY <4>1, <5>1, <5>2, <5>3 DEF Register, Reported
      <4> QED BY <2>1, <4>2, <4>3 DEF Elsewhere, DirectoryNext
    <3>3. IsFiniteSet(Registered')
      <4>1. PICK a \in Addrs : Registered' \subseteq Registered \cup {a}
        BY <3>2
      <4>2. IsFiniteSet(Registered \cup {a})
        BY FS_AddElement DEF IInv, ChangesInv
      <4> QED BY <4>1, <4>2, FS_Subset
    <3> QED BY <3>1, <3>2, <3>3 DEF IInv, ChangesInv
  <2>2. CASE WatchReports
    <3>1. PICK upto \in (watch.pos + 1)..Len(log) :
            /\ events' = Append(events, [kind |-> "changes", changes |-> SubSeq(log, watch.pos + 1, upto)])
            /\ watch' = [watch EXCEPT !.pos = upto]
      BY <2>2 DEF WatchReports
    <3>2. watch.pos \in Nat /\ log \in Seq(Change) /\ Len(log) \in Nat
      BY DEF IInv, ChangesInv
    <3>3. upto \in Nat /\ SubSeq(log, watch.pos + 1, upto) \in Seq(Change) \ {<<>>}
      <4>1. watch.pos + 1 \in Nat /\ upto \in Nat /\ watch.pos + 1 <= upto
        BY <3>2
      <4>2. Len(SubSeq(log, watch.pos + 1, upto)) = upto - (watch.pos + 1) + 1
        BY <3>2, <4>1
      <4>3. SubSeq(log, watch.pos + 1, upto) \in Seq(Change)
        BY <3>2, <4>1
      <4>4. upto - (watch.pos + 1) + 1 # 0
        BY <3>2, <4>1
      <4> QED BY <4>1, <4>2, <4>3, <4>4, EmptySeq
    <3>4. EventsTold(events')
      BY <3>1, <3>3, EventJoins DEF IInv, ChangesInv, Told
    <3>5. watch' \in [state : {"off", "on", "ended"}, pos : Nat]
      BY <3>1, <3>3 DEF IInv, ChangesInv
    <3>6. UNCHANGED <<store, log, todo, main>>
      BY <2>2 DEF WatchReports, directory, loop
    <3> QED BY <3>4, <3>5, <3>6 DEF IInv, ChangesInv, Registered
  <2>3. CASE WatchBegins
    <3>1. Len(log) \in Nat
      BY DEF IInv, ChangesInv
    <3>2. watch' \in [state : {"off", "on", "ended"}, pos : Nat]
      BY <2>3, <3>1 DEF WatchBegins
    <3> QED BY <2>3, <3>2 DEF WatchBegins, IInv, ChangesInv, Registered, directory, lists, loop
  <2>4. CASE WatchEnds
    <3>1. watch' \in [state : {"off", "on", "ended"}, pos : Nat]
      BY <2>4 DEF WatchEnds, IInv, ChangesInv
    <3> QED BY <2>4, <3>1 DEF WatchEnds, IInv, ChangesInv, Registered, directory, lists, loop
  <2>5. CASE UNCHANGED <<store, log, todo, main, watch, events>>
    BY <2>5 DEF IInv, ChangesInv, Registered
  <2> QED
    BY <2>1, <2>2, <2>3, <2>4, <2>5 DEF Subscribe, PeerStarts, PeerEnds, vars, directory, lists, loop, subscription
<1> QED BY <1>2, <1>3, <1>4 DEF IInv

\* The steps of Find and of the timer touch clients alone.
LEMMA FindKeepsIInv == ASSUME IInv, Find PROVE IInv'
<1> DEFINE found == {a \in Addrs : store[a] # NoId}
           Made(order) == [n \in DOMAIN order |->
                             Connect(NewTcpClient(order[n], store[order[n]]), order[n] \in reachable)]
<1>1. /\ UNCHANGED <<store, log, events, watch, loop, lock, calls>>
      /\ wire' = [n \in 1..Cardinality(found) |-> <<>>]
      /\ \E order \in SetToSeqs(found) : conns' = Made(order)
  BY DEF Find, directory
<1>2. MutexInv' /\ TableInv' /\ SendsInv' /\ JobInv' /\ ChangesInv'
  BY <1>1 DEF IInv, MutexInv, TableInv, SendsInv, JobInv, ChangesInv, Registered, loop, calls
<1>3. PICK order \in SetToSeqs(found) : conns' = Made(order)
  BY <1>1
<1>4. Cardinality(found) \in Nat /\ order \in Seq(found) /\ Len(order) = Cardinality(found)
  BY Ordered DEF IInv, ChangesInv, Registered
<1>5. ASSUME NEW n \in DOMAIN order
      PROVE  Carries(Made(order)[n], <<>>) /\ Load(Made(order)[n], <<>>) = {}
  <2>1. order[n] \in Addrs /\ store[order[n]] \in Ids \cup {NoId}
    BY <1>4 DEF IInv, ChangesInv
  <2>2. /\ Carries(NewTcpClient(order[n], store[order[n]]), <<>>)
        /\ Load(NewTcpClient(order[n], store[order[n]]), <<>>) = {}
    BY <2>1, NewCarriesNothing, EmptySeq DEF Carries
  <2>3. (order[n] \in reachable) \in BOOLEAN
    OBVIOUS
  <2> QED BY <2>2, <2>3, ConnectCarries
<1>6. /\ conns' \in Seq(Client) /\ Len(conns') = Len(order)
      /\ \A n \in DOMAIN conns' : n \in DOMAIN order /\ conns'[n] = Made(order)[n]
  <2>1. DOMAIN order = 1..Len(order) /\ Len(order) \in Nat
    BY <1>4
  <2>2. \A n \in DOMAIN order : Made(order)[n] \in Client
    BY <1>5 DEF Carries
  <2>3. Made(order) = [n \in 1..Len(order) |-> Made(order)[n]]
    BY <2>1
  <2> HIDE DEF Made
  <2> QED BY <1>3, <2>1, <2>2, <2>3
<1>7. wire' \in Seq(Seq(Nat)) /\ Len(wire') = Len(conns') /\ \A n \in DOMAIN conns' : wire'[n] = <<>>
  <2> DEFINE c == Cardinality(found)
  <2>1. c \in Nat /\ wire' = [n \in 1..c |-> <<>>] /\ Len(conns') = c
    BY <1>1, <1>4, <1>6
  <2>2. DOMAIN conns' = 1..c
    BY <1>6, <2>1
  <2>3. <<>> \in Seq(Nat)
    OBVIOUS
  <2> HIDE DEF c
  <2> QED BY <2>1, <2>2, <2>3
<1>8. \A n : Passed(n) => Passed(n)'
  BY <1>1 DEF Passed, loop, calls
<1> HIDE DEF Made, found
<1>9. ClientsInv'
  BY <1>5, <1>6, <1>7, <1>8, LessCarried DEF IInv, Carries
<1> QED BY <1>2, <1>9 DEF IInv

\* The timer: some clients are connected, which carries nothing.
LEMMA RetryClientConnectKeepsIInv == ASSUME IInv, RetryClientConnect PROVE IInv'
<1>1. /\ UNCHANGED <<store, log, events, watch, todo, job, lock, calls, wire>>
      /\ main = "select" /\ main' \in {"select", "stuck"}
      /\ \E S : conns' = [k \in DOMAIN conns |->
                            IF k \in S THEN Connect(conns[k], conns[k].addr \in reachable) ELSE conns[k]]
  <2> DEFINE held  == SelectInSeq(inactive, LAMBDA k : conns[k].held)
             tried == IF held = 0 THEN inactive ELSE SubSeq(inactive, 1, held - 1)
             S     == {k \in DOMAIN conns : \E n \in DOMAIN tried : tried[n] = k}
  <2>1. conns' = [k \in DOMAIN conns |->
                    IF \E n \in DOMAIN tried : tried[n] = k
                    THEN Connect(conns[k], conns[k].addr \in reachable) ELSE conns[k]]
    BY DEF RetryClientConnect
  <2>2. \A k \in DOMAIN conns : k \in S <=> \E n \in DOMAIN tried : tried[n] = k
    OBVIOUS
  <2> HIDE DEF tried, S
  <2>3. conns' = [k \in DOMAIN conns |->
                    IF k \in S THEN Connect(conns[k], conns[k].addr \in reachable) ELSE conns[k]]
    BY <2>1, <2>2
  <2> QED BY <2>3 DEF RetryClientConnect, directory, subscription
<1>2. MutexInv' /\ TableInv' /\ SendsInv' /\ JobInv' /\ ChangesInv'
  BY <1>1 DEF IInv, MutexInv, TableInv, SendsInv, JobInv, ChangesInv, Registered, calls
<1>3. PICK S : conns' = [k \in DOMAIN conns |->
                           IF k \in S THEN Connect(conns[k], conns[k].addr \in reachable) ELSE conns[k]]
  BY <1>1
<1>4. ASSUME NEW k \in DOMAIN conns
      PROVE  Carries(conns'[k], wire[k]) /\ Load(conns'[k], wire[k]) \subseteq Load(conns[k], wire[k])
  <2>1. Carries(conns[k], wire[k])
    BY ClientCarries DEF IInv
  <2>2. (conns[k].addr \in reachable) \in BOOLEAN
    OBVIOUS
  <2> QED BY <1>3, <2>1, <2>2, ConnectCarries
<1>5. /\ conns \in Seq(Client) /\ wire \in Seq(Seq(Nat)) /\ Len(wire) = Len(conns)
      /\ DOMAIN conns' = DOMAIN conns
  BY <1>3 DEF IInv, ClientsInv
<1>6. conns' \in Seq(Client) /\ Len(conns') = Len(conns)
  <2>1. DOMAIN conns = 1..Len(conns) /\ Len(conns) \in Nat
    BY <1>5
  <2>2. \A k \in 1..Len(conns) : conns'[k] \in Client
    BY <1>4, <2>1 DEF Carries
  <2>3. conns' = [k \in 1..Len(conns) |-> conns'[k]]
    BY <1>3, <2>1
  <2> QED BY <2>1, <2>2, <2>3
<1>7. \A n : Passed(n) => Passed(n)'
  BY <1>1 DEF Passed, calls
<1>8. ClientsInv'
  BY <1>1, <1>4, <1>5, <1>6, <1>7, LessCarried DEF IInv, Carries
<1> QED BY <1>2, <1>8 DEF IInv

\* The main loop takes an event; changes it works off are never none.
LEMMA TakeEventKeepsIInv == ASSUME IInv, TakeEvent PROVE IInv'
<1>1. /\ UNCHANGED <<store, log, watch, conns, job, lock, calls, wire>>
      /\ main = "select" /\ events # <<>> /\ events' = Tail(events)
      /\ \/ main' = main /\ todo' = todo
         \/ main' = "changes" /\ Head(events).kind = "changes" /\ todo' = Head(events).changes
  BY DEF TakeEvent, directory, subscription
<1>2. MutexInv' /\ TableInv' /\ SendsInv' /\ JobInv'
  BY <1>1 DEF IInv, MutexInv, TableInv, SendsInv, JobInv, calls
<1>3. EventsTold(events') /\ Told(Head(events))
  BY <1>1, EventLeaves DEF IInv, ChangesInv
<1>4. ChangesInv'
  BY <1>1, <1>3 DEF IInv, ChangesInv, Registered, Told
<1>5. ClientsInv'
  BY <1>1 DEF IInv, ClientsInv, Passed, calls
<1> QED BY <1>2, <1>4, <1>5 DEF IInv

\* Closing an active client: it keeps what it carries, and an event that is no
\* change may come.
LEMMA CloseActiveKeeps ==
  ASSUME ClientsInv, EventsTold(events), NEW n, NEW then, CloseActive(n, then),
         UNCHANGED wire, \A m : Passed(m) => Passed(m)'
  PROVE  ClientsInv' /\ EventsTold(events') /\ main' \in {"stuck", then}
<1> DEFINE k == active[n]
<1>1. /\ conns' = conns \/ conns' = [conns EXCEPT ![k] = Close(conns[k])]
      /\ events' = events \/ events' = Append(events, Closing(k))
      /\ main' \in {"stuck", then}
  <2>1. conns' = conns \/ conns' = [conns EXCEPT ![k] = Close(conns[k])]
    BY DEF CloseActive
  <2>2. events' = events \/ events' = Append(events, Closing(k))
    BY DEF CloseActive
  <2>3. main' \in {"stuck", then}
    BY DEF CloseActive
  <2> QED BY <2>1, <2>2, <2>3
<1>2. Told(Closing(k))
  <2>1. Closing(k).kind = "close"
    BY DEF Closing
  <2> QED BY <2>1 DEF Told
<1>3. EventsTold(events')
  <2>1. EventsTold(Append(events, Closing(k)))
    BY <1>2, EventJoins
  <2> QED BY <1>1, <2>1
<1> HIDE DEF k
<1>4. wire \in Seq(Seq(Nat)) /\ wire' = [wire EXCEPT ![k] = wire[k]]
  <2>1. wire \in Seq(Seq(Nat))
    BY DEF ClientsInv
  <2>2. [wire EXCEPT ![k] = wire[k]] = wire
    BY <2>1
  <2> QED BY <2>1, <2>2
<1>5. k \in DOMAIN conns => Carries(conns[k], wire[k])
  BY ClientCarries
<1>6. k \in DOMAIN conns => Carries(Close(conns[k]), wire[k]) /\ Load(Close(conns[k]), wire[k]) \subseteq Load(conns[k], wire[k])
  BY <1>5, CloseCarries
<1>7. CASE conns' = [conns EXCEPT ![k] = Close(conns[k])]
  BY <1>1, <1>3, <1>4, <1>6, <1>7, OneClient
<1>8. CASE conns' = conns
  <2>1. ClientsInv'
    BY <1>8, LessCarried DEF ClientsInv
  <2> QED BY <1>1, <1>3, <2>1
<1> QED BY <1>1, <1>7, <1>8

\* One change: a client comes, without requests, or an active one is closed.
LEMMA DoChangeKeepsIInv == ASSUME IInv, DoChange PROVE IInv'
<1> DEFINE change == Head(todo)
           then   == IF Len(todo) = 1 THEN "select" ELSE "changes"
<1>1. /\ UNCHANGED <<store, log, watch, job, lock, calls>>
      /\ main = "changes" /\ todo' = Tail(todo)
      /\ IF change.op = "put" THEN DoPut(change.addr, change.id) /\ main' = then
         ELSE DoClientRemove(change.addr, change.id, then) /\ UNCHANGED wire
  BY DEF DoChange, directory, subscription
<1>2. \A n : Passed(n) => Passed(n)'
  BY <1>1 DEF Passed, calls
<1>3. todo \in Seq(Change) /\ todo # <<>>
  BY <1>1 DEF IInv, ChangesInv
<1>4. ClientsInv' /\ EventsTold(events') /\ main' \in {"stuck", then}
  <2>1. CASE change.op = "put"
    <3>1. DoPut(change.addr, change.id) /\ main' = then
      BY <1>1, <2>1
    <3>2. change.addr \in Addrs /\ change.id \in Ids \cup {NoId}
      <4>1. todo \in Seq(Change)
        BY DEF IInv, ChangesInv
      <4>2. change \in Change
        BY <1>3, <4>1
      <4> QED BY <4>2 DEF Change
    <3> DEFINE new == NewTcpClient(change.addr, change.id)
    <3>3. new \in Client /\ InOrderAt(new, <<>>) /\ Load(new, <<>>) = {}
      BY <3>2, NewCarriesNothing
    <3>4. conns \in Seq(Client) /\ wire \in Seq(Seq(Nat)) /\ Len(wire) = Len(conns)
      BY DEF IInv, ClientsInv
    <3> HIDE DEF new, then
    <3>5. CASE UNCHANGED <<conns, wire, events>>
      <4>1. ClientsInv'
        BY <1>2, <3>5, LessCarried DEF ClientsInv, IInv
      <4> QED BY <3>1, <3>5, <4>1 DEF IInv, ChangesInv
    <3>6. CASE conns' = Append(conns, new) /\ wire' = Append(wire, <<>>) /\ UNCHANGED events
      <4>0. DOMAIN wire = DOMAIN conns
        BY <3>4
      <4>1. /\ conns' \in Seq(Client) /\ Len(conns') = Len(conns) + 1
            /\ \A k \in DOMAIN conns' : \/ k \in DOMAIN conns /\ conns'[k] = conns[k]
                                        \/ k = Len(conns) + 1 /\ conns'[k] = new
        BY <3>3, <3>4, <3>6
      <4>2. <<>> \in Seq(Nat)
        OBVIOUS
      <4>3. /\ wire' \in Seq(Seq(Nat)) /\ Len(wire') = Len(wire) + 1
            /\ \A k \in DOMAIN wire : wire'[k] = wire[k]
            /\ wire'[Len(wire) + 1] = <<>>
        BY <3>4, <3>6, <4>2
      <4>4. ASSUME NEW k \in DOMAIN conns'
            PROVE  /\ InOrderAt(conns'[k], wire'[k])
                   /\ \/ Load(conns'[k], wire'[k]) = {}
                      \/ k \in DOMAIN conns /\ Load(conns'[k], wire'[k]) \subseteq Load(conns[k], wire[k])
        <5>1. CASE k \in DOMAIN conns /\ conns'[k] = conns[k]
          <6>1. k \in DOMAIN wire
            BY <4>0, <5>1
          <6>2. wire'[k] = wire[k]
            BY <4>3, <6>1
          <6> QED BY <5>1, <6>2 DEF IInv, ClientsInv
        <5>2. CASE k = Len(conns) + 1 /\ conns'[k] = new
          <6>1. wire'[k] = <<>>
            BY <3>4, <4>3, <5>2
          <6> QED BY <3>3, <5>2, <6>1
        <5> QED BY <4>1, <5>1, <5>2
      <4>5. Len(wire') = Len(conns')
        BY <3>4, <4>1, <4>3
      <4>6. ClientsInv'
        BY <1>2, <4>1, <4>3, <4>4, <4>5, LessCarried DEF IInv
      <4> QED BY <3>1, <3>6, <4>6 DEF IInv, ChangesInv
    <3> QED BY <3>1, <3>5, <3>6 DEF DoPut, new
  <2>2. CASE change.op # "put"
    <3>1. DoClientRemove(change.addr, change.id, then) /\ UNCHANGED wire
      BY <1>1, <2>2
    <3> HIDE DEF then, change
    <3>2. CASE \E n : CloseActive(n, then)
      BY <1>2, <3>1, <3>2, CloseActiveKeeps DEF IInv, ChangesInv
    <3>3. CASE UNCHANGED <<conns, events>> /\ main' = then
      <4>1. ClientsInv'
        BY <1>2, <3>1, <3>3, LessCarried DEF ClientsInv, IInv
      <4> QED BY <3>3, <4>1 DEF IInv, ChangesInv
    <3> QED BY <3>1, <3>2, <3>3 DEF DoClientRemove
  <2> QED BY <2>1, <2>2
<1>5. todo' \in Seq(Change) /\ (then = "changes" => todo' # <<>>) /\ then \in {"select", "changes"}
  <2>1. todo' \in Seq(Change) /\ Len(todo') = Len(todo) - 1 /\ Len(todo) \in Nat
    BY <1>1, <1>3
  <2>2. CASE Len(todo) = 1
    BY <2>1, <2>2
  <2>3. CASE Len(todo) # 1
    <3>1. Len(todo') # 0
      BY <2>1, <2>3
    <3> QED BY <2>1, <2>3, <3>1
  <2> QED BY <2>2, <2>3
<1> HIDE DEF then
<1>6. ChangesInv'
  BY <1>1, <1>4, <1>5 DEF IInv, ChangesInv, Registered
<1>7. MutexInv' /\ TableInv' /\ SendsInv' /\ JobInv'
  BY <1>1, <1>4, <1>5 DEF IInv, MutexInv, TableInv, SendsInv, JobInv, calls
<1> QED BY <1>4, <1>6, <1>7 DEF IInv

\* What is queued are requests that have been issued.
LEMMA QueuedRequests ==
  ASSUME IInv
  PROVE  \A x \in DOMAIN sends : sends[x] \in [n : 1..issued, hash : Nat] /\ sends[x].n \in Nat /\ 0 < sends[x].n
<1>1. issued \in Nat /\ sends \in Seq([n : 1..issued, hash : Nat])
  BY DEF IInv, MutexInv, SendsInv
<1>2. \A x \in DOMAIN sends : sends[x] \in [n : 1..issued, hash : Nat]
  BY <1>1, LenProperties, ElementOfSeq
<1>3. \A r \in [n : 1..issued, hash : Nat] : r.n \in 1..issued
  OBVIOUS
<1>4. \A n \in 1..issued : n \in Nat /\ 0 < n
  BY <1>1
<1> QED BY <1>2, <1>3, <1>4

\* The oldest request leaves channel_send for the main loop's hands.
LEMMA TakeRequestKeepsIInv == ASSUME IInv, TakeRequest PROVE IInv'
<1>1. /\ UNCHANGED <<store, log, events, watch, conns, todo, lock, reqs, pc, call, alive, issued, wire>>
      /\ main' \in {"send", "lock"}
      /\ sends # <<>> /\ sends' = Tail(sends) /\ job'.req = Head(sends)
  BY DEF TakeRequest, directory, lists, subscription
<1>2. sends \in Seq([n : 1..issued, hash : Nat]) /\ issued \in Nat
  BY DEF IInv, SendsInv, MutexInv
<1>3. /\ Head(sends) = sends[1] /\ 1 \in DOMAIN sends /\ sends[1] \in [n : 1..issued, hash : Nat]
      /\ sends' \in Seq([n : 1..issued, hash : Nat])
      /\ \A x \in DOMAIN sends' : x \in Nat /\ x + 1 \in DOMAIN sends /\ 1 < x + 1 /\ sends'[x] = sends[x + 1]
  <2> DEFINE S == [n : 1..issued, hash : Nat]
  <2>1. sends \in Seq(S)
    BY <1>2
  <2> HIDE DEF S
  <2>2. /\ Head(sends) = sends[1] /\ 1 \in DOMAIN sends /\ sends[1] \in S
        /\ sends' \in Seq(S)
        /\ \A x \in DOMAIN sends' : x \in Nat /\ x + 1 \in DOMAIN sends /\ 1 < x + 1 /\ sends'[x] = sends[x + 1]
    BY <1>1, <2>1
  <2> QED BY <2>2 DEF S
<1>4. MutexInv' /\ TableInv' /\ ChangesInv'
  BY <1>1 DEF IInv, MutexInv, TableInv, ChangesInv, Registered
<1>5. SendsInv'
  <2>1. ASSUME NEW x \in DOMAIN sends', NEW y \in DOMAIN sends', x < y PROVE sends'[x].n < sends'[y].n
    <3>1. x + 1 < y + 1
      BY <1>3, <2>1
    <3> QED BY <1>3, <3>1 DEF IInv, SendsInv
  <2>2. lock' \in Callers => issued' # 0 /\ \A x \in DOMAIN sends' : sends'[x].n < issued'
    BY <1>1, <1>3 DEF IInv, SendsInv
  <2> QED BY <1>1, <1>3, <2>1, <2>2 DEF SendsInv
<1>6. JobInv'
  <2>1. job'.req = sends[1] /\ sends[1].n \in 1..issued /\ sends[1] \in [n : 0..issued, hash : Nat]
    BY <1>1, <1>2, <1>3
  <2>2. sends[1].n # 0
    BY <1>2, <2>1
  <2>3. \A x \in DOMAIN sends' : job'.req.n < sends'[x].n
    BY <1>3, <2>1 DEF IInv, SendsInv
  <2>4. lock' \in Callers => job'.req.n < issued'
    BY <1>1, <1>3, <2>1 DEF IInv, SendsInv
  <2> QED BY <1>1, <2>1, <2>2, <2>3, <2>4 DEF JobInv
<1>7. \A n : Passed(n) => Passed(n)'
  <2> SUFFICES ASSUME NEW n, Passed(n) PROVE Passed(n)'
    OBVIOUS
  <2>1. n < sends[1].n /\ \A x \in DOMAIN sends' : n < sends'[x].n
    BY <1>3 DEF Passed
  <2> QED BY <1>1, <1>3, <2>1 DEF Passed
<1>8. ClientsInv'
  BY <1>1, <1>7, LessCarried DEF IInv, ClientsInv
<1> QED BY <1>4, <1>5, <1>6, <1>8 DEF IInv

\* The first refusal finds every request in the table, and is the last: it keeps
\* the mutex.
LEMMA RefuseRequestKeepsIInv == ASSUME IInv, RefuseRequest PROVE IInv'
<1>1. /\ UNCHANGED <<store, log, events, watch, conns, todo, sends, pc, call, alive, issued, wire>>
      /\ alive /\ lock = Free /\ lock' = Lost
      /\ reqs' = reqs \ {job.req.n} /\ main' = "select" /\ job' = NoJob
  BY DEF RefuseRequest, LockAfterRemove, Running, directory, lists, subscription
<1>2. Free \notin Callers /\ Lost \notin Callers /\ Free # Lost
  BY CallersAssumption
<1>3. MutexInv' /\ ChangesInv'
  BY <1>1, <1>2 DEF IInv, MutexInv, ChangesInv, Registered
<1>4. SendsInv' /\ issued \in Nat
  BY <1>1, <1>2 DEF IInv, SendsInv, MutexInv
<1>5. JobInv'
  <2>1. NoJob.req = [n |-> 0, hash |-> 0] /\ 0 \in 0..issued
    BY <1>4 DEF NoJob
  <2>2. \A x \in DOMAIN sends : 0 < sends[x].n
    BY QueuedRequests
  <2> QED BY <1>1, <1>2, <2>1, <2>2 DEF JobInv
<1>6. TableInv'
  <2>1. reqs = 1..issued
    BY <1>1, <1>2 DEF IInv, TableInv
  <2>2. reqs' = 1..issued \/ \E n \in 1..issued : reqs' = (1..issued) \ {n}
    BY <1>1, <2>1
  <2> QED BY <1>1, <2>1, <2>2 DEF IInv, TableInv
<1>7. \A n : Passed(n) => Passed(n)'
  BY <1>1, <1>2 DEF Passed, NoJob
<1>8. ClientsInv'
  BY <1>1, <1>7, LessCarried DEF IInv, ClientsInv
<1> QED BY <1>3, <1>4, <1>5, <1>6, <1>8 DEF IInv

\* It goes on to the client chosen for it, behind what that carries.
LEMMA SendRequestKeepsIInv == ASSUME IInv, SendRequest PROVE IInv'
<1> DEFINE k == active[job.client]
<1>0. PICK p : p = job.req.n
  OBVIOUS
<1>1. /\ UNCHANGED <<store, log, watch, todo, lock, calls, wire>>
      /\ main = "send" /\ job' = NoJob
      /\ \/ CloseActive(job.client, "select")
         \/ conns' = [conns EXCEPT ![k] = Sent(@, p)] /\ main' = "select" /\ UNCHANGED events
  BY <1>0 DEF SendRequest, directory, subscription
<1>2. \A n : Passed(n) => Passed(n)'
  BY <1>1 DEF Passed, calls, NoJob
<1>3. p \in 1..issued /\ issued \in Nat
  BY <1>0, <1>1 DEF IInv, JobInv, MutexInv
<1>4. Passed(p)'
  <2>1. /\ \A x \in DOMAIN sends : p < sends[x].n
        /\ lock \in Callers => p < issued
    BY <1>0 DEF IInv, JobInv
  <2>2. job'.req.n = 0 /\ UNCHANGED <<sends, issued, lock>>
    BY <1>1 DEF NoJob, calls
  <2> QED BY <1>3, <2>1, <2>2 DEF Passed
<1>5. \A n : Passed(n) => n \in Nat /\ n < p
  BY <1>0, <1>3 DEF Passed
<1>6. ClientsInv' /\ EventsTold(events') /\ main' \in {"select", "stuck"}
  <2>1. CASE CloseActive(job.client, "select")
    BY <1>1, <1>2, <2>1, CloseActiveKeeps DEF IInv, ChangesInv
  <2>2. CASE conns' = [conns EXCEPT ![k] = Sent(@, p)] /\ main' = "select" /\ UNCHANGED events
    <3> HIDE DEF k
    <3>1. conns \in Seq(Client) /\ wire \in Seq(Seq(Nat)) /\ Len(wire) = Len(conns)
      BY DEF IInv, ClientsInv
    <3>2. CASE k \notin DOMAIN conns
      <4>1. conns' = conns
        BY <2>2, <3>1, <3>2
      <4>2. ClientsInv'
        BY <1>1, <1>2, <4>1, LessCarried DEF IInv, ClientsInv
      <4> QED BY <2>2, <4>2 DEF IInv, ChangesInv
    <3>3. CASE k \in DOMAIN conns
      <4> DEFINE new == Sent(conns[k], p)
      <4>1. \A n \in Load(conns[k], wire[k]) : n < p
        BY <1>5, <3>3 DEF IInv, ClientsInv
      <4>2. Carries(new, wire[k]) /\ Load(new, wire[k]) \subseteq Load(conns[k], wire[k]) \cup {p}
        BY <1>3, <3>3, <4>1, ClientCarries, SentCarries DEF IInv
      <4> HIDE DEF new
      <4>3. conns' = [conns EXCEPT ![k] = new] /\ new \in Client /\ k \in 1..Len(conns)
        BY <2>2, <3>1, <3>3, <4>2 DEF new, Carries
      <4>4. /\ conns' \in Seq(Client) /\ Len(conns') = Len(conns) /\ DOMAIN conns' = DOMAIN conns
            /\ \A j \in DOMAIN conns : conns'[j] = IF j = k THEN new ELSE conns[j]
        BY <3>1, <4>3, ExceptSeq
      <4>5. \A j \in DOMAIN conns : InOrderAt(conns'[j], wire[j])
        BY <4>2, <4>4 DEF IInv, ClientsInv, Carries
      <4>6. \A j \in DOMAIN conns :
              Load(conns'[j], wire[j]) \subseteq IF j = k THEN Load(conns[j], wire[j]) \cup {p} ELSE Load(conns[j], wire[j])
        BY <4>2, <4>4
      <4>7. \A j \in DOMAIN conns : p \notin Load(conns[j], wire[j])
        <5> SUFFICES ASSUME NEW j \in DOMAIN conns, p \in Load(conns[j], wire[j]) PROVE FALSE
          OBVIOUS
        <5>1. Passed(p)
          BY DEF IInv, ClientsInv
        <5>2. p \in Nat /\ p < p
          BY <1>5, <5>1
        <5> QED BY <5>2
      <4>8. \A j \in DOMAIN conns : \A n \in Load(conns'[j], wire[j]) : Passed(n)'
        <5> SUFFICES ASSUME NEW j \in DOMAIN conns, NEW n \in Load(conns'[j], wire[j]) PROVE Passed(n)'
          OBVIOUS
        <5>1. n = p \/ n \in Load(conns[j], wire[j])
          BY <4>6
        <5>2. CASE n \in Load(conns[j], wire[j])
          <6>1. Passed(n)
            BY <5>2 DEF IInv, ClientsInv
          <6> QED BY <1>2, <6>1
        <5>3. CASE n = p
          BY <1>4, <5>3
        <5> QED BY <5>1, <5>2, <5>3
      <4>9. \A i, j \in DOMAIN conns : i # j => Load(conns'[i], wire[i]) \cap Load(conns'[j], wire[j]) = {}
        <5> SUFFICES ASSUME NEW i \in DOMAIN conns, NEW j \in DOMAIN conns, i # j,
                            NEW n \in Load(conns'[i], wire[i]) \cap Load(conns'[j], wire[j])
                     PROVE  FALSE
          OBVIOUS
        <5>1. n \in Load(conns[i], wire[i]) /\ n \in Load(conns[j], wire[j])
          BY <4>6, <4>7
        <5> QED BY <5>1 DEF IInv, ClientsInv
      <4>10. ClientsInv'
        BY <1>1, <3>1, <4>4, <4>5, <4>8, <4>9 DEF ClientsInv
      <4> QED BY <2>2, <4>10 DEF IInv, ChangesInv
    <3> QED BY <3>2, <3>3
  <2> QED BY <1>1, <2>1, <2>2
<1> HIDE DEF k
<1>7. MutexInv' /\ TableInv' /\ SendsInv' /\ ChangesInv'
  BY <1>1, <1>6 DEF IInv, MutexInv, TableInv, SendsInv, ChangesInv, Registered, calls
<1>8. JobInv'
  <2>1. NoJob.req = [n |-> 0, hash |-> 0] /\ 0 \in 0..issued
    BY <1>3 DEF NoJob
  <2>2. \A x \in DOMAIN sends : 0 < sends[x].n
    BY QueuedRequests
  <2>3. lock \in Callers => 0 < issued
    BY <1>3
  <2> QED BY <1>1, <1>6, <2>1, <2>2, <2>3 DEF JobInv, calls
<1> QED BY <1>6, <1>7, <1>8 DEF IInv

\* A caller begins, or gives up waiting: no request is touched.
LEMMA BeginOrTimeOutKeepsIInv ==
  ASSUME IInv, NEW c \in Callers, Begin(c) \/ TimeOut(c)
  PROVE  IInv'
<1>1. /\ UNCHANGED <<store, log, lists, subscription, loop, lock, sends, reqs, alive, issued, wire>>
      /\ pc[c] # "push" /\ \E at \in {"idle", "lock"} : pc' = [pc EXCEPT ![c] = at]
      /\ \/ call' = call
         \/ \E kind \in Kinds, hash \in Hashes : call' = [call EXCEPT ![c] = [kind |-> kind, hash |-> hash]]
  BY DEF Begin, TimeOut, directory
<1>2. MutexInv'
  <2>1. pc \in [Callers -> {"idle", "lock", "push", "wait"}] /\ call \in [Callers -> [kind : Kinds, hash : Hashes \cup {0}]]
    BY DEF IInv, MutexInv
  <2>2. call' \in [Callers -> [kind : Kinds, hash : Hashes \cup {0}]]
    BY <1>1, <2>1
  <2>3. pc' \in [Callers -> {"idle", "lock", "push", "wait"}] /\ \A d \in Callers : pc'[d] = "push" <=> pc[d] = "push"
    BY <1>1, <2>1
  <2> QED BY <1>1, <2>2, <2>3 DEF IInv, MutexInv
<1>3. TableInv' /\ ChangesInv' /\ SendsInv' /\ JobInv'
  BY <1>1 DEF IInv, TableInv, ChangesInv, Registered, SendsInv, JobInv, lists, subscription, loop
<1>4. ClientsInv'
  <2>1. UNCHANGED <<conns, job, sends, lock, issued, wire>>
    BY <1>1 DEF lists, loop
  <2>2. \A n : Passed(n)' <=> Passed(n)
    BY <2>1 DEF Passed
  <2> QED BY <2>1, <2>2 DEF IInv, ClientsInv
<1> QED BY <1>2, <1>3, <1>4 DEF IInv

\* The table takes the next number, which is newer than all others.
LEMMA AddToTableKeepsIInv == ASSUME IInv, NEW c \in Callers, AddToTable(c) PROVE IInv'
<1>1. /\ UNCHANGED <<store, log, lists, subscription, loop, sends, call, wire>>
      /\ alive /\ lock = Free /\ lock' = c /\ issued' = issued + 1
      /\ reqs' = reqs \cup {issued + 1} /\ alive' = ~Evicts
      /\ pc' = [pc EXCEPT ![c] = "push"]
  BY DEF AddToTable, Running, directory
<1>2. Free \notin Callers /\ Lost \notin Callers /\ Free # Lost
  BY CallersAssumption
<1>3. issued \in Nat /\ issued' \in Nat /\ issued < issued' /\ issued' # 0 /\ \A n \in 1..issued : n \in 1..issued' /\ n < issued'
  <2>1. issued \in Nat
    BY DEF IInv, MutexInv
  <2> QED BY <1>1, <2>1
<1>4. MutexInv'
  BY <1>1, <1>2, <1>3 DEF IInv, MutexInv
<1>5. TableInv'
  <2>1. reqs = 1..issued
    BY <1>1, <1>2 DEF IInv, TableInv
  <2>2. reqs' = 1..issued'
    BY <1>1, <1>3, <2>1
  <2>3. alive' \in BOOLEAN
    BY <1>1 DEF Evicts
  <2> QED BY <2>2, <2>3 DEF TableInv
<1>6. ChangesInv'
  BY <1>1 DEF IInv, ChangesInv, Registered, lists, subscription, loop
<1>7. \A x \in DOMAIN sends : sends[x].n \in 1..issued
  BY QueuedRequests
<1>8. SendsInv'
  <2>1. [n : 1..issued, hash : Nat] \subseteq [n : 1..issued', hash : Nat]
    BY <1>3
  <2>2. sends' \in Seq([n : 1..issued', hash : Nat])
    <3>1. \A S, T : S \subseteq T /\ sends \in Seq(S) => sends \in Seq(T)
      OBVIOUS
    <3>2. sends \in Seq([n : 1..issued, hash : Nat]) /\ sends' = sends
      BY <1>1 DEF IInv, SendsInv
    <3> QED BY <2>1, <3>1, <3>2, Zenon
  <2> QED BY <1>1, <1>3, <1>7, <2>2 DEF IInv, SendsInv
<1>9. JobInv'
  <2>1. job.req \in [n : 0..issued, hash : Nat] /\ job.req.n \in 0..issued
    BY DEF IInv, JobInv
  <2>2. \A n \in 0..issued : n \in 0..issued' /\ n < issued'
    BY <1>3
  <2>3. job.req \in [n : 0..issued', hash : Nat]
    BY <2>1, <2>2
  <2> QED BY <1>1, <2>1, <2>2, <2>3 DEF IInv, JobInv, loop
<1>10. \A n : Passed(n) => Passed(n)'
  BY <1>1, <1>3 DEF Passed, loop
<1>11. ClientsInv'
  BY <1>1, <1>10, LessCarried DEF IInv, ClientsInv, lists
<1> QED BY <1>4, <1>5, <1>6, <1>8, <1>9, <1>11 DEF IInv

\* The caller queues the newest request.
LEMMA AddToQueueKeepsIInv == ASSUME IInv, NEW c \in Callers, AddToQueue(c) PROVE IInv'
<1> DEFINE new == [n |-> issued, hash |-> call[c].hash]
<1>1. /\ UNCHANGED <<store, log, lists, subscription, loop, reqs, alive, issued, wire>>
      /\ pc[c] = "push" /\ lock' = Free /\ sends' = Append(sends, new)
      /\ \E at \in {"wait", "idle"} : pc' = [pc EXCEPT ![c] = at]
      /\ call' = [call EXCEPT ![c] = NoCall]
  BY DEF AddToQueue, directory
<1>2. Free \notin Callers /\ Free # Lost
  BY CallersAssumption
<1>3. lock = c /\ lock # Lost
  <2>1. lock = c
    BY <1>1 DEF IInv, MutexInv
  <2> QED BY <2>1, CallersAssumption
<1>4. MutexInv'
  <2>1. pc \in [Callers -> {"idle", "lock", "push", "wait"}] /\ call \in [Callers -> [kind : Kinds, hash : Hashes \cup {0}]]
    BY DEF IInv, MutexInv
  <2>2. NoCall \in [kind : Kinds, hash : Hashes \cup {0}]
    BY DEF NoCall, Kinds
  <2>3. call' \in [Callers -> [kind : Kinds, hash : Hashes \cup {0}]]
    BY <1>1, <2>1, <2>2
  <2>4. pc' \in [Callers -> {"idle", "lock", "push", "wait"}] /\ \A d \in Callers : pc'[d] = "push" => d # c /\ pc[d] = "push"
    BY <1>1, <2>1
  <2>5. \A d \in Callers : pc'[d] # "push"
    BY <1>3, <2>4 DEF IInv, MutexInv
  <2> QED BY <1>1, <1>2, <2>3, <2>4, <2>5 DEF IInv, MutexInv
<1>5. TableInv'
  BY <1>1, <1>3 DEF IInv, TableInv
<1>6. ChangesInv'
  BY <1>1 DEF IInv, ChangesInv, Registered, lists, subscription, loop
<1>7. issued \in Nat /\ issued # 0 /\ issued \in 1..issued
  <2>1. issued \in Nat /\ issued # 0
    BY <1>3 DEF IInv, MutexInv, SendsInv
  <2> QED BY <2>1
<1>8. new \in [n : 1..issued, hash : Nat] /\ new.n = issued
  <2>1. call[c].hash \in Nat
    <3>1. call[c] \in [kind : Kinds, hash : Hashes \cup {0}]
      BY DEF IInv, MutexInv
    <3>2. call[c].hash \in Hashes \cup {0}
      BY <3>1
    <3>3. 0 \in Nat
      OBVIOUS
    <3> HIDE <3>1
    <3> QED BY <3>2, <3>3, HashesAssumption
  <2> QED BY <1>7, <2>1
<1> HIDE DEF new
<1>9. /\ sends' \in Seq([n : 1..issued, hash : Nat])
      /\ \A x \in DOMAIN sends' : \/ x \in DOMAIN sends /\ sends'[x] = sends[x] /\ sends[x].n < issued
                                  \/ x = Len(sends) + 1 /\ sends'[x].n = issued
      /\ Len(sends) \in Nat /\ Len(sends') = Len(sends) + 1
  <2> DEFINE S == [n : 1..issued, hash : Nat]
  <2>1. sends \in Seq(S) /\ new \in S /\ \A x \in DOMAIN sends : sends[x].n < issued
    BY <1>3, <1>8 DEF IInv, SendsInv
  <2> HIDE DEF S
  <2>2. /\ sends' \in Seq(S) /\ Len(sends) \in Nat /\ Len(sends') = Len(sends) + 1
        /\ \A x \in DOMAIN sends' : \/ x \in DOMAIN sends /\ sends'[x] = sends[x]
                                    \/ x = Len(sends) + 1 /\ sends'[x] = new
    BY <1>1, <2>1
  <2> QED BY <1>8, <2>1, <2>2 DEF S
<1>10. SendsInv'
  <2>1. ASSUME NEW x \in DOMAIN sends', NEW y \in DOMAIN sends', x < y PROVE sends'[x].n < sends'[y].n
    <3>1. x # Len(sends) + 1
      BY <1>9, <2>1
    <3> QED BY <1>9, <2>1, <3>1 DEF IInv, SendsInv
  <2> QED BY <1>1, <1>2, <1>9, <2>1 DEF SendsInv
<1>11. JobInv'
  <2>1. job.req.n < issued
    BY <1>3 DEF IInv, JobInv
  <2>2. \A x \in DOMAIN sends' : job.req.n < sends'[x].n
    BY <1>9, <2>1 DEF IInv, JobInv
  <2> QED BY <1>1, <1>2, <2>2 DEF IInv, JobInv, loop
<1>12. \A n : Passed(n) => Passed(n)'
  <2> SUFFICES ASSUME NEW n, Passed(n) PROVE Passed(n)'
    OBVIOUS
  <2>1. \A x \in DOMAIN sends' : n < sends'[x].n
    BY <1>3, <1>9 DEF Passed
  <2> QED BY <1>1, <1>2, <2>1 DEF Passed, loop
<1>13. ClientsInv'
  BY <1>1, <1>12, LessCarried DEF IInv, ClientsInv, lists
<1> QED BY <1>4, <1>5, <1>6, <1>10, <1>11, <1>13 DEF IInv

\* A client's loop takes a packet, or writes one or drops it.
LEMMA SendLoopKeepsIInv == ASSUME IInv, NEW k \in DOMAIN conns, SendLoop(k) PROVE IInv'
<1>1. UNCHANGED <<store, log, events, watch, loop, lock, calls>>
  BY DEF SendLoop, TakePacket, WritePacket, directory, subscription
<1>2. MutexInv' /\ TableInv' /\ ChangesInv' /\ SendsInv' /\ JobInv'
  BY <1>1 DEF IInv, MutexInv, TableInv, ChangesInv, Registered, SendsInv, JobInv, loop, calls
<1>3. \A n : Passed(n) => Passed(n)'
  BY <1>1 DEF Passed, loop, calls
<1>4. Carries(conns[k], wire[k]) /\ wire \in Seq(Seq(Nat))
  BY ClientCarries DEF IInv, ClientsInv
<1>5. [wire EXCEPT ![k] = wire[k]] = wire
  BY <1>4
<1>6. CASE TakePacket(k)
  <2>1. CanTake(conns[k]) /\ conns' = [conns EXCEPT ![k] = Taken(conns[k])] /\ wire' = wire
    BY <1>6 DEF TakePacket
  <2>2. Carries(Taken(conns[k]), wire[k]) /\ Load(Taken(conns[k]), wire[k]) \subseteq Load(conns[k], wire[k])
    BY <1>4, <2>1, TakenCarries
  <2>3. ClientsInv'
    BY <1>3, <1>5, <2>1, <2>2, OneClient DEF IInv
  <2> QED BY <1>2, <2>3 DEF IInv
<1>7. CASE WritePacket(k)
  <2>1. PICK n \in conns[k].hand :
          /\ conns' = [conns EXCEPT ![k] = Written(conns[k], n)]
          /\ wire' = wire \/ wire' = [wire EXCEPT ![k] = Append(wire[k], n)]
    BY <1>7 DEF WritePacket
  <2>2. /\ Carries(Written(conns[k], n), wire[k])
        /\ Load(Written(conns[k], n), wire[k]) \subseteq Load(conns[k], wire[k])
        /\ Carries(Written(conns[k], n), Append(wire[k], n))
        /\ Load(Written(conns[k], n), Append(wire[k], n)) \subseteq Load(conns[k], wire[k])
    BY <1>4, WrittenCarries
  <2>3. CASE wire' = wire
    <3>1. ClientsInv'
      BY <1>3, <1>5, <2>1, <2>2, <2>3, OneClient DEF IInv
    <3> QED BY <1>2, <3>1 DEF IInv
  <2>4. CASE wire' = [wire EXCEPT ![k] = Append(wire[k], n)]
    <3>1. ClientsInv'
      BY <1>3, <2>1, <2>2, <2>4, OneClient DEF IInv
    <3> QED BY <1>2, <3>1 DEF IInv
  <2> QED BY <2>1, <2>3, <2>4
<1> QED BY <1>6, <1>7 DEF SendLoop

\* Every step preserves what becomes of the requests.
LEMMA NextKeepsIInv == IInv /\ [Next]_vars => IInv'
<1> SUFFICES ASSUME IInv, [Next]_vars PROVE IInv'
  OBVIOUS
<1>1. CASE \/ Elsewhere \/ Subscribe \/ WatchBegins \/ WatchEnds \/ WatchReports
           \/ \E a \in Addrs : PeerStarts(a) \/ PeerEnds(a)
           \/ UNCHANGED vars
  BY <1>1, AsideKeepsIInv
<1>2. CASE Find
  BY <1>2, FindKeepsIInv
<1>3. CASE MainLoop
  BY <1>3, RetryClientConnectKeepsIInv, TakeEventKeepsIInv, DoChangeKeepsIInv, TakeRequestKeepsIInv,
     RefuseRequestKeepsIInv, SendRequestKeepsIInv DEF MainLoop
<1>4. CASE \E c \in Callers : Begin(c) \/ Caller(c)
  BY <1>4, BeginOrTimeOutKeepsIInv, AddToTableKeepsIInv, AddToQueueKeepsIInv DEF Caller
<1>5. CASE \E k \in DOMAIN conns : SendLoop(k)
  BY <1>5, SendLoopKeepsIInv
<1> QED BY <1>1, <1>2, <1>3, <1>4, <1>5 DEF Next, Watching

\* It is invariant.
LEMMA Invariance == Spec => []IInv
BY InitIInv, NextKeepsIInv, PTL DEF Spec

-----------------------------------------------------------------------------
(* What the runs check of the requests. *)

\* What a client's loops have still to write.
Carried(k) == ToSet(k.queue) \cup k.hand

SendsListed == \A x \in DOMAIN sends : sends[x].n \in reqs
JobListed == main \in {"send", "lock"} => job.req.n \in reqs
ClientsListed == \A k \in DOMAIN conns : Carried(conns[k]) \subseteq reqs

\* Of what can happen to a client only a Send adds to it.
LEMMA ClientsCarry ==
  ASSUME NEW k \in Client
  PROVE  /\ \A r \in BOOLEAN : Carried(Connect(k, r)) \subseteq Carried(k)
         /\ Carried(Close(k)) = Carried(k)
         /\ \A p \in Nat : Carried(Sent(k, p)) \subseteq Carried(k) \cup {p}
         /\ CanTake(k) => Carried(Taken(k)) \subseteq Carried(k)
         /\ \A n \in k.hand : Carried(Written(k, n)) \subseteq Carried(k)
<1>1. k.queue \in Seq(Nat) /\ k.hand \subseteq Nat
  BY DEF Client
<1>2. ASSUME NEW r \in BOOLEAN PROVE Carried(Connect(k, r)) \subseteq Carried(k)
  <2>1. CASE k.open \/ ~r
    BY <2>1 DEF Connect
  <2>2. CASE ~k.open /\ r
    <3>1. Connect(k, r).queue = <<>> /\ Connect(k, r).hand = k.hand
      BY <2>2 DEF Connect, Client
    <3>2. ToSet(<<>>) = {}
      BY DEF ToSet
    <3> QED BY <3>1, <3>2 DEF Carried
  <2> QED BY <2>1, <2>2
<1>3. Carried(Close(k)) = Carried(k)
  <2>1. Close(k).queue = k.queue /\ Close(k).hand = k.hand
    BY DEF Close, Client
  <2> QED BY <2>1 DEF Carried
<1>4. ASSUME NEW p \in Nat PROVE Carried(Sent(k, p)) \subseteq Carried(k) \cup {p}
  <2>1. CASE ~k.open
    BY <2>1 DEF Sent
  <2>2. CASE k.open
    <3>1. Sent(k, p).queue = Append(k.queue, p) /\ Sent(k, p).hand = k.hand
      BY <2>2 DEF Sent, Client
    <3>2. \A x \in DOMAIN Append(k.queue, p) :
            (x \in DOMAIN k.queue /\ Append(k.queue, p)[x] = k.queue[x]) \/ Append(k.queue, p)[x] = p
      BY <1>1
    <3>3. ToSet(Append(k.queue, p)) \subseteq ToSet(k.queue) \cup {p}
      BY <3>2 DEF ToSet
    <3> QED BY <3>1, <3>3 DEF Carried
  <2> QED BY <2>1, <2>2
<1>5. ASSUME CanTake(k) PROVE Carried(Taken(k)) \subseteq Carried(k)
  <2>1. k.queue # <<>>
    BY <1>5 DEF CanTake
  <2>2. Taken(k).queue = Tail(k.queue) /\ Taken(k).hand = k.hand \cup {Head(k.queue)}
    BY DEF Taken, Client
  <2>3. /\ 1 \in DOMAIN k.queue /\ Head(k.queue) = k.queue[1]
        /\ \A x \in DOMAIN Tail(k.queue) : x + 1 \in DOMAIN k.queue /\ Tail(k.queue)[x] = k.queue[x + 1]
    <3> DEFINE q == k.queue
    <3>1. Len(q) \in Nat \ {0} /\ DOMAIN q = 1..Len(q) /\ Head(q) = q[1]
      BY <1>1, <2>1, EmptySeq
    <3>2. /\ Tail(q) \in Seq(Nat) /\ Len(Tail(q)) = Len(q) - 1
          /\ \A x \in 1..Len(Tail(q)) : Tail(q)[x] = q[x + 1]
      BY <1>1, <2>1, HeadTailProperties
    <3>3. DOMAIN Tail(q) = 1..(Len(q) - 1)
      BY <3>2
    <3> HIDE DEF q
    <3>4. \A x \in DOMAIN Tail(q) : x + 1 \in DOMAIN q /\ Tail(q)[x] = q[x + 1]
      BY <3>1, <3>2, <3>3
    <3> QED BY <3>1, <3>4 DEF q
  <2>4. ToSet(Tail(k.queue)) \subseteq ToSet(k.queue) /\ Head(k.queue) \in ToSet(k.queue)
    BY <2>3 DEF ToSet
  <2> QED BY <2>2, <2>4 DEF Carried
<1>6. ASSUME NEW n \in k.hand PROVE Carried(Written(k, n)) \subseteq Carried(k)
  <2>1. Written(k, n).queue = k.queue /\ Written(k, n).hand = k.hand \ {n}
    BY DEF Written, Client
  <2> QED BY <2>1 DEF Carried
<1> QED BY <1>2, <1>3, <1>4, <1>5, <1>6

\* A new client has nothing to write.
LEMMA NewClientCarries ==
  ASSUME NEW a, NEW i, NEW r \in BOOLEAN
  PROVE  Carried(NewTcpClient(a, i)) = {} /\ Carried(Connect(NewTcpClient(a, i), r)) = {}
<1>1. ToSet(<<>>) = {}
  BY DEF ToSet
<1>2. /\ NewTcpClient(a, i).queue = <<>> /\ NewTcpClient(a, i).hand = {}
      /\ Connect(NewTcpClient(a, i), r).queue = <<>> /\ Connect(NewTcpClient(a, i), r).hand = {}
  BY DEF NewTcpClient, Connect
<1> QED BY <1>1, <1>2 DEF Carried

\* The steps of the main loop that work on clients and leave requests alone.
LEMMA ClientsStayListed ==
  ASSUME IInv, ClientsListed,
         Find \/ RetryClientConnect \/ DoChange \/ \E k \in DOMAIN conns : SendLoop(k)
  PROVE  UNCHANGED <<job, sends, reqs>> /\ ClientsListed' /\ (main' = main \/ main' \in {"select", "changes", "stuck"})
<1>1. \A k \in DOMAIN conns : conns[k] \in Client
  BY DEF IInv, ClientsInv
<1>2. CASE Find
  <2>1. UNCHANGED <<job, main, sends, reqs>>
    BY <1>2 DEF Find, loop, calls
  <2>2. \E order : conns' = [n \in DOMAIN order |->
                             Connect(NewTcpClient(order[n], store[order[n]]), order[n] \in reachable)]
    BY <1>2 DEF Find
  <2>3. PICK order : conns' = [n \in DOMAIN order |->
                             Connect(NewTcpClient(order[n], store[order[n]]), order[n] \in reachable)]
    BY <2>2
  <2>4. ASSUME NEW n \in DOMAIN conns' PROVE Carried(conns'[n]) = {}
    <3>1. conns'[n] = Connect(NewTcpClient(order[n], store[order[n]]), order[n] \in reachable)
      BY <2>3
    <3>2. (order[n] \in reachable) \in BOOLEAN
      OBVIOUS
    <3> QED BY <3>1, <3>2, NewClientCarries
  <2> QED BY <2>1, <2>4 DEF ClientsListed
<1>3. CASE RetryClientConnect
  <2>1. UNCHANGED <<job, sends, reqs>> /\ main' \in {"select", "stuck"} /\ DOMAIN conns' = DOMAIN conns
    BY <1>3 DEF RetryClientConnect, calls
  <2>2. \A k \in DOMAIN conns :
          conns'[k] = conns[k] \/ conns'[k] = Connect(conns[k], conns[k].addr \in reachable)
    BY <1>3 DEF RetryClientConnect
  <2>3. \A k \in DOMAIN conns : Carried(conns'[k]) \subseteq Carried(conns[k])
    <3> SUFFICES ASSUME NEW k \in DOMAIN conns PROVE Carried(conns'[k]) \subseteq Carried(conns[k])
      OBVIOUS
    <3>1. (conns[k].addr \in reachable) \in BOOLEAN
      OBVIOUS
    <3>2. Carried(Connect(conns[k], conns[k].addr \in reachable)) \subseteq Carried(conns[k])
      BY <1>1, <3>1, ClientsCarry
    <3> QED BY <2>2, <3>2
  <2> QED BY <2>1, <2>3 DEF ClientsListed
<1>4. CASE DoChange
  <2>1. UNCHANGED <<job, sends, reqs>> /\ main' \in {"select", "changes", "stuck"}
    BY <1>4 DEF DoChange, DoClientRemove, CloseActive, calls
  <2>2. \/ conns' = conns
        \/ \E a, i : conns' = Append(conns, NewTcpClient(a, i))
        \/ \E j : conns' = [conns EXCEPT ![j] = Close(conns[j])]
    BY <1>4 DEF DoChange, DoPut, DoClientRemove, CloseActive
  <2>3. ASSUME NEW k \in DOMAIN conns'
        PROVE  Carried(conns'[k]) = {} \/ (k \in DOMAIN conns /\ Carried(conns'[k]) \subseteq Carried(conns[k]))
    <3>1. CASE conns' = conns
      BY <3>1
    <3>2. CASE \E a, i : conns' = Append(conns, NewTcpClient(a, i))
      <4>1. PICK a, i : conns' = Append(conns, NewTcpClient(a, i))
        BY <3>2
      <4> DEFINE new == NewTcpClient(a, i)
      <4>2. Carried(new) = {}
        BY NewClientCarries
      <4> HIDE DEF new
      <4>3. (k \in DOMAIN conns /\ conns'[k] = conns[k]) \/ conns'[k] = new
        <5>1. conns' = Append(conns, new)
          BY <4>1 DEF new
        <5>2. conns \in Seq(Client)
          BY DEF IInv, ClientsInv
        <5> QED BY <5>1, <5>2
      <4> QED BY <4>2, <4>3
    <3>3. CASE \E j : conns' = [conns EXCEPT ![j] = Close(conns[j])]
      <4>1. PICK j : conns' = [conns EXCEPT ![j] = Close(conns[j])]
        BY <3>3
      <4>2. k \in DOMAIN conns /\ (conns'[k] = conns[k] \/ conns'[k] = Close(conns[k]))
        BY <4>1
      <4> QED BY <1>1, <4>2, ClientsCarry
    <3> QED BY <2>2, <3>1, <3>2, <3>3
  <2> QED BY <2>1, <2>3 DEF ClientsListed
<1>5. ASSUME NEW k \in DOMAIN conns, SendLoop(k)
      PROVE  /\ UNCHANGED <<job, main, sends, reqs>> /\ DOMAIN conns' = DOMAIN conns
             /\ \A j \in DOMAIN conns : Carried(conns'[j]) \subseteq Carried(conns[j])
  <2>1. UNCHANGED <<job, main, sends, reqs>>
    BY <1>5 DEF SendLoop, TakePacket, WritePacket, loop, calls
  <2>2. \E new : conns' = [conns EXCEPT ![k] = new] /\ Carried(new) \subseteq Carried(conns[k])
    BY <1>1, <1>5, ClientsCarry DEF SendLoop, TakePacket, WritePacket
  <2> QED BY <2>1, <2>2
<1> QED BY <1>2, <1>3, <1>4, <1>5 DEF ClientsListed

\* The main loop's requests: the oldest one is taken, and is refused, for good,
\* or handed to a client.
LEMMA RequestsStayListed ==
  ASSUME IInv, SendsListed, JobListed, ClientsListed, TakeRequest \/ RefuseRequest \/ SendRequest
  PROVE  SendsListed' /\ JobListed' /\ ClientsListed'
<1>1. issued \in Nat /\ job.req.n \in 0..issued /\ \A k \in DOMAIN conns : conns[k] \in Client
  BY DEF IInv, MutexInv, JobInv, ClientsInv
<1>2. CASE TakeRequest
  <2>1. /\ sends # <<>> /\ sends' = Tail(sends) /\ job'.req = Head(sends)
        /\ UNCHANGED <<conns, reqs>>
    BY <1>2 DEF TakeRequest, lists
  <2>2. sends \in Seq([n : 1..issued, hash : Nat])
    BY DEF IInv, SendsInv
  <2>3. /\ 1 \in DOMAIN sends /\ Head(sends) = sends[1]
        /\ \A x \in DOMAIN sends' : x + 1 \in DOMAIN sends /\ sends'[x] = sends[x + 1]
    <3> DEFINE S == [n : 1..issued, hash : Nat]
    <3>1. sends \in Seq(S)
      BY <2>2
    <3> HIDE DEF S
    <3> QED BY <2>1, <3>1
  <2> QED BY <2>1, <2>3 DEF SendsListed, JobListed, ClientsListed
<1>3. CASE RefuseRequest
  <2>1. /\ main = "lock" /\ main' = "select" /\ reqs' = reqs \ {job.req.n}
        /\ UNCHANGED <<conns, sends, wire>>
    BY <1>3 DEF RefuseRequest, lists
  <2>2. \A x \in DOMAIN sends : sends[x].n # job.req.n
    BY <1>1, QueuedRequests DEF IInv, JobInv
  <2>3. ASSUME NEW k \in DOMAIN conns, NEW n \in Carried(conns[k]) PROVE n # job.req.n
    <3>1. n \in Load(conns[k], wire[k])
      BY <2>3 DEF Carried, Load, ToSet
    <3>2. Passed(n)
      BY <3>1 DEF IInv, ClientsInv
    <3>3. job.req.n # 0
      BY <2>1 DEF IInv, JobInv
    <3> QED BY <1>1, <3>2, <3>3 DEF Passed
  <2>4. ClientsListed'
    BY <2>1, <2>3 DEF ClientsListed
  <2> QED BY <2>1, <2>2, <2>4 DEF SendsListed, JobListed
<1>4. CASE SendRequest
  <2> DEFINE k == active[job.client]
             p == job.req.n
  <2>1. /\ main = "send" /\ main' \in {"select", "stuck"} /\ UNCHANGED <<sends, reqs>>
        /\ \/ conns' = conns
           \/ conns' = [conns EXCEPT ![k] = Close(conns[k])]
           \/ conns' = [conns EXCEPT ![k] = Sent(conns[k], p)]
    BY <1>4 DEF SendRequest, CloseActive, calls
  <2>2. p \in reqs /\ p \in Nat
    BY <1>1, <2>1 DEF JobListed
  <2> HIDE DEF k, p
  <2>3. DOMAIN conns' = DOMAIN conns
    BY <2>1
  <2>4. ASSUME NEW j \in DOMAIN conns PROVE Carried(conns'[j]) \subseteq Carried(conns[j]) \cup {p}
    <3>1. conns'[j] = conns[j] \/ conns'[j] = Close(conns[j]) \/ conns'[j] = Sent(conns[j], p)
      BY <2>1
    <3> QED BY <1>1, <2>2, <3>1, ClientsCarry
  <2>5. ClientsListed'
    BY <2>1, <2>2, <2>3, <2>4 DEF ClientsListed
  <2> QED BY <2>1, <2>5 DEF SendsListed, JobListed
<1> QED BY <1>2, <1>3, <1>4

\* The caller queues a request that it has just entered, and which the table
\* still holds, because the mutex has not gone with a refusal.
LEMMA QueuedIsListed ==
  ASSUME IInv, SendsListed, NEW c \in Callers, AddToQueue(c)
  PROVE  SendsListed'
<1>1. /\ pc[c] = "push" /\ UNCHANGED <<reqs, issued>>
      /\ sends' = Append(sends, [n |-> issued, hash |-> call[c].hash])
  BY DEF AddToQueue
<1>2. lock = c /\ c # Lost
  BY <1>1, CallersAssumption DEF IInv, MutexInv
<1>3. issued \in reqs
  <2>1. reqs = 1..issued /\ issued \in Nat /\ issued # 0
    BY <1>2 DEF IInv, MutexInv, TableInv, SendsInv
  <2> QED BY <2>1
<1>4. \A x \in DOMAIN sends' : (x \in DOMAIN sends /\ sends'[x] = sends[x]) \/ sends'[x].n = issued
  <2> DEFINE S == [n : 1..issued, hash : Nat]
             new == [n |-> issued, hash |-> call[c].hash]
  <2>1. sends \in Seq(S) /\ new.n = issued /\ sends' = Append(sends, new)
    BY <1>1 DEF IInv, SendsInv
  <2> HIDE DEF S, new
  <2>2. \A x \in DOMAIN sends' : (x \in DOMAIN sends /\ sends'[x] = sends[x]) \/ sends'[x] = new
    BY <2>1
  <2> QED BY <2>1, <2>2
<1> QED BY <1>1, <1>3, <1>4 DEF SendsListed

\* A request is entered before it is queued, and taken out only when it goes
\* nowhere; so an answer to whatever is on its way would find its record.
THEOREM InFlightIsListed == Spec => []InFlightListed
<1> DEFINE J == SendsListed /\ JobListed /\ ClientsListed
<1>1. Init => J
  BY DEF Init, ProxyInit, SendsListed, JobListed, ClientsListed
<1>2. IInv /\ J /\ [Next]_vars => J'
  <2> SUFFICES ASSUME IInv, J, [Next]_vars PROVE J'
    OBVIOUS
  <2>1. CASE \/ Elsewhere \/ Subscribe \/ WatchBegins \/ WatchEnds \/ WatchReports \/ TakeEvent
             \/ \E a \in Addrs : PeerStarts(a) \/ PeerEnds(a)
             \/ \E c \in Callers : Begin(c) \/ TimeOut(c)
             \/ UNCHANGED vars
    <3>1. UNCHANGED <<conns, job, sends, reqs>> /\ (main' = main \/ main' = "changes")
      BY <2>1 DEF Elsewhere, Subscribe, WatchBegins, WatchEnds, WatchReports, TakeEvent, PeerStarts,
                  PeerEnds, Begin, TimeOut, vars, lists, loop, calls
    <3> QED BY <3>1 DEF SendsListed, JobListed, ClientsListed
  <2>2. CASE Find \/ RetryClientConnect \/ DoChange \/ \E k \in DOMAIN conns : SendLoop(k)
    BY <2>2, ClientsStayListed DEF SendsListed, JobListed
  <2>3. CASE TakeRequest \/ RefuseRequest \/ SendRequest
    BY <2>3, RequestsStayListed
  <2>4. ASSUME NEW c \in Callers, AddToTable(c) PROVE J'
    <3>1. UNCHANGED <<conns, main, job, sends>> /\ reqs \subseteq reqs'
      BY <2>4 DEF AddToTable, lists, loop
    <3> QED BY <3>1 DEF SendsListed, JobListed, ClientsListed
  <2>5. ASSUME NEW c \in Callers, AddToQueue(c) PROVE J'
    <3>1. UNCHANGED <<conns, main, job, reqs>>
      BY <2>5 DEF AddToQueue, lists, loop
    <3>2. SendsListed'
      BY <2>5, QueuedIsListed
    <3> QED BY <3>1, <3>2 DEF JobListed, ClientsListed
  <2> QED BY <2>1, <2>2, <2>3, <2>4, <2>5 DEF Next, Watching, MainLoop, Caller
<1>3. J => InFlightListed
  BY DEF SendsListed, JobListed, ClientsListed, Carried, InFlightListed
<1> QED BY <1>1, <1>2, <1>3, Invariance, PTL DEF Spec

\* A set in which any two elements are the same.
LEMMA AtMostOne ==
  ASSUME NEW S, \A a, b \in S : a = b
  PROVE  Cardinality(S) = IF S = {} THEN 0 ELSE 1
<1>1. CASE S = {}
  BY <1>1, FS_EmptySet
<1>2. CASE S # {}
  <2>1. PICK a \in S : TRUE
    BY <1>2
  <2>2. S = {a}
    BY <2>1
  <2>3. Cardinality({a}) = 1
    BY FS_Singleton
  <2> QED BY <1>2, <2>2, <2>3
<1> QED BY <1>1, <1>2

\* A request is in one place at most: its places exclude each other.
LEMMA OneCopy == ASSUME IInv, NEW n \in 1..issued PROVE Copies(n) <= 1
<1> DEFINE Queued   == {x \in DOMAIN sends : sends[x].n = n}
           AtClient == {p \in (DOMAIN conns) \X (1..MaxReqs) :
                          p[2] \in DOMAIN conns[p[1]].queue /\ conns[p[1]].queue[p[2]] = n}
           InHand   == {k \in DOMAIN conns : n \in conns[k].hand}
           OnWire == {p \in (DOMAIN conns) \X (1..MaxReqs) : p[2] \in DOMAIN wire[p[1]] /\ wire[p[1]][p[2]] = n}
           Carrier(k) == k \in DOMAIN conns /\ n \in Load(conns[k], wire[k])
<1>1. n \in Nat /\ n # 0 /\ issued \in Nat
  BY DEF IInv, MutexInv
<1>2. /\ \A p \in AtClient : p = <<p[1], p[2]>> /\ Carrier(p[1])
      /\ \A k \in InHand : Carrier(k)
      /\ \A p \in OnWire : p = <<p[1], p[2]>> /\ Carrier(p[1])
  BY DEF Load
<1>3. \A j, k : Carrier(j) /\ Carrier(k) => j = k
  BY DEF IInv, ClientsInv
<1>4. \A k : Carrier(k) => InOrderAt(conns[k], wire[k]) /\ Passed(n)
  BY DEF IInv, ClientsInv
<1>5. \A k : Carrier(k) => conns[k].queue \in Seq(Nat) /\ wire[k] \in Seq(Nat)
  <2> SUFFICES ASSUME NEW k \in DOMAIN conns PROVE conns[k].queue \in Seq(Nat) /\ wire[k] \in Seq(Nat)
    OBVIOUS
  <2> QED BY ClientCarries DEF IInv, Carries, Client
<1> HIDE DEF Carrier
<1>6. \A x, y \in Queued : x = y
  <2> SUFFICES ASSUME NEW x \in Queued, NEW y \in Queued PROVE x = y
    OBVIOUS
  <2>1. x \in Nat /\ y \in Nat /\ ~(x < y) /\ ~(y < x)
    <3>1. \A z \in DOMAIN sends : z \in Nat
      BY DEF IInv, SendsInv
    <3>2. sends[x].n = n /\ sends[y].n = n
      OBVIOUS
    <3> QED BY <1>1, <3>1, <3>2, SMTT(20) DEF IInv, SendsInv
  <2> QED BY <2>1
<1>7. \A p, q \in AtClient : p = q
  <2> SUFFICES ASSUME NEW p \in AtClient, NEW q \in AtClient PROVE p = q
    OBVIOUS
  <2>1. PICK k : k = p[1] /\ k = q[1] /\ Carrier(k)
    BY <1>2, <1>3
  <2>2. p[2] \in DOMAIN conns[k].queue /\ conns[k].queue[p[2]] = n /\ q[2] \in DOMAIN conns[k].queue /\ conns[k].queue[q[2]] = n
    BY <2>1
  <2>3. \A x, y \in DOMAIN conns[k].queue : x < y => conns[k].queue[x] < conns[k].queue[y]
    BY <1>4, <2>1 DEF InOrderAt
  <2>4. p[2] \in Nat /\ q[2] \in Nat
    BY <1>5, <2>1, <2>2
  <2>5. p[2] = q[2]
    BY <1>1, <2>2, <2>3, <2>4
  <2> QED BY <1>2, <2>1, <2>5
<1>8. \A j, k \in InHand : j = k
  BY <1>2, <1>3
<1>9. \A p, q \in OnWire : p = q
  <2> SUFFICES ASSUME NEW p \in OnWire, NEW q \in OnWire PROVE p = q
    OBVIOUS
  <2>1. PICK k : k = p[1] /\ k = q[1] /\ Carrier(k)
    BY <1>2, <1>3
  <2>2. p[2] = q[2]
    BY <1>4, <2>1 DEF InOrderAt
  <2> QED BY <1>2, <2>1, <2>2
<1>10. ASSUME NEW k, Carrier(k) PROVE Queued = {} /\ job.req.n # n
  <2>1. \A x \in DOMAIN sends : n < sends[x].n
    BY <1>4, <1>10 DEF Passed
  <2>2. job.req.n # 0 => n < job.req.n
    BY <1>4, <1>10 DEF Passed
  <2>3. \A x \in Queued : n < n
    BY <2>1
  <2> QED BY <1>1, <2>2, <2>3
<1>11. job.req.n = n => Queued = {}
  <2>1. \A x \in DOMAIN sends : job.req.n < sends[x].n
    BY DEF IInv, JobInv
  <2>2. ASSUME job.req.n = n, NEW x \in Queued PROVE n < n
    BY <2>1, <2>2
  <2> QED BY <1>1, <2>2
<1>12. AtClient = {} \/ InHand = {}
  <2> SUFFICES ASSUME NEW p \in AtClient, NEW k \in InHand PROVE FALSE
    OBVIOUS
  <2>1. p[1] = k /\ Carrier(k)
    BY <1>2, <1>3
  <2>2. p[2] \in DOMAIN conns[k].queue /\ conns[k].queue[p[2]] = n /\ n \in conns[k].hand
    BY <2>1
  <2>3. n < n
    BY <1>4, <2>1, <2>2 DEF InOrderAt
  <2> QED BY <1>1, <2>3
<1>13. AtClient = {} \/ OnWire = {}
  <2> SUFFICES ASSUME NEW p \in AtClient, NEW q \in OnWire PROVE FALSE
    OBVIOUS
  <2>1. PICK k : p[1] = k /\ q[1] = k /\ Carrier(k)
    BY <1>2, <1>3
  <2>2. p[2] \in DOMAIN conns[k].queue /\ conns[k].queue[p[2]] = n /\ q[2] \in DOMAIN wire[k] /\ wire[k][q[2]] = n
    BY <2>1
  <2>3. n < n
    BY <1>4, <2>1, <2>2 DEF InOrderAt
  <2> QED BY <1>1, <2>3
<1>14. InHand = {} \/ OnWire = {}
  <2> SUFFICES ASSUME NEW k \in InHand, NEW q \in OnWire PROVE FALSE
    OBVIOUS
  <2>1. q[1] = k /\ Carrier(k)
    BY <1>2, <1>3
  <2>2. n \in conns[k].hand /\ q[2] \in DOMAIN wire[k] /\ wire[k][q[2]] = n
    BY <2>1
  <2> QED BY <1>4, <2>1, <2>2 DEF InOrderAt
<1>15. (AtClient # {} \/ InHand # {} \/ OnWire # {}) => Queued = {} /\ job.req.n # n
  BY <1>2, <1>10
<1>16. Copies(n) = Cardinality(Queued) + (IF job.req.n = n THEN 1 ELSE 0) + Cardinality(AtClient)
                   + Cardinality(InHand) + Cardinality(OnWire)
  BY DEF Copies
<1>17. /\ Cardinality(Queued) = IF Queued = {} THEN 0 ELSE 1
       /\ Cardinality(AtClient) = IF AtClient = {} THEN 0 ELSE 1
       /\ Cardinality(InHand) = IF InHand = {} THEN 0 ELSE 1
       /\ Cardinality(OnWire) = IF OnWire = {} THEN 0 ELSE 1
  BY <1>6, <1>7, <1>8, <1>9, AtMostOne
<1> HIDE DEF Queued, AtClient, InHand, OnWire
<1> QED BY <1>11, <1>12, <1>13, <1>14, <1>15, <1>16, <1>17

\* A request is handed on, from channel_send to the main loop, to a client's
\* queue, to a send loop, to the connection, and never copied or given back; and
\* as every place is in the order of issue, so is what one send loop writes.
THEOREM RequestsGoOnce == Spec => []OnceAndInOrder
<1>1. IInv => OnceAndInOrder
  BY OneCopy DEF IInv, ClientsInv, InOrderAt, OnceAndInOrder
<1> QED BY <1>1, Invariance, PTL

-----------------------------------------------------------------------------
(* The inductive invariant: the lists of clients. *)

\* What TypeOK says beyond IInv.
TypeInv ==
  /\ reachable \subseteq Addrs
  /\ watch.pos <= Len(log) /\ starts \in [watch : 0..Len(log), find : 0..Len(log)]
  /\ stage \in {"subscribe", "find", "run"}
  /\ \A k \in DOMAIN conns : conns[k].id \in Ids
  /\ active \in Seq(DOMAIN conns) /\ inactive \in Seq(DOMAIN conns)
  /\ events \in Seq(Event) /\ Len(events) <= EventCap
  /\ main \in {"select", "changes", "send", "lock", "stuck"}
  /\ job \in [req : [n : Nat, hash : Nat], client : Nat]
  /\ main = "send" => job.client \in DOMAIN active

\* Requests are counted before they are issued, and have hashes as issued.
IssuedInv ==
  /\ issued + Cardinality({c \in Callers : pc[c] = "lock"}) <= MaxReqs
  /\ \A c \in Callers : pc[c] \in {"lock", "push"} => call[c].hash \in Hashes
  /\ Len(sends) <= SendCap /\ \A x \in DOMAIN sends : sends[x].hash \in Hashes
  /\ main \in {"send", "lock"} => job.req.hash \in Hashes

\* No change up to u at the address of change n comes after it.
LastUpTo(n, u) == \A x \in (n + 1)..u : log[x].addr # log[n].addr

\* Change n put the service id i at a.
Put(n, a, i) == log[n].op = "put" /\ log[n].addr = a /\ log[n].id = i

\* The table is what the last changes made of it, and no id is put twice.
LogInv ==
  /\ \A n \in DOMAIN log : IF log[n].op = "put" THEN log[n].id \in Ids ELSE log[n].id = NoId
  /\ \A m, n \in DOMAIN log : log[m].op = "put" /\ log[n].op = "put" /\ log[m].id = log[n].id => m = n
  /\ \A n \in DOMAIN log : LastUpTo(n, Len(log)) => store[log[n].addr] = log[n].id
  /\ \A a \in Addrs : store[a] # NoId => \E n \in DOMAIN log : Put(n, a, store[a]) /\ LastUpTo(n, Len(log))

\* The proxy is made step by step, and its main loop works off one event at a time.
StageInv ==
  /\ stage # "run" =>
       /\ conns = <<>> /\ active = <<>> /\ inactive = <<>> /\ main = "select" /\ starts.find = 0
       /\ \A x \in DOMAIN events : events[x].kind = "changes"
  /\ main \in {"select", "send", "lock"} => todo = <<>>
  /\ watch.state = "off" => events = <<>> /\ todo = <<>>

\* Where the main loop takes up the log.
Start == IF watch.state = "off" THEN starts.find ELSE starts.watch

\* What the log holds behind m, up to n.
Part(s, m, n) == Len(s) = n - m /\ \A x \in DOMAIN s : s[x] = log[m + x]

\* The main loop has worked off the log up to done; what it is working off, and
\* what the events say, is the rest of what the watch has reported, in order.
Progress(done, ends) ==
  /\ Start <= done /\ (stage # "run" => done = Start)
  /\ Part(todo, done, ends[0])
  /\ ends[Len(events)] = IF watch.state = "off" THEN Start ELSE watch.pos
  /\ \A x \in DOMAIN events :
       IF events[x].kind = "changes" THEN Part(events[x].changes, ends[x - 1], ends[x])
       ELSE ends[x - 1] = ends[x]

Enlisted == ToSet(active) \cup ToSet(inactive)
HasClient(a, i) == \E k \in Enlisted : conns[k].addr = a /\ conns[k].id = i

\* The changes worked off have left a client for what they put; where there has
\* been no change since the start, Find had made it.
Covers(done) ==
  \A a \in Addrs :
    /\ \A n \in (Start + 1)..done, i \in Ids : Put(n, a, i) /\ LastUpTo(n, done) => HasClient(a, i)
    /\ store[a] # NoId /\ (\A n \in (Start + 1)..Len(log) : log[n].addr # a) => HasClient(a, store[a])

\* After a quiet start: no client is listed twice, the active ones are open and
\* the waiting ones have never been connected, and no close waits for ever.
Sound ==
  /\ IsInjective(active) /\ IsInjective(inactive) /\ ToSet(active) \cap ToSet(inactive) = {}
  /\ \A k \in DOMAIN conns : conns[k].loops <= 1 /\ ~conns[k].held
  /\ main # "stuck" => \A k \in ToSet(active) : conns[k].open
  /\ \A k \in ToSet(inactive) : ~conns[k].open /\ conns[k].loops = 0
  /\ main = "stuck" => Len(events) = EventCap

\* After a quiet start: a client stands for one change worked off, its closing
\* is reported when it is listed no more, and where no key was written over it
\* stays listed only as long as nothing else happens at its address.
StandsFor(k, n, done) ==
  /\ Put(n, conns[k].addr, conns[k].id)
  /\ main # "stuck" /\ k \in Enlisted /\ ~Overwritten(conns[k].addr) => LastUpTo(n, done)

Exact(done) ==
  /\ \A j, k \in DOMAIN conns : conns[j].id = conns[k].id => j = k
  /\ \A k \in DOMAIN conns : \E n \in 1..done : StandsFor(k, n, done)
  /\ \A x \in DOMAIN events : events[x].kind = "close" =>
       \E k \in DOMAIN conns \ Enlisted : conns[k].id = events[x].id

Work(done, ends) ==
  /\ done \in 0..Len(log) /\ ends \in [0..Len(events) -> 0..Len(log)]
  /\ Progress(done, ends)
  /\ stage = "run" /\ Start <= starts.find => Covers(done)
  /\ stage = "run" /\ Start = starts.find => Sound /\ Exact(done)

WorkInv == \E done \in 0..Len(log) : \E ends \in [0..Len(events) -> 0..Len(log)] : Work(done, ends)

ListsInv == TypeInv /\ IssuedInv /\ LogInv /\ StageInv /\ WorkInv

-----------------------------------------------------------------------------
(* Facts about the operators on lists. *)

\* A one-to-one ranking of a finite set by its size reaches every rank.
LEMMA RanksAreReached ==
  ASSUME NEW S, IsFiniteSet(S), NEW rank \in [S -> 1..Cardinality(S)],
         \A x, y \in S : rank[x] = rank[y] => x = y
  PROVE  \A n \in 1..Cardinality(S) : \E x \in S : rank[x] = n
<1> SUFFICES ASSUME NEW n \in 1..Cardinality(S), \A x \in S : rank[x] # n PROVE FALSE
  OBVIOUS
<1> DEFINE T == (1..Cardinality(S)) \ {n}
<1>1. Cardinality(S) \in Nat
  BY FS_CardinalityType
<1>2. IsFiniteSet(1..Cardinality(S)) /\ Cardinality(1..Cardinality(S)) = Cardinality(S)
  BY <1>1, FS_Interval
<1>3. IsFiniteSet(T) /\ Cardinality(T) = Cardinality(S) - 1
  BY <1>1, <1>2, FS_RemoveElement
<1>4. rank \in [S -> T]
  OBVIOUS
<1> HIDE DEF T
<1>5. Cardinality(T) < Cardinality(S)
  BY <1>1, <1>3
<1> QED BY <1>3, <1>4, <1>5, FS_PigeonHole

\* A finite set with a strict total order can be listed in that order.
LEMMA SortingExists ==
  ASSUME NEW S, IsFiniteSet(S), NEW R,
         \A x \in S : <<x, x>> \notin R,
         \A x, y \in S : x # y => <<x, y>> \in R \/ <<y, x>> \in R,
         \A x, y, z \in S : <<x, y>> \in R /\ <<y, z>> \in R => <<x, z>> \in R
  PROVE  \E q \in [1..Cardinality(S) -> S] : \A m, n \in 1..Cardinality(S) : m < n => <<q[m], q[n]>> \in R
<1> DEFINE C == Cardinality(S)
           upto(x) == {y \in S : y = x \/ <<y, x>> \in R}
           rank == [x \in S |-> Cardinality(upto(x))]
<1>1. C \in Nat
  BY FS_CardinalityType
<1>2. \A x \in S : IsFiniteSet(upto(x)) /\ Cardinality(upto(x)) \in 1..C
  <2> SUFFICES ASSUME NEW x \in S PROVE IsFiniteSet(upto(x)) /\ Cardinality(upto(x)) \in 1..C
    OBVIOUS
  <2>1. upto(x) \in SUBSET S /\ upto(x) # {}
    OBVIOUS
  <2> HIDE DEF upto
  <2>2. IsFiniteSet(upto(x)) /\ Cardinality(upto(x)) <= C
    BY <2>1, FS_Subset
  <2>3. Cardinality(upto(x)) \in Nat /\ Cardinality(upto(x)) # 0
    BY <2>1, <2>2, FS_CardinalityType, FS_EmptySet
  <2> QED BY <1>1, <2>2, <2>3
<1>3. \A x, y \in S : <<x, y>> \in R => rank[x] < rank[y]
  <2> SUFFICES ASSUME NEW x \in S, NEW y \in S, <<x, y>> \in R PROVE rank[x] < rank[y]
    OBVIOUS
  <2>1. upto(x) \in SUBSET upto(y) /\ y \in upto(y) /\ y \notin upto(x)
    OBVIOUS
  <2>2. rank[x] = Cardinality(upto(x)) /\ rank[y] = Cardinality(upto(y))
    BY Zenon
  <2> HIDE DEF upto, rank, C
  <2>3. /\ IsFiniteSet(upto(y))
        /\ Cardinality(upto(x)) <= Cardinality(upto(y))
        /\ Cardinality(upto(y)) = Cardinality(upto(x)) => upto(y) = upto(x)
    BY <1>2, <2>1, FS_Subset
  <2>4. Cardinality(upto(x)) \in Nat /\ Cardinality(upto(y)) \in Nat
    BY <1>1, <1>2
  <2> QED BY <2>1, <2>2, <2>3, <2>4
<1>4. rank \in [S -> 1..C]
  BY <1>2
<1> HIDE DEF upto, rank
<1>5. \A x \in S : rank[x] \in Nat
  BY <1>1, <1>4
<1>6. \A x, y \in S : rank[x] = rank[y] => x = y
  <2> SUFFICES ASSUME NEW x \in S, NEW y \in S, x # y PROVE rank[x] # rank[y]
    OBVIOUS
  <2>1. rank[x] < rank[y] \/ rank[y] < rank[x]
    BY <1>3
  <2> QED BY <1>5, <2>1
<1>7. \A n \in 1..C : \E x \in S : rank[x] = n
  BY <1>4, <1>6, RanksAreReached
<1> DEFINE q == [n \in 1..C |-> CHOOSE x \in S : rank[x] = n]
<1>8. \A n \in 1..C : q[n] \in S /\ rank[q[n]] = n
  BY <1>7
<1>9. q \in [1..C -> S]
  BY <1>8
<1> HIDE DEF q
<1>10. \A m, n \in 1..C : m < n => <<q[m], q[n]>> \in R
  <2> SUFFICES ASSUME NEW m \in 1..C, NEW n \in 1..C, m < n, <<q[m], q[n]>> \notin R PROVE FALSE
    OBVIOUS
  <2>1. q[m] # q[n]
    BY <1>8
  <2>2. rank[q[n]] < rank[q[m]]
    BY <1>3, <1>8, <2>1
  <2> QED BY <1>1, <1>8, <2>2
<1> QED BY <1>9, <1>10

\* What Kept and InOrder do: the places of a list, listed without repetition.
Lists(q, m, P) ==
  /\ m \in Nat /\ q \in [1..m -> P]
  /\ \A i, j \in 1..m : q[i] = q[j] => i = j
  /\ \A x \in P : \E i \in 1..m : q[i] = x
Distinct(q, S) == /\ q \in [1..Cardinality(S) -> S]
                  /\ \A m, n \in 1..Cardinality(S) : m < n => q[m] # q[n]
Picks(t, s, q, m) == DOMAIN t = 1..m /\ \A i \in 1..m : t[i] = s[q[i]]

\* A list as long as the set that repeats nothing leaves nothing out.
LEMMA SortingIsOnto ==
  ASSUME NEW S, IsFiniteSet(S), NEW q, Distinct(q, S)
  PROVE  Lists(q, Cardinality(S), S)
<1> DEFINE D == 1..Cardinality(S)
<1>1. Cardinality(S) \in Nat
  BY FS_CardinalityType
<1>2. \A m, n \in D : q[m] = q[n] => m = n
  <2> SUFFICES ASSUME NEW m \in D, NEW n \in D, q[m] = q[n], m # n PROVE FALSE
    OBVIOUS
  <2>1. m < n \/ n < m
    BY <1>1
  <2> QED BY <2>1 DEF Distinct
<1>3. IsFiniteSet(D) /\ Cardinality(D) = Cardinality(S)
  BY <1>1, FS_Interval
<1>4. q \in [D -> S]
  BY DEF Distinct
<1> HIDE DEF D
<1>5. q \in Injection(D, S)
  BY <1>2, <1>4 DEF Injection, IsInjective
<1>6. q \in Surjection(D, S)
  BY <1>3, <1>5, FS_Injection
<1>7. \A x \in S : \E n \in D : q[n] = x
  BY <1>6 DEF Surjection
<1> QED BY <1>1, <1>2, <1>4, <1>7 DEF D, Lists

\* Ascending lists a finite set of numbers.
LEMMA AscendingLists ==
  ASSUME NEW S \in SUBSET Nat, IsFiniteSet(S)
  PROVE  /\ Cardinality(S) \in Nat
         /\ Ascending[S] \in [1..Cardinality(S) -> S]
         /\ \A m, n \in 1..Cardinality(S) : m < n => Ascending[S][m] < Ascending[S][n]
         /\ \A m, n \in 1..Cardinality(S) : Ascending[S][m] = Ascending[S][n] => m = n
         /\ \A x \in S : \E n \in 1..Cardinality(S) : Ascending[S][n] = x
<1> DEFINE R == {p \in S \X S : p[1] < p[2]}
           D == 1..Cardinality(S)
<1>1. /\ \A x \in S : <<x, x>> \notin R
      /\ \A x, y \in S : x # y => <<x, y>> \in R \/ <<y, x>> \in R
      /\ \A x, y, z \in S : <<x, y>> \in R /\ <<y, z>> \in R => <<x, z>> \in R
      /\ \A x, y \in S : <<x, y>> \in R => x < y
  OBVIOUS
<1> HIDE DEF R
<1>2. PICK q \in [D -> S] : \A m, n \in D : m < n => <<q[m], q[n]>> \in R
  BY <1>1, SortingExists
<1>3. \A m, n \in DOMAIN q : m < n => q[m] < q[n]
  BY <1>1, <1>2
<1>4. Ascending[S] = CHOOSE p \in [D -> S] : \A m, n \in DOMAIN p : m < n => p[m] < p[n]
  BY DEF Ascending
<1>5. /\ Ascending[S] \in [D -> S]
      /\ \A m, n \in D : m < n => Ascending[S][m] < Ascending[S][n]
  BY <1>3, <1>4
<1>6. \A m, n \in D : m < n => Ascending[S][m] # Ascending[S][n]
  <2>1. \A m \in D : Ascending[S][m] \in Nat
    BY <1>5
  <2> QED BY <1>5, <2>1
<1>7. Cardinality(S) \in Nat
  BY FS_CardinalityType
<1>8. Distinct(Ascending[S], S)
  BY <1>5, <1>6 DEF Distinct
<1>9. Lists(Ascending[S], Cardinality(S), S)
  BY <1>8, SortingIsOnto, Zenon
<1> QED BY <1>5, <1>7, <1>9 DEF Lists

\* A client is put at the end of a list.
LEMMA AppendedList ==
  ASSUME NEW S, NEW s \in Seq(S), NEW e \in S
  PROVE  /\ Append(s, e) \in Seq(S)
         /\ ToSet(Append(s, e)) = ToSet(s) \cup {e}
         /\ IsInjective(s) /\ e \notin ToSet(s) => IsInjective(Append(s, e))
<1> DEFINE t == Append(s, e)
<1>1. /\ t \in Seq(S) /\ Len(t) = Len(s) + 1 /\ Len(s) \in Nat
      /\ \A i \in 1..Len(s) : t[i] = s[i]
      /\ t[Len(s) + 1] = e
      /\ DOMAIN s = 1..Len(s) /\ DOMAIN t = 1..(Len(s) + 1)
  BY AppendProperties, LenProperties
<1> HIDE DEF t
<1>2. ToSet(t) = ToSet(s) \cup {e}
  <2>1. ToSet(t) \subseteq ToSet(s) \cup {e}
    BY <1>1 DEF ToSet
  <2>2. ToSet(s) \subseteq ToSet(t)
    <3>1. \A i \in DOMAIN s : i \in DOMAIN t /\ t[i] = s[i]
      BY <1>1
    <3> QED BY <3>1 DEF ToSet
  <2>3. e \in ToSet(t)
    BY <1>1 DEF ToSet
  <2> QED BY <2>1, <2>2, <2>3
<1>3. ASSUME IsInjective(s), e \notin ToSet(s) PROVE IsInjective(t)
  <2> SUFFICES ASSUME NEW i \in DOMAIN t, NEW j \in DOMAIN t, t[i] = t[j], i # j PROVE FALSE
    BY DEF IsInjective
  <2>1. CASE i \in 1..Len(s) /\ j \in 1..Len(s)
    BY <1>1, <1>3, <2>1 DEF IsInjective
  <2>2. CASE i = Len(s) + 1 \/ j = Len(s) + 1
    BY <1>1, <1>3, <2>2 DEF ToSet
  <2> QED BY <1>1, <2>1, <2>2
<1> QED BY <1>1, <1>2, <1>3 DEF t

\* Two lists become one.
LEMMA JoinedList ==
  ASSUME NEW S, NEW s \in Seq(S), NEW t \in Seq(S)
  PROVE  /\ s \o t \in Seq(S)
         /\ ToSet(s \o t) = ToSet(s) \cup ToSet(t)
         /\ IsInjective(s) /\ IsInjective(t) /\ ToSet(s) \cap ToSet(t) = {} => IsInjective(s \o t)
<1> DEFINE u == s \o t
<1>1. /\ u \in Seq(S) /\ Len(u) = Len(s) + Len(t) /\ Len(s) \in Nat /\ Len(t) \in Nat
      /\ \A i \in 1..Len(s) + Len(t) : u[i] = IF i <= Len(s) THEN s[i] ELSE t[i - Len(s)]
      /\ DOMAIN s = 1..Len(s) /\ DOMAIN t = 1..Len(t) /\ DOMAIN u = 1..(Len(s) + Len(t))
  BY ConcatProperties, LenProperties
<1> HIDE DEF u
<1>2. \A i \in DOMAIN s : i \in DOMAIN u /\ u[i] = s[i]
  BY <1>1
<1>3. \A i \in DOMAIN t : i + Len(s) \in DOMAIN u /\ u[i + Len(s)] = t[i]
  <2> SUFFICES ASSUME NEW i \in DOMAIN t PROVE i + Len(s) \in DOMAIN u /\ u[i + Len(s)] = t[i]
    OBVIOUS
  <2>1. i + Len(s) \in 1..Len(s) + Len(t) /\ ~(i + Len(s) <= Len(s)) /\ (i + Len(s)) - Len(s) = i
    BY <1>1
  <2> QED BY <1>1, <2>1
<1>4. \A i \in DOMAIN u : (i \in DOMAIN s /\ u[i] = s[i]) \/ (i - Len(s) \in DOMAIN t /\ u[i] = t[i - Len(s)])
  BY <1>1
<1>5. ToSet(u) = ToSet(s) \cup ToSet(t)
  BY <1>2, <1>3, <1>4 DEF ToSet
<1>6. ASSUME IsInjective(s), IsInjective(t), ToSet(s) \cap ToSet(t) = {} PROVE IsInjective(u)
  <2> SUFFICES ASSUME NEW i \in DOMAIN u, NEW j \in DOMAIN u, u[i] = u[j] PROVE i = j
    BY DEF IsInjective
  <2>0. \A x \in DOMAIN s, y \in DOMAIN t : s[x] # t[y]
    BY <1>6 DEF ToSet
  <2>1. CASE i \in DOMAIN s /\ u[i] = s[i] /\ j \in DOMAIN s /\ u[j] = s[j]
    BY <1>6, <2>1 DEF IsInjective
  <2>2. CASE i - Len(s) \in DOMAIN t /\ u[i] = t[i - Len(s)] /\ j - Len(s) \in DOMAIN t /\ u[j] = t[j - Len(s)]
    <3>1. i - Len(s) = j - Len(s)
      BY <1>6, <2>2 DEF IsInjective
    <3> QED BY <1>1, <3>1
  <2> QED BY <1>4, <2>0, <2>1, <2>2
<1> QED BY <1>1, <1>5, <1>6 DEF u

\* A list cut in two.
LEMMA CutList ==
  ASSUME NEW S, NEW s \in Seq(S), NEW n \in 0..Len(s)
  PROVE  LET a == SubSeq(s, 1, n)
             b == SubSeq(s, n + 1, Len(s))
         IN /\ a \in Seq(S) /\ b \in Seq(S) /\ Len(a) = n
            /\ ToSet(s) = ToSet(a) \cup ToSet(b)
            /\ IsInjective(s) => IsInjective(a) /\ IsInjective(b) /\ ToSet(a) \cap ToSet(b) = {}
<1> DEFINE a == SubSeq(s, 1, n)
           b == SubSeq(s, n + 1, Len(s))
<1>1. Len(s) \in Nat /\ n \in 0..Len(s) /\ DOMAIN s = 1..Len(s) /\ \A i \in 1..Len(s) : s[i] \in S
  BY LenProperties
<1>2. a \in Seq(S) /\ Len(a) = n /\ DOMAIN a = 1..n /\ \A i \in 1..n : a[i] = s[i]
  <2>1. n \in Nat /\ \A i \in 1..n : s[i] \in S
    BY <1>1
  <2>2. a \in Seq(S) /\ Len(a) = IF 1 <= n THEN n - 1 + 1 ELSE 0
    BY <2>1, SubSeqProperties
  <2>3. \A i \in 1..n - 1 + 1 : a[i] = s[1 + i - 1]
    BY <2>1, SubSeqProperties
  <2>4. Len(a) = n
    BY <2>1, <2>2
  <2>5. DOMAIN a = 1..n
    BY <2>2, <2>4, LenProperties
  <2>6. \A i \in 1..n : a[i] = s[i]
    <3> SUFFICES ASSUME NEW i \in 1..n PROVE a[i] = s[i]
      OBVIOUS
    <3>1. n - 1 + 1 = n /\ 1 + i - 1 = i
      BY <2>1
    <3> QED BY <2>3, <3>1
  <2> HIDE DEF a
  <2> QED BY <2>2, <2>4, <2>5, <2>6
<1>3. b \in Seq(S) /\ DOMAIN b = 1..(Len(s) - n) /\ \A i \in 1..(Len(s) - n) : b[i] = s[n + i]
  <2>1. n + 1 \in Int /\ Len(s) \in Int /\ \A i \in (n + 1)..Len(s) : s[i] \in S
    BY <1>1
  <2>2. b \in Seq(S) /\ Len(b) = IF n + 1 <= Len(s) THEN Len(s) - (n + 1) + 1 ELSE 0
    BY <2>1, SubSeqProperties
  <2>3. \A i \in 1..Len(s) - (n + 1) + 1 : b[i] = s[(n + 1) + i - 1]
    BY <2>1, SubSeqProperties
  <2> HIDE DEF b
  <2>4. Len(b) = Len(s) - n
    <3>1. Len(s) \in Nat /\ n \in Nat /\ n <= Len(s)
      BY <1>1
    <3>2. Len(b) = IF n + 1 <= Len(s) THEN Len(s) - (n + 1) + 1 ELSE 0
      BY <2>2
    <3> QED BY <3>1, <3>2
  <2>5. DOMAIN b = 1..(Len(s) - n)
    BY <2>2, <2>4, LenProperties
  <2>6. \A i \in 1..(Len(s) - n) : b[i] = s[n + i]
    <3> SUFFICES ASSUME NEW i \in 1..(Len(s) - n) PROVE b[i] = s[n + i]
      OBVIOUS
    <3>1. Len(s) - (n + 1) + 1 = Len(s) - n /\ (n + 1) + i - 1 = n + i
      BY <1>1
    <3> QED BY <2>3, <3>1
  <2> QED BY <2>2, <2>5, <2>6
<1> HIDE DEF a, b
<1>4. ToSet(s) = ToSet(a) \cup ToSet(b)
  <2>1. \A i \in DOMAIN s : (i \in DOMAIN a /\ a[i] = s[i]) \/ (i - n \in DOMAIN b /\ b[i - n] = s[i])
    <3> SUFFICES ASSUME NEW i \in DOMAIN s, i \notin DOMAIN a PROVE i - n \in DOMAIN b /\ b[i - n] = s[i]
      BY <1>2
    <3>1. i - n \in 1..(Len(s) - n) /\ n + (i - n) = i
      BY <1>1, <1>2
    <3> QED BY <1>3, <3>1
  <2>2. \A i \in DOMAIN a : i \in DOMAIN s /\ s[i] = a[i]
    BY <1>1, <1>2
  <2>3. \A i \in DOMAIN b : n + i \in DOMAIN s /\ s[n + i] = b[i]
    BY <1>1, <1>3
  <2> QED BY <2>1, <2>2, <2>3 DEF ToSet
<1>5. ASSUME IsInjective(s) PROVE IsInjective(a) /\ IsInjective(b) /\ ToSet(a) \cap ToSet(b) = {}
  <2>0. \A i, j \in 1..Len(s) : s[i] = s[j] => i = j
    BY <1>1, <1>5 DEF IsInjective
  <2>1. IsInjective(a)
    BY <1>1, <1>2, <2>0 DEF IsInjective
  <2>2. IsInjective(b)
    <3> SUFFICES ASSUME NEW i \in DOMAIN b, NEW j \in DOMAIN b, b[i] = b[j] PROVE i = j
      BY DEF IsInjective
    <3>1. n + i \in 1..Len(s) /\ n + j \in 1..Len(s) /\ s[n + i] = s[n + j]
      BY <1>1, <1>3
    <3>2. n + i = n + j
      BY <2>0, <3>1
    <3> QED BY <1>1, <1>3, <3>2
  <2>3. \A i \in DOMAIN a, j \in DOMAIN b : a[i] # b[j]
    <3> SUFFICES ASSUME NEW i \in DOMAIN a, NEW j \in DOMAIN b, a[i] = b[j] PROVE FALSE
      OBVIOUS
    <3>1. i \in 1..Len(s) /\ n + j \in 1..Len(s) /\ s[i] = s[n + j] /\ i # n + j
      BY <1>1, <1>2, <1>3
    <3> QED BY <2>0, <3>1
  <2>4. ToSet(a) \cap ToSet(b) = {}
    BY <2>3 DEF ToSet
  <2> QED BY <2>1, <2>2, <2>4
<1> QED BY <1>2, <1>3, <1>4, <1>5 DEF a, b

\* A client is taken out of a list.
LEMMA RemovedFromList ==
  ASSUME NEW S, NEW s \in Seq(S), NEW n \in DOMAIN s
  PROVE  LET t == RemoveAt(s, n)
         IN /\ t \in Seq(S)
            /\ ToSet(t) \subseteq ToSet(s) /\ ToSet(s) \subseteq ToSet(t) \cup {s[n]}
            /\ IsInjective(s) => IsInjective(t) /\ s[n] \notin ToSet(t)
<1> DEFINE a == SubSeq(s, 1, n - 1)
           b == SubSeq(s, n + 1, Len(s))
           t == RemoveAt(s, n)
<1>1. Len(s) \in Nat /\ DOMAIN s = 1..Len(s) /\ n \in 1..Len(s)
  BY LenProperties
<1>2. a \in Seq(S) /\ Len(a) = n - 1 /\ \A i \in 1..(n - 1) : a[i] = s[i]
  <2>1. \A i \in 1..(n - 1) : s[i] \in S
    BY <1>1, ElementOfSeq
  <2>2. /\ a \in Seq(S) /\ Len(a) = IF 1 <= n - 1 THEN (n - 1) - 1 + 1 ELSE 0
        /\ \A i \in 1..(n - 1) - 1 + 1 : a[i] = s[1 + i - 1]
    BY <1>1, <2>1, SubSeqProperties
  <2> HIDE DEF a
  <2>3. \A i \in 1..(n - 1) : i \in 1..(n - 1) - 1 + 1 /\ 1 + i - 1 = i
    BY <1>1
  <2> QED BY <1>1, <2>2, <2>3
<1>3. b \in Seq(S) /\ Len(b) = Len(s) - n /\ \A i \in 1..(Len(s) - n) : b[i] = s[n + i]
  <2>1. \A i \in (n + 1)..Len(s) : s[i] \in S
    BY <1>1, ElementOfSeq
  <2>2. /\ b \in Seq(S) /\ Len(b) = IF n + 1 <= Len(s) THEN Len(s) - (n + 1) + 1 ELSE 0
        /\ \A i \in 1..Len(s) - (n + 1) + 1 : b[i] = s[(n + 1) + i - 1]
    BY <1>1, <2>1, SubSeqProperties
  <2> HIDE DEF b
  <2>3. \A i \in 1..(Len(s) - n) : i \in 1..Len(s) - (n + 1) + 1 /\ (n + 1) + i - 1 = n + i
    BY <1>1
  <2> QED BY <1>1, <2>2, <2>3, SMTT(20)
<1>4. t = a \o b
  BY DEF RemoveAt
<1> HIDE DEF a, b, t
<1>5. /\ t \in Seq(S) /\ Len(t) = Len(s) - 1 /\ DOMAIN t = 1..(Len(s) - 1)
      /\ \A i \in 1..(Len(s) - 1) : t[i] = IF i < n THEN s[i] ELSE s[i + 1]
  <2>1. /\ t \in Seq(S) /\ Len(t) = Len(a) + Len(b)
        /\ \A i \in 1..Len(a) + Len(b) : t[i] = IF i <= Len(a) THEN a[i] ELSE b[i - Len(a)]
    BY <1>2, <1>3, <1>4, ConcatProperties
  <2>2. Len(t) = Len(s) - 1 /\ DOMAIN t = 1..(Len(s) - 1)
    BY <1>1, <1>2, <1>3, <2>1, LenProperties
  <2>3. ASSUME NEW i \in 1..(Len(s) - 1) PROVE t[i] = IF i < n THEN s[i] ELSE s[i + 1]
    <3>1. CASE i < n
      BY <1>1, <1>2, <1>3, <2>1, <3>1
    <3>2. CASE n <= i
      <4>1. i - Len(a) \in 1..(Len(s) - n) /\ n + (i - Len(a)) = i + 1 /\ ~(i <= Len(a)) /\ i \in 1..Len(a) + Len(b)
        BY <1>1, <1>2, <1>3, <3>2
      <4>2. b[i - Len(a)] = s[n + (i - Len(a))]
        BY <1>3, <4>1
      <4> QED BY <1>1, <2>1, <3>2, <4>1, <4>2
    <3> QED BY <1>1, <3>1, <3>2
  <2> QED BY <2>1, <2>2, <2>3
<1>6. ToSet(t) \subseteq ToSet(s)
  <2>1. \A i \in DOMAIN t : \E j \in DOMAIN s : t[i] = s[j]
    BY <1>1, <1>5
  <2> QED BY <2>1 DEF ToSet
<1>7. ToSet(s) \subseteq ToSet(t) \cup {s[n]}
  <2>1. \A i \in DOMAIN s : i = n \/ \E j \in DOMAIN t : s[i] = t[j]
    <3> SUFFICES ASSUME NEW i \in DOMAIN s, i # n PROVE \E j \in DOMAIN t : s[i] = t[j]
      OBVIOUS
    <3>1. CASE i < n
      BY <1>1, <1>5, <3>1
    <3>2. CASE n < i
      <4>1. i - 1 \in DOMAIN t /\ t[i - 1] = s[i]
        BY <1>1, <1>5, <3>2
      <4> QED BY <4>1
    <3> QED BY <1>1, <3>1, <3>2
  <2> QED BY <2>1 DEF ToSet
<1>8. ASSUME IsInjective(s) PROVE IsInjective(t) /\ s[n] \notin ToSet(t)
  <2>1. \A i, j \in 1..Len(s) : s[i] = s[j] => i = j
    BY <1>1, <1>8 DEF IsInjective
  <2>2. \A i \in DOMAIN t : t[i] # s[n]
    BY <1>1, <1>5, <2>1
  <2>3. IsInjective(t)
    <3> SUFFICES ASSUME NEW i \in DOMAIN t, NEW j \in DOMAIN t, t[i] = t[j] PROVE i = j
      BY DEF IsInjective
    <3>1. CASE i < n /\ j < n
      BY <1>1, <1>5, <2>1, <3>1
    <3>2. CASE ~(i < n) /\ ~(j < n)
      BY <1>1, <1>5, <2>1, <3>2
    <3>3. CASE i < n /\ ~(j < n)
      BY <1>1, <1>5, <2>1, <3>3
    <3>4. CASE ~(i < n) /\ j < n
      BY <1>1, <1>5, <2>1, <3>4
    <3> QED BY <3>1, <3>2, <3>3, <3>4
  <2> QED BY <2>2, <2>3 DEF ToSet
<1> QED BY <1>5, <1>6, <1>7, <1>8 DEF t

\* A list picked from another at places that do not repeat.
LEMMA ArrangedList ==
  ASSUME NEW s, NEW P, P \subseteq DOMAIN s, NEW m, NEW q, Lists(q, m, P), NEW t, Picks(t, s, q, m)
  PROVE  ToSet(t) = {s[x] : x \in P} /\ (IsInjective(s) => IsInjective(t))
<1> USE DEF Lists, Picks
<1>1. ToSet(t) = {s[x] : x \in P}
  <2>1. \A i \in DOMAIN t : \E x \in P : t[i] = s[x]
    OBVIOUS
  <2>2. \A x \in P : \E i \in DOMAIN t : t[i] = s[x]
    OBVIOUS
  <2>3. ToSet(t) = {t[i] : i \in DOMAIN t}
    BY DEF ToSet
  <2>4. ToSet(t) \subseteq {s[x] : x \in P}
    BY <2>1, <2>3
  <2>5. \A x \in P : s[x] \in ToSet(t)
    BY <2>2, <2>3
  <2> QED BY <2>4, <2>5
<1>2. IsInjective(s) => IsInjective(t)
  BY DEF IsInjective
<1> QED BY <1>1, <1>2

\* A function on 1 to m is a sequence.
LEMMA SequenceOf ==
  ASSUME NEW S, NEW m \in Nat, NEW t \in [1..m -> S]
  PROVE  t \in Seq(S)
BY SeqDef

\* Kept leaves what is in ks.
LEMMA KeptList ==
  ASSUME NEW S, NEW s \in Seq(S), NEW ks
  PROVE  /\ Kept(s, ks) \in Seq(S) /\ ToSet(Kept(s, ks)) = ToSet(s) \cap ks
         /\ IsInjective(s) => IsInjective(Kept(s, ks))
<1> DEFINE P == {x \in DOMAIN s : s[x] \in ks}
<1>1. Len(s) \in Nat /\ DOMAIN s = 1..Len(s) /\ IsFiniteSet(DOMAIN s)
  BY LenProperties, FS_Interval
<1>2. P \in SUBSET Nat /\ P \in SUBSET DOMAIN s /\ IsFiniteSet(P)
  <2>1. P \in SUBSET DOMAIN s /\ P \in SUBSET Nat
    BY <1>1
  <2> QED BY <1>1, <2>1, FS_Subset
<1>3. Kept(s, ks) = [i \in DOMAIN Ascending[P] |-> s[Ascending[P][i]]]
  BY DEF Kept
<1>4. {s[x] : x \in P} = ToSet(s) \cap ks
  BY DEF ToSet
<1> HIDE DEF P
<1>5. /\ Cardinality(P) \in Nat /\ Ascending[P] \in [1..Cardinality(P) -> P]
      /\ \A i, j \in 1..Cardinality(P) : Ascending[P][i] = Ascending[P][j] => i = j
      /\ \A x \in P : \E i \in 1..Cardinality(P) : Ascending[P][i] = x
  BY <1>2, AscendingLists
<1>6. PICK m, q :
        /\ m \in Nat /\ q \in [1..m -> P]
        /\ m = Cardinality(P) /\ q = Ascending[P]
        /\ \A i, j \in 1..m : q[i] = q[j] => i = j
        /\ \A x \in P : \E i \in 1..m : q[i] = x
  BY <1>5
<1> DEFINE t == Kept(s, ks)
<1>7. t = [i \in 1..m |-> s[q[i]]]
  BY <1>3, <1>6
<1> HIDE DEF t
<1>8. t \in Seq(S) /\ DOMAIN t = 1..m /\ \A i \in 1..m : t[i] = s[q[i]]
  <2>1. \A i \in 1..m : s[q[i]] \in S
    BY <1>1, <1>2, <1>6, ElementOfSeq
  <2>2. t \in [1..m -> S]
    BY <1>7, <2>1
  <2>3. t \in Seq(S)
    BY <1>6, <2>2, SequenceOf, Zenon
  <2> QED BY <1>7, <2>3
<1>9. ToSet(t) = {s[x] : x \in P} /\ (IsInjective(s) => IsInjective(t))
  <2>1. P \subseteq DOMAIN s
    BY <1>2
  <2>2. Lists(q, m, P)
    BY <1>6 DEF Lists
  <2>3. Picks(t, s, q, m)
    BY <1>8 DEF Picks
  <2> QED BY <2>1, <2>2, <2>3, ArrangedList, Zenon
<1> QED BY <1>4, <1>8, <1>9 DEF t

\* Sorting moves clients about and no more.
LEMMA InOrderList ==
  ASSUME NEW D \in SUBSET Nat, NEW s \in Seq(D), \A k \in D : conns[k].addr \in Nat
  PROVE  /\ InOrder[s] \in Seq(D) /\ ToSet(InOrder[s]) = ToSet(s)
         /\ IsInjective(s) => IsInjective(InOrder[s])
<1> DEFINE P == DOMAIN s
           addr == [x \in P |-> conns[s[x]].addr]
           R == {p \in P \X P : addr[p[1]] < addr[p[2]] \/ (addr[p[1]] = addr[p[2]] /\ p[1] < p[2])}
<1>1. Len(s) \in Nat /\ P = 1..Len(s) /\ IsFiniteSet(P) /\ Cardinality(P) = Len(s) /\ \A x \in P : s[x] \in D
  <2>1. Len(s) \in Nat /\ P = 1..Len(s)
    BY LenProperties
  <2>2. IsFiniteSet(1..Len(s)) /\ Cardinality(1..Len(s)) = Len(s)
    BY <2>1, FS_Interval
  <2>3. \A x \in 1..Len(s) : s[x] \in D
    BY ElementOfSeq
  <2> QED BY <2>1, <2>2, <2>3
<1>2. addr \in [P -> Nat] /\ \A x \in P : addr[x] = conns[s[x]].addr
  BY <1>1
<1>3. s \in Seq(Nat)
  BY SeqMonotonic
<1> HIDE DEF addr
<1>4. \A x, y \in P : <<x, y>> \in R <=> addr[x] < addr[y] \/ (addr[x] = addr[y] /\ x < y)
  OBVIOUS
<1>5. /\ \A x \in P : <<x, x>> \notin R
      /\ \A x, y \in P : x # y => <<x, y>> \in R \/ <<y, x>> \in R
      /\ \A x, y, z \in P : <<x, y>> \in R /\ <<y, z>> \in R => <<x, z>> \in R
  <2> HIDE DEF R
  <2>1. \A x \in P : addr[x] \in Nat /\ x \in Nat
    BY <1>1, <1>2
  <2> HIDE DEF P
  <2>2. \A x \in P : <<x, x>> \notin R
    BY <1>4, <2>1
  <2>3. \A x, y \in P : x # y => <<x, y>> \in R \/ <<y, x>> \in R
    BY <1>4, <2>1
  <2>4. ASSUME NEW x \in P, NEW y \in P, NEW z \in P, <<x, y>> \in R, <<y, z>> \in R PROVE <<x, z>> \in R
    BY <1>4, <2>1, <2>4
  <2> QED BY <2>2, <2>3, <2>4
<1> HIDE DEF R
<1> DEFINE before(x, y) == \/ conns[s[x]].addr < conns[s[y]].addr
                           \/ conns[s[x]].addr = conns[s[y]].addr /\ x < y
           ordered(q) == \A m, n \in P : m < n => before(q[m], q[n])
           places == CHOOSE q \in [P -> P] : ordered(q)
<1>6. InOrder[s] = [n \in DOMAIN places |-> s[places[n]]]
  BY <1>3 DEF InOrder
<1>7. ASSUME NEW q \in [P -> P]
      PROVE  ordered(q) <=> (\A m, n \in P : m < n => <<q[m], q[n]>> \in R)
  <2>1. \A m \in P : q[m] \in P /\ addr[q[m]] = conns[s[q[m]]].addr
    BY <1>2
  <2>2. ASSUME NEW m \in P, NEW n \in P
        PROVE  <<q[m], q[n]>> \in R <=> before(q[m], q[n])
    <3>1. q[m] \in P /\ q[n] \in P
      BY <2>1
    <3>2. \A x, y \in P : <<x, y>> \in R <=> before(x, y)
      BY <1>2, <1>4
    <3> QED BY <3>1, <3>2
  <2> HIDE DEF P, before
  <2> QED BY <2>2
<1> HIDE DEF before, ordered, P
<1>9. \E q \in [1..Cardinality(P) -> P] : \A m, n \in 1..Cardinality(P) : m < n => <<q[m], q[n]>> \in R
  BY <1>1, <1>5, SortingExists
<1>10. \E q \in [P -> P] : ordered(q)
  BY <1>1, <1>7, <1>9
<1>11. places \in [P -> P] /\ ordered(places)
  BY <1>10
<1> HIDE DEF places
<1>12. \A m, n \in P : m < n => places[m] # places[n]
  <2>1. \A m, n \in P : m < n => <<places[m], places[n]>> \in R
    BY <1>7, <1>11
  <2>2. \A m \in P : places[m] \in P
    BY <1>11
  <2> QED BY <1>5, <2>1, <2>2
<1>13. /\ \A m, n \in 1..Len(s) : places[m] = places[n] => m = n
       /\ \A x \in P : \E n \in 1..Len(s) : places[n] = x
  <2>1. Distinct(places, P)
    BY <1>1, <1>11, <1>12 DEF Distinct
  <2>2. IsFiniteSet(P)
    BY <1>1
  <2>3. Lists(places, Cardinality(P), P)
    BY <2>1, <2>2, SortingIsOnto, Zenon
  <2> QED BY <1>1, <2>3 DEF Lists
<1>14. {s[x] : x \in P} = ToSet(s)
  BY DEF ToSet, P
<1>15. P \in SUBSET DOMAIN s /\ places \in [1..Len(s) -> P]
  BY <1>1, <1>11 DEF P
<1> DEFINE t == InOrder[s]
<1>16. t = [n \in 1..Len(s) |-> s[places[n]]]
  BY <1>6, <1>15
<1> HIDE DEF t
<1>17. t \in Seq(D) /\ DOMAIN t = 1..Len(s) /\ \A n \in 1..Len(s) : t[n] = s[places[n]]
  <2>1. \A n \in 1..Len(s) : s[places[n]] \in D
    BY <1>1, <1>15
  <2>2. t \in [1..Len(s) -> D]
    BY <1>16, <2>1
  <2>3. t \in Seq(D)
    BY <1>1, <2>2, SequenceOf, Zenon
  <2> QED BY <1>16, <2>3
<1>18. ToSet(t) = {s[x] : x \in P} /\ (IsInjective(s) => IsInjective(t))
  <2>1. P \subseteq DOMAIN s
    BY <1>15
  <2>2. Lists(places, Len(s), P)
    BY <1>1, <1>13, <1>15 DEF Lists
  <2>3. Picks(t, s, places, Len(s))
    BY <1>17 DEF Picks
  <2> QED BY <2>1, <2>2, <2>3, ArrangedList, Zenon
<1> QED BY <1>14, <1>17, <1>18 DEF t

\* A set of numbers that is finite and not empty has a least element.
LEMMA LeastExists ==
  ASSUME NEW S \in SUBSET Nat, IsFiniteSet(S), S # {}
  PROVE  Min(S) \in S
<1> DEFINE q == Ascending[S]
           D == 1..Cardinality(S)
<1>1. /\ Cardinality(S) \in Nat /\ q \in [D -> S]
      /\ \A m, n \in D : m < n => q[m] < q[n]
      /\ \A x \in S : \E n \in D : q[n] = x
  BY AscendingLists
<1> HIDE DEF q
<1>2. 1 \in D
  <2>1. Cardinality(S) # 0
    BY FS_EmptySet
  <2> QED BY <1>1, <2>1
<1>3. \A x \in S : q[1] \in S /\ q[1] <= x
  <2> SUFFICES ASSUME NEW x \in S PROVE q[1] \in S /\ q[1] <= x
    OBVIOUS
  <2>1. PICK n \in D : q[n] = x
    BY <1>1
  <2>2. n \in Nat /\ 1 <= n /\ q[1] \in S
    BY <1>1, <1>2
  <2>3. q[1] \in Nat /\ q[n] \in Nat
    BY <1>1, <2>2
  <2>4. CASE n = 1
    BY <2>1, <2>2, <2>3, <2>4
  <2>5. CASE 1 < n
    BY <1>1, <1>2, <2>1, <2>2, <2>3, <2>5
  <2> QED BY <2>2, <2>4, <2>5
<1> QED BY <1>3 DEF Min

\* find_client_index finds a client at the address, with the id if one is given.
LEMMA FoundClient ==
  ASSUME NEW S, NEW list \in Seq(S), NEW a, NEW i
  PROVE  LET n == FindClientIndex(list, a, i)
         IN /\ n = 0 \/ (n \in DOMAIN list /\ conns[list[n]].addr = a /\ (i # NoId => conns[list[n]].id = i))
            /\ i = NoId /\ n = 0 => \A k \in ToSet(list) : conns[k].addr # a
<1> DEFINE I == {x \in 1..Len(list) : conns[list[x]].addr = a}
           m == IF I # {} THEN Min(I) ELSE 0
<1>1. FindClientIndex(list, a, i) = IF m # 0 /\ i # NoId /\ i # conns[list[m]].id THEN 0 ELSE m
  BY DEF FindClientIndex, SelectInSeq
<1>2. Len(list) \in Nat /\ DOMAIN list = 1..Len(list) /\ IsFiniteSet(1..Len(list))
  BY LenProperties, FS_Interval
<1>3. I \in SUBSET Nat /\ IsFiniteSet(I)
  <2>1. I \in SUBSET (1..Len(list)) /\ I \in SUBSET Nat
    BY <1>2
  <2> QED BY <1>2, <2>1, FS_Subset
<1>4. I # {} => Min(I) \in I
  BY <1>3, LeastExists
<1>5. I = {} => \A k \in ToSet(list) : conns[k].addr # a
  BY <1>2 DEF ToSet
<1>6. m # 0 => m \in DOMAIN list /\ conns[list[m]].addr = a
  BY <1>2, <1>4
<1>7. m = 0 => I = {}
  <2>1. \A x \in I : x # 0
    BY <1>2
  <2> QED BY <1>4, <2>1
<1> HIDE DEF m, I
<1> QED BY <1>1, <1>5, <1>6, <1>7

\* Nobody is held: the retries go through the whole list.
LEMMA NobodyHeld ==
  ASSUME NEW S, NEW list \in Seq(S)
  PROVE  LET held == SelectInSeq(list, LAMBDA k : conns[k].held)
         IN held = 0 \/ (held \in DOMAIN list /\ conns[list[held]].held)
<1> DEFINE I == {x \in 1..Len(list) : conns[list[x]].held}
<1>1. SelectInSeq(list, LAMBDA k : conns[k].held) = IF I # {} THEN Min(I) ELSE 0
  BY DEF SelectInSeq
<1>2. Len(list) \in Nat /\ DOMAIN list = 1..Len(list) /\ IsFiniteSet(1..Len(list))
  BY LenProperties, FS_Interval
<1>3. I \in SUBSET Nat /\ IsFiniteSet(I)
  <2>1. I \in SUBSET (1..Len(list)) /\ I \in SUBSET Nat
    BY <1>2
  <2> QED BY <1>2, <2>1, FS_Subset
<1>4. I # {} => Min(I) \in I
  BY <1>3, LeastExists
<1> QED BY <1>1, <1>2, <1>4

-----------------------------------------------------------------------------
(* What the invariant says of the lists. *)

\* A list whose members are all in T is one over T.
LEMMA ListOf ==
  ASSUME NEW S, NEW T, NEW s \in Seq(S), \A x \in DOMAIN s : s[x] \in T
  PROVE  s \in Seq(T)
OBVIOUS

\* Types: a request in the table is counted, and so has a number up to MaxReqs.
LEMMA TypesHold == IInv /\ TypeInv /\ IssuedInv => TypeOK
<1> SUFFICES ASSUME IInv, TypeInv, IssuedInv PROVE TypeOK
  OBVIOUS
<1>1. issued \in Nat /\ issued <= MaxReqs /\ MaxReqs \in Nat
  <2>1. issued \in Nat /\ MaxReqs \in Nat
    BY SizesAssumption DEF IInv, MutexInv
  <2>2. IsFiniteSet({c \in Callers : pc[c] = "lock"})
    <3>1. {c \in Callers : pc[c] = "lock"} \in SUBSET Callers
      OBVIOUS
    <3> QED BY <3>1, CallersAssumption, FS_Subset
  <2>3. Cardinality({c \in Callers : pc[c] = "lock"}) \in Nat
    BY <2>2, FS_CardinalityType
  <2> QED BY <2>1, <2>3 DEF IssuedInv
<1>2. ASSUME NEW k \in DOMAIN conns
      PROVE  IsTcpClient(conns[k], Addrs, Ids, 1..MaxReqs) /\ wire[k] \in Seq(1..MaxReqs)
  <2>1. Carries(conns[k], wire[k])
    BY <1>2, ClientCarries DEF IInv
  <2>2. Load(conns[k], wire[k]) \subseteq 1..MaxReqs
    <3>1. \A n \in Load(conns[k], wire[k]) : n \in 1..issued
      BY <1>2 DEF IInv, ClientsInv, Passed
    <3>2. 1..issued \subseteq 1..MaxReqs
      BY <1>1
    <3> QED BY <3>1, <3>2
  <2>3. /\ conns[k].queue \in Seq(Nat) /\ \A x \in DOMAIN conns[k].queue : conns[k].queue[x] \in 1..MaxReqs
        /\ wire[k] \in Seq(Nat) /\ \A x \in DOMAIN wire[k] : wire[k][x] \in 1..MaxReqs
        /\ conns[k].hand \subseteq 1..MaxReqs
    BY <2>1, <2>2 DEF Load, Carries, Client
  <2>4. conns[k].queue \in Seq(1..MaxReqs) /\ wire[k] \in Seq(1..MaxReqs)
    BY <2>3, ListOf, Zenon
  <2>5. conns[k].addr \in Addrs /\ conns[k].open \in BOOLEAN /\ conns[k].held \in BOOLEAN /\ conns[k].loops \in Nat
    BY <2>1 DEF Carries, Client
  <2>6. Cardinality(conns[k].hand) <= conns[k].loops
    BY <2>1 DEF Carries, InOrderAt
  <2> QED BY <1>2, <2>3, <2>4, <2>5, <2>6 DEF IsTcpClient, TypeInv
<1>3. wire \in Seq(Seq(1..MaxReqs))
  <2>1. wire \in Seq(Seq(Nat)) /\ DOMAIN wire = DOMAIN conns
    BY LenProperties DEF IInv, ClientsInv
  <2> QED BY <1>2, <2>1, ListOf, Zenon
<1>4. sends \in Seq(Request) /\ Len(sends) <= SendCap
  <2>1. sends \in Seq([n : 1..issued, hash : Nat]) /\ \A x \in DOMAIN sends : sends[x].hash \in Hashes
    BY DEF IInv, SendsInv, IssuedInv
  <2>2. \A x \in DOMAIN sends : sends[x] \in Request
    <3> SUFFICES ASSUME NEW x \in DOMAIN sends PROVE sends[x] \in Request
      OBVIOUS
    <3> DEFINE S == [n : 1..issued, hash : Nat]
    <3>0. sends \in Seq(S) /\ sends[x].hash \in Hashes
      BY <2>1
    <3> HIDE DEF S
    <3>1. sends[x] \in S /\ sends[x].hash \in Hashes
      BY <3>0
    <3> USE DEF S
    <3> QED BY <1>1, <3>1 DEF Request
  <2>4. sends \in Seq(Request)
    BY <2>1, <2>2, ListOf, Zenon
  <2> QED BY <2>4 DEF IssuedInv
<1>5. /\ IF main \in {"send", "lock"} THEN job \in [req : Request, client : Nat] ELSE job = NoJob
      /\ main = "send" => job.client \in DOMAIN active
  <2>1. CASE main \in {"send", "lock"}
    <3>1. job.req \in [n : 0..issued, hash : Nat] /\ job.req.n # 0
      BY <2>1 DEF IInv, JobInv
    <3>2. job.req \in Request
      BY <1>1, <2>1, <3>1 DEF Request, IssuedInv
    <3>3. job \in [req : [n : Nat, hash : Nat], client : Nat] /\ (main = "send" => job.client \in DOMAIN active)
      BY DEF TypeInv
    <3>4. job \in [req : Request, client : Nat]
      BY <3>2, <3>3
    <3> QED BY <2>1, <3>3, <3>4
  <2>2. CASE main \notin {"send", "lock"}
    BY <2>2 DEF IInv, JobInv
  <2> QED BY <2>1, <2>2
<1>6. DirectoryTypeOK /\ watch \in [state : {"off", "on", "ended"}, pos : 0..Len(log)] /\ todo \in Seq(Change)
  <2>1. store \in [Addrs -> Ids \cup {NoId}] /\ log \in Seq(Change) /\ todo \in Seq(Change)
    BY DEF IInv, ChangesInv
  <2>2. watch \in [state : {"off", "on", "ended"}, pos : Nat] /\ watch.pos <= Len(log)
    BY DEF IInv, ChangesInv, TypeInv
  <2>3. watch.pos \in 0..Len(log)
    BY <2>1, <2>2
  <2> QED BY <2>1, <2>2, <2>3 DEF DirectoryTypeOK
<1>7. /\ lock \in Callers \cup {Free, Lost} /\ reqs \subseteq 1..issued
      /\ pc \in [Callers -> {"idle", "lock", "push", "wait"}]
      /\ call \in [Callers -> [kind : Kinds, hash : Hashes \cup {0}]]
      /\ alive \in BOOLEAN /\ issued \in 0..MaxReqs
  BY <1>1 DEF IInv, MutexInv, TableInv
<1>8. /\ reachable \subseteq Addrs /\ stage \in {"subscribe", "find", "run"}
      /\ active \in Seq(DOMAIN conns) /\ inactive \in Seq(DOMAIN conns)
      /\ events \in Seq(Event) /\ Len(events) <= EventCap
      /\ main \in {"select", "changes", "send", "lock", "stuck"}
      /\ starts \in [watch : 0..Len(log), find : 0..Len(log)]
  BY DEF TypeInv
<1> QED BY <1>2, <1>3, <1>4, <1>5, <1>6, <1>7, <1>8 DEF TypeOK

\* What is listed is a client.
LEMMA EnlistedClients == TypeInv => Enlisted \subseteq DOMAIN conns
<1> SUFFICES ASSUME TypeInv PROVE Enlisted \subseteq DOMAIN conns
  OBVIOUS
<1>1. active \in Seq(DOMAIN conns) /\ inactive \in Seq(DOMAIN conns)
  BY DEF TypeInv
<1>2. \A s \in Seq(DOMAIN conns) : ToSet(s) \subseteq DOMAIN conns
  BY DEF ToSet
<1> QED BY <1>1, <1>2 DEF Enlisted

\* The clients at an address, as the lists show them.
LEMMA ListedClients ==
  ASSUME NEW a
  PROVE  Listed(a) = {k \in DOMAIN conns : conns[k].addr = a /\ k \in Enlisted}
<1>1. \A k : Places(k) # {} <=> k \in ToSet(active)
  BY DEF Places, ToSet
<1>2. \A k : Waiting(k) # {} <=> k \in ToSet(inactive)
  BY DEF Waiting, ToSet
<1> QED BY <1>1, <1>2 DEF Listed, Enlisted

\* The invariant says of the lists what ListsSound says.
LEMMA SoundLists == IInv /\ ListsInv => ListsSound
<1> SUFFICES ASSUME IInv, ListsInv PROVE ListsSound
  OBVIOUS
<1>1. TypeOK
  BY TypesHold DEF ListsInv
<1>2. ASSUME QuietStart PROVE Sound
  <2>1. PICK done, ends : Work(done, ends)
    BY DEF ListsInv, WorkInv
  <2>2. stage = "run" /\ Start = starts.find
    BY <1>2 DEF QuietStart, Start
  <2> QED BY <2>1, <2>2 DEF Work
<1>3. ASSUME QuietStart, NEW k \in DOMAIN conns
      PROVE  /\ Cardinality(Places(k)) + Cardinality(Waiting(k)) <= 1
             /\ Places(k) # {} => conns[k].open \/ main = "stuck"
             /\ Waiting(k) # {} => ~conns[k].open
             /\ conns[k].loops <= 1 /\ ~conns[k].held
  <2>1. Sound
    BY <1>2, <1>3
  <2>2. Cardinality(Places(k)) = IF Places(k) = {} THEN 0 ELSE 1
    <3>1. \A x, y \in Places(k) : x = y
      BY <2>1 DEF Sound, IsInjective, Places
    <3> QED BY <3>1, AtMostOne
  <2>3. Cardinality(Waiting(k)) = IF Waiting(k) = {} THEN 0 ELSE 1
    <3>1. \A x, y \in Waiting(k) : x = y
      BY <2>1 DEF Sound, IsInjective, Waiting
    <3> QED BY <3>1, AtMostOne
  <2>4. (Places(k) # {} => k \in ToSet(active)) /\ (Waiting(k) # {} => k \in ToSet(inactive))
    BY DEF Places, Waiting, ToSet
  <2>5. Places(k) = {} \/ Waiting(k) = {}
    BY <2>1, <2>4 DEF Sound
  <2>6. Cardinality(Places(k)) + Cardinality(Waiting(k)) <= 1
    BY <2>2, <2>3, <2>5
  <2> QED BY <1>3, <2>1, <2>4, <2>6 DEF Sound
<1>4. ASSUME QuietStart, main = "stuck" PROVE Len(events) = EventCap
  BY <1>2, <1>4 DEF Sound
<1> QED BY <1>1, <1>3, <1>4 DEF ListsSound

\* When all is worked off, it says what ListsFollowDirectory says.
LEMMA FollowingLists == IInv /\ ListsInv => ListsFollowDirectory
<1> SUFFICES ASSUME IInv, ListsInv, Settled, NEW a \in Addrs
             PROVE  /\ store[a] # NoId => store[a] \in IdsAt(a)
                    /\ QuietStart => Overwritten(a) \/ IdsAt(a) \subseteq {store[a]}
  BY DEF ListsFollowDirectory
<1>1. PICK done, ends : Work(done, ends)
  BY DEF ListsInv, WorkInv
<1>2. /\ stage = "run" /\ watch.state = "on" /\ watch.pos = Len(log) /\ Start <= starts.find
      /\ events = <<>> /\ todo = <<>>
  BY DEF Settled, SeesAll, Start
<1>3. Len(log) \in Nat /\ DOMAIN log = 1..Len(log) /\ store \in [Addrs -> Ids \cup {NoId}]
  BY LenProperties DEF IInv, ChangesInv
<1>4. Start \in 0..Len(log)
  BY DEF ListsInv, TypeInv, Start
<1>5. done = Len(log)
  <2>1. Len(todo) = 0 /\ Len(events) = 0
    BY <1>2
  <2>2. ends[0] = Len(log) /\ Len(todo) = ends[0] - done
    BY <1>1, <1>2, <2>1 DEF Work, Progress, Part
  <2>3. 0 = Len(log) - done
    BY <2>1, <2>2
  <2>4. done \in Nat /\ Len(log) \in Nat
    BY <1>1, <1>3 DEF Work
  <2> QED BY <2>3, <2>4
<1>6. Enlisted \subseteq DOMAIN conns
  BY EnlistedClients DEF ListsInv
<1>7. \A i : HasClient(a, i) => i \in IdsAt(a)
  BY <1>6, ListedClients DEF HasClient, IdsAt
<1>8. ASSUME store[a] # NoId PROVE HasClient(a, store[a])
  <2>1. Covers(Len(log))
    BY <1>1, <1>2, <1>5 DEF Work
  <2>2. CASE \A n \in (Start + 1)..Len(log) : log[n].addr # a
    BY <1>8, <2>1, <2>2 DEF Covers
  <2>3. CASE \E n \in (Start + 1)..Len(log) : log[n].addr = a
    <3>1. PICK x \in (Start + 1)..Len(log) : log[x].addr = a
      BY <2>3
    <3>2. PICK n \in DOMAIN log : Put(n, a, store[a]) /\ LastUpTo(n, Len(log))
      BY <1>8 DEF ListsInv, LogInv
    <3>3. ~(n < x)
      <4>1. SUFFICES ASSUME n < x PROVE FALSE
        OBVIOUS
      <4>2. x \in (n + 1)..Len(log)
        BY <1>3, <1>4, <3>1, <3>2, <4>1
      <4> QED BY <3>1, <3>2, <4>2 DEF LastUpTo, Put
    <3>4. n \in (Start + 1)..Len(log)
      BY <1>3, <1>4, <3>1, <3>2, <3>3
    <3>5. store[a] \in Ids
      BY <1>3, <1>8
    <3> QED BY <2>1, <3>2, <3>4, <3>5 DEF Covers
  <2> QED BY <2>2, <2>3
<1>9. ASSUME QuietStart, ~Overwritten(a), NEW k \in Listed(a)
      PROVE  conns[k].id = store[a]
  <2>1. Start = starts.find
    BY <1>9 DEF QuietStart, Start
  <2>2. Sound /\ Exact(Len(log))
    BY <1>1, <1>2, <1>5, <2>1 DEF Work
  <2>3. main # "stuck"
    <3>1. Len(events) = 0 /\ EventCap # 0
      BY <1>2, SizesAssumption
    <3> QED BY <2>2, <3>1 DEF Sound
  <2>4. k \in DOMAIN conns /\ conns[k].addr = a /\ k \in Enlisted
    BY <1>9, ListedClients
  <2>5. PICK n \in 1..Len(log) : Put(n, a, conns[k].id) /\ LastUpTo(n, Len(log))
    BY <1>9, <2>2, <2>3, <2>4 DEF Exact, StandsFor
  <2> QED BY <1>3, <2>5 DEF ListsInv, LogInv, Put
<1>10. QuietStart => Overwritten(a) \/ IdsAt(a) \subseteq {store[a]}
  BY <1>9 DEF IdsAt
<1> QED BY <1>7, <1>8, <1>10

-----------------------------------------------------------------------------
(* The invariant holds at the start and after every step: the lists. *)

\* The proxy starts with empty lists and nothing to work off.
LEMMA InitListsInv == Init => ListsInv
<1> SUFFICES ASSUME Init PROVE ListsInv
  OBVIOUS
<1> USE DEF Init, ProxyInit, DirectoryInit
<1>1. Len(log) = 0 /\ Len(events) = 0 /\ Len(sends) = 0 /\ Len(todo) = 0
  OBVIOUS
<1>2. TypeInv
  BY <1>1, SizesAssumption DEF TypeInv, NoJob
<1>3. IssuedInv
  <2>1. {c \in Callers : pc[c] = "lock"} = {}
    OBVIOUS
  <2>2. issued + Cardinality({c \in Callers : pc[c] = "lock"}) <= MaxReqs
    <3>1. Cardinality({c \in Callers : pc[c] = "lock"}) = 0
      BY <2>1, FS_EmptySet
    <3>2. issued = 0 /\ MaxReqs \in Nat
      BY SizesAssumption
    <3> QED BY <3>1, <3>2
  <2>3. SendCap \in Nat
    BY SizesAssumption
  <2> QED BY <1>1, <2>2, <2>3 DEF IssuedInv
<1>4. LogInv
  BY <1>1 DEF LogInv
<1>5. StageInv
  BY DEF StageInv
<1>6. Work(0, [x \in 0..0 |-> 0])
  <2>1. 0..0 = {0}
    OBVIOUS
  <2> QED BY <1>1, <2>1 DEF Work, Progress, Part, Start
<1> QED BY <1>2, <1>3, <1>4, <1>5, <1>6 DEF ListsInv, WorkInv, Work

\* A step that leaves alone what is told and what is listed.
LEMMA SameLists ==
  ASSUME ListsInv, UNCHANGED <<store, log, watch, starts, active, inactive, events, todo>>,
         stage' = stage \/ (stage # "run" /\ stage' # "run"),
         stage # "run" => conns' = conns /\ main' = main,
         DOMAIN conns' = DOMAIN conns,
         \A k \in DOMAIN conns :
           /\ conns'[k].addr = conns[k].addr /\ conns'[k].id = conns[k].id
           /\ conns'[k].open = conns[k].open /\ conns'[k].held = conns[k].held
           /\ conns'[k].loops = conns[k].loops,
         main' = main \/ (main \in {"select", "send", "lock"} /\ main' \in {"select", "send", "lock"})
  PROVE  LogInv' /\ StageInv' /\ WorkInv'
<1>1. LogInv'
  BY DEF ListsInv, LogInv, LastUpTo, Put
<1>2. StageInv'
  BY DEF ListsInv, StageInv
<1>3. PICK done, ends : Work(done, ends)
  BY DEF ListsInv, WorkInv
<1>4. /\ Start' = Start /\ Enlisted' = Enlisted
      /\ \A n, u : LastUpTo(n, u)' <=> LastUpTo(n, u)
      /\ \A n, a, i : Put(n, a, i)' <=> Put(n, a, i)
      /\ \A a : Overwritten(a)' <=> Overwritten(a)
      /\ \A s, m, n : Part(s, m, n)' <=> Part(s, m, n)
  BY DEF Start, Enlisted, LastUpTo, Put, Overwritten, Part
<1>5. Enlisted \subseteq DOMAIN conns
  BY EnlistedClients DEF ListsInv
<1>6. \A a, i : HasClient(a, i)' <=> HasClient(a, i)
  BY <1>4, <1>5 DEF HasClient
<1>7. Progress(done, ends)'
  BY <1>3, <1>4 DEF Work, Progress, Part
<1>8. Covers(done) => Covers(done)'
  BY <1>4, <1>6 DEF Covers
<1>9. Sound => Sound'
  <2>1. ToSet(active) \subseteq DOMAIN conns /\ ToSet(inactive) \subseteq DOMAIN conns
    BY <1>5 DEF Enlisted
  <2>2. (main = "stuck") <=> (main' = "stuck")
    OBVIOUS
  <2> QED BY <2>1, <2>2 DEF Sound
<1>10. ASSUME Exact(done) PROVE Exact(done)'
  <2>1. \A k \in DOMAIN conns : \A n : StandsFor(k, n, done) => StandsFor(k, n, done)'
    BY <1>4 DEF StandsFor
  <2> QED BY <1>4, <1>10, <2>1 DEF Exact
<1>11. Work(done, ends)'
  BY <1>3, <1>4, <1>7, <1>8, <1>9, <1>10 DEF Work
<1> QED BY <1>1, <1>2, <1>11 DEF WorkInv, Work

\* A step that leaves the lists and what is told alone keeps their types.
LEMMA SameTypes ==
  ASSUME TypeInv, UNCHANGED <<log, watch, starts, active, inactive, events>>,
         reachable' \subseteq Addrs, stage' \in {"subscribe", "find", "run"},
         DOMAIN conns' = DOMAIN conns, \A k \in DOMAIN conns : conns'[k].id = conns[k].id,
         main' \in {"select", "changes", "send", "lock", "stuck"},
         job' \in [req : [n : Nat, hash : Nat], client : Nat],
         main' = "send" => job'.client \in DOMAIN active
  PROVE  TypeInv'
BY DEF TypeInv

\* A step of the main loop that is not about requests.
LEMMA SameIssued ==
  ASSUME IssuedInv, UNCHANGED <<issued, pc, call, sends>>,
         main' \in {"send", "lock"} => main' = main /\ job' = job
  PROVE  IssuedInv'
BY DEF IssuedInv

\* Subscribe, and processes that start and end at the addresses.
LEMMA SurroundingsKeepLists ==
  ASSUME ListsInv,
         \/ Subscribe \/ UNCHANGED vars
         \/ \E a \in Addrs : PeerStarts(a) \/ PeerEnds(a)
  PROVE  ListsInv'
<1>1. UNCHANGED <<store, log, watch, starts, conns, active, inactive, events, main, todo, job, issued, pc, call, sends>>
  BY DEF Subscribe, PeerStarts, PeerEnds, vars, directory, lists, subscription, loop, calls
<1>2. /\ stage' = stage \/ (stage # "run" /\ stage' # "run")
      /\ stage' \in {"subscribe", "find", "run"} /\ reachable' \subseteq Addrs
  BY DEF ListsInv, TypeInv, Subscribe, PeerStarts, PeerEnds, vars, subscription
<1>3. TypeInv'
  BY <1>1, <1>2 DEF ListsInv, TypeInv
<1>4. IssuedInv'
  BY <1>1, SameIssued DEF ListsInv
<1>5. LogInv' /\ StageInv' /\ WorkInv'
  BY <1>1, <1>2, SameLists
<1> QED BY <1>3, <1>4, <1>5 DEF ListsInv

\* A caller: what is issued stays counted.
LEMMA CallersKeepLists ==
  ASSUME IInv, ListsInv, NEW c \in Callers, Begin(c) \/ Caller(c)
  PROVE  ListsInv'
<1> DEFINE atLock == {d \in Callers : pc[d] = "lock"}
<1>1. UNCHANGED <<store, log, watch, stage, starts, reachable, conns, active, inactive, events, main, todo, job>>
  BY DEF Begin, Caller, AddToTable, AddToQueue, TimeOut, directory, lists, subscription, loop
<1>2. TypeInv'
  BY <1>1 DEF ListsInv, TypeInv
<1>3. LogInv' /\ StageInv' /\ WorkInv'
  BY <1>1, SameLists
<1>4. /\ pc \in [Callers -> {"idle", "lock", "push", "wait"}]
      /\ call \in [Callers -> [kind : Kinds, hash : Hashes \cup {0}]]
      /\ issued \in Nat /\ MaxReqs \in Nat /\ SendCap \in Nat
  BY SizesAssumption DEF IInv, MutexInv
<1>5. IsFiniteSet(atLock) /\ Cardinality(atLock) \in Nat
  <2>1. atLock \in SUBSET Callers
    OBVIOUS
  <2>2. IsFiniteSet(atLock)
    BY <2>1, CallersAssumption, FS_Subset
  <2> QED BY <2>2, FS_CardinalityType
<1>6. /\ issued + Cardinality(atLock) <= MaxReqs
      /\ \A d \in Callers : pc[d] \in {"lock", "push"} => call[d].hash \in Hashes
      /\ Len(sends) <= SendCap /\ \A x \in DOMAIN sends : sends[x].hash \in Hashes
      /\ main \in {"send", "lock"} => job.req.hash \in Hashes
  BY DEF ListsInv, IssuedInv
<1> HIDE DEF atLock
<1>7. CASE Begin(c)
  <2>1. PICK kind \in Kinds, hash \in Hashes : call' = [call EXCEPT ![c] = [kind |-> kind, hash |-> hash]]
    BY <1>7 DEF Begin
  <2>2. /\ pc' = [pc EXCEPT ![c] = "lock"] /\ UNCHANGED <<issued, sends>>
        /\ issued + Cardinality(atLock) < MaxReqs
    BY <1>7 DEF Begin, atLock
  <2>3. {d \in Callers : pc'[d] = "lock"} = atLock \cup {c}
    BY <1>4, <2>2 DEF atLock
  <2>4. Cardinality(atLock \cup {c}) \in {Cardinality(atLock), Cardinality(atLock) + 1}
    BY <1>5, FS_AddElement
  <2>5. issued + Cardinality(atLock \cup {c}) <= MaxReqs
    BY <1>4, <1>5, <2>2, <2>4
  <2>6. \A d \in Callers : pc'[d] \in {"lock", "push"} => call'[d].hash \in Hashes
    BY <1>4, <1>6, <2>1, <2>2
  <2>7. IssuedInv'
    BY <1>1, <1>6, <2>2, <2>3, <2>5, <2>6 DEF IssuedInv
  <2> QED BY <1>2, <1>3, <2>7 DEF ListsInv
<1>8. CASE AddToTable(c)
  <2>1. /\ pc[c] = "lock" /\ pc' = [pc EXCEPT ![c] = "push"] /\ issued' = issued + 1
        /\ UNCHANGED <<call, sends>>
    BY <1>8 DEF AddToTable
  <2>2. {d \in Callers : pc'[d] = "lock"} = atLock \ {c} /\ c \in atLock
    BY <1>4, <2>1 DEF atLock
  <2>3. Cardinality(atLock \ {c}) = Cardinality(atLock) - 1
    BY <1>5, <2>2, FS_RemoveElement
  <2>4. issued' + Cardinality(atLock \ {c}) <= MaxReqs
    BY <1>4, <1>5, <1>6, <2>1, <2>3
  <2>5. \A d \in Callers : pc'[d] \in {"lock", "push"} => call'[d].hash \in Hashes
    BY <1>4, <1>6, <2>1
  <2>6. IssuedInv'
    BY <1>1, <1>6, <2>1, <2>2, <2>4, <2>5 DEF IssuedInv
  <2> QED BY <1>2, <1>3, <2>6 DEF ListsInv
<1>9. CASE AddToQueue(c)
  <2> DEFINE new == [n |-> issued, hash |-> call[c].hash]
  <2>1. /\ pc[c] = "push" /\ Len(sends) < SendCap /\ sends' = Append(sends, new)
        /\ issued' = issued /\ \E at \in {"wait", "idle"} : pc' = [pc EXCEPT ![c] = at]
        /\ call' = [call EXCEPT ![c] = NoCall]
    BY <1>9 DEF AddToQueue
  <2>2. {d \in Callers : pc'[d] = "lock"} = atLock
    BY <1>4, <2>1 DEF atLock
  <2>3. \A d \in Callers : pc'[d] \in {"lock", "push"} => call'[d].hash \in Hashes
    BY <1>4, <1>6, <2>1
  <2>4. new.hash \in Hashes
    BY <1>6, <2>1
  <2>5. sends \in Seq([n : 1..issued, hash : Nat])
    BY DEF IInv, SendsInv
  <2> HIDE DEF new
  <2>6. /\ Len(sends') = Len(sends) + 1 /\ Len(sends) \in Nat
        /\ \A x \in DOMAIN sends' : (x \in DOMAIN sends /\ sends'[x] = sends[x]) \/ sends'[x] = new
    <3> DEFINE S == [n : 1..issued, hash : Nat]
    <3>1. sends \in Seq(S) /\ sends' = Append(sends, new)
      BY <2>1, <2>5
    <3> HIDE DEF S
    <3> QED BY <3>1
  <2>7. Len(sends') <= SendCap /\ \A x \in DOMAIN sends' : sends'[x].hash \in Hashes
    <3>1. Len(sends') <= SendCap
      BY <1>4, <2>1, <2>6
    <3> QED BY <1>6, <2>4, <2>6, <3>1
  <2>8. IssuedInv'
    BY <1>1, <1>6, <2>1, <2>2, <2>3, <2>7 DEF IssuedInv
  <2> QED BY <1>2, <1>3, <2>8 DEF ListsInv
<1>10. CASE TimeOut(c)
  <2>1. /\ pc[c] = "wait" /\ pc' = [pc EXCEPT ![c] = "idle"] /\ UNCHANGED <<issued, call, sends>>
    BY <1>10 DEF TimeOut
  <2>2. {d \in Callers : pc'[d] = "lock"} = atLock
    BY <1>4, <2>1 DEF atLock
  <2>3. \A d \in Callers : pc'[d] \in {"lock", "push"} => call'[d].hash \in Hashes
    BY <1>4, <1>6, <2>1
  <2>4. IssuedInv'
    BY <1>1, <1>6, <2>1, <2>2, <2>3 DEF IssuedInv
  <2> QED BY <1>2, <1>3, <2>4 DEF ListsInv
<1> QED BY <1>7, <1>8, <1>9, <1>10 DEF Caller

\* A client's loop changes the client's queue and no list.
LEMMA SendLoopsKeepLists ==
  ASSUME IInv, ListsInv, NEW k \in DOMAIN conns, SendLoop(k)
  PROVE  ListsInv'
<1>1. /\ Running
      /\ UNCHANGED <<store, log, watch, stage, starts, reachable, active, inactive, events, main, todo, job,
                     issued, pc, call, sends>>
  BY DEF SendLoop, TakePacket, WritePacket, directory, subscription, loop, calls
<1>2. conns \in Seq(Client)
  BY DEF IInv, ClientsInv
<1>3. /\ DOMAIN conns' = DOMAIN conns
      /\ \A j \in DOMAIN conns :
           /\ conns'[j].addr = conns[j].addr /\ conns'[j].id = conns[j].id
           /\ conns'[j].open = conns[j].open /\ conns'[j].held = conns[j].held
           /\ conns'[j].loops = conns[j].loops
  <2>1. CASE TakePacket(k)
    <3>1. conns' = [conns EXCEPT ![k] = Taken(conns[k])]
      BY <2>1 DEF TakePacket
    <3>2. conns[k] \in Client
      BY <1>2
    <3> QED BY <1>2, <3>1, <3>2 DEF Taken, Client
  <2>2. CASE WritePacket(k)
    <3>1. PICK n : conns' = [conns EXCEPT ![k] = Written(conns[k], n)]
      BY <2>2 DEF WritePacket
    <3>2. conns[k] \in Client
      BY <1>2
    <3> QED BY <1>2, <3>1, <3>2 DEF Written, Client
  <2> QED BY <2>1, <2>2 DEF SendLoop
<1>4. TypeInv'
  BY <1>1, <1>3 DEF ListsInv, TypeInv
<1>5. IssuedInv'
  BY <1>1, SameIssued DEF ListsInv
<1>6. LogInv' /\ StageInv' /\ WorkInv'
  BY <1>1, <1>3, SameLists DEF Running
<1> QED BY <1>4, <1>5, <1>6 DEF ListsInv

\* The main loop's way with a request: remove_active_client_by_index is never
\* reached, so that no client is closed.
LEMMA RequestStepsKeepLists ==
  ASSUME IInv, ListsInv, TakeRequest \/ RefuseRequest \/ SendRequest
  PROVE  ListsInv'
<1> DEFINE same == /\ DOMAIN conns' = DOMAIN conns
                   /\ \A j \in DOMAIN conns :
                        /\ conns'[j].addr = conns[j].addr /\ conns'[j].id = conns[j].id
                        /\ conns'[j].open = conns[j].open /\ conns'[j].held = conns[j].held
                        /\ conns'[j].loops = conns[j].loops
<1>0. NoJob \in [req : [n : Nat, hash : Nat], client : Nat]
  BY DEF NoJob
<1>1. CASE TakeRequest
  <2>1. /\ Running /\ main = "select" /\ sends # <<>> /\ sends' = Tail(sends)
        /\ main' = (IF active = <<>> THEN "lock" ELSE "send")
        /\ job' = [req |-> Head(sends),
                   client |-> IF active = <<>> THEN 0 ELSE (Head(sends).hash % Len(active)) + 1]
        /\ UNCHANGED <<store, log, watch, stage, starts, reachable, conns, active, inactive, events, todo,
                       issued, pc, call>>
    BY <1>1 DEF TakeRequest, directory, subscription, lists
  <2>2. sends \in Seq([n : 1..issued, hash : Nat]) /\ \A x \in DOMAIN sends : sends[x].hash \in Hashes
    BY DEF IInv, SendsInv, ListsInv, IssuedInv
  <2>3. /\ Head(sends) \in [n : 1..issued, hash : Nat] /\ Head(sends).hash \in Hashes
        /\ Len(sends') = Len(sends) - 1 /\ Len(sends) \in Nat
        /\ \A x \in DOMAIN sends' : sends'[x].hash \in Hashes
    <3> DEFINE S == [n : 1..issued, hash : Nat]
    <3>1. sends \in Seq(S)
      BY <2>2
    <3> HIDE DEF S
    <3>2. /\ Head(sends) \in S /\ Head(sends) = sends[1] /\ 1 \in DOMAIN sends
          /\ Len(sends') = Len(sends) - 1 /\ Len(sends) \in Nat
          /\ \A x \in DOMAIN sends' : x + 1 \in DOMAIN sends /\ sends'[x] = sends[x + 1]
      BY <2>1, <3>1
    <3> QED BY <2>2, <3>2 DEF S
  <2>4. Head(sends).n \in Nat /\ Head(sends).hash \in Nat /\ Head(sends) \in [n : Nat, hash : Nat]
    <3>1. issued \in Nat
      BY DEF IInv, MutexInv
    <3> QED BY <2>3, <3>1
  <2>5. /\ job' \in [req : [n : Nat, hash : Nat], client : Nat]
        /\ main' = "send" => job'.client \in DOMAIN active
    <3>1. CASE active = <<>>
      BY <2>1, <2>4, <3>1
    <3>2. CASE active # <<>>
      <4>1. active \in Seq(DOMAIN conns)
        BY DEF ListsInv, TypeInv
      <4>2. Len(active) \in Nat /\ Len(active) # 0 /\ DOMAIN active = 1..Len(active)
        BY <3>2, <4>1, EmptySeq, LenProperties
      <4> DEFINE turn == (Head(sends).hash % Len(active)) + 1
      <4>3. turn \in 1..Len(active)
        BY <2>4, <4>2
      <4>4. job' = [req |-> Head(sends), client |-> turn]
        BY <2>1, <3>2
      <4> HIDE DEF turn
      <4>5. turn \in Nat /\ turn \in DOMAIN active
        BY <4>2, <4>3
      <4> QED BY <2>4, <4>4, <4>5
    <3> QED BY <3>1, <3>2
  <2>6. TypeInv'
    <3>1. TypeInv /\ reachable' \subseteq Addrs /\ stage' \in {"subscribe", "find", "run"}
      BY <2>1 DEF ListsInv, TypeInv
    <3> QED BY <2>1, <2>5, <3>1, SameTypes
  <2>7. IssuedInv'
    <3>1. Len(sends') <= SendCap
      <4>1. Len(sends) <= SendCap /\ SendCap \in Nat
        BY SizesAssumption DEF ListsInv, IssuedInv
      <4> QED BY <2>3, <4>1
    <3>2. job'.req.hash \in Hashes
      BY <2>1, <2>3
    <3> QED BY <2>1, <2>3, <3>1, <3>2 DEF ListsInv, IssuedInv
  <2>8. LogInv' /\ StageInv' /\ WorkInv'
    BY <2>1, SameLists DEF Running
  <2> QED BY <2>6, <2>7, <2>8 DEF ListsInv
<1>2. CASE RefuseRequest \/ SendRequest
  <2>1. /\ Running /\ main \in {"send", "lock"} /\ main' = "select" /\ job' = NoJob
        /\ UNCHANGED <<store, log, watch, stage, starts, reachable, active, inactive, events, todo,
                       issued, pc, call, sends>>
        /\ conns' = conns \/ \E p : conns' = [conns EXCEPT ![active[job.client]] = Sent(conns[active[job.client]], p)]
    <3>1. CASE RefuseRequest
      BY <3>1 DEF RefuseRequest, directory, subscription, lists, calls
    <3>2. CASE SendRequest
      <4>1. ~FailedClientLeaves(job.client - 1)
        <5>1. active \in Seq(DOMAIN conns) /\ job.client \in DOMAIN active
          BY <3>2 DEF ListsInv, TypeInv, SendRequest
        <5>2. Len(active) \in Nat /\ job.client \in 1..Len(active)
          BY <5>1, LenProperties
        <5> QED BY <5>2 DEF FailedClientLeaves
      <4> QED BY <3>2, <4>1 DEF SendRequest, directory, subscription, lists, calls
    <3> QED BY <1>2, <3>1, <3>2
  <2>2. same
    <3>1. CASE conns' = conns
      BY <3>1
    <3>2. CASE \E p : conns' = [conns EXCEPT ![active[job.client]] = Sent(conns[active[job.client]], p)]
      <4>1. PICK p : conns' = [conns EXCEPT ![active[job.client]] = Sent(conns[active[job.client]], p)]
        BY <3>2
      <4>2. PICK k : k = active[job.client]
        OBVIOUS
      <4>3. conns \in Seq(Client) /\ (k \in DOMAIN conns => conns[k] \in Client)
        BY DEF IInv, ClientsInv
      <4> QED BY <4>1, <4>2, <4>3 DEF Sent, Client
    <3> QED BY <2>1, <3>1, <3>2
  <2>3. TypeInv'
    <3>1. TypeInv /\ reachable' \subseteq Addrs /\ stage' \in {"subscribe", "find", "run"}
      BY <2>1 DEF ListsInv, TypeInv
    <3> QED BY <1>0, <2>1, <2>2, <3>1, SameTypes
  <2>4. IssuedInv'
    BY <2>1, SameIssued DEF ListsInv
  <2>5. LogInv' /\ StageInv' /\ WorkInv'
    BY <2>1, <2>2, SameLists DEF Running
  <2> QED BY <2>3, <2>4, <2>5 DEF ListsInv
<1> QED BY <1>1, <1>2

\* What an event holds.
LEMMA EventTypes ==
  ASSUME TypeInv, NEW x \in DOMAIN events
  PROVE  IF events[x].kind = "changes" THEN events[x].changes \in Seq(Change)
         ELSE events[x].kind = "close" /\ events[x].addr \in Addrs /\ events[x].id \in Ids
<1>1. events[x] \in Event
  <2>1. events \in Seq(Event)
    BY DEF TypeInv
  <2> QED BY <2>1
<1> QED BY <1>1 DEF Event

\* The table changes and the log grows.
LEMMA ElsewhereKeepsLists == ASSUME IInv, ListsInv, Elsewhere PROVE ListsInv'
<1>0. PICK len : len = Len(log)
  OBVIOUS
<1>1. UNCHANGED <<watch, stage, starts, reachable, conns, active, inactive, events, main, todo, job,
                  issued, pc, call, sends>>
  BY DEF Elsewhere, lists, subscription, loop, calls
<1>2. PICK a \in Addrs, e \in Change :
        /\ e.addr = a /\ log' = Append(log, e) /\ store' = [store EXCEPT ![a] = e.id]
        /\ IF e.op = "put" THEN e.id \in Ids /\ e.id \notin Published ELSE e.id = NoId
  <2>1. CASE \E a \in Addrs : Vanish(a)
    <3>1. PICK a \in Addrs : Vanish(a)
      BY <2>1
    <3>2. [op |-> "del", addr |-> a, id |-> NoId] \in Change
      BY DEF Change
    <3> QED BY <3>1, <3>2 DEF Vanish, Reported
  <2>2. CASE \E a \in Addrs, i \in Ids : Register(a, i)
    <3>1. PICK a \in Addrs, i \in Ids : Register(a, i)
      BY <2>2
    <3>2. [op |-> "put", addr |-> a, id |-> i] \in Change
      BY DEF Change
    <3> QED BY <3>1, <3>2 DEF Register, Reported
  <2> QED BY <2>1, <2>2 DEF Elsewhere, DirectoryNext
<1>3. /\ log \in Seq(Change) /\ store \in [Addrs -> Ids \cup {NoId}]
      /\ len \in Nat /\ DOMAIN log = 1..len
  BY <1>0, LenProperties DEF IInv, ChangesInv
<1>4. /\ log' \in Seq(Change) /\ Len(log') = len + 1 /\ DOMAIN log' = 1..(len + 1)
      /\ \A n \in 1..len : log'[n] = log[n]
      /\ log'[len + 1] = e
  <2>1. log' \in Seq(Change)
    BY <1>2, <1>3
  <2> QED BY <1>0, <1>2, <1>3, <2>1, AppendProperties, LenProperties
<1>5. \A n \in 1..len : log[n].addr \in Addrs
  <2>1. \A n \in 1..len : log[n] \in Change
    BY <1>0, <1>3, ElementOfSeq
  <2> QED BY <2>1 DEF Change
<1>6. /\ store'[a] = e.id
      /\ \A b \in Addrs : b # a => store'[b] = store[b]
  BY <1>2, <1>3
<1>7. TypeInv'
  <2>1. watch.pos <= len /\ starts \in [watch : 0..len, find : 0..len] /\ watch.pos \in Nat
    BY <1>0 DEF ListsInv, TypeInv, IInv, ChangesInv
  <2>2. watch.pos <= len + 1 /\ starts \in [watch : 0..(len + 1), find : 0..(len + 1)]
    <3>1. 0..len \subseteq 0..(len + 1)
      BY <1>3
    <3>2. watch.pos <= len + 1
      BY <1>3, <2>1
    <3> QED BY <2>1, <3>1, <3>2
  <2> QED BY <1>1, <1>4, <2>2 DEF ListsInv, TypeInv
<1>8. IssuedInv'
  BY <1>1, SameIssued DEF ListsInv
<1>9. StageInv'
  BY <1>1 DEF ListsInv, StageInv
<1>10. \A n \in 1..len, u \in 0..len : LastUpTo(n, u)' <=> LastUpTo(n, u)
  <2> SUFFICES ASSUME NEW n \in 1..len, NEW u \in 0..len PROVE LastUpTo(n, u)' <=> LastUpTo(n, u)
    OBVIOUS
  <2>1. \A x \in (n + 1)..u : x \in 1..len
    BY <1>3
  <2> QED BY <1>4, <2>1 DEF LastUpTo
<1>11. \A n \in 1..len : LastUpTo(n, len + 1)' <=> LastUpTo(n, len) /\ log[n].addr # a
  <2> SUFFICES ASSUME NEW n \in 1..len
               PROVE  LastUpTo(n, len + 1)' <=> LastUpTo(n, len) /\ log[n].addr # a
    OBVIOUS
  <2>1. (n + 1)..(len + 1) = ((n + 1)..len) \cup {len + 1}
    BY <1>3
  <2>2. \A x \in (n + 1)..len : x \in 1..len
    BY <1>3
  <2>3. LastUpTo(n, len + 1)' <=> \A x \in ((n + 1)..len) \cup {len + 1} : log'[x].addr # log'[n].addr
    BY <1>4, <2>1 DEF LastUpTo
  <2>4. log'[n] = log[n] /\ log'[len + 1].addr = a
    BY <1>2, <1>4
  <2> QED BY <1>4, <2>2, <2>3, <2>4 DEF LastUpTo
<1>12. \A n \in 1..len : \A b, i : Put(n, b, i)' <=> Put(n, b, i)
  BY <1>4 DEF Put
<1>13. LogInv'
  <2>1. /\ \A n \in 1..len : IF log[n].op = "put" THEN log[n].id \in Ids ELSE log[n].id = NoId
        /\ \A m, n \in 1..len : log[m].op = "put" /\ log[n].op = "put" /\ log[m].id = log[n].id => m = n
        /\ \A n \in 1..len : LastUpTo(n, len) => store[log[n].addr] = log[n].id
        /\ \A b \in Addrs : store[b] # NoId => \E n \in 1..len : Put(n, b, store[b]) /\ LastUpTo(n, len)
    BY <1>0, <1>3 DEF ListsInv, LogInv
  <2>2. \A n \in 1..(len + 1) : n \in 1..len \/ n = len + 1
    BY <1>3
  <2>3. ASSUME NEW n \in 1..(len + 1) PROVE IF log'[n].op = "put" THEN log'[n].id \in Ids ELSE log'[n].id = NoId
    BY <1>2, <1>4, <2>1, <2>2
  <2>4. ASSUME NEW m \in 1..(len + 1), NEW n \in 1..(len + 1),
               log'[m].op = "put", log'[n].op = "put", log'[m].id = log'[n].id
        PROVE  m = n
    <3>1. \A x \in 1..len : log[x].id \in Published
      BY <1>3 DEF Published
    <3> QED BY <1>2, <1>4, <2>1, <2>2, <2>4, <3>1
  <2>5. ASSUME NEW n \in 1..(len + 1), LastUpTo(n, len + 1)' PROVE store'[log'[n].addr] = log'[n].id
    <3>1. CASE n \in 1..len
      BY <1>4, <1>5, <1>6, <1>11, <2>1, <2>5, <3>1
    <3>2. CASE n = len + 1
      BY <1>2, <1>4, <1>6, <3>2
    <3> QED BY <2>2, <3>1, <3>2
  <2>6. ASSUME NEW b \in Addrs, NEW i, i = store'[b], i # NoId
        PROVE  \E n \in 1..(len + 1) : Put(n, b, i)' /\ LastUpTo(n, len + 1)'
    <3>1. CASE b = a
      <4>1. len + 1 \in 1..(len + 1) /\ e.op = "put" /\ i = e.id
        BY <1>2, <1>3, <1>6, <2>6, <3>1
      <4>2. Put(len + 1, b, i)'
        BY <1>2, <1>4, <3>1, <4>1 DEF Put
      <4>3. LastUpTo(len + 1, len + 1)'
        BY <1>3 DEF LastUpTo
      <4> QED BY <4>1, <4>2, <4>3
    <3>2. CASE b # a
      <4>1. i = store[b]
        BY <1>6, <2>6, <3>2
      <4>2. PICK n \in 1..len : Put(n, b, i) /\ LastUpTo(n, len)
        BY <2>1, <2>6, <4>1
      <4>3. LastUpTo(n, len + 1)'
        BY <1>11, <3>2, <4>2 DEF Put
      <4>4. Put(n, b, i)'
        BY <1>12, <4>2
      <4>5. n \in 1..(len + 1)
        BY <1>3
      <4> QED BY <4>3, <4>4, <4>5
    <3> QED BY <3>1, <3>2
  <2>7. \A b \in Addrs : store'[b] # NoId => \E n \in 1..(len + 1) : Put(n, b, store[b])' /\ LastUpTo(n, len + 1)'
    BY <2>6
  <2> QED BY <1>4, <2>3, <2>4, <2>5, <2>7 DEF LogInv
<1>14. Start' = Start /\ Enlisted' = Enlisted /\ (\A b, i : HasClient(b, i)' <=> HasClient(b, i))
  BY <1>1 DEF Start, Enlisted, HasClient
<1>15. \A b : Overwritten(b) => Overwritten(b)'
  <2> SUFFICES ASSUME NEW b, Overwritten(b) PROVE Overwritten(b)'
    OBVIOUS
  <2>1. PICK m \in 1..len, n \in 1..len :
          /\ m < n /\ log[m].addr = b /\ log[n].addr = b
          /\ log[m].op = "put" /\ log[n].op = "put"
          /\ \A x \in (m + 1)..(n - 1) : log[x].addr # b
    BY <1>3 DEF Overwritten
  <2>2. \A x \in (m + 1)..(n - 1) : x \in 1..len
    BY <1>3
  <2>3. m \in 1..(len + 1) /\ n \in 1..(len + 1)
    BY <1>3
  <2>4. \A x \in (m + 1)..(n - 1) : log'[x].addr # b
    BY <1>4, <2>1, <2>2
  <2> QED BY <1>4, <2>1, <2>3, <2>4 DEF Overwritten
<1>16. PICK done, ends : Work(done, ends)
  BY DEF ListsInv, WorkInv
<1>17. /\ done \in 0..len /\ done \in 0..(len + 1) /\ Start \in 0..len
       /\ ends \in [0..Len(events) -> 0..len] /\ ends \in [0..Len(events) -> 0..(len + 1)]
  <2>1. done \in 0..len /\ ends \in [0..Len(events) -> 0..len]
    BY <1>0, <1>16 DEF Work
  <2>2. 0..len \subseteq 0..(len + 1)
    BY <1>3
  <2>3. Start \in 0..len
    BY <1>0 DEF ListsInv, TypeInv, Start
  <2> QED BY <2>1, <2>2, <2>3
<1>18. ASSUME NEW s \in Seq(Change), NEW m \in 0..len, NEW n \in 0..len, Part(s, m, n)
       PROVE  \A x \in DOMAIN s : s[x] = log'[m + x]
  <2> SUFFICES ASSUME NEW x \in DOMAIN s PROVE s[x] = log'[m + x]
    OBVIOUS
  <2>1. Len(s) = n - m /\ s[x] = log[m + x] /\ x \in 1..Len(s)
    BY <1>18, LenProperties DEF Part
  <2>2. m + x \in 1..len
    BY <1>3, <2>1
  <2> QED BY <1>4, <2>1, <2>2
<1>19. Progress(done, ends)'
  <2>1. /\ Start <= done /\ (stage # "run" => done = Start)
        /\ Part(todo, done, ends[0])
        /\ ends[Len(events)] = IF watch.state = "off" THEN Start ELSE watch.pos
        /\ \A x \in DOMAIN events :
             IF events[x].kind = "changes" THEN Part(events[x].changes, ends[x - 1], ends[x])
             ELSE ends[x - 1] = ends[x]
    BY <1>16 DEF Work, Progress
  <2>2. Len(events) \in Nat /\ DOMAIN events = 1..Len(events)
    BY LenProperties DEF ListsInv, TypeInv
  <2>3. Part(todo, done, ends[0])'
    <3>1. todo \in Seq(Change) /\ ends[0] \in 0..len
      BY <1>17, <2>2 DEF IInv, ChangesInv
    <3>2. \A x \in DOMAIN todo : todo[x] = log'[done + x]
      BY <1>17, <1>18, <2>1, <3>1
    <3> QED BY <1>1, <2>1, <3>2 DEF Part
  <2>4. ASSUME NEW x \in DOMAIN events, events[x].kind = "changes"
        PROVE  Part(events[x].changes, ends[x - 1], ends[x])'
    <3>1. PICK s : s = events[x].changes
      OBVIOUS
    <3>2. s \in Seq(Change)
      BY <2>4, <3>1, EventTypes DEF ListsInv
    <3>3. x - 1 \in 0..Len(events) /\ x \in 0..Len(events)
      BY <2>2
    <3>4. ends[x - 1] \in 0..len /\ ends[x] \in 0..len
      BY <1>17, <3>3
    <3>5. Part(s, ends[x - 1], ends[x])
      BY <2>1, <2>4, <3>1
    <3>6. \A y \in DOMAIN s : s[y] = log'[ends[x - 1] + y]
      BY <1>18, <3>2, <3>4, <3>5
    <3> QED BY <1>1, <3>1, <3>5, <3>6 DEF Part
  <2> QED BY <1>1, <1>14, <2>1, <2>3, <2>4 DEF Progress
<1>20. ASSUME Covers(done) PROVE Covers(done)'
  <2> SUFFICES ASSUME NEW b \in Addrs
      PROVE /\ \A n \in (Start + 1)..done, i \in Ids : Put(n, b, i)' /\ LastUpTo(n, done)' => HasClient(b, i)
            /\ store'[b] # NoId /\ (\A n \in (Start + 1)..(len + 1) : log'[n].addr # b) => HasClient(b, store'[b])
    BY <1>4, <1>14 DEF Covers
  <2>1. ASSUME NEW n \in (Start + 1)..done, NEW i \in Ids, Put(n, b, i)', LastUpTo(n, done)'
        PROVE  HasClient(b, i)
    <3>1. n \in 1..len
      BY <1>3, <1>17
    <3> QED BY <1>10, <1>12, <1>17, <1>20, <2>1, <3>1 DEF Covers
  <2>2. ASSUME store'[b] # NoId, \A n \in (Start + 1)..(len + 1) : log'[n].addr # b
        PROVE  HasClient(b, store'[b])
    <3>1. len + 1 \in (Start + 1)..(len + 1) /\ (Start + 1)..len \subseteq (Start + 1)..(len + 1)
      BY <1>3, <1>17
    <3>2. b # a
      BY <1>2, <1>4, <2>2, <3>1
    <3>3. store'[b] = store[b]
      BY <1>6, <3>2
    <3>4. \A n \in (Start + 1)..len : log[n].addr # b
      <4>1. (Start + 1)..len \subseteq 1..len
        BY <1>3, <1>17
      <4> QED BY <1>4, <2>2, <3>1, <4>1
    <3> QED BY <1>0, <1>20, <2>2, <3>3, <3>4 DEF Covers
  <2> QED BY <2>1, <2>2
<1>21. Sound => Sound'
  BY <1>1 DEF Sound
<1>22. ASSUME Exact(done) PROVE Exact(done)'
  <2>1. ASSUME NEW k \in DOMAIN conns, NEW n \in 1..done, StandsFor(k, n, done)
        PROVE  StandsFor(k, n, done)'
    <3>1. n \in 1..len
      BY <1>3, <1>17
    <3>2. LastUpTo(n, done)' <=> LastUpTo(n, done)
      BY <1>10, <1>17, <3>1
    <3>3. \A b, i : Put(n, b, i)' <=> Put(n, b, i)
      BY <1>12, <3>1
    <3> QED BY <1>1, <1>14, <1>15, <2>1, <3>2, <3>3 DEF StandsFor
  <2> QED BY <1>1, <1>14, <1>22, <2>1 DEF Exact
<1>23. Work(done, ends)'
  BY <1>1, <1>4, <1>14, <1>16, <1>17, <1>19, <1>20, <1>21, <1>22 DEF Work
<1>24. WorkInv'
  BY <1>23 DEF WorkInv, Work
<1> QED BY <1>7, <1>8, <1>9, <1>13, <1>24 DEF ListsInv

\* The watch begins at the end of the log.
LEMMA WatchBeginsKeepsLists == ASSUME IInv, ListsInv, WatchBegins PROVE ListsInv'
<1>0. PICK len : len = Len(log)
  OBVIOUS
<1>1. /\ watch.state = "off" /\ watch' = [state |-> "on", pos |-> len]
      /\ starts' = [starts EXCEPT !.watch = len]
      /\ UNCHANGED <<store, log, stage, reachable, conns, active, inactive, events, main, todo, job,
                     issued, pc, call, sends>>
  BY <1>0 DEF WatchBegins, directory, lists, loop, calls
<1>2. len \in Nat /\ starts \in [watch : 0..len, find : 0..len]
  <2>1. len \in Nat
    BY <1>0 DEF IInv, ChangesInv
  <2> QED BY <1>0, <2>1 DEF ListsInv, TypeInv
<1>3. /\ starts' \in [watch : 0..len, find : 0..len]
      /\ starts'.watch = len /\ starts'.find = starts.find
      /\ watch'.state = "on" /\ watch'.pos = len
  BY <1>1, <1>2
<1>4. /\ events = <<>> /\ todo = <<>> /\ Len(events) = 0 /\ Len(todo) = 0
      /\ DOMAIN events = {} /\ DOMAIN todo = {}
  BY <1>1 DEF ListsInv, StageInv
<1>5. Start = starts.find /\ Start' = len
  BY <1>1, <1>3 DEF Start
<1>6. TypeInv'
  BY <1>0, <1>1, <1>2, <1>3 DEF ListsInv, TypeInv
<1>7. IssuedInv'
  BY <1>1, SameIssued DEF ListsInv
<1>8. LogInv' /\ (\A n, u : LastUpTo(n, u)' <=> LastUpTo(n, u)) /\ (\A n, a, i : Put(n, a, i)' <=> Put(n, a, i))
  BY <1>1 DEF ListsInv, LogInv, LastUpTo, Put
<1>9. StageInv'
  BY <1>1, <1>3, <1>4 DEF ListsInv, StageInv
<1>10. PICK done, ends : Work(done, ends)
  BY DEF ListsInv, WorkInv
<1>11. done = starts.find
  <2>1. done \in Nat /\ starts.find \in Nat
    BY <1>0, <1>2, <1>10 DEF Work
  <2>2. Len(todo) = ends[0] - done /\ ends[0] = starts.find
    BY <1>1, <1>4, <1>5, <1>10 DEF Work, Progress, Part
  <2>3. 0 = starts.find - done
    BY <1>4, <2>2
  <2> QED BY <2>1, <2>3
<1> DEFINE last == [x \in 0..0 |-> len]
<1>12. Progress(len, last)'
  <2>1. 0..0 = {0} /\ len - len = 0
    BY <1>2
  <2> QED BY <1>1, <1>2, <1>3, <1>4, <1>5, <2>1 DEF Progress, Part
<1>13. Enlisted' = Enlisted /\ (\A a, i : HasClient(a, i)' <=> HasClient(a, i)) /\ (\A a : Overwritten(a)' <=> Overwritten(a))
  BY <1>1 DEF Enlisted, HasClient, Overwritten
<1>14. ASSUME stage = "run", Start' <= starts'.find PROVE starts.find = len /\ Covers(len)'
  <2>1. starts.find = len
    BY <1>2, <1>3, <1>5, <1>14
  <2>2. Covers(len)
    <3>1. Start <= starts.find
      BY <1>2, <1>5
    <3> QED BY <1>10, <1>11, <1>14, <2>1, <3>1 DEF Work
  <2> QED BY <1>1, <1>5, <1>8, <1>13, <2>1, <2>2 DEF Covers
<1>15. ASSUME stage = "run", Start' = starts'.find PROVE Sound' /\ Exact(len)'
  <2>1. starts.find = len
    BY <1>2, <1>3, <1>5, <1>15
  <2>2. Sound /\ Exact(len)
    BY <1>5, <1>10, <1>11, <1>15, <2>1 DEF Work
  <2>3. Sound'
    BY <1>1, <2>2 DEF Sound
  <2>4. \A k, n : StandsFor(k, n, len) => StandsFor(k, n, len)'
    BY <1>1, <1>8, <1>13 DEF StandsFor
  <2> QED BY <1>1, <1>13, <2>2, <2>3, <2>4 DEF Exact
<1>16. Work(len, last)'
  <2>1. len \in 0..len /\ last \in [0..0 -> 0..len]
    BY <1>2
  <2> QED BY <1>0, <1>1, <1>4, <1>12, <1>14, <1>15, <2>1 DEF Work
<1> QED BY <1>6, <1>7, <1>8, <1>9, <1>16 DEF ListsInv, WorkInv, Work

\* It ends, and what it has reported stays.
LEMMA WatchEndsKeepsLists == ASSUME IInv, ListsInv, WatchEnds PROVE ListsInv'
<1>1. /\ watch.state = "on" /\ watch' = [watch EXCEPT !.state = "ended"]
      /\ UNCHANGED <<store, log, stage, starts, reachable, conns, active, inactive, events, main, todo, job,
                     issued, pc, call, sends>>
  BY DEF WatchEnds, directory, lists, loop, calls
<1>2. watch'.state = "ended" /\ watch'.pos = watch.pos
  BY <1>1 DEF IInv, ChangesInv
<1>3. TypeInv'
  BY <1>1, <1>2 DEF ListsInv, TypeInv
<1>4. IssuedInv'
  BY <1>1, SameIssued DEF ListsInv
<1>5. LogInv' /\ (\A n, u : LastUpTo(n, u)' <=> LastUpTo(n, u)) /\ (\A n, a, i : Put(n, a, i)' <=> Put(n, a, i))
  BY <1>1 DEF ListsInv, LogInv, LastUpTo, Put
<1>6. StageInv'
  BY <1>1, <1>2 DEF ListsInv, StageInv
<1>7. PICK done, ends : Work(done, ends)
  BY DEF ListsInv, WorkInv
<1>8. /\ Start' = Start /\ Enlisted' = Enlisted
      /\ (\A a, i : HasClient(a, i)' <=> HasClient(a, i))
      /\ (\A a : Overwritten(a)' <=> Overwritten(a))
  BY <1>1, <1>2 DEF Start, Enlisted, HasClient, Overwritten
<1>9. Progress(done, ends)'
  BY <1>1, <1>2, <1>7, <1>8 DEF Work, Progress, Part
<1>10. Covers(done) => Covers(done)'
  BY <1>1, <1>5, <1>8 DEF Covers
<1>11. Sound => Sound'
  BY <1>1 DEF Sound
<1>12. ASSUME Exact(done) PROVE Exact(done)'
  <2>1. \A k, n : StandsFor(k, n, done) => StandsFor(k, n, done)'
    BY <1>1, <1>5, <1>8 DEF StandsFor
  <2> QED BY <1>1, <1>8, <1>12, <2>1 DEF Exact
<1>13. Work(done, ends)'
  BY <1>1, <1>7, <1>8, <1>9, <1>10, <1>11, <1>12 DEF Work
<1> QED BY <1>3, <1>4, <1>5, <1>6, <1>13 DEF ListsInv, WorkInv, Work

\* It reports what has come since its last report.
LEMMA WatchReportsKeepsLists == ASSUME IInv, ListsInv, WatchReports PROVE ListsInv'
<1>0. PICK len, last : len = Len(log) /\ last = Len(events)
  OBVIOUS
<1>1. PICK upto, e :
        /\ upto \in (watch.pos + 1)..Len(log)
        /\ e = [kind |-> "changes", changes |-> SubSeq(log, watch.pos + 1, upto)]
        /\ events' = Append(events, e) /\ watch' = [watch EXCEPT !.pos = upto]
  BY DEF WatchReports
<1>2. /\ watch.state = "on" /\ last < EventCap
      /\ UNCHANGED <<store, log, stage, starts, reachable, conns, active, inactive, main, todo, job,
                     issued, pc, call, sends>>
  BY <1>0 DEF WatchReports, directory, loop, calls
<1>3. /\ len \in Nat /\ watch.pos \in Nat /\ watch.pos <= len /\ log \in Seq(Change) /\ last \in Nat
      /\ DOMAIN log = 1..len /\ DOMAIN events = 1..last /\ events \in Seq(Event) /\ EventCap \in Nat
  BY <1>0, LenProperties, SizesAssumption DEF IInv, ChangesInv, ListsInv, TypeInv
<1>4. upto \in Nat /\ watch.pos < upto /\ upto <= len
  BY <1>0, <1>1, <1>3
<1>5. watch'.state = "on" /\ watch'.pos = upto
  <2>1. watch \in [state : {"off", "on", "ended"}, pos : Nat]
    BY DEF IInv, ChangesInv
  <2> QED BY <1>1, <1>2, <1>4, <2>1
<1>6. /\ e.kind = "changes" /\ e.changes \in Seq(Change) /\ Part(e.changes, watch.pos, upto)
      /\ e \in Event
  <2>1. watch.pos + 1 \in Nat /\ \A x \in (watch.pos + 1)..upto : log[x] \in Change
    <3>1. (watch.pos + 1)..upto \subseteq 1..Len(log)
      BY <1>0, <1>3, <1>4
    <3> QED BY <1>3, <1>4, <3>1, ElementOfSeq
  <2> DEFINE s == SubSeq(log, watch.pos + 1, upto)
  <2>2. /\ s \in Seq(Change) /\ Len(s) = IF watch.pos + 1 <= upto THEN upto - (watch.pos + 1) + 1 ELSE 0
        /\ \A x \in 1..upto - (watch.pos + 1) + 1 : s[x] = log[(watch.pos + 1) + x - 1]
    BY <1>4, <2>1, SubSeqProperties
  <2>3. e.kind = "changes" /\ e.changes = s
    BY <1>1
  <2> HIDE DEF s
  <2>4. Len(s) = upto - watch.pos /\ upto - (watch.pos + 1) + 1 = upto - watch.pos
    <3>1. watch.pos + 1 <= upto
      BY <1>3, <1>4
    <3>2. Len(s) = upto - (watch.pos + 1) + 1
      BY <2>2, <3>1
    <3>3. upto - (watch.pos + 1) + 1 = upto - watch.pos
      BY <1>3, <1>4
    <3> QED BY <3>2, <3>3
  <2>5. \A x \in DOMAIN s : s[x] = log[watch.pos + x]
    <3> SUFFICES ASSUME NEW x \in DOMAIN s PROVE s[x] = log[watch.pos + x]
      OBVIOUS
    <3>1. x \in 1..upto - (watch.pos + 1) + 1 /\ x \in Nat
      BY <2>2, <2>4, LenProperties
    <3>2. (watch.pos + 1) + x - 1 = watch.pos + x
      BY <1>3, <3>1
    <3>3. s[x] = log[(watch.pos + 1) + x - 1]
      BY <2>2, <3>1
    <3> QED BY <3>2, <3>3
  <2>6. e = [kind |-> "changes", changes |-> s]
    BY <1>1 DEF s
  <2> QED BY <2>2, <2>3, <2>4, <2>5, <2>6 DEF Part, Event
<1>7. /\ events' \in Seq(Event) /\ Len(events') = last + 1 /\ DOMAIN events' = 1..(last + 1)
      /\ \A x \in 1..last : events'[x] = events[x]
      /\ events'[last + 1] = e
  <2>1. events' \in Seq(Event)
    BY <1>1, <1>3, <1>6
  <2> QED BY <1>0, <1>1, <1>3, <1>6, <2>1, AppendProperties, LenProperties
<1>8. TypeInv'
  <2>1. watch'.pos <= len /\ Len(events') <= EventCap
    BY <1>2, <1>3, <1>4, <1>5, <1>7
  <2> QED BY <1>0, <1>2, <1>7, <2>1 DEF ListsInv, TypeInv
<1>9. IssuedInv'
  BY <1>2, SameIssued DEF ListsInv
<1>10. LogInv' /\ (\A n, u : LastUpTo(n, u)' <=> LastUpTo(n, u)) /\ (\A n, a, i : Put(n, a, i)' <=> Put(n, a, i))
  BY <1>2 DEF ListsInv, LogInv, LastUpTo, Put
<1>11. \A x \in 1..(last + 1) : x \in 1..last \/ x = last + 1
  BY <1>3
<1>12. StageInv'
  BY <1>2, <1>3, <1>5, <1>6, <1>7, <1>11 DEF ListsInv, StageInv
<1>13. PICK done, ends : Work(done, ends)
  BY DEF ListsInv, WorkInv
<1>14. /\ Start' = Start /\ Enlisted' = Enlisted
       /\ (\A a, i : HasClient(a, i)' <=> HasClient(a, i))
       /\ (\A a : Overwritten(a)' <=> Overwritten(a))
  BY <1>2, <1>5 DEF Start, Enlisted, HasClient, Overwritten
<1> DEFINE more == [x \in 0..(last + 1) |-> IF x = last + 1 THEN upto ELSE ends[x]]
<1>15. /\ more \in [0..(last + 1) -> 0..len] /\ more[last + 1] = upto
       /\ \A x \in 0..last : more[x] = ends[x]
  <2>1. ends \in [0..last -> 0..len]
    BY <1>0, <1>13 DEF Work
  <2>2. upto \in 0..len /\ \A x \in 0..(last + 1) : x = last + 1 \/ x \in 0..last
    BY <1>3, <1>4
  <2>3. \A x \in 0..last : x # last + 1 /\ x \in 0..(last + 1)
    BY <1>3
  <2>4. last + 1 \in 0..(last + 1)
    BY <1>3
  <2> QED BY <2>1, <2>2, <2>3, <2>4
<1> HIDE DEF more
<1>16. Progress(done, more)'
  <2>1. /\ Start <= done /\ (stage # "run" => done = Start)
        /\ Part(todo, done, ends[0])
        /\ ends[last] = watch.pos
        /\ \A x \in DOMAIN events :
             IF events[x].kind = "changes" THEN Part(events[x].changes, ends[x - 1], ends[x])
             ELSE ends[x - 1] = ends[x]
    BY <1>0, <1>2, <1>13 DEF Work, Progress
  <2>2. 0 \in 0..last /\ last \in 0..last /\ (last + 1) - 1 = last
    BY <1>3
  <2>3. Part(todo, done, more[0])'
    BY <1>2, <1>15, <2>1, <2>2 DEF Part
  <2>4. ASSUME NEW x \in DOMAIN events'
        PROVE  IF events'[x].kind = "changes" THEN Part(events'[x].changes, more[x - 1], more[x])
               ELSE more[x - 1] = more[x]
    <3>1. CASE x = last + 1
      BY <1>6, <1>7, <1>15, <2>1, <2>2, <3>1
    <3>2. CASE x \in 1..last
      <4>1. x - 1 \in 0..last /\ x \in 0..last
        BY <1>3, <3>2
      <4> QED BY <1>3, <1>7, <1>15, <2>1, <3>2, <4>1
    <3> QED BY <1>7, <1>11, <3>1, <3>2
  <2>5. \A s, m, n : Part(s, m, n)' <=> Part(s, m, n)
    BY <1>2 DEF Part
  <2> QED BY <1>2, <1>5, <1>7, <1>14, <1>15, <2>1, <2>3, <2>4 DEF Progress, Part
<1>17. Covers(done) => Covers(done)'
  BY <1>2, <1>10, <1>14 DEF Covers
<1>18. ASSUME Sound, stage = "run" PROVE Sound'
  <2>1. main # "stuck"
    BY <1>0, <1>2, <1>3, <1>18 DEF Sound
  <2> QED BY <1>2, <1>18, <2>1 DEF Sound
<1>19. ASSUME Exact(done) PROVE Exact(done)'
  <2>1. \A k, n : StandsFor(k, n, done) => StandsFor(k, n, done)'
    BY <1>2, <1>10, <1>14 DEF StandsFor
  <2>2. \A x \in DOMAIN events' : events'[x].kind = "close" => x \in DOMAIN events /\ events'[x] = events[x]
    BY <1>3, <1>6, <1>7, <1>11
  <2> QED BY <1>2, <1>14, <1>19, <2>1, <2>2 DEF Exact
<1>20. Work(done, more)'
  BY <1>0, <1>2, <1>7, <1>13, <1>14, <1>15, <1>16, <1>17, <1>18, <1>19 DEF Work
<1> QED BY <1>8, <1>9, <1>10, <1>12, <1>20 DEF ListsInv, WorkInv, Work

\* The main loop takes the next event: changes to work off, or a closed client,
\* which after a quiet start is on no list any more.
LEMMA TakeEventKeepsLists == ASSUME IInv, ListsInv, TakeEvent PROVE ListsInv'
<1>0. PICK last, e : last = Len(events) /\ e = Head(events)
  OBVIOUS
<1>1. /\ stage = "run" /\ main = "select" /\ events # <<>> /\ events' = Tail(events)
      /\ UNCHANGED <<store, log, watch, stage, starts, reachable, conns, active, job, issued, pc, call, sends>>
      /\ IF e.kind = "changes" THEN main' = "changes" /\ todo' = e.changes /\ inactive' = inactive
         ELSE /\ UNCHANGED <<main, todo>>
              /\ LET n == FindClientIndex(active, e.addr, e.id)
                 IN inactive' = IF n = 0 THEN inactive ELSE Append(inactive, active[n])
  BY <1>0 DEF TakeEvent, Running, directory, subscription, calls
<1>2. /\ last \in Nat /\ last # 0 /\ DOMAIN events = 1..last /\ events \in Seq(Event)
      /\ active \in Seq(DOMAIN conns) /\ inactive \in Seq(DOMAIN conns)
      /\ ToSet(active) \subseteq DOMAIN conns
  <2>1. events \in Seq(Event) /\ active \in Seq(DOMAIN conns) /\ inactive \in Seq(DOMAIN conns)
    BY DEF ListsInv, TypeInv
  <2>2. ToSet(active) \subseteq DOMAIN conns
    BY EnlistedClients DEF ListsInv, Enlisted
  <2> QED BY <1>0, <1>1, <2>1, <2>2, LenProperties, EmptySeq
<1>3. /\ events' \in Seq(Event) /\ Len(events') = last - 1 /\ DOMAIN events' = 1..(last - 1)
      /\ \A x \in 1..(last - 1) : x + 1 \in 1..last /\ events'[x] = events[x + 1]
      /\ e = events[1] /\ 1 \in DOMAIN events
  BY <1>0, <1>1, <1>2
<1>4. IF e.kind = "changes" THEN e.changes \in Seq(Change) ELSE e.kind = "close" /\ e.addr \in Addrs /\ e.id \in Ids
  BY <1>3, EventTypes DEF ListsInv
<1>5. PICK done, ends : Work(done, ends)
  BY DEF ListsInv, WorkInv
<1>6. /\ inactive' \in Seq(DOMAIN conns) /\ Enlisted' = Enlisted
      /\ Start = starts.find => inactive' = inactive
  <2>1. CASE e.kind = "changes"
    BY <1>1, <1>2, <2>1 DEF Enlisted
  <2>2. CASE e.kind # "changes"
    <3>1. PICK n : n = FindClientIndex(active, e.addr, e.id)
      OBVIOUS
    <3>2. n = 0 \/ (n \in DOMAIN active /\ conns[active[n]].id = e.id)
      <4>1. e.id # NoId
        BY <1>4, <2>2, IdsAssumption
      <4> QED BY <1>2, <3>1, <4>1, FoundClient
    <3>3. CASE n = 0
      BY <1>1, <1>2, <2>2, <3>1, <3>3 DEF Enlisted
    <3>4. CASE n # 0
      <4>1. PICK k : k = active[n]
        OBVIOUS
      <4>2. inactive' = Append(inactive, k)
        BY <1>1, <2>2, <3>1, <3>4, <4>1
      <4>3. k \in ToSet(active) /\ k \in DOMAIN conns
        BY <1>2, <3>2, <3>4, <4>1 DEF ToSet
      <4>4. inactive' \in Seq(DOMAIN conns) /\ ToSet(inactive') = ToSet(inactive) \cup {k}
        BY <1>2, <4>2, <4>3, AppendedList
      <4>5. Enlisted' = Enlisted
        BY <1>1, <4>3, <4>4 DEF Enlisted
      <4>6. ASSUME Start = starts.find PROVE FALSE
        <5>1. Exact(done)
          BY <1>1, <1>5, <4>6 DEF Work
        <5>2. PICK j \in DOMAIN conns \ Enlisted : conns[j].id = e.id
          BY <1>3, <1>4, <2>2, <5>1 DEF Exact
        <5>3. conns[k].id = e.id /\ k \in Enlisted
          BY <3>2, <3>4, <4>1, <4>3 DEF Enlisted
        <5> QED BY <4>3, <5>1, <5>2, <5>3 DEF Exact
      <4> QED BY <4>4, <4>5, <4>6
    <3> QED BY <3>3, <3>4
  <2> QED BY <2>1, <2>2
<1>7. TypeInv'
  <2>1. Len(events') <= EventCap
    <3>1. last <= EventCap /\ EventCap \in Nat
      BY <1>0, SizesAssumption DEF ListsInv, TypeInv
    <3> QED BY <1>2, <1>3, <3>1
  <2>2. main' \in {"select", "changes"}
    BY <1>1
  <2> QED BY <1>1, <1>3, <1>6, <2>1, <2>2 DEF ListsInv, TypeInv
<1>8. IssuedInv'
  <2>1. main' \in {"send", "lock"} => main' = main /\ job' = job
    BY <1>1
  <2> QED BY <1>1, <2>1, SameIssued DEF ListsInv
<1>9. LogInv' /\ (\A n, u : LastUpTo(n, u)' <=> LastUpTo(n, u)) /\ (\A n, a, i : Put(n, a, i)' <=> Put(n, a, i))
  BY <1>1 DEF ListsInv, LogInv, LastUpTo, Put
<1>10. todo = <<>> /\ watch.state # "off"
  BY <1>1 DEF ListsInv, StageInv
<1>11. StageInv'
  BY <1>1, <1>10 DEF StageInv
<1>12. /\ Start' = Start
       /\ (\A a, i : HasClient(a, i)' <=> HasClient(a, i))
       /\ (\A a : Overwritten(a)' <=> Overwritten(a))
       /\ \A s, m, n : Part(s, m, n)' <=> Part(s, m, n)
  BY <1>1, <1>6 DEF Start, HasClient, Overwritten, Part
<1>13. /\ done \in 0..Len(log) /\ ends \in [0..last -> 0..Len(log)] /\ Len(log) \in Nat
       /\ Start <= done /\ (stage # "run" => done = Start)
       /\ Part(todo, done, ends[0])
       /\ ends[last] = watch.pos
       /\ \A x \in DOMAIN events :
            IF events[x].kind = "changes" THEN Part(events[x].changes, ends[x - 1], ends[x])
            ELSE ends[x - 1] = ends[x]
  BY <1>0, <1>5, <1>10 DEF Work, Progress, IInv, ChangesInv
<1>14. done = ends[0]
  <2>1. Len(todo) = 0 /\ Len(todo) = ends[0] - done
    BY <1>10, <1>13 DEF Part
  <2>2. 0 = ends[0] - done
    BY <2>1
  <2>3. done \in Nat /\ ends[0] \in Nat
    <3>1. 0 \in 0..last
      BY <1>2
    <3> QED BY <1>13, <3>1
  <2> QED BY <2>2, <2>3
<1> DEFINE less == [x \in 0..(last - 1) |-> ends[x + 1]]
<1>15. /\ less \in [0..(last - 1) -> 0..Len(log)]
       /\ \A x \in 0..(last - 1) : less[x] = ends[x + 1]
  <2>1. \A x \in 0..(last - 1) : x + 1 \in 0..last
    BY <1>2
  <2> QED BY <1>13, <2>1
<1> HIDE DEF less
<1>16. less[0] = ends[1] /\ less[last - 1] = ends[last]
  <2>1. 0 \in 0..(last - 1) /\ last - 1 \in 0..(last - 1) /\ (last - 1) + 1 = last /\ 0 + 1 = 1
    BY <1>2
  <2> QED BY <1>15, <2>1
<1>17. Progress(done, less)'
  <2>1. Part(todo', done, less[0])
    <3>1. 1 - 1 = 0
      OBVIOUS
    <3>2. CASE e.kind = "changes"
      BY <1>1, <1>3, <1>13, <1>14, <1>16, <3>1, <3>2
    <3>3. CASE e.kind # "changes"
      BY <1>1, <1>3, <1>13, <1>14, <1>16, <3>1, <3>3
    <3> QED BY <3>2, <3>3
  <2>2. ASSUME NEW x \in DOMAIN events'
        PROVE  IF events'[x].kind = "changes" THEN Part(events'[x].changes, less[x - 1], less[x])
               ELSE less[x - 1] = less[x]
    <3>1. /\ x \in 1..(last - 1) /\ x + 1 \in DOMAIN events /\ x \in 0..(last - 1) /\ x - 1 \in 0..(last - 1)
          /\ (x + 1) - 1 = x /\ (x - 1) + 1 = x
      <4>1. x \in 1..(last - 1) /\ last \in Nat /\ DOMAIN events = 1..last
        BY <1>2, <1>3
      <4> QED BY <4>1
    <3>2. less[x] = ends[x + 1] /\ less[x - 1] = ends[x] /\ events'[x] = events[x + 1]
      BY <1>3, <1>15, <3>1
    <3> QED BY <1>13, <3>1, <3>2
  <2> QED BY <1>1, <1>3, <1>10, <1>12, <1>13, <1>16, <2>1, <2>2 DEF Progress, Part
<1>18. Covers(done) => Covers(done)'
  BY <1>1, <1>9, <1>12 DEF Covers
<1>19. ASSUME Sound, Start = starts.find PROVE Sound'
  BY <1>1, <1>6, <1>19 DEF Sound
<1>20. ASSUME Exact(done) PROVE Exact(done)'
  <2>1. \A k, n : StandsFor(k, n, done) => StandsFor(k, n, done)'
    BY <1>1, <1>6, <1>9, <1>12 DEF StandsFor
  <2>2. \A x \in DOMAIN events' : x + 1 \in DOMAIN events /\ events'[x] = events[x + 1]
    BY <1>2, <1>3
  <2> QED BY <1>1, <1>6, <1>20, <2>1, <2>2 DEF Exact
<1>21. Work(done, less)'
  BY <1>1, <1>3, <1>5, <1>12, <1>13, <1>15, <1>17, <1>18, <1>19, <1>20 DEF Work
<1> QED BY <1>7, <1>8, <1>9, <1>11, <1>21 DEF ListsInv, WorkInv, Work

\* An order of a finite set has each element in one place.
LEMMA OrderedOnce ==
  ASSUME NEW S, IsFiniteSet(S), NEW order \in SetToSeqs(S)
  PROVE  /\ \A m, n \in DOMAIN order : order[m] = order[n] => m = n
         /\ \A x \in S : \E n \in DOMAIN order : order[n] = x
<1>1. Cardinality(S) \in Nat
  BY FS_CardinalityType
<1>2. order \in [1..Cardinality(S) -> S] /\ \A m, n \in 1..Cardinality(S) : m # n => order[m] # order[n]
  BY DEF SetToSeqs
<1>3. \A m, n \in 1..Cardinality(S) : m < n => order[m] # order[n]
  BY <1>1, <1>2
<1>4. Lists(order, Cardinality(S), S)
  <2>1. Distinct(order, S)
    BY <1>2, <1>3 DEF Distinct
  <2> QED BY <2>1, SortingIsOnto, Zenon
<1> QED BY <1>2, <1>4 DEF Lists

\* Find makes a client for every service in the table, and connects it if it can.
LEMMA FindKeepsLists == ASSUME IInv, ListsInv, Find PROVE ListsInv'
<1> DEFINE found == {a \in Addrs : store[a] # NoId}
<1>0. PICK len : len = Len(log)
  OBVIOUS
<1>1. PICK order \in SetToSeqs(found) :
        /\ conns' = [n \in DOMAIN order |->
                       Connect(NewTcpClient(order[n], store[order[n]]), order[n] \in reachable)]
        /\ active' = Kept([n \in DOMAIN order |-> n], {n \in DOMAIN order : order[n] \in reachable})
        /\ inactive' = Kept([n \in DOMAIN order |-> n], {n \in DOMAIN order : order[n] \notin reachable})
  BY DEF Find
<1>2. /\ stage = "find" /\ stage' = "run" /\ starts' = [starts EXCEPT !.find = len]
      /\ UNCHANGED <<store, log, watch, reachable, events, main, todo, job, issued, pc, call, sends>>
  BY <1>0 DEF Find, directory, loop, calls
<1>3. PICK D : D = DOMAIN order
  OBVIOUS
<1>4. /\ len \in Nat /\ DOMAIN log = 1..len /\ starts \in [watch : 0..len, find : 0..len]
      /\ store \in [Addrs -> Ids \cup {NoId}]
  BY <1>0, LenProperties DEF IInv, ChangesInv, ListsInv, TypeInv
<1>5. /\ \A n \in D : order[n] \in Addrs /\ store[order[n]] \in Ids /\ store[order[n]] # NoId
      /\ \A m, n \in D : order[m] = order[n] => m = n
      /\ \A a \in Addrs : store[a] # NoId => \E n \in D : order[n] = a
      /\ D = 1..Len(order) /\ Len(order) \in Nat
  <2>1. IsFiniteSet(found)
    BY DEF IInv, ChangesInv, Registered
  <2> HIDE DEF found
  <2>2. order \in Seq(found)
    BY <1>1, <2>1, Ordered
  <2>3. /\ \A m, n \in D : order[m] = order[n] => m = n
        /\ \A x \in found : \E n \in D : order[n] = x
    BY <1>1, <1>3, <2>1, OrderedOnce
  <2>4. D = 1..Len(order) /\ Len(order) \in Nat /\ \A n \in D : order[n] \in found
    BY <1>3, <2>2, LenProperties, ElementOfSeq
  <2> QED BY <1>4, <2>3, <2>4 DEF found
<1> HIDE DEF found
<1>6. /\ DOMAIN conns' = D
      /\ \A n \in D :
           /\ conns'[n].addr = order[n] /\ conns'[n].id = store[order[n]]
           /\ conns'[n].open <=> order[n] \in reachable
           /\ ~conns'[n].held /\ conns'[n].loops = IF order[n] \in reachable THEN 1 ELSE 0
  <2>1. DOMAIN conns' = D /\ \A n \in D : conns'[n] = Connect(NewTcpClient(order[n], store[order[n]]), order[n] \in reachable)
    BY <1>1, <1>3
  <2> SUFFICES ASSUME NEW n \in D
               PROVE  /\ conns'[n].addr = order[n] /\ conns'[n].id = store[order[n]]
                      /\ conns'[n].open <=> order[n] \in reachable
                      /\ ~conns'[n].held /\ conns'[n].loops = IF order[n] \in reachable THEN 1 ELSE 0
    BY <2>1
  <2> PICK a, i : a = order[n] /\ i = store[order[n]]
    OBVIOUS
  <2>2. CASE order[n] \in reachable
    <3>1. (order[n] \in reachable) = TRUE
      BY <2>2
    <3>2. PICK c : c = conns'[n]
      OBVIOUS
    <3>3. c = Connect(NewTcpClient(a, i), TRUE)
      BY <2>1, <3>1, <3>2
    <3>4. c.addr = a /\ c.id = i /\ c.open = TRUE /\ c.held = FALSE /\ c.loops = 1
      BY <3>3 DEF Connect, NewTcpClient
    <3> QED BY <2>2, <3>2, <3>4
  <2>3. CASE order[n] \notin reachable
    <3>1. (order[n] \in reachable) = FALSE
      BY <2>3
    <3>2. PICK c : c = conns'[n]
      OBVIOUS
    <3>3. c = Connect(NewTcpClient(a, i), FALSE)
      BY <2>1, <3>1, <3>2
    <3>4. c.addr = a /\ c.id = i /\ c.open = FALSE /\ c.held = FALSE /\ c.loops = 0
      BY <3>3 DEF Connect, NewTcpClient
    <3> QED BY <2>3, <3>2, <3>4
  <2> QED BY <2>2, <2>3
<1> DEFINE up == {n \in D : order[n] \in reachable}
           down == {n \in D : order[n] \notin reachable}
<1>7. /\ active' \in Seq(D) /\ inactive' \in Seq(D)
      /\ ToSet(active') = up /\ ToSet(inactive') = down
      /\ IsInjective(active') /\ IsInjective(inactive')
  <2> DEFINE all == [n \in D |-> n]
  <2>1. all \in Seq(D) /\ DOMAIN all = D /\ \A n \in D : all[n] = n
    <3>1. all \in [1..Len(order) -> D]
      BY <1>5
    <3> QED BY <1>5, <3>1, SequenceOf
  <2>2. active' = Kept(all, up) /\ inactive' = Kept(all, down)
    BY <1>1, <1>3
  <2>3. up \subseteq D /\ down \subseteq D
    OBVIOUS
  <2> HIDE DEF all, up, down
  <2>4. IsInjective(all) /\ ToSet(all) = D
    BY <2>1 DEF IsInjective, ToSet
  <2>5. /\ active' \in Seq(D) /\ ToSet(active') = D \cap up /\ IsInjective(active')
        /\ inactive' \in Seq(D) /\ ToSet(inactive') = D \cap down /\ IsInjective(inactive')
    BY <2>1, <2>2, <2>4, KeptList
  <2> QED BY <2>3, <2>5
<1>8. Enlisted' = D
  BY <1>7 DEF Enlisted
<1> HIDE DEF up, down
<1>9. starts'.watch = starts.watch /\ starts'.find = len /\ starts' \in [watch : 0..len, find : 0..len]
  BY <1>2, <1>4
<1>10. /\ main = "select" /\ starts.find = 0 /\ \A x \in DOMAIN events : events[x].kind = "changes"
       /\ todo = <<>> /\ (watch.state = "off" => events = <<>>)
  BY <1>2 DEF ListsInv, StageInv
<1>11. TypeInv'
  <2>1. TypeInv
    BY DEF ListsInv
  <2>2. watch.pos <= Len(log) /\ starts' \in [watch : 0..Len(log), find : 0..Len(log)] /\ log' = log /\ watch' = watch
    BY <1>0, <1>2, <1>9, <2>1 DEF TypeInv
  <2>3. \A k \in DOMAIN conns' : conns'[k].id \in Ids
    BY <1>5, <1>6
  <2>4. active' \in Seq(DOMAIN conns') /\ inactive' \in Seq(DOMAIN conns')
    BY <1>6, <1>7
  <2>5. /\ reachable' = reachable /\ stage' \in {"subscribe", "find", "run"}
        /\ events' = events /\ main' = "select" /\ job' = job
    BY <1>2, <1>10
  <2> QED BY <2>1, <2>2, <2>3, <2>4, <2>5 DEF TypeInv
<1>12. IssuedInv'
  BY <1>2, SameIssued DEF ListsInv
<1>13. LogInv' /\ (\A n, u : LastUpTo(n, u)' <=> LastUpTo(n, u)) /\ (\A n, a, i : Put(n, a, i)' <=> Put(n, a, i))
  BY <1>2 DEF ListsInv, LogInv, LastUpTo, Put
<1>14. StageInv'
  BY <1>2, <1>10 DEF StageInv
<1>15. PICK done, ends : Work(done, ends)
  BY DEF ListsInv, WorkInv
<1>16. /\ done \in 0..len /\ ends \in [0..Len(events) -> 0..len] /\ done = Start
       /\ Progress(done, ends)
  BY <1>0, <1>2, <1>15 DEF Work, Progress
<1>17. /\ Enlisted' = D
       /\ (\A s, m, n : Part(s, m, n)' <=> Part(s, m, n))
       /\ Start' = IF watch.state = "off" THEN len ELSE starts.watch
       /\ Start = IF watch.state = "off" THEN 0 ELSE starts.watch
  BY <1>2, <1>8, <1>9, <1>10 DEF Part, Start
<1>18. PICK from : from = Start' /\ from \in 0..len
  <2>1. len \in 0..len
    BY <1>4
  <2> QED BY <1>4, <1>17, <2>1
<1>19. PICK last : last \in [0..Len(events) -> 0..len] /\ Progress(from, last)'
  <2>1. CASE watch.state = "off"
    <3> DEFINE all == [x \in 0..0 |-> len]
    <3>1. Len(events) = 0 /\ Len(todo) = 0 /\ DOMAIN events = {} /\ DOMAIN todo = {} /\ 0..0 = {0} /\ len - len = 0
      BY <1>4, <1>10, <2>1
    <3>2. all[0] = len /\ all \in [0..Len(events) -> 0..len]
      BY <1>4, <3>1
    <3> HIDE DEF all
    <3>3. Part(todo, len, len)
      BY <3>1 DEF Part
    <3>4. from = len /\ Start' = len /\ len <= len
      BY <1>4, <1>17, <1>18, <2>1
    <3>5. Progress(from, all)'
      BY <1>2, <1>17, <2>1, <3>1, <3>2, <3>3, <3>4 DEF Progress, Part
    <3> QED BY <3>2, <3>5
  <2>2. CASE watch.state # "off"
    <3>1. Start' = Start /\ from = Start /\ done = Start /\ Start <= Start
      BY <1>16, <1>17, <1>18, <2>2
    <3>2. Progress(from, ends)'
      BY <1>2, <1>16, <1>17, <2>2, <3>1 DEF Progress, Part
    <3> QED BY <1>16, <3>2
  <2> QED BY <2>1, <2>2
<1>20. ASSUME NEW a \in Addrs, NEW i, i = store[a], i # NoId PROVE HasClient(a, i)'
  <2>1. PICK n \in D : order[n] = a
    BY <1>5, <1>20
  <2> QED BY <1>6, <1>17, <1>20, <2>1 DEF HasClient
<1>21. Covers(from)'
  <2>1. \A a \in Addrs : store'[a] # NoId => HasClient(a, store[a])'
    BY <1>2, <1>20
  <2>2. (from + 1)..from = {}
    <3>1. from \in Nat
      BY <1>4, <1>18
    <3>2. \A x \in (from + 1)..from : FALSE
      BY <3>1
    <3> QED BY <3>2
  <2>3. (Start' + 1)..from = {}
    BY <1>18, <2>2
  <2> QED BY <2>1, <2>3 DEF Covers
<1>22. Sound'
  <2>1. up \cap down = {} /\ (\A n \in up : n \in D /\ order[n] \in reachable) /\ (\A n \in down : n \in D /\ order[n] \notin reachable)
    BY DEF up, down
  <2>2. \A n \in D : conns'[n].loops <= 1 /\ (order[n] \notin reachable => conns'[n].loops = 0)
    BY <1>6
  <2>3. main' = "select"
    BY <1>2, <1>10
  <2> QED BY <1>6, <1>7, <2>1, <2>2, <2>3 DEF Sound
<1>23. Exact(len)'
  <2>1. \A n \in D : \E x \in 1..len : Put(x, order[n], store[order[n]]) /\ LastUpTo(x, len)
    BY <1>0, <1>4, <1>5 DEF ListsInv, LogInv
  <2>2. \A m, n \in D : store[order[m]] = store[order[n]] => m = n
    <3> SUFFICES ASSUME NEW m \in D, NEW n \in D, store[order[m]] = store[order[n]] PROVE m = n
      OBVIOUS
    <3>1. PICK x \in 1..len : Put(x, order[m], store[order[m]])
      BY <2>1
    <3>2. PICK y \in 1..len : Put(y, order[n], store[order[n]])
      BY <2>1
    <3>3. x = y
      BY <1>4, <3>1, <3>2 DEF ListsInv, LogInv, Put
    <3> QED BY <1>5, <3>1, <3>2, <3>3 DEF Put
  <2>3. ASSUME NEW k \in D PROVE \E x \in 1..len : StandsFor(k, x, len)'
    <3>1. PICK x \in 1..len : Put(x, order[k], store[order[k]]) /\ LastUpTo(x, len)
      BY <2>1
    <3>2. Put(x, order[k], store[order[k]])' /\ LastUpTo(x, len)'
      BY <1>2, <3>1 DEF Put, LastUpTo
    <3>3. Put(x, conns[k].addr, conns[k].id)'
      BY <1>2, <1>6, <3>1 DEF Put
    <3>4. StandsFor(k, x, len)'
      BY <3>2, <3>3 DEF StandsFor
    <3> QED BY <3>4
  <2> QED BY <1>2, <1>6, <1>10, <2>2, <2>3 DEF Exact
<1>24. Work(from, last)'
  <2>1. Start' = starts'.find => from = len
    BY <1>9, <1>18
  <2> QED BY <1>0, <1>2, <1>18, <1>19, <1>21, <1>22, <1>23, <2>1 DEF Work
<1> QED BY <1>11, <1>12, <1>13, <1>14, <1>24 DEF ListsInv, WorkInv, Work

\* The timer: who can be connected is, and moves to the active list; nobody is
\* on the lists who was not there before.
LEMMA RetryClientConnectKeepsLists == ASSUME IInv, ListsInv, RetryClientConnect PROVE ListsInv'
<1>0. PICK D, held, up :
        /\ D = DOMAIN conns
        /\ held = SelectInSeq(inactive, LAMBDA k : conns[k].held)
        /\ up = {k \in DOMAIN conns : ConnectSucceeds(conns[k], conns[k].addr \in reachable)}
  OBVIOUS
<1>1. /\ stage = "run" /\ main = "select"
      /\ UNCHANGED <<store, log, watch, stage, starts, reachable, events, todo, job, issued, pc, call, sends>>
  BY DEF RetryClientConnect, Running, directory, subscription, calls
<1>2. /\ active \in Seq(D) /\ inactive \in Seq(D) /\ D \in SUBSET Nat
      /\ \A k \in D : conns[k] \in Client /\ conns[k].addr \in Nat
  <2>1. conns \in Seq(Client)
    BY DEF IInv, ClientsInv
  <2>2. \A k \in D : conns[k] \in Client
    BY <1>0, <2>1, ElementOfSeq, LenProperties
  <2>3. D \in SUBSET Nat
    BY <1>0, <2>1
  <2> QED BY <1>0, <2>2, <2>3, AddrsAssumption DEF ListsInv, TypeInv, Client
<1>3. held = 0 \/ (held \in DOMAIN inactive /\ conns[inactive[held]].held)
  BY <1>0, <1>2, NobodyHeld
<1>4. PICK tried, rest, joined :
        /\ tried \in Seq(D) /\ rest \in Seq(D) /\ ToSet(inactive) = ToSet(tried) \cup ToSet(rest)
        /\ held = 0 => tried = inactive /\ rest = <<>>
        /\ joined = active \o Kept(tried, up)
        /\ conns' = [k \in D |-> IF \E n \in DOMAIN tried : tried[n] = k
                                 THEN Connect(conns[k], conns[k].addr \in reachable) ELSE conns[k]]
        /\ inactive' = Kept(tried, D \ up) \o rest
        /\ IF held = 0 THEN active' = InOrder[joined] /\ main' = "select"
           ELSE active' = joined /\ main' = "stuck"
  <2> DEFINE tried == IF held = 0 THEN inactive ELSE SubSeq(inactive, 1, held - 1)
             rest == SubSeq(inactive, Len(tried) + 1, Len(inactive))
             joined == active \o Kept(tried, up)
  <2>1. /\ conns' = [k \in D |-> IF \E n \in DOMAIN tried : tried[n] = k
                                 THEN Connect(conns[k], conns[k].addr \in reachable) ELSE conns[k]]
        /\ inactive' = Kept(tried, D \ up) \o rest
        /\ IF held = 0 THEN active' = InOrder[joined] /\ main' = "select"
           ELSE active' = joined /\ main' = "stuck"
    BY <1>0 DEF RetryClientConnect
  <2>2. Len(inactive) \in Nat /\ DOMAIN inactive = 1..Len(inactive)
    BY <1>2, LenProperties
  <2>3. CASE held = 0
    <3>1. tried = inactive /\ rest = SubSeq(inactive, Len(inactive) + 1, Len(inactive))
      BY <2>3
    <3>2. rest = <<>>
      <4>1. Len(inactive) + 1 \in Int /\ Len(inactive) \in Int /\ Len(inactive) < Len(inactive) + 1
        BY <2>2
      <4>2. SubSeq(inactive, Len(inactive) + 1, Len(inactive)) = <<>>
        BY <4>1, SubSeqEmpty
      <4> QED BY <3>1, <4>2
    <3>3. ToSet(<<>>) = {} /\ <<>> \in Seq(D)
      BY DEF ToSet
    <3> HIDE DEF tried, rest
    <3>4. ToSet(inactive) = ToSet(tried) \cup ToSet(rest)
      BY <3>1, <3>2, <3>3
    <3> QED BY <1>2, <2>1, <3>1, <3>2, <3>3, <3>4
  <2>4. CASE held # 0
    <3>1. held - 1 \in 0..Len(inactive) /\ (held - 1) + 1 = held
      BY <1>3, <2>2, <2>4
    <3>2. tried = SubSeq(inactive, 1, held - 1)
      BY <2>4
    <3>3. Len(tried) = held - 1
      BY <1>2, <3>1, <3>2, CutList
    <3>4. rest = SubSeq(inactive, (held - 1) + 1, Len(inactive))
      BY <3>3
    <3> HIDE DEF tried, rest
    <3>5. tried \in Seq(D) /\ rest \in Seq(D) /\ ToSet(inactive) = ToSet(tried) \cup ToSet(rest)
      BY <1>2, <3>1, <3>2, <3>4, CutList
    <3> QED BY <2>1, <2>4, <3>5
  <2> QED BY <2>3, <2>4
<1>5. /\ joined \in Seq(D) /\ ToSet(joined) = ToSet(active) \cup (ToSet(tried) \cap up)
      /\ IsInjective(active) /\ IsInjective(tried) /\ ToSet(active) \cap ToSet(tried) = {} => IsInjective(joined)
  <2>1. /\ Kept(tried, up) \in Seq(D) /\ ToSet(Kept(tried, up)) = ToSet(tried) \cap up
        /\ IsInjective(tried) => IsInjective(Kept(tried, up))
    BY <1>4, KeptList
  <2>2. PICK kept : kept = Kept(tried, up)
    OBVIOUS
  <2>3. /\ joined \in Seq(D) /\ ToSet(joined) = ToSet(active) \cup ToSet(kept)
        /\ IsInjective(active) /\ IsInjective(kept) /\ ToSet(active) \cap ToSet(kept) = {} => IsInjective(joined)
    BY <1>2, <1>4, <2>1, <2>2, JoinedList
  <2> QED BY <2>1, <2>2, <2>3
<1>6. /\ active' \in Seq(D) /\ ToSet(active') = ToSet(joined)
      /\ held = 0 /\ IsInjective(joined) => IsInjective(active')
  <2>1. /\ InOrder[joined] \in Seq(D) /\ ToSet(InOrder[joined]) = ToSet(joined)
        /\ IsInjective(joined) => IsInjective(InOrder[joined])
    BY <1>2, <1>5, InOrderList
  <2> QED BY <1>4, <1>5, <2>1
<1>7. /\ inactive' \in Seq(D) /\ ToSet(inactive') = (ToSet(tried) \ up) \cup ToSet(rest)
      /\ held = 0 /\ IsInjective(inactive) => IsInjective(inactive')
  <2>1. PICK kept, down : kept = Kept(tried, down) /\ down = D \ up
    OBVIOUS
  <2>2. /\ kept \in Seq(D) /\ ToSet(kept) = ToSet(tried) \cap down
        /\ IsInjective(tried) => IsInjective(kept)
    BY <1>4, <2>1, KeptList
  <2>3. inactive' = kept \o rest
    BY <1>4, <2>1
  <2>4. /\ inactive' \in Seq(D) /\ ToSet(inactive') = ToSet(kept) \cup ToSet(rest)
        /\ IsInjective(kept) /\ IsInjective(rest) /\ ToSet(kept) \cap ToSet(rest) = {} => IsInjective(inactive')
    <3>1. rest \in Seq(D) /\ kept \in Seq(D)
      BY <1>4, <2>2
    <3>2. /\ kept \o rest \in Seq(D) /\ ToSet(kept \o rest) = ToSet(kept) \cup ToSet(rest)
          /\ IsInjective(kept) /\ IsInjective(rest) /\ ToSet(kept) \cap ToSet(rest) = {} => IsInjective(kept \o rest)
      BY <3>1, JoinedList
    <3> QED BY <2>3, <3>2
  <2>5. ToSet(tried) \subseteq D
    BY <1>4 DEF ToSet
  <2>6. IsInjective(<<>>) /\ ToSet(<<>>) = {}
    BY DEF IsInjective, ToSet
  <2>7. ToSet(inactive') = (ToSet(tried) \ up) \cup ToSet(rest)
    BY <2>1, <2>2, <2>4, <2>5
  <2>8. ASSUME held = 0, IsInjective(inactive) PROVE IsInjective(inactive')
    BY <1>4, <2>2, <2>4, <2>6, <2>8
  <2> QED BY <2>4, <2>7, <2>8
<1>8. Enlisted' = Enlisted
  BY <1>4, <1>5, <1>6, <1>7 DEF Enlisted
<1>9. /\ DOMAIN conns' = D
      /\ \A k \in D :
           /\ conns'[k].addr = conns[k].addr /\ conns'[k].id = conns[k].id
           /\ conns'[k].held = conns[k].held
           /\ k \notin ToSet(tried) \/ k \notin up => conns'[k] = conns[k]
           /\ k \in ToSet(tried) \cap up =>
                conns'[k].open /\ (~conns[k].open => conns'[k].loops = conns[k].loops + 1)
  <2>1. DOMAIN conns' = D
    BY <1>4
  <2> SUFFICES ASSUME NEW k \in D
      PROVE  /\ conns'[k].addr = conns[k].addr /\ conns'[k].id = conns[k].id
             /\ conns'[k].held = conns[k].held
             /\ k \notin ToSet(tried) \/ k \notin up => conns'[k] = conns[k]
             /\ k \in ToSet(tried) \cap up =>
                  conns'[k].open /\ (~conns[k].open => conns'[k].loops = conns[k].loops + 1)
    BY <2>1
  <2>2. k \in up <=> (conns[k].open \/ conns[k].addr \in reachable)
    BY <1>0 DEF ConnectSucceeds
  <2>3. CASE k \notin ToSet(tried) \/ k \notin up
    <3>1. conns'[k] = conns[k]
      <4>1. CASE k \notin ToSet(tried)
        <5>1. ~\E n \in DOMAIN tried : tried[n] = k
          BY <4>1 DEF ToSet
        <5> QED BY <1>4, <5>1
      <4>2. CASE k \notin up
        BY <1>4, <2>2, <4>2 DEF Connect
      <4> QED BY <2>3, <4>1, <4>2
    <3> QED BY <2>3, <3>1
  <2>4. CASE k \in ToSet(tried) \cap up
    <3>1. \E n \in DOMAIN tried : tried[n] = k
      BY <2>4 DEF ToSet
    <3>2. conns'[k] = IF conns[k].open \/ conns[k].addr \notin reachable THEN conns[k]
                      ELSE [conns[k] EXCEPT !.open = TRUE, !.queue = <<>>, !.loops = conns[k].loops + 1]
      BY <1>4, <3>1 DEF Connect
    <3>3. CASE conns[k].open
      BY <2>4, <3>2, <3>3
    <3>4. CASE ~conns[k].open
      <4>1. conns'[k] = [conns[k] EXCEPT !.open = TRUE, !.queue = <<>>, !.loops = conns[k].loops + 1]
        BY <2>2, <2>4, <3>2, <3>4
      <4>2. conns[k] \in Client
        BY <1>2
      <4> QED BY <2>4, <3>4, <4>1, <4>2 DEF Client
    <3> QED BY <3>3, <3>4
  <2> QED BY <2>3, <2>4
<1>10. main' \in {"select", "stuck"}
  BY <1>4
<1>11. TypeInv'
  BY <1>0, <1>1, <1>6, <1>7, <1>9, <1>10 DEF ListsInv, TypeInv
<1>12. IssuedInv'
  BY <1>1, <1>10, SameIssued DEF ListsInv
<1>13. LogInv' /\ (\A n, u : LastUpTo(n, u)' <=> LastUpTo(n, u)) /\ (\A n, a, i : Put(n, a, i)' <=> Put(n, a, i))
  BY <1>1 DEF ListsInv, LogInv, LastUpTo, Put
<1>14. StageInv'
  BY <1>1, <1>10 DEF ListsInv, StageInv
<1>15. PICK done, ends : Work(done, ends)
  BY DEF ListsInv, WorkInv
<1>16. Enlisted \subseteq D
  BY <1>0, EnlistedClients DEF ListsInv
<1>17. /\ Start' = Start
       /\ (\A a, i : HasClient(a, i)' <=> HasClient(a, i))
       /\ (\A a : Overwritten(a)' <=> Overwritten(a))
       /\ \A s, m, n : Part(s, m, n)' <=> Part(s, m, n)
  BY <1>1, <1>8, <1>9, <1>16 DEF Start, HasClient, Overwritten, Part
<1>18. Progress(done, ends)'
  BY <1>1, <1>15, <1>17 DEF Work, Progress, Part
<1>19. Covers(done) => Covers(done)'
  BY <1>1, <1>13, <1>17 DEF Covers
<1>20. ASSUME Sound PROVE Sound' /\ main' = "select"
  <2>1. /\ IsInjective(active) /\ IsInjective(inactive) /\ ToSet(active) \cap ToSet(inactive) = {}
        /\ \A k \in D : conns[k].loops <= 1 /\ ~conns[k].held
        /\ \A k \in ToSet(active) : conns[k].open
        /\ \A k \in ToSet(inactive) : ~conns[k].open /\ conns[k].loops = 0
    BY <1>0, <1>1, <1>20 DEF Sound
  <2>2. held = 0
    <3>1. \A n \in DOMAIN inactive : inactive[n] \in D
      BY <1>2
    <3> QED BY <1>3, <2>1, <3>1
  <2>3. /\ tried = inactive /\ main' = "select" /\ ToSet(rest) = {}
    <3>1. ToSet(<<>>) = {}
      BY DEF ToSet
    <3> QED BY <1>4, <2>2, <3>1
  <2>4. ToSet(active') = ToSet(active) \cup (ToSet(inactive) \cap up) /\ ToSet(inactive') = ToSet(inactive) \ up
    BY <1>5, <1>6, <1>7, <2>3
  <2>5. IsInjective(active') /\ IsInjective(inactive') /\ ToSet(active') \cap ToSet(inactive') = {}
    BY <1>5, <1>6, <1>7, <2>1, <2>2, <2>3, <2>4
  <2>6. ToSet(active) \subseteq D /\ ToSet(inactive) \subseteq D
    BY <1>16 DEF Enlisted
  <2>7. ASSUME NEW k \in D PROVE conns'[k].loops <= 1 /\ ~conns'[k].held
    <3>1. CASE k \in ToSet(inactive) \cap up
      <4>1. conns'[k].loops = conns[k].loops + 1 /\ conns[k].loops = 0
        BY <1>9, <2>1, <2>3, <3>1
      <4>2. conns'[k].loops <= 1
        BY <4>1
      <4> QED BY <1>9, <2>1, <2>7, <4>2
    <3>2. CASE k \notin ToSet(inactive) \cap up
      BY <1>9, <2>1, <2>3, <2>7, <3>2
    <3> QED BY <3>1, <3>2
  <2>8. \A k \in ToSet(active') : conns'[k].open
    BY <1>9, <2>1, <2>3, <2>4, <2>6
  <2>9. \A k \in ToSet(inactive') : ~conns'[k].open /\ conns'[k].loops = 0
    BY <1>9, <2>1, <2>3, <2>4, <2>6
  <2> QED BY <1>9, <2>3, <2>5, <2>7, <2>8, <2>9 DEF Sound
<1>21. ASSUME Exact(done), main' = "select" PROVE Exact(done)'
  <2>1. \A k \in D : \A n : StandsFor(k, n, done) => StandsFor(k, n, done)'
    BY <1>1, <1>8, <1>9, <1>13, <1>17, <1>21 DEF StandsFor
  <2> QED BY <1>0, <1>1, <1>8, <1>9, <1>21, <2>1 DEF Exact
<1>22. Work(done, ends)'
  BY <1>1, <1>15, <1>17, <1>18, <1>19, <1>20, <1>21 DEF Work
<1> QED BY <1>11, <1>12, <1>13, <1>14, <1>22 DEF ListsInv, WorkInv, Work

\* What is known of change n stays known when one more change has come.
LEMMA LastUpToNext ==
  ASSUME NEW done \in Nat, NEW n \in 1..done
  PROVE  LastUpTo(n, done + 1) <=> LastUpTo(n, done) /\ log[done + 1].addr # log[n].addr
<1>1. (n + 1)..(done + 1) = ((n + 1)..done) \cup {done + 1}
  OBVIOUS
<1> QED BY <1>1 DEF LastUpTo

\* A put: a service that no client at the address stands for gets one, which
\* waits to be connected.
LEMMA PutKeepsSound ==
  ASSUME IInv, ListsInv, NEW done \in Nat, done + 1 \in DOMAIN log,
         NEW a \in Addrs, NEW i \in Ids, Put(done + 1, a, i), DoPut(a, i),
         main = "changes", main' \in {"select", "changes"}, UNCHANGED log
  PROVE  /\ active' \in Seq(DOMAIN conns') /\ inactive' \in Seq(DOMAIN conns')
         /\ \A k \in DOMAIN conns' : conns'[k].id \in Ids
         /\ HasClient(a, i)' /\ \A b, j : HasClient(b, j) => HasClient(b, j)'
         /\ Sound /\ Exact(done) => Sound' /\ Exact(done + 1)'
<1>0. PICK D, new, next : D = DOMAIN conns /\ new = Len(conns) + 1 /\ next = done + 1
  OBVIOUS
<1>1. /\ D \in SUBSET Nat /\ new \notin D /\ active \in Seq(D) /\ inactive \in Seq(D)
      /\ \A k \in D : conns[k].id \in Ids
      /\ i # NoId
  <2>1. conns \in Seq(Client)
    BY DEF IInv, ClientsInv
  <2>2. Len(conns) \in Nat /\ D = 1..Len(conns)
    BY <1>0, <2>1
  <2> QED BY <1>0, <2>2, IdsAssumption DEF ListsInv, TypeInv
<1>2. Enlisted \subseteq D /\ ToSet(active) \subseteq D /\ ToSet(inactive) \subseteq D
  BY <1>0, EnlistedClients DEF ListsInv, Enlisted
<1>3. next \in 1..next /\ \A n \in 1..done : n \in 1..next /\ n # next
  BY <1>0
<1>4. /\ Put(next, a, i) /\ log[next].addr = a
      /\ \A n, b, j : Put(n, b, j)' <=> Put(n, b, j)
      /\ \A n, u : LastUpTo(n, u)' <=> LastUpTo(n, u)
      /\ \A b : Overwritten(b)' <=> Overwritten(b)
  BY <1>0 DEF Put, LastUpTo, Overwritten
<1>5. ASSUME Exact(done), NEW k \in D PROVE conns[k].id # i
  <2>1. PICK n \in 1..done : Put(n, conns[k].addr, conns[k].id)
    BY <1>0, <1>5 DEF Exact, StandsFor
  <2>2. \A m \in DOMAIN log, n1 \in DOMAIN log : \A b, c, j : Put(m, b, j) /\ Put(n1, c, j) => m = n1
    BY DEF ListsInv, LogInv, Put
  <2>3. n \in DOMAIN log
    <3>1. Len(log) \in Nat /\ DOMAIN log = 1..Len(log)
      BY LenProperties DEF IInv, ChangesInv
    <3> QED BY <2>1, <3>1
  <2> QED BY <1>0, <1>3, <1>4, <2>1, <2>2, <2>3
<1>6. CASE Known(a, i)
  <2>1. UNCHANGED <<conns, active, inactive, events>>
    BY <1>6 DEF DoPut
  <2>2. PICK k \in Enlisted : conns[k].addr = a /\ conns[k].id = i
    <3>1. ASSUME NEW list \in Seq(D), FindClientIndex(list, a, i) # 0
          PROVE  \E k \in ToSet(list) : conns[k].addr = a /\ conns[k].id = i
      <4>1. PICK n \in DOMAIN list : conns[list[n]].addr = a /\ conns[list[n]].id = i
        <5>1. PICK n : n = FindClientIndex(list, a, i)
          OBVIOUS
        <5>2. n \in DOMAIN list /\ conns[list[n]].addr = a /\ conns[list[n]].id = i
          BY <1>1, <3>1, <5>1, FoundClient
        <5> QED BY <5>2
      <4> QED BY <4>1 DEF ToSet
    <3> QED BY <1>1, <1>6, <3>1 DEF Known, Enlisted
  <2>3. HasClient(a, i)
    BY <2>2 DEF HasClient
  <2>4. \A b, j : HasClient(b, j)' <=> HasClient(b, j)
    BY <2>1 DEF HasClient, Enlisted
  <2>5. ~Exact(done)
    BY <1>2, <1>5, <2>2
  <2> QED BY <1>0, <1>1, <2>1, <2>3, <2>4, <2>5
<1>7. CASE ~Known(a, i)
  <2>1. /\ conns' = Append(conns, NewTcpClient(a, i)) /\ inactive' = Append(inactive, new)
        /\ UNCHANGED <<active, events>>
    BY <1>0, <1>7 DEF DoPut
  <2>2. /\ DOMAIN conns' = D \cup {new} /\ \A k \in D : conns'[k] = conns[k]
        /\ conns'[new] = NewTcpClient(a, i)
    <3>1. conns \in Seq(Client) /\ NewTcpClient(a, i) \in Client
      BY NewCarriesNothing DEF IInv, ClientsInv
    <3> QED BY <1>0, <2>1, <3>1
  <2>3. /\ conns'[new].addr = a /\ conns'[new].id = i /\ conns'[new].open = FALSE
        /\ conns'[new].held = FALSE /\ conns'[new].loops = 0
    BY <2>2 DEF NewTcpClient
  <2>4. /\ inactive' \in Seq(D \cup {new}) /\ active \in Seq(D \cup {new})
        /\ ToSet(inactive') = ToSet(inactive) \cup {new}
        /\ IsInjective(inactive) => IsInjective(inactive')
    <3>1. PICK S : S = D \cup {new}
      OBVIOUS
    <3>2. active \in Seq(S) /\ inactive \in Seq(S) /\ new \in S
      BY <1>1, <3>1
    <3>3. new \notin ToSet(inactive)
      BY <1>1, <1>2
    <3> QED BY <2>1, <3>1, <3>2, <3>3, AppendedList
  <2>5. Enlisted' = Enlisted \cup {new}
    BY <2>1, <2>4 DEF Enlisted
  <2>6. HasClient(a, i)' /\ \A b, j : HasClient(b, j) => HasClient(b, j)'
    BY <1>2, <2>2, <2>3, <2>5 DEF HasClient
  <2>7. \A k \in DOMAIN conns' : conns'[k].id \in Ids
    BY <1>1, <2>2, <2>3
  <2>8. ASSUME Sound PROVE Sound'
    <3>1. /\ IsInjective(active) /\ IsInjective(inactive) /\ ToSet(active) \cap ToSet(inactive) = {}
          /\ \A k \in D : conns[k].loops <= 1 /\ ~conns[k].held
          /\ \A k \in ToSet(active) : conns[k].open
          /\ \A k \in ToSet(inactive) : ~conns[k].open /\ conns[k].loops = 0
      BY <1>0, <2>8 DEF Sound
    <3>2. \A k \in DOMAIN conns' : conns'[k].loops <= 1 /\ ~conns'[k].held
      BY <2>2, <2>3, <3>1
    <3>3. \A k \in ToSet(active') : conns'[k].open
      BY <1>2, <2>1, <2>2, <3>1
    <3>4. \A k \in ToSet(inactive') : ~conns'[k].open /\ conns'[k].loops = 0
      BY <1>2, <2>2, <2>3, <2>4, <3>1
    <3>5. IsInjective(active') /\ IsInjective(inactive') /\ ToSet(active') \cap ToSet(inactive') = {}
      BY <1>1, <1>2, <2>1, <2>4, <3>1
    <3> QED BY <3>2, <3>3, <3>4, <3>5 DEF Sound
  <2>9. ASSUME Exact(done) PROVE Exact(next)'
    <3>1. \A j, k \in DOMAIN conns' : conns'[j].id = conns'[k].id => j = k
      BY <1>0, <1>5, <2>2, <2>3, <2>9 DEF Exact
    <3>2. ASSUME NEW k \in D PROVE \E n \in 1..next : StandsFor(k, n, next)'
      <4>1. PICK n \in 1..done : StandsFor(k, n, done)
        BY <1>0, <2>9, <3>2 DEF Exact
      <4>2. Put(n, conns'[k].addr, conns'[k].id)
        BY <2>2, <3>2, <4>1 DEF StandsFor
      <4>3. ASSUME k \in Enlisted', ~Overwritten(conns'[k].addr) PROVE LastUpTo(n, next)
        <5>1. LastUpTo(n, done)
          <6>1. k \in Enlisted
            BY <1>1, <2>5, <3>2, <4>3
          <6> QED BY <2>2, <3>2, <4>1, <4>3, <6>1 DEF StandsFor
        <5>2. conns'[k].addr # a
          <6> SUFFICES ASSUME conns'[k].addr = a PROVE Overwritten(a)
            BY <4>3
          <6>1. n \in DOMAIN log /\ next \in DOMAIN log /\ n < next /\ next - 1 = done
            <7>1. Len(log) \in Nat /\ DOMAIN log = 1..Len(log)
              BY LenProperties DEF IInv, ChangesInv
            <7> QED BY <1>0, <7>1
          <6>2. \A x \in (n + 1)..(next - 1) : log[x].addr # a
            BY <4>2, <5>1, <6>1 DEF LastUpTo, Put
          <6>3. log[n].op = "put" /\ log[n].addr = a /\ log[next].op = "put" /\ log[next].addr = a
            BY <1>4, <4>2 DEF Put
          <6> QED BY <6>1, <6>2, <6>3 DEF Overwritten
        <5>3. log[done + 1].addr # log[n].addr
          BY <1>0, <1>4, <4>2, <5>2 DEF Put
        <5> QED BY <1>0, <5>1, <5>3, LastUpToNext
      <4>4. StandsFor(k, n, next)'
        BY <1>4, <4>2, <4>3 DEF StandsFor, Put
      <4> QED BY <1>3, <4>4
    <3>3. StandsFor(new, next, next)'
      <4>1. LastUpTo(next, next)
        <5>1. \A x \in (next + 1)..next : FALSE
          BY <1>0
        <5> QED BY <5>1 DEF LastUpTo
      <4> QED BY <1>4, <2>3, <4>1 DEF StandsFor, Put
    <3>4. ASSUME NEW x \in DOMAIN events, events[x].kind = "close"
          PROVE  \E k \in DOMAIN conns' \ Enlisted' : conns'[k].id = events[x].id
      <4>1. PICK k \in D \ Enlisted : conns[k].id = events[x].id
        BY <1>0, <2>9, <3>4 DEF Exact
      <4>2. k \in DOMAIN conns' \ Enlisted' /\ conns'[k] = conns[k]
        BY <1>1, <2>2, <2>5, <4>1
      <4> QED BY <4>1, <4>2
    <3> QED BY <1>3, <2>1, <2>2, <3>1, <3>2, <3>3, <3>4, SMTT(20) DEF Exact
  <2> QED BY <1>0, <2>1, <2>2, <2>4, <2>6, <2>7, <2>8, <2>9
<1> QED BY <1>6, <1>7

\* Closing a client changes neither its address nor its id.
LEMMA ClosedClient ==
  ASSUME NEW c \in Client
  PROVE  /\ Close(c).addr = c.addr /\ Close(c).id = c.id
         /\ c.open => ~Close(c).open /\ Close(c).held = c.held /\ Close(c).loops = c.loops
BY DEF Close, Client

\* Where no key was written over another there is one listed client at most.
LEMMA OneAtAddress ==
  ASSUME IInv, ListsInv, NEW done \in 0..Len(log), Sound, Exact(done), main # "stuck",
         NEW j \in Enlisted, NEW k \in Enlisted,
         conns[j].addr = conns[k].addr, ~Overwritten(conns[k].addr)
  PROVE  j = k
<1>0. PICK len : len = Len(log) /\ len \in Nat /\ DOMAIN log = 1..len
  BY LenProperties DEF IInv, ChangesInv
<1>1. j \in DOMAIN conns /\ k \in DOMAIN conns
  BY EnlistedClients DEF ListsInv
<1>2. PICK m \in 1..done : Put(m, conns[j].addr, conns[j].id) /\ LastUpTo(m, done)
  BY <1>1 DEF Exact, StandsFor
<1>3. PICK n \in 1..done : Put(n, conns[k].addr, conns[k].id) /\ LastUpTo(n, done)
  BY <1>1 DEF Exact, StandsFor
<1>4. ~(m < n) /\ ~(n < m)
  <2>1. done \in Nat
    BY <1>0
  <2>2. (m < n => n \in (m + 1)..done) /\ (n < m => m \in (n + 1)..done)
    BY <2>1
  <2> QED BY <1>2, <1>3, <2>2 DEF LastUpTo, Put
<1>5. m = n
  <2>1. m \in Nat /\ n \in Nat
    BY <1>0
  <2> QED BY <1>4, <2>1
<1>6. conns[j].id = conns[k].id
  BY <1>2, <1>3, <1>5 DEF Put
<1> QED BY <1>1, <1>6 DEF Exact

\* What a deletion leaves: nobody new is listed, and at its address nobody is
\* left, if no key was written over there.
LEMMA ExactAfterDeletion ==
  ASSUME IInv, ListsInv, NEW done \in 0..Len(log), done + 1 \in DOMAIN log, Exact(done),
         log[done + 1].op = "del", UNCHANGED log,
         DOMAIN conns' = DOMAIN conns, Enlisted' \subseteq Enlisted,
         \A k \in DOMAIN conns : conns'[k].addr = conns[k].addr /\ conns'[k].id = conns[k].id,
         main # "stuck",
         main' # "stuck" /\ ~Overwritten(log[done + 1].addr) =>
           \A k \in Enlisted' : conns[k].addr # log[done + 1].addr,
         \A x \in DOMAIN events' : events'[x].kind = "close" =>
           \/ x \in DOMAIN events /\ events'[x] = events[x]
           \/ \E k \in DOMAIN conns \ Enlisted' : conns[k].id = events'[x].id
  PROVE  Exact(done + 1)'
<1>0. PICK next : next = done + 1
  OBVIOUS
<1>1. /\ done \in Nat /\ Enlisted \subseteq DOMAIN conns
      /\ \A n \in 1..done : n \in 1..next
  <2>1. Len(log) \in Nat
    BY DEF IInv, ChangesInv
  <2> QED BY <1>0, <2>1, EnlistedClients DEF ListsInv
<1>2. /\ \A n, b, j : Put(n, b, j)' <=> Put(n, b, j)
      /\ \A n, u : LastUpTo(n, u)' <=> LastUpTo(n, u)
      /\ \A b : Overwritten(b)' <=> Overwritten(b)
  BY DEF Put, LastUpTo, Overwritten
<1>3. ASSUME NEW k \in DOMAIN conns PROVE \E n \in 1..next : StandsFor(k, n, next)'
  <2>1. PICK n \in 1..done : StandsFor(k, n, done)
    BY <1>3 DEF Exact
  <2>2. ASSUME main' # "stuck", k \in Enlisted', ~Overwritten(conns[k].addr) PROVE LastUpTo(n, next)
    <3>1. LastUpTo(n, done) /\ log[n].addr = conns[k].addr
      BY <2>1, <2>2 DEF StandsFor, Put
    <3>2. log[done + 1].addr # log[n].addr
      BY <2>2, <3>1
    <3> QED BY <1>0, <1>1, <3>1, <3>2, LastUpToNext
  <2>3. StandsFor(k, n, next)'
    BY <1>2, <1>3, <2>1, <2>2 DEF StandsFor
  <2> QED BY <1>1, <2>3
<1>4. ASSUME NEW x \in DOMAIN events', events'[x].kind = "close"
      PROVE  \E k \in DOMAIN conns' \ Enlisted' : conns'[k].id = events'[x].id
  <2>1. CASE x \in DOMAIN events /\ events'[x] = events[x]
    <3>1. PICK k \in DOMAIN conns \ Enlisted : conns[k].id = events'[x].id
      BY <1>4, <2>1 DEF Exact
    <3>2. k \in DOMAIN conns' \ Enlisted' /\ conns'[k].id = conns[k].id
      BY <3>1
    <3> QED BY <3>1, <3>2
  <2>2. CASE \E k \in DOMAIN conns \ Enlisted' : conns[k].id = events'[x].id
    BY <2>2
  <2> QED BY <1>4, <2>1, <2>2
<1>5. \A j, k \in DOMAIN conns' : conns'[j].id = conns'[k].id => j = k
  BY DEF Exact
<1> QED BY <1>0, <1>3, <1>4, <1>5 DEF Exact

\* A deletion: the first client at the address leaves its list.
LEMMA RemoveKeepsSound ==
  ASSUME IInv, ListsInv, NEW done \in 0..Len(log), done + 1 \in DOMAIN log,
         NEW a \in Addrs, log[done + 1].op = "del", log[done + 1].addr = a,
         NEW then \in {"select", "changes"}, DoClientRemove(a, NoId, then),
         main = "changes", UNCHANGED log
  PROVE  /\ DOMAIN conns' = DOMAIN conns /\ \A k \in DOMAIN conns : conns'[k].id = conns[k].id
         /\ active' \in Seq(DOMAIN conns) /\ inactive' \in Seq(DOMAIN conns)
         /\ \/ events' = events
            \/ \E k \in DOMAIN conns : events' = Append(events, Closing(k)) /\ Len(events) < EventCap
         /\ main' \in {then, "stuck"}
         /\ \A b, j : b # a /\ HasClient(b, j) => HasClient(b, j)'
         /\ Sound /\ Exact(done) => Sound' /\ Exact(done + 1)'
<1>0. PICK D, n, m : /\ D = DOMAIN conns
                     /\ n = FindClientIndex(active, a, NoId)
                     /\ m = FindClientIndex(inactive, a, NoId)
  OBVIOUS
<1>1. /\ active \in Seq(D) /\ inactive \in Seq(D)
      /\ Enlisted \subseteq D /\ ToSet(active) \subseteq D /\ ToSet(inactive) \subseteq D
      /\ conns \in Seq(Client) /\ \A k \in D : conns[k] \in Client
  <2>1. conns \in Seq(Client)
    BY DEF IInv, ClientsInv
  <2> QED BY <1>0, <2>1, EnlistedClients DEF ListsInv, TypeInv, Enlisted
<1>2. /\ n # 0 => n \in DOMAIN active /\ conns[active[n]].addr = a
      /\ n = 0 => \A k \in ToSet(active) : conns[k].addr # a
      /\ m # 0 => m \in DOMAIN inactive /\ conns[inactive[m]].addr = a
      /\ m = 0 => \A k \in ToSet(inactive) : conns[k].addr # a
  <2>1. /\ n = 0 \/ (n \in DOMAIN active /\ conns[active[n]].addr = a)
        /\ n = 0 => \A k \in ToSet(active) : conns[k].addr # a
    BY <1>0, <1>1, FoundClient
  <2>2. /\ m = 0 \/ (m \in DOMAIN inactive /\ conns[inactive[m]].addr = a)
        /\ m = 0 => \A k \in ToSet(inactive) : conns[k].addr # a
    BY <1>0, <1>1, FoundClient
  <2> QED BY <2>1, <2>2
<1>3. CASE n # 0
  <2>1. CloseActive(n, then) /\ inactive' = inactive
    BY <1>0, <1>3 DEF DoClientRemove
  <2>2. PICK k, stuck :
          /\ k = active[n] /\ stuck \in BOOLEAN
          /\ stuck <=> conns[k].held \/ (conns[k].open /\ Len(events) >= EventCap)
          /\ conns' = IF ~conns[k].held THEN [conns EXCEPT ![k] = Close(conns[k])] ELSE conns
          /\ events' = IF conns[k].open /\ ~stuck THEN Append(events, Closing(k)) ELSE events
          /\ active' = IF stuck THEN active ELSE RemoveAt(active, n)
          /\ main' = IF stuck THEN "stuck" ELSE then
    <3> DEFINE k == active[n]
               stuck == conns[k].held \/ (conns[k].open /\ Len(events) >= EventCap)
    <3>1. /\ conns' = IF ~conns[k].held THEN [conns EXCEPT ![k] = Close(conns[k])] ELSE conns
          /\ events' = IF conns[k].open /\ ~stuck THEN Append(events, Closing(k)) ELSE events
          /\ active' = IF stuck THEN active ELSE RemoveAt(active, n)
          /\ main' = IF stuck THEN "stuck" ELSE then
      BY <2>1 DEF CloseActive
    <3> HIDE DEF stuck, k
    <3>2. \E s \in BOOLEAN : s <=> stuck
      OBVIOUS
    <3> QED BY <3>1, <3>2 DEF k, stuck
  <2>3. k \in D /\ k \in ToSet(active) /\ k \in Enlisted /\ conns[k].addr = a /\ conns[k] \in Client
    BY <1>1, <1>2, <1>3, <2>2 DEF ToSet, Enlisted
  <2>4. /\ DOMAIN conns' = D
        /\ \A j \in D : /\ conns'[j].addr = conns[j].addr /\ conns'[j].id = conns[j].id
                        /\ j # k => conns'[j] = conns[j]
        /\ ~conns[k].held => conns'[k] = Close(conns[k])
    BY <1>0, <2>2, <2>3, ClosedClient
  <2>5. /\ active' \in Seq(D)
        /\ ToSet(active') \subseteq ToSet(active) /\ ToSet(active) \subseteq ToSet(active') \cup {k}
        /\ IsInjective(active) => IsInjective(active') /\ (~stuck => k \notin ToSet(active'))
    BY <1>1, <1>2, <1>3, <2>2, RemovedFromList
  <2>6. Enlisted' \subseteq Enlisted /\ Enlisted \subseteq Enlisted' \cup {k}
    BY <2>1, <2>5 DEF Enlisted
  <2>7. ASSUME NEW b, NEW j, b # a, HasClient(b, j) PROVE HasClient(b, j)'
    <3>1. PICK h \in Enlisted : conns[h].addr = b /\ conns[h].id = j
      BY <2>7 DEF HasClient
    <3>2. h \in Enlisted' /\ h \in D
      BY <1>1, <2>3, <2>6, <2>7, <3>1
    <3> QED BY <2>4, <3>1, <3>2 DEF HasClient
  <2>8. Len(events) \in Nat /\ EventCap \in Nat /\ Len(events) <= EventCap
    BY SizesAssumption DEF ListsInv, TypeInv
  <2>9. \/ events' = events
        \/ \E j \in D : events' = Append(events, Closing(j)) /\ Len(events) < EventCap
    BY <2>2, <2>3, <2>8
  <2>10. ASSUME Sound, Exact(done) PROVE Sound' /\ Exact(done + 1)'
    <3>1. /\ IsInjective(active) /\ IsInjective(inactive) /\ ToSet(active) \cap ToSet(inactive) = {}
          /\ \A j \in D : conns[j].loops <= 1 /\ ~conns[j].held
          /\ \A j \in ToSet(active) : conns[j].open
          /\ \A j \in ToSet(inactive) : ~conns[j].open /\ conns[j].loops = 0
      BY <1>0, <2>10 DEF Sound
    <3>2. /\ ~conns'[k].open /\ conns'[k].held = conns[k].held /\ conns'[k].loops = conns[k].loops
          /\ conns[k].open /\ ~conns[k].held
      BY <2>3, <2>4, <3>1, ClosedClient
    <3>3. stuck => Len(events) = EventCap /\ events' = events
      BY <2>2, <2>8, <3>2
    <3>4. Sound'
      <4>1. IsInjective(active') /\ IsInjective(inactive') /\ ToSet(active') \cap ToSet(inactive') = {}
        BY <2>1, <2>5, <3>1
      <4>2. \A j \in D : conns'[j].loops <= 1 /\ ~conns'[j].held
        BY <2>4, <3>1, <3>2
      <4>3. main' # "stuck" => \A j \in ToSet(active') : conns'[j].open
        BY <1>1, <2>2, <2>4, <2>5, <3>1
      <4>4. \A j \in ToSet(inactive') : ~conns'[j].open /\ conns'[j].loops = 0
        BY <1>1, <2>1, <2>3, <2>4, <3>1
      <4>5. main' = "stuck" => Len(events') = EventCap
        BY <2>2, <3>3
      <4> QED BY <2>4, <4>1, <4>2, <4>3, <4>4, <4>5 DEF Sound
    <3>5. ASSUME main' # "stuck", ~Overwritten(a), NEW j \in Enlisted' PROVE conns[j].addr # a
      <4> SUFFICES ASSUME conns[j].addr = a PROVE FALSE
        OBVIOUS
      <4>1. j = k
        BY <2>3, <2>6, <2>10, <3>5, OneAtAddress
      <4>2. ~stuck
        BY <2>2, <3>5
      <4>3. k \notin ToSet(active') /\ k \notin ToSet(inactive')
        BY <2>1, <2>3, <2>5, <3>1, <4>2
      <4> QED BY <4>1, <4>3 DEF Enlisted
    <3>6. ASSUME NEW x \in DOMAIN events', events'[x].kind = "close"
          PROVE  \/ x \in DOMAIN events /\ events'[x] = events[x]
                 \/ \E j \in D \ Enlisted' : conns[j].id = events'[x].id
      <4>1. CASE events' = events
        BY <3>6, <4>1
      <4>2. CASE events' # events
        <5>1. ~stuck /\ events' = Append(events, Closing(k))
          BY <2>2, <4>2
        <5>2. k \notin Enlisted'
          BY <2>1, <2>3, <2>5, <3>1, <5>1 DEF Enlisted
        <5>3. events \in Seq(Event)
          BY DEF ListsInv, TypeInv
        <5>4. (x \in DOMAIN events /\ events'[x] = events[x]) \/ events'[x] = Closing(k)
          BY <3>6, <5>1, <5>3
        <5>5. Closing(k).id = conns[k].id
          BY DEF Closing
        <5> QED BY <2>3, <5>2, <5>4, <5>5
      <4> QED BY <4>1, <4>2
    <3>7. Exact(done + 1)'
      BY <1>0, <2>4, <2>6, <2>10, <3>5, <3>6, ExactAfterDeletion
    <3> QED BY <3>4, <3>7
  <2> QED BY <1>0, <1>1, <2>1, <2>2, <2>4, <2>5, <2>7, <2>9, <2>10
<1>4. CASE n = 0
  <2>1. /\ inactive' = (IF m # 0 THEN RemoveAt(inactive, m) ELSE inactive) /\ main' = then
        /\ UNCHANGED <<conns, active, events>>
    BY <1>0, <1>4 DEF DoClientRemove
  <2>2. /\ inactive' \in Seq(D) /\ ToSet(inactive') \subseteq ToSet(inactive)
        /\ IsInjective(inactive) => IsInjective(inactive')
        /\ \A k \in ToSet(inactive) : conns[k].addr = a \/ k \in ToSet(inactive')
        /\ IsInjective(inactive) /\ (\E k \in ToSet(inactive) : conns[k].addr = a) =>
             \E k \in ToSet(inactive) \ ToSet(inactive') : conns[k].addr = a
    <3>1. CASE m = 0
      BY <1>1, <1>2, <2>1, <3>1
    <3>2. CASE m # 0
      <4>1. PICK k : k = inactive[m]
        OBVIOUS
      <4>2. m \in DOMAIN inactive /\ conns[k].addr = a /\ k \in ToSet(inactive)
        BY <1>2, <3>2, <4>1 DEF ToSet
      <4>3. /\ inactive' \in Seq(D) /\ ToSet(inactive') \subseteq ToSet(inactive)
            /\ ToSet(inactive) \subseteq ToSet(inactive') \cup {k}
            /\ IsInjective(inactive) => IsInjective(inactive') /\ k \notin ToSet(inactive')
        BY <1>1, <2>1, <3>2, <4>1, <4>2, RemovedFromList
      <4> QED BY <4>2, <4>3
    <3> QED BY <3>1, <3>2
  <2>3. Enlisted' \subseteq Enlisted /\ \A k \in Enlisted : conns[k].addr = a \/ k \in Enlisted'
    BY <2>1, <2>2 DEF Enlisted
  <2>4. \A b, j : b # a /\ HasClient(b, j) => HasClient(b, j)'
    BY <2>1, <2>3 DEF HasClient
  <2>5. ASSUME Sound, Exact(done) PROVE Sound' /\ Exact(done + 1)'
    <3>1. Sound'
      BY <2>1, <2>2, <2>5 DEF Sound
    <3>2. ASSUME ~Overwritten(a), NEW j \in Enlisted' PROVE conns[j].addr # a
      <4> SUFFICES ASSUME conns[j].addr = a PROVE FALSE
        OBVIOUS
      <4>1. j \in ToSet(inactive') /\ j \in ToSet(inactive) /\ j \in Enlisted
        BY <1>2, <1>4, <2>1, <2>2, <3>2 DEF Enlisted
      <4>2. PICK k \in ToSet(inactive) \ ToSet(inactive') : conns[k].addr = a
        BY <2>2, <2>5, <4>1 DEF Sound
      <4>3. k \in Enlisted
        BY <4>2 DEF Enlisted
      <4>4. j = k
        BY <2>5, <3>2, <4>1, <4>2, <4>3, OneAtAddress
      <4> QED BY <4>1, <4>2, <4>4
    <3>3. Exact(done + 1)'
      BY <1>0, <2>1, <2>3, <2>5, <3>2, ExactAfterDeletion
    <3> QED BY <3>1, <3>3
  <2> QED BY <1>0, <1>1, <2>1, <2>2, <2>4, <2>5
<1> QED BY <1>3, <1>4

\* The main loop works off one change: what it has worked off reaches one
\* further, and what is left to work off begins behind it.
LEMMA DoChangeKeepsLists == ASSUME IInv, ListsInv, DoChange PROVE ListsInv'
<1>0. PICK len, last, size, change, then :
        /\ len = Len(log) /\ last = Len(events) /\ size = Len(todo) /\ change = Head(todo)
        /\ then = IF Len(todo) = 1 THEN "select" ELSE "changes"
  OBVIOUS
<1>1. /\ stage = "run" /\ main = "changes" /\ todo' = Tail(todo)
      /\ UNCHANGED <<store, log, watch, stage, starts, reachable, job, issued, pc, call, sends>>
      /\ IF change.op = "put" THEN DoPut(change.addr, change.id) /\ main' = then
         ELSE DoClientRemove(change.addr, change.id, then)
  BY <1>0 DEF DoChange, Running, directory, subscription, calls
<1>2. /\ len \in Nat /\ DOMAIN log = 1..len /\ log \in Seq(Change)
      /\ last \in Nat /\ DOMAIN events = 1..last /\ events \in Seq(Event) /\ last <= EventCap
      /\ Start \in 0..len
  BY <1>0, LenProperties DEF IInv, ChangesInv, ListsInv, TypeInv, Start
<1>3. /\ size \in Nat \ {0} /\ change = todo[1] /\ 1 \in DOMAIN todo
      /\ Len(todo') = size - 1 /\ (size = 1 => todo' = <<>>)
      /\ \A x \in DOMAIN todo' : x \in Nat /\ x + 1 \in DOMAIN todo /\ todo'[x] = todo[x + 1]
  <2>1. todo \in Seq(Change) /\ todo # <<>>
    BY <1>1 DEF IInv, ChangesInv
  <2> QED BY <1>0, <1>1, <2>1
<1>4. PICK done, ends : Work(done, ends)
  BY DEF ListsInv, WorkInv
<1>5. /\ done \in 0..len /\ ends \in [0..last -> 0..len]
      /\ Start <= done /\ Part(todo, done, ends[0])
      /\ ends[last] = IF watch.state = "off" THEN Start ELSE watch.pos
      /\ \A x \in DOMAIN events :
           IF events[x].kind = "changes" THEN Part(events[x].changes, ends[x - 1], ends[x])
           ELSE ends[x - 1] = ends[x]
  BY <1>0, <1>4 DEF Work, Progress
<1>6. PICK next : next = done + 1
  OBVIOUS
<1>7. /\ next \in 1..len /\ change = log[next] /\ Start <= next
      /\ Part(todo', next, ends[0])
  <2>1. ends[0] \in 0..len
    BY <1>2, <1>5
  <2>2. size = ends[0] - done /\ \A x \in DOMAIN todo : todo[x] = log[done + x]
    BY <1>0, <1>5 DEF Part
  <2>3. next \in 1..len /\ Start <= next
    BY <1>2, <1>3, <1>5, <1>6, <2>1, <2>2
  <2>4. change = log[next]
    BY <1>3, <1>6, <2>2
  <2>5. Len(todo') = ends[0] - next
    BY <1>2, <1>3, <1>5, <1>6, <2>1, <2>2
  <2>6. ASSUME NEW x \in DOMAIN todo' PROVE todo'[x] = log[next + x]
    <3>1. done \in Nat /\ x \in Nat
      BY <1>2, <1>3, <1>5
    <3>2. done + (x + 1) = next + x
      BY <1>6, <3>1
    <3> QED BY <1>3, <2>2, <3>2
  <2> QED BY <2>3, <2>4, <2>5, <2>6 DEF Part
<1>8. /\ change.addr \in Addrs /\ next \in DOMAIN log
      /\ change.op = "put" => change.id \in Ids /\ Put(next, change.addr, change.id)
      /\ change.op # "put" => change.id = NoId /\ log[next].op = "del" /\ log[next].addr = change.addr
  <2>1. log[next] \in Change
    BY <1>2, <1>7
  <2>2. IF log[next].op = "put" THEN log[next].id \in Ids ELSE log[next].id = NoId
    BY <1>2, <1>7 DEF ListsInv, LogInv
  <2> QED BY <1>2, <1>7, <2>1, <2>2 DEF Change, Put
<1>9. then \in {"select", "changes"} /\ (then = "select" => todo' = <<>>)
  BY <1>0, <1>3
<1>10. /\ active' \in Seq(DOMAIN conns') /\ inactive' \in Seq(DOMAIN conns')
       /\ \A k \in DOMAIN conns' : conns'[k].id \in Ids
       /\ \/ events' = events
          \/ \E k \in DOMAIN conns : events' = Append(events, Closing(k)) /\ Len(events) < EventCap
       /\ main' \in {then, "stuck"}
       /\ change.op = "put" => HasClient(change.addr, change.id)'
       /\ \A b, j : b # change.addr /\ HasClient(b, j) => HasClient(b, j)'
       /\ Sound /\ Exact(done) => Sound' /\ Exact(next)'
  <2>1. done \in Nat /\ done + 1 \in DOMAIN log /\ done \in 0..Len(log)
    BY <1>0, <1>2, <1>5, <1>6, <1>8
  <2>2. CASE change.op = "put"
    <3>1. PICK a, i : a = change.addr /\ i = change.id
      OBVIOUS
    <3>2. /\ a \in Addrs /\ i \in Ids /\ Put(done + 1, a, i) /\ DoPut(a, i)
          /\ main' = then /\ main' \in {"select", "changes"} /\ events' = events
      BY <1>1, <1>6, <1>8, <1>9, <2>2, <3>1 DEF DoPut
    <3>3. /\ active' \in Seq(DOMAIN conns') /\ inactive' \in Seq(DOMAIN conns')
          /\ \A k \in DOMAIN conns' : conns'[k].id \in Ids
          /\ HasClient(a, i)' /\ \A b, j : HasClient(b, j) => HasClient(b, j)'
          /\ Sound /\ Exact(done) => Sound' /\ Exact(done + 1)'
      BY <1>1, <2>1, <3>2, PutKeepsSound
    <3> QED BY <1>6, <3>1, <3>2, <3>3
  <2>3. CASE change.op # "put"
    <3>1. PICK a : a = change.addr
      OBVIOUS
    <3>2. /\ a \in Addrs /\ log[done + 1].op = "del" /\ log[done + 1].addr = a
          /\ DoClientRemove(a, NoId, then)
      BY <1>1, <1>6, <1>8, <2>3, <3>1
    <3>3. /\ DOMAIN conns' = DOMAIN conns /\ \A k \in DOMAIN conns : conns'[k].id = conns[k].id
          /\ active' \in Seq(DOMAIN conns) /\ inactive' \in Seq(DOMAIN conns)
          /\ \/ events' = events
             \/ \E k \in DOMAIN conns : events' = Append(events, Closing(k)) /\ Len(events) < EventCap
          /\ main' \in {then, "stuck"}
          /\ \A b, j : b # a /\ HasClient(b, j) => HasClient(b, j)'
          /\ Sound /\ Exact(done) => Sound' /\ Exact(done + 1)'
      BY <1>1, <1>9, <2>1, <3>2, RemoveKeepsSound
    <3>4. \A k \in DOMAIN conns : conns[k].id \in Ids
      BY DEF ListsInv, TypeInv
    <3> QED BY <1>6, <2>3, <3>1, <3>3, <3>4
  <2> QED BY <2>2, <2>3
<1>11. PICK more, count :
         /\ count = Len(events') /\ count \in Nat /\ DOMAIN events' = 1..count
         /\ events' \in Seq(Event) /\ count <= EventCap
         /\ more \in [0..count -> 0..len] /\ more[0] = ends[0] /\ more[count] = ends[last]
         /\ \A x \in DOMAIN events' :
              IF events'[x].kind = "changes" THEN Part(events'[x].changes, more[x - 1], more[x])
              ELSE more[x - 1] = more[x]
  <2>1. CASE events' = events
    BY <1>0, <1>2, <1>5, <2>1
  <2>2. CASE events' # events
    <3>1. PICK k \in DOMAIN conns : events' = Append(events, Closing(k)) /\ last < EventCap
      BY <1>0, <1>10, <2>2
    <3>2. Closing(k) \in Event /\ Closing(k).kind = "close"
      <4>1. conns \in Seq(Client) /\ conns[k] \in Client /\ conns[k].id \in Ids
        BY DEF IInv, ClientsInv, ListsInv, TypeInv
      <4> QED BY <4>1 DEF Closing, Client, Event
    <3>3. /\ Len(events') = last + 1 /\ DOMAIN events' = 1..(last + 1) /\ events' \in Seq(Event)
          /\ \A x \in 1..last : events'[x] = events[x]
          /\ events'[last + 1] = Closing(k)
      <4>1. PICK e : e = Closing(k)
        OBVIOUS
      <4> QED BY <1>0, <1>2, <3>1, <3>2, <4>1, AppendProperties
    <3> DEFINE more == [x \in 0..(last + 1) |-> IF x \in 0..last THEN ends[x] ELSE ends[last]]
    <3>4. /\ 0 \in 0..last /\ last \in 0..last /\ last + 1 \in 0..(last + 1) /\ last + 1 \notin 0..last
          /\ 0..last \subseteq 0..(last + 1) /\ (last + 1) - 1 = last /\ last + 1 \in Nat /\ last + 1 <= EventCap
      BY <1>2, <3>1, SizesAssumption
    <3>5. /\ more \in [0..(last + 1) -> 0..len]
          /\ \A x \in 0..last : more[x] = ends[x]
          /\ more[last + 1] = ends[last]
      BY <1>5, <3>4
    <3> HIDE DEF more
    <3>6. ASSUME NEW x \in DOMAIN events'
          PROVE  IF events'[x].kind = "changes" THEN Part(events'[x].changes, more[x - 1], more[x])
                 ELSE more[x - 1] = more[x]
      <4>1. CASE x = last + 1
        BY <3>2, <3>3, <3>4, <3>5, <4>1
      <4>2. CASE x \in 1..last
        <5>1. x - 1 \in 0..last /\ x \in 0..last
          BY <1>2, <4>2
        <5> QED BY <1>2, <1>5, <3>3, <3>5, <4>2, <5>1
      <4>3. x = last + 1 \/ x \in 1..last
        <5>1. x \in 1..(last + 1)
          BY <3>3
        <5> QED BY <1>2, <5>1
      <4> QED BY <4>1, <4>2, <4>3
    <3> QED BY <3>3, <3>4, <3>5, <3>6
  <2> QED BY <2>1, <2>2
<1>12. main' \in {"select", "changes", "stuck"}
  BY <1>9, <1>10
<1>13. TypeInv'
  BY <1>1, <1>10, <1>11, <1>12 DEF ListsInv, TypeInv
<1>14. IssuedInv'
  BY <1>1, <1>12, SameIssued DEF ListsInv
<1>15. LogInv' /\ (\A n, u : LastUpTo(n, u)' <=> LastUpTo(n, u)) /\ (\A n, a, i : Put(n, a, i)' <=> Put(n, a, i))
  BY <1>1 DEF ListsInv, LogInv, LastUpTo, Put
<1>16. watch.state # "off"
  <2>1. todo # <<>>
    BY <1>1 DEF IInv, ChangesInv
  <2> QED BY <2>1 DEF ListsInv, StageInv
<1>17. StageInv'
  BY <1>1, <1>9, <1>10, <1>16 DEF StageInv
<1>18. Start' = Start /\ \A s, m, n : Part(s, m, n)' <=> Part(s, m, n)
  BY <1>1 DEF Start, Part
<1>19. Progress(next, more)'
  BY <1>1, <1>5, <1>7, <1>11, <1>18 DEF Progress, Part
<1>20. ASSUME Covers(done) PROVE Covers(next)'
  <2> SUFFICES ASSUME NEW b \in Addrs
      PROVE /\ \A n \in (Start + 1)..next, i \in Ids : Put(n, b, i) /\ LastUpTo(n, next) => HasClient(b, i)'
            /\ store[b] # NoId /\ (\A n \in (Start + 1)..len : log[n].addr # b) => HasClient(b, store[b])'
    BY <1>0, <1>1, <1>15, <1>18 DEF Covers
  <2>1. ASSUME NEW n \in (Start + 1)..next, NEW i \in Ids, Put(n, b, i), LastUpTo(n, next)
        PROVE  HasClient(b, i)'
    <3>1. CASE n = next
      BY <1>7, <1>10, <2>1, <3>1 DEF Put
    <3>2. CASE n # next
      <4>1. done \in Nat /\ n \in 1..done /\ n \in (Start + 1)..done
        BY <1>2, <1>5, <1>6, <3>2
      <4>2. LastUpTo(n, done) /\ log[next].addr # b
        BY <1>6, <2>1, <4>1, LastUpToNext DEF Put
      <4>3. HasClient(b, i)
        BY <1>20, <2>1, <4>1, <4>2 DEF Covers
      <4> QED BY <1>7, <1>10, <4>2, <4>3
    <3> QED BY <3>1, <3>2
  <2>2. ASSUME store[b] # NoId, \A n \in (Start + 1)..len : log[n].addr # b
        PROVE  HasClient(b, store[b])'
    <3>1. next \in (Start + 1)..len
      BY <1>2, <1>5, <1>6, <1>7
    <3>2. b # change.addr
      BY <1>7, <2>2, <3>1
    <3>3. PICK i : i = store[b]
      OBVIOUS
    <3>4. HasClient(b, i)
      BY <1>0, <1>20, <2>2, <3>3 DEF Covers
    <3>5. HasClient(b, i)'
      BY <1>10, <3>2, <3>4
    <3>6. store'[b] = i
      BY <1>1, <3>3
    <3> QED BY <3>5, <3>6
  <2> QED BY <2>1, <2>2
<1>21. Work(next, more)'
  <2>1. next \in 0..len
    BY <1>2, <1>7
  <2> QED BY <1>0, <1>1, <1>4, <1>10, <1>11, <1>18, <1>19, <1>20, <2>1 DEF Work
<1> QED BY <1>13, <1>14, <1>15, <1>17, <1>21 DEF ListsInv, WorkInv, Work

\* Every step preserves what becomes of the lists.
LEMMA NextKeepsListsInv == IInv /\ ListsInv /\ [Next]_vars => ListsInv'
<1> SUFFICES ASSUME IInv, ListsInv, [Next]_vars PROVE ListsInv'
  OBVIOUS
<1>1. CASE Subscribe \/ UNCHANGED vars \/ \E a \in Addrs : PeerStarts(a) \/ PeerEnds(a)
  BY <1>1, SurroundingsKeepLists
<1>2. CASE Elsewhere
  BY <1>2, ElsewhereKeepsLists
<1>3. CASE WatchBegins
  BY <1>3, WatchBeginsKeepsLists
<1>4. CASE WatchReports
  BY <1>4, WatchReportsKeepsLists
<1>5. CASE WatchEnds
  BY <1>5, WatchEndsKeepsLists
<1>6. CASE Find
  BY <1>6, FindKeepsLists
<1>7. CASE RetryClientConnect
  BY <1>7, RetryClientConnectKeepsLists
<1>8. CASE TakeEvent
  BY <1>8, TakeEventKeepsLists
<1>9. CASE DoChange
  BY <1>9, DoChangeKeepsLists
<1>10. CASE TakeRequest \/ RefuseRequest \/ SendRequest
  BY <1>10, RequestStepsKeepLists
<1>11. CASE \E c \in Callers : Begin(c) \/ Caller(c)
  BY <1>11, CallersKeepLists
<1>12. CASE \E k \in DOMAIN conns : SendLoop(k)
  BY <1>12, SendLoopsKeepLists
<1> QED BY <1>1, <1>2, <1>3, <1>4, <1>5, <1>6, <1>7, <1>8, <1>9, <1>10, <1>11, <1>12 DEF Next, Watching, MainLoop

\* Both invariants hold together.
LEMMA ListsInvariance == Spec => [](IInv /\ ListsInv)
<1>1. Init => IInv /\ ListsInv
  BY InitIInv, InitListsInv
<1>2. IInv /\ ListsInv /\ [Next]_vars => (IInv /\ ListsInv)'
  BY NextKeepsIInv, NextKeepsListsInv
<1> QED BY <1>1, <1>2, PTL DEF Spec

\* ListsSound: as long as no change comes between the start of the watch and the
\* reading of the table, the lists hold each client once, the active clients and
\* no others are connected, by one loop each, and do_client_remove never waits
\* for the mutex that TcpClient.close has left locked.
THEOREM ListsStaySound == Spec => []ListsSound
BY ListsInvariance, SoundLists, PTL

\* ListsFollowDirectory: what Find read and what the watch reported since, in
\* whatever order they came, leave do_event_service_change with a client for
\* every registered service, and with clients of services that are gone only
\* where one registered over the key of another.
THEOREM ListsFollow == Spec => []ListsFollowDirectory
BY ListsInvariance, FollowingLists, PTL
=============================================================================
