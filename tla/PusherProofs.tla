---------------------------- MODULE PusherProofs ----------------------------
(***************************************************************************)
(* Proofs about Pusher, for any addresses, service ids and bound.          *)
(***************************************************************************)
EXTENDS Pusher, FiniteSetTheorems, SequenceTheorems, TLAPS

-----------------------------------------------------------------------------
(* The inductive invariant. *)

\* A deletion, and only a deletion, is reported without an id.
Told == {c \in Change : c.op = "del" <=> c.id = NoId}
Listed == {a \in Addrs : store[a] # NoId}

DirectoryInv ==
  /\ store \in [Addrs -> Ids \cup {NoId}]
  /\ log \in Seq(Told) /\ todo \in Seq(Told)
  /\ IsFiniteSet(Listed)

StepInv ==
  /\ reachable \subseteq Addrs
  /\ stage \in {"find", "subscribe", "run", "failed"}
  /\ watch \in [state : {"off", "on", "changes", "dial", "stuck", "ended"}, pos : 0..Len(log)]
  /\ locked \in BOOLEAN /\ (locked <=> watch.state \in {"changes", "stuck"})
  /\ stage = "find" => watch.state = "off" /\ retry = <<>>

\* Nothing is ever queued at a client of the pusher, and none is connected
\* more than once.
Client ==
  [addr : Addrs, id : Ids, open : BOOLEAN, held : BOOLEAN, loops : {0, 1}, queue : {<<>>}, hand : {{}}]
Fresh == {k \in Client : ~k.open /\ k.loops = 0}

TableInv ==
  /\ DOMAIN clients \subseteq Addrs /\ IsFiniteSet(DOMAIN clients)
  /\ clients \in [DOMAIN clients -> Client]
  /\ \A a \in DOMAIN clients : clients[a].addr = a

FreshInv == IF watch.state = "stuck" THEN fresh \in Seq(Client) ELSE fresh \in Seq(Fresh)

\* What waits for the retry goroutine is closed, and waits once.
InRetry(a) == \E n \in DOMAIN retry : retry[n] = a
RetryInv ==
  /\ retry \in Seq(DOMAIN clients)
  /\ \A m, n \in DOMAIN retry : retry[m] = retry[n] => m = n
  /\ \A n \in DOMAIN retry : ~clients[retry[n]].open

\* A client that has not been replaced has never been closed; one that has been
\* stays closed, because nothing is collected any more, and because the close
\* of a client that still waited for the retry goroutine has kept its mutex.
ReplacedInv ==
  /\ replaced \subseteq DOMAIN clients
  /\ replaced # {} => locked
  /\ \A a \in DOMAIN clients \ replaced : clients[a].open <=> clients[a].loops = 1
  /\ \A a \in replaced : ~clients[a].open /\ (InRetry(a) => clients[a].held)

IInv == DirectoryInv /\ StepInv /\ TableInv /\ FreshInv /\ RetryInv /\ ReplacedInv

-----------------------------------------------------------------------------
(* Facts about the operators of the model. *)

\* A new client is neither connected nor has it a goroutine.
LEMMA NewClient ==
  ASSUME NEW a \in Addrs, NEW i \in Ids
  PROVE  /\ NewTcpClient(a, i) \in Fresh
         /\ NewTcpClient(a, i).addr = a /\ NewTcpClient(a, i).id = i
  BY DEF NewTcpClient, Fresh, Client

\* Connect opens a closed client whose peer can be reached.
LEMMA ConnectClient ==
  ASSUME NEW k \in Client, k.open <=> k.loops = 1, NEW r \in BOOLEAN
  PROVE  /\ Connect(k, r) \in Client
         /\ Connect(k, r).open <=> Connect(k, r).loops = 1
         /\ Connect(k, r).addr = k.addr /\ Connect(k, r).id = k.id
         /\ Connect(k, r).held = k.held
<1> DEFINE opened == [k EXCEPT !.open = TRUE, !.queue = <<>>, !.loops = 1]
<1>1. CASE k.open \/ ~r
  BY <1>1 DEF Connect
<1>2. CASE ~k.open /\ r
  <2>1. k.loops + 1 = 1
    BY <1>2 DEF Client
  <2>2. Connect(k, r) = opened
    BY <1>2, <2>1 DEF Connect
  <2>3. /\ opened \in Client /\ opened.open /\ opened.loops = 1
        /\ opened.addr = k.addr /\ opened.id = k.id /\ opened.held = k.held
    BY DEF Client
  <2> QED BY <2>2, <2>3
<1> QED BY <1>1, <1>2 DEF Client

\* Close leaves a client closed, and one that was closed with its mutex held.
LEMMA CloseClient ==
  ASSUME NEW k \in Client
  PROVE  /\ Close(k) \in Client /\ ~Close(k).open
         /\ Close(k).addr = k.addr /\ Close(k).id = k.id
         /\ k.open \/ Close(k).held
  BY DEF Close, Client

\* A client of the pusher is one of TcpClient's.
LEMMA ClientType ==
  ASSUME NEW k \in Client
  PROVE  /\ k.addr \in Addrs /\ k.id \in Ids /\ k.open \in BOOLEAN /\ k.held \in BOOLEAN
         /\ k.loops \in Nat /\ k.loops <= 1
         /\ k.queue \in Seq({}) /\ k.hand \subseteq {} /\ Cardinality(k.hand) <= k.loops
<1>1. k.hand = {} /\ k.queue = <<>> /\ k.loops \in {0, 1}
  BY DEF Client
<1>2. Cardinality({}) = 0 /\ <<>> \in Seq({})
  BY FS_EmptySet
<1> QED BY <1>1, <1>2 DEF Client

\* SetToSeqs orders a finite set: every element once.
LEMMA Ordered ==
  ASSUME NEW S, IsFiniteSet(S), NEW order \in SetToSeqs(S)
  PROVE  /\ order \in Seq(S)
         /\ \A m, n \in DOMAIN order : order[m] = order[n] => m = n
<1> DEFINE len == Cardinality(S)
<1>1. len \in Nat
  BY FS_CardinalityType
<1>2. order \in [1..len -> S] /\ \A m, n \in 1..len : m # n => order[m] # order[n]
  BY DEF SetToSeqs
<1> HIDE DEF len
<1> QED BY <1>1, <1>2

\* The invariant says of every variable that it has its type.
LEMMA TypeOfIInv == IInv => TypeOK
<1> SUFFICES ASSUME IInv PROVE TypeOK
  OBVIOUS
<1>1. DirectoryTypeOK /\ todo \in Seq(Change)
  BY SeqMonotonic DEF IInv, DirectoryInv, DirectoryTypeOK, Told
<1>2. \A a \in DOMAIN clients : IsTcpClient(clients[a], {a}, Ids, {}) /\ clients[a].loops <= 2
  BY ClientType DEF IInv, TableInv, IsTcpClient
<1>3. \A n \in DOMAIN fresh : IsTcpClient(fresh[n], Addrs, Ids, {}) /\ fresh[n].loops <= 1
  <2>1. fresh \in Seq(Client)
    BY SeqMonotonic DEF IInv, FreshInv, Fresh
  <2>2. \A n \in DOMAIN fresh : fresh[n] \in Client
    BY <2>1
  <2> SUFFICES ASSUME NEW n \in DOMAIN fresh
               PROVE  IsTcpClient(fresh[n], Addrs, Ids, {}) /\ fresh[n].loops <= 1
    OBVIOUS
  <2> QED BY <2>2, ClientType DEF IsTcpClient
<1>4. locked \in BOOLEAN
  BY DEF IInv, StepInv
<1>5. DOMAIN clients \subseteq Addrs /\ retry \in Seq(DOMAIN clients) /\ replaced \subseteq DOMAIN clients
  BY DEF IInv, TableInv, RetryInv, ReplacedInv
<1>6. /\ reachable \subseteq Addrs /\ stage \in {"find", "subscribe", "run", "failed"}
      /\ watch \in [state : {"off", "on", "changes", "dial", "stuck", "ended"}, pos : 0..Len(log)]
  BY DEF IInv, StepInv
<1> QED BY <1>1, <1>2, <1>3, <1>4, <1>5, <1>6 DEF TypeOK

-----------------------------------------------------------------------------
(* The invariant is inductive: one lemma per group of actions. *)

LEMMA InitIInv == Init => IInv
<1> SUFFICES ASSUME Init PROVE IInv
  OBVIOUS
<1>1. DirectoryInv
  <2>1. Listed = {}
    BY DEF Init, DirectoryInit, Listed
  <2> QED BY <2>1, FS_EmptySet DEF Init, DirectoryInit, DirectoryInv
<1>2. StepInv
  <2>1. Len(log) = 0
    BY DEF Init, DirectoryInit
  <2>2. /\ watch = [state |-> "off", pos |-> 0] /\ locked = FALSE
        /\ reachable = {} /\ stage = "find" /\ retry = <<>>
    BY DEF Init
  <2>3. 0 \in 0..Len(log)
    BY <2>1
  <2>4. /\ watch \in [state : {"off", "on", "changes", "dial", "stuck", "ended"}, pos : 0..Len(log)]
        /\ watch.state = "off"
    BY <2>2, <2>3
  <2> QED BY <2>2, <2>4 DEF StepInv
<1>3. DOMAIN clients = {}
  BY DEF Init
<1>4. TableInv
  BY <1>3, FS_EmptySet DEF Init, TableInv
<1>5. FreshInv
  BY DEF Init, FreshInv
<1>6. RetryInv
  BY <1>3 DEF Init, RetryInv
<1>7. ReplacedInv
  BY <1>3 DEF Init, ReplacedInv
<1> QED BY <1>1, <1>2, <1>4, <1>5, <1>6, <1>7 DEF IInv

\* Of what a change of the directory touches, only the length of the log matters
\* to the pusher.
LEMMA ElsewhereKeepsIInv == ASSUME IInv, Elsewhere PROVE IInv'
<1>1. UNCHANGED <<reachable, stage, clients, watch, todo, fresh, locked, retry, replaced>>
  BY DEF Elsewhere, pusher
<1>2. /\ store' \in [Addrs -> Ids \cup {NoId}] /\ log' \in Seq(Told)
      /\ Len(log') = Len(log) + 1
      /\ \E a \in Addrs : Listed' \subseteq Listed \cup {a}
  <2>1. store \in [Addrs -> Ids \cup {NoId}] /\ log \in Seq(Told)
    BY DEF IInv, DirectoryInv
  <2>2. \A c \in Told : Append(log, c) \in Seq(Told) /\ Len(Append(log, c)) = Len(log) + 1
    BY <2>1
  <2>3. CASE \E a \in Addrs : Vanish(a)
    <3>1. PICK a \in Addrs : Vanish(a)
      BY <2>3
    <3>2. [op |-> "del", addr |-> a, id |-> NoId] \in Told
      BY DEF Told, Change
    <3>3. Listed' \subseteq Listed \cup {a}
      BY <2>1, <3>1 DEF Vanish, Listed
    <3> QED BY <2>1, <2>2, <3>1, <3>2, <3>3 DEF Vanish, Reported
  <2>4. CASE \E a \in Addrs, i \in Ids : Register(a, i)
    <3>1. PICK a \in Addrs, i \in Ids : Register(a, i)
      BY <2>4
    <3>2. [op |-> "put", addr |-> a, id |-> i] \in Told
      BY IdsAssumption DEF Told, Change
    <3>3. Listed' \subseteq Listed \cup {a}
      BY <2>1, <3>1 DEF Register, Listed
    <3> QED BY <2>1, <2>2, <3>1, <3>2, <3>3 DEF Register, Reported
  <2> QED BY <2>3, <2>4 DEF Elsewhere, DirectoryNext
<1>3. IsFiniteSet(Listed')
  <2>1. PICK a \in Addrs : Listed' \subseteq Listed \cup {a}
    BY <1>2
  <2>2. IsFiniteSet(Listed \cup {a})
    BY FS_AddElement DEF IInv, DirectoryInv
  <2> QED BY <2>1, <2>2, FS_Subset
<1>4. DirectoryInv'
  BY <1>1, <1>2, <1>3 DEF IInv, DirectoryInv
<1>5. StepInv'
  <2>1. Len(log) \in Nat
    BY DEF IInv, DirectoryInv
  <2> QED BY <1>1, <1>2, <2>1 DEF IInv, StepInv
<1> QED BY <1>1, <1>4, <1>5 DEF IInv, TableInv, FreshInv, RetryInv, ReplacedInv, InRetry

\* The actions that leave the table, the new clients and the queue of the retry
\* goroutine alone.
LEMMA QuietKeepsIInv ==
  ASSUME IInv,
         \/ \E a \in Addrs : PeerStarts(a) \/ PeerEnds(a)
         \/ FindFails \/ Subscribe \/ WatchBegins \/ WatchEnds \/ TakeReport
         \/ UNCHANGED vars
  PROVE  IInv'
<1>1. UNCHANGED <<store, log, clients, fresh, retry, replaced>>
  BY DEF PeerStarts, PeerEnds, FindFails, Subscribe, WatchBegins, WatchEnds, TakeReport,
         vars, directory, pusher
<1>2. Len(log) \in Nat
  BY DEF IInv, DirectoryInv
<1>3. todo' \in Seq(Told)
  <2>1. CASE TakeReport
    <3>1. PICK upto \in (watch.pos + 1)..Len(log) : todo' = SubSeq(log, watch.pos + 1, upto)
      BY <2>1 DEF TakeReport
    <3>2. log \in Seq(Told) /\ watch.pos \in 0..Len(log)
      BY DEF IInv, DirectoryInv, StepInv
    <3> QED BY <1>2, <3>1, <3>2
  <2>2. CASE UNCHANGED todo
    BY <2>2 DEF IInv, DirectoryInv
  <2> QED
    BY <2>1, <2>2 DEF PeerStarts, PeerEnds, FindFails, Subscribe, WatchBegins, WatchEnds,
                      vars, directory, pusher
<1>4. DirectoryInv'
  BY <1>1, <1>3 DEF IInv, DirectoryInv, Listed
<1> DEFINE Kept == StepInv' /\ (locked => locked') /\ (watch.state = "stuck" <=> watch'.state = "stuck")
<1>5. Kept
  <2> USE <1>1, <1>2 DEF IInv, StepInv
  <2>1. CASE \E a \in Addrs : PeerStarts(a) \/ PeerEnds(a)
    BY <2>1 DEF PeerStarts, PeerEnds, pusher
  <2>2. CASE FindFails \/ Subscribe
    BY <2>2 DEF FindFails, Subscribe
  <2>3. CASE WatchBegins \/ WatchEnds
    BY <2>3 DEF WatchBegins, WatchEnds
  <2>4. CASE TakeReport
    <3>1. PICK upto \in (watch.pos + 1)..Len(log) : watch' = [state |-> "changes", pos |-> upto]
      BY <2>4 DEF TakeReport
    <3>2. watch.pos \in Nat /\ watch.state = "on"
      BY <2>4 DEF TakeReport
    <3>3. /\ watch' \in [state : {"off", "on", "changes", "dial", "stuck", "ended"}, pos : 0..Len(log)]
          /\ watch'.state = "changes"
      BY <3>1, <3>2
    <3> QED BY <2>4, <3>2, <3>3 DEF TakeReport
  <2>5. CASE UNCHANGED vars
    BY <2>5 DEF vars, pusher
  <2> QED BY <2>1, <2>2, <2>3, <2>4, <2>5
<1> QED
  BY <1>1, <1>4, <1>5 DEF IInv, TableInv, FreshInv, RetryInv, ReplacedInv, InRetry

\* The table that Init makes: a client for each address listed.
LEMMA FindKeepsIInv == ASSUME IInv, InitGatewayClients PROVE IInv'
<1> DEFINE Made(a) == Connect(NewTcpClient(a, store[a]), a \in reachable)
<1>1. /\ stage = "find" /\ stage' = "subscribe"
      /\ clients' = [a \in Listed |-> Made(a)]
      /\ UNCHANGED <<store, log, reachable, watch, todo, fresh, locked, retry, replaced>>
  BY DEF InitGatewayClients, Listed, directory
<1>2. ~locked /\ retry = <<>> /\ replaced = {}
  BY <1>1 DEF IInv, StepInv, ReplacedInv
<1>3. ASSUME NEW a \in Listed
      PROVE  /\ Made(a) \in Client /\ Made(a).addr = a
             /\ Made(a).open <=> Made(a).loops = 1
  <2>1. a \in Addrs /\ store[a] \in Ids
    BY DEF Listed, IInv, DirectoryInv
  <2> DEFINE k == NewTcpClient(a, store[a])
  <2>2. k \in Client /\ k.addr = a /\ (k.open <=> k.loops = 1)
    BY <2>1, NewClient DEF Fresh
  <2> HIDE DEF k
  <2>3. /\ Connect(k, a \in reachable) \in Client /\ Connect(k, a \in reachable).addr = a
        /\ Connect(k, a \in reachable).open <=> Connect(k, a \in reachable).loops = 1
    <3>1. (a \in reachable) \in BOOLEAN
      OBVIOUS
    <3> QED BY <2>2, <3>1, ConnectClient
  <2> QED BY <2>3 DEF k
<1> HIDE DEF Made
<1>4. DirectoryInv' /\ StepInv'
  BY <1>1 DEF IInv, DirectoryInv, StepInv, Listed
<1>5. TableInv'
  <2>1. Listed \subseteq Addrs /\ IsFiniteSet(Listed)
    BY DEF Listed, IInv, DirectoryInv
  <2> QED BY <1>1, <1>3, <2>1 DEF TableInv
<1>6. RetryInv'
  BY <1>1, <1>2 DEF RetryInv
<1>7. ReplacedInv'
  BY <1>1, <1>2, <1>3 DEF ReplacedInv
<1> QED BY <1>1, <1>4, <1>5, <1>6, <1>7 DEF IInv, FreshInv

\* The retry goroutine collects clients that have never been connected.
LEMMA CollectKeepsIInv == ASSUME IInv, Collect PROVE IInv'
<1> DEFINE closed == {a \in DOMAIN clients : ~clients[a].open}
<1>1. /\ stage = "run" /\ ~locked /\ retry' \in SetToSeqs(closed)
      /\ UNCHANGED <<store, log, reachable, stage, clients, watch, todo, fresh, locked, replaced>>
  BY DEF Collect, directory
<1>2. IsFiniteSet(closed)
  BY FS_Subset DEF IInv, TableInv
<1>3. retry' \in Seq(closed) /\ \A m, n \in DOMAIN retry' : retry'[m] = retry'[n] => m = n
  BY <1>1, <1>2, Ordered
<1>4. retry' \in Seq(DOMAIN clients)
  BY <1>3, SeqMonotonic
<1>5. \A n \in DOMAIN retry' : retry'[n] \in closed
  BY <1>3
<1>6. RetryInv'
  BY <1>1, <1>3, <1>4, <1>5 DEF RetryInv
<1>7. ReplacedInv'
  BY <1>1 DEF IInv, ReplacedInv
<1>8. DirectoryInv' /\ StepInv' /\ TableInv' /\ FreshInv'
  BY <1>1 DEF IInv, DirectoryInv, StepInv, TableInv, FreshInv, Listed
<1> QED BY <1>6, <1>7, <1>8 DEF IInv

\* The client at the head is not one that has been replaced, since its mutex is
\* free; afterwards it no longer waits.
LEMMA RetryConnectKeepsIInv == ASSUME IInv, RetryConnect PROVE IInv'
<1> DEFINE a == Head(retry)
           k == Connect(clients[a], a \in reachable)
<1>1. /\ retry # <<>> /\ ~clients[a].held
      /\ clients' = [clients EXCEPT ![a] = k] /\ retry' = Tail(retry)
      /\ UNCHANGED <<store, log, reachable, stage, watch, todo, fresh, locked, replaced>>
  BY DEF RetryConnect, directory
<1>2. a \in DOMAIN clients /\ a = retry[1] /\ 1 \in DOMAIN retry
  BY <1>1 DEF IInv, RetryInv
<1>3. a \notin replaced
  BY <1>1, <1>2 DEF IInv, ReplacedInv, InRetry
<1>4. clients[a] \in Client /\ (clients[a].open <=> clients[a].loops = 1) /\ clients[a].addr = a
  BY <1>2, <1>3 DEF IInv, TableInv, ReplacedInv
<1>5. k \in Client /\ (k.open <=> k.loops = 1) /\ k.addr = a
  <2>1. (a \in reachable) \in BOOLEAN
    OBVIOUS
  <2> HIDE DEF a
  <2> QED BY <1>4, <2>1, ConnectClient
<1>6. /\ retry' \in Seq(DOMAIN clients)
      /\ \A n \in DOMAIN retry' : n + 1 \in DOMAIN retry /\ n + 1 # 1 /\ retry'[n] = retry[n + 1]
  <2>1. retry \in Seq(DOMAIN clients)
    BY DEF IInv, RetryInv
  <2> QED BY <1>1, <2>1
<1> HIDE DEF a, k
<1>7. DOMAIN clients' = DOMAIN clients
  BY <1>1
<1>8. \A m, n \in DOMAIN retry' : retry'[m] = retry'[n] => m = n
  <2> SUFFICES ASSUME NEW m \in DOMAIN retry', NEW n \in DOMAIN retry', retry'[m] = retry'[n]
               PROVE  m = n
    OBVIOUS
  <2>1. m + 1 = n + 1
    BY <1>6 DEF IInv, RetryInv
  <2>2. m \in Nat /\ n \in Nat
    BY <1>6
  <2> QED BY <2>1, <2>2
<1>9. \A n \in DOMAIN retry' : retry'[n] # a /\ ~clients'[retry'[n]].open
  <2> SUFFICES ASSUME NEW n \in DOMAIN retry'
               PROVE  retry'[n] # a /\ ~clients'[retry'[n]].open
    OBVIOUS
  <2>1. retry[n + 1] # a
    BY <1>2, <1>6 DEF IInv, RetryInv
  <2>2. ~clients[retry[n + 1]].open
    BY <1>6 DEF IInv, RetryInv
  <2> QED BY <1>1, <1>6, <2>1, <2>2
<1>10. RetryInv'
  BY <1>6, <1>7, <1>8, <1>9 DEF RetryInv
<1>11. TableInv'
  BY <1>1, <1>5, <1>7 DEF IInv, TableInv
<1>12. ReplacedInv'
  <2>1. \A b \in DOMAIN clients : b # a => clients'[b] = clients[b]
    BY <1>1
  <2>2. clients'[a] = k
    BY <1>1, <1>2
  <2>3. \A b : InRetry(b)' => InRetry(b)
    BY <1>6 DEF InRetry
  <2> QED BY <1>1, <1>3, <1>5, <1>7, <2>1, <2>2, <2>3 DEF IInv, ReplacedInv
<1>13. StepInv'
  BY <1>1 DEF IInv, StepInv
<1>14. DirectoryInv' /\ FreshInv'
  BY <1>1 DEF IInv, DirectoryInv, FreshInv, Listed
<1> QED BY <1>10, <1>11, <1>12, <1>13, <1>14 DEF IInv

\* What service_change does with a change: it closes the client that the change
\* replaces, and it never finds one to remove.
LEMMA ChangeFacts ==
  ASSUME IInv, ServiceChange
  PROVE  LET c == Head(todo) IN
    /\ watch.state = "changes" /\ todo # <<>> /\ todo' = Tail(todo) /\ c \in Told
    /\ UNCHANGED <<store, log, reachable, stage, watch, locked, retry>>
    /\ \/ ~Replaces(c) /\ UNCHANGED <<clients, fresh, replaced>>
       \/ /\ Replaces(c)
          /\ clients' = [clients EXCEPT ![c.addr] = Close(@)]
          /\ fresh' = Append(fresh, NewTcpClient(c.addr, c.id))
          /\ replaced' = replaced \cup {c.addr}
<1> DEFINE c == Head(todo)
<1>1. /\ watch.state = "changes" /\ todo # <<>> /\ todo' = Tail(todo)
      /\ UNCHANGED <<store, log, reachable, stage, watch, locked, retry>>
  BY DEF ServiceChange, directory
<1>2. c \in Told
  BY <1>1 DEF IInv, DirectoryInv
<1>3. ~Removes(c)
  BY <1>2, IdsAssumption DEF Removes, Told, IInv, TableInv, Client
<1>4. replaced \subseteq DOMAIN clients
  BY DEF IInv, ReplacedInv
<1>5. /\ clients' = IF Replaces(c) THEN [clients EXCEPT ![c.addr] = Close(@)]
                    ELSE IF Removes(c) THEN [b \in DOMAIN clients \ {c.addr} |-> clients[b]]
                    ELSE clients
      /\ fresh' = IF Replaces(c) THEN Append(fresh, NewTcpClient(c.addr, c.id)) ELSE fresh
      /\ replaced' = IF Replaces(c) THEN replaced \cup {c.addr} ELSE replaced \cap DOMAIN clients'
  BY DEF ServiceChange
<1> HIDE DEF c
<1>6. CASE Replaces(c)
  BY <1>1, <1>2, <1>5, <1>6 DEF c
<1>7. CASE ~Replaces(c)
  BY <1>1, <1>2, <1>3, <1>4, <1>5, <1>7 DEF c
<1> QED BY <1>6, <1>7

\* A client replaced while it waits for the retry goroutine was closed, so that
\* Close keeps its mutex.
LEMMA ServiceChangeKeepsIInv == ASSUME IInv, ServiceChange PROVE IInv'
<1> DEFINE c == Head(todo)
           a == c.addr
<1>1. /\ watch.state = "changes" /\ todo # <<>> /\ todo' = Tail(todo) /\ c \in Told
      /\ UNCHANGED <<store, log, reachable, stage, watch, locked, retry>>
  BY ChangeFacts
<1>2. DirectoryInv'
  BY <1>1 DEF IInv, DirectoryInv, Listed
<1>3. StepInv'
  BY <1>1 DEF IInv, StepInv
<1>4. CASE UNCHANGED <<clients, fresh, replaced>>
  BY <1>1, <1>2, <1>3, <1>4 DEF IInv, TableInv, FreshInv, RetryInv, ReplacedInv, InRetry
<1>5. CASE /\ Replaces(c)
           /\ clients' = [clients EXCEPT ![a] = Close(@)]
           /\ fresh' = Append(fresh, NewTcpClient(a, c.id))
           /\ replaced' = replaced \cup {a}
  <2>1. a \in DOMAIN clients /\ a \in Addrs /\ c.id \in Ids
    BY <1>1, <1>5 DEF Replaces, Told, Change
  <2>2. clients[a] \in Client /\ clients[a].addr = a
    BY <2>1 DEF IInv, TableInv
  <2> HIDE DEF a, c
  <2>3. Close(clients[a]) \in Client /\ Close(clients[a]).addr = a /\ ~Close(clients[a]).open
    BY <2>2, CloseClient
  <2>4. clients[a].open \/ Close(clients[a]).held
    BY <2>2, CloseClient
  <2>5. /\ DOMAIN clients' = DOMAIN clients /\ clients'[a] = Close(clients[a])
        /\ \A b \in DOMAIN clients : b # a => clients'[b] = clients[b]
    BY <1>5, <2>1
  <2>6. TableInv'
    BY <1>5, <2>3, <2>5 DEF IInv, TableInv
  <2>7. FreshInv'
    <3>1. fresh \in Seq(Fresh)
      BY <1>1 DEF IInv, FreshInv
    <3>2. NewTcpClient(a, c.id) \in Fresh
      BY <2>1, NewClient
    <3> QED BY <1>1, <1>5, <3>1, <3>2, AppendProperties DEF FreshInv
  <2>8. RetryInv'
    <3>1. retry \in Seq(DOMAIN clients)
      BY DEF IInv, RetryInv
    <3>2. \A n \in DOMAIN retry : retry[n] \in DOMAIN clients
      BY <3>1
    <3> QED BY <1>1, <2>3, <2>5, <3>1, <3>2 DEF IInv, RetryInv
  <2>9. ReplacedInv'
    <3>1. InRetry(a) => Close(clients[a]).held
      BY <2>4 DEF IInv, RetryInv, InRetry
    <3>2. \A b : InRetry(b)' <=> InRetry(b)
      BY <1>1 DEF InRetry
    <3>3. locked
      BY <1>1 DEF IInv, StepInv
    <3> QED BY <1>1, <1>5, <2>1, <2>3, <2>5, <3>1, <3>2, <3>3 DEF IInv, ReplacedInv
  <2> QED BY <1>2, <1>3, <2>6, <2>7, <2>8, <2>9 DEF IInv
<1> QED BY <1>4, <1>5, ChangeFacts

\* The new clients connect, and are lost.
LEMMA DialKeepsIInv == ASSUME IInv, Dial PROVE IInv'
<1>1. /\ watch.state = "changes" /\ watch' = [watch EXCEPT !.state = "stuck"]
      /\ fresh' = [n \in DOMAIN fresh |-> Connect(fresh[n], fresh[n].addr \in reachable)]
      /\ UNCHANGED <<store, log, reachable, stage, clients, todo, locked, retry, replaced>>
  BY DEF Dial, directory
<1>2. fresh' \in Seq(Client)
  <2>1. fresh \in Seq(Fresh)
    BY <1>1 DEF IInv, FreshInv
  <2>2. ASSUME NEW k \in Fresh PROVE Connect(k, k.addr \in reachable) \in Client
    <3>1. k \in Client /\ (k.open <=> k.loops = 1) /\ (k.addr \in reachable) \in BOOLEAN
      BY DEF Fresh
    <3> QED BY <3>1, ConnectClient
  <2>3. DOMAIN fresh = 1..Len(fresh) /\ Len(fresh) \in Nat /\ \A n \in DOMAIN fresh : fresh[n] \in Fresh
    BY <2>1
  <2>4. fresh' \in [1..Len(fresh) -> Client]
    BY <1>1, <2>2, <2>3
  <2> QED BY <2>3, <2>4
<1>3. StepInv' /\ watch'.state = "stuck"
  BY <1>1 DEF IInv, StepInv
<1>4. DirectoryInv'
  BY <1>1 DEF IInv, DirectoryInv, Listed
<1>5. FreshInv'
  BY <1>2, <1>3 DEF FreshInv
<1>6. TableInv' /\ RetryInv' /\ ReplacedInv'
  BY <1>1 DEF IInv, TableInv, RetryInv, ReplacedInv, InRetry
<1> QED BY <1>3, <1>4, <1>5, <1>6 DEF IInv

LEMMA NextKeepsIInv == IInv /\ [Next]_vars => IInv'
<1> SUFFICES ASSUME IInv, [Next]_vars PROVE IInv'
  OBVIOUS
<1>1. CASE Elsewhere
  BY <1>1, ElsewhereKeepsIInv
<1>2. CASE \/ \E a \in Addrs : PeerStarts(a) \/ PeerEnds(a)
           \/ FindFails \/ Subscribe \/ WatchBegins \/ WatchEnds \/ TakeReport
           \/ UNCHANGED vars
  BY <1>2, QuietKeepsIInv
<1>3. CASE InitGatewayClients
  BY <1>3, FindKeepsIInv
<1>4. CASE Collect \/ RetryConnect
  BY <1>4, CollectKeepsIInv, RetryConnectKeepsIInv
<1>5. CASE ServiceChange \/ Dial
  BY <1>5, ServiceChangeKeepsIInv, DialKeepsIInv
<1> QED BY <1>1, <1>2, <1>3, <1>4, <1>5 DEF Next, Initing, Retrying, Watching

-----------------------------------------------------------------------------
(* The theorem.  *)

\* service_change: the client of a gateway that has registered anew is closed
\* and is not connected again, whatever the retry goroutine was about to do.
THEOREM ReplacedIsClosed == Spec => []ReplacedStaysClosed
<1>1. IInv => ReplacedStaysClosed
  BY TypeOfIInv DEF IInv, ReplacedInv, ReplacedStaysClosed
<1> QED BY <1>1, InitIInv, NextKeepsIInv, PTL DEF Spec
=============================================================================
