------------------------------- MODULE Pusher -------------------------------
(***************************************************************************)
(* PusherHandle's table of gateways: the clients that Init makes of what   *)
(* the directory lists, the goroutine that reconnects them, and the watch  *)
(* goroutine that should follow the changes.                               *)
(*                                                                         *)
(* service_change asks for the mutex a second time while it holds it (its  *)
(* Unlock is deferred), so that the first report of the watch is also the  *)
(* last thing that happens under the mutex.  The workers that would send   *)
(* to the clients are never started.                                       *)
(***************************************************************************)
EXTENDS Directory, TcpClient, SequencesExt

CONSTANT MaxChanges  \* bound: changes of the directory

ASSUME MaxChangesAssumption == MaxChanges \in Nat

VARIABLES
  reachable,  \* addresses where a gateway accepts connections
  stage,      \* Init: "find", "subscribe", "run", "failed"
  clients,    \* the table: a client for each address
  watch,      \* the watch goroutine, and how much of log it has been told
  todo,       \* changes of the report it handles
  fresh,      \* new_clients
  locked,     \* the watch goroutine has the handler's mutex
  retry,      \* retry_clients: addresses the retry goroutine has still to connect
  replaced    \* history: addresses whose client has been closed for another id

pusher == <<stage, clients, watch, todo, fresh, locked, retry, replaced>>
vars == <<directory, reachable, pusher>>

TypeOK ==
  /\ DirectoryTypeOK
  /\ reachable \subseteq Addrs
  /\ stage \in {"find", "subscribe", "run", "failed"}
  /\ DOMAIN clients \subseteq Addrs
  /\ \A a \in DOMAIN clients : IsTcpClient(clients[a], {a}, Ids, {}) /\ clients[a].loops <= 2
  /\ watch \in [state : {"off", "on", "changes", "dial", "stuck", "ended"}, pos : 0..Len(log)]
  /\ todo \in Seq(Change)
  /\ \A n \in DOMAIN fresh : IsTcpClient(fresh[n], Addrs, Ids, {}) /\ fresh[n].loops <= 1
  /\ locked \in BOOLEAN
  /\ retry \in Seq(DOMAIN clients)
  /\ replaced \subseteq DOMAIN clients

Init ==
  /\ DirectoryInit
  /\ reachable = {} /\ stage = "find"
  /\ clients = [a \in {} |-> NewTcpClient(a, NoId)]
  /\ watch = [state |-> "off", pos |-> 0]
  /\ todo = <<>> /\ fresh = <<>> /\ locked = FALSE /\ retry = <<>>
  /\ replaced = {}

-----------------------------------------------------------------------------
(* What surrounds the pusher. *)

Elsewhere == Len(log) < MaxChanges /\ DirectoryNext /\ UNCHANGED <<reachable, pusher>>

PeerStarts(a) ==
  /\ a \notin reachable /\ reachable' = reachable \cup {a}
  /\ UNCHANGED <<directory, pusher>>

PeerEnds(a) ==
  /\ a \in reachable /\ reachable' = reachable \ {a}
  /\ UNCHANGED <<directory, pusher>>

-----------------------------------------------------------------------------
(* Init: Find, then Subscribe, then the retry goroutine. *)

\* init_gateway_clients.
InitGatewayClients ==
  /\ stage = "find"
  /\ clients' = [a \in {b \in Addrs : store[b] # NoId} |->
                   Connect(NewTcpClient(a, store[a]), a \in reachable)]
  /\ stage' = "subscribe"
  /\ UNCHANGED <<directory, reachable, watch, todo, fresh, locked, retry, replaced>>

FindFails ==
  /\ stage = "find" /\ stage' = "failed"
  /\ UNCHANGED <<directory, reachable, clients, watch, todo, fresh, locked, retry, replaced>>

Subscribe ==
  /\ stage = "subscribe" /\ stage' = "run"
  /\ UNCHANGED <<directory, reachable, clients, watch, todo, fresh, locked, retry, replaced>>

\* Subscribe leaves it to a goroutine to open the watch: what changes between
\* Find and this moment is not reported.
WatchBegins ==
  /\ stage = "run" /\ watch.state = "off"
  /\ watch' = [state |-> "on", pos |-> Len(log)]
  /\ UNCHANGED <<directory, reachable, stage, clients, todo, fresh, locked, retry, replaced>>

WatchEnds ==
  /\ watch.state = "on"
  /\ watch' = [watch EXCEPT !.state = "ended"]
  /\ UNCHANGED <<directory, reachable, stage, clients, todo, fresh, locked, retry, replaced>>

-----------------------------------------------------------------------------
(* retry_client_connect. *)

Collect ==
  LET closed == {a \in DOMAIN clients : ~clients[a].open}
  IN /\ stage = "run" /\ retry = <<>> /\ ~locked
     /\ \E order \in SetToSeqs(closed) : retry' = order
     /\ UNCHANGED <<directory, reachable, stage, clients, watch, todo, fresh, locked, replaced>>

\* Seeded fault: it goes on with the next client only after a success.
RetryConnectStubborn ==
  /\ retry # <<>> /\ ~clients[Head(retry)].held
  /\ clients' = [clients EXCEPT ![Head(retry)] = Connect(@, Head(retry) \in reachable)]
  /\ retry' = IF clients'[Head(retry)].open THEN Tail(retry) ELSE retry
  /\ UNCHANGED <<directory, reachable, stage, watch, todo, fresh, locked, replaced>>

\* Without the handler's mutex; a client whose mutex is held keeps it for ever.
RetryConnect ==
  /\ retry # <<>> /\ ~clients[Head(retry)].held
  /\ clients' = [clients EXCEPT ![Head(retry)] = Connect(@, Head(retry) \in reachable)]
  /\ retry' = Tail(retry)
  /\ UNCHANGED <<directory, reachable, stage, watch, todo, fresh, locked, replaced>>

-----------------------------------------------------------------------------
(* service_change. *)

TakeReport ==
  /\ watch.state = "on" /\ ~locked
  /\ \E upto \in (watch.pos + 1)..Len(log) :
       /\ todo' = SubSeq(log, watch.pos + 1, upto)
       /\ watch' = [state |-> "changes", pos |-> upto]
  /\ locked' = TRUE
  /\ UNCHANGED <<directory, reachable, stage, clients, fresh, retry, replaced>>

\* Close of a client that has another id waits for ever if its mutex is held.
Replaces(change) ==
  change.op = "put" /\ change.addr \in DOMAIN clients /\ change.id # clients[change.addr].id

\* A deletion comes without an id, which no client has.
Removes(change) ==
  /\ change.op = "del" /\ change.addr \in DOMAIN clients
  /\ change.id = clients[change.addr].id

ServiceChange ==
  LET change == Head(todo)
      a      == change.addr
  IN /\ watch.state = "changes" /\ todo # <<>>
     /\ (Replaces(change) \/ Removes(change)) => ~clients[a].held
     /\ clients' = IF Replaces(change) THEN [clients EXCEPT ![a] = Close(@)]
                   ELSE IF Removes(change) THEN [b \in DOMAIN clients \ {a} |-> clients[b]]
                   ELSE clients
     /\ fresh' = IF Replaces(change) THEN Append(fresh, NewTcpClient(a, change.id)) ELSE fresh
     /\ replaced' = IF Replaces(change) THEN replaced \cup {a} ELSE replaced \cap DOMAIN clients'
     /\ todo' = Tail(todo)
     /\ UNCHANGED <<directory, reachable, stage, watch, locked, retry>>

\* The new clients connect, and the second Lock never returns.
Dial ==
  /\ watch.state = "changes" /\ todo = <<>>
  /\ fresh' = [n \in DOMAIN fresh |-> Connect(fresh[n], fresh[n].addr \in reachable)]
  /\ watch' = [watch EXCEPT !.state = "stuck"]
  /\ UNCHANGED <<directory, reachable, stage, clients, todo, locked, retry, replaced>>

-----------------------------------------------------------------------------
Initing == InitGatewayClients \/ FindFails \/ Subscribe
Retrying == Collect \/ RetryConnect
Watching == WatchBegins \/ TakeReport \/ ServiceChange \/ Dial

Next ==
  \/ Elsewhere \/ \E a \in Addrs : PeerStarts(a) \/ PeerEnds(a)
  \/ Initing \/ Retrying \/ Watching \/ WatchEnds

Spec == Init /\ [][Next]_vars

\* The goroutines run.
FairSpec == Spec /\ WF_vars(Initing) /\ WF_vars(Retrying) /\ WF_vars(Watching)

-----------------------------------------------------------------------------
(* What becomes of the table. *)

\* The client of a gateway that has registered anew is never used again, even
\* when the retry goroutine had just begun to reconnect it.
ReplacedStaysClosed ==
  /\ TypeOK
  /\ \A a \in replaced : ~clients[a].open

Connected(a) == a \in DOMAIN clients /\ clients[a].open

\* Until the first report, a gateway in the table that can be reached is
\* connected before long, although others may be unreachable.
ReachableIsConnected ==
  \A a \in Addrs :
    stage = "run" /\ a \in DOMAIN clients /\ a \in reachable
      ~> Connected(a) \/ a \notin reachable \/ locked
=============================================================================
