----------------------------- MODULE ObjectProxy -----------------------------
(***************************************************************************)
(* obj_client: the proxy through which a service calls another one.        *)
(*                                                                         *)
(* Callers put requests into the table of requests in flight and into      *)
(* channel_send, both under the proxy's mutex.  The main loop, which owns  *)
(* the two lists of clients, takes requests, ticks of its timer and events *)
(* as they come: changes of the directory and closed clients.              *)
(*                                                                         *)
(* Three things never happen in this code and have no action here.  No     *)
(* answer arrives, because TcpClient does not read.  No Call is answered   *)
(* that there is no client, because taking the request out of the table    *)
(* panics first.  And nothing reaches Broadcast, Close or the events       *)
(* kClientExit and kClientTimeout.                                         *)
(***************************************************************************)
EXTENDS Directory, TcpClient, SequencesExt

CONSTANTS
  Callers,   \* goroutines that call or cast
  Free, Lost,  \* the proxy's mutex when nobody has it, and when nobody will unlock it
  Hashes,    \* hashes of the requests
  MaxReqs,   \* bound: requests issued
  MaxCache,  \* MaxCacheSize: 0 is no limit
  SendCap,   \* places in channel_send and in a client's queue
  EventCap   \* places in channel_event

ASSUME CallersAssumption == IsFiniteSet(Callers) /\ {Free, Lost} \cap Callers = {} /\ Free # Lost
ASSUME HashesAssumption == Hashes \subseteq Nat
ASSUME SizesAssumption == MaxReqs \in Nat /\ MaxCache \in Nat /\ SendCap \in Nat \ {0} /\ EventCap \in Nat \ {0}

VARIABLES
  reachable,         \* addresses where a process accepts connections
  conns,             \* every TcpClient made so far
  active, inactive,  \* the two lists, as numbers of clients
  events,            \* channel_event
  watch,             \* the watch goroutine: its state and how much of log it has reported
  stage,             \* NewObjectProxy: "subscribe", "find", "run"
  main,              \* the main loop
  todo,              \* changes of the event it is working through
  job,               \* the request it is sending, and the client chosen for it
  lock,              \* the proxy's mutex
  sends,             \* channel_send
  reqs,              \* lru_reqs: requests in flight
  pc, call,          \* each caller, and the request it makes
  alive,             \* the process has not died of a panic
  issued,            \* history: requests put into the table
  wire,              \* history: what each client's connection has carried
  starts             \* history: the length of log when the watch began and when Find read

lists == <<conns, active, inactive, events>>
loop == <<main, todo, job>>
calls == <<sends, reqs, pc, call, alive, issued>>
subscription == <<watch, stage, starts>>
vars == <<directory, reachable, lists, subscription, loop, lock, calls, wire>>

Request == [n : 1..MaxReqs, hash : Hashes]
Kinds == {"call", "cast"}
Event == [kind : {"changes"}, changes : Seq(Change)] \cup [kind : {"close"}, addr : Addrs, id : Ids]
NoJob == [req |-> [n |-> 0, hash |-> 0], client |-> 0]
NoCall == [kind |-> "cast", hash |-> 0]

TypeOK ==
  /\ DirectoryTypeOK
  /\ reachable \subseteq Addrs
  /\ \A k \in DOMAIN conns : IsTcpClient(conns[k], Addrs, Ids, 1..MaxReqs)
  /\ active \in Seq(DOMAIN conns) /\ inactive \in Seq(DOMAIN conns)
  /\ events \in Seq(Event) /\ Len(events) <= EventCap
  /\ watch \in [state : {"off", "on", "ended"}, pos : 0..Len(log)]
  /\ stage \in {"subscribe", "find", "run"}
  /\ main \in {"select", "changes", "send", "lock", "stuck"}
  /\ todo \in Seq(Change)
  /\ IF main \in {"send", "lock"} THEN job \in [req : Request, client : Nat] ELSE job = NoJob
  /\ main = "send" => job.client \in DOMAIN active
  /\ lock \in Callers \cup {Free, Lost}
  /\ sends \in Seq(Request) /\ Len(sends) <= SendCap
  /\ reqs \subseteq 1..issued
  /\ pc \in [Callers -> {"idle", "lock", "push", "wait"}]
  /\ call \in [Callers -> [kind : Kinds, hash : Hashes \cup {0}]]
  /\ alive \in BOOLEAN /\ issued \in 0..MaxReqs
  /\ wire \in Seq(Seq(1..MaxReqs))
  /\ starts \in [watch : 0..Len(log), find : 0..Len(log)]

ProxyInit(subscribed, at) ==
  /\ conns = <<>> /\ active = <<>> /\ inactive = <<>> /\ events = <<>>
  /\ watch = subscribed /\ stage = at /\ starts = [watch |-> subscribed.pos, find |-> 0]
  /\ main = "select" /\ todo = <<>> /\ job = NoJob
  /\ lock = Free /\ sends = <<>> /\ reqs = {}
  /\ pc = [c \in Callers |-> "idle"] /\ call = [c \in Callers |-> NoCall]
  /\ alive = TRUE /\ issued = 0 /\ wire = <<>>

Init ==
  /\ DirectoryInit
  /\ reachable = {}
  /\ ProxyInit([state |-> "off", pos |-> 0], "subscribe")

Running == alive /\ stage = "run"

-----------------------------------------------------------------------------
(* What surrounds the proxy. *)

Elsewhere ==
  /\ DirectoryNext
  /\ UNCHANGED <<reachable, lists, subscription, loop, lock, calls, wire>>

PeerStarts(a) ==
  /\ reachable' = reachable \cup {a}
  /\ UNCHANGED <<directory, lists, subscription, loop, lock, calls, wire>>

\* Connections made to a process that ends stay open for their clients.
PeerEnds(a) ==
  /\ reachable' = reachable \ {a}
  /\ UNCHANGED <<directory, lists, subscription, loop, lock, calls, wire>>

-----------------------------------------------------------------------------
(* Lists of clients. *)

\* The elements of a set of numbers in ascending order.
Ascending[S \in SUBSET Nat] ==
  CHOOSE q \in [1..Cardinality(S) -> S] : \A m, n \in DOMAIN q : m < n => q[m] < q[n]

\* The elements that are in ks, in the order of the list.
Kept(list, ks) ==
  LET places == Ascending[{x \in DOMAIN list : list[x] \in ks}]
  IN [n \in DOMAIN places |-> list[places[n]]]

\* The list sorted by address, clients of one address staying as they are.
InOrder[list \in Seq(Nat)] ==
  LET before(x, y) == \/ conns[list[x]].addr < conns[list[y]].addr
                      \/ conns[list[x]].addr = conns[list[y]].addr /\ x < y
      places == CHOOSE q \in [DOMAIN list -> DOMAIN list] :
                  \A m, n \in DOMAIN list : m < n => before(q[m], q[n])
  IN [n \in DOMAIN places |-> list[places[n]]]

-----------------------------------------------------------------------------
(* naming.Subscribe and Find, and the watch goroutine. *)

Subscribe ==
  /\ alive /\ stage = "subscribe"
  /\ stage' = "find"
  /\ UNCHANGED <<directory, reachable, lists, watch, starts, loop, lock, calls, wire>>

\* Subscribe leaves it to a goroutine to open the watch.
WatchBegins ==
  /\ alive /\ stage # "subscribe" /\ watch.state = "off"
  /\ watch' = [state |-> "on", pos |-> Len(log)]
  /\ starts' = [starts EXCEPT !.watch = Len(log)]
  /\ UNCHANGED <<directory, reachable, lists, stage, loop, lock, calls, wire>>

\* An error of the watch ends it, which nobody is told.
WatchEnds ==
  /\ alive /\ watch.state = "on"
  /\ watch' = [watch EXCEPT !.state = "ended"]
  /\ UNCHANGED <<directory, reachable, lists, stage, starts, loop, lock, calls, wire>>

\* notify_service_change: one response of the watch may report several changes.
WatchReports ==
  /\ alive /\ watch.state = "on" /\ Len(events) < EventCap
  /\ \E upto \in (watch.pos + 1)..Len(log) :
       /\ events' = Append(events, [kind |-> "changes", changes |-> SubSeq(log, watch.pos + 1, upto)])
       /\ watch' = [watch EXCEPT !.pos = upto]
  /\ UNCHANGED <<directory, reachable, conns, active, inactive, stage, starts, loop, lock, calls, wire>>

\* init: Find returns a map, which is gone through in any order.
Find ==
  LET found == {a \in Addrs : store[a] # NoId}
  IN /\ alive /\ stage = "find"
     /\ \E order \in SetToSeqs(found) :
          /\ conns' = [n \in DOMAIN order |->
                         Connect(NewTcpClient(order[n], store[order[n]]), order[n] \in reachable)]
          /\ active' = Kept([n \in DOMAIN order |-> n], {n \in DOMAIN order : order[n] \in reachable})
          /\ inactive' = Kept([n \in DOMAIN order |-> n], {n \in DOMAIN order : order[n] \notin reachable})
     /\ wire' = [n \in 1..Cardinality(found) |-> <<>>]
     /\ starts' = [starts EXCEPT !.find = Len(log)]
     /\ stage' = "run"
     /\ UNCHANGED <<directory, reachable, events, watch, loop, lock, calls>>

-----------------------------------------------------------------------------
(* The main loop: its timer. *)

\* Seeded fault: it retries only when no client is active.
RetryWhenIdle == active = <<>>

\* The time of the next attempt is set on a copy of ClientData: it is always now.
RetryDue == TRUE

\* retry_client_connect goes through the inactive clients again and again as
\* long as one connects, and never gets past a client whose mutex is held.
RetryClientConnect ==
  LET held   == SelectInSeq(inactive, LAMBDA k : conns[k].held)
      tried  == IF held = 0 THEN inactive ELSE SubSeq(inactive, 1, held - 1)
      up     == {k \in DOMAIN conns : ConnectSucceeds(conns[k], conns[k].addr \in reachable)}
      joined == active \o Kept(tried, up)
  IN /\ Running /\ main = "select" /\ RetryDue
     /\ conns' = [k \in DOMAIN conns |->
                    IF \E n \in DOMAIN tried : tried[n] = k
                    THEN Connect(conns[k], conns[k].addr \in reachable) ELSE conns[k]]
     /\ inactive' = Kept(tried, DOMAIN conns \ up) \o SubSeq(inactive, Len(tried) + 1, Len(inactive))
     /\ IF held = 0 THEN active' = InOrder[joined] /\ main' = "select"
        ELSE active' = joined /\ main' = "stuck"
     /\ UNCHANGED <<directory, reachable, events, subscription, todo, job, lock, calls, wire>>

-----------------------------------------------------------------------------
(* The main loop: events. *)

\* find_client_index: the first client at the address decides, whatever its id.
FindClientIndex(list, a, i) ==
  LET n == SelectInSeq(list, LAMBDA k : conns[k].addr = a)
  IN IF n # 0 /\ i # NoId /\ i # conns[list[n]].id THEN 0 ELSE n

\* Seeded fault: a client at the address will do.
KnownAddress(a, i) == \E k \in ToSet(active) \cup ToSet(inactive) : conns[k].addr = a

Known(a, i) == FindClientIndex(active, a, i) # 0 \/ FindClientIndex(inactive, a, i) # 0

Closing(k) == [kind |-> "close", addr |-> conns[k].addr, id |-> conns[k].id]

\* Seeded fault: the closed client stays on the list.
CloseActiveKeeping(n, then) ==
  LET k == active[n]
  IN /\ conns' = [conns EXCEPT ![k] = Close(@)]
     /\ events' = IF conns[k].open THEN Append(events, Closing(k)) ELSE events
     /\ main' = then /\ UNCHANGED active

\* Close of the n-th active client, by the main loop: it waits for ever for a
\* mutex that is held, and for room in its own queue of events.
CloseActive(n, then) ==
  LET k      == active[n]
      closes == ~conns[k].held
      stuck  == ~closes \/ (conns[k].open /\ Len(events) >= EventCap)
  IN /\ conns' = IF closes THEN [conns EXCEPT ![k] = Close(@)] ELSE conns
     /\ events' = IF conns[k].open /\ ~stuck THEN Append(events, Closing(k)) ELSE events
     /\ active' = IF stuck THEN active ELSE RemoveAt(active, n)
     /\ main' = IF stuck THEN "stuck" ELSE then

TakeEvent ==
  /\ Running /\ main = "select" /\ events # <<>>
  /\ events' = Tail(events)
  /\ IF Head(events).kind = "changes"
     THEN main' = "changes" /\ todo' = Head(events).changes /\ UNCHANGED inactive
     ELSE LET n == FindClientIndex(active, Head(events).addr, Head(events).id)
          IN /\ inactive' = IF n = 0 THEN inactive ELSE Append(inactive, active[n])
             /\ UNCHANGED <<main, todo>>
  /\ UNCHANGED <<directory, reachable, conns, active, subscription, job, lock, calls, wire>>

\* do_event_service_change, one change: a put.
DoPut(a, i) ==
  /\ IF Known(a, i) THEN UNCHANGED <<conns, inactive, wire>>
     ELSE /\ conns' = Append(conns, NewTcpClient(a, i))
          /\ inactive' = Append(inactive, Len(conns) + 1)
          /\ wire' = Append(wire, <<>>)
  /\ UNCHANGED <<active, events>>

\* do_client_remove, with the empty id of a deletion.
DoClientRemove(a, i, then) ==
  LET n == FindClientIndex(active, a, i)
      m == FindClientIndex(inactive, a, i)
  IN IF n # 0 THEN CloseActive(n, then) /\ UNCHANGED inactive
     ELSE /\ inactive' = IF m # 0 THEN RemoveAt(inactive, m) ELSE inactive
          /\ main' = then
          /\ UNCHANGED <<conns, active, events>>

DoChange ==
  LET change == Head(todo)
      then   == IF Len(todo) = 1 THEN "select" ELSE "changes"
  IN /\ Running /\ main = "changes"
     /\ IF change.op = "put" THEN DoPut(change.addr, change.id) /\ main' = then
        ELSE DoClientRemove(change.addr, change.id, then) /\ UNCHANGED wire
     /\ todo' = Tail(todo)
     /\ UNCHANGED <<directory, reachable, subscription, job, lock, calls>>

-----------------------------------------------------------------------------
(* The main loop: requests. *)

\* do_send_by_hash: a request for which there is no client needs the mutex.
TakeRequest ==
  /\ Running /\ main = "select" /\ sends # <<>>
  /\ sends' = Tail(sends)
  /\ main' = IF active = <<>> THEN "lock" ELSE "send"
  /\ job' = [req |-> Head(sends),
             client |-> IF active = <<>> THEN 0 ELSE (Head(sends).hash % Len(active)) + 1]
  /\ UNCHANGED <<directory, reachable, lists, subscription, todo, lock, reqs, pc, call, alive, issued, wire>>

\* The table has no eviction callback, so that Remove panics, which leaves the
\* function without its Unlock; so does the return when there is no record.
LockAfterRemove == Lost

RefuseRequest ==
  /\ Running /\ main = "lock" /\ lock = Free
  /\ reqs' = reqs \ {job.req.n}
  /\ lock' = LockAfterRemove
  /\ main' = "select" /\ job' = NoJob
  /\ UNCHANGED <<directory, reachable, lists, subscription, todo, sends, pc, call, alive, issued, wire>>

\* remove_active_client_by_index gives up when the list is at least as long as
\* the index, counted from 0, which it always is.
FailedClientLeaves(index) == Len(active) < index

\* Seeded fault: a request whose Send reports an error is queued again.
SendRequestAgain ==
  LET k == active[job.client]
  IN /\ Running /\ main = "send" /\ ~SendBlocks(conns[k], SendCap) /\ Len(sends) < SendCap
     /\ conns' = [conns EXCEPT ![k] = Sent(@, job.req.n)]
     /\ sends' = Append(sends, job.req)
     /\ main' = "select" /\ job' = NoJob
     /\ UNCHANGED <<directory, reachable, active, inactive, events, subscription, todo, lock,
                    reqs, pc, call, alive, issued, wire>>

\* Seeded fault: the record goes with the request, and an answer finds none.
SendRequestForgets ==
  LET k == active[job.client]
  IN /\ Running /\ main = "send" /\ ~SendBlocks(conns[k], SendCap)
     /\ conns' = [conns EXCEPT ![k] = Sent(@, job.req.n)]
     /\ reqs' = reqs \ {job.req.n}
     /\ main' = "select" /\ job' = NoJob
     /\ UNCHANGED <<directory, reachable, active, inactive, events, subscription, todo, lock,
                    sends, pc, call, alive, issued, wire>>

SendRequest ==
  LET k == active[job.client]
  IN /\ Running /\ main = "send" /\ ~SendBlocks(conns[k], SendCap)
     /\ IF FailedClientLeaves(job.client - 1)
        THEN CloseActive(job.client, "select") /\ inactive' = Append(inactive, k)
        ELSE /\ conns' = [conns EXCEPT ![k] = Sent(@, job.req.n)]
             /\ main' = "select"
             /\ UNCHANGED <<active, inactive, events>>
     /\ job' = NoJob
     /\ UNCHANGED <<directory, reachable, subscription, todo, lock, calls, wire>>

-----------------------------------------------------------------------------
(* Callers: Call, CallAsync and Cast. *)

Begin(c) ==
  /\ Running /\ pc[c] = "idle"
  /\ issued + Cardinality({d \in Callers : pc[d] = "lock"}) < MaxReqs
  /\ \E kind \in Kinds, hash \in Hashes : call' = [call EXCEPT ![c] = [kind |-> kind, hash |-> hash]]
  /\ pc' = [pc EXCEPT ![c] = "lock"]
  /\ UNCHANGED <<directory, reachable, lists, subscription, loop, lock, sends, reqs, alive, issued, wire>>

\* add_to_call_queue up to lru_reqs.Set, which evicts, and panics, when the
\* table is full; nothing recovers that panic.
Evicts == MaxCache # 0 /\ Cardinality(reqs) = MaxCache

AddToTable(c) ==
  /\ Running /\ pc[c] = "lock" /\ lock = Free
  /\ lock' = c
  /\ issued' = issued + 1
  /\ reqs' = reqs \cup {issued + 1}
  /\ alive' = ~Evicts
  /\ pc' = [pc EXCEPT ![c] = "push"]
  /\ UNCHANGED <<directory, reachable, lists, subscription, loop, sends, call, wire>>

\* Seeded fault: a Cast forgets the Unlock.
AddToQueueLocked(c) ==
  /\ Running /\ pc[c] = "push" /\ Len(sends) < SendCap
  /\ sends' = Append(sends, [n |-> issued, hash |-> call[c].hash])
  /\ lock' = IF call[c].kind = "call" THEN Free ELSE Lost
  /\ pc' = [pc EXCEPT ![c] = IF call[c].kind = "call" THEN "wait" ELSE "idle"]
  /\ call' = [call EXCEPT ![c] = NoCall]
  /\ UNCHANGED <<directory, reachable, lists, subscription, loop, reqs, alive, issued, wire>>

\* channel_send blocks when it is full, with the mutex held.
AddToQueue(c) ==
  /\ Running /\ pc[c] = "push" /\ Len(sends) < SendCap
  /\ sends' = Append(sends, [n |-> issued, hash |-> call[c].hash])
  /\ lock' = Free
  /\ pc' = [pc EXCEPT ![c] = IF call[c].kind = "call" THEN "wait" ELSE "idle"]
  /\ call' = [call EXCEPT ![c] = NoCall]
  /\ UNCHANGED <<directory, reachable, lists, subscription, loop, reqs, alive, issued, wire>>

\* CallTimeoutSec: the only way in which a Call ends.
TimeOut(c) ==
  /\ Running /\ pc[c] = "wait"
  /\ pc' = [pc EXCEPT ![c] = "idle"]
  /\ UNCHANGED <<directory, reachable, lists, subscription, loop, lock, sends, reqs, call, alive, issued, wire>>

-----------------------------------------------------------------------------
(* The send loops of the clients. *)

TakePacket(k) ==
  /\ Running /\ CanTake(conns[k])
  /\ conns' = [conns EXCEPT ![k] = Taken(@)]
  /\ UNCHANGED <<directory, reachable, active, inactive, events, subscription, loop, lock, calls, wire>>

\* SendPacket's error is dropped; it fails at least when the client is closed.
WritePacket(k) ==
  /\ Running
  /\ \E n \in conns[k].hand, ok \in BOOLEAN :
       /\ ok => conns[k].open
       /\ conns' = [conns EXCEPT ![k] = Written(@, n)]
       /\ wire' = IF ok THEN [wire EXCEPT ![k] = Append(@, n)] ELSE wire
  /\ UNCHANGED <<directory, reachable, active, inactive, events, subscription, loop, lock, calls>>

-----------------------------------------------------------------------------
Watching == Subscribe \/ WatchBegins \/ WatchReports
MainLoop == RetryClientConnect \/ TakeEvent \/ DoChange \/ TakeRequest \/ RefuseRequest \/ SendRequest
Caller(c) == AddToTable(c) \/ AddToQueue(c) \/ TimeOut(c)
SendLoop(k) == TakePacket(k) \/ WritePacket(k)

Next ==
  \/ Elsewhere \/ Watching \/ WatchEnds \/ Find \/ MainLoop
  \/ \E a \in Addrs : PeerStarts(a) \/ PeerEnds(a)
  \/ \E c \in Callers : Begin(c) \/ Caller(c)
  \/ \E k \in DOMAIN conns : SendLoop(k)

Spec == Init /\ [][Next]_vars

\* Goroutines run, a select takes whatever stays ready, and time passes for
\* the ticker and for a Call.  No write has to come to an end.
Fairness ==
  /\ WF_vars(Subscribe) /\ WF_vars(WatchBegins) /\ WF_vars(WatchReports) /\ WF_vars(Find)
  /\ WF_vars(RetryClientConnect) /\ WF_vars(TakeEvent) /\ WF_vars(DoChange)
  /\ WF_vars(TakeRequest) /\ WF_vars(RefuseRequest) /\ WF_vars(SendRequest)
  /\ \A c \in Callers : WF_vars(AddToQueue(c)) /\ WF_vars(TimeOut(c)) /\ SF_vars(AddToTable(c))
  /\ \A k \in 1..2 * Cardinality(Ids) : WF_vars(k \in DOMAIN conns /\ TakePacket(k))

FairSpec == Spec /\ Fairness

-----------------------------------------------------------------------------
(* The lists follow the directory. *)

\* No change came between the start of the watch and the reading of the table.
QuietStart == stage = "run" /\ watch.state # "off" /\ starts.watch = starts.find

\* Nothing is missed: the watch began no later than the table was read.
SeesAll == stage = "run" /\ watch.state = "on" /\ starts.watch <= starts.find

Settled == SeesAll /\ watch.pos = Len(log) /\ events = <<>> /\ todo = <<>>

Places(k) == {n \in DOMAIN active : active[n] = k}
Waiting(k) == {n \in DOMAIN inactive : inactive[n] = k}
Listed(a) == {k \in DOMAIN conns : conns[k].addr = a /\ Places(k) \cup Waiting(k) # {}}
IdsAt(a) == {conns[k].id : k \in Listed(a)}

\* A process registered at a while the key of an earlier one was still there.
Overwritten(a) ==
  \E m, n \in DOMAIN log :
    /\ m < n /\ log[m].addr = a /\ log[n].addr = a
    /\ log[m].op = "put" /\ log[n].op = "put"
    /\ \A x \in (m + 1)..(n - 1) : log[x].addr # a

\* After a quiet start a client is on one list once, the active clients and no
\* others are open, one send loop at most writes to a connection, and nobody
\* waits for a mutex that will never be free: if the main loop ever stops, then
\* while it closes a client, at its own full queue of events.
ListsSound ==
  /\ TypeOK
  /\ QuietStart =>
       /\ \A k \in DOMAIN conns :
            /\ Cardinality(Places(k)) + Cardinality(Waiting(k)) <= 1
            /\ Places(k) # {} => conns[k].open \/ main = "stuck"
            /\ Waiting(k) # {} => ~conns[k].open
            /\ conns[k].loops <= 1 /\ ~conns[k].held
       /\ main = "stuck" => Len(events) = EventCap

\* Once all changes are worked off, the service registered at an address has a
\* client, even if the watch repeated changes which Find had already seen; and
\* after a quiet start clients of services that are gone stay only at addresses
\* where a process registered over the key of an earlier one.
ListsFollowDirectory ==
  Settled =>
    \A a \in Addrs :
      /\ store[a] # NoId => store[a] \in IdsAt(a)
      /\ QuietStart => Overwritten(a) \/ IdsAt(a) \subseteq {store[a]}

\* A service that stays registered and reachable ends up with an open client
\* on the active list, unless the main loop has stopped.
Connects ==
  \A a \in Addrs, i \in Ids :
    <>[](store[a] = i /\ a \in reachable /\ SeesAll /\ QuietStart /\ main # "stuck")
      => <>[](\E n \in DOMAIN active : conns[active[n]].id = i /\ conns[active[n]].open)

-----------------------------------------------------------------------------
(* Requests. *)

Copies(n) ==
  Cardinality({x \in DOMAIN sends : sends[x].n = n})
  + (IF job.req.n = n THEN 1 ELSE 0)
  + Cardinality({p \in (DOMAIN conns) \X (1..MaxReqs) :
                   p[2] \in DOMAIN conns[p[1]].queue /\ conns[p[1]].queue[p[2]] = n})
  + Cardinality({k \in DOMAIN conns : n \in conns[k].hand})
  + Cardinality({p \in (DOMAIN conns) \X (1..MaxReqs) : p[2] \in DOMAIN wire[p[1]] /\ wire[p[1]][p[2]] = n})

\* A request is in one place at most: queued for the main loop, in its hands,
\* queued for a client, in a send loop's hands, or written, once, to one
\* connection.  And a connection carries requests in the order in which they
\* were issued, as long as its client has not been connected a second time.
OnceAndInOrder ==
  /\ \A n \in 1..issued : Copies(n) <= 1
  /\ \A k \in DOMAIN conns : conns[k].loops <= 1 =>
       \A x, y \in DOMAIN wire[k] : x < y => wire[k][x] < wire[k][y]

\* Whatever is on its way to a service is in the table of requests in flight,
\* where its answer would be looked for: only a request for which there is no
\* client is taken out, and that one goes nowhere.
InFlightListed ==
  /\ \A x \in DOMAIN sends : sends[x].n \in reqs
  /\ main \in {"send", "lock"} => job.req.n \in reqs
  /\ \A k \in DOMAIN conns : ToSet(conns[k].queue) \cup conns[k].hand \subseteq reqs

\* The services read what they are sent, so that every write comes to an end.
\* They need not: a write has no deadline, and a service whose answers nobody
\* reads, as nobody does here, ends up waiting to write them.
PeersRead == \A k \in 1..2 * Cardinality(Ids) : []<>(k \in DOMAIN conns => conns[k].hand = {})

\* Every Call and Cast returns as long as there is always an active client, and
\* the services read.
CallsReturn ==
  [](alive /\ main # "stuck" /\ (stage = "run" => active # <<>>)) /\ PeersRead
    => \A c \in Callers : pc[c] # "idle" ~> pc[c] = "idle"
=============================================================================
