---------------------------- MODULE OnlineHandle ----------------------------
(***************************************************************************)
(* The online service: OnlineHandle and its UserNodeCache, which records   *)
(* the gateway each user is connected to, as the handlers of several       *)
(* gateway and service connections use it.                                 *)
(*                                                                         *)
(* do_login, do_logout and do_heartbeat work under Lock and Unlock.  The   *)
(* two queries take RLock and release it with Unlock, so every field of    *)
(* the RWMutex is part of the state.                                       *)
(***************************************************************************)
EXTENDS SortedSet, RWMutex

CONSTANTS
  Uids,         \* users, numbered in the order of their uid strings
  Conns,        \* connections to the service, one handler goroutine each
  NoOne,
  MaxSize,      \* MaxCacheSize
  CacheExpire,  \* CacheExpireSec
  Kinds,        \* the methods called in an instance
  MaxTime,      \* bound: the clock stops here
  MaxReqs       \* bound: requests received by all handlers together

ASSUME UidsAssumption == Uids \subseteq Nat /\ Uids # {}
ASSUME ConnsAssumption == NoOne \notin Conns
ASSUME SizesAssumption == MaxSize \in Nat /\ CacheExpire \in Nat
ASSUME KindsAssumption == Kinds \subseteq {"login", "logout", "heartbeat", "get", "batch"} /\ Kinds # {}
ASSUME BoundsAssumption == MaxTime \in Nat /\ MaxReqs \in Nat

VARIABLES
  now,       \* the clock, in seconds
  rw,        \* the RWMutex
  zset,      \* user_cache.zset: its scores
  nodes,     \* user_cache.user_nodes
  pc, req,   \* where each handler is, and the request it handles
  reply,     \* the error text of each handler's last reply
  reqs,      \* requests received so far
  crash,     \* why the process died, or "no"
  lastSeen   \* history: when the cache last took in a login or a heartbeat

cache == <<zset, nodes>>
vars == <<now, rw, cache, pc, req, reply, reqs, crash, lastSeen>>

Queries == {"get", "batch"}
Node == [expire : Nat, addr : {"known", "empty"}]
Request == [kind : Kinds, uid : Uids]

TypeOK ==
  /\ now \in Nat
  /\ IsRWMutex(rw, Conns, NoOne)
  /\ IsMap(zset, Uids, Nat) /\ IsMap(nodes, Uids, Node)
  /\ pc \in [Conns -> {"idle", "lock", "rlock", "wwait", "rwait", "write", "read", "nil"}]
  /\ req \in [Conns -> Request]
  /\ reply \in [Conns -> {"", "inner", "already", "unknown"}]
  /\ reqs \in Nat
  /\ crash \in {"no", "unlock", "nil"}
  /\ lastSeen \in [Uids -> Nat]

Init ==
  /\ now = 0 /\ rw = Unlocked(NoOne)
  /\ zset = EmptyMap /\ nodes = EmptyMap
  /\ pc = [c \in Conns |-> "idle"]
  /\ req = [c \in Conns |-> CHOOSE r \in Request : TRUE]
  /\ reply = [c \in Conns |-> ""]
  /\ reqs = 0 /\ crash = "no"
  /\ lastSeen = [u \in Uids |-> 0]

Running == crash = "no"
At(c, step, kinds) == Running /\ pc[c] = step /\ req[c].kind \in kinds

Clock ==
  /\ Running /\ now < MaxTime
  /\ now' = now + 1
  /\ UNCHANGED <<rw, cache, pc, req, reply, reqs, crash, lastSeen>>

-----------------------------------------------------------------------------
(* UserNodeCache. *)

\* get_user: the comparison is the source's, which finds a record from the
\* moment it has expired.
Found(u) == u \in DOMAIN nodes /\ nodes[u].expire <= now

\* Seeded fault: the cache may grow one beyond its size.
MakeRoomLate(u) ==
  IF u \in DOMAIN nodes \/ Cardinality(DOMAIN zset) <= MaxSize \/ zset = EmptyMap
  THEN cache
  ELSE LET v == MinMember(zset) IN <<Delete(zset, v), Delete(nodes, v)>>

\* The first half of Set: a new user in a full cache evicts the lowest score.
MakeRoom(u) ==
  IF u \in DOMAIN nodes \/ Cardinality(DOMAIN zset) < MaxSize \/ zset = EmptyMap
  THEN cache
  ELSE LET v == MinMember(zset) IN <<Delete(zset, v), Delete(nodes, v)>>

\* Seeded fault: the score of a user already present stays.
SetOnce(u, node) == LET room == MakeRoom(u) IN
  IF u \in DOMAIN nodes \/ MaxSize = 0
  THEN lastSeen' = [lastSeen EXCEPT ![u] = now] /\ UNCHANGED cache
  ELSE /\ zset' = Put(room[1], u, node.expire)
       /\ nodes' = Put(room[2], u, node)
       /\ lastSeen' = [lastSeen EXCEPT ![u] = now]

\* Seeded fault: the heartbeat's record takes the place of the login's.
SetWhole(u, node) == LET room == MakeRoom(u) IN
  /\ zset' = Put(room[1], u, node.expire)
  /\ nodes' = Put(room[2], u, node)
  /\ lastSeen' = [lastSeen EXCEPT ![u] = now]

\* Set: Add reports only insertions, and for a user already present the new
\* score stays while the record does not follow.
Set(u, node) == LET room == MakeRoom(u) IN
  IF MaxSize = 0 /\ u \notin DOMAIN nodes
  THEN UNCHANGED <<cache, lastSeen>>
  ELSE /\ zset' = Put(room[1], u, node.expire)
       /\ nodes' = IF u \in DOMAIN room[1] THEN room[2] ELSE Put(room[2], u, node)
       /\ lastSeen' = [lastSeen EXCEPT ![u] = now]

SetFails(u) == u \in DOMAIN zset \/ MaxSize = 0

Del(u) ==
  /\ zset' = Delete(zset, u) /\ nodes' = Delete(nodes, u)
  /\ UNCHANGED lastSeen

-----------------------------------------------------------------------------
(* The handlers. *)

Recv(c) ==
  /\ Running /\ pc[c] = "idle" /\ reqs < MaxReqs
  /\ reqs' = reqs + 1
  /\ \E r \in Request :
       /\ req' = [req EXCEPT ![c] = r]
       /\ pc' = [pc EXCEPT ![c] = IF r.kind \in Queries THEN "rlock" ELSE "lock"]
  /\ UNCHANGED <<now, rw, cache, reply, crash, lastSeen>>

Waits == <<now, cache, req, reply, reqs, crash, lastSeen>>

Lock(c) ==
  /\ Running /\ pc[c] = "lock" /\ rw.writer = NoOne
  /\ rw' = Announced(rw, c)
  /\ pc' = [pc EXCEPT ![c] = IF MustWaitToWrite(rw) THEN "wwait" ELSE "write"]
  /\ UNCHANGED Waits

\* Seeded fault: readers do not wait for the writer.
RLockAtOnce(c) ==
  /\ Running /\ pc[c] = "rlock"
  /\ rw' = RLocked(rw)
  /\ pc' = [pc EXCEPT ![c] = "read"]
  /\ UNCHANGED Waits

RLock(c) ==
  /\ Running /\ pc[c] = "rlock"
  /\ rw' = RLocked(rw)
  /\ pc' = [pc EXCEPT ![c] = IF MustWaitToRead(rw) THEN "rwait" ELSE "read"]
  /\ UNCHANGED Waits

Wake(c) ==
  /\ Running /\ pc[c] = "rwait" /\ rw.tokens > 0
  /\ rw' = TakeToken(rw)
  /\ pc' = [pc EXCEPT ![c] = "read"]
  /\ UNCHANGED Waits

\* Unlock, and go on at step.
Unlock(c, step) ==
  IF UnlockIsFatal(rw)
  THEN crash' = "unlock" /\ UNCHANGED <<rw, pc>>
  ELSE /\ rw' = UnlockedBy(rw, NoOne)
       /\ pc' = [pc EXCEPT ![c] = step]
       /\ UNCHANGED crash

Done(c, text) ==
  /\ Unlock(c, "idle")
  /\ reply' = [reply EXCEPT ![c] = text]
  /\ UNCHANGED <<now, req, reqs>>

Record(addr) == [expire |-> now + CacheExpire, addr |-> addr]

Login(c) == LET u == req[c].uid IN
  /\ At(c, "write", {"login"})
  /\ IF Found(u)
     THEN UNCHANGED <<cache, lastSeen>> /\ Done(c, "already")
     ELSE Set(u, Record("known")) /\ Done(c, IF SetFails(u) THEN "inner" ELSE "")

\* Seeded fault: the error is returned before Unlock.
LogoutKeepingLock(c) == LET u == req[c].uid IN
  /\ At(c, "write", {"logout"})
  /\ IF Found(u)
     THEN Del(u) /\ Done(c, "")
     ELSE /\ pc' = [pc EXCEPT ![c] = "idle"]
          /\ reply' = [reply EXCEPT ![c] = "unknown"]
          /\ UNCHANGED <<now, rw, cache, req, reqs, crash, lastSeen>>

Logout(c) == LET u == req[c].uid IN
  /\ At(c, "write", {"logout"})
  /\ IF Found(u)
     THEN Del(u) /\ Done(c, "")
     ELSE UNCHANGED <<cache, lastSeen>> /\ Done(c, "unknown")

\* The gateway's heartbeat carries neither host nor port.
Heartbeat(c) == LET u == req[c].uid IN
  /\ At(c, "write", {"heartbeat"})
  /\ Set(u, Record("empty"))
  /\ Done(c, IF SetFails(u) THEN "inner" ELSE "")

\* get_user under the read lock, Unlock, and for do_get_user_node *user.
Query(c) ==
  /\ At(c, "read", Queries)
  /\ Unlock(c, IF req[c].kind = "get" /\ ~Found(req[c].uid) THEN "nil" ELSE "idle")
  /\ reply' = [reply EXCEPT ![c] = ""]
  /\ UNCHANGED <<now, cache, req, reqs, lastSeen>>

NilUser(c) ==
  /\ Running /\ pc[c] = "nil"
  /\ crash' = "nil"
  /\ UNCHANGED <<now, rw, cache, pc, req, reply, reqs, lastSeen>>

Step(c) == \/ Lock(c) \/ RLock(c) \/ Wake(c)
           \/ Login(c) \/ Logout(c) \/ Heartbeat(c)
           \/ Query(c) \/ NilUser(c)

\* A dead process, or a clock at its bound, changes nothing more.
Stopped == (~Running \/ now = MaxTime) /\ UNCHANGED vars

Next == Clock \/ (\E c \in Conns : Recv(c) \/ Step(c)) \/ Stopped

Spec == Init /\ [][Next]_vars

\* Goroutines that can run do run, and a waiter for the lock gets it.
FairSpec == Spec /\ \A c \in Conns : SF_vars(Step(c))

-----------------------------------------------------------------------------
(* What the code promises. *)

\* The sorted set and the map hold the same users, no more than the cache may,
\* and a score is never older than the record it stands for.
CacheInStep ==
  /\ TypeOK
  /\ DOMAIN zset = DOMAIN nodes
  /\ Cardinality(DOMAIN nodes) <= MaxSize
  /\ \A u \in DOMAIN nodes : nodes[u].expire <= zset[u]

\* "lru特性的用户节点缓存" (user_node_cache.go:14): unless it logs out, a user
\* leaves only to make room for another, and only if nobody who stays has been
\* silent for longer.
EvictsLeastRecent ==
  [][\A u \in DOMAIN nodes : u \notin (DOMAIN nodes)' =>
       \/ \E c \in Conns : pc[c] = "write" /\ req[c] = [kind |-> "logout", uid |-> u]
       \/ \A v \in DOMAIN nodes : lastSeen[u] <= lastSeen[v]]_vars

\* A heartbeat brings neither host nor port (gateway_handle.go:133): it must not
\* cost a user the address that the login has stored, to which pushes go.
HeartbeatKeepsAddress ==
  [][\A u \in (DOMAIN nodes) \cap (DOMAIN nodes)' :
       nodes[u].addr = "known" => nodes'[u].addr = "known"]_vars

\* RLock paired with Unlock still keeps queries and updates apart.
WriterAlone ==
  \A c, d \in Conns : pc[c] = "write" /\ d # c => pc[d] \notin {"write", "read"}

\* Updates do not block one another: a login, logout or heartbeat that is never
\* answered waits for a query, which never gives up its place as a reader.
UpdatesAnswered ==
  \A c \in Conns : pc[c] = "lock" ~> pc[c] = "idle" \/ rw.readers > 0 \/ ~Running

-----------------------------------------------------------------------------
(* What the documents promise and the code does not do. *)

\* "用户心跳（保活）" (README.txt:19): a user whose login or heartbeat is younger
\* than CacheExpireSec is known to be online, to whoever asks and to its logout.
KeptAliveIsFound ==
  \A u \in DOMAIN nodes : now < lastSeen[u] + CacheExpire => Found(u)
==============================================================================
