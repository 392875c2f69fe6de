---------------------------- MODULE GatewayConns ----------------------------
(***************************************************************************)
(* The session table of the gateway (GWUserConnMgr) as its three kinds of  *)
(* goroutines drive it: one handler per client connection, the elimination *)
(* timer, and the wall clock.                                              *)
(*                                                                         *)
(* Handlers change the table under the manager's mutex.  The elimination   *)
(* pass locks and unlocks that mutex before it starts and holds nothing    *)
(* while it works, so each of its map and list accesses is a step of its   *)
(* own here.  A handler's critical section is two steps, the change to the *)
(* sorted set and the rest, which is where the pass can come between.      *)
(***************************************************************************)
EXTENDS SortedSet, Sequences

CONSTANTS
  Uids,          \* users, numbered in the order of their uid strings
  Chans,         \* client connections; a channel id is never used twice
  NoOne,         \* nobody holds the mutex
  MaxConn,       \* max_conn_size
  ConnTimeout,   \* conn_timeout_sec, also the period of the timer
  Cmds,          \* the commands clients send in an instance
  MaxTime,       \* bound: the clock stops here
  MaxReqs        \* bound: requests received by all handlers together

ASSUME UidsAssumption == Uids \subseteq Nat /\ Uids # {}
ASSUME ChansAssumption == NoOne \notin Chans
ASSUME MaxConnAssumption == MaxConn \in Nat
ASSUME ConnTimeoutAssumption == ConnTimeout \in Nat \ {0}
ASSUME CmdsAssumption == Cmds \subseteq {"login", "logout", "heartbeat", "cmd"} /\ Cmds # {}
ASSUME BoundsAssumption == MaxTime \in Nat /\ MaxReqs \in Nat

VARIABLES
  now,        \* the clock, in seconds
  tick,       \* the ticker's channel holds a tick (its buffer is one)
  mu,         \* the handler that holds the mutex, or NoOne
  scores,     \* zset_uid.dict
  list,       \* the nodes of zset_uid.skiplist
  conns,      \* user_conns
  chan,       \* state of each connection
  pc, req,    \* where each handler is, and the request it handles
  pass,       \* where the elimination pass is
  elems,      \* the entries the pass still has to remove
  held,       \* the score the pass read before it unlinks an entry
  users,      \* the users the pass has collected to notify
  announced,  \* logins minus logouts cast to the online service, per user
  reqs,       \* requests received so far
  crash,      \* why the process died, or "no"
  raced       \* history: users whose handler overlapped a pass that held them

table   == <<scores, list, conns>>
handler == <<pc, req, reqs>>
sweeper == <<pass, elems, held, users>>
vars == <<now, tick, mu, table, chan, handler, sweeper, announced, crash, raced>>

Session == [chan : Chans, expire : Nat]
Request == [cmd : Cmds, uid : Uids, ts : Nat]

InSection  == {"store", "drop", "extend"}
SweepSteps == {"range", "lookup", "zread", "zlist", "zdict", "conn"}

TypeOK ==
  /\ now \in Nat /\ tick \in BOOLEAN
  /\ mu \in Chans \cup {NoOne}
  /\ IsMap(scores, Uids, Nat)
  /\ list \subseteq Nat \X Uids
  /\ IsMap(conns, Uids, Session)
  /\ chan \in [Chans -> {"new", "open", "closed"}]
  /\ pc \in [Chans -> {"idle", "lock", "cast"} \cup InSection]
  /\ req \in [Chans -> Request]
  /\ pass \in {"wait", "notify", "close"} \cup SweepSteps
  /\ elems \subseteq Nat \X Uids
  /\ held \in Nat
  /\ users \in Seq(Uids \X Chans)
  /\ announced \in [Uids -> Int]
  /\ reqs \in Nat
  /\ crash \in {"no", "nil", "cast", "race"}
  /\ raced \subseteq Uids

NoRequest == CHOOSE r \in [cmd : Cmds, uid : Uids, ts : {0}] : TRUE

Init ==
  /\ now = 0 /\ tick = FALSE
  /\ mu = NoOne
  /\ scores = EmptyMap /\ list = {} /\ conns = EmptyMap
  /\ chan = [c \in Chans |-> "new"]
  /\ pc = [c \in Chans |-> "idle"]
  /\ req = [c \in Chans |-> NoRequest]
  /\ pass = "wait" /\ elems = {} /\ held = 0 /\ users = <<>>
  /\ announced = [u \in Uids |-> 0]
  /\ reqs = 0 /\ crash = "no" /\ raced = {}

Running == crash = "no"
Free    == mu = NoOne
Sweeping == pass \in SweepSteps

\* The users the pass has read from the list and not yet removed.
Captured == {Member(e) : e \in elems}

-----------------------------------------------------------------------------
(* The clock and the connections. *)

\* A tick that finds the ticker's buffer full is dropped.
Clock ==
  /\ Running /\ now < MaxTime
  /\ now' = now + 1
  /\ tick' = (tick \/ (now + 1) % ConnTimeout = 0)
  /\ UNCHANGED <<mu, table, chan, handler, sweeper, announced, crash, raced>>

Accept(c) ==
  /\ Running /\ chan[c] = "new"
  /\ chan' = [chan EXCEPT ![c] = "open"]
  /\ UNCHANGED <<now, tick, mu, table, handler, sweeper, announced, crash, raced>>

\* RecvPacket fails: the receive loop ends and the channel is removed.  No
\* handler is told (OnClose is never called), so a session stays behind.
Disconnect(c) ==
  /\ Running /\ chan[c] = "open" /\ pc[c] = "idle"
  /\ chan' = [chan EXCEPT ![c] = "closed"]
  /\ UNCHANGED <<now, tick, mu, table, handler, sweeper, announced, crash, raced>>

Recv(c) ==
  /\ Running /\ chan[c] = "open" /\ pc[c] = "idle" /\ reqs < MaxReqs
  /\ reqs' = reqs + 1
  /\ \E cmd \in Cmds, u \in Uids :
       req' = [req EXCEPT ![c] = [cmd |-> cmd, uid |-> u, ts |-> now]]
  /\ pc' = [pc EXCEPT ![c] = "lock"]
  /\ UNCHANGED <<now, tick, mu, table, chan, sweeper, announced, crash, raced>>

-----------------------------------------------------------------------------
(* The handlers: do_login, do_logout, do_heartbeat and do_cmd. *)

At(c, step, cmd) == Running /\ pc[c] = step /\ req[c].cmd = cmd

\* The pass holds an entry of the user this section is about to change.
NoteRace(u) == raced' = IF u \in Captured THEN raced \cup {u} ELSE raced

\* Seeded fault: the section does not take the mutex.
EnterUnlocked(c, step) ==
  /\ Free /\ UNCHANGED mu
  /\ pc' = [pc EXCEPT ![c] = step]
  /\ req' = [req EXCEPT ![c] = [cmd |-> @.cmd, uid |-> @.uid, ts |-> now]]
  /\ NoteRace(req[c].uid)

\* Lock, change the sorted set, and go on to the rest of the section.
Enter(c, step) ==
  /\ Free /\ mu' = c
  /\ pc' = [pc EXCEPT ![c] = step]
  /\ req' = [req EXCEPT ![c] = [cmd |-> @.cmd, uid |-> @.uid, ts |-> now]]
  /\ NoteRace(req[c].uid)

\* A section that returns before it has changed anything.
Refuse(c, step) ==
  /\ Free
  /\ pc' = [pc EXCEPT ![c] = step]
  /\ UNCHANGED <<mu, table, req, raced>>

Leave(c) ==
  /\ mu' = NoOne
  /\ pc' = [pc EXCEPT ![c] = "cast"]
  /\ UNCHANGED <<req, raced>>

Untouched == UNCHANGED <<now, tick, chan, sweeper, announced, reqs, crash>>

\* Seeded fault: the timeout is subtracted.
SetScoreEarly(u, s) ==
  /\ scores' = Put(scores, u, s - ConnTimeout)
  /\ list' = ListAdd(list, scores, u, s - ConnTimeout)

SetScore(u, s) ==
  /\ scores' = Put(scores, u, s)
  /\ list' = ListAdd(list, scores, u, s)

\* Seeded fault: the node stays in the list.
DropScoreKeepNode(u) == scores' = Delete(scores, u) /\ UNCHANGED list

\* zset_uid.Remove(uid) on a member that is present.
DropScore(u) ==
  /\ scores' = Delete(scores, u)
  /\ list' = ListRemove(list, scores, u)

\* Seeded fault: the user is added to the set before the checks.
LoginRefusedLate(c) == LET u == req[c].uid IN
  /\ At(c, "lock", "login") /\ Free
  /\ u \in DOMAIN conns \/ Cardinality(DOMAIN scores) >= MaxConn
  /\ SetScore(u, now)
  /\ NoteRace(u)
  /\ pc' = [pc EXCEPT ![c] = "idle"]
  /\ UNCHANGED <<mu, conns, req>>
  /\ Untouched

LoginRefused(c) == LET u == req[c].uid IN
  /\ At(c, "lock", "login")
  /\ u \in DOMAIN conns \/ Cardinality(DOMAIN scores) >= MaxConn
  /\ Refuse(c, "idle")
  /\ Untouched

\* The set already knows the user: its score changes and the login fails.
LoginFails(c) == LET u == req[c].uid IN
  /\ At(c, "lock", "login") /\ Free
  /\ u \notin DOMAIN conns /\ Cardinality(DOMAIN scores) < MaxConn
  /\ u \in DOMAIN scores
  /\ SetScore(u, now)
  /\ NoteRace(u)
  /\ pc' = [pc EXCEPT ![c] = "idle"]
  /\ UNCHANGED <<mu, conns, req>>
  /\ Untouched

\* Seeded fault: the limit is off by one.
LoginAddOneMore(c) == LET u == req[c].uid IN
  /\ At(c, "lock", "login")
  /\ u \notin DOMAIN conns /\ Cardinality(DOMAIN scores) <= MaxConn
  /\ u \notin DOMAIN scores
  /\ Enter(c, "store")
  /\ SetScore(u, now)
  /\ UNCHANGED conns
  /\ Untouched

LoginAdd(c) == LET u == req[c].uid IN
  /\ At(c, "lock", "login")
  /\ u \notin DOMAIN conns /\ Cardinality(DOMAIN scores) < MaxConn
  /\ u \notin DOMAIN scores
  /\ Enter(c, "store")
  /\ SetScore(u, now)
  /\ UNCHANGED conns
  /\ Untouched

LoginStore(c) == LET u == req[c].uid IN
  /\ At(c, "store", "login")
  /\ conns' = Put(conns, u, [chan |-> c, expire |-> req[c].ts + ConnTimeout])
  /\ Leave(c)
  /\ UNCHANGED <<scores, list>>
  /\ Untouched

LogoutRefused(c) ==
  /\ At(c, "lock", "logout")
  /\ req[c].uid \notin DOMAIN scores
  /\ Refuse(c, "idle")
  /\ Untouched

LogoutRemove(c) == LET u == req[c].uid IN
  /\ At(c, "lock", "logout")
  /\ u \in DOMAIN scores
  /\ Enter(c, "drop")
  /\ DropScore(u)
  /\ UNCHANGED conns
  /\ Untouched

\* Seeded fault: the session is left in user_conns.
LogoutDropNothing(c) ==
  /\ At(c, "drop", "logout")
  /\ Leave(c)
  /\ UNCHANGED table
  /\ Untouched

\* Seeded fault: user_conns is emptied.
LogoutDropAll(c) ==
  /\ At(c, "drop", "logout")
  /\ conns' = EmptyMap
  /\ Leave(c)
  /\ UNCHANGED <<scores, list>>
  /\ Untouched

LogoutDrop(c) ==
  /\ At(c, "drop", "logout")
  /\ conns' = Delete(conns, req[c].uid)
  /\ Leave(c)
  /\ UNCHANGED <<scores, list>>
  /\ Untouched

\* The result of RefreshUserConn is ignored: the heartbeat is cast anyway.
RefreshRefused(c) ==
  /\ At(c, "lock", "heartbeat")
  /\ req[c].uid \notin DOMAIN conns
  /\ Refuse(c, "cast")
  /\ Untouched

\* zset_uid.Add reports an insertion, and only then ExpireTs follows.
RefreshScore(c) == LET u == req[c].uid IN
  /\ At(c, "lock", "heartbeat")
  /\ u \in DOMAIN conns
  /\ Enter(c, "extend")
  /\ SetScore(u, now + ConnTimeout)
  /\ conns' = IF u \in DOMAIN scores THEN conns
              ELSE [conns EXCEPT ![u] = [chan |-> @.chan, expire |-> now + ConnTimeout]]
  /\ Untouched

RefreshLeave(c) ==
  /\ At(c, "extend", "heartbeat")
  /\ Leave(c)
  /\ UNCHANGED table
  /\ Untouched

\* Seeded fault: a heartbeat is cast as a login.
CastHeartbeatAsLogin(c) ==
  /\ Running /\ pc[c] = "cast"
  /\ announced' = [announced EXCEPT ![req[c].uid] = @ + (IF req[c].cmd = "logout" THEN -1 ELSE 1)]
  /\ pc' = [pc EXCEPT ![c] = "idle"]
  /\ UNCHANGED <<now, tick, mu, table, chan, req, reqs, sweeper, crash, raced>>

\* The cast to the online service happens after the mutex is released.
Cast(c) ==
  /\ Running /\ pc[c] = "cast"
  /\ announced' = [announced EXCEPT ![req[c].uid] =
       @ + (CASE req[c].cmd = "login" -> 1
              [] req[c].cmd = "logout" -> -1
              [] OTHER -> 0)]
  /\ pc' = [pc EXCEPT ![c] = "idle"]
  /\ UNCHANGED <<now, tick, mu, table, chan, req, reqs, sweeper, crash, raced>>

\* do_cmd asserts a type that no body decoded from the wire has.
DoCmd(c) ==
  /\ At(c, "lock", "cmd")
  /\ crash' = "cast"
  /\ UNCHANGED <<now, tick, mu, table, chan, handler, sweeper, announced, raced>>

Section(c) ==
  \/ LoginRefused(c) \/ LoginFails(c) \/ LoginAdd(c)
  \/ LogoutRefused(c) \/ LogoutRemove(c)
  \/ RefreshRefused(c) \/ RefreshScore(c)
  \/ DoCmd(c)

Finish(c) == LoginStore(c) \/ LogoutDrop(c) \/ RefreshLeave(c) \/ Cast(c)

-----------------------------------------------------------------------------
(* The elimination pass: EliminateTimeoutUserConns and eliminate_user. *)

Others == <<now, mu, handler>>

\* Lock, and Unlock at once: the pass waits for a section under way, then
\* runs beside the next ones.
SweepBegin ==
  /\ Running /\ pass = "wait" /\ tick /\ Free
  /\ tick' = FALSE
  /\ pass' = "range" /\ users' = <<>>
  /\ UNCHANGED <<Others, table, chan, elems, held, announced, crash, raced>>

\* The entries whose score is not above the clock, read in one traversal.
SweepRange ==
  /\ Running /\ pass = "range"
  /\ elems' = InRange(list, 0, now)
  /\ pass' = IF elems' = {} THEN "notify" ELSE "lookup"
  /\ raced' = raced \cup {u \in Uids : /\ \E e \in elems' : Member(e) = u
                                       /\ \E c \in Chans : mu = c /\ req[c].uid = u}
  /\ UNCHANGED <<Others, tick, table, chan, held, users, announced, crash>>

Current == Member(FirstOf(elems))

\* user := user_conns[member]; *user
SweepLookup ==
  /\ Running /\ pass = "lookup"
  /\ IF Current \in DOMAIN conns
     THEN /\ users' = Append(users, <<Current, conns[Current].chan>>)
          /\ pass' = "zread"
          /\ UNCHANGED crash
     ELSE /\ crash' = "nil"
          /\ UNCHANGED <<users, pass>>
  /\ UNCHANGED <<Others, tick, table, chan, elems, held, announced, raced>>

\* v, ok := dict[member]; when it is absent Remove returns at once.
SweepRead ==
  /\ Running /\ pass = "zread"
  /\ IF Current \in DOMAIN scores
     THEN pass' = "zlist" /\ held' = scores[Current]
     ELSE pass' = "conn" /\ UNCHANGED held
  /\ UNCHANGED <<Others, tick, table, chan, elems, users, announced, crash, raced>>

\* skiplist.remove(member, v.Score).  When a section changes the list at the
\* same time, both may have read the same links: the node stays linked, or the
\* other goroutine's insertion is lost, or its removal of an earlier score is.
SweepList ==
  /\ Running /\ pass = "zlist"
  /\ LET gone == list \ {Entry(Current, held)} IN
     \/ list' = gone /\ UNCHANGED raced
     \/ \E c \in Chans :
          /\ mu = c
          /\ \/ list' \in {list, {e \in gone : Member(e) # req[c].uid}}
             \/ /\ req[c].cmd # "login"
                /\ \E s \in 0..(now + ConnTimeout) : list' = gone \cup {Entry(req[c].uid, s)}
          /\ raced' = raced \cup {Current, req[c].uid}
  /\ pass' = "zdict"
  /\ UNCHANGED <<Others, tick, scores, conns, chan, elems, held, users, announced, crash>>

SweepDict ==
  /\ Running /\ pass = "zdict"
  /\ scores' = Delete(scores, Current)
  /\ pass' = "conn"
  /\ UNCHANGED <<Others, tick, list, conns, chan, elems, held, users, announced, crash, raced>>

SweepConn ==
  /\ Running /\ pass = "conn"
  /\ conns' = Delete(conns, Current)
  /\ elems' = elems \ {FirstOf(elems)}
  /\ pass' = IF elems' = {} THEN "notify" ELSE "lookup"
  /\ UNCHANGED <<Others, tick, scores, list, chan, held, users, announced, crash, raced>>

\* eliminate_user, for each user collected: cast the logout, ...
SweepCast ==
  /\ Running /\ pass = "notify"
  /\ IF users = <<>>
     THEN pass' = "wait" /\ UNCHANGED announced
     ELSE /\ announced' = [announced EXCEPT ![Head(users)[1]] = @ - 1]
          /\ pass' = "close"
  /\ UNCHANGED <<Others, tick, table, chan, elems, held, users, crash, raced>>

\* ... and close the channel the session was bound to.
SweepClose ==
  /\ Running /\ pass = "close"
  /\ chan' = [chan EXCEPT ![Head(users)[2]] = "closed"]
  /\ users' = Tail(users)
  /\ pass' = "notify"
  /\ UNCHANGED <<Others, tick, table, elems, held, announced, crash, raced>>

SweepStep == \/ SweepRange \/ SweepLookup \/ SweepRead \/ SweepList \/ SweepDict \/ SweepConn
             \/ SweepCast \/ SweepClose

\* The runtime stops the process when it catches two goroutines in one map,
\* and the list traversals dereference nil when a node vanishes under them.
RaceCrash ==
  /\ Running /\ Sweeping
  /\ \E c \in Chans : pc[c] \in InSection \cup {"lock"} /\ mu \in {NoOne, c}
  /\ crash' = "race"
  /\ UNCHANGED <<now, tick, mu, table, chan, handler, sweeper, announced, raced>>

\* A dead process, or a clock at its bound, changes nothing more.
Stopped == (~Running \/ now = MaxTime) /\ UNCHANGED vars

Next ==
  \/ Clock
  \/ \E c \in Chans : Accept(c) \/ Disconnect(c) \/ Recv(c) \/ Section(c) \/ Finish(c)
  \/ SweepBegin \/ SweepStep
  \/ RaceCrash
  \/ Stopped

Spec == Init /\ [][Next]_vars

-----------------------------------------------------------------------------
(* What the code promises. *)

One(b) == IF b THEN 1 ELSE 0

InSectionOf(u) == \E c \in Chans : mu = c /\ req[c].uid = u

\* No goroutine is in the middle of changing what the table holds for u.
Settled(u) == u \notin Captured /\ ~InSectionOf(u)

\* For a user whose requests never overlapped a pass that held the user's
\* entry, the two maps and the list agree as soon as nobody is changing them:
\* the sessions of everybody else survive the unlocked pass.
UserConsistent ==
  \A u \in Uids \ raced : Settled(u) =>
    /\ u \in DOMAIN conns <=> u \in DOMAIN scores
    /\ {e \in list : Member(e) = u} =
         (IF u \in DOMAIN scores THEN {Entry(u, scores[u])} ELSE {})

\* Between the lookup of a user and the removal of the session, the session
\* the pass removes is the one whose channel it is going to close.
SweepEndsWhatItRead ==
  (pass \in {"zread", "zlist", "zdict", "conn"} /\ Current \notin raced) =>
     /\ Current \in DOMAIN conns
     /\ users[Len(users)] = <<Current, conns[Current].chan>>

\* The pass dereferences a missing session only for a user in a race.
NilOnlyIfRaced == crash = "nil" => Current \in raced

\* max_conn_size bounds the sessions that are not in a race or on their way out.
UnracedConnLimit == Cardinality(DOMAIN conns \ (raced \cup Captured)) <= MaxConn

Waiting(u, cmd) == Cardinality({c \in Chans : pc[c] = "cast" /\ req[c].cmd = cmd /\ req[c].uid = u})
Collected(u) == Cardinality({i \in 1..Len(users) : users[i][1] = u /\ (i = 1 => pass # "close")})

\* Logins minus logouts the online service will have been told of.
Ledger(u) == announced[u] + Waiting(u, "login") - Waiting(u, "logout") - Collected(u)

\* Whatever the interleaving, no session disappears without a logout on its
\* way to the online service, and outside races the service is told of each
\* session exactly once.
LedgerBalanced ==
  \A u \in Uids :
    /\ Ledger(u) <= One(u \in DOMAIN conns)
    /\ u \notin raced /\ Settled(u) => Ledger(u) = One(u \in DOMAIN conns)

\* No request moves a standing session closer to its elimination.
HeartbeatNeverShortens ==
  [][\A u \in (DOMAIN conns) \cap (DOMAIN scores) :
       u \in (DOMAIN conns)' /\ u \in (DOMAIN scores)' => scores'[u] >= scores[u]]_vars

\* The sessions are those of the abstract table.
Table == INSTANCE SessionTable WITH
  session <- [u \in Uids |-> IF u \in DOMAIN conns THEN conns[u].chan ELSE NoOne]
SessionsRefine == Table!Spec

\* "max_conn_size // 最大连接限制数" (the limit on connections): between passes
\* and sections, at most so many users are connected.
ConnLimit ==
  pass = "wait" /\ Free /\ Running => Cardinality(DOMAIN conns) <= MaxConn
==============================================================================
