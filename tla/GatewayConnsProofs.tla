-------------------------- MODULE GatewayConnsProofs --------------------------
(***************************************************************************)
(* Proofs about GatewayConns, for any users, connections, limits, timeout  *)
(* and bounds.                                                             *)
(***************************************************************************)
EXTENDS GatewayConns, SortedSetTheorems, FiniteSetTheorems

-----------------------------------------------------------------------------
(* The inductive invariant. *)

\* A handler is inside its section exactly while it holds the mutex.
LockInv == \A c \in Chans : pc[c] \in InSection <=> mu = c

\* The pass has entries exactly in the steps that work on one.
Working == {"lookup", "zread", "zlist", "zdict", "conn"}
PassInv ==
  /\ pass \in Working <=> elems # {}
  /\ pass = "close" => users # <<>>

\* The check of AddUserConn still holds when it stores the session.
StoreInv == \A c \in Chans : pc[c] = "store" => req[c].uid \notin DOMAIN conns

\* The list has the one node the map asks for, or none.
ListedOnce(u) == /\ Entry(u, scores[u]) \in list
                 /\ \A e \in list : Member(e) = u => e = Entry(u, scores[u])
Unlisted(u) == \A e \in list : Member(e) # u

Whole(u)  == u \in DOMAIN conns /\ u \in DOMAIN scores /\ ListedOnce(u)
Absent(u) == u \notin DOMAIN conns /\ u \notin DOMAIN scores /\ Unlisted(u)

\* A user inside a section, by the section's second step.
SectionInv(u, c) ==
  /\ u \notin Captured
  /\ pc[c] = "store"  => u \notin DOMAIN conns /\ u \in DOMAIN scores /\ ListedOnce(u)
  /\ pc[c] = "drop"   => u \in DOMAIN conns /\ u \notin DOMAIN scores /\ Unlisted(u)
  /\ pc[c] = "extend" => Whole(u)

\* A user the pass has captured, by how far the pass has come with it.
CapturedInv(u) ==
  /\ u # Current \/ pass \in {"lookup", "zread", "zlist"} => Whole(u)
  /\ u = Current =>
       /\ pass = "zlist" => held = scores[u]
       /\ pass = "zdict" => u \in DOMAIN conns /\ u \in DOMAIN scores /\ Unlisted(u)
       /\ pass = "conn"  => u \in DOMAIN conns /\ u \notin DOMAIN scores /\ Unlisted(u)
  /\ \A e, f \in elems : Member(e) = u /\ Member(f) = u => e = f

UserInv(u) ==
  /\ Settled(u) => Whole(u) \/ Absent(u)
  /\ \A c \in Chans : mu = c /\ req[c].uid = u => SectionInv(u, c)
  /\ u \in Captured => CapturedInv(u)

RaceInv == \A u \in Uids \ raced : UserInv(u)

\* Scores are at most one timeout ahead of the clock.
ScoresBounded == \A u \in DOMAIN scores : scores[u] <= now + ConnTimeout

\* The process dies of a missing session only where a race made it missing.
NilInv == crash = "nil" => pass = "lookup" /\ Current \in raced

\* Between the lookup and the removal, the last user collected is the current
\* one, on the channel of its session.
NotedInv ==
  pass \in {"zread", "zlist", "zdict", "conn"} /\ Current \notin raced =>
    users # <<>> /\ users[Len(users)] = <<Current, conns[Current].chan>>

IInv == TypeOK /\ LockInv /\ PassInv /\ StoreInv /\ ScoresBounded /\ RaceInv /\ NotedInv /\ NilInv

\* The inductive invariant without the part about races.
Base == TypeOK /\ LockInv /\ PassInv /\ StoreInv /\ ScoresBounded

-----------------------------------------------------------------------------
(* Facts about the steps that several actions share. *)

\* Before a step that works on an entry, the entry is one of those captured.
LEMMA CurrentCaptured ==
  ASSUME TypeOK, elems # {}
  PROVE  /\ FirstOf(elems) \in elems
         /\ Current \in Uids /\ Current \in Captured
<1>1. elems \in SUBSET (Nat \X Nat)
  BY UidsAssumption DEF TypeOK
<1>2. FirstOf(elems) \in elems
  BY <1>1, FirstOfEntries
<1> QED BY <1>2 DEF TypeOK, Current, Captured, Member

\* The lists of users to notify.
LEMMA Notified ==
  /\ <<>> \in Seq(Uids \X Chans)
  /\ \A s \in Seq(Uids \X Chans) :
       /\ \A u \in Uids, c \in Chans : Append(s, <<u, c>>) \in Seq(Uids \X Chans)
       /\ s # <<>> => Tail(s) \in Seq(Uids \X Chans)
<1> DEFINE P == Uids \X Chans
<1>1. \A u \in Uids, c \in Chans : <<u, c>> \in P
  OBVIOUS
<1> HIDE DEF P
<1>2. <<>> \in Seq(P) /\ \A s \in Seq(P), p \in P : Append(s, p) \in Seq(P)
  OBVIOUS
<1>3. \A s \in Seq(P) : s # <<>> => Tail(s) \in Seq(P)
  OBVIOUS
<1> QED BY <1>1, <1>2, <1>3 DEF P

\* What Put and Delete make of the score map.
LEMMA ScoresPut ==
  ASSUME TypeOK, NEW u \in Uids, NEW s \in Nat, SetScore(u, s)
  PROVE  /\ IsMap(scores', Uids, Nat) /\ list' \subseteq Nat \X Uids
         /\ DOMAIN scores' = DOMAIN scores \cup {u}
         /\ scores'[u] = s
         /\ \A x \in DOMAIN scores \ {u} : scores'[x] = scores[x]
<1>1. IsMap(scores, Uids, Nat) /\ scores' = Put(scores, u, s)
  BY DEF TypeOK, SetScore
<1>2. list' \subseteq Nat \X Uids
  BY DEF TypeOK, SetScore, ListAdd, Entry
<1> QED BY <1>1, <1>2, PutMap

LEMMA ScoresDrop ==
  ASSUME TypeOK, NEW u \in Uids, DropScore(u)
  PROVE  /\ IsMap(scores', Uids, Nat) /\ list' \subseteq Nat \X Uids
         /\ DOMAIN scores' = DOMAIN scores \ {u}
         /\ \A x \in DOMAIN scores \ {u} : scores'[x] = scores[x]
<1>1. IsMap(scores, Uids, Nat) /\ scores' = Delete(scores, u)
  BY DEF TypeOK, DropScore
<1>2. list' \subseteq Nat \X Uids
  BY DEF TypeOK, DropScore, ListRemove
<1> QED BY <1>1, <1>2 DEF IsMap, Delete, Restrict

\* The request a handler works on.
LEMMA RequestFacts ==
  ASSUME TypeOK, NEW c \in Chans
  PROVE  req[c].uid \in Uids /\ req[c].cmd \in Cmds /\ req[c].ts \in Nat
  BY DEF TypeOK, Request

\* Entering a section: its second step, the mutex and the time of the request.
LEMMA EnterFacts ==
  ASSUME TypeOK, NEW c \in Chans, NEW step \in InSection, Enter(c, step)
  PROVE  /\ mu' = c /\ pc' = [pc EXCEPT ![c] = step]
         /\ req' \in [Chans -> Request] /\ raced' \subseteq Uids
         /\ \A d \in Chans : req'[d].uid = req[d].uid /\ req'[d].cmd = req[d].cmd
         /\ raced' = IF req[c].uid \in Captured THEN raced \cup {req[c].uid} ELSE raced
  BY DEF TypeOK, Enter, NoteRace, Request

-----------------------------------------------------------------------------
(* Base is inductive: one lemma per group of actions. *)

LEMMA InitBase == Init => Base
<1> SUFFICES ASSUME Init PROVE Base
  OBVIOUS
<1>1. NoRequest \in [cmd : Cmds, uid : Uids, ts : {0}]
  <2>1. PICK k \in Cmds, u \in Uids : TRUE
    BY UidsAssumption, CmdsAssumption
  <2>2. [cmd |-> k, uid |-> u, ts |-> 0] \in [cmd : Cmds, uid : Uids, ts : {0}]
    OBVIOUS
  <2> HIDE DEF NoRequest
  <2> QED BY <2>2, Zenon DEF NoRequest
<1>2. NoRequest \in Request
  BY <1>1 DEF Request
<1>3. IsMap(EmptyMap, Uids, Nat) /\ IsMap(EmptyMap, Uids, Session)
  BY DEF IsMap, EmptyMap
<1>4. TypeOK
  <2>1. IsMap(scores, Uids, Nat) /\ IsMap(conns, Uids, Session) /\ users \in Seq(Uids \X Chans)
    BY <1>3, Notified DEF Init
  <2>2. req \in [Chans -> Request] /\ announced \in [Uids -> Int]
    BY <1>2 DEF Init
  <2> QED BY <2>1, <2>2 DEF Init, TypeOK, InSection, SweepSteps
<1>5. LockInv /\ PassInv /\ StoreInv /\ ScoresBounded
  BY ChansAssumption
     DEF Init, LockInv, PassInv, StoreInv, ScoresBounded, EmptyMap, InSection, Working
<1> QED BY <1>4, <1>5 DEF Base

\* The steps of the clock, of the connections and of the process.
LEMMA EnvironmentBase ==
  ASSUME Base,
         Clock \/ (\E c \in Chans : Accept(c) \/ Disconnect(c) \/ Recv(c) \/ DoCmd(c)) \/ RaceCrash
  PROVE  Base'
<1> USE DEF Base, table, handler, sweeper
<1>1. CASE Clock
  <2>1. now' = now + 1 /\ tick' \in BOOLEAN
        /\ UNCHANGED <<mu, table, chan, handler, sweeper, announced, crash, raced>>
    BY <1>1, Zenon DEF Clock, TypeOK
  <2>2. now \in Nat /\ now' \in Nat
    BY <2>1 DEF TypeOK
  <2>3. TypeOK'
    BY <2>1, <2>2 DEF TypeOK
  <2>4. LockInv' /\ PassInv' /\ StoreInv'
    BY <2>1 DEF LockInv, PassInv, StoreInv
  <2>5. ScoresBounded'
    BY <2>1, <2>2, ConnTimeoutAssumption DEF ScoresBounded, TypeOK, IsMap
  <2> QED BY <2>3, <2>4, <2>5
<1>2. CASE \E c \in Chans : Accept(c) \/ Disconnect(c) \/ DoCmd(c)
  BY <1>2 DEF Accept, Disconnect, DoCmd, TypeOK, LockInv, PassInv, StoreInv, ScoresBounded
<1>3. ASSUME NEW c \in Chans, Recv(c) PROVE Base'
  <2>1. PICK cmd \in Cmds, u \in Uids :
          req' = [req EXCEPT ![c] = [cmd |-> cmd, uid |-> u, ts |-> now]]
    BY <1>3 DEF Recv
  <2>2. TypeOK'
    BY <1>3, <2>1 DEF Recv, TypeOK, Request
  <2>3. LockInv' /\ PassInv' /\ StoreInv' /\ ScoresBounded'
    BY <1>3, <2>1 DEF Recv, TypeOK, LockInv, PassInv, StoreInv, ScoresBounded, InSection
  <2> QED BY <2>2, <2>3
<1>4. CASE RaceCrash
  BY <1>4 DEF RaceCrash, TypeOK, LockInv, PassInv, StoreInv, ScoresBounded
<1> QED BY <1>1, <1>2, <1>3, <1>4

\* The sections that return at once, and the failed login that only scores.
LEMMA RefusedBase ==
  ASSUME Base, NEW c \in Chans,
         LoginRefused(c) \/ LogoutRefused(c) \/ RefreshRefused(c) \/ LoginFails(c)
  PROVE  Base'
<1> USE DEF Base, table, handler, sweeper
<1>1. CASE LoginRefused(c) \/ LogoutRefused(c) \/ RefreshRefused(c)
  BY <1>1 DEF LoginRefused, LogoutRefused, RefreshRefused, Refuse, At, Untouched, TypeOK, LockInv,
              PassInv, StoreInv, ScoresBounded, InSection
<1>2. CASE LoginFails(c)
  <2> DEFINE u == req[c].uid
  <2>1. u \in Uids /\ now \in Nat /\ SetScore(u, now)
    BY <1>2, RequestFacts DEF LoginFails, TypeOK
  <2> HIDE DEF u
  <2>2. /\ IsMap(scores', Uids, Nat) /\ list' \subseteq Nat \X Uids
        /\ DOMAIN scores' = DOMAIN scores \cup {u} /\ scores'[u] = now
        /\ \A x \in DOMAIN scores \ {u} : scores'[x] = scores[x]
    BY <2>1, ScoresPut
  <2>3. raced' \subseteq Uids
    BY <1>2, <2>1 DEF LoginFails, NoteRace, TypeOK, u
  <2>4. TypeOK'
    BY <1>2, <2>2, <2>3 DEF LoginFails, Untouched, At, TypeOK
  <2>5. LockInv' /\ PassInv' /\ StoreInv'
    BY <1>2 DEF LoginFails, Untouched, At, TypeOK, LockInv, PassInv, StoreInv, InSection
  <2>6. ScoresBounded'
    BY <1>2, <2>1, <2>2, ConnTimeoutAssumption DEF LoginFails, Untouched, ScoresBounded, TypeOK, IsMap
  <2> QED BY <2>4, <2>5, <2>6
<1> QED BY <1>1, <1>2

LEMMA LoginAddBase ==
  ASSUME Base, NEW c \in Chans, LoginAdd(c)
  PROVE  Base'
<1> USE DEF Base, table, handler, sweeper
<1> DEFINE u == req[c].uid
<1>1. u \in Uids /\ now \in Nat /\ SetScore(u, now)
  BY RequestFacts DEF LoginAdd, TypeOK
<1>2. /\ mu' = c /\ pc' = [pc EXCEPT ![c] = "store"]
      /\ req' \in [Chans -> Request] /\ raced' \subseteq Uids
      /\ \A d \in Chans : req'[d].uid = req[d].uid /\ req'[d].cmd = req[d].cmd
  BY EnterFacts DEF LoginAdd, InSection
<1> HIDE DEF u
<1>3. /\ IsMap(scores', Uids, Nat) /\ list' \subseteq Nat \X Uids
      /\ DOMAIN scores' = DOMAIN scores \cup {u} /\ scores'[u] = now
      /\ \A x \in DOMAIN scores \ {u} : scores'[x] = scores[x]
  BY <1>1, ScoresPut
<1>4. TypeOK'
  BY <1>2, <1>3 DEF LoginAdd, Untouched, At, TypeOK, InSection
<1>5. LockInv' /\ PassInv'
  BY <1>2, ChansAssumption DEF LoginAdd, Untouched, Enter, Free, TypeOK, LockInv, PassInv, InSection
<1>6. StoreInv'
  BY <1>2 DEF LoginAdd, TypeOK, StoreInv
<1>7. ScoresBounded'
  BY <1>1, <1>3, ConnTimeoutAssumption DEF LoginAdd, Untouched, ScoresBounded, TypeOK, IsMap
<1> QED BY <1>4, <1>5, <1>6, <1>7

LEMMA LogoutRemoveBase ==
  ASSUME Base, NEW c \in Chans, LogoutRemove(c)
  PROVE  Base'
<1> USE DEF Base, table, handler, sweeper
<1> DEFINE u == req[c].uid
<1>1. u \in Uids /\ DropScore(u)
  BY RequestFacts DEF LogoutRemove, TypeOK
<1>2. /\ mu' = c /\ pc' = [pc EXCEPT ![c] = "drop"]
      /\ req' \in [Chans -> Request] /\ raced' \subseteq Uids
      /\ \A d \in Chans : req'[d].uid = req[d].uid /\ req'[d].cmd = req[d].cmd
  BY EnterFacts DEF LogoutRemove, InSection
<1> HIDE DEF u
<1>3. /\ IsMap(scores', Uids, Nat) /\ list' \subseteq Nat \X Uids
      /\ DOMAIN scores' = DOMAIN scores \ {u}
      /\ \A x \in DOMAIN scores \ {u} : scores'[x] = scores[x]
  BY <1>1, ScoresDrop
<1>4. TypeOK'
  BY <1>2, <1>3 DEF LogoutRemove, Untouched, At, TypeOK, InSection
<1>5. LockInv' /\ PassInv'
  BY <1>2, ChansAssumption
     DEF LogoutRemove, Untouched, Enter, Free, TypeOK, LockInv, PassInv, InSection
<1>6. StoreInv'
  BY <1>2 DEF LogoutRemove, TypeOK, StoreInv
<1>7. ScoresBounded'
  BY <1>1, <1>3 DEF LogoutRemove, Untouched, ScoresBounded, TypeOK, IsMap
<1> QED BY <1>4, <1>5, <1>6, <1>7

\* What a heartbeat writes to user_conns.
LEMMA RefreshConns ==
  ASSUME TypeOK, NEW c \in Chans, RefreshScore(c)
  PROVE  /\ IsMap(conns', Uids, Session)
         /\ DOMAIN conns' = DOMAIN conns
         /\ \A x \in DOMAIN conns : conns'[x].chan = conns[x].chan
<1> DEFINE u == req[c].uid
<1>1. u \in DOMAIN conns /\ IsMap(conns, Uids, Session) /\ now + ConnTimeout \in Nat
  BY ConnTimeoutAssumption DEF RefreshScore, TypeOK
<1>2. CASE conns' = conns
  BY <1>1, <1>2
<1>3. CASE conns' = [conns EXCEPT ![u] = [chan |-> conns[u].chan, expire |-> now + ConnTimeout]]
  BY <1>1, <1>3 DEF IsMap, Session
<1> QED BY <1>2, <1>3 DEF RefreshScore

LEMMA RefreshScoreBase ==
  ASSUME Base, NEW c \in Chans, RefreshScore(c)
  PROVE  Base'
<1> USE DEF Base, table, handler, sweeper
<1> DEFINE u == req[c].uid
<1>1. u \in Uids /\ now + ConnTimeout \in Nat /\ SetScore(u, now + ConnTimeout)
  BY RequestFacts, ConnTimeoutAssumption DEF RefreshScore, TypeOK
<1>2. /\ mu' = c /\ pc' = [pc EXCEPT ![c] = "extend"]
      /\ req' \in [Chans -> Request] /\ raced' \subseteq Uids
      /\ \A d \in Chans : req'[d].uid = req[d].uid /\ req'[d].cmd = req[d].cmd
  BY EnterFacts DEF RefreshScore, InSection
<1> HIDE DEF u
<1>3. /\ IsMap(scores', Uids, Nat) /\ list' \subseteq Nat \X Uids
      /\ DOMAIN scores' = DOMAIN scores \cup {u} /\ scores'[u] = now + ConnTimeout
      /\ \A x \in DOMAIN scores \ {u} : scores'[x] = scores[x]
  BY <1>1, ScoresPut
<1>0. IsMap(conns', Uids, Session) /\ DOMAIN conns' = DOMAIN conns
  BY RefreshConns
<1>4. TypeOK'
  BY <1>0, <1>2, <1>3 DEF RefreshScore, Untouched, At, TypeOK, InSection
<1>5. LockInv' /\ PassInv'
  BY <1>2, ChansAssumption
     DEF RefreshScore, Untouched, Enter, Free, TypeOK, LockInv, PassInv, InSection
<1>6. StoreInv'
  BY <1>0, <1>2 DEF RefreshScore, TypeOK, StoreInv
<1>7. ScoresBounded'
  BY <1>1, <1>3 DEF RefreshScore, Untouched, ScoresBounded, TypeOK, IsMap
<1> QED BY <1>4, <1>5, <1>6, <1>7

\* What the end of a section leaves of user_conns.
LEMMA LoginStoreConns ==
  ASSUME TypeOK, NEW c \in Chans, LoginStore(c)
  PROVE  /\ IsMap(conns', Uids, Session)
         /\ DOMAIN conns' = DOMAIN conns \cup {req[c].uid}
         /\ conns'[req[c].uid].chan = c
         /\ \A x \in DOMAIN conns \ {req[c].uid} : conns'[x] = conns[x]
<1> DEFINE u == req[c].uid
           s == [chan |-> c, expire |-> req[c].ts + ConnTimeout]
<1>1. u \in Uids /\ s \in Session /\ IsMap(conns, Uids, Session) /\ conns' = Put(conns, u, s)
  BY RequestFacts, ConnTimeoutAssumption DEF LoginStore, TypeOK, Session
<1>2. s.chan = c
  OBVIOUS
<1> HIDE DEF u, s
<1>3. /\ IsMap(conns', Uids, Session) /\ DOMAIN conns' = DOMAIN conns \cup {u} /\ conns'[u] = s
      /\ \A x \in DOMAIN conns \ {u} : conns'[x] = conns[x]
  BY <1>1 DEF IsMap, Put
<1> QED BY <1>2, <1>3 DEF u

LEMMA DropConns ==
  ASSUME TypeOK, NEW u \in Uids, conns' = Delete(conns, u)
  PROVE  /\ IsMap(conns', Uids, Session)
         /\ DOMAIN conns' = DOMAIN conns \ {u}
         /\ \A x \in DOMAIN conns \ {u} : conns'[x] = conns[x]
<1>1. IsMap(conns, Uids, Session)
  BY DEF TypeOK
<1> QED BY <1>1 DEF IsMap, Delete, Restrict

\* The second step of a section, and the cast after it.
LEMMA FinishBase ==
  ASSUME Base, NEW c \in Chans, Finish(c)
  PROVE  Base'
<1> USE DEF Base, table, handler, sweeper
<1>0. req[c].uid \in Uids
  BY RequestFacts
<1>1. ASSUME Leave(c), Untouched, pc[c] \in InSection, IsMap(conns', Uids, Session),
             UNCHANGED <<scores, list>>
      PROVE  TypeOK' /\ LockInv' /\ PassInv' /\ ScoresBounded'
  BY <1>1, ChansAssumption
     DEF Leave, Untouched, TypeOK, LockInv, PassInv, ScoresBounded, InSection
<1>2. CASE LoginStore(c)
  <2>1. /\ IsMap(conns', Uids, Session)
        /\ DOMAIN conns' = DOMAIN conns \cup {req[c].uid}
    BY <1>2, LoginStoreConns
  <2>2. pc[c] = "store" /\ Leave(c) /\ Untouched /\ UNCHANGED <<scores, list>>
    BY <1>2 DEF LoginStore, At
  <2>3. \A d \in Chans : pc'[d] # "store"
    BY <2>2 DEF Leave, LockInv, TypeOK, InSection
  <2> QED BY <1>1, <2>1, <2>2, <2>3 DEF StoreInv, InSection
<1>3. CASE LogoutDrop(c)
  <2>1. /\ IsMap(conns', Uids, Session)
        /\ DOMAIN conns' = DOMAIN conns \ {req[c].uid}
    BY <1>0, <1>3, DropConns DEF LogoutDrop
  <2>2. pc[c] = "drop" /\ Leave(c) /\ Untouched /\ UNCHANGED <<scores, list>>
    BY <1>3 DEF LogoutDrop, At
  <2>3. \A d \in Chans : pc'[d] # "store"
    BY <2>2 DEF Leave, LockInv, TypeOK, InSection
  <2> QED BY <1>1, <2>1, <2>2, <2>3 DEF StoreInv, InSection
<1>4. CASE RefreshLeave(c)
  <2>1. pc[c] = "extend" /\ Leave(c) /\ Untouched /\ UNCHANGED table
    BY <1>4 DEF RefreshLeave, At
  <2>2. \A d \in Chans : pc'[d] # "store"
    BY <2>1 DEF Leave, LockInv, TypeOK, InSection
  <2> QED BY <1>1, <2>1, <2>2 DEF StoreInv, InSection, TypeOK
<1>5. CASE Cast(c)
  <2>1. announced' \in [Uids -> Int]
    BY <1>5, <1>0 DEF Cast, TypeOK
  <2> QED BY <1>5, <2>1 DEF Cast, TypeOK, LockInv, PassInv, StoreInv, ScoresBounded, InSection
<1> QED BY <1>2, <1>3, <1>4, <1>5 DEF Finish

\* The pass never leaves the set of entries it works on out of step.
LEMMA SweepBase ==
  ASSUME Base, SweepBegin \/ SweepStep
  PROVE  Base'
<1> USE DEF Base, table, handler, sweeper, Others
<1>c. pass \in Working =>
        FirstOf(elems) \in elems /\ Current \in Uids /\ Current \in Captured
  BY CurrentCaptured DEF PassInv
<1>1. CASE SweepBegin
  <2>1. TypeOK'
    BY <1>1, Notified DEF SweepBegin, TypeOK, SweepSteps
  <2> QED BY <1>1, <2>1 DEF SweepBegin, LockInv, PassInv, StoreInv, ScoresBounded, Working
<1>2. CASE SweepRange
  <2>1. elems' \subseteq Nat \X Uids /\ raced' \subseteq Uids
    BY <1>2 DEF SweepRange, TypeOK, InRange
  <2>2. TypeOK'
    BY <1>2, <2>1 DEF SweepRange, TypeOK, SweepSteps
  <2> QED BY <1>2, <2>2 DEF SweepRange, LockInv, PassInv, StoreInv, ScoresBounded, Working
<1>3. CASE SweepLookup
  <2>1. Current \in Uids
    BY <1>3, <1>c DEF SweepLookup, Working
  <2>2. users' \in Seq(Uids \X Chans)
    <3>1. CASE Current \in DOMAIN conns
      <4>1. conns[Current].chan \in Chans
        BY <3>1 DEF TypeOK, IsMap, Session
      <4>2. users' = Append(users, <<Current, conns[Current].chan>>)
        BY <1>3, <3>1 DEF SweepLookup
      <4>3. users \in Seq(Uids \X Chans)
        BY DEF TypeOK
      <4> QED BY <2>1, <4>1, <4>2, <4>3, Notified
    <3>2. CASE Current \notin DOMAIN conns
      BY <1>3, <3>2 DEF SweepLookup, TypeOK
    <3> QED BY <3>1, <3>2
  <2>3. TypeOK'
    BY <1>3, <2>2 DEF SweepLookup, TypeOK, SweepSteps
  <2> QED BY <1>3, <2>3 DEF SweepLookup, LockInv, PassInv, StoreInv, ScoresBounded, Working
<1>4. CASE SweepRead
  <2>1. held' \in Nat
    BY <1>4 DEF SweepRead, TypeOK, IsMap
  <2>2. TypeOK'
    BY <1>4, <2>1 DEF SweepRead, TypeOK, SweepSteps
  <2> QED BY <1>4, <2>2 DEF SweepRead, LockInv, PassInv, StoreInv, ScoresBounded, Working
<1>5. CASE SweepList
  <2>0. Current \in Uids
    BY <1>5, <1>c DEF SweepList, Working
  <2>1. list' \subseteq Nat \X Uids
    <3>1. CASE list' \subseteq list
      BY <3>1 DEF TypeOK
    <3>2. ASSUME NEW c \in Chans, NEW s \in 0..(now + ConnTimeout),
                 list' = (list \ {Entry(Current, held)}) \cup {Entry(req[c].uid, s)}
          PROVE  list' \subseteq Nat \X Uids
      <4>1. s \in Nat /\ req[c].uid \in Uids
        BY <3>2, RequestFacts
      <4>2. Entry(req[c].uid, s) \in Nat \X Uids
        BY <4>1 DEF Entry
      <4> QED BY <3>2, <4>2 DEF TypeOK
    <3> QED BY <1>5, <3>1, <3>2 DEF SweepList
  <2>2. raced' \subseteq Uids
    BY <1>5, <2>0, RequestFacts DEF SweepList, TypeOK
  <2>3. TypeOK'
    BY <1>5, <2>1, <2>2 DEF SweepList, TypeOK, SweepSteps
  <2> QED BY <1>5, <2>3 DEF SweepList, LockInv, PassInv, StoreInv, ScoresBounded, Working
<1>6. CASE SweepDict
  <2>1. /\ IsMap(scores', Uids, Nat) /\ DOMAIN scores' = DOMAIN scores \ {Current}
        /\ \A x \in DOMAIN scores' : scores'[x] = scores[x]
    BY <1>6 DEF SweepDict, TypeOK, IsMap, Delete, Restrict
  <2>2. TypeOK'
    BY <1>6, <2>1 DEF SweepDict, TypeOK, SweepSteps
  <2>3. ScoresBounded'
    BY <1>6, <2>1 DEF SweepDict, ScoresBounded
  <2> QED BY <1>6, <2>2, <2>3 DEF SweepDict, LockInv, PassInv, StoreInv, Working
<1>7. CASE SweepConn
  <2>0. Current \in Uids
    BY <1>7, <1>c DEF SweepConn, Working
  <2>1. /\ IsMap(conns', Uids, Session) /\ DOMAIN conns' = DOMAIN conns \ {Current}
    BY <1>7, <2>0, DropConns DEF SweepConn
  <2>2. TypeOK'
    BY <1>7, <2>1 DEF SweepConn, TypeOK, SweepSteps
  <2> QED BY <1>7, <2>1, <2>2 DEF SweepConn, LockInv, PassInv, StoreInv, ScoresBounded, Working
<1>8. CASE SweepCast
  BY <1>8 DEF SweepCast, TypeOK, LockInv, PassInv, StoreInv, ScoresBounded, Working, SweepSteps
<1>9. CASE SweepClose
  <2>1. users \in Seq(Uids \X Chans) /\ users # <<>>
    BY <1>9 DEF SweepClose, TypeOK, PassInv
  <2>2. Tail(users) \in Seq(Uids \X Chans)
    BY <2>1, Notified
  <2>3. TypeOK'
    BY <1>9, <2>2 DEF SweepClose, TypeOK, SweepSteps
  <2> QED BY <1>9, <2>3 DEF SweepClose, LockInv, PassInv, StoreInv, ScoresBounded, Working
<1> QED BY <1>1, <1>2, <1>3, <1>4, <1>5, <1>6, <1>7, <1>8, <1>9 DEF SweepStep

LEMMA NextBase == Base /\ [Next]_vars => Base'
<1> SUFFICES ASSUME Base, [Next]_vars PROVE Base'
  OBVIOUS
<1>1. CASE UNCHANGED vars
  BY <1>1 DEF vars, table, handler, sweeper, Base, TypeOK, LockInv, PassInv, StoreInv, ScoresBounded
<1>2. CASE Stopped
  BY <1>1, <1>2 DEF Stopped
<1>3. ASSUME NEW c \in Chans, Section(c) PROVE Base'
  BY <1>3, EnvironmentBase, RefusedBase, LoginAddBase, LogoutRemoveBase, RefreshScoreBase DEF Section
<1>4. ASSUME NEW c \in Chans, Finish(c) PROVE Base'
  BY <1>4, FinishBase
<1>5. ASSUME NEW c \in Chans, Accept(c) \/ Disconnect(c) \/ Recv(c) PROVE Base'
  BY <1>5, EnvironmentBase
<1>6. CASE Clock \/ RaceCrash
  BY <1>6, EnvironmentBase
<1>7. CASE SweepBegin \/ SweepStep
  BY <1>7, SweepBase
<1> QED BY <1>1, <1>2, <1>3, <1>4, <1>5, <1>6, <1>7 DEF Next

\* Every state of the program has the types its declarations give it, the
\* mutex is held exactly by the handler inside a section, and the check of
\* AddUserConn holds until it stores the session.
THEOREM BaseInvariance == Spec => []Base
<1>1. Init => Base
  BY InitBase
<1>2. Base /\ [Next]_vars => Base'
  BY NextBase
<1> QED BY <1>1, <1>2, PTL DEF Spec

\* Type correctness of the session table and its goroutines.
THEOREM TypeCorrectness == Spec => []TypeOK
<1>1. Base => TypeOK
  BY DEF Base
<1> QED BY <1>1, BaseInvariance, PTL

-----------------------------------------------------------------------------
(* No request moves a standing session closer to its elimination. *)

\* The scores of the users that have one before and after a step.
LEMMA ScoresGrow ==
  ASSUME Base, [Next]_vars,
         NEW u \in (DOMAIN conns) \cap (DOMAIN scores), u \in DOMAIN scores'
  PROVE  scores'[u] >= scores[u]
<1> USE DEF table, handler, sweeper, Others
<1>1. scores[u] \in Nat /\ scores[u] <= now + ConnTimeout /\ u \in Uids /\ now \in Nat
  BY DEF Base, TypeOK, IsMap, ScoresBounded
<1>2. CASE UNCHANGED scores
  BY <1>1, <1>2
<1>3. ASSUME NEW c \in Chans, LoginFails(c) \/ LoginAdd(c) \/ RefreshScore(c)
      PROVE  scores'[u] >= scores[u]
  <2> DEFINE v == req[c].uid
  <2>1. v \in Uids /\ TypeOK
    BY RequestFacts DEF Base
  <2> HIDE DEF v
  <2>2. PICK s \in {now, now + ConnTimeout} :
          SetScore(v, s) /\ (v = u => s = now + ConnTimeout)
    BY <1>3 DEF LoginFails, LoginAdd, RefreshScore, v
  <2>3. s \in Nat
    BY <1>1, ConnTimeoutAssumption
  <2>4. scores'[v] = s /\ \A x \in DOMAIN scores \ {v} : scores'[x] = scores[x]
    BY <2>1, <2>2, <2>3, ScoresPut
  <2> QED BY <1>1, <2>2, <2>4
<1>4. ASSUME NEW c \in Chans, LogoutRemove(c) PROVE scores'[u] >= scores[u]
  <2> DEFINE v == req[c].uid
  <2>1. v \in Uids /\ TypeOK /\ DropScore(v)
    BY <1>4, RequestFacts DEF Base, LogoutRemove
  <2> HIDE DEF v
  <2>2. DOMAIN scores' = DOMAIN scores \ {v} /\ \A x \in DOMAIN scores \ {v} : scores'[x] = scores[x]
    BY <2>1, ScoresDrop
  <2> QED BY <1>1, <2>2
<1>5. CASE SweepDict
  BY <1>1, <1>5 DEF SweepDict, Delete, Restrict
<1>6. ASSUME NEW c \in Chans, Section(c) PROVE scores'[u] >= scores[u]
  BY <1>2, <1>3, <1>4, <1>6
     DEF Section, LoginRefused, LogoutRefused, RefreshRefused, Refuse, DoCmd
<1>7. ASSUME NEW c \in Chans, Finish(c) PROVE scores'[u] >= scores[u]
  BY <1>2, <1>7 DEF Finish, LoginStore, LogoutDrop, RefreshLeave, Cast
<1>8. CASE SweepBegin \/ SweepStep
  BY <1>2, <1>5, <1>8 DEF SweepStep, SweepBegin, SweepRange, SweepLookup, SweepRead, SweepList,
                         SweepConn, SweepCast, SweepClose
<1>9. CASE Clock \/ (\E c \in Chans : Accept(c) \/ Disconnect(c) \/ Recv(c)) \/ RaceCrash
           \/ Stopped \/ UNCHANGED vars
  BY <1>2, <1>9 DEF Clock, Accept, Disconnect, Recv, RaceCrash, Stopped, vars
<1> QED BY <1>6, <1>7, <1>8, <1>9 DEF Next

\* HeartbeatNeverShortens: RefreshUserConn and the failing AddUserConn never
\* lower the score of a user who stays connected, so no interleaving with the
\* pass brings an elimination forward.
THEOREM ScoresOnlyGrow == Spec => HeartbeatNeverShortens
<1>1. Base /\ [Next]_vars =>
        [\A u \in (DOMAIN conns) \cap (DOMAIN scores) :
           u \in (DOMAIN conns)' /\ u \in (DOMAIN scores)' => scores'[u] >= scores[u]]_vars
  BY ScoresGrow
<1> QED BY <1>1, BaseInvariance, PTL DEF Spec, HeartbeatNeverShortens

-----------------------------------------------------------------------------
(* The sessions implement the abstract table. *)

\* What the refinement makes of user_conns.
Sessions == [u \in Uids |-> IF u \in DOMAIN conns THEN conns[u].chan ELSE NoOne]

\* Removing a user's session ends it, or changes nothing.
LEMMA SessionsEnd ==
  ASSUME TypeOK, NEW u \in Uids, conns' = Delete(conns, u)
  PROVE  [Table!Next]_Sessions
<1>1. /\ DOMAIN conns' = DOMAIN conns \ {u}
      /\ \A x \in DOMAIN conns \ {u} : conns'[x] = conns[x]
  BY DropConns
<1>2. CASE u \notin DOMAIN conns
  BY <1>1, <1>2 DEF Sessions
<1>3. CASE u \in DOMAIN conns
  <2>1. conns[u].chan # NoOne
    BY <1>3, ChansAssumption DEF TypeOK, IsMap, Session
  <2>2. Sessions' = [Sessions EXCEPT ![u] = NoOne]
    BY <1>1, <1>3 DEF Sessions
  <2>3. Table!End(u)
    BY <1>3, <2>1, <2>2 DEF Table!End, Sessions
  <2> QED BY <2>3 DEF Table!Next
<1> QED BY <1>2, <1>3

LEMMA SessionsLogin ==
  ASSUME Base, NEW c \in Chans, LoginStore(c)
  PROVE  Table!Next
<1> DEFINE u == req[c].uid
<1>1. TypeOK /\ u \in Uids /\ u \notin DOMAIN conns
  BY RequestFacts DEF Base, StoreInv, LoginStore, At
<1> HIDE DEF u
<1>2. /\ DOMAIN conns' = DOMAIN conns \cup {u} /\ conns'[u].chan = c
      /\ \A x \in DOMAIN conns \ {u} : conns'[x] = conns[x]
  BY <1>1, LoginStoreConns DEF u
<1>3. Sessions[u] = NoOne /\ Sessions' = [Sessions EXCEPT ![u] = c]
  BY <1>1, <1>2 DEF Sessions
<1>4. Table!Login(u, c)
  BY <1>3 DEF Table!Login, Sessions
<1> QED BY <1>1, <1>4 DEF Table!Next

LEMMA SessionsStep ==
  ASSUME Base, [Next]_vars
  PROVE  [Table!Next]_Sessions
<1> USE DEF table, handler, sweeper, Others
<1>1. CASE UNCHANGED conns
  BY <1>1 DEF Sessions
<1>2. ASSUME NEW c \in Chans, LoginStore(c) PROVE [Table!Next]_Sessions
  BY <1>2, SessionsLogin
<1>3. ASSUME NEW c \in Chans, LogoutDrop(c) PROVE [Table!Next]_Sessions
  BY <1>3, SessionsEnd, RequestFacts DEF LogoutDrop, Base
<1>4. CASE SweepConn
  <2>1. Current \in Uids /\ conns' = Delete(conns, Current)
    BY <1>4, CurrentCaptured DEF SweepConn, Base, PassInv, Working
  <2> QED BY <2>1, SessionsEnd DEF Base
<1>5. ASSUME NEW c \in Chans, RefreshScore(c) PROVE [Table!Next]_Sessions
  BY <1>5, RefreshConns DEF Base, Sessions
<1>6. ASSUME NEW c \in Chans, Section(c) PROVE [Table!Next]_Sessions
  BY <1>1, <1>5, <1>6
     DEF Section, LoginRefused, LoginFails, LoginAdd, LogoutRefused, LogoutRemove, RefreshRefused,
         Refuse, DoCmd
<1>7. ASSUME NEW c \in Chans, Finish(c) PROVE [Table!Next]_Sessions
  BY <1>1, <1>2, <1>3, <1>7 DEF Finish, RefreshLeave, Cast
<1>8. CASE SweepBegin \/ SweepStep
  BY <1>1, <1>4, <1>8 DEF SweepStep, SweepBegin, SweepRange, SweepLookup, SweepRead, SweepList,
                         SweepDict, SweepCast, SweepClose
<1>9. CASE Clock \/ (\E c \in Chans : Accept(c) \/ Disconnect(c) \/ Recv(c)) \/ RaceCrash
           \/ Stopped \/ UNCHANGED vars
  BY <1>1, <1>9 DEF Clock, Accept, Disconnect, Recv, RaceCrash, Stopped, vars
<1> QED BY <1>6, <1>7, <1>8, <1>9 DEF Next

\* SessionsRefine: whatever the unlocked pass and the handlers interleave to,
\* user_conns behaves as the table of SessionTable: no user is moved from one
\* channel to another without the session ending first.
THEOREM Refinement == Spec => SessionsRefine
<1>1. Init => Table!Init
  BY DEF Init, Table!Init, EmptyMap
<1>2. Base /\ [Next]_vars => [Table!Next]_Sessions
  BY SessionsStep
<1> QED BY <1>1, <1>2, BaseInvariance, PTL DEF Spec, SessionsRefine, Table!Spec, Sessions

-----------------------------------------------------------------------------
(* RaceInv is inductive.                                                     *)

\* A step that leaves what the table holds for u.
SameFor(u) ==
  /\ u \in DOMAIN conns' <=> u \in DOMAIN conns
  /\ u \in DOMAIN scores' <=> u \in DOMAIN scores
  /\ u \in DOMAIN scores => scores'[u] = scores[u]
  /\ \A e \in list \cup list' : Member(e) = u => (e \in list' <=> e \in list)

\* A step that leaves who is changing the table for u.
SameSections(u) ==
  \A c \in Chans : /\ mu' = c /\ req'[c].uid = u <=> mu = c /\ req[c].uid = u
                   /\ mu = c => pc'[c] = pc[c]

LEMMA SliceFrame ==
  ASSUME NEW u, SameFor(u)
  PROVE  /\ Whole(u)' <=> Whole(u)
         /\ Absent(u)' <=> Absent(u)
         /\ Unlisted(u)' <=> Unlisted(u)
         /\ u \in DOMAIN scores => (ListedOnce(u)' <=> ListedOnce(u))
<1>1. Unlisted(u)' <=> Unlisted(u)
  BY DEF SameFor, Unlisted
<1>2. u \in DOMAIN scores => (ListedOnce(u)' <=> ListedOnce(u))
  BY DEF SameFor, ListedOnce, Entry, Member
<1> QED BY <1>1, <1>2 DEF SameFor, Whole, Absent

LEMMA SectionFrame ==
  ASSUME NEW u, NEW c \in Chans, SameFor(u), pc'[c] = pc[c], Captured' = Captured, SectionInv(u, c)
  PROVE  SectionInv(u, c)'
  BY SliceFrame DEF SectionInv, SameFor

LEMMA CapturedFrame ==
  ASSUME NEW u, SameFor(u), UNCHANGED <<pass, elems, held>>, CapturedInv(u)
  PROVE  CapturedInv(u)'
<1>1. Current' = Current
  BY DEF Current
<1>2. u = Current /\ pass = "zlist" => held' = scores'[u]
  BY DEF CapturedInv, SameFor, Whole
<1> QED BY <1>1, <1>2, SliceFrame DEF CapturedInv, SameFor

\* What is not touched for u keeps its invariant.
LEMMA UserFrame ==
  ASSUME NEW u, UserInv(u), SameFor(u), SameSections(u), UNCHANGED <<pass, elems, held>>
  PROVE  UserInv(u)'
<1>1. Captured' = Captured
  BY DEF Captured
<1>2. Settled(u)' => Whole(u)' \/ Absent(u)'
  BY <1>1, SliceFrame DEF UserInv, Settled, InSectionOf, SameSections
<1>3. ASSUME NEW c \in Chans, mu' = c, req'[c].uid = u PROVE SectionInv(u, c)'
  BY <1>1, <1>3, SectionFrame DEF UserInv, SameSections
<1>4. u \in Captured' => CapturedInv(u)'
  BY <1>1, CapturedFrame DEF UserInv
<1> QED BY <1>2, <1>3, <1>4 DEF UserInv

\* The same for everybody, when a step leaves the table, the sections and
\* the pass alone.
LEMMA RaceFrame ==
  ASSUME RaceInv, UNCHANGED <<scores, list>>, DOMAIN conns' = DOMAIN conns,
         UNCHANGED <<pass, elems, held>>, raced \subseteq raced', \A u \in Uids : SameSections(u)
  PROVE  RaceInv'
<1> SUFFICES ASSUME NEW u \in Uids \ raced' PROVE UserInv(u)'
  BY DEF RaceInv
<1>1. SameFor(u)
  BY DEF SameFor
<1> QED BY <1>1, UserFrame DEF RaceInv

LEMMA InitRace == Init => RaceInv /\ NilInv
<1> SUFFICES ASSUME Init PROVE RaceInv /\ NilInv
  OBVIOUS
<1>1. NilInv
  BY DEF Init, NilInv
<1>2. ASSUME NEW u \in Uids PROVE UserInv(u)
  BY ChansAssumption DEF Init, UserInv, Captured, Absent, Unlisted, EmptyMap
<1> QED BY <1>1, <1>2 DEF RaceInv

\* SetScore and DropScore change the slice of one user.
LEMMA OthersSlice ==
  ASSUME TypeOK, NEW v \in Uids, NEW u \in Uids \ {v}, DOMAIN conns' = DOMAIN conns,
         DropScore(v) \/ (\E s \in Nat : SetScore(v, s))
  PROVE  SameFor(u)
<1>1. \A e : Member(e) = u => e # Entry(v, scores[v])
  BY DEF Entry, Member
<1>2. CASE DropScore(v)
  <2>1. DOMAIN scores' = DOMAIN scores \ {v} /\ \A x \in DOMAIN scores \ {v} : scores'[x] = scores[x]
    BY <1>2, ScoresDrop
  <2>2. list' = list \ {Entry(v, scores[v])}
    BY <1>2 DEF DropScore, ListRemove
  <2> QED BY <1>1, <2>1, <2>2 DEF SameFor
<1>3. ASSUME NEW s \in Nat, SetScore(v, s) PROVE SameFor(u)
  <2>1. DOMAIN scores' = DOMAIN scores \cup {v} /\ \A x \in DOMAIN scores \ {v} : scores'[x] = scores[x]
    BY <1>3, ScoresPut
  <2>2. list' \cup {Entry(v, scores[v])} = list \cup {Entry(v, scores[v]), Entry(v, s)}
    BY <1>3 DEF SetScore, ListAdd
  <2>3. \A e : Member(e) = u => e # Entry(v, s)
    BY DEF Entry, Member
  <2> QED BY <1>1, <2>1, <2>2, <2>3 DEF SameFor
<1> QED BY <1>2, <1>3

\* A section's first step: nobody was inside, and the user it is about, if
\* the pass does not hold it, was settled.
LEMMA EnterRace ==
  ASSUME IInv, NEW c \in Chans, NEW step \in InSection, Enter(c, step),
         NEW v \in Uids, v = req[c].uid,
         UNCHANGED <<pass, elems, held>>, DOMAIN conns' = DOMAIN conns,
         DropScore(v) \/ (\E s \in Nat : SetScore(v, s)),
         (Whole(v) \/ Absent(v)) =>
            /\ step = "store"  => v \notin DOMAIN conns /\ v \in DOMAIN scores'
                                  /\ ListedOnce(v)'
            /\ step = "drop"   => v \in DOMAIN conns /\ v \notin DOMAIN scores'
                                  /\ Unlisted(v)'
            /\ step = "extend" => Whole(v)'
  PROVE  RaceInv'
<1>1. v \in Uids /\ TypeOK
  BY DEF IInv
<1>2. /\ mu = NoOne /\ mu' = c /\ pc' = [pc EXCEPT ![c] = step]
      /\ \A d \in Chans : req'[d].uid = req[d].uid
      /\ raced' = IF v \in Captured THEN raced \cup {v} ELSE raced
  BY <1>1, EnterFacts DEF Enter, Free
<1>3. Captured' = Captured
  BY DEF Captured
<1> SUFFICES ASSUME NEW u \in Uids \ raced' PROVE UserInv(u)'
  BY DEF RaceInv
<1>4. u \notin raced /\ UserInv(u)
  BY <1>2 DEF IInv, RaceInv
<1>5. CASE u = v
  <2>1. u \notin Captured
    BY <1>2, <1>5
  <2>2. Settled(u)
    BY <1>2, <2>1, ChansAssumption DEF Settled, InSectionOf
  <2>3. Whole(v) \/ Absent(v)
    BY <1>4, <1>5, <2>2 DEF UserInv
  <2>4. pc'[c] = step
    BY <1>1, <1>2 DEF TypeOK
  <2>5. SectionInv(u, c)'
    BY <1>3, <1>5, <2>1, <2>3, <2>4 DEF SectionInv
  <2>6. ~Settled(u)'
    BY <1>2, <1>5 DEF Settled, InSectionOf
  <2> QED BY <1>2, <1>3, <2>1, <2>5, <2>6 DEF UserInv
<1>6. CASE u # v
  <2>1. SameFor(u)
    BY <1>1, <1>6, OthersSlice
  <2>2. SameSections(u)
    BY <1>2, <1>6, ChansAssumption DEF SameSections
  <2> QED BY <1>4, <2>1, <2>2, UserFrame
<1> QED BY <1>5, <1>6

LEMMA SectionRace ==
  ASSUME IInv, NEW c \in Chans, Section(c)
  PROVE  RaceInv'
<1> USE DEF table, handler, sweeper
<1>v. PICK v \in Uids : v = req[c].uid
  BY RequestFacts DEF IInv
<1>n. now \in Nat /\ now + ConnTimeout \in Nat /\ TypeOK
  BY ConnTimeoutAssumption DEF IInv, TypeOK
<1>1. CASE LoginRefused(c) \/ LogoutRefused(c) \/ RefreshRefused(c)
  <2>1. \A u \in Uids : SameSections(u)
    BY <1>1, ChansAssumption
       DEF LoginRefused, LogoutRefused, RefreshRefused, Refuse, Free, SameSections
  <2> QED BY <1>1, <2>1, RaceFrame
          DEF LoginRefused, LogoutRefused, RefreshRefused, Refuse, Untouched, IInv
<1>2. CASE LoginFails(c)
  <2>1. UNCHANGED <<conns, pass, elems, held, mu, req>> /\ SetScore(v, now) /\ mu = NoOne
        /\ v \notin DOMAIN conns /\ v \in DOMAIN scores
        /\ raced' = IF v \in Captured THEN raced \cup {v} ELSE raced
    BY <1>2, <1>v DEF LoginFails, Untouched, NoteRace, Free
  <2> SUFFICES ASSUME NEW u \in Uids \ raced' PROVE UserInv(u)'
    BY DEF RaceInv
  <2>2. UserInv(u)
    BY <2>1 DEF IInv, RaceInv
  <2>3. u # v
    BY <2>1, <2>2, ChansAssumption DEF UserInv, Settled, InSectionOf, Whole, Absent
  <2>4. SameFor(u)
    BY <1>n, <2>1, <2>3, OthersSlice
  <2>5. SameSections(u)
    BY <2>1, ChansAssumption DEF SameSections
  <2> QED BY <2>1, <2>2, <2>4, <2>5, UserFrame
<1>3. CASE LoginAdd(c)
  <2>1. Enter(c, "store") /\ UNCHANGED <<conns, pass, elems, held>> /\ SetScore(v, now)
        /\ v \notin DOMAIN conns /\ v \notin DOMAIN scores
    BY <1>3, <1>v DEF LoginAdd, Untouched
  <2>2. DOMAIN scores' = DOMAIN scores \cup {v} /\ scores'[v] = now
    BY <1>n, <2>1, ScoresPut
  <2>3. list' = list \cup {Entry(v, now)}
    BY <2>1 DEF SetScore, ListAdd
  <2>4. Absent(v) => ListedOnce(v)'
    BY <2>2, <2>3 DEF Absent, Unlisted, ListedOnce, Entry, Member
  <2>5. ~Whole(v)
    BY <2>1 DEF Whole
  <2> QED BY <1>v, <1>n, <2>1, <2>2, <2>4, <2>5, EnterRace DEF InSection
<1>4. CASE LogoutRemove(c)
  <2>1. Enter(c, "drop") /\ UNCHANGED <<conns, pass, elems, held>> /\ DropScore(v)
        /\ v \in DOMAIN scores
    BY <1>4, <1>v DEF LogoutRemove, Untouched
  <2>2. DOMAIN scores' = DOMAIN scores \ {v}
    BY <1>n, <2>1, ScoresDrop
  <2>3. list' = list \ {Entry(v, scores[v])}
    BY <2>1 DEF DropScore, ListRemove
  <2>4. Whole(v) => v \in DOMAIN conns /\ Unlisted(v)'
    BY <2>3 DEF Whole, Unlisted, ListedOnce
  <2>5. ~Absent(v)
    BY <2>1 DEF Absent
  <2> QED BY <1>v, <2>1, <2>2, <2>4, <2>5, EnterRace DEF InSection
<1>5. CASE RefreshScore(c)
  <2>1. Enter(c, "extend") /\ UNCHANGED <<pass, elems, held>> /\ SetScore(v, now + ConnTimeout)
        /\ v \in DOMAIN conns
    BY <1>5, <1>v DEF RefreshScore, Untouched
  <2>2. DOMAIN scores' = DOMAIN scores \cup {v} /\ scores'[v] = now + ConnTimeout
    BY <1>n, <2>1, ScoresPut
  <2>3. DOMAIN conns' = DOMAIN conns
    BY <1>5, <1>n, RefreshConns
  <2>4. v \in DOMAIN scores =>
          list' = (list \ {Entry(v, scores[v])}) \cup {Entry(v, now + ConnTimeout)}
    BY <2>1 DEF SetScore, ListAdd
  <2>5. Whole(v) => Whole(v)'
    BY <2>2, <2>3, <2>4 DEF Whole, ListedOnce, Entry, Member
  <2>6. ~Absent(v)
    BY <2>1 DEF Absent
  <2> QED BY <1>v, <1>n, <2>1, <2>3, <2>5, <2>6, EnterRace DEF InSection
<1>6. CASE DoCmd(c)
  <2>1. \A u \in Uids : SameSections(u)
    BY <1>6 DEF DoCmd, SameSections
  <2> QED BY <1>6, <2>1, RaceFrame DEF DoCmd, IInv
<1> QED BY <1>1, <1>2, <1>3, <1>4, <1>5, <1>6 DEF Section

\* The end of a section: the user it is about is settled again.
LEMMA LeaveRace ==
  ASSUME IInv, NEW c \in Chans, NEW v \in Uids, v = req[c].uid, mu = c,
         Leave(c), UNCHANGED <<scores, list, pass, elems, held>>,
         \A x \in Uids \ {v} : x \in DOMAIN conns' <=> x \in DOMAIN conns,
         v \notin raced => SectionInv(v, c) /\ (SectionInv(v, c) => (Whole(v)' \/ Absent(v)'))
  PROVE  RaceInv'
<1>1. mu' = NoOne /\ UNCHANGED <<req, raced>>
  BY DEF Leave
<1>2. Captured' = Captured
  BY DEF Captured
<1> SUFFICES ASSUME NEW u \in Uids \ raced' PROVE UserInv(u)'
  BY DEF RaceInv
<1>3. UserInv(u)
  BY <1>1 DEF IInv, RaceInv
<1>4. CASE u = v
  <2>1. u \notin Captured /\ (Whole(u)' \/ Absent(u)')
    BY <1>1, <1>4 DEF SectionInv
  <2> QED BY <1>1, <1>2, <2>1, ChansAssumption DEF UserInv
<1>5. CASE u # v
  <2>1. SameFor(u)
    BY <1>5 DEF SameFor
  <2>2. Settled(u)' => Whole(u)' \/ Absent(u)'
    BY <1>1, <1>2, <1>3, <1>5, <2>1, SliceFrame DEF UserInv, Settled, InSectionOf
  <2>3. u \in Captured' => CapturedInv(u)'
    BY <1>2, <1>3, <2>1, CapturedFrame DEF UserInv
  <2> QED BY <1>1, <2>2, <2>3, ChansAssumption DEF UserInv
<1> QED BY <1>4, <1>5

LEMMA FinishRace ==
  ASSUME IInv, NEW c \in Chans, Finish(c)
  PROVE  RaceInv'
<1> USE DEF table, handler, sweeper
<1>t. TypeOK /\ LockInv
  BY DEF IInv
<1>v. PICK v \in Uids : v = req[c].uid
  BY <1>t, RequestFacts
<1>s. mu = c /\ v \notin raced => SectionInv(v, c)
  BY <1>v DEF IInv, RaceInv, UserInv
<1>1. CASE LoginStore(c)
  <2>1. mu = c /\ pc[c] = "store" /\ Leave(c) /\ UNCHANGED <<scores, list, pass, elems, held>>
    BY <1>1, <1>t DEF LoginStore, At, LockInv, InSection, Untouched
  <2>2. DOMAIN conns' = DOMAIN conns \cup {v}
    BY <1>1, <1>t, <1>v, LoginStoreConns
  <2>3. SectionInv(v, c) => Whole(v)'
    BY <2>1, <2>2 DEF SectionInv, Whole, ListedOnce, Entry
  <2> QED BY <1>s, <1>v, <2>1, <2>2, <2>3, LeaveRace
<1>2. CASE LogoutDrop(c)
  <2>1. mu = c /\ pc[c] = "drop" /\ Leave(c) /\ UNCHANGED <<scores, list, pass, elems, held>>
    BY <1>2, <1>t DEF LogoutDrop, At, LockInv, InSection, Untouched
  <2>2. DOMAIN conns' = DOMAIN conns \ {v}
    BY <1>2, <1>t, <1>v, DropConns DEF LogoutDrop
  <2>3. SectionInv(v, c) => Absent(v)'
    BY <2>1, <2>2 DEF SectionInv, Absent, Unlisted
  <2> QED BY <1>s, <1>v, <2>1, <2>2, <2>3, LeaveRace
<1>3. CASE RefreshLeave(c)
  <2>1. mu = c /\ pc[c] = "extend" /\ Leave(c) /\ UNCHANGED <<table, pass, elems, held>>
    BY <1>3, <1>t DEF RefreshLeave, At, LockInv, InSection, Untouched
  <2>2. SectionInv(v, c) => Whole(v)'
    BY <2>1 DEF SectionInv, Whole, ListedOnce, Entry
  <2> QED BY <1>s, <1>v, <2>1, <2>2, LeaveRace
<1>4. CASE Cast(c)
  <2>1. \A u \in Uids : SameSections(u)
    BY <1>4, <1>t DEF Cast, SameSections, LockInv, TypeOK, InSection
  <2> QED BY <1>4, <2>1, RaceFrame DEF Cast, IInv
<1> QED BY <1>1, <1>2, <1>3, <1>4 DEF Finish

LEMMA EnvironmentRace ==
  ASSUME IInv,
         Clock \/ (\E c \in Chans : Accept(c) \/ Disconnect(c) \/ Recv(c)) \/ RaceCrash
         \/ UNCHANGED vars
  PROVE  RaceInv'
<1> USE DEF table, handler, sweeper
<1>1. CASE Clock \/ (\E c \in Chans : Accept(c) \/ Disconnect(c)) \/ RaceCrash \/ UNCHANGED vars
  <2>1. UNCHANGED <<mu, table, pc, req, pass, elems, held, raced>>
    BY <1>1 DEF Clock, Accept, Disconnect, RaceCrash, vars
  <2>2. \A u \in Uids : SameSections(u)
    BY <2>1 DEF SameSections
  <2> QED BY <2>1, <2>2, RaceFrame DEF IInv
<1>2. ASSUME NEW c \in Chans, Recv(c) PROVE RaceInv'
  <2>1. /\ UNCHANGED <<mu, table, pass, elems, held, raced>>
        /\ mu # c
        /\ \A d \in Chans \ {c} : req'[d] = req[d] /\ pc'[d] = pc[d]
    BY <1>2 DEF Recv, IInv, TypeOK, LockInv, InSection
  <2>2. \A u \in Uids : SameSections(u)
    BY <2>1 DEF SameSections
  <2> QED BY <2>1, <2>2, RaceFrame DEF IInv
<1> QED BY <1>1, <1>2

\* The entry the pass works on belongs to a user it has captured.
LEMMA CurrentWhole ==
  ASSUME IInv, pass \in Working, Current \notin raced
  PROVE  CapturedInv(Current)
<1>1. Current \in Uids /\ Current \in Captured
  BY CurrentCaptured DEF IInv, PassInv
<1> QED BY <1>1 DEF IInv, RaceInv, UserInv

\* A step of the pass that keeps the entries it has captured changes the
\* table for nobody but the current one, and moves on in order with that.
LEMMA PassRace ==
  ASSUME IInv, pass \in Working, UNCHANGED <<mu, pc, req, elems, raced>>, pass' \in Working,
         \A u \in Uids \ (raced \cup {Current}) : SameFor(u),
         Current \notin raced => CapturedInv(Current)'
  PROVE  RaceInv'
<1>1. Captured' = Captured /\ Current' = Current
  BY DEF Captured, Current
<1> SUFFICES ASSUME NEW u \in Uids \ raced' PROVE UserInv(u)'
  BY DEF RaceInv
<1>2. UserInv(u)
  BY DEF IInv, RaceInv
<1>3. CASE u = Current
  <2>1. u \in Captured
    BY <1>3, CurrentCaptured DEF IInv, PassInv
  <2>2. \A c \in Chans : ~(mu = c /\ req[c].uid = u)
    BY <1>2, <2>1 DEF UserInv, SectionInv
  <2> QED BY <1>1, <1>3, <2>1, <2>2 DEF UserInv, Settled
<1>4. CASE u # Current
  <2>1. SameFor(u)
    BY <1>4
  <2>2. Settled(u)' => Whole(u)' \/ Absent(u)'
    BY <1>1, <1>2, <2>1, SliceFrame DEF UserInv, Settled, InSectionOf
  <2>3. ASSUME NEW c \in Chans, mu' = c, req'[c].uid = u PROVE SectionInv(u, c)'
    BY <1>1, <1>2, <2>1, <2>3, SectionFrame DEF UserInv
  <2>4. u \in Captured' => CapturedInv(u)'
    <3>1. SUFFICES ASSUME u \in Captured PROVE CapturedInv(u)'
      BY <1>1
    <3>2. CapturedInv(u) /\ Whole(u)
      BY <1>2, <1>4, <3>1 DEF UserInv, CapturedInv
    <3>3. Whole(u)'
      BY <2>1, <3>2, SliceFrame
    <3> QED BY <1>1, <1>4, <3>2, <3>3 DEF CapturedInv
  <2> QED BY <2>2, <2>3, <2>4 DEF UserInv
<1> QED BY <1>3, <1>4

\* Nothing captured: reading the list captures whole users only.
LEMMA SweepRangeRace ==
  ASSUME IInv, SweepRange
  PROVE  RaceInv'
<1> USE DEF table, handler, Others
<1>1. /\ elems = {} /\ elems' \subseteq list /\ UNCHANGED <<mu, pc, req, table>>
      /\ pass' \in {"notify", "lookup"} /\ raced \subseteq raced'
      /\ \A u \in Uids \ raced' : u \in Captured' => ~InSectionOf(u)
  BY DEF SweepRange, IInv, Base, PassInv, Working, InRange, InSectionOf, Captured
<1> SUFFICES ASSUME NEW u \in Uids \ raced' PROVE UserInv(u)'
  BY DEF RaceInv
<1>2. UserInv(u) /\ u \notin Captured /\ SameFor(u)
  BY <1>1 DEF IInv, RaceInv, Captured, SameFor
<1>3. CASE u \in Captured'
  <2>1. Settled(u) /\ ~Unlisted(u)
    BY <1>1, <1>2, <1>3 DEF Settled, Captured, Unlisted
  <2>2. Whole(u)
    BY <1>2, <2>1 DEF UserInv, Absent
  <2>3. Whole(u)' /\ \A e, f \in elems' : Member(e) = u /\ Member(f) = u => e = f
    BY <1>1, <1>2, <2>2, SliceFrame DEF Whole, ListedOnce
  <2>4. CapturedInv(u)'
    BY <1>1, <2>3 DEF CapturedInv
  <2>5. ~InSectionOf(u)'
    BY <1>1, <1>3 DEF InSectionOf
  <2> QED BY <1>3, <2>4, <2>5 DEF UserInv, Settled, InSectionOf
<1>4. CASE u \notin Captured'
  <2>1. Settled(u)' => Whole(u)' \/ Absent(u)'
    BY <1>1, <1>2, SliceFrame DEF UserInv, Settled, InSectionOf
  <2>2. ASSUME NEW c \in Chans, mu' = c, req'[c].uid = u PROVE SectionInv(u, c)'
    BY <1>1, <1>2, <1>4, <2>2, SliceFrame DEF UserInv, SectionInv
  <2> QED BY <1>4, <2>1, <2>2 DEF UserInv
<1> QED BY <1>3, <1>4

\* The last step of an entry releases its user.
LEMMA SweepConnRace ==
  ASSUME IInv, SweepConn
  PROVE  RaceInv'
<1> USE DEF table, handler, Others
<1>1. /\ FirstOf(elems) \in elems /\ Current \in Uids /\ Current \in Captured
      /\ pass = "conn" /\ elems' = elems \ {FirstOf(elems)} /\ UNCHANGED <<mu, pc, req, scores, list, raced>>
      /\ pass' \in {"notify", "lookup"}
  BY CurrentCaptured DEF SweepConn, IInv, PassInv, Working
<1>2. DOMAIN conns' = DOMAIN conns \ {Current}
  BY <1>1, DropConns DEF SweepConn, IInv
<1> SUFFICES ASSUME NEW u \in Uids \ raced' PROVE UserInv(u)'
  BY DEF RaceInv
<1>3. UserInv(u)
  BY <1>1 DEF IInv, RaceInv
<1>4. CASE u = Current
  <2>1. CapturedInv(u)
    BY <1>1, <1>3, <1>4 DEF UserInv
  <2>2. Absent(u)'
    BY <1>1, <1>2, <1>4, <2>1 DEF CapturedInv, Absent, Unlisted
  <2>3. u \notin Captured'
    BY <1>1, <1>4, <2>1 DEF CapturedInv, Captured, Current
  <2>4. \A c \in Chans : ~(mu = c /\ req[c].uid = u)
    BY <1>1, <1>3, <1>4 DEF UserInv, SectionInv
  <2> QED BY <1>1, <2>2, <2>3, <2>4 DEF UserInv
<1>5. CASE u # Current
  <2>1. SameFor(u)
    BY <1>1, <1>2, <1>5 DEF SameFor
  <2>2. u \in Captured' <=> u \in Captured
    BY <1>1, <1>5 DEF Captured, Current
  <2>3. Settled(u)' => Whole(u)' \/ Absent(u)'
    BY <1>1, <1>3, <2>1, <2>2, SliceFrame DEF UserInv, Settled, InSectionOf
  <2>4. ASSUME NEW c \in Chans, mu' = c, req'[c].uid = u PROVE SectionInv(u, c)'
    BY <1>1, <1>3, <2>1, <2>2, <2>4, SliceFrame DEF UserInv, SectionInv, SameFor
  <2>5. ASSUME u \in Captured' PROVE CapturedInv(u)'
    <3>1. CapturedInv(u) /\ Whole(u)
      BY <1>3, <1>5, <2>2, <2>5 DEF UserInv, CapturedInv
    <3>2. Whole(u)'
      BY <2>1, <3>1, SliceFrame
    <3> QED BY <1>1, <3>1, <3>2 DEF CapturedInv
  <2> QED BY <2>3, <2>4, <2>5 DEF UserInv
<1> QED BY <1>4, <1>5

LEMMA SweepListRace ==
  ASSUME IInv, SweepList
  PROVE  RaceInv'
<1> USE DEF table, handler, Others
<1> DEFINE gone == list \ {Entry(Current, held)}
<1>1. /\ pass = "zlist" /\ pass' = "zdict"
      /\ UNCHANGED <<mu, pc, req, scores, conns, elems, held>>
  BY DEF SweepList
<1>2. Captured' = Captured /\ Current' = Current
  BY <1>1 DEF Captured, Current
<1>3. CASE list' = gone /\ UNCHANGED raced
  <2>1. \A u \in Uids \ (raced \cup {Current}) : SameFor(u)
    BY <1>1, <1>3 DEF SameFor, Entry, Member
  <2>2. Current \notin raced => CapturedInv(Current)'
    <3>1. SUFFICES ASSUME Current \notin raced PROVE CapturedInv(Current)'
      OBVIOUS
    <3>2. CapturedInv(Current)
      BY <1>1, <3>1, CurrentWhole DEF Working
    <3>3. Current \in DOMAIN conns /\ Current \in DOMAIN scores /\ ListedOnce(Current)
          /\ held = scores[Current]
      BY <1>1, <3>2 DEF CapturedInv, Whole
    <3>4. \A e \in list' : Member(e) # Current
      BY <1>3, <3>3 DEF ListedOnce
    <3>5. Unlisted(Current)'
      BY <1>2, <3>4 DEF Unlisted
    <3> QED BY <1>1, <1>2, <3>2, <3>3, <3>5 DEF CapturedInv
  <2> QED BY <1>1, <1>3, <2>1, <2>2, PassRace DEF Working
<1>4. ASSUME NEW c \in Chans, mu = c, raced' = raced \cup {Current, req[c].uid},
             \/ list' \in {list, {e \in gone : Member(e) # req[c].uid}}
             \/ \E s : list' = gone \cup {Entry(req[c].uid, s)}
      PROVE  RaceInv'
  <2> SUFFICES ASSUME NEW u \in Uids \ raced' PROVE UserInv(u)'
    BY DEF RaceInv
  <2>1. u # Current /\ u # req[c].uid /\ UserInv(u)
    BY <1>4 DEF IInv, RaceInv
  <2>2. SameFor(u)
    BY <1>1, <1>4, <2>1 DEF SameFor, Entry, Member
  <2>3. Settled(u)' => Whole(u)' \/ Absent(u)'
    BY <1>1, <1>2, <2>1, <2>2, SliceFrame DEF UserInv, Settled, InSectionOf
  <2>4. ASSUME NEW d \in Chans, mu' = d, req'[d].uid = u PROVE SectionInv(u, d)'
    BY <1>1, <1>4, <2>1, <2>4
  <2>5. ASSUME u \in Captured' PROVE CapturedInv(u)'
    <3>1. CapturedInv(u) /\ Whole(u)
      BY <1>2, <2>1, <2>5 DEF UserInv, CapturedInv
    <3>2. Whole(u)'
      BY <2>2, <3>1, SliceFrame
    <3> QED BY <1>1, <1>2, <2>1, <3>1, <3>2 DEF CapturedInv
  <2> QED BY <2>3, <2>4, <2>5 DEF UserInv
<1> QED BY <1>3, <1>4 DEF SweepList

\* The other steps of the pass.
LEMMA SweepRace ==
  ASSUME IInv, SweepBegin \/ SweepStep
  PROVE  RaceInv'
<1> USE DEF table, handler, Others
<1>f. ASSUME UNCHANGED <<mu, table, pc, req, elems, raced>>, elems = {}
      PROVE  RaceInv'
  <2> SUFFICES ASSUME NEW u \in Uids \ raced' PROVE UserInv(u)'
    BY DEF RaceInv
  <2>1. UserInv(u) /\ SameFor(u) /\ Captured = {} /\ Captured' = {}
    BY <1>f DEF IInv, RaceInv, SameFor, Captured
  <2> QED BY <1>f, <2>1, SliceFrame, SectionFrame DEF UserInv, Settled, InSectionOf
<1>1. CASE SweepBegin \/ SweepCast \/ SweepClose
  BY <1>1, <1>f DEF SweepBegin, SweepCast, SweepClose, IInv, PassInv, Working
<1>2. CASE SweepLookup
  <2>1. UNCHANGED <<mu, table, pc, req, elems, raced>> /\ pass = "lookup"
        /\ pass' \in {"lookup", "zread"}
    BY <1>2 DEF SweepLookup
  <2>2. \A u : SameFor(u) /\ Current' = Current
    BY <2>1 DEF SameFor, Current
  <2>3. Current \notin raced => CapturedInv(Current)'
    BY <2>1, <2>2, CurrentWhole, SliceFrame DEF CapturedInv, Working
  <2> QED BY <2>1, <2>2, <2>3, PassRace DEF Working
<1>3. CASE SweepRead
  <2>1. /\ UNCHANGED <<mu, table, pc, req, elems, raced>>
        /\ pass = "zread" /\ pass' \in {"zlist", "conn"}
        /\ Current \in DOMAIN scores => pass' = "zlist" /\ held' = scores[Current]
    BY <1>3 DEF SweepRead
  <2>2. \A u : SameFor(u) /\ Current' = Current
    BY <2>1 DEF SameFor, Current
  <2>3. Current \notin raced => CapturedInv(Current)'
    <3>1. SUFFICES ASSUME Current \notin raced PROVE CapturedInv(Current)'
      OBVIOUS
    <3>2. CapturedInv(Current) /\ Whole(Current)
      BY <2>1, <3>1, CurrentWhole DEF CapturedInv, Working
    <3>3. Whole(Current)'
      BY <2>1, <2>2, <3>2 DEF Whole, ListedOnce
    <3> QED BY <2>1, <2>2, <3>2, <3>3 DEF CapturedInv, Whole
  <2> QED BY <2>1, <2>2, <2>3, PassRace DEF Working
<1>4. CASE SweepDict
  <2>1. UNCHANGED <<mu, list, conns, pc, req, elems, raced>> /\ pass = "zdict" /\ pass' = "conn"
        /\ scores' = Delete(scores, Current)
    BY <1>4 DEF SweepDict
  <2>2. Current' = Current
    BY <2>1 DEF Current
  <2>3. /\ DOMAIN scores' = DOMAIN scores \ {Current}
        /\ \A x \in DOMAIN scores \ {Current} : scores'[x] = scores[x]
    BY <2>1 DEF Delete, Restrict
  <2>4. \A u \in Uids \ (raced \cup {Current}) : SameFor(u)
    BY <2>1, <2>3 DEF SameFor
  <2>5. Current \notin raced => CapturedInv(Current)'
    <3>1. SUFFICES ASSUME Current \notin raced PROVE CapturedInv(Current)'
      OBVIOUS
    <3>2. CapturedInv(Current) /\ Current \in DOMAIN conns /\ Unlisted(Current)
      BY <2>1, <3>1, CurrentWhole DEF CapturedInv, Working
    <3>3. Unlisted(Current)'
      BY <2>1, <2>2, <3>2 DEF Unlisted
    <3> QED BY <2>1, <2>2, <2>3, <3>2, <3>3 DEF CapturedInv
  <2> QED BY <2>1, <2>4, <2>5, PassRace DEF Working
<1> QED BY <1>1, <1>2, <1>3, <1>4, SweepRangeRace, SweepListRace, SweepConnRace DEF SweepStep

LEMMA NextRace == IInv /\ [Next]_vars => RaceInv'
<1> SUFFICES ASSUME IInv, [Next]_vars PROVE RaceInv'
  OBVIOUS
<1>1. ASSUME NEW c \in Chans, Section(c) \/ Finish(c) PROVE RaceInv'
  BY <1>1, SectionRace, FinishRace
<1>2. CASE SweepBegin \/ SweepStep
  BY <1>2, SweepRace
<1>3. CASE Clock \/ (\E c \in Chans : Accept(c) \/ Disconnect(c) \/ Recv(c)) \/ RaceCrash
           \/ Stopped \/ UNCHANGED vars
  BY <1>3, EnvironmentRace DEF Stopped
<1> QED BY <1>1, <1>2, <1>3 DEF Next

-----------------------------------------------------------------------------
(* What the pass has noted of the current user, and why the process dies. *)

\* A handler leaves the session of an unraced current user alone.
LEMMA CurrentKept ==
  ASSUME IInv, NEW c \in Chans, Section(c) \/ Finish(c), pass \in Working, Current \notin raced
  PROVE  Current \in DOMAIN conns => conns'[Current].chan = conns[Current].chan
<1> USE DEF table, handler, sweeper
<1>1. TypeOK /\ LockInv /\ Current \in Captured /\ Current \in Uids
  BY CurrentCaptured DEF IInv, PassInv
<1>2. req[c].uid \in Uids
  BY <1>1, RequestFacts
<1>3. mu = c => req[c].uid # Current
  BY <1>1 DEF IInv, RaceInv, UserInv, SectionInv
<1>4. CASE LoginStore(c)
  <2>1. mu = c
    BY <1>1, <1>4 DEF LoginStore, At, LockInv, InSection
  <2> QED BY <1>1, <1>3, <1>4, <2>1, LoginStoreConns
<1>5. CASE LogoutDrop(c)
  <2>1. mu = c
    BY <1>1, <1>5 DEF LogoutDrop, At, LockInv, InSection
  <2>2. \A x \in DOMAIN conns \ {req[c].uid} : conns'[x] = conns[x]
    BY <1>5 DEF LogoutDrop, Delete, Restrict
  <2> QED BY <1>3, <2>1, <2>2
<1>6. CASE RefreshScore(c)
  BY <1>1, <1>6, RefreshConns
<1>7. CASE UNCHANGED conns
  BY <1>7
<1> QED BY <1>4, <1>5, <1>6, <1>7
        DEF Section, Finish, LoginRefused, LoginFails, LoginAdd, LogoutRefused, LogoutRemove,
            RefreshRefused, Refuse, DoCmd, RefreshLeave, Cast

LEMMA NextNoted == IInv /\ [Next]_vars => NotedInv'
<1> SUFFICES ASSUME IInv, [Next]_vars PROVE NotedInv'
  OBVIOUS
<1> USE DEF table, handler, sweeper, Others
<1> DEFINE Noting == {"zread", "zlist", "zdict", "conn"}
<1>w. pass \in Noting /\ Current \notin raced => Current \in DOMAIN conns
  BY CurrentWhole DEF CapturedInv, Whole, Working, Absent
<1>1. ASSUME UNCHANGED <<elems, users>>, raced \subseteq raced', pass' \in Noting => pass \in Noting,
             pass \in Noting /\ Current \notin raced => conns'[Current].chan = conns[Current].chan
      PROVE  NotedInv'
  <2>1. Current' = Current
    BY <1>1 DEF Current
  <2> QED BY <1>1, <2>1 DEF IInv, NotedInv
<1>2. ASSUME NEW c \in Chans, Section(c) \/ Finish(c) PROVE NotedInv'
  <2>1. UNCHANGED <<elems, users, pass>>
    BY <1>2 DEF Section, Finish, LoginRefused, LoginFails, LoginAdd, LogoutRefused, LogoutRemove,
                RefreshRefused, RefreshScore, DoCmd, LoginStore, LogoutDrop, RefreshLeave, Cast,
                Untouched
  <2>2. raced \subseteq raced'
    BY <1>2 DEF Section, Finish, LoginRefused, LoginFails, LoginAdd, LogoutRefused, LogoutRemove,
                RefreshRefused, RefreshScore, DoCmd, LoginStore, LogoutDrop, RefreshLeave, Cast,
                Enter, Refuse, Leave, NoteRace
  <2>3. pass \in Noting /\ Current \notin raced => conns'[Current].chan = conns[Current].chan
    BY <1>2, <1>w, CurrentKept DEF Working
  <2> QED BY <1>1, <2>1, <2>2, <2>3
<1>3. CASE SweepLookup
  <2>1. users \in Seq(Uids \X Chans) /\ Current' = Current /\ UNCHANGED conns
    BY <1>3 DEF SweepLookup, IInv, TypeOK, Current
  <2>2. CASE Current \in DOMAIN conns
    <3>1. users' = Append(users, <<Current, conns[Current].chan>>)
      BY <1>3, <2>2 DEF SweepLookup
    <3>2. users' # <<>> /\ users'[Len(users')] = <<Current, conns[Current].chan>>
      BY <2>1, <3>1
    <3> QED BY <2>1, <3>2 DEF NotedInv
  <2>3. CASE Current \notin DOMAIN conns
    BY <1>3, <2>3 DEF SweepLookup, NotedInv
  <2> QED BY <2>2, <2>3
<1>4. CASE SweepRead \/ SweepList \/ SweepDict
  BY <1>1, <1>4 DEF SweepRead, SweepList, SweepDict
<1>5. CASE SweepBegin \/ SweepRange \/ SweepConn \/ SweepCast \/ SweepClose
  BY <1>5 DEF SweepBegin, SweepRange, SweepConn, SweepCast, SweepClose, NotedInv
<1>6. CASE Clock \/ (\E c \in Chans : Accept(c) \/ Disconnect(c) \/ Recv(c)) \/ RaceCrash
           \/ Stopped \/ UNCHANGED vars
  BY <1>1, <1>6 DEF Clock, Accept, Disconnect, Recv, RaceCrash, Stopped, vars
<1> QED BY <1>2, <1>3, <1>4, <1>5, <1>6 DEF Next, SweepStep

LEMMA NextNil == IInv /\ [Next]_vars => NilInv'
<1> SUFFICES ASSUME IInv, [Next]_vars PROVE NilInv'
  OBVIOUS
<1> USE DEF table, handler, sweeper, Others
<1>1. CASE UNCHANGED vars \/ Stopped
  BY <1>1 DEF vars, Stopped, IInv, NilInv, Current
<1>2. CASE SweepLookup
  <2>1. CASE Current \in DOMAIN conns
    BY <1>2, <2>1 DEF SweepLookup, Running, NilInv
  <2>2. CASE Current \notin DOMAIN conns
    <3>1. pass = "lookup" /\ Current \in raced
      BY <1>2, <2>2, CurrentWhole DEF SweepLookup, CapturedInv, Whole, Working
    <3> QED BY <1>2, <2>2, <3>1 DEF SweepLookup, NilInv, Current
  <2> QED BY <2>1, <2>2
<1>3. ASSUME crash' # "nil" PROVE NilInv'
  BY <1>3 DEF NilInv
<1>4. ASSUME NEW c \in Chans, Accept(c) \/ Disconnect(c) \/ Recv(c) \/ Section(c) \/ Finish(c)
      PROVE  crash' # "nil"
  BY <1>4 DEF Accept, Disconnect, Recv, Section, Finish, LoginRefused, LoginFails, LoginAdd,
              LogoutRefused, LogoutRemove, RefreshRefused, RefreshScore, DoCmd, LoginStore,
              LogoutDrop, RefreshLeave, Cast, Untouched, At, Running
<1>5. CASE Clock \/ RaceCrash \/ SweepBegin \/ SweepRange \/ SweepRead \/ SweepList \/ SweepDict
           \/ SweepConn \/ SweepCast \/ SweepClose
  BY <1>3, <1>5 DEF Clock, RaceCrash, SweepBegin, SweepRange, SweepRead, SweepList, SweepDict,
                    SweepConn, SweepCast, SweepClose, Running
<1> QED BY <1>1, <1>2, <1>3, <1>4, <1>5 DEF Next, SweepStep

-----------------------------------------------------------------------------
(* The invariants of the session table. *)

\* The inductive invariant: LockInv and PassInv say who may be changing the
\* table, and UserInv what each user's part of it looks like meanwhile.
THEOREM Invariance == Spec => []IInv
<1>1. Init => IInv
  BY InitBase, InitRace DEF IInv, Base, Init, NotedInv
<1>2. IInv /\ [Next]_vars => IInv'
  BY NextBase, NextRace, NextNoted, NextNil DEF IInv, Base
<1> QED BY <1>1, <1>2, PTL DEF Spec

\* UserConsistent: although EliminateTimeoutUserConns works without the lock,
\* the two maps and the list agree for every user whose own requests did not
\* overlap a pass that held the user's entry.
THEOREM TablesAgree == Spec => []UserConsistent
<1>1. IInv => UserConsistent
  <2> SUFFICES ASSUME IInv, NEW u \in Uids \ raced, Settled(u)
               PROVE  /\ u \in DOMAIN conns <=> u \in DOMAIN scores
                      /\ {e \in list : Member(e) = u} =
                           (IF u \in DOMAIN scores THEN {Entry(u, scores[u])} ELSE {})
    BY DEF UserConsistent
  <2>1. Whole(u) \/ Absent(u)
    BY DEF IInv, RaceInv, UserInv
  <2> QED BY <2>1 DEF Whole, Absent, ListedOnce, Unlisted, Entry, Member
<1> QED BY <1>1, Invariance, PTL

\* SweepEndsWhatItRead: the session the pass deletes is the one whose channel
\* it closes afterwards, unless the user's own request raced it.
THEOREM PassEndsItsSessions == Spec => []SweepEndsWhatItRead
<1>1. IInv => SweepEndsWhatItRead
  BY CurrentWhole DEF IInv, SweepEndsWhatItRead, NotedInv, CapturedInv, Whole, Working
<1> QED BY <1>1, Invariance, PTL

\* NilOnlyIfRaced: the unchecked lookup of EliminateTimeoutUserConns kills the
\* process only for a user whose request overlapped the pass.
THEOREM NilNeedsARace == Spec => []NilOnlyIfRaced
<1>1. IInv => NilOnlyIfRaced
  BY DEF IInv, NilInv, NilOnlyIfRaced
<1> QED BY <1>1, Invariance, PTL

-----------------------------------------------------------------------------
(* The limit on connections. *)

\* The users whose logout has unscored them and not yet dropped the session.
Dropping == {u \in Uids : \E c \in Chans : mu = c /\ pc[c] = "drop" /\ req[c].uid = u}

\* The users the limit counts: AddUserConn compares it with the scores, and a
\* session outlives its score only while its logout or the pass is at work.
Kept == (DOMAIN scores \cup Dropping) \ (raced \cup Captured)

LimitInv == IsFiniteSet(DOMAIN scores) /\ IsFiniteSet(Kept) /\ Cardinality(Kept) <= MaxConn

\* Steps that let nobody in.
LEMMA LimitFrame ==
  ASSUME LimitInv, Kept' \subseteq Kept, NEW u, DOMAIN scores' \subseteq DOMAIN scores \cup {u}
  PROVE  LimitInv'
<1>1. IsFiniteSet(DOMAIN scores \cup {u})
  BY FS_AddElement DEF LimitInv
<1>2. IsFiniteSet(DOMAIN scores')
  BY <1>1, FS_Subset
<1>3. IsFiniteSet(Kept') /\ Cardinality(Kept') <= Cardinality(Kept)
  BY FS_Subset DEF LimitInv
<1>4. Cardinality(Kept) \in Nat /\ Cardinality(Kept') \in Nat
  BY <1>3, FS_CardinalityType DEF LimitInv
<1> QED BY <1>2, <1>3, <1>4, MaxConnAssumption DEF LimitInv

\* AddUserConn lets a user in below the limit, when nobody is in a section.
LEMMA LimitAdd ==
  ASSUME IInv, LimitInv, NEW c \in Chans, LoginAdd(c)
  PROVE  LimitInv'
<1> DEFINE v == req[c].uid
<1>1. v \in Uids /\ now \in Nat /\ SetScore(v, now) /\ TypeOK
  BY RequestFacts DEF IInv, LoginAdd, TypeOK
<1>2. pc'[c] = "store" /\ mu' = c
  BY <1>1, EnterFacts DEF LoginAdd, InSection, TypeOK
<1> HIDE DEF v
<1>3. DOMAIN scores' = DOMAIN scores \cup {v}
  BY <1>1, ScoresPut
<1>4. Dropping' = {}
  BY <1>2 DEF Dropping
<1>5. Kept' \subseteq DOMAIN scores \cup {v}
  BY <1>3, <1>4 DEF Kept
<1>6. /\ IsFiniteSet(DOMAIN scores \cup {v})
      /\ Cardinality(DOMAIN scores \cup {v}) <= Cardinality(DOMAIN scores) + 1
  <2>1. /\ IsFiniteSet(DOMAIN scores \cup {v})
        /\ Cardinality(DOMAIN scores \cup {v}) =
             IF v \in DOMAIN scores THEN Cardinality(DOMAIN scores) ELSE Cardinality(DOMAIN scores) + 1
    BY FS_AddElement DEF LimitInv
  <2>2. Cardinality(DOMAIN scores) \in Nat
    BY FS_CardinalityType DEF LimitInv
  <2> QED BY <2>1, <2>2
<1>7. IsFiniteSet(Kept') /\ Cardinality(Kept') <= Cardinality(DOMAIN scores \cup {v})
  BY <1>5, <1>6, FS_Subset
<1>8. Cardinality(DOMAIN scores) < MaxConn
  BY DEF LoginAdd
<1>9. /\ Cardinality(DOMAIN scores) \in Nat /\ Cardinality(Kept') \in Nat
      /\ Cardinality(DOMAIN scores \cup {v}) \in Nat
  BY <1>6, <1>7, FS_CardinalityType DEF LimitInv
<1>10. Cardinality(Kept') <= MaxConn
  BY <1>6, <1>7, <1>8, <1>9, MaxConnAssumption
<1> QED BY <1>3, <1>6, <1>7, <1>10 DEF LimitInv

LEMMA KeptSection ==
  ASSUME IInv, LimitInv, NEW c \in Chans, Section(c)
  PROVE  LimitInv'
<1> USE DEF table, handler, sweeper
<1> DEFINE v == req[c].uid
<1>1. v \in Uids /\ TypeOK /\ LockInv /\ now \in Nat /\ now + ConnTimeout \in Nat
  BY RequestFacts, ConnTimeoutAssumption DEF IInv, TypeOK
<1>2. ASSUME Free, UNCHANGED mu PROVE Dropping' = {}
  BY <1>2, ChansAssumption DEF Free, Dropping
<1>3. CASE LoginRefused(c) \/ LogoutRefused(c) \/ RefreshRefused(c) \/ LoginFails(c)
  <2>1. Free /\ UNCHANGED <<mu, elems>> /\ raced \subseteq raced'
    BY <1>3 DEF LoginRefused, LogoutRefused, RefreshRefused, LoginFails, Refuse, NoteRace, Untouched
  <2>2. DOMAIN scores' = DOMAIN scores
    <3>1. CASE LoginFails(c)
      <4>1. SetScore(v, now) /\ v \in DOMAIN scores
        BY <3>1 DEF LoginFails
      <4> HIDE DEF v
      <4> QED BY <1>1, <4>1, ScoresPut
    <3>2. CASE LoginRefused(c) \/ LogoutRefused(c) \/ RefreshRefused(c)
      BY <3>2 DEF LoginRefused, LogoutRefused, RefreshRefused, Refuse
    <3> QED BY <1>3, <3>1, <3>2
  <2>3. Kept' \subseteq Kept
    BY <1>2, <2>1, <2>2 DEF Kept, Captured
  <2> QED BY <2>2, <2>3, LimitFrame
<1>4. CASE LoginAdd(c)
  BY <1>4, LimitAdd
<1>5. CASE LogoutRemove(c)
  <2>1. /\ mu' = c /\ raced \subseteq raced' /\ UNCHANGED elems
        /\ \A d \in Chans : req'[d].uid = req[d].uid
    BY <1>1, <1>5, EnterFacts DEF LogoutRemove, InSection, Untouched
  <2>2. DropScore(v) /\ v \in DOMAIN scores
    BY <1>5 DEF LogoutRemove
  <2>3. Dropping' \subseteq {v}
    BY <2>1 DEF Dropping
  <2> HIDE DEF v
  <2>4. DOMAIN scores' = DOMAIN scores \ {v}
    BY <1>1, <2>2, ScoresDrop
  <2>5. Kept' \subseteq Kept
    BY <2>1, <2>2, <2>3, <2>4 DEF Kept, Captured
  <2> QED BY <2>4, <2>5, LimitFrame
<1>6. CASE RefreshScore(c)
  <2>1. /\ mu = NoOne /\ mu' = c /\ pc'[c] = "extend" /\ raced \subseteq raced' /\ UNCHANGED elems
    BY <1>1, <1>6, EnterFacts DEF RefreshScore, InSection, Enter, Free, Untouched, TypeOK
  <2>2. SetScore(v, now + ConnTimeout) /\ v \in DOMAIN conns
    BY <1>6 DEF RefreshScore
  <2>3. Dropping' = {}
    BY <2>1 DEF Dropping
  <2> HIDE DEF v
  <2>4. DOMAIN scores' = DOMAIN scores \cup {v}
    BY <1>1, <2>2, ScoresPut
  <2>5. v \notin raced \cup Captured => v \in DOMAIN scores
    BY <1>1, <2>1, <2>2, ChansAssumption
       DEF IInv, RaceInv, UserInv, Settled, InSectionOf, Whole, Absent
  <2>6. Kept' \subseteq Kept
    BY <2>1, <2>3, <2>4, <2>5 DEF Kept, Captured
  <2> QED BY <2>4, <2>6, LimitFrame
<1>7. CASE DoCmd(c)
  <2>1. UNCHANGED <<mu, pc, req, scores, elems, raced>>
    BY <1>7 DEF DoCmd
  <2>2. Kept' \subseteq Kept
    BY <2>1 DEF Kept, Captured, Dropping
  <2> QED BY <2>1, <2>2, LimitFrame
<1> QED BY <1>3, <1>4, <1>5, <1>6, <1>7 DEF Section

\* The steps of everybody else.
LEMMA KeptElsewhere ==
  ASSUME IInv, LimitInv,
         Clock \/ (\E c \in Chans : Accept(c) \/ Disconnect(c) \/ Recv(c) \/ Finish(c))
         \/ SweepBegin \/ SweepStep \/ RaceCrash \/ UNCHANGED vars
  PROVE  LimitInv'
<1> USE DEF table, handler, sweeper, Others
<1>0. TypeOK /\ LockInv /\ PassInv
  BY DEF IInv
<1>1. ASSUME DOMAIN scores' \subseteq DOMAIN scores, Kept' \subseteq Kept PROVE LimitInv'
  BY <1>1, LimitFrame
<1>2. ASSUME UNCHANGED <<scores, elems>>, raced \subseteq raced', Dropping' \subseteq Dropping
      PROVE  LimitInv'
  BY <1>1, <1>2 DEF Kept, Captured
<1>3. ASSUME UNCHANGED <<mu, pc, req>> PROVE Dropping' = Dropping
  BY <1>3 DEF Dropping
<1>4. CASE Clock \/ (\E c \in Chans : Accept(c) \/ Disconnect(c)) \/ RaceCrash \/ UNCHANGED vars
  <2>1. UNCHANGED <<mu, pc, req, scores, elems, raced>>
    BY <1>4 DEF Clock, Accept, Disconnect, RaceCrash, vars
  <2> QED BY <1>2, <1>3, <2>1
<1>5. ASSUME NEW c \in Chans, Recv(c) PROVE LimitInv'
  <2>1. /\ UNCHANGED <<mu, scores, elems, raced>> /\ mu # c
        /\ \A d \in Chans \ {c} : req'[d] = req[d] /\ pc'[d] = pc[d]
    BY <1>0, <1>5 DEF Recv, TypeOK, LockInv, InSection
  <2>2. Dropping' = Dropping
    BY <2>1 DEF Dropping
  <2> QED BY <1>2, <2>1, <2>2
<1>6. ASSUME NEW c \in Chans, LoginStore(c) \/ LogoutDrop(c) \/ RefreshLeave(c) PROVE LimitInv'
  <2>1. mu' = NoOne /\ UNCHANGED <<scores, elems, raced>>
    BY <1>6 DEF LoginStore, LogoutDrop, RefreshLeave, Leave, Untouched
  <2>2. Dropping' = {}
    BY <2>1, ChansAssumption DEF Dropping
  <2> QED BY <1>2, <2>1, <2>2
<1>7. ASSUME NEW c \in Chans, Cast(c) PROVE LimitInv'
  <2>1. UNCHANGED <<mu, scores, elems, raced, req>> /\ pc' = [pc EXCEPT ![c] = "idle"]
    BY <1>7 DEF Cast
  <2>2. Dropping' \subseteq Dropping
    BY <1>0, <2>1 DEF Dropping, TypeOK
  <2> QED BY <1>2, <2>1, <2>2
<1>8. CASE SweepBegin \/ SweepLookup \/ SweepRead \/ SweepList \/ SweepCast \/ SweepClose
  <2>1. UNCHANGED <<mu, pc, req, scores, elems>> /\ raced \subseteq raced'
    BY <1>8 DEF SweepBegin, SweepLookup, SweepRead, SweepList, SweepCast, SweepClose
  <2> QED BY <1>2, <1>3, <2>1
<1>9. CASE SweepRange
  <2>1. UNCHANGED <<mu, pc, req, scores>> /\ raced \subseteq raced' /\ elems = {}
    BY <1>0, <1>9 DEF SweepRange, PassInv, Working
  <2>2. Kept' \subseteq Kept
    BY <1>3, <2>1 DEF Kept, Captured
  <2> QED BY <1>1, <2>1, <2>2
<1>10. CASE SweepDict
  <2>1. UNCHANGED <<mu, pc, req, elems, raced>> /\ DOMAIN scores' \subseteq DOMAIN scores
    BY <1>10 DEF SweepDict, Delete, Restrict
  <2>2. Kept' \subseteq Kept
    BY <1>3, <2>1 DEF Kept, Captured
  <2> QED BY <1>1, <2>1, <2>2
<1>11. CASE SweepConn
  <2>1. /\ UNCHANGED <<mu, pc, req, scores, raced>> /\ pass = "conn"
        /\ elems' = elems \ {FirstOf(elems)}
        /\ Current \in Uids /\ Current \in Captured
    BY <1>0, <1>11, CurrentCaptured DEF SweepConn, PassInv, Working
  <2>2. Captured \subseteq Captured' \cup {Current}
    BY <2>1 DEF Captured, Current
  <2>3. Current \notin raced => Current \notin DOMAIN scores /\ Current \notin Dropping
    BY <2>1 DEF IInv, RaceInv, UserInv, CapturedInv, SectionInv, Dropping
  <2>4. Kept' \subseteq Kept
    BY <1>3, <2>1, <2>2, <2>3 DEF Kept
  <2> QED BY <1>1, <2>1, <2>4
<1> QED BY <1>4, <1>5, <1>6, <1>7, <1>8, <1>9, <1>10, <1>11 DEF Finish, SweepStep

LEMMA NextLimit == IInv /\ LimitInv /\ [Next]_vars => LimitInv'
  BY KeptSection, KeptElsewhere DEF Next, Stopped

\* UnracedConnLimit: although a login is checked against the scores and the
\* sessions are stored later, under a pass that keeps no lock, max_conn_size
\* bounds the sessions of the users who are not in a race with the pass and
\* not in its hands.
THEOREM LimitHolds == Spec => []UnracedConnLimit
<1>1. Init => LimitInv
  <2> SUFFICES ASSUME Init PROVE LimitInv
    OBVIOUS
  <2>1. DOMAIN scores = {} /\ Kept = {}
    BY ChansAssumption DEF Init, EmptyMap, Kept, Dropping
  <2> QED BY <2>1, FS_EmptySet, MaxConnAssumption DEF LimitInv
<1>2. IInv /\ LimitInv => UnracedConnLimit
  <2> SUFFICES ASSUME IInv, LimitInv PROVE UnracedConnLimit
    OBVIOUS
  <2>1. \A u \in DOMAIN conns \ (raced \cup Captured) : u \in Uids
    BY DEF IInv, TypeOK, IsMap
  <2>2. ASSUME NEW u \in DOMAIN conns \ (raced \cup Captured) PROVE u \in Kept
    <3>1. u \in Uids /\ UserInv(u)
      BY <2>1 DEF IInv, RaceInv
    <3>2. CASE Settled(u)
      BY <3>1, <3>2 DEF UserInv, Whole, Absent, Kept
    <3>3. ASSUME NEW c \in Chans, mu = c, req[c].uid = u PROVE u \in Kept
      <4>1. SectionInv(u, c) /\ pc[c] \in InSection
        BY <3>1, <3>3 DEF UserInv, IInv, LockInv
      <4>2. u \in DOMAIN scores \/ u \in Dropping
        BY <3>1, <3>3, <4>1 DEF SectionInv, InSection, Whole, Dropping
      <4> QED BY <4>2 DEF Kept
    <3> QED BY <3>2, <3>3 DEF Settled, InSectionOf
  <2>3. DOMAIN conns \ (raced \cup Captured) \in SUBSET Kept
    BY <2>2
  <2>4. /\ IsFiniteSet(DOMAIN conns \ (raced \cup Captured))
        /\ Cardinality(DOMAIN conns \ (raced \cup Captured)) <= Cardinality(Kept)
    BY <2>3, FS_Subset DEF LimitInv
  <2>5. Cardinality(Kept) \in Nat /\ Cardinality(DOMAIN conns \ (raced \cup Captured)) \in Nat
    BY <2>4, FS_CardinalityType DEF LimitInv
  <2> QED BY <2>4, <2>5, MaxConnAssumption DEF UnracedConnLimit, LimitInv
<1>3. IInv /\ LimitInv /\ [Next]_vars => LimitInv'
  BY NextLimit
<1> QED BY <1>1, <1>2, <1>3, Invariance, PTL DEF Spec

-----------------------------------------------------------------------------
(* The ledger of logins and logouts. *)

\* The pass is past its lookup of the current user: the logout is noted, the
\* session still stands.
Reading(u) == pass \in {"zread", "zlist", "zdict", "conn"} /\ u = Current

\* What the ledger of u should show.
Due(u) == One(u \in DOMAIN conns) - One(Reading(u))

LedgerInv ==
  /\ IsFiniteSet({c \in Chans : pc[c] # "idle"})
  /\ pass = "wait" => users = <<>>
  /\ \A u \in Uids : Ledger(u) <= Due(u) /\ (u \notin raced => Ledger(u) = Due(u))

Casts(u, cmd) == {c \in Chans : pc[c] = "cast" /\ req[c].cmd = cmd /\ req[c].uid = u}
Notes(u) == {i \in 1..Len(users) : users[i][1] = u /\ (i = 1 => pass # "close")}

LEMMA Counted ==
  ASSUME TypeOK, LedgerInv, NEW u \in Uids
  PROVE  /\ \A cmd : /\ IsFiniteSet(Casts(u, cmd)) /\ Waiting(u, cmd) = Cardinality(Casts(u, cmd))
                     /\ Waiting(u, cmd) \in Nat
         /\ IsFiniteSet(Notes(u)) /\ Collected(u) = Cardinality(Notes(u)) /\ Collected(u) \in Nat
         /\ announced[u] \in Int
<1>1. ASSUME NEW cmd PROVE /\ IsFiniteSet(Casts(u, cmd)) /\ Waiting(u, cmd) = Cardinality(Casts(u, cmd))
                           /\ Waiting(u, cmd) \in Nat
  <2>1. Casts(u, cmd) \in SUBSET {c \in Chans : pc[c] # "idle"}
    BY DEF Casts
  <2>2. IsFiniteSet(Casts(u, cmd))
    BY <2>1, FS_Subset DEF LedgerInv
  <2> QED BY <2>2, FS_CardinalityType DEF Casts, Waiting
<1>2. IsFiniteSet(Notes(u))
  <2>1. Len(users) \in Nat
    BY DEF TypeOK
  <2>2. IsFiniteSet(1..Len(users))
    BY <2>1, FS_Interval
  <2>3. Notes(u) \in SUBSET (1..Len(users))
    BY DEF Notes
  <2> QED BY <2>2, <2>3, FS_Subset
<1>3. Collected(u) = Cardinality(Notes(u)) /\ Collected(u) \in Nat
  BY <1>2, FS_CardinalityType DEF Collected, Notes
<1> QED BY <1>1, <1>2, <1>3 DEF TypeOK

\* Nobody starts or ends a cast.
LEMMA CastsSame ==
  ASSUME TypeOK, 
         \A c \in Chans : /\ pc'[c] = "cast" <=> pc[c] = "cast"
                          /\ pc[c] = "cast" => req'[c].cmd = req[c].cmd /\ req'[c].uid = req[c].uid
  PROVE  \A u, cmd : Waiting(u, cmd)' = Waiting(u, cmd)
<1> SUFFICES ASSUME NEW u, NEW cmd PROVE Waiting(u, cmd)' = Waiting(u, cmd)
  OBVIOUS
<1>1. Casts(u, cmd)' = Casts(u, cmd)
  BY DEF Casts
<1> QED BY <1>1 DEF Waiting, Casts

\* A handler comes to its cast.
LEMMA CastsJoin ==
  ASSUME TypeOK, LedgerInv, NEW c \in Chans, pc[c] # "cast",
         pc' = [pc EXCEPT ![c] = "cast"], UNCHANGED req, NEW u \in Uids, NEW cmd
  PROVE  Waiting(u, cmd)' = Waiting(u, cmd) + One(req[c].cmd = cmd /\ req[c].uid = u)
<1>1. /\ IsFiniteSet(Casts(u, cmd)) /\ Waiting(u, cmd) = Cardinality(Casts(u, cmd))
      /\ Waiting(u, cmd) \in Nat
  BY Counted
<1>2. Waiting(u, cmd)' = Cardinality(Casts(u, cmd)')
  BY DEF Waiting, Casts
<1>3. c \notin Casts(u, cmd)
  BY DEF Casts
<1>4. CASE req[c].cmd = cmd /\ req[c].uid = u
  <2>1. Casts(u, cmd)' = Casts(u, cmd) \cup {c}
    BY <1>4 DEF Casts, TypeOK
  <2> QED BY <1>1, <1>2, <1>3, <1>4, <2>1, FS_AddElement DEF One
<1>5. CASE ~(req[c].cmd = cmd /\ req[c].uid = u)
  <2>1. Casts(u, cmd)' = Casts(u, cmd)
    BY <1>5 DEF Casts, TypeOK
  <2> QED BY <1>1, <1>2, <1>5, <2>1 DEF One
<1> QED BY <1>4, <1>5

\* A handler has cast.
LEMMA CastsLeave ==
  ASSUME TypeOK, LedgerInv, NEW c \in Chans, pc[c] = "cast",
         pc' = [pc EXCEPT ![c] = "idle"], UNCHANGED req, NEW u \in Uids, NEW cmd
  PROVE  Waiting(u, cmd)' = Waiting(u, cmd) - One(req[c].cmd = cmd /\ req[c].uid = u)
<1>1. /\ IsFiniteSet(Casts(u, cmd)) /\ Waiting(u, cmd) = Cardinality(Casts(u, cmd))
      /\ Waiting(u, cmd) \in Nat
  BY Counted
<1>2. Waiting(u, cmd)' = Cardinality(Casts(u, cmd)')
  BY DEF Waiting, Casts
<1>4. CASE req[c].cmd = cmd /\ req[c].uid = u
  <2>1. Casts(u, cmd)' = Casts(u, cmd) \ {c} /\ c \in Casts(u, cmd)
    BY <1>4 DEF Casts, TypeOK
  <2> QED BY <1>1, <1>2, <1>4, <2>1, FS_RemoveElement DEF One
<1>5. CASE ~(req[c].cmd = cmd /\ req[c].uid = u)
  <2>1. Casts(u, cmd)' = Casts(u, cmd)
    BY <1>5 DEF Casts, TypeOK
  <2> QED BY <1>1, <1>2, <1>5, <2>1 DEF One
<1> QED BY <1>4, <1>5

\* The pass notes nobody and casts for nobody.
LEMMA NotesSame ==
  ASSUME UNCHANGED users, pass' = "close" <=> pass = "close"
  PROVE  \A u : Collected(u)' = Collected(u)
  BY DEF Collected

\* The pass notes the current user.
LEMMA NotesJoin ==
  ASSUME TypeOK, LedgerInv, pass = "lookup", pass' = "zread", NEW u \in Uids,
         NEW v \in Uids, NEW c \in Chans, users' = Append(users, <<v, c>>)
  PROVE  Collected(u)' = Collected(u) + One(u = v)
<1> DEFINE P == Uids \X Chans
           n == Len(users)
<1>1. IsFiniteSet(Notes(u)) /\ Collected(u) = Cardinality(Notes(u)) /\ Collected(u) \in Nat
  BY Counted
<1>2. Collected(u)' = Cardinality(Notes(u)')
  BY DEF Collected, Notes
<1>3. users \in Seq(P) /\ <<v, c>> \in P
  BY DEF TypeOK
<1>4. <<v, c>>[1] = v
  OBVIOUS
<1>5. /\ n \in Nat /\ Len(users') = n + 1
      /\ \A i \in 1..n : users'[i] = users[i]
      /\ users'[n + 1] = <<v, c>>
  <2> HIDE DEF P
  <2> QED BY <1>3
<1> HIDE DEF n
<1>6. Notes(u) = {i \in 1..n : users[i][1] = u}
  BY DEF Notes, n
<1>7. Notes(u)' = {i \in 1..(n + 1) : users'[i][1] = u}
  BY <1>5 DEF Notes
<1>8. n + 1 \notin Notes(u)
  BY <1>5, <1>6
<1>9. CASE u = v
  <2>1. Notes(u)' = Notes(u) \cup {n + 1}
    BY <1>4, <1>5, <1>6, <1>7, <1>9
  <2> QED BY <1>1, <1>2, <1>8, <1>9, <2>1, FS_AddElement DEF One
<1>10. CASE u # v
  <2>1. Notes(u)' = Notes(u)
    BY <1>4, <1>5, <1>6, <1>7, <1>10
  <2> QED BY <1>1, <1>2, <1>10, <2>1 DEF One
<1> QED BY <1>9, <1>10

\* The pass casts the logout of the first user it has noted.
LEMMA NotesCast ==
  ASSUME TypeOK, LedgerInv, pass = "notify", pass' = "close", UNCHANGED users, users # <<>>,
         NEW u \in Uids
  PROVE  Collected(u)' = Collected(u) - One(Head(users)[1] = u)
<1>1. IsFiniteSet(Notes(u)) /\ Collected(u) = Cardinality(Notes(u)) /\ Collected(u) \in Nat
  BY Counted
<1>2. Collected(u)' = Cardinality(Notes(u)')
  BY DEF Collected, Notes
<1>3. users \in Seq(Uids \X Chans)
  BY DEF TypeOK
<1>4. Len(users) \in Nat /\ Len(users) >= 1 /\ Head(users) = users[1]
  BY <1>3
<1>5. Notes(u)' = Notes(u) \ {1}
  BY DEF Notes
<1>6. 1 \in Notes(u) <=> Head(users)[1] = u
  BY <1>4 DEF Notes
<1>7. Cardinality(Notes(u) \ {1}) =
        IF 1 \in Notes(u) THEN Cardinality(Notes(u)) - 1 ELSE Cardinality(Notes(u))
  BY <1>1, FS_RemoveElement
<1>8. CASE Head(users)[1] = u
  BY <1>1, <1>2, <1>5, <1>6, <1>7, <1>8 DEF One
<1>9. CASE Head(users)[1] # u
  BY <1>1, <1>2, <1>5, <1>6, <1>7, <1>9 DEF One
<1> QED BY <1>8, <1>9

\* The pass goes on to the next user it has noted.
LEMMA NotesClose ==
  ASSUME TypeOK, LedgerInv, pass = "close", pass' = "notify", users' = Tail(users), users # <<>>,
         NEW u \in Uids
  PROVE  Collected(u)' = Collected(u)
<1> DEFINE S == Notes(u)
           T == Notes(u)'
           n == Len(users)
<1>1. IsFiniteSet(S) /\ Collected(u) = Cardinality(S)
  BY Counted
<1>2. Collected(u)' = Cardinality(T)
  BY DEF Collected, Notes
<1>3. users \in Seq(Uids \X Chans)
  BY DEF TypeOK
<1>4. /\ n \in Nat /\ n >= 1 /\ Len(users') = n - 1
      /\ \A i \in 1..(n - 1) : users'[i] = users[i + 1]
  BY <1>3
<1>5. S = {i \in 2..n : users[i][1] = u}
  BY <1>4 DEF Notes
<1>6. T = {i \in 1..(n - 1) : users[i + 1][1] = u}
  <2>1. T = {i \in 1..Len(users') : users'[i][1] = u}
    BY DEF Notes
  <2> HIDE DEF S, T, n
  <2> QED BY <1>4, <2>1
<1> HIDE DEF S, T, n
<1> DEFINE f == [i \in S |-> i - 1]
<1>7. f \in [S -> T]
  BY <1>4, <1>5, <1>6
<1>8. \A i, j \in S : f[i] = f[j] => i = j
  BY <1>4, <1>5
<1>9. \A t \in T : \E i \in S : f[i] = t
  <2> SUFFICES ASSUME NEW t \in T PROVE \E i \in S : f[i] = t
    OBVIOUS
  <2>1. t + 1 \in S /\ t \in Int
    BY <1>4, <1>5, <1>6
  <2>2. f[t + 1] = t
    BY <2>1
  <2> QED BY <2>1, <2>2
<1> HIDE DEF f
<1>10. ExistsBijection(S, T)
  BY <1>7, <1>8, <1>9 DEF ExistsBijection, Bijection, Injection, Surjection, IsInjective
<1>11. Cardinality(T) = Cardinality(S)
  BY <1>1, <1>10, FS_Bijection
<1> QED BY <1>1, <1>2, <1>11

-----------------------------------------------------------------------------
(* The ledger changes by as much as it should. *)

LEMMA OneInt == \A b \in BOOLEAN : One(b) \in {0, 1} /\ (b => One(b) = 1) /\ (~b => One(b) = 0)
  BY DEF One

LEMMA LedgerStep ==
  ASSUME IInv, LedgerInv, IsFiniteSet({c \in Chans : pc'[c] # "idle"}),
         pass' = "wait" => users' = <<>>, raced \subseteq raced',
         \A u \in Uids : \E d \in Int :
           /\ Ledger(u)' = Ledger(u) + d
           /\ d <= Due(u)' - Due(u)
           /\ u \notin raced' => d = Due(u)' - Due(u)
  PROVE  LedgerInv'
<1> SUFFICES ASSUME NEW u \in Uids
             PROVE  Ledger(u)' <= Due(u)' /\ (u \notin raced' => Ledger(u)' = Due(u)')
  BY DEF LedgerInv
<1>1. PICK d \in Int : /\ Ledger(u)' = Ledger(u) + d
                       /\ d <= Due(u)' - Due(u)
                       /\ u \notin raced' => d = Due(u)' - Due(u)
  OBVIOUS
<1>2. Ledger(u) <= Due(u) /\ (u \notin raced' => Ledger(u) = Due(u))
  BY DEF LedgerInv
<1>3. Ledger(u) \in Int
  <2>1. TypeOK
    BY DEF IInv
  <2> QED BY <2>1, Counted DEF Ledger
<1>4. Due(u) \in Int /\ Due(u)' \in Int
  BY OneInt DEF Due, One
<1> QED BY <1>1, <1>2, <1>3, <1>4

\* At most one handler gets busy.
LEMMA BusyStep ==
  ASSUME LedgerInv, NEW c \in Chans, \A d \in Chans \ {c} : pc'[d] # "idle" => pc[d] # "idle"
  PROVE  IsFiniteSet({d \in Chans : pc'[d] # "idle"})
<1> DEFINE B == {d \in Chans : pc[d] # "idle"}
           C == {d \in Chans : pc'[d] # "idle"}
<1>1. IsFiniteSet(B \cup {c})
  BY FS_AddElement DEF LedgerInv
<1>2. C \in SUBSET (B \cup {c})
  OBVIOUS
<1> QED BY <1>1, <1>2, FS_Subset

\* A step that casts nothing, notes nobody and ends no session.
LEMMA LedgerFrame ==
  ASSUME IInv, LedgerInv, UNCHANGED <<users, announced>>, raced \subseteq raced',
         IsFiniteSet({d \in Chans : pc'[d] # "idle"}),
         \A u \in Uids, cmd \in {"login", "logout"} : Waiting(u, cmd)' = Waiting(u, cmd),
         pass' = "wait" => users = <<>>, pass' = "close" <=> pass = "close",
         \A u \in Uids : Due(u)' = Due(u)
  PROVE  LedgerInv'
<1>1. \A u \in Uids : Collected(u)' = Collected(u)
  BY NotesSame
<1>2. ASSUME NEW u \in Uids PROVE Ledger(u)' = Ledger(u) /\ Due(u) \in Int /\ Ledger(u) \in Int
  <2>1. TypeOK
    BY DEF IInv
  <2>2. Ledger(u)' = Ledger(u) /\ Ledger(u) \in Int
    BY <1>1, <2>1, Counted DEF Ledger
  <2> QED BY <2>2, OneInt DEF Due, One
<1>3. ASSUME NEW u \in Uids
      PROVE  \E d \in Int : /\ Ledger(u)' = Ledger(u) + d
                            /\ d <= Due(u)' - Due(u)
                            /\ u \notin raced' => d = Due(u)' - Due(u)
  <2>1. Ledger(u)' = Ledger(u) + 0 /\ 0 = Due(u)' - Due(u) /\ 0 \in Int
    BY <1>2
  <2> QED BY <2>1
<1>4. pass' = "wait" => users' = <<>>
  OBVIOUS
<1> QED BY <1>3, <1>4, LedgerStep

\* The pass and the sessions left as they are.
LEMMA DueFrame ==
  ASSUME UNCHANGED <<pass, elems>>, DOMAIN conns' = DOMAIN conns
  PROVE  \A u : Due(u)' = Due(u)
  BY DEF Due, Reading, Current

\* The clock, the connections and the process.
LEMMA EnvironmentLedger ==
  ASSUME IInv, LedgerInv,
         Clock \/ (\E c \in Chans : Accept(c) \/ Disconnect(c) \/ Recv(c)) \/ RaceCrash
         \/ UNCHANGED vars
  PROVE  LedgerInv'
<1> USE DEF table, handler, sweeper
<1>0. TypeOK
  BY DEF IInv
<1>1. CASE Clock \/ (\E c \in Chans : Accept(c) \/ Disconnect(c)) \/ RaceCrash \/ UNCHANGED vars
  <2>1. UNCHANGED <<pc, req, pass, elems, users, announced, conns, raced>>
    BY <1>1 DEF Clock, Accept, Disconnect, RaceCrash, vars
  <2>2. \A u, cmd : Waiting(u, cmd)' = Waiting(u, cmd)
    BY <2>1 DEF Waiting
  <2>3. IsFiniteSet({d \in Chans : pc'[d] # "idle"})
    BY <2>1 DEF LedgerInv
  <2> QED BY <2>1, <2>2, <2>3, DueFrame, LedgerFrame DEF LedgerInv
<1>2. ASSUME NEW c \in Chans, Recv(c) PROVE LedgerInv'
  <2>1. /\ UNCHANGED <<pass, elems, users, announced, conns, raced>>
        /\ pc[c] = "idle" /\ pc'[c] = "lock"
        /\ \A d \in Chans \ {c} : req'[d] = req[d] /\ pc'[d] = pc[d]
    BY <1>0, <1>2 DEF Recv, TypeOK
  <2>2. \A u, cmd : Waiting(u, cmd)' = Waiting(u, cmd)
    BY <1>0, <2>1, CastsSame
  <2>3. IsFiniteSet({d \in Chans : pc'[d] # "idle"})
    BY <2>1, BusyStep
  <2> QED BY <2>1, <2>2, <2>3, DueFrame, LedgerFrame DEF LedgerInv
<1> QED BY <1>1, <1>2

\* The first step of a section.
LEMMA SectionLedger ==
  ASSUME IInv, LedgerInv, NEW c \in Chans, Section(c)
  PROVE  LedgerInv'
<1> USE DEF table, handler, sweeper
<1>0. TypeOK
  BY DEF IInv
<1>1. /\ UNCHANGED <<pass, elems, users, announced>> /\ pc[c] = "lock"
      /\ \A d \in Chans \ {c} : pc'[d] = pc[d]
      /\ raced \subseteq raced'
  BY <1>0 DEF Section, LoginRefused, LoginFails, LoginAdd, LogoutRefused, LogoutRemove,
              RefreshRefused, RefreshScore, DoCmd, Untouched, At, Enter, Refuse, NoteRace, TypeOK
<1>2. DOMAIN conns' = DOMAIN conns
  <2>1. CASE RefreshScore(c)
    BY <1>0, <2>1, RefreshConns
  <2> QED BY <2>1 DEF Section, LoginRefused, LoginFails, LoginAdd, LogoutRefused, LogoutRemove,
                      RefreshRefused, Refuse, DoCmd
<1>3. IsFiniteSet({d \in Chans : pc'[d] # "idle"})
  BY <1>1, BusyStep
<1>4. ASSUME \A u \in Uids, cmd \in {"login", "logout"} : Waiting(u, cmd)' = Waiting(u, cmd)
      PROVE  LedgerInv'
  BY <1>1, <1>2, <1>3, <1>4, DueFrame, LedgerFrame DEF LedgerInv
<1>5. CASE RefreshRefused(c)
  <2>1. pc' = [pc EXCEPT ![c] = "cast"] /\ UNCHANGED req /\ req[c].cmd = "heartbeat"
    BY <1>5 DEF RefreshRefused, Refuse, At
  <2>2. ASSUME NEW u \in Uids, NEW cmd \in {"login", "logout"}
        PROVE  Waiting(u, cmd)' = Waiting(u, cmd)
    <3>1. Waiting(u, cmd)' = Waiting(u, cmd) + One(req[c].cmd = cmd /\ req[c].uid = u)
      BY <1>0, <1>1, <2>1, CastsJoin
    <3>2. Waiting(u, cmd) \in Nat
      BY <1>0, Counted
    <3>3. One(req[c].cmd = cmd /\ req[c].uid = u) = 0
      BY <2>1 DEF One
    <3> QED BY <3>1, <3>2, <3>3
  <2> QED BY <1>4, <2>2
<1>6. CASE ~RefreshRefused(c)
  <2>1. /\ pc'[c] # "cast"
        /\ \A d \in Chans \ {c} : req'[d].uid = req[d].uid /\ req'[d].cmd = req[d].cmd
    BY <1>0, <1>6 DEF Section, LoginRefused, LoginFails, LoginAdd, LogoutRefused, LogoutRemove,
              RefreshScore, DoCmd, Untouched, At, Enter, Refuse, TypeOK
  <2>2. \A u, cmd : Waiting(u, cmd)' = Waiting(u, cmd)
    BY <1>0, <1>1, <2>1, CastsSame
  <2> QED BY <1>4, <2>2
<1> QED BY <1>5, <1>6

\* The end of a section puts its cast on the ledger before it is made.
LEMMA LeaveLedger ==
  ASSUME IInv, LedgerInv, NEW c \in Chans, pc[c] \in InSection, Leave(c),
         UNCHANGED <<users, pass, announced>>, NEW u \in Uids
  PROVE  /\ Ledger(u)' = Ledger(u) + One(req[c].cmd = "login" /\ req[c].uid = u)
                                   - One(req[c].cmd = "logout" /\ req[c].uid = u)
         /\ Ledger(u) \in Int
<1>0. TypeOK
  BY DEF IInv
<1>1. pc[c] # "cast" /\ pc' = [pc EXCEPT ![c] = "cast"] /\ UNCHANGED req
  BY DEF Leave, InSection
<1> DEFINE li == One(req[c].cmd = "login" /\ req[c].uid = u)
           lo == One(req[c].cmd = "logout" /\ req[c].uid = u)
<1>2. /\ Waiting(u, "login")' = Waiting(u, "login") + li
      /\ Waiting(u, "logout")' = Waiting(u, "logout") + lo
  BY <1>0, <1>1, CastsJoin
<1>3. Collected(u)' = Collected(u) /\ announced'[u] = announced[u]
  BY NotesSame
<1>4. /\ Waiting(u, "login") \in Nat /\ Waiting(u, "logout") \in Nat
      /\ Collected(u) \in Nat /\ announced[u] \in Int
  BY <1>0, Counted
<1>5. li \in Int /\ lo \in Int
  BY DEF One
<1> HIDE DEF li, lo
<1>6. Ledger(u)' = Ledger(u) + li - lo /\ Ledger(u) \in Int
  BY <1>2, <1>3, <1>4, <1>5 DEF Ledger
<1> QED BY <1>6 DEF li, lo

LEMMA FinishBusy ==
  ASSUME IInv, LedgerInv, NEW c \in Chans, pc' = [pc EXCEPT ![c] = "cast"] \/ pc' = [pc EXCEPT ![c] = "idle"]
  PROVE  IsFiniteSet({d \in Chans : pc'[d] # "idle"})
<1>1. \A d \in Chans \ {c} : pc'[d] = pc[d]
  BY DEF IInv, TypeOK
<1> QED BY <1>1, BusyStep

LEMMA LoginLedger ==
  ASSUME IInv, LedgerInv, NEW c \in Chans, LoginStore(c)
  PROVE  LedgerInv'
<1> USE DEF table, handler, sweeper
<1> DEFINE v == req[c].uid
<1>0. TypeOK /\ v \in Uids /\ v \notin DOMAIN conns
  BY RequestFacts DEF IInv, StoreInv, LoginStore, At
<1>1. /\ pc[c] \in InSection /\ Leave(c) /\ UNCHANGED <<users, pass, elems, announced, raced>>
      /\ req[c].cmd = "login"
  BY DEF LoginStore, At, InSection, Untouched, Leave
<1>2. DOMAIN conns' = DOMAIN conns \cup {v}
  BY <1>0, LoginStoreConns
<1>3. IsFiniteSet({d \in Chans : pc'[d] # "idle"})
  BY <1>1, FinishBusy DEF Leave
<1>4. ASSUME NEW u \in Uids
      PROVE  \E d \in Int : /\ Ledger(u)' = Ledger(u) + d
                            /\ d <= Due(u)' - Due(u)
                            /\ u \notin raced' => d = Due(u)' - Due(u)
  <2>1. /\ Ledger(u)' = Ledger(u) + One(req[c].cmd = "login" /\ v = u)
                                  - One(req[c].cmd = "logout" /\ v = u)
        /\ Ledger(u) \in Int
    BY <1>1, LeaveLedger
  <2>2. Reading(u)' = Reading(u)
    BY <1>1 DEF Reading, Current
  <2> DEFINE d == IF u = v THEN 1 ELSE 0
  <2>3. Ledger(u)' = Ledger(u) + d
    BY <1>1, <2>1 DEF One
  <2> HIDE DEF v
  <2>4. Due(u)' - Due(u) = d /\ d \in Int
    BY <1>0, <1>2, <2>2 DEF Due, One
  <2> HIDE DEF d
  <2>5. d <= Due(u)' - Due(u)
    BY <2>4
  <2> QED BY <2>3, <2>4, <2>5
<1>5. pass' = "wait" => users' = <<>>
  BY <1>1 DEF LedgerInv
<1> QED BY <1>1, <1>3, <1>4, <1>5, LedgerStep

LEMMA LogoutLedger ==
  ASSUME IInv, LedgerInv, NEW c \in Chans, LogoutDrop(c)
  PROVE  LedgerInv'
<1> USE DEF table, handler, sweeper
<1> DEFINE v == req[c].uid
<1>0. TypeOK /\ v \in Uids
  BY RequestFacts DEF IInv
<1>1. /\ pc[c] = "drop" /\ Leave(c) /\ UNCHANGED <<users, pass, elems, announced, raced>>
      /\ req[c].cmd = "logout" /\ mu = c
  BY DEF LogoutDrop, At, InSection, Untouched, Leave, IInv, LockInv
<1>2. DOMAIN conns' = DOMAIN conns \ {v}
  BY <1>0, DropConns DEF LogoutDrop
<1>3. IsFiniteSet({d \in Chans : pc'[d] # "idle"})
  BY <1>1, FinishBusy DEF Leave
<1>k. v \notin raced => v \in DOMAIN conns
  BY <1>0, <1>1 DEF IInv, RaceInv, UserInv, SectionInv
<1>4. ASSUME NEW u \in Uids
      PROVE  \E d \in Int : /\ Ledger(u)' = Ledger(u) + d
                            /\ d <= Due(u)' - Due(u)
                            /\ u \notin raced' => d = Due(u)' - Due(u)
  <2>1. /\ Ledger(u)' = Ledger(u) + One(req[c].cmd = "login" /\ v = u)
                                  - One(req[c].cmd = "logout" /\ v = u)
        /\ Ledger(u) \in Int
    BY <1>1, LeaveLedger DEF InSection
  <2>2. Reading(u)' = Reading(u)
    BY <1>1 DEF Reading, Current
  <2> DEFINE d == IF u = v THEN -1 ELSE 0
  <2>3. Ledger(u)' = Ledger(u) + d
    BY <1>1, <2>1 DEF One
  <2> HIDE DEF v
  <2>4. d <= Due(u)' - Due(u) /\ (u \notin raced => d = Due(u)' - Due(u)) /\ d \in Int
    BY <1>0, <1>2, <1>k, <2>2 DEF Due, One
  <2> HIDE DEF d
  <2> QED BY <1>1, <2>3, <2>4
<1>5. pass' = "wait" => users' = <<>>
  BY <1>1 DEF LedgerInv
<1> QED BY <1>1, <1>3, <1>4, <1>5, LedgerStep

LEMMA RefreshLedger ==
  ASSUME IInv, LedgerInv, NEW c \in Chans, RefreshLeave(c)
  PROVE  LedgerInv'
<1> USE DEF table, handler, sweeper
<1>0. TypeOK
  BY DEF IInv
<1>1. /\ pc[c] = "extend" /\ pc' = [pc EXCEPT ![c] = "cast"] /\ req[c].cmd = "heartbeat"
      /\ UNCHANGED <<users, pass, elems, announced, raced, conns, req>>
  BY DEF RefreshLeave, At, Untouched, Leave
<1>2. ASSUME NEW u \in Uids, NEW cmd \in {"login", "logout"}
      PROVE  Waiting(u, cmd)' = Waiting(u, cmd)
  <2>1. Waiting(u, cmd)' = Waiting(u, cmd) + One(req[c].cmd = cmd /\ req[c].uid = u)
    BY <1>0, <1>1, CastsJoin
  <2>2. Waiting(u, cmd) \in Nat
    BY <1>0, Counted
  <2>3. One(req[c].cmd = cmd /\ req[c].uid = u) = 0
    BY <1>1 DEF One
  <2> QED BY <2>1, <2>2, <2>3
<1>3. IsFiniteSet({d \in Chans : pc'[d] # "idle"})
  BY <1>1, FinishBusy
<1> QED BY <1>1, <1>2, <1>3, DueFrame, LedgerFrame DEF LedgerInv

\* A cast moves from the ones waiting to the ones made.
LEMMA CastLedger ==
  ASSUME IInv, LedgerInv, NEW c \in Chans, Cast(c)
  PROVE  LedgerInv'
<1> USE DEF table, handler, sweeper
<1> DEFINE v == req[c].uid
           k == req[c].cmd
<1>0. TypeOK /\ v \in Uids
  BY RequestFacts DEF IInv
<1>1. /\ pc[c] = "cast" /\ pc' = [pc EXCEPT ![c] = "idle"]
      /\ UNCHANGED <<users, pass, elems, raced, conns, req>>
  BY DEF Cast
<1>2. IsFiniteSet({d \in Chans : pc'[d] # "idle"})
  BY <1>1, FinishBusy
<1>3. ASSUME NEW u \in Uids
      PROVE  announced'[u] = announced[u] + One(k = "login" /\ v = u) - One(k = "logout" /\ v = u)
  <2>1. announced[u] \in Int /\ announced \in [Uids -> Int]
    BY <1>0 DEF TypeOK
  <2>2. CASE u # v
    BY <2>1, <2>2 DEF Cast, One
  <2>3. CASE u = v
    <3>1. announced'[u] = announced[u] + (CASE k = "login" -> 1 [] k = "logout" -> -1 [] OTHER -> 0)
      BY <1>0, <2>1, <2>3 DEF Cast
    <3> HIDE DEF v, k
    <3> QED BY <2>1, <2>3, <3>1 DEF One
  <2> QED BY <2>2, <2>3
<1>4. ASSUME NEW u \in Uids
      PROVE  Ledger(u)' = Ledger(u) /\ Due(u)' = Due(u) /\ Ledger(u) \in Int /\ Due(u) \in Int
  <2>1. /\ Waiting(u, "login")' = Waiting(u, "login") - One(k = "login" /\ v = u)
        /\ Waiting(u, "logout")' = Waiting(u, "logout") - One(k = "logout" /\ v = u)
    BY <1>0, <1>1, CastsLeave
  <2>2. Collected(u)' = Collected(u)
    BY <1>1, NotesSame
  <2>3. /\ Waiting(u, "login") \in Nat /\ Waiting(u, "logout") \in Nat
        /\ Collected(u) \in Nat /\ announced[u] \in Int
    BY <1>0, Counted
  <2>4. One(k = "login" /\ v = u) \in Int /\ One(k = "logout" /\ v = u) \in Int
    BY DEF One
  <2> HIDE DEF v, k
  <2>5. Ledger(u)' = Ledger(u) /\ Ledger(u) \in Int
    BY <1>3, <2>1, <2>2, <2>3, <2>4 DEF Ledger
  <2>6. Due(u)' = Due(u) /\ Due(u) \in Int
    BY <1>1, DueFrame, OneInt DEF Due, One
  <2> QED BY <2>5, <2>6
<1>5. ASSUME NEW u \in Uids
      PROVE  \E d \in Int : /\ Ledger(u)' = Ledger(u) + d
                            /\ d <= Due(u)' - Due(u)
                            /\ u \notin raced' => d = Due(u)' - Due(u)
  <2>1. Ledger(u)' = Ledger(u) + 0 /\ 0 = Due(u)' - Due(u) /\ 0 \in Int
    BY <1>4
  <2> QED BY <2>1
<1>6. pass' = "wait" => users' = <<>>
  BY <1>1 DEF LedgerInv
<1> QED BY <1>1, <1>2, <1>5, <1>6, LedgerStep

\* The steps of the pass between the lookup and the removal, and around them.
LEMMA QuietSweepLedger ==
  ASSUME IInv, LedgerInv,
         SweepBegin \/ SweepRange \/ SweepRead \/ SweepList \/ SweepDict
         \/ (SweepCast /\ users = <<>>) \/ (SweepLookup /\ Current \notin DOMAIN conns)
  PROVE  LedgerInv'
<1> USE DEF table, handler, sweeper, Others
<1>1. /\ UNCHANGED <<pc, req, users, announced, conns>> /\ raced \subseteq raced'
      /\ pass' = "close" <=> pass = "close"
      /\ pass' = "wait" => users = <<>>
  BY DEF SweepBegin, SweepRange, SweepRead, SweepList, SweepDict, SweepCast, SweepLookup, LedgerInv
<1>2. \A u, cmd : Waiting(u, cmd)' = Waiting(u, cmd)
  BY <1>1 DEF Waiting
<1>3. IsFiniteSet({d \in Chans : pc'[d] # "idle"})
  BY <1>1 DEF LedgerInv
<1>4. ASSUME NEW u \in Uids PROVE Reading(u)' <=> Reading(u)
  <2>1. CASE SweepBegin \/ SweepRange \/ SweepCast
    BY <2>1 DEF SweepBegin, SweepRange, SweepCast, Reading
  <2>0. CASE SweepLookup /\ Current \notin DOMAIN conns
    BY <2>0 DEF SweepLookup, Reading
  <2>2. CASE SweepRead \/ SweepList \/ SweepDict
    <3>1. Current' = Current
      BY <2>2 DEF SweepRead, SweepList, SweepDict, Current
    <3> QED BY <2>2, <3>1 DEF SweepRead, SweepList, SweepDict, Reading
  <2> QED BY <2>0, <2>1, <2>2, Zenon
<1>5. \A u \in Uids : Due(u)' = Due(u)
  BY <1>1, <1>4 DEF Due, One
<1> QED BY <1>1, <1>2, <1>3, <1>5, LedgerFrame

\* The lookup notes a logout for a session that still stands.
LEMMA LookupLedger ==
  ASSUME IInv, LedgerInv, SweepLookup, Current \in DOMAIN conns
  PROVE  LedgerInv'
<1> USE DEF table, handler, sweeper, Others
<1>0. TypeOK /\ Current \in Uids
  BY CurrentCaptured DEF IInv, PassInv, SweepLookup, Working
<1>1. /\ pass = "lookup" /\ pass' = "zread" /\ UNCHANGED <<pc, req, elems, announced, conns, raced>>
      /\ users' = Append(users, <<Current, conns[Current].chan>>)
  BY DEF SweepLookup
<1>2. PICK v \in Uids : v = Current
  BY <1>0
<1>3. PICK c \in Chans : c = conns[Current].chan
  BY <1>0 DEF TypeOK, IsMap, Session
<1>4. ASSUME NEW u \in Uids
      PROVE  \E d \in Int : /\ Ledger(u)' = Ledger(u) + d
                            /\ d <= Due(u)' - Due(u)
                            /\ u \notin raced' => d = Due(u)' - Due(u)
  <2>1. Collected(u)' = Collected(u) + One(u = v)
    BY <1>0, <1>1, <1>2, <1>3, NotesJoin
  <2>2. /\ Waiting(u, "login")' = Waiting(u, "login")
        /\ Waiting(u, "logout")' = Waiting(u, "logout")
    BY <1>1 DEF Waiting
  <2>3. /\ Waiting(u, "login") \in Nat /\ Waiting(u, "logout") \in Nat
        /\ Collected(u) \in Nat /\ announced[u] \in Int /\ announced'[u] = announced[u]
    BY <1>0, <1>1, Counted
  <2>4. ~Reading(u) /\ (Reading(u)' <=> u = v)
    BY <1>1, <1>2 DEF Reading, Current
  <2> DEFINE d == IF u = v THEN -1 ELSE 0
  <2>5. Ledger(u)' = Ledger(u) + d
    BY <2>1, <2>2, <2>3 DEF Ledger, One
  <2>6. Due(u)' - Due(u) = d /\ d \in Int
    BY <1>1, <2>4 DEF Due, One
  <2> HIDE DEF d
  <2>7. d <= Due(u)' - Due(u)
    BY <2>6
  <2> QED BY <2>5, <2>6, <2>7
<1>5. IsFiniteSet({d \in Chans : pc'[d] # "idle"}) /\ (pass' = "wait" => users' = <<>>)
  BY <1>1 DEF LedgerInv
<1> QED BY <1>1, <1>4, <1>5, LedgerStep

\* The removal: the logout was noted at the lookup.
LEMMA RemovalLedger ==
  ASSUME IInv, LedgerInv, SweepConn
  PROVE  LedgerInv'
<1> USE DEF table, handler, sweeper, Others
<1>0. TypeOK /\ Current \in Uids
  BY CurrentCaptured DEF IInv, PassInv, SweepConn, Working
<1>1. /\ pass = "conn" /\ pass' \in {"notify", "lookup"}
      /\ UNCHANGED <<pc, req, users, announced, raced>>
  BY DEF SweepConn
<1>2. PICK v \in Uids : v = Current
  BY <1>0
<1>3. DOMAIN conns' = DOMAIN conns \ {v}
  BY <1>0, <1>2, DropConns DEF SweepConn
<1>4. v \notin raced => v \in DOMAIN conns
  BY <1>1, <1>2, CurrentWhole DEF CapturedInv, Working
<1>5. ASSUME NEW u \in Uids
      PROVE  \E d \in Int : /\ Ledger(u)' = Ledger(u) + d
                            /\ d <= Due(u)' - Due(u)
                            /\ u \notin raced' => d = Due(u)' - Due(u)
  <2>1. Collected(u)' = Collected(u)
    BY <1>1, NotesSame
  <2>2. /\ Waiting(u, "login")' = Waiting(u, "login")
        /\ Waiting(u, "logout")' = Waiting(u, "logout")
    BY <1>1 DEF Waiting
  <2>3. Ledger(u)' = Ledger(u) + 0
    BY <1>0, <1>1, <2>1, <2>2, Counted DEF Ledger
  <2>4. (Reading(u) <=> u = v) /\ ~Reading(u)'
    BY <1>1, <1>2 DEF Reading
  <2>5. 0 <= Due(u)' - Due(u) /\ (u \notin raced => 0 = Due(u)' - Due(u))
    BY <1>3, <1>4, <2>4 DEF Due, One
  <2> QED BY <1>1, <2>3, <2>5, 0 \in Int
<1>6. IsFiniteSet({d \in Chans : pc'[d] # "idle"}) /\ (pass' = "wait" => users' = <<>>)
  BY <1>1 DEF LedgerInv
<1> QED BY <1>1, <1>5, <1>6, LedgerStep

\* A logout noted becomes a logout cast.
LEMMA NotifyLedger ==
  ASSUME IInv, LedgerInv, (SweepCast /\ users # <<>>) \/ SweepClose
  PROVE  LedgerInv'
<1> USE DEF table, handler, sweeper, Others
<1>0. TypeOK
  BY DEF IInv
<1>1. /\ UNCHANGED <<pc, req, conns, raced>> /\ pass' \in {"close", "notify"}
      /\ pass \in {"close", "notify"}
  BY DEF SweepCast, SweepClose
<1>2. ASSUME NEW u \in Uids
      PROVE  Ledger(u)' = Ledger(u) /\ Due(u)' = Due(u) /\ Ledger(u) \in Int /\ Due(u) \in Int
  <2>1. /\ Waiting(u, "login")' = Waiting(u, "login")
        /\ Waiting(u, "logout")' = Waiting(u, "logout")
    BY <1>1 DEF Waiting
  <2>2. /\ Waiting(u, "login") \in Nat /\ Waiting(u, "logout") \in Nat
        /\ Collected(u) \in Nat /\ announced[u] \in Int
    BY <1>0, Counted
  <2>3. CASE SweepCast /\ users # <<>>
    <3>1. users \in Seq(Uids \X Chans)
      BY <1>0 DEF TypeOK
    <3>2. Head(users) \in Uids \X Chans
      BY <2>3, <3>1
    <3>3. PICK w \in Uids : w = Head(users)[1]
      BY <3>2
    <3>4. /\ pass = "notify" /\ pass' = "close" /\ UNCHANGED users
          /\ announced' = [announced EXCEPT ![w] = announced[w] - 1]
      BY <2>3, <3>3 DEF SweepCast
    <3>5. Collected(u)' = Collected(u) - One(w = u)
      BY <1>0, <2>3, <3>3, <3>4, NotesCast
    <3>6. announced'[u] = announced[u] - One(w = u)
      BY <1>0, <3>4 DEF TypeOK, One
    <3>7. One(w = u) \in Int
      BY DEF One
    <3> QED BY <2>1, <2>2, <3>5, <3>6, <3>7, <1>1, OneInt DEF Ledger, Due, Reading, One
  <2>4. CASE SweepClose
    <3>1. /\ pass = "close" /\ pass' = "notify" /\ users' = Tail(users) /\ users # <<>>
          /\ UNCHANGED announced
      BY <2>4 DEF SweepClose, IInv, PassInv
    <3>2. Collected(u)' = Collected(u)
      BY <1>0, <3>1, NotesClose
    <3> QED BY <2>1, <2>2, <3>1, <3>2, <1>1 DEF Ledger, Due, Reading, One
  <2> QED BY <2>3, <2>4
<1>3. ASSUME NEW u \in Uids
      PROVE  \E d \in Int : /\ Ledger(u)' = Ledger(u) + d
                            /\ d <= Due(u)' - Due(u)
                            /\ u \notin raced' => d = Due(u)' - Due(u)
  <2>1. Ledger(u)' = Ledger(u) + 0 /\ 0 = Due(u)' - Due(u) /\ 0 \in Int
    BY <1>2
  <2> QED BY <2>1
<1>4. IsFiniteSet({d \in Chans : pc'[d] # "idle"}) /\ (pass' = "wait" => users' = <<>>)
  BY <1>1 DEF LedgerInv
<1> QED BY <1>1, <1>3, <1>4, LedgerStep

LEMMA NextLedger == IInv /\ LedgerInv /\ [Next]_vars => LedgerInv'
<1> SUFFICES ASSUME IInv, LedgerInv, [Next]_vars PROVE LedgerInv'
  OBVIOUS
<1>1. ASSUME NEW c \in Chans, Section(c) \/ Finish(c) PROVE LedgerInv'
  BY <1>1, SectionLedger, LoginLedger, LogoutLedger, RefreshLedger, CastLedger DEF Finish
<1>2. CASE SweepBegin \/ SweepStep
  BY <1>2, QuietSweepLedger, LookupLedger, RemovalLedger, NotifyLedger DEF SweepStep
<1>3. CASE Clock \/ (\E c \in Chans : Accept(c) \/ Disconnect(c) \/ Recv(c)) \/ RaceCrash
           \/ Stopped \/ UNCHANGED vars
  BY <1>3, EnvironmentLedger DEF Stopped
<1> QED BY <1>1, <1>2, <1>3 DEF Next

\* LedgerBalanced: the casts of do_login, do_logout and eliminate_user are made
\* after the mutex is released, in any order, and still no session disappears
\* without a logout on its way to the online service; outside races the service
\* is told of each session exactly once.
THEOREM LedgerHolds == Spec => []LedgerBalanced
<1>1. Init => LedgerInv
  <2> SUFFICES ASSUME Init PROVE LedgerInv
    OBVIOUS
  <2>1. {c \in Chans : pc[c] # "idle"} = {} /\ \A u, cmd : Casts(u, cmd) = {}
    BY DEF Init, Casts
  <2>2. \A u : Notes(u) = {}
    BY DEF Init, Notes
  <2>3. \A u, cmd : Waiting(u, cmd) = 0 /\ Collected(u) = 0
    BY <2>1, <2>2, FS_EmptySet DEF Waiting, Collected, Casts, Notes
  <2>4. \A u \in Uids : Ledger(u) = 0 /\ Due(u) = 0
    BY <2>3 DEF Init, Ledger, Due, Reading, One, EmptyMap
  <2>5. IsFiniteSet({c \in Chans : pc[c] # "idle"})
    BY <2>1, FS_EmptySet
  <2>6. users = <<>>
    BY DEF Init
  <2> QED BY <2>4, <2>5, <2>6 DEF LedgerInv
<1>2. IInv /\ LedgerInv => LedgerBalanced
  <2> SUFFICES ASSUME IInv, LedgerInv, NEW u \in Uids
               PROVE  /\ Ledger(u) <= One(u \in DOMAIN conns)
                      /\ u \notin raced /\ Settled(u) => Ledger(u) = One(u \in DOMAIN conns)
    BY DEF LedgerBalanced
  <2>1. Ledger(u) <= Due(u) /\ (u \notin raced => Ledger(u) = Due(u)) /\ Ledger(u) \in Int
    BY Counted DEF LedgerInv, IInv, Ledger
  <2>2. Settled(u) => ~Reading(u)
    BY CurrentCaptured DEF IInv, PassInv, Working, Reading, Settled
  <2> QED BY <2>1, <2>2 DEF Due, One
<1>3. IInv /\ LedgerInv /\ [Next]_vars => LedgerInv'
  BY NextLedger
<1> QED BY <1>1, <1>2, <1>3, Invariance, PTL DEF Spec
==============================================================================
