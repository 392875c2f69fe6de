------------------------- MODULE OnlineHandleProofs -------------------------
(***************************************************************************)
(* Proofs about OnlineHandle, for any users, connections, cache size,      *)
(* expiry and bounds.                                                      *)
(***************************************************************************)
EXTENDS OnlineHandle, SortedSetTheorems, FiniteSetTheorems

-----------------------------------------------------------------------------
(* The inductive invariant. *)

\* Readers are counted and never leave, so that whoever has read once, or has
\* left a token behind, keeps every later writer waiting.
LockInv ==
  /\ \A c \in Conns : pc[c] = "write" =>
       rw.announced /\ rw.writer = c /\ rw.tokens = 0 /\ \A d \in Conns : pc[d] # "read"
  /\ rw.tokens > 0 \/ (\E c \in Conns : pc[c] = "read") => rw.readers > 0

\* The score of a user is the time the cache last heard of it, plus the expiry;
\* its record is the one of the first time.
CacheInv ==
  /\ DOMAIN zset = DOMAIN nodes
  /\ IsFiniteSet(DOMAIN nodes) /\ Cardinality(DOMAIN nodes) <= MaxSize
  /\ \A u \in DOMAIN nodes : nodes[u].expire <= zset[u] /\ zset[u] = lastSeen[u] + CacheExpire
  /\ \A u \in Uids : lastSeen[u] <= now

IInv == TypeOK /\ LockInv /\ CacheInv

-----------------------------------------------------------------------------
(* The fields of the RWMutex. *)

LEMMA RWSteps ==
  ASSUME IsRWMutex(rw, Conns, NoOne)
  PROVE  /\ IsRWMutex(RLocked(rw), Conns, NoOne)
         /\ RLocked(rw).readers = rw.readers + 1 /\ RLocked(rw).tokens = rw.tokens
         /\ RLocked(rw).writer = rw.writer /\ RLocked(rw).announced = rw.announced
         /\ rw.tokens > 0 =>
              /\ IsRWMutex(TakeToken(rw), Conns, NoOne)
              /\ TakeToken(rw).readers = rw.readers /\ TakeToken(rw).writer = rw.writer
              /\ TakeToken(rw).announced = rw.announced
         /\ \A c \in Conns :
              /\ IsRWMutex(Announced(rw, c), Conns, NoOne)
              /\ Announced(rw, c).writer = c /\ Announced(rw, c).announced
              /\ Announced(rw, c).readers = rw.readers /\ Announced(rw, c).tokens = rw.tokens
         /\ IsRWMutex(UnlockedBy(rw, NoOne), Conns, NoOne)
         /\ UnlockedBy(rw, NoOne).readers = rw.readers
         /\ rw.tokens = 0 => UnlockedBy(rw, NoOne).tokens = rw.readers
<1> USE DEF IsRWMutex
<1>1. rw.readers \in Nat /\ rw.tokens \in Nat
  OBVIOUS
<1>2. \A n \in Nat : [rw EXCEPT !.readers = n] \in [writer : Conns \cup {NoOne}, announced : BOOLEAN, readers : Nat, tokens : Nat]
  OBVIOUS
<1>3. \A n \in Nat : [rw EXCEPT !.tokens = n] \in [writer : Conns \cup {NoOne}, announced : BOOLEAN, readers : Nat, tokens : Nat]
  OBVIOUS
<1>4. \A n \in Nat : [rw EXCEPT !.announced = FALSE, !.tokens = n, !.writer = NoOne]
                       \in [writer : Conns \cup {NoOne}, announced : BOOLEAN, readers : Nat, tokens : Nat]
  OBVIOUS
<1>5. rw.readers + 1 \in Nat /\ rw.tokens + rw.readers \in Nat /\ (rw.tokens > 0 => rw.tokens - 1 \in Nat)
  BY <1>1
<1>6. /\ IsRWMutex(RLocked(rw), Conns, NoOne)
      /\ RLocked(rw).readers = rw.readers + 1 /\ RLocked(rw).tokens = rw.tokens
      /\ RLocked(rw).writer = rw.writer /\ RLocked(rw).announced = rw.announced
  BY <1>2, <1>5 DEF RLocked
<1>7. rw.tokens > 0 =>
        /\ IsRWMutex(TakeToken(rw), Conns, NoOne)
        /\ TakeToken(rw).readers = rw.readers /\ TakeToken(rw).writer = rw.writer
        /\ TakeToken(rw).announced = rw.announced
  BY <1>3, <1>5 DEF TakeToken
<1>8. \A c \in Conns :
        /\ IsRWMutex(Announced(rw, c), Conns, NoOne)
        /\ Announced(rw, c).writer = c /\ Announced(rw, c).announced
        /\ Announced(rw, c).readers = rw.readers /\ Announced(rw, c).tokens = rw.tokens
  BY DEF Announced
<1>9. /\ IsRWMutex(UnlockedBy(rw, NoOne), Conns, NoOne)
      /\ UnlockedBy(rw, NoOne).readers = rw.readers
      /\ rw.tokens = 0 => UnlockedBy(rw, NoOne).tokens = rw.readers
  <2>1. UnlockedBy(rw, NoOne).tokens = rw.tokens + rw.readers
    BY <1>4, <1>5 DEF UnlockedBy
  <2>2. \A m, n \in Nat : m = 0 => m + n = n
    OBVIOUS
  <2>3. rw.tokens = 0 => rw.tokens + rw.readers = rw.readers
    BY <1>1, <2>2, Zenon
  <2> QED BY <1>4, <1>5, <2>1, <2>3 DEF UnlockedBy
<1> QED BY <1>6, <1>7, <1>8, <1>9

-----------------------------------------------------------------------------
(* UserNodeCache. *)

\* What Set relies on, and what it leaves.
CacheTypeOK ==
  /\ IsMap(zset, Uids, Nat) /\ IsMap(nodes, Uids, Node)
  /\ lastSeen \in [Uids -> Nat] /\ now \in Nat

\* PopMin finds the user that has been silent for longest.
LEMMA MinMemberLeast ==
  ASSUME CacheTypeOK, CacheInv, DOMAIN nodes # {}
  PROVE  MinMember(zset) \in DOMAIN nodes /\ \A w \in DOMAIN nodes : zset[MinMember(zset)] <= zset[w]
<1> DEFINE S == Entries(zset)
<1>1. S \in SUBSET (Nat \X Nat) /\ S # {}
  <2>1. \A m \in DOMAIN zset : <<zset[m], m>> \in Nat \X Nat
    BY UidsAssumption DEF CacheTypeOK, IsMap
  <2>2. DOMAIN zset # {}
    BY DEF CacheInv
  <2> QED BY <2>1, <2>2 DEF Entries, Entry
<1>2. FirstOf(S) \in S /\ \A f \in S \ {FirstOf(S)} : Before(FirstOf(S), f)
  BY <1>1, FirstOfEntries
<1>3. PICK v \in DOMAIN zset : FirstOf(S) = <<zset[v], v>>
  BY <1>2 DEF Entries, Entry
<1>4. MinMember(zset) = v
  BY <1>3 DEF MinMember, Member
<1>5. ASSUME NEW w \in DOMAIN zset PROVE zset[v] <= zset[w]
  <2>1. <<zset[w], w>> \in S
    BY DEF Entries, Entry
  <2>2. zset[v] \in Nat /\ zset[w] \in Nat
    BY DEF CacheTypeOK, IsMap
  <2>3. CASE <<zset[w], w>> = FirstOf(S)
    BY <1>3, <2>2, <2>3
  <2>4. CASE <<zset[w], w>> # FirstOf(S)
    BY <1>2, <1>3, <2>1, <2>2, <2>4 DEF Before
  <2> QED BY <2>3, <2>4
<1> QED BY <1>3, <1>4, <1>5 DEF CacheInv

\* Before a user is set there is room for it; who had to go has been silent for
\* longest, and the others are as they were.
LEMMA MakeRoomFacts ==
  ASSUME CacheTypeOK, CacheInv, NEW u \in Uids, u \in DOMAIN nodes \/ MaxSize # 0
  PROVE  LET z == MakeRoom(u)[1]
             n == MakeRoom(u)[2]
         IN /\ IsMap(z, Uids, Nat) /\ IsMap(n, Uids, Node) /\ DOMAIN z = DOMAIN n
            /\ DOMAIN n \subseteq DOMAIN nodes /\ (u \in DOMAIN n <=> u \in DOMAIN nodes)
            /\ \A v \in DOMAIN n : z[v] = zset[v] /\ n[v] = nodes[v]
            /\ IsFiniteSet(DOMAIN n \cup {u}) /\ Cardinality(DOMAIN n \cup {u}) <= MaxSize
            /\ \A v \in DOMAIN nodes \ DOMAIN n : \A w \in DOMAIN nodes : zset[v] <= zset[w]
<1> DEFINE size == Cardinality(DOMAIN nodes)
<1>1. size \in Nat /\ size <= MaxSize /\ MaxSize \in Nat
  BY FS_CardinalityType, SizesAssumption DEF CacheInv
<1>2. CASE u \in DOMAIN nodes \/ Cardinality(DOMAIN zset) < MaxSize \/ zset = EmptyMap
  <2>1. MakeRoom(u) = <<zset, nodes>>
    BY <1>2 DEF MakeRoom, cache
  <2>2. u \in DOMAIN nodes \/ size < MaxSize
    <3>1. zset = EmptyMap => size = 0
      BY FS_EmptySet DEF EmptyMap, CacheInv
    <3> QED BY <1>1, <1>2, <3>1 DEF CacheInv
  <2>3. /\ IsFiniteSet(DOMAIN nodes \cup {u})
        /\ Cardinality(DOMAIN nodes \cup {u}) = IF u \in DOMAIN nodes THEN size ELSE size + 1
    BY FS_AddElement DEF CacheInv
  <2>4. Cardinality(DOMAIN nodes \cup {u}) <= MaxSize
    BY <1>1, <2>2, <2>3
  <2> QED BY <2>1, <2>3, <2>4 DEF CacheTypeOK, CacheInv
<1>3. CASE u \notin DOMAIN nodes /\ ~(Cardinality(DOMAIN zset) < MaxSize) /\ zset # EmptyMap
  <2> DEFINE v == MinMember(zset)
  <2>1. MakeRoom(u) = <<Delete(zset, v), Delete(nodes, v)>>
    BY <1>3 DEF MakeRoom
  <2>2. DOMAIN nodes # {}
    BY <1>3 DEF EmptyMap, CacheTypeOK, CacheInv, IsMap
  <2>3. v \in DOMAIN nodes /\ \A w \in DOMAIN nodes : zset[v] <= zset[w]
    BY <2>2, MinMemberLeast
  <2> HIDE DEF v
  <2>4. /\ IsMap(Delete(zset, v), Uids, Nat) /\ DOMAIN Delete(zset, v) = DOMAIN zset \ {v}
        /\ \A x \in DOMAIN zset \ {v} : Delete(zset, v)[x] = zset[x]
    BY DEF CacheTypeOK, IsMap, Delete, Restrict
  <2>5. /\ IsMap(Delete(nodes, v), Uids, Node) /\ DOMAIN Delete(nodes, v) = DOMAIN nodes \ {v}
        /\ \A x \in DOMAIN nodes \ {v} : Delete(nodes, v)[x] = nodes[x]
    BY DEF CacheTypeOK, IsMap, Delete, Restrict
  <2>6. IsFiniteSet(DOMAIN nodes \ {v}) /\ Cardinality(DOMAIN nodes \ {v}) = size - 1
    BY <2>3, FS_RemoveElement DEF CacheInv
  <2>7. /\ IsFiniteSet((DOMAIN nodes \ {v}) \cup {u})
        /\ Cardinality((DOMAIN nodes \ {v}) \cup {u}) = size - 1 + 1
    BY <1>3, <2>6, FS_AddElement
  <2>8. Cardinality((DOMAIN nodes \ {v}) \cup {u}) <= MaxSize
    BY <1>1, <2>7
  <2> QED BY <1>3, <2>1, <2>3, <2>4, <2>5, <2>7, <2>8 DEF CacheInv
<1> QED BY <1>2, <1>3

\* What a step does to the users that were there: those who stay keep their
\* records, and whoever goes has been silent for longest.
StandStill == \A x \in (DOMAIN nodes) \cap (DOMAIN nodes)' : nodes'[x] = nodes[x]
LeastRecent(v) == \A w \in DOMAIN nodes : lastSeen[v] <= lastSeen[w]

LEMMA SetFacts ==
  ASSUME CacheTypeOK, CacheInv, NEW u \in Uids, NEW a \in {"known", "empty"},
         Set(u, Record(a)), now' = now
  PROVE  /\ CacheTypeOK' /\ CacheInv' /\ StandStill
         /\ \A v \in DOMAIN nodes \ DOMAIN nodes' : LeastRecent(v)
<1> DEFINE node == Record(a)
           z == MakeRoom(u)[1]
           n == MakeRoom(u)[2]
<1>1. CASE MaxSize = 0 /\ u \notin DOMAIN nodes
  <2>1. UNCHANGED <<zset, nodes, lastSeen>>
    BY <1>1 DEF Set, cache
  <2> QED BY <2>1 DEF CacheTypeOK, CacheInv, StandStill
<1>2. CASE u \in DOMAIN nodes \/ MaxSize # 0
  <2>1. /\ zset' = Put(z, u, node.expire)
        /\ nodes' = IF u \in DOMAIN z THEN n ELSE Put(n, u, node)
        /\ lastSeen' = [lastSeen EXCEPT ![u] = now]
    BY <1>2 DEF Set
  <2>2. /\ IsMap(z, Uids, Nat) /\ IsMap(n, Uids, Node) /\ DOMAIN z = DOMAIN n
        /\ DOMAIN n \subseteq DOMAIN nodes /\ (u \in DOMAIN n <=> u \in DOMAIN nodes)
        /\ \A v \in DOMAIN n : z[v] = zset[v] /\ n[v] = nodes[v]
        /\ IsFiniteSet(DOMAIN n \cup {u}) /\ Cardinality(DOMAIN n \cup {u}) <= MaxSize
        /\ \A v \in DOMAIN nodes \ DOMAIN n : \A w \in DOMAIN nodes : zset[v] <= zset[w]
    BY <1>2, MakeRoomFacts
  <2>3. node \in Node /\ node.expire = now + CacheExpire /\ node.expire \in Nat /\ now \in Nat
    BY SizesAssumption DEF Record, Node, CacheTypeOK
  <2> HIDE DEF z, n, node
  <2>4. /\ IsMap(zset', Uids, Nat) /\ DOMAIN zset' = DOMAIN n \cup {u}
        /\ zset'[u] = node.expire /\ \A x \in DOMAIN n \ {u} : zset'[x] = zset[x]
    BY <2>1, <2>2, <2>3 DEF IsMap, Put
  <2>5. /\ IsMap(nodes', Uids, Node) /\ DOMAIN nodes' = DOMAIN n \cup {u}
        /\ nodes'[u] = IF u \in DOMAIN nodes THEN nodes[u] ELSE node
        /\ \A x \in DOMAIN n \ {u} : nodes'[x] = nodes[x]
    BY <2>1, <2>2, <2>3 DEF IsMap, Put
  <2>6. /\ lastSeen' \in [Uids -> Nat] /\ lastSeen'[u] = now
        /\ \A x \in Uids : x # u => lastSeen'[x] = lastSeen[x]
    BY <2>1, <2>3 DEF CacheTypeOK
  <2>7. CacheTypeOK'
    BY <2>3, <2>4, <2>5, <2>6 DEF CacheTypeOK
  <2>8. ASSUME NEW x \in DOMAIN nodes'
        PROVE  nodes'[x].expire <= zset'[x] /\ zset'[x] = lastSeen'[x] + CacheExpire
    <3>1. CASE x # u
      BY <2>2, <2>4, <2>5, <2>6, <3>1 DEF CacheInv, CacheTypeOK, IsMap
    <3>2. CASE x = u /\ u \notin DOMAIN nodes
      BY <2>3, <2>4, <2>5, <2>6, <3>2
    <3>3. CASE x = u /\ u \in DOMAIN nodes
      <4>1. nodes[u].expire <= lastSeen[u] + CacheExpire /\ lastSeen[u] <= now
        BY <3>3 DEF CacheInv
      <4>2. nodes[u].expire \in Nat /\ lastSeen[u] \in Nat
        BY <3>3 DEF CacheTypeOK, IsMap, Node
      <4>3. nodes[u].expire <= now + CacheExpire
        BY <2>3, <4>1, <4>2, SizesAssumption
      <4> QED BY <2>3, <2>4, <2>5, <2>6, <3>3, <4>3
    <3> QED BY <3>1, <3>2, <3>3
  <2>9. CacheInv'
    <3>1. \A x \in Uids : lastSeen'[x] <= now'
      BY <2>3, <2>6 DEF CacheInv, CacheTypeOK
    <3> QED BY <2>2, <2>4, <2>5, <2>8, <3>1 DEF CacheInv
  <2>10. StandStill
    BY <2>5 DEF StandStill
  <2>11. ASSUME NEW v \in DOMAIN nodes \ DOMAIN nodes', NEW w \in DOMAIN nodes
         PROVE  lastSeen[v] <= lastSeen[w]
    <3>1. zset[v] <= zset[w]
      BY <2>2, <2>5
    <3>2. zset[v] = lastSeen[v] + CacheExpire /\ zset[w] = lastSeen[w] + CacheExpire
      BY DEF CacheInv
    <3>3. lastSeen[v] \in Nat /\ lastSeen[w] \in Nat
      BY DEF CacheTypeOK, IsMap
    <3> QED BY <3>1, <3>2, <3>3, SizesAssumption
  <2> QED BY <2>7, <2>9, <2>10, <2>11 DEF LeastRecent
<1> QED BY <1>1, <1>2

LEMMA DelFacts ==
  ASSUME CacheTypeOK, CacheInv, NEW u \in Uids, Del(u), now' = now
  PROVE  CacheTypeOK' /\ CacheInv' /\ StandStill /\ DOMAIN nodes' = DOMAIN nodes \ {u}
<1>1. /\ IsMap(zset', Uids, Nat) /\ DOMAIN zset' = DOMAIN zset \ {u}
      /\ \A x \in DOMAIN zset \ {u} : zset'[x] = zset[x]
  BY DEF Del, CacheTypeOK, IsMap, Delete, Restrict
<1>2. /\ IsMap(nodes', Uids, Node) /\ DOMAIN nodes' = DOMAIN nodes \ {u}
      /\ \A x \in DOMAIN nodes \ {u} : nodes'[x] = nodes[x]
  BY DEF Del, CacheTypeOK, IsMap, Delete, Restrict
<1>3. IsFiniteSet(DOMAIN nodes \ {u}) /\ Cardinality(DOMAIN nodes \ {u}) <= MaxSize
  <2>1. /\ IsFiniteSet(DOMAIN nodes \ {u})
        /\ Cardinality(DOMAIN nodes \ {u}) <= Cardinality(DOMAIN nodes)
        /\ Cardinality(DOMAIN nodes \ {u}) \in Nat /\ Cardinality(DOMAIN nodes) \in Nat
    BY FS_Subset, FS_CardinalityType DEF CacheInv
  <2> QED BY <2>1, SizesAssumption DEF CacheInv
<1>4. lastSeen' = lastSeen
  BY DEF Del
<1>5. CacheInv'
  BY <1>1, <1>2, <1>3, <1>4 DEF CacheInv
<1> QED BY <1>1, <1>2, <1>4, <1>5 DEF CacheTypeOK, StandStill

-----------------------------------------------------------------------------
(* The invariant is inductive. *)

LEMMA InitIInv == Init => IInv
<1> SUFFICES ASSUME Init PROVE IInv
  OBVIOUS
<1>1. (CHOOSE r \in Request : TRUE) \in Request
  <2>1. PICK k \in Kinds, u \in Uids : TRUE
    BY KindsAssumption, UidsAssumption
  <2>2. [kind |-> k, uid |-> u] \in Request
    BY DEF Request
  <2> QED BY <2>2
<1>2. DOMAIN zset = {} /\ DOMAIN nodes = {} /\ zset \in [{} -> Nat] /\ nodes \in [{} -> Node]
  BY DEF Init, EmptyMap
<1>3. IsRWMutex(rw, Conns, NoOne) /\ rw.tokens = 0
  BY DEF Init, Unlocked, IsRWMutex
<1>4. TypeOK
  BY <1>1, <1>2, <1>3 DEF Init, TypeOK, IsMap
<1>5. LockInv
  <2>1. \A c \in Conns : pc[c] = "idle"
    BY DEF Init
  <2> QED BY <1>3, <2>1 DEF LockInv
<1>6. CacheInv
  <2>1. now = 0 /\ \A u \in Uids : lastSeen[u] = 0
    BY DEF Init
  <2> QED BY <1>2, <2>1, FS_EmptySet, SizesAssumption DEF CacheInv
<1> QED BY <1>4, <1>5, <1>6 DEF IInv

\* A request arrives, the clock goes on, a panic: nothing that the lock or the
\* cache is about.
LEMMA QuietKeepsIInv ==
  ASSUME IInv, Clock \/ (\E c \in Conns : Recv(c) \/ NilUser(c)) \/ UNCHANGED vars
  PROVE  IInv' /\ UNCHANGED <<zset, nodes>>
<1>1. UNCHANGED <<rw, zset, nodes, reply, lastSeen>>
  BY DEF Clock, Recv, NilUser, cache, vars
<1>2. now' \in Nat /\ now <= now' /\ reqs' \in Nat /\ crash' \in {"no", "unlock", "nil"}
  <2>1. now \in Nat /\ reqs \in Nat /\ crash \in {"no", "unlock", "nil"}
    BY DEF IInv, TypeOK
  <2> QED BY <2>1 DEF Clock, Recv, NilUser, vars
<1>3. /\ pc' \in [Conns -> {"idle", "lock", "rlock", "wwait", "rwait", "write", "read", "nil"}]
      /\ req' \in [Conns -> Request]
      /\ \A c \in Conns : pc'[c] = pc[c] \/ pc'[c] \in {"lock", "rlock"}
  <2>1. CASE \E c \in Conns : Recv(c)
    BY <2>1 DEF Recv, IInv, TypeOK
  <2>2. CASE UNCHANGED <<pc, req>>
    BY <2>2 DEF IInv, TypeOK
  <2> QED BY <2>1, <2>2 DEF Clock, NilUser, vars
<1>4. TypeOK'
  BY <1>1, <1>2, <1>3 DEF IInv, TypeOK
<1>5. LockInv'
  BY <1>1, <1>3 DEF IInv, LockInv
<1>6. CacheInv'
  <2>1. \A u \in Uids : lastSeen[u] <= now'
    <3>1. now \in Nat /\ \A u \in Uids : lastSeen[u] \in Nat /\ lastSeen[u] <= now
      BY DEF IInv, TypeOK, CacheInv
    <3> QED BY <1>2, <3>1
  <2> QED BY <1>1, <2>1 DEF IInv, CacheInv
<1> QED BY <1>1, <1>4, <1>5, <1>6 DEF IInv

\* Steps that only move a handler and the lock.
LEMMA LockTypes ==
  ASSUME IInv, IsRWMutex(rw', Conns, NoOne), UNCHANGED <<now, zset, nodes, lastSeen, req, reqs>>,
         pc' \in [Conns -> {"idle", "lock", "rlock", "wwait", "rwait", "write", "read", "nil"}],
         reply' \in [Conns -> {"", "inner", "already", "unknown"}],
         crash' \in {"no", "unlock", "nil"}
  PROVE  TypeOK' /\ CacheInv'
  BY DEF IInv, TypeOK, CacheInv

LEMMA WaitingKeepsIInv ==
  ASSUME IInv, NEW c \in Conns, Lock(c) \/ RLock(c) \/ Wake(c)
  PROVE  IInv' /\ UNCHANGED <<zset, nodes>>
<1>1. UNCHANGED <<now, zset, nodes, lastSeen, req, reply, reqs, crash>>
  BY DEF Lock, RLock, Wake, Waits, cache
<1>2. IsRWMutex(rw, Conns, NoOne) /\ rw.readers \in Nat /\ rw.tokens \in Nat
  BY DEF IInv, TypeOK, IsRWMutex
<1>3. pc' = [pc EXCEPT ![c] = pc'[c]] /\ pc'[c] \in {"wwait", "write", "rwait", "read"}
  BY DEF Lock, RLock, Wake, IInv, TypeOK
<1>4. IsRWMutex(rw', Conns, NoOne)
  BY <1>2, RWSteps DEF Lock, RLock, Wake
<1>5. TypeOK' /\ CacheInv'
  BY <1>1, <1>3, <1>4, LockTypes DEF IInv, TypeOK
<1>6. \A d \in Conns : d # c => pc'[d] = pc[d]
  BY <1>3 DEF IInv, TypeOK
<1>7. LockInv'
  <2>1. CASE Lock(c)
    <3>1. /\ rw.writer = NoOne /\ rw'.writer = c /\ rw'.announced
          /\ rw'.readers = rw.readers /\ rw'.tokens = rw.tokens
          /\ pc'[c] = IF rw.readers # 0 THEN "wwait" ELSE "write"
      BY <1>2, <2>1, RWSteps DEF Lock, MustWaitToWrite, IInv, TypeOK
    <3>2. \A d \in Conns : pc[d] # "write"
      BY <3>1, ConnsAssumption DEF IInv, LockInv
    <3> QED BY <1>1, <1>2, <1>6, <3>1, <3>2 DEF IInv, LockInv
  <2>2. CASE RLock(c)
    <3>1. /\ rw'.writer = rw.writer /\ rw'.announced = rw.announced
          /\ rw'.readers = rw.readers + 1 /\ rw'.tokens = rw.tokens
          /\ pc'[c] = IF rw.announced THEN "rwait" ELSE "read"
      BY <1>2, <2>2, RWSteps DEF RLock, MustWaitToRead, IInv, TypeOK
    <3>2. rw'.readers > 0
      BY <1>2, <3>1
    <3> QED BY <1>1, <1>6, <3>1, <3>2 DEF IInv, LockInv
  <2>3. CASE Wake(c)
    <3>1. /\ rw.tokens > 0 /\ rw'.readers = rw.readers /\ pc'[c] = "read"
      BY <1>2, <2>3, RWSteps DEF Wake, IInv, TypeOK
    <3>2. rw.readers > 0 /\ \A d \in Conns : pc[d] # "write"
      BY <1>2, <3>1 DEF IInv, LockInv
    <3> QED BY <1>1, <1>6, <3>1, <3>2 DEF IInv, LockInv
  <2> QED BY <2>1, <2>2, <2>3
<1> QED BY <1>1, <1>5, <1>7 DEF IInv

\* A query releases the lock as a writer would; it has been counted as a reader,
\* and no writer is at work.
LEMMA QueryKeepsIInv ==
  ASSUME IInv, NEW c \in Conns, Query(c)
  PROVE  IInv' /\ UNCHANGED <<zset, nodes>>
<1>1. /\ pc[c] = "read" /\ UNCHANGED <<now, zset, nodes, lastSeen, req, reqs>>
      /\ reply' = [reply EXCEPT ![c] = ""]
  BY DEF Query, At, cache
<1>2. IsRWMutex(rw, Conns, NoOne) /\ rw.readers \in Nat /\ rw.tokens \in Nat
  BY DEF IInv, TypeOK, IsRWMutex
<1>3. rw.readers > 0 /\ \A d \in Conns : pc[d] # "write"
  BY <1>1 DEF IInv, LockInv
<1>4. CASE UnlockIsFatal(rw)
  <2>1. crash' = "unlock" /\ UNCHANGED <<rw, pc>>
    BY <1>4 DEF Query, Unlock, IInv, TypeOK
  <2>2. TypeOK' /\ CacheInv'
    BY <1>1, <1>2, <2>1, LockTypes DEF IInv, TypeOK
  <2>3. LockInv'
    BY <2>1 DEF IInv, LockInv
  <2> QED BY <1>1, <2>2, <2>3 DEF IInv
<1>5. CASE ~UnlockIsFatal(rw)
  <2>1. /\ rw' = UnlockedBy(rw, NoOne) /\ crash' = crash
        /\ pc' = [pc EXCEPT ![c] = pc'[c]] /\ pc'[c] \in {"nil", "idle"}
    BY <1>5 DEF Query, Unlock, IInv, TypeOK
  <2>2. IsRWMutex(rw', Conns, NoOne) /\ rw'.readers = rw.readers
    BY <1>2, <2>1, RWSteps
  <2>3. TypeOK' /\ CacheInv'
    BY <1>1, <2>1, <2>2, LockTypes DEF IInv, TypeOK
  <2>4. \A d \in Conns : pc'[d] # "write"
    BY <1>3, <2>1 DEF IInv, TypeOK
  <2>5. LockInv'
    BY <1>3, <2>2, <2>4 DEF LockInv
  <2> QED BY <1>1, <2>3, <2>5 DEF IInv
<1> QED BY <1>4, <1>5

\* A writer's Unlock finds the mutex announced, and leaves nobody at work.
LEMMA DoneFacts ==
  ASSUME IInv, NEW c \in Conns, pc[c] = "write",
         NEW text \in {"", "inner", "already", "unknown"}, Done(c, text)
  PROVE  /\ LockInv' /\ UNCHANGED <<now, req, reqs, crash>>
         /\ IsRWMutex(rw', Conns, NoOne)
         /\ pc' \in [Conns -> {"idle", "lock", "rlock", "wwait", "rwait", "write", "read", "nil"}]
         /\ reply' \in [Conns -> {"", "inner", "already", "unknown"}]
<1>1. IsRWMutex(rw, Conns, NoOne) /\ rw.readers \in Nat /\ rw.tokens = 0 /\ rw.announced
  BY DEF IInv, TypeOK, LockInv, IsRWMutex
<1>2. /\ rw' = UnlockedBy(rw, NoOne) /\ pc' = [pc EXCEPT ![c] = "idle"]
      /\ reply' = [reply EXCEPT ![c] = text] /\ UNCHANGED <<now, req, reqs, crash>>
  BY <1>1 DEF Done, Unlock, UnlockIsFatal
<1>3. /\ IsRWMutex(rw', Conns, NoOne)
      /\ rw'.readers = rw.readers /\ rw'.tokens = rw.readers
  BY <1>1, <1>2, RWSteps
<1>4. \A d \in Conns : pc'[d] # "read" /\ pc'[d] # "write"
  <2>1. \A d \in Conns : pc[d] # "read" /\ (pc[d] = "write" => d = c)
    BY DEF IInv, LockInv
  <2> QED BY <1>2, <2>1 DEF IInv, TypeOK
<1>5. LockInv'
  <2>1. rw'.tokens = rw'.readers
    BY <1>3
  <2> QED BY <1>4, <2>1 DEF LockInv
<1> QED BY <1>2, <1>3, <1>5 DEF IInv, TypeOK

\* What a handler that works on the cache does to it.
LEMMA WriterKeepsIInv ==
  ASSUME IInv, NEW c \in Conns, Login(c) \/ Logout(c) \/ Heartbeat(c)
  PROVE  /\ IInv' /\ StandStill
         /\ \A v \in DOMAIN nodes \ DOMAIN nodes' :
              \/ pc[c] = "write" /\ req[c] = [kind |-> "logout", uid |-> v]
              \/ LeastRecent(v)
<1> DEFINE u == req[c].uid
<1>1. pc[c] = "write" /\ u \in Uids /\ req[c] \in Request /\ CacheTypeOK /\ CacheInv
  BY DEF Login, Logout, Heartbeat, At, IInv, TypeOK, Request, CacheTypeOK
<1>2. \E text \in {"", "inner", "already", "unknown"} : Done(c, text)
  BY DEF Login, Logout, Heartbeat
<1>3. /\ LockInv' /\ UNCHANGED <<now, req, reqs, crash>>
      /\ IsRWMutex(rw', Conns, NoOne)
      /\ pc' \in [Conns -> {"idle", "lock", "rlock", "wwait", "rwait", "write", "read", "nil"}]
      /\ reply' \in [Conns -> {"", "inner", "already", "unknown"}]
  BY <1>1, <1>2, DoneFacts
<1>4. CacheTypeOK' /\ CacheInv' => IInv'
  BY <1>3 DEF IInv, TypeOK, CacheTypeOK
<1>5. CASE UNCHANGED <<zset, nodes, lastSeen>>
  <2>1. CacheTypeOK' /\ CacheInv'
    BY <1>1, <1>3, <1>5 DEF CacheTypeOK, CacheInv
  <2> QED BY <1>3, <1>4, <1>5, <2>1 DEF StandStill
<1>6. CASE \E a \in {"known", "empty"} : Set(u, Record(a))
  <2>1. /\ CacheTypeOK' /\ CacheInv' /\ StandStill
        /\ \A v \in DOMAIN nodes \ DOMAIN nodes' : LeastRecent(v)
    BY <1>1, <1>3, <1>6, SetFacts
  <2> QED BY <1>3, <1>4, <2>1
<1>7. CASE req[c].kind = "logout" /\ Del(u)
  <2>1. CacheTypeOK' /\ CacheInv' /\ StandStill /\ DOMAIN nodes' = DOMAIN nodes \ {u}
    BY <1>1, <1>3, <1>7, DelFacts
  <2>2. req[c] = [kind |-> "logout", uid |-> u]
    BY <1>1, <1>7 DEF Request
  <2> QED BY <1>1, <1>3, <1>4, <2>1, <2>2
<1> QED BY <1>5, <1>6, <1>7 DEF Login, Logout, Heartbeat, At, cache

LEMMA NextKeepsIInv == IInv /\ [Next]_vars => IInv'
<1> SUFFICES ASSUME IInv, [Next]_vars PROVE IInv'
  OBVIOUS
<1>1. CASE Clock \/ (\E c \in Conns : Recv(c) \/ NilUser(c)) \/ UNCHANGED vars
  BY <1>1, QuietKeepsIInv
<1>2. ASSUME NEW c \in Conns, Lock(c) \/ RLock(c) \/ Wake(c) PROVE IInv'
  BY <1>2, WaitingKeepsIInv
<1>3. ASSUME NEW c \in Conns, Login(c) \/ Logout(c) \/ Heartbeat(c) PROVE IInv'
  BY <1>3, WriterKeepsIInv
<1>4. ASSUME NEW c \in Conns, Query(c) PROVE IInv'
  BY <1>4, QueryKeepsIInv
<1> QED BY <1>1, <1>2, <1>3, <1>4 DEF Next, Step, Stopped

LEMMA Invariance == Spec => []IInv
  BY InitIInv, NextKeepsIInv, PTL DEF Spec

\* A step that changes the users or the records is one of a writer.
LEMMA OnlyWriters ==
  ASSUME IInv, [Next]_vars, ~UNCHANGED cache
  PROVE  \E c \in Conns : Login(c) \/ Logout(c) \/ Heartbeat(c)
<1>1. ~UNCHANGED <<zset, nodes>>
  BY DEF cache
<1>2. ~(Clock \/ (\E c \in Conns : Recv(c) \/ NilUser(c)) \/ UNCHANGED vars)
  BY <1>1, QuietKeepsIInv
<1>3. \A c \in Conns : ~(Lock(c) \/ RLock(c) \/ Wake(c))
  BY <1>1, WaitingKeepsIInv
<1>4. \A c \in Conns : ~Query(c)
  BY <1>1, QueryKeepsIInv
<1> QED BY <1>2, <1>3, <1>4 DEF Next, Step, Stopped

-----------------------------------------------------------------------------
(* The theorems. *)

\* UserNodeCache.Set and Del: the sorted set and the map hold the same users, no
\* more than MaxCacheSize, and no record outlives its score.
THEOREM CacheAgrees == Spec => []CacheInStep
<1>1. IInv => CacheInStep
  BY DEF IInv, CacheInv, CacheInStep
<1> QED BY <1>1, Invariance, PTL

\* RLock with Unlock: no query and no other update is at work while an update is.
THEOREM WriterIsAlone == Spec => []WriterAlone
<1>1. IInv => WriterAlone
  BY ConnsAssumption DEF IInv, LockInv, WriterAlone
<1> QED BY <1>1, Invariance, PTL

\* UserNodeCache.Set: a heartbeat leaves the address that a login has stored.
THEOREM AddressStays == Spec => HeartbeatKeepsAddress
<1>1. IInv /\ [Next]_vars =>
        [\A u \in (DOMAIN nodes) \cap (DOMAIN nodes)' :
           nodes[u].addr = "known" => nodes'[u].addr = "known"]_vars
  <2> SUFFICES ASSUME IInv, [Next]_vars PROVE StandStill
    BY DEF StandStill
  <2>1. CASE UNCHANGED cache
    BY <2>1 DEF cache, StandStill
  <2>2. CASE ~UNCHANGED cache
    BY <2>2, OnlyWriters, WriterKeepsIInv
  <2> QED BY <2>1, <2>2
<1> QED BY <1>1, Invariance, PTL DEF Spec, HeartbeatKeepsAddress

\* UserNodeCache.Set: whoever leaves without a logout has been silent for longest.
THEOREM EvictionIsLru == Spec => EvictsLeastRecent
<1> DEFINE Leaves(u) ==
      \/ \E c \in Conns : pc[c] = "write" /\ req[c] = [kind |-> "logout", uid |-> u]
      \/ \A v \in DOMAIN nodes : lastSeen[u] <= lastSeen[v]
<1>1. IInv /\ [Next]_vars => [\A u \in DOMAIN nodes : u \notin (DOMAIN nodes)' => Leaves(u)]_vars
  <2> SUFFICES ASSUME IInv, [Next]_vars, NEW u \in DOMAIN nodes, u \notin DOMAIN nodes'
               PROVE  Leaves(u)
    OBVIOUS
  <2>1. ~UNCHANGED cache
    BY DEF cache
  <2>2. PICK c \in Conns : Login(c) \/ Logout(c) \/ Heartbeat(c)
    BY <2>1, OnlyWriters
  <2> QED BY <2>2, WriterKeepsIInv DEF LeastRecent
<1> QED BY <1>1, Invariance, PTL DEF Spec, EvictsLeastRecent
=============================================================================
