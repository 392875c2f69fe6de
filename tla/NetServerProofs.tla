-------------------------- MODULE NetServerProofs --------------------------
(***************************************************************************)
(* Proofs about NetServer, for any listeners, connections and bounds.      *)
(***************************************************************************)
EXTENDS NetServer, TLAPS

-----------------------------------------------------------------------------
(* The inductive invariant. *)

\* A reader and the timer have closed chSend before they close the connection.
HangupInv ==
  /\ \A c \in Conns : reader[c] = "hangup" => c \in shut
  /\ timer.step = "hangup" => timer.channel \in shut

\* A connection has a goroutine once its peer has connected, and a place in the
\* map from then on until it is removed, or until somebody closes it.
ConnInv(c) ==
  /\ peer[c] = "new" => reader[c] = "off"
  /\ inbox[c] + left[c] <= MaxReqs
  /\ reader[c] \in {"recv", "handle", "reply", "push"} /\ c \notin channels => c \in shut \/ timer.channel = c
  /\ c \in channels => reader[c] \notin {"off", "accepted", "done"}

IInv == TypeOK /\ HangupInv /\ (\A c \in Conns : ConnInv(c))

-----------------------------------------------------------------------------
(* The invariant is inductive: one lemma per group of actions. *)

\* The listeners are numbered from 1.
LEMMA ListenersNumbered ==
  /\ Len(Handlers) \in Nat /\ Len(Handlers) >= 1
  /\ Listeners = 1..Len(Handlers)
  BY HandlersAssumption DEF Listeners

LEMMA InitIInv == Init => IInv
<1> SUFFICES ASSUME Init PROVE IInv
  OBVIOUS
<1>1. TypeOK
  <2>1. 1 \in Listeners /\ 0 \in 0..MaxReqs /\ MaxReqs \in 0..MaxReqs /\ 0 \in 0..ChanCap
    BY ListenersNumbered, SizesAssumption
  <2>2. start \in [step : {"listen", "wait", "release", "done"}, next : Listeners]
    BY <2>1 DEF Init
  <2>3. timer \in [step : {"idle", "close", "hangup"}, channel : Conns \cup {Nobody}]
    BY DEF Init, Idle
  <2>4. /\ service \in [Listeners -> {"off", "init", "accept", "exit", "ended"}]
        /\ named \in Listeners \cup {0} /\ socks \subseteq Listeners
    BY DEF Init
  <2>5. /\ inbox \in [Conns -> 0..MaxReqs] /\ left \in [Conns -> 0..MaxReqs]
        /\ queue \in [Conns -> 0..ChanCap]
    BY <2>1 DEF Init
  <2> QED BY <2>2, <2>3, <2>4, <2>5 DEF Init, TypeOK
<1>2. HangupInv
  BY DEF Init, HangupInv, Idle
<1>3. \A c \in Conns : ConnInv(c)
  BY SizesAssumption DEF Init, ConnInv
<1> QED BY <1>1, <1>2, <1>3 DEF IInv

\* What the listeners, Run and release do leaves every connection as it is.
LEMMA ServerKeepsConns ==
  ASSUME IInv, UNCHANGED <<peers, reader, channel, timer>>
  PROVE  HangupInv' /\ \A c \in Conns : ConnInv(c)'
  BY DEF IInv, HangupInv, ConnInv, peers, channel

\* The next listener of Start is one of them.
LEMMA ListenKeepsIInv == ASSUME IInv, Listen PROVE IInv'
<1> DEFINE l == start.next
<1>1. /\ start.step = "listen" /\ socks' = socks \cup {l} /\ named' = l
      /\ service' = [service EXCEPT ![l] = "init"]
      /\ start' = IF l < Len(Handlers) THEN [start EXCEPT !.next = @ + 1] ELSE [start EXCEPT !.step = "wait"]
      /\ UNCHANGED <<alive, cancelled, run, peers, reader, channel, timer>>
  BY DEF Listen
<1>2. l \in Listeners
  BY DEF IInv, TypeOK
<1>3. start' \in [step : {"listen", "wait", "release", "done"}, next : Listeners]
  <2>1. CASE l < Len(Handlers)
    <3>1. l + 1 \in Listeners
      BY <1>2, <2>1, ListenersNumbered
    <3>2. start' = [start EXCEPT !.next = l + 1]
      BY <1>1, <2>1
    <3> HIDE DEF l
    <3> QED BY <1>1, <3>1, <3>2 DEF IInv, TypeOK
  <2>2. CASE ~(l < Len(Handlers))
    BY <1>1, <2>2 DEF IInv, TypeOK
  <2> QED BY <2>1, <2>2
<1> HIDE DEF l
<1>4. TypeOK'
  BY <1>1, <1>2, <1>3 DEF IInv, TypeOK, peers, channel
<1> QED BY <1>1, <1>4, ServerKeepsConns DEF IInv

\* The other steps of the server.
LEMMA ServerKeepsIInv ==
  ASSUME IInv,
         \/ ListenFails \/ Release \/ Cancel \/ RunSeesCancel \/ NoticeOfShutdown
         \/ \E l \in Listeners : HandlerInit(l) \/ AcceptFails(l) \/ NoticeOfService(l)
         \/ UNCHANGED vars
  PROVE  IInv'
<1>1. UNCHANGED <<peers, reader, channel, timer>>
  BY DEF ListenFails, Release, Cancel, RunSeesCancel, NoticeOfShutdown, HandlerInit, AcceptFails,
         NoticeOfService, vars
<1>2. /\ alive' \in BOOLEAN /\ cancelled' \in BOOLEAN /\ run' \in {"wait", "shutdown"}
      /\ named' \in Listeners \cup {0} /\ socks' \subseteq Listeners
  BY DEF ListenFails, Release, Cancel, RunSeesCancel, NoticeOfShutdown, HandlerInit, AcceptFails,
         NoticeOfService, vars, server, IInv, TypeOK
<1>3. service' \in [Listeners -> {"off", "init", "accept", "exit", "ended"}]
  <2>1. CASE UNCHANGED service
    BY <2>1 DEF IInv, TypeOK
  <2>2. CASE \E l \in Listeners : HandlerInit(l) \/ AcceptFails(l) \/ NoticeOfService(l)
    BY <2>2 DEF HandlerInit, AcceptFails, NoticeOfService, IInv, TypeOK
  <2> QED BY <2>1, <2>2 DEF ListenFails, Release, Cancel, RunSeesCancel, NoticeOfShutdown, vars, server
<1>4. start' \in [step : {"listen", "wait", "release", "done"}, next : Listeners]
  <2>1. CASE UNCHANGED start
    BY <2>1 DEF IInv, TypeOK
  <2>2. CASE ListenFails \/ Release \/ \E l \in Listeners : NoticeOfService(l)
    BY <2>2 DEF ListenFails, Release, NoticeOfService, IInv, TypeOK
  <2> QED
    BY <2>1, <2>2 DEF Cancel, RunSeesCancel, NoticeOfShutdown, HandlerInit, AcceptFails, vars, server
<1>5. TypeOK'
  BY <1>1, <1>2, <1>3, <1>4 DEF IInv, TypeOK, peers, channel
<1> QED BY <1>1, <1>5, ServerKeepsConns DEF IInv

LEMMA PeerKeepsIInv ==
  ASSUME IInv, NEW c \in Conns, Connect(c) \/ PeerSends(c) \/ PeerTurns(c)
  PROVE  IInv'
<1>1. UNCHANGED <<server, at, channel, timer>>
  BY DEF Connect, PeerSends, PeerTurns
<1>2. /\ peer' \in [Conns -> {"new", "reads", "stalls", "gone"}]
      /\ reader' \in [Conns -> {"off", "accepted", "recv", "handle", "reply", "push", "close", "hangup", "remove", "done"}]
      /\ inbox' \in [Conns -> 0..MaxReqs] /\ left' \in [Conns -> 0..MaxReqs]
      /\ \A d \in Conns : inbox'[d] + left'[d] <= MaxReqs
  <2> USE DEF IInv, TypeOK, ConnInv
  <2>1. CASE Connect(c)
    BY <2>1 DEF Connect
  <2>2. CASE PeerSends(c)
    BY <2>2, SizesAssumption DEF PeerSends
  <2>3. CASE PeerTurns(c)
    BY <2>3, SizesAssumption DEF PeerTurns
  <2> QED BY <2>1, <2>2, <2>3
<1>3. \A d \in Conns : /\ reader'[d] = reader[d] \/ (reader[d] = "off" /\ reader'[d] = "accepted")
                       /\ peer'[d] = "new" => peer[d] = "new" /\ reader'[d] = reader[d]
  BY DEF Connect, PeerSends, PeerTurns, IInv, TypeOK, ConnInv
<1>4. TypeOK'
  BY <1>1, <1>2 DEF IInv, TypeOK, server, channel
<1>5. HangupInv'
  BY <1>1, <1>3 DEF IInv, HangupInv, channel
<1>6. \A d \in Conns : ConnInv(d)'
  BY <1>1, <1>2, <1>3 DEF IInv, ConnInv, channel
<1> QED BY <1>1, <1>4, <1>5, <1>6 DEF IInv, server

\* A goroutine of RecvLoop between two receives, the handler included.
LEMMA ReadingKeepsIInv ==
  ASSUME IInv, NEW c \in Conns,
         Enrol(c) \/ Recv(c) \/ Handle(c) \/ RecvFails(c) \/ PushChannel(c) \/ Push(c)
  PROVE  IInv'
<1>a. ASSUME Recv(c)
      PROVE  /\ reader[c] = "recv" /\ inbox' = [inbox EXCEPT ![c] = @ - 1] /\ inbox[c] > 0
             /\ alive' \in BOOLEAN /\ UNCHANGED <<sender, queue, channels>>
             /\ UNCHANGED reader \/ reader' = [reader EXCEPT ![c] = "handle"]
  BY <1>a DEF Recv, Pushes, channel, IInv, TypeOK
<1>b. ASSUME Handle(c)
      PROVE  /\ reader[c] = "handle" /\ alive' \in BOOLEAN /\ UNCHANGED <<inbox, sender, queue, channels>>
             /\ \/ UNCHANGED reader
                \/ \E then \in {"reply", "recv", "close"} : reader' = [reader EXCEPT ![c] = then]
  BY <1>b DEF Handle, peers, channel, IInv, TypeOK
<1>1. UNCHANGED <<cancelled, run, start, named, socks, service, at, peer, left, shut, hung, timer>>
  BY DEF Enrol, Recv, Handle, RecvFails, PushChannel, Push, server, peers, channel
<1>2. /\ alive' \in BOOLEAN /\ channels' \subseteq Conns
      /\ inbox' \in [Conns -> 0..MaxReqs] /\ queue' \in [Conns -> 0..ChanCap]
      /\ sender' \in [Conns -> {"off", "idle", "write", "done"}]
      /\ \A d \in Conns : inbox'[d] <= inbox[d]
  <2> USE DEF IInv, TypeOK
  <2>1. CASE Enrol(c)
    BY <2>1 DEF Enrol, server, peers
  <2>2. CASE Recv(c)
    BY <1>a, <2>2, SizesAssumption
  <2>3. CASE RecvFails(c) \/ PushChannel(c)
    BY <2>3 DEF RecvFails, PushChannel, server, peers, channel
  <2>4. CASE Push(c)
    BY <2>4, SizesAssumption DEF Push, server, peers
  <2>5. CASE Handle(c)
    BY <1>b, <2>5, SizesAssumption
  <2> QED BY <2>1, <2>2, <2>3, <2>4, <2>5
<1> DEFINE Steps == {"off", "accepted", "recv", "handle", "reply", "push", "close", "hangup", "remove", "done"}
           Served == {"recv", "handle", "reply", "push"}
<1>3. /\ reader' \in [Conns -> Steps]
      /\ \A d \in Conns :
           \/ reader'[d] = reader[d] /\ (d \in channels' <=> d \in channels)
           \/ reader[d] = "accepted" /\ reader'[d] = "recv" /\ d \in channels'
           \/ reader[d] \in Served /\ reader'[d] \in Served \cup {"close"} /\ (d \in channels' <=> d \in channels)
  <2> USE DEF IInv, TypeOK
  <2>1. CASE Enrol(c)
    BY <2>1 DEF Enrol
  <2>2. CASE Recv(c)
    BY <1>a, <2>2, SizesAssumption
  <2>3. CASE RecvFails(c) \/ PushChannel(c)
    BY <2>3 DEF RecvFails, PushChannel, channel
  <2>4. CASE Push(c)
    BY <2>4 DEF Push
  <2>5. CASE Handle(c)
    BY <1>b, <2>5
  <2> QED BY <2>1, <2>2, <2>3, <2>4, <2>5
<1>4. TypeOK'
  BY <1>1, <1>2, <1>3 DEF IInv, TypeOK
<1>5. HangupInv'
  BY <1>1, <1>3 DEF IInv, HangupInv
<1>6. ASSUME NEW d \in Conns PROVE ConnInv(d)'
  <2>1. inbox'[d] + left'[d] <= MaxReqs
    <3>1. inbox[d] \in Nat /\ inbox'[d] \in Nat /\ left[d] \in Nat /\ left' = left /\ MaxReqs \in Nat
      BY <1>1, <1>2, SizesAssumption DEF IInv, TypeOK
    <3> QED BY <1>2, <3>1 DEF IInv, ConnInv
  <2> QED BY <1>1, <1>3, <2>1 DEF IInv, ConnInv
<1> QED BY <1>1, <1>4, <1>5, <1>6 DEF IInv

\* The deferred close, and Remove.
LEMMA ClosingKeepsIInv ==
  ASSUME IInv, NEW c \in Conns, ReaderCloses(c) \/ ReaderHangsUp(c) \/ Remove(c)
  PROVE  IInv'
<1>1. UNCHANGED <<server, peers, sender, queue, timer>>
  BY DEF ReaderCloses, ReaderHangsUp, Remove
<1>2. /\ shut \subseteq shut' /\ shut' \subseteq Conns /\ hung' \subseteq shut'
      /\ channels' \subseteq channels /\ channels \ channels' \subseteq {c}
      /\ c \notin channels' \/ channels' = channels
  BY DEF ReaderCloses, ReaderHangsUp, Remove, IInv, TypeOK, HangupInv
<1>3. /\ reader' = [reader EXCEPT ![c] = reader'[c]]
      /\ \/ reader[c] = "close" /\ reader'[c] = "remove"
         \/ reader[c] = "close" /\ reader'[c] = "hangup" /\ c \in shut'
         \/ reader[c] = "hangup" /\ reader'[c] = "remove"
         \/ reader[c] = "remove" /\ reader'[c] = "done" /\ c \notin channels'
  BY DEF ReaderCloses, ReaderHangsUp, Remove, IInv, TypeOK
<1>4. TypeOK'
  BY <1>1, <1>2, <1>3 DEF IInv, TypeOK, server, peers
<1>5. HangupInv'
  BY <1>1, <1>2, <1>3 DEF IInv, TypeOK, HangupInv
<1>6. \A d \in Conns : ConnInv(d)'
  BY <1>1, <1>2, <1>3 DEF IInv, TypeOK, ConnInv, peers
<1> QED BY <1>1, <1>4, <1>5, <1>6 DEF IInv, server

LEMMA SendingKeepsIInv ==
  ASSUME IInv, NEW c \in Conns, TakePacket(c) \/ Write(c) \/ WriteFails(c)
  PROVE  IInv'
<1>1. UNCHANGED <<server, peers, reader, shut, hung, channels, timer>>
  BY DEF TakePacket, Write, WriteFails
<1>2. sender' \in [Conns -> {"off", "idle", "write", "done"}] /\ queue' \in [Conns -> 0..ChanCap]
  BY SizesAssumption DEF TakePacket, Write, WriteFails, IInv, TypeOK
<1>3. TypeOK'
  BY <1>1, <1>2 DEF IInv, TypeOK, server, peers
<1> QED BY <1>1, <1>3 DEF IInv, HangupInv, ConnInv, server, peers

\* The timer takes a channel out of the map before it closes it.
LEMMA TimerKeepsIInv ==
  ASSUME IInv, NEW c \in Conns, TimerTakes(c) \/ TimerCloses(c) \/ TimerHangsUp(c)
  PROVE  IInv'
<1>1. UNCHANGED <<server, peers, reader, sender, queue>>
  BY DEF TimerTakes, TimerCloses, TimerHangsUp
<1>2. TypeOK' /\ shut \subseteq shut' /\ channels' \subseteq channels
  BY <1>1 DEF TimerTakes, TimerCloses, TimerHangsUp, Idle, IInv, TypeOK, HangupInv, server, peers
<1>3. /\ timer'.step = "hangup" => timer'.channel \in shut'
      /\ \A d \in Conns : timer.channel = d => d \in shut' \/ timer'.channel = d
      /\ \A d \in channels \ channels' : timer'.channel = d
  BY ConnsAssumption DEF TimerTakes, TimerCloses, TimerHangsUp, Idle, IInv, TypeOK, HangupInv
<1>4. HangupInv'
  BY <1>1, <1>2, <1>3 DEF IInv, HangupInv
<1>5. \A d \in Conns : ConnInv(d)'
  BY <1>1, <1>2, <1>3 DEF IInv, ConnInv, peers
<1> QED BY <1>1, <1>2, <1>4, <1>5 DEF IInv, server

LEMMA NextKeepsIInv == IInv /\ [Next]_vars => IInv'
<1> SUFFICES ASSUME IInv, [Next]_vars PROVE IInv'
  OBVIOUS
<1>1. CASE Listen
  BY <1>1, ListenKeepsIInv
<1>2. CASE \/ ListenFails \/ Release \/ Cancel \/ Running
           \/ \E l \in Listeners : Serving(l) \/ AcceptFails(l)
           \/ UNCHANGED vars
  BY <1>2, ServerKeepsIInv DEF Running, Serving
<1>3. ASSUME NEW c \in Conns,
             \/ Connect(c) \/ PeerSends(c) \/ PeerTurns(c)
             \/ Reading(c) \/ Handle(c) \/ Sending(c) \/ TimerTakes(c) \/ Closing(c)
      PROVE  IInv'
  BY <1>3, PeerKeepsIInv, ReadingKeepsIInv, ClosingKeepsIInv, SendingKeepsIInv, TimerKeepsIInv
     DEF Reading, Sending, Closing
<1> QED BY <1>1, <1>2, <1>3 DEF Next, Starting

LEMMA Invariance == Spec => []IInv
  BY InitIInv, NextKeepsIInv, PTL DEF Spec

-----------------------------------------------------------------------------
(* The theorem.  *)

\* OnAccept, CloseChannel and Remove: a connection that is being served is in
\* the map of channels, or is closed, or the timer has just taken it; and what
\* is in the map is being served or cleaned up.
THEOREM ServedIsFound == Spec => []ServedOrClosing
<1>1. IInv => ServedOrClosing
  BY DEF IInv, ConnInv, ServedOrClosing
<1> QED BY <1>1, Invariance, PTL

=============================================================================
