----------------------------- MODULE NetServer -----------------------------
(***************************************************************************)
(* A service as container.Run drives it: the listeners of TcpServer, the   *)
(* two goroutines of each Channel, the timer that closes channels, the     *)
(* exit notice, Shutdown and release.                                      *)
(*                                                                         *)
(* set_server_params gives every listener the name of the program, so that *)
(* the map srv_socks keeps only the last one (shadowing the others).       *)
(* Handlers push to the channel their request came from, and nobody else   *)
(* pushes: the two that would, ServiceHandle and the pusher's, assert a    *)
(* type the decoder never produces.                                        *)
(***************************************************************************)
EXTENDS Naturals, Sequences

CONSTANTS
  Handlers,  \* one LogicHandle per listener: "replies" or "pushes"
  Conns,     \* connections
  Nobody,    \* the timer closes nothing
  ChanCap,   \* places in chSend
  MaxReqs    \* bound: packets a peer sends on its connection

ASSUME HandlersAssumption == Handlers \in Seq({"replies", "pushes"}) /\ Handlers # <<>>
ASSUME ConnsAssumption == Nobody \notin Conns
ASSUME SizesAssumption == ChanCap \in Nat \ {0} /\ MaxReqs \in Nat

Listeners == DOMAIN Handlers

VARIABLES
  alive,      \* the process runs
  cancelled,  \* container.Shutdown has been called
  run,        \* Run: "wait", "shutdown" (in TcpServer.Shutdown)
  start,      \* Start: what it does, and the listener it has got to
  named,      \* srv_socks: the one listener in it, 0 if none
  socks,      \* listeners that are open
  service,    \* start_logic_service of each listener
  at,         \* the listener a connection came to
  peer,       \* what the peer does with the connection
  inbox,      \* packets in the socket
  left,       \* packets the peer may still send
  reader,     \* the goroutine of RecvLoop
  sender,     \* the goroutine of SendLoop
  queue,      \* packets in chSend
  shut,       \* channels whose chSend is closed
  hung,       \* channels whose connection is closed
  channels,   \* the map of channels
  timer       \* CloseChannel of the timer goroutine: its step and its channel

server == <<alive, cancelled, run, start, named, socks, service>>
peers == <<at, peer, inbox, left>>
channel == <<sender, queue, shut, hung, channels>>
vars == <<server, peers, reader, channel, timer>>

TypeOK ==
  /\ alive \in BOOLEAN /\ cancelled \in BOOLEAN
  /\ run \in {"wait", "shutdown"}
  /\ start \in [step : {"listen", "wait", "release", "done"}, next : Listeners]
  /\ named \in Listeners \cup {0} /\ socks \subseteq Listeners
  /\ service \in [Listeners -> {"off", "init", "accept", "exit", "ended"}]
  /\ at \in [Conns -> Listeners]
  /\ peer \in [Conns -> {"new", "reads", "stalls", "gone"}]
  /\ inbox \in [Conns -> 0..MaxReqs] /\ left \in [Conns -> 0..MaxReqs]
  /\ reader \in [Conns -> {"off", "accepted", "recv", "handle", "reply", "push",
                         "close", "hangup", "remove", "done"}]
  /\ sender \in [Conns -> {"off", "idle", "write", "done"}]
  /\ queue \in [Conns -> 0..ChanCap]
  /\ shut \subseteq Conns /\ hung \subseteq shut /\ channels \subseteq Conns
  /\ timer \in [step : {"idle", "close", "hangup"}, channel : Conns \cup {Nobody}]

Idle == [step |-> "idle", channel |-> Nobody]

Init ==
  /\ alive = TRUE /\ cancelled = FALSE /\ run = "wait"
  /\ start = [step |-> "listen", next |-> 1]
  /\ named = 0 /\ socks = {} /\ service = [l \in Listeners |-> "off"]
  /\ at \in [Conns -> Listeners]
  /\ peer = [c \in Conns |-> "new"]
  /\ inbox = [c \in Conns |-> 0] /\ left = [c \in Conns |-> MaxReqs]
  /\ reader = [c \in Conns |-> "off"] /\ sender = [c \in Conns |-> "off"]
  /\ queue = [c \in Conns |-> 0]
  /\ shut = {} /\ hung = {} /\ channels = {}
  /\ timer = Idle

-----------------------------------------------------------------------------
(* Start, the listeners, Run and Shutdown. *)

Listen ==
  /\ alive /\ start.step = "listen"
  /\ socks' = socks \cup {start.next}
  /\ named' = start.next
  /\ service' = [service EXCEPT ![start.next] = "init"]
  /\ start' = IF start.next < Len(Handlers) THEN [start EXCEPT !.next = @ + 1]
              ELSE [start EXCEPT !.step = "wait"]
  /\ UNCHANGED <<alive, cancelled, run, peers, reader, channel, timer>>

\* The address is taken: Start releases and returns an error nobody looks at.
ListenFails ==
  /\ alive /\ start.step = "listen"
  /\ start' = [start EXCEPT !.step = "release"]
  /\ UNCHANGED <<alive, cancelled, run, named, socks, service, peers, reader, channel, timer>>

\* LogicHandle.Init: it fails when the network interface is not there.
HandlerInit(l) ==
  /\ alive /\ service[l] = "init"
  /\ \E then \in {"accept", "exit"} : service' = [service EXCEPT ![l] = then]
  /\ UNCHANGED <<alive, cancelled, run, start, named, socks, peers, reader, channel, timer>>

\* Accept fails on a closed listener, and on a passing error of the system.
AcceptFails(l) ==
  /\ alive /\ service[l] = "accept"
  /\ service' = [service EXCEPT ![l] = "exit"]
  /\ UNCHANGED <<alive, cancelled, run, start, named, socks, peers, reader, channel, timer>>

\* Seeded fault: a graceful wait, for the last channel to go.
NoticeReadWhenQuiet == start.step = "wait" /\ channels = {}

\* wait reads one notice from channel_exit; whoever sends another one blocks.
NoticeRead == start.step = "wait"

\* The deferred notice of a listener that has ended.
NoticeOfService(l) ==
  /\ alive /\ service[l] = "exit" /\ NoticeRead
  /\ service' = [service EXCEPT ![l] = "ended"]
  /\ start' = [start EXCEPT !.step = "release"]
  /\ UNCHANGED <<alive, cancelled, run, named, socks, peers, reader, channel, timer>>

\* container.Shutdown.
Cancel ==
  /\ alive /\ ~cancelled
  /\ cancelled' = TRUE
  /\ UNCHANGED <<alive, run, start, named, socks, service, peers, reader, channel, timer>>

RunSeesCancel ==
  /\ alive /\ run = "wait" /\ cancelled
  /\ run' = "shutdown"
  /\ UNCHANGED <<alive, cancelled, start, named, socks, service, peers, reader, channel, timer>>

\* Shutdown's notice is taken: Run returns, and with it main.
NoticeOfShutdown ==
  /\ alive /\ run = "shutdown" /\ NoticeRead
  /\ alive' = FALSE
  /\ UNCHANGED <<cancelled, run, start, named, socks, service, peers, reader, channel, timer>>

\* release closes the listener in srv_socks.  All asserts that the map holds
\* Channel where it holds *Channel: with any channel in it, the process dies.
Release ==
  /\ alive /\ start.step = "release"
  /\ socks' = socks \ {named} /\ named' = 0
  /\ alive' = (channels = {})
  /\ start' = [start EXCEPT !.step = "done"]
  /\ UNCHANGED <<cancelled, run, service, peers, reader, channel, timer>>

-----------------------------------------------------------------------------
(* Peers. *)

Connect(c) ==
  /\ alive /\ peer[c] = "new" /\ at[c] \in socks /\ service[at[c]] = "accept"
  /\ peer' = [peer EXCEPT ![c] = "reads"]
  /\ reader' = [reader EXCEPT ![c] = "accepted"]
  /\ UNCHANGED <<server, at, inbox, left, channel, timer>>

PeerSends(c) ==
  /\ alive /\ peer[c] \in {"reads", "stalls"} /\ left[c] > 0
  /\ left' = [left EXCEPT ![c] = @ - 1]
  /\ inbox' = [inbox EXCEPT ![c] = @ + 1]
  /\ UNCHANGED <<server, at, peer, reader, channel, timer>>

\* It stops and starts to read, or ends.
PeerTurns(c) ==
  /\ alive
  /\ \E to \in {"reads", "stalls", "gone"} \ {peer[c]} :
       /\ peer[c] \in {"reads", "stalls"}
       /\ peer' = [peer EXCEPT ![c] = to]
       /\ left' = [left EXCEPT ![c] = IF to = "gone" THEN 0 ELSE @]
  /\ UNCHANGED <<server, at, inbox, reader, channel, timer>>

-----------------------------------------------------------------------------
(* The goroutine of a connection: RecvLoop, the handler, the deferred close. *)

\* OnAccept, NewChannel, Add and the start of SendLoop.
Enrol(c) ==
  /\ alive /\ reader[c] = "accepted"
  /\ channels' = channels \cup {c}
  /\ sender' = [sender EXCEPT ![c] = "idle"]
  /\ reader' = [reader EXCEPT ![c] = "recv"]
  /\ UNCHANGED <<server, peers, queue, shut, hung, timer>>

\* OnMessage of ServiceHandle ignores what is not for the gateway.  Of the rest
\* it asserts a type that the decoder never makes; nothing recovers that panic.
Pushes(c) == alive' \in BOOLEAN /\ UNCHANGED reader

Recv(c) ==
  /\ alive /\ reader[c] = "recv" /\ inbox[c] > 0 /\ c \notin hung
  /\ inbox' = [inbox EXCEPT ![c] = @ - 1]
  /\ IF Handlers[at[c]] = "replies"
       THEN reader' = [reader EXCEPT ![c] = "handle"] /\ UNCHANGED alive
       ELSE Pushes(c)
  /\ UNCHANGED <<cancelled, run, start, named, socks, service, at, peer, left, channel, timer>>

\* OnMessage of the gateway and the online service: a reply, none, an error of
\* do_cmd, or the end of the process (do_cmd's assertion, a race on a map).  It
\* may wait for a mutex or in a cast, and nothing says that it returns.
Handle(c) ==
  /\ alive /\ reader[c] = "handle"
  /\ \/ /\ \E then \in {"reply", "recv", "close"} : reader' = [reader EXCEPT ![c] = then]
        /\ UNCHANGED alive
     \/ alive' = FALSE /\ UNCHANGED reader
  /\ UNCHANGED <<cancelled, run, start, named, socks, service, peers, channel, timer>>

\* The connection is closed, the peer has gone, or its packet is no JSON.
RecvFails(c) ==
  /\ alive /\ reader[c] = "recv"
  /\ c \in hung \/ peer[c] = "gone" \/ inbox[c] > 0
  /\ reader' = [reader EXCEPT ![c] = "close"]
  /\ UNCHANGED <<server, peers, channel, timer>>

\* PushChannel finds the channel in the map, or gives the reply up.
PushChannel(c) ==
  /\ alive /\ reader[c] = "reply"
  /\ reader' = [reader EXCEPT ![c] = IF c \in channels THEN "push" ELSE "recv"]
  /\ UNCHANGED <<server, peers, channel, timer>>

\* Seeded fault: a blocked push is not woken by the close of its channel.
PushDeaf(c) ==
  /\ alive /\ reader[c] = "push" /\ queue[c] < ChanCap
  /\ queue' = [queue EXCEPT ![c] = IF c \in shut THEN @ ELSE @ + 1]
  /\ reader' = [reader EXCEPT ![c] = "recv"]
  /\ UNCHANGED <<server, peers, sender, shut, hung, channels, timer>>

\* Push: a send on a closed chSend is a recovered panic, one on a full chSend
\* blocks until there is room or the close makes it panic.
Push(c) ==
  /\ alive /\ reader[c] = "push" /\ (c \in shut \/ queue[c] < ChanCap)
  /\ queue' = [queue EXCEPT ![c] = IF c \in shut THEN @ ELSE @ + 1]
  /\ reader' = [reader EXCEPT ![c] = "recv"]
  /\ UNCHANGED <<server, peers, sender, shut, hung, channels, timer>>

\* The deferred Close, of chSend and then of the connection, and Remove.  On a
\* chSend already closed it panics, recovers and leaves the connection.
ReaderCloses(c) ==
  /\ alive /\ reader[c] = "close"
  /\ shut' = shut \cup {c}
  /\ reader' = [reader EXCEPT ![c] = IF c \in shut THEN "remove" ELSE "hangup"]
  /\ UNCHANGED <<server, peers, sender, queue, hung, channels, timer>>

ReaderHangsUp(c) ==
  /\ alive /\ reader[c] = "hangup"
  /\ hung' = hung \cup {c}
  /\ reader' = [reader EXCEPT ![c] = "remove"]
  /\ UNCHANGED <<server, peers, sender, queue, shut, channels, timer>>

Remove(c) ==
  /\ alive /\ reader[c] = "remove"
  /\ channels' = channels \ {c}
  /\ reader' = [reader EXCEPT ![c] = "done"]
  /\ UNCHANGED <<server, peers, sender, queue, shut, hung, timer>>

-----------------------------------------------------------------------------
(* SendLoop, and CloseChannel of the timer goroutine. *)

\* The loop ends when chSend is closed and empty.
TakePacket(c) ==
  /\ alive /\ sender[c] = "idle" /\ (queue[c] > 0 \/ c \in shut)
  /\ sender' = [sender EXCEPT ![c] = IF queue[c] > 0 THEN "write" ELSE "done"]
  /\ queue' = [queue EXCEPT ![c] = IF @ > 0 THEN @ - 1 ELSE 0]
  /\ UNCHANGED <<server, peers, reader, shut, hung, channels, timer>>

\* Seeded fault: the loop ends with its first write.
WriteOnce(c) ==
  /\ alive /\ sender[c] = "write" /\ (c \in hung \/ peer[c] # "stalls")
  /\ sender' = [sender EXCEPT ![c] = "done"]
  /\ UNCHANGED <<server, peers, reader, queue, shut, hung, channels, timer>>

\* A write waits for a peer that does not read; one to a peer that has gone
\* may still succeed.
Write(c) ==
  /\ alive /\ sender[c] = "write" /\ c \notin hung /\ peer[c] # "stalls"
  /\ sender' = [sender EXCEPT ![c] = "idle"]
  /\ UNCHANGED <<server, peers, reader, queue, shut, hung, channels, timer>>

\* An error of SendPacket ends the loop, and leaves the rest of the queue.
WriteFails(c) ==
  /\ alive /\ sender[c] = "write" /\ (c \in hung \/ peer[c] = "gone")
  /\ sender' = [sender EXCEPT ![c] = "done"]
  /\ UNCHANGED <<server, peers, reader, queue, shut, hung, channels, timer>>

\* LoadAndDelete: eliminate_user closes the channels of users that timed out.
TimerTakes(c) ==
  /\ alive /\ timer = Idle /\ c \in channels /\ Handlers[at[c]] = "replies"
  /\ channels' = channels \ {c}
  /\ timer' = [step |-> "close", channel |-> c]
  /\ UNCHANGED <<server, peers, reader, sender, queue, shut, hung>>

\* Seeded fault: a channel with packets to send is spared.
TimerClosesEmpty(c) ==
  /\ alive /\ timer = [step |-> "close", channel |-> c]
  /\ shut' = IF queue[c] = 0 THEN shut \cup {c} ELSE shut
  /\ timer' = IF c \in shut' \ shut THEN [timer EXCEPT !.step = "hangup"] ELSE Idle
  /\ UNCHANGED <<server, peers, reader, sender, queue, hung, channels>>

TimerCloses(c) ==
  /\ alive /\ timer = [step |-> "close", channel |-> c]
  /\ shut' = shut \cup {c}
  /\ timer' = IF c \in shut THEN Idle ELSE [timer EXCEPT !.step = "hangup"]
  /\ UNCHANGED <<server, peers, reader, sender, queue, hung, channels>>

TimerHangsUp(c) ==
  /\ alive /\ timer = [step |-> "hangup", channel |-> c]
  /\ hung' = hung \cup {c}
  /\ timer' = Idle
  /\ UNCHANGED <<server, peers, reader, sender, queue, shut, channels>>

-----------------------------------------------------------------------------
Starting == Listen \/ ListenFails \/ Release
Serving(l) == HandlerInit(l) \/ NoticeOfService(l) \/ (l \notin socks /\ AcceptFails(l))
Running == RunSeesCancel \/ NoticeOfShutdown
Reading(c) ==
  \/ Enrol(c) \/ Recv(c) \/ RecvFails(c) \/ PushChannel(c) \/ Push(c)
  \/ ReaderCloses(c) \/ ReaderHangsUp(c) \/ Remove(c)
Sending(c) == TakePacket(c) \/ Write(c) \/ WriteFails(c)
Closing(c) == TimerCloses(c) \/ TimerHangsUp(c)

Next ==
  \/ Starting \/ Cancel \/ Running
  \/ \E l \in Listeners : Serving(l) \/ AcceptFails(l)
  \/ \E c \in Conns : \/ Connect(c) \/ PeerSends(c) \/ PeerTurns(c)
                      \/ Reading(c) \/ Handle(c) \/ Sending(c) \/ TimerTakes(c) \/ Closing(c)

Spec == Init /\ [][Next]_vars

\* Goroutines run.  Nobody has to connect, send, read, fail or shut down, and
\* no handler has to return.
FairSpec ==
  /\ Spec
  /\ WF_vars(Starting) /\ WF_vars(Running)
  /\ \A l \in Listeners : WF_vars(Serving(l))
  /\ \A c \in Conns : WF_vars(Reading(c)) /\ WF_vars(Sending(c)) /\ WF_vars(Closing(c))

-----------------------------------------------------------------------------
(* What the server has to get right. *)

\* A connection that is being served can be found by its id, unless somebody
\* has closed it or is about to; and the map keeps nothing of the others.
ServedOrClosing ==
  /\ TypeOK
  /\ \A c \in Conns :
       /\ reader[c] \in {"recv", "handle", "reply", "push"} /\ c \notin channels =>
            c \in shut \/ timer.channel = c
       /\ c \in channels => reader[c] \notin {"off", "accepted", "done"}

\* What release is for ("no new connections") and what the comment in
\* start_logic_service asks (one listener that ends ends them all): afterwards
\* no listener is open.  It is not so: of those that share a name in srv_socks
\* release finds the last one only.
ReleaseClosesListeners == alive /\ start.step = "done" => socks = {}

\* A handler waits for room in its channel only as long as the peer of that
\* very channel does not read, or has gone.
WaitsOnlyForItsPeer ==
  \A c \in Conns : reader[c] = "push" ~> reader[c] # "push" \/ peer[c] # "reads" \/ ~alive

\* Closing a channel frees both goroutines, blocked as they may be: the reader
\* in Push or RecvPacket, the sender in a write to a peer that does not read.
\* The end of the peer frees them too, except that the handler may be left in
\* Push, for ever, at the queue of a SendLoop that ended with an error.  A handler
\* that does not return keeps its own goroutine, and of a closed channel no other.
EndedIsFreed ==
  \A c \in Conns :
    c \in shut \/ peer[c] = "gone"
      ~> \/ reader[c] = "done" /\ sender[c] = "done"
         \/ reader[c] = "push" /\ sender[c] = "done" /\ c \notin shut
         \/ reader[c] = "handle" /\ (c \in shut => sender[c] = "done")
         \/ ~alive

\* Shutdown ends the process, unless the server had released itself before.
ShutdownEnds == cancelled ~> ~alive \/ start.step = "done"
=============================================================================
