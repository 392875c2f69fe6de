------------------------------ MODULE TcpClient ------------------------------
(***************************************************************************)
(* util.TcpClient: a connection to another service with a queue of packets *)
(* and a goroutine that writes them.                                       *)
(*                                                                         *)
(* do_recv_loop is never started, so nothing is read from a connection and *)
(* nothing notices that one has broken: only close makes a client closed.  *)
(* Send ends with an error whatever happens, which is why its result is no *)
(* part of the model.                                                      *)
(***************************************************************************)
EXTENDS Naturals, Sequences, FiniteSets

NewTcpClient(a, i) ==
  [addr  |-> a, id |-> i,
   open  |-> FALSE,  \* state = StateConnected
   held  |-> FALSE,  \* the mutex is locked and nobody will unlock it
   loops |-> 0,      \* do_send_loop goroutines: none of them ever ends
   queue |-> <<>>,   \* channel_send
   hand  |-> {}]     \* packets the loops have taken and not yet written

IsTcpClient(k, addrs, ids, packets) ==
  /\ k.addr \in addrs /\ k.id \in ids
  /\ k.open \in BOOLEAN /\ k.held \in BOOLEAN
  /\ k.loops \in Nat
  /\ k.queue \in Seq(packets) /\ k.hand \subseteq packets
  /\ Cardinality(k.hand) <= k.loops

\* Connect, when the mutex is free.
ConnectSucceeds(k, reachable) == k.open \/ reachable
Connect(k, reachable) ==
  IF k.open \/ ~reachable THEN k
  ELSE [k EXCEPT !.open = TRUE, !.queue = <<>>, !.loops = @ + 1]

\* Seeded fault: close unlocks before each return.
CloseQuietly(k) == [k EXCEPT !.open = FALSE]

\* close, when the mutex is free: on a client already closed it returns before
\* the Unlock.  The loops may still take what the closed channel holds.
Close(k) == IF k.open THEN [k EXCEPT !.open = FALSE] ELSE [k EXCEPT !.held = TRUE]

\* Send: a closed channel is a recovered panic, a full one blocks.
SendBlocks(k, cap) == k.open /\ Len(k.queue) >= cap
Sent(k, packet) == IF k.open THEN [k EXCEPT !.queue = Append(@, packet)] ELSE k

\* do_send_loop: one of the client's loops takes a packet, and later writes it.
CanTake(k) == k.queue # <<>> /\ Cardinality(k.hand) < k.loops

Taken(k) == [k EXCEPT !.queue = Tail(@), !.hand = @ \cup {Head(k.queue)}]
Written(k, packet) == [k EXCEPT !.hand = @ \ {packet}]
=============================================================================
