---------------------------- MODULE SessionTable ----------------------------
(***************************************************************************)
(* What the gateway promises about sessions, without its lock, its sorted  *)
(* set and its timer: a user is logged in on at most one channel, a login  *)
(* succeeds only while the user is logged out, and a session ends before   *)
(* the user can be bound to another channel.                               *)
(***************************************************************************)
CONSTANTS Uids, Chans, NoOne

VARIABLE session   \* the channel a user is logged in on, or NoOne

Init == session = [u \in Uids |-> NoOne]

Login(u, c) ==
  /\ session[u] = NoOne
  /\ session' = [session EXCEPT ![u] = c]

\* Logout by request, or by the elimination of silent users.
End(u) ==
  /\ session[u] # NoOne
  /\ session' = [session EXCEPT ![u] = NoOne]

Next == \E u \in Uids : End(u) \/ \E c \in Chans : Login(u, c)

Spec == Init /\ [][Next]_session
==============================================================================
