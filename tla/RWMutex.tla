------------------------------- MODULE RWMutex -------------------------------
(***************************************************************************)
(* sync.RWMutex of the Go runtime, by what its methods do to its fields.   *)
(* readerCount is made negative while a writer is announced; here that     *)
(* sign is the field "announced" and readers is the count without it.      *)
(* RUnlock is absent: nothing in the online service calls it.              *)
(***************************************************************************)
EXTENDS Integers

Unlocked(none) == [writer |-> none, announced |-> FALSE, readers |-> 0, tokens |-> 0]

IsRWMutex(rw, Users, none) ==
  rw \in [writer : Users \cup {none}, announced : BOOLEAN, readers : Nat, tokens : Nat]

\* RLock: counted at once; behind an announced writer it waits for a token.
RLocked(rw) == [rw EXCEPT !.readers = @ + 1]
MustWaitToRead(rw) == rw.announced

\* A reader that waited takes a token of the reader semaphore.
TakeToken(rw) == [rw EXCEPT !.tokens = @ - 1]

\* Lock: the inner mutex, then the announcement.  The writer waits for the
\* readers it counted, and only RUnlock would tell it that they have left.
Announced(rw, c) == [rw EXCEPT !.writer = c, !.announced = TRUE]
MustWaitToWrite(rw) == rw.readers # 0

\* Unlock: "sync: Unlock of unlocked RWMutex" is fatal; otherwise every
\* counted reader gets a token and the inner mutex is released, whoever
\* holds it.
UnlockIsFatal(rw) == ~rw.announced
UnlockedBy(rw, none) ==
  [rw EXCEPT !.announced = FALSE, !.tokens = @ + rw.readers, !.writer = none]
==============================================================================
