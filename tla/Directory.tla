------------------------------ MODULE Directory ------------------------------
(***************************************************************************)
(* The table of services in etcd as the rest of the system sees it: which  *)
(* service id is registered at an address, and the changes in the order in *)
(* which a watch reports them.  A service id is a uuid made by the process *)
(* that registers it, so it is put at most once.                           *)
(*                                                                         *)
(* Naming, with its leases and failures, implements this module;           *)
(* ObjectProxy and Pusher are built on it.                                 *)
(***************************************************************************)
EXTENDS Naturals, Sequences

CONSTANTS
  Addrs,  \* host:port pairs, numbered in the order of their strings
  Ids,    \* service ids
  NoId    \* the empty string

ASSUME AddrsAssumption == Addrs \subseteq Nat
ASSUME IdsAssumption == NoId \notin Ids

VARIABLES
  store,  \* the id registered at each address
  log     \* every change so far

directory == <<store, log>>

\* A deletion is reported with the key alone: its value, the id, is empty.
Change == [op : {"put", "del"}, addr : Addrs, id : Ids \cup {NoId}]
Reported(op, a, i) == log' = Append(log, [op |-> op, addr |-> a, id |-> i])
Published == {log[n].id : n \in DOMAIN log}

DirectoryTypeOK ==
  /\ store \in [Addrs -> Ids \cup {NoId}]
  /\ log \in Seq(Change)

DirectoryInit ==
  /\ store = [a \in Addrs |-> NoId]
  /\ log = <<>>

\* A process registers, over the key of an earlier one if that is still there.
Register(a, i) ==
  /\ i \in Ids \ Published
  /\ store' = [store EXCEPT ![a] = i]
  /\ Reported("put", a, i)

\* The lease of the key at a runs out.
Vanish(a) ==
  /\ store[a] # NoId
  /\ store' = [store EXCEPT ![a] = NoId]
  /\ Reported("del", a, NoId)

DirectoryNext == \E a \in Addrs : Vanish(a) \/ \E i \in Ids : Register(a, i)

DirectorySpec == DirectoryInit /\ [][DirectoryNext]_directory
=============================================================================
