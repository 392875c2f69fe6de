---------------------------- MODULE MCObjectProxy ----------------------------
EXTENDS ObjectProxy

\* A service is registered and up, and the watch runs, when the first call makes
\* the proxy.
EnrolledInit ==
  /\ store = [a \in Addrs |-> "i1"]
  /\ log = <<[op |-> "put", addr |-> 1, id |-> "i1"]>>
  /\ reachable = Addrs
  /\ ProxyInit([state |-> "on", pos |-> 1], "find")

EnrolledSpec == EnrolledInit /\ [][Next]_vars /\ Fairness
=============================================================================
