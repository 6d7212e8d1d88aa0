---------------------------- MODULE HostRegistry ----------------------------
(* What the supervisor promises the hosts: each gets a port of its own, and *)
(* keeps it for ever.                                                       *)
CONSTANTS Host, PortNumber
VARIABLE registry  \* registry[h]: the port of the worker that serves host h

Init == registry = [h \in {} |-> 0]

Register(h, p) ==
  /\ h \notin DOMAIN registry
  /\ \A g \in DOMAIN registry : registry[g] # p
  /\ registry' = [g \in DOMAIN registry \cup {h} |-> IF g = h THEN p ELSE registry[g]]

Next == \E h \in Host, p \in PortNumber : Register(h, p)

Spec == Init /\ [][Next]_registry
=============================================================================
