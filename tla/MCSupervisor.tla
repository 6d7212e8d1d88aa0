---------------------------- MODULE MCSupervisor ----------------------------
(* Small instances of Supervisor: two hosts; the code's own port numbers,    *)
(* or small ones where TLC has to enumerate the ports.                      *)
EXTENDS Supervisor

CONSTANTS h1, h2, local_host

MCTwoHosts == {h1, h2}
MCPort == {12345}
MCSmallPort == {2}
\* The operator moves the supervisor one port down between two sessions.
MCPortMoved == {12345, 12344}

MCAnywhere == Label \ {"down"}
\* Anywhere but between the two cells a new host is given.
MCBetweenWrites == MCAnywhere \ {"AssignPort"}
=============================================================================
