---------------------------- MODULE Periodicity ----------------------------
(* How often a worker polls its socket: PeriodicityManager.  A program that  *)
(* announces itself ("New labview connection from ...") shortens the period *)
(* unless it has announced itself before.  Statistics are left out.         *)
EXTENDS Naturals, Sequences, FiniteSets

VARIABLES
  fPeriod,               \* milliseconds between two polls
  fNumberOfConnections,
  RemoteCallers          \* the announcements seen

periodicityVars == <<fPeriod, fNumberOfConnections, RemoteCallers>>

PeriodicityTypeOK ==
  /\ fPeriod \in Nat /\ fNumberOfConnections \in Nat
  /\ DOMAIN RemoteCallers = 1..Len(RemoteCallers)

PeriodicityInit == fPeriod = 500 /\ fNumberOfConnections = 0 /\ RemoteCallers = <<>>

PeriodicityCrash ==
  fPeriod' = 500 /\ fNumberOfConnections' = 0 /\ RemoteCallers' = <<>>

Callers == {RemoteCallers[i] : i \in DOMAIN RemoteCallers}

\* Mutant: a program that was restarted counts again.
AddEveryCaller(prog) ==
  /\ RemoteCallers' = Append(RemoteCallers, prog)
  /\ fNumberOfConnections' = fNumberOfConnections + 1

AddRemoteCaller(prog) ==
  IF prog \in Callers THEN UNCHANGED <<RemoteCallers, fNumberOfConnections>>
  ELSE /\ RemoteCallers' = Append(RemoteCallers, prog)
       /\ fNumberOfConnections' = fNumberOfConnections + 1

\* Mutant: no poll is kept for a new connection.
UpdatePeriodForConnections(n) ==
  fPeriod' = IF n > 0 /\ fPeriod * n > 1000 THEN 1000 \div n ELSE fPeriod

UpdatePerodicity(n) ==
  fPeriod' = IF fPeriod * (n + 1) > 1000 THEN 1000 \div (n + 1) ELSE fPeriod

\* ProcessMessage for an announcement.
ProcessMessage(prog) == AddRemoteCaller(prog) /\ UpdatePerodicity(fNumberOfConnections')

-----------------------------------------------------------------------------
(* Properties.                                                              *)

\* Every program that announced itself sends once a second; in a second there is a
\* poll for each of them and one more for a new connection, and a program that is
\* restarted, however often, is counted once (src/PeriodicityManager.cxx, lines 5-7).
SparePoll ==
  /\ fNumberOfConnections = Cardinality(Callers)
  /\ fPeriod * (fNumberOfConnections + 1) <= 1000
=============================================================================
