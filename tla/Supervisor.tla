----------------------------- MODULE Supervisor -----------------------------
(***************************************************************************)
(* The feGEM supervisor: the thread that gives every host a row of the ODB *)
(* worker list, a port, and a worker listening there (class                *)
(* feGEMSupervisor, and START_FRONTEND and GIVE_ME_PORT of                 *)
(* feGEMClass::HandleCommandBank).                                         *)
(*                                                                         *)
(* The supervisor handles one request at a time, in steps that write the   *)
(* ODB one cell after another; the process may end between any two.  The   *)
(* ODB arrays "HostName" and "Port" outlive it, the workers do not.        *)
(* Worker ids are counted from 1 here, from 0 in the code.                 *)
(***************************************************************************)
EXTENDS Odb, FiniteSets

CONSTANTS
  Host,             \* the hosts that ask for a worker
  Placeholder,      \* "local_host", the entry the code creates the list with
  SupervisorPorts,  \* the values an operator may give "supervisor_port"
  PortModulus,      \* a port is a uint16_t: 2^16
  CrashAt           \* the labels at which the process may end

Label == {"idle", "FindHost", "AssignPort", "StartWorker", "Reply", "down"}
Command == {"START_FRONTEND", "GIVE_ME_PORT"}

ASSUME HostAssumption == Host # {} /\ Placeholder \notin Host
ASSUME PortAssumption == SupervisorPorts \subseteq Nat /\ PortModulus \in Nat \ {0}
ASSUME CrashAssumption == CrashAt \subseteq Label \ {"down"}

PortNumber == 0..(PortModulus - 1)

VARIABLES
  HostName, Port,  \* the ODB arrays of the worker list
  fPort,           \* the supervisor's own port in this session
  worker,          \* id -> the port and the host of a worker started (RunningWorkers)
  pc,
  cmd, host,       \* the request being handled
  id, port,        \* WorkerNo and port, its local variables
  client,          \* client[h]: how far host h's client has come
  told             \* told[h]: the port it was told to log to

odb     == <<HostName, Port>>
request == <<cmd, host, id, port>>
clients == <<client, told>>
vars    == <<odb, fPort, worker, pc, request, clients>>

Init ==
  /\ HostName = <<Placeholder>> /\ Port = <<>>
  /\ fPort \in SupervisorPorts
  /\ worker = [i \in {} |-> 0]
  /\ pc = "idle"
  /\ cmd \in Command /\ host \in Host /\ id = 1 /\ port = 0
  /\ client = [h \in Host |-> "start"]
  /\ told = [h \in Host |-> 0]

-----------------------------------------------------------------------------
(* The supervisor's thread.                                                 *)

\* A client first asks for its frontend to be started, then for the port.
Receive(h) ==
  /\ pc = "idle"
  /\ client[h] \in {"start", "started"}
  /\ cmd' = IF client[h] = "start" THEN "START_FRONTEND" ELSE "GIVE_ME_PORT"
  /\ host' = h
  /\ pc' = "FindHost"
  /\ UNCHANGED <<odb, fPort, worker, id, port, clients>>

Row(h) == {i \in DOMAIN HostName : HostName[i] = h}

\* Mutant: only the rows that have a port are searched.
FindHostAmongPorts ==
  /\ pc = "FindHost"
  /\ \/ /\ \E i \in Row(host) \cap DOMAIN Port :
              id' = i /\ \A j \in Row(host) \cap DOMAIN Port : i <= j
        /\ UNCHANGED HostName
     \/ /\ Row(host) \cap DOMAIN Port = {}
        /\ id' = Len(HostName) + 1
        /\ HostName' = Append(HostName, host)
  /\ pc' = "AssignPort"
  /\ UNCHANGED <<Port, fPort, worker, cmd, host, port, clients>>

FindHostInWorkerList ==
  /\ pc = "FindHost"
  /\ \/ /\ \E i \in Row(host) : id' = i /\ \A j \in Row(host) : i <= j
        /\ UNCHANGED HostName
     \/ /\ Row(host) = {}
        /\ id' = Len(HostName) + 1
        /\ HostName' = Append(HostName, host)
  /\ pc' = "AssignPort"
  /\ UNCHANGED <<Port, fPort, worker, cmd, host, port, clients>>

\* Mutants: ports count down; a port follows the number of workers running.
PortDownwards(i) == fPort - i
PortByWorkers(i) == (fPort + Cardinality(DOMAIN worker) + 1) % PortModulus

PortFor(i) == (fPort + i) % PortModulus

AssignPortForWorker ==
  /\ pc = "AssignPort"
  /\ IF id > Len(Port)
     THEN /\ port' = PortFor(id)
          /\ Port' = WriteCell(Port, id, PortFor(id), 0)
     ELSE /\ port' = Port[id]
          /\ UNCHANGED Port
  /\ pc' = IF cmd = "START_FRONTEND" THEN "StartWorker" ELSE "Reply"
  /\ UNCHANGED <<HostName, fPort, worker, cmd, host, id, clients>>

\* Mutants: the worker takes the port its row should have; only a host with a
\* new row has a worker started.
StartWorkerOnPortFor ==
  /\ pc = "StartWorker"
  /\ worker' = IF id \in DOMAIN worker THEN worker
               ELSE [i \in DOMAIN worker \cup {id} |->
                       IF i = id THEN [port |-> PortFor(id), host |-> host] ELSE worker[i]]
  /\ pc' = "Reply"
  /\ UNCHANGED <<odb, fPort, request, clients>>

StartWorkerForNewRow ==
  /\ pc = "StartWorker"
  /\ worker' = IF id < Len(HostName) THEN worker
               ELSE [i \in DOMAIN worker \cup {id} |->
                       IF i = id THEN [port |-> port, host |-> host] ELSE worker[i]]
  /\ pc' = "Reply"
  /\ UNCHANGED <<odb, fPort, request, clients>>

\* AddNewClient starts a worker unless this process has one for the id.  Its
\* Init asserts fPort>0 and binds: SO_REUSEPORT lets two workers bind one port.
StartWorker ==
  /\ pc = "StartWorker"
  /\ id \notin DOMAIN worker => port # 0
  /\ worker' = IF id \in DOMAIN worker THEN worker
               ELSE [i \in DOMAIN worker \cup {id} |->
                       IF i = id THEN [port |-> port, host |-> host] ELSE worker[i]]
  /\ pc' = "Reply"
  /\ UNCHANGED <<odb, fPort, request, clients>>

Reply ==
  /\ pc = "Reply"
  /\ IF cmd = "START_FRONTEND"
     THEN client' = [client EXCEPT ![host] = "started"] /\ UNCHANGED told
     ELSE /\ client' = [client EXCEPT ![host] = "connect"]
          /\ told' = [told EXCEPT ![host] = port]
  /\ pc' = "idle"
  /\ UNCHANGED <<odb, fPort, worker, request>>

-----------------------------------------------------------------------------
(* Clients (their programs are not part of the repository).                 *)

ListeningOn(p) == {i \in DOMAIN worker : worker[i].port = p}

\* The client sends its data to the port it was told; refused, it starts over.
Connect(h) ==
  /\ client[h] = "connect"
  /\ client' = [client EXCEPT ![h] = IF ListeningOn(told[h]) = {} THEN "start" ELSE "connected"]
  /\ UNCHANGED <<odb, fPort, worker, pc, request, told>>

\* The client's program is started again, at any time but during its request.
ClientRestart(h) ==
  /\ client[h] \in {"started", "connect", "connected"}
  /\ pc \in {"idle", "down"} \/ host # h
  /\ client' = [client EXCEPT ![h] = "start"]
  /\ UNCHANGED <<odb, fPort, worker, pc, request, told>>

-----------------------------------------------------------------------------
(* The end of the process and its next start.                               *)

End ==
  /\ pc' = "down"
  /\ worker' = [i \in {} |-> 0]
  /\ client' = [h \in Host |-> IF client[h] = "connected" THEN "connect" ELSE client[h]]
  /\ UNCHANGED <<odb, fPort, request, told>>

Crash == pc \in CrashAt /\ End

\* assert(fPort>0) in feGEMWorker::Init aborts the whole process.
Abort == pc = "StartWorker" /\ id \notin DOMAIN worker /\ port = 0 /\ End

StartUp ==
  /\ pc = "down"
  /\ pc' = "idle"
  /\ fPort' \in SupervisorPorts
  /\ UNCHANGED <<odb, worker, request, clients>>

-----------------------------------------------------------------------------
Handle == FindHostInWorkerList \/ AssignPortForWorker \/ StartWorker \/ Reply

Next == \/ Handle \/ Crash \/ Abort \/ StartUp
        \/ \E h \in Host : Receive(h) \/ Connect(h) \/ ClientRestart(h)

\* The threads poll for ever, clients retry, and a process that ended is started
\* again.
Fairness == /\ WF_vars(Handle)
            /\ WF_vars(StartUp)
            /\ \A h \in Host : WF_vars(Receive(h)) /\ WF_vars(Connect(h))

Spec == Init /\ [][Next]_vars /\ Fairness

-----------------------------------------------------------------------------
(* Properties.                                                              *)

\* Type invariant of the supervisor.
TypeOK ==
  /\ HostName \in Seq(Host \cup {Placeholder})
  /\ Port \in Seq(PortNumber)
  /\ fPort \in SupervisorPorts
  /\ DOMAIN worker \subseteq Nat
  /\ worker \in [DOMAIN worker -> [port : PortNumber, host : Host]]
  /\ pc \in Label
  /\ cmd \in Command /\ host \in Host /\ id \in Nat \ {0} /\ port \in PortNumber
  /\ client \in [Host -> {"start", "started", "connect", "connected"}]
  /\ told \in [Host -> PortNumber]

\* A host has one row of the worker list, however often and in whatever order
\* clients ask, and however often the process ends half way (FindHostInWorkerList).
HostsUnique == \A i, j \in DOMAIN HostName : HostName[i] = HostName[j] => i = j

\* A worker runs on the port the ODB gives its row, and serves that row's host.
WorkersMatchOdb ==
  \A i \in DOMAIN worker : /\ i \in DOMAIN HostName /\ HostName[i] = worker[i].host
                           /\ i \in DOMAIN Port /\ Port[i] = worker[i].port

\* Whoever accepts a client at the port it was told, even one it remembers from
\* before a restart of feGEM, is the worker of its own host ("one worker per
\* host", feGEMWorker.cxx:13).
RightWorker ==
  \A h \in Host : client[h] \in {"connect", "connected"} =>
    \A i \in ListeningOn(told[h]) : worker[i].host = h

\* The assertion of feGEMWorker::Init holds when it is reached.
WorkerPortAssertion == pc = "StartWorker" /\ id \notin DOMAIN worker => port > 0

\* The rows that have a port, as a function from hosts to ports.
Assigned == {i \in DOMAIN Port : Port[i] # 0}
Registry == [h \in {HostName[i] : i \in Assigned} |->
               Port[CHOOSE i \in Assigned : HostName[i] = h]]

\* The supervisor implements the registry: ports are handed out once, to one
\* host each, and never change, across any number of restarts.
HR == INSTANCE HostRegistry WITH registry <- Registry, Host <- Host \cup {Placeholder}
ImplementsRegistry == HR!Spec

\* Once processes stop ending and clients stop being restarted, every client
\* ends up connected for good (AddNewClient, GIVE_ME_PORT, the client's retries),
\* unless the process once ended between the two cells of a new row.
\* (A refused client that starts over makes the same step as one restarted: it
\* does not count as disturbed.)
Disturbed == Crash \/ \E h \in Host : ClientRestart(h) /\ ~Connect(h)
TornRow == \E i \in DOMAIN HostName : HostName[i] \in Host /\ i <= Len(Port) /\ Port[i] = 0
ClientsServed ==
  [](~TornRow) /\ <>[][~Disturbed]_vars => \A h \in Host : <>[](client[h] = "connected")
=============================================================================
