-------------------------- MODULE SupervisorProofs --------------------------
(* Theorems about Supervisor, for every finite set of hosts, every set of   *)
(* points at which the process may end, and any number of restarts, as long *)
(* as the supervisor's own port stays the same and leaves room below 2^16.  *)
EXTENDS Supervisor, FiniteSetTheorems, TLAPS

FixedPort ==
  /\ IsFiniteSet(Host)
  /\ \A p, q \in SupervisorPorts : p = q
  /\ \A p \in SupervisorPorts : p + Cardinality(Host) + 1 < PortModulus

LEMMA PortNumberNat == PortNumber \subseteq Nat /\ 0 \in PortNumber
BY PortAssumption DEF PortNumber

LEMMA PortForType ==
  ASSUME fPort \in SupervisorPorts, NEW i \in Nat
  PROVE  PortFor(i) \in PortNumber
<1>1. fPort + i \in Nat /\ PortModulus \in Nat \ {0}
  BY PortAssumption
<1> QED BY <1>1 DEF PortFor, PortNumber

\* A write of a port past the end leaves the old cells and fills up with 0.
LEMMA PortWrite ==
  ASSUME NEW a \in Seq(PortNumber), NEW i \in Nat \ {0}, NEW v \in PortNumber, i > Len(a)
  PROVE  /\ WriteCell(a, i, v, 0) \in Seq(PortNumber)
         /\ Len(WriteCell(a, i, v, 0)) = i
         /\ WriteCell(a, i, v, 0)[i] = v
         /\ \A j \in 1..Len(a) : WriteCell(a, i, v, 0)[j] = a[j]
         /\ \A j \in (Len(a) + 1)..(i - 1) : WriteCell(a, i, v, 0)[j] = 0
<1>1. \A j \in 1..i : (IF j = i THEN v ELSE IF j <= Len(a) THEN a[j] ELSE 0) \in PortNumber
  BY PortNumberNat
<1>2. WriteCell(a, i, v, 0) = [j \in 1..i |-> IF j = i THEN v ELSE IF j <= Len(a) THEN a[j] ELSE 0]
  BY DEF WriteCell
<1>3. WriteCell(a, i, v, 0) \in [1..i -> PortNumber]
  BY <1>1, <1>2
<1>4. WriteCell(a, i, v, 0) \in Seq(PortNumber) /\ Len(WriteCell(a, i, v, 0)) = i
  BY <1>3
<1>5. i \in 1..i /\ 1..Len(a) \subseteq 1..(i - 1) /\ (Len(a) + 1)..(i - 1) \subseteq 1..(i - 1)
  OBVIOUS
<1> QED BY <1>2, <1>4, <1>5

\* The cell AssignPortForWorker writes for a row that has no port yet.
LEMMA NewCell ==
  ASSUME TypeOK, AssignPortForWorker, id > Len(Port)
  PROVE  /\ port' = PortFor(id) /\ port' \in PortNumber
         /\ Port' \in Seq(PortNumber) /\ Len(Port') = id
         /\ Port'[id] = PortFor(id)
         /\ \A j \in 1..Len(Port) : Port'[j] = Port[j]
         /\ \A j \in (Len(Port) + 1)..(id - 1) : Port'[j] = 0
<1>1. Port \in Seq(PortNumber) /\ id \in Nat \ {0} /\ fPort \in SupervisorPorts
  BY DEF TypeOK
<1>2. PortFor(id) \in PortNumber
  BY <1>1, PortForType
<1>3. Port' = WriteCell(Port, id, PortFor(id), 0) /\ port' = PortFor(id)
  BY DEF AssignPortForWorker
<1> HIDE DEF PortFor
<1> DEFINE w == WriteCell(Port, id, PortFor(id), 0)
<1>4. /\ w \in Seq(PortNumber) /\ Len(w) = id
      /\ w[id] = PortFor(id)
      /\ \A j \in 1..Len(Port) : w[j] = Port[j]
      /\ \A j \in (Len(Port) + 1)..(id - 1) : w[j] = 0
  BY <1>1, <1>2, PortWrite
<1> QED BY <1>2, <1>3, <1>4

-----------------------------------------------------------------------------
(* Types.                                                                   *)

LEMMA TypeInit == Init => TypeOK
BY PortNumberNat, HostAssumption DEF Init, TypeOK, Label

LEMMA TypeStep == TypeOK /\ [Next]_vars => TypeOK'
<1> SUFFICES ASSUME TypeOK, [Next]_vars PROVE TypeOK'
  OBVIOUS
<1> USE DEF TypeOK, Label, Command
<1>1. ASSUME NEW h \in Host, Receive(h) PROVE TypeOK'
  BY <1>1 DEF Receive, odb, clients
<1>2. CASE FindHostInWorkerList
  <2>1. CASE \E i \in Row(host) : id' = i /\ UNCHANGED HostName
    <3>1. id' \in Nat \ {0}
      BY <2>1 DEF Row
    <3> QED BY <1>2, <2>1, <3>1 DEF FindHostInWorkerList, clients
  <2>2. CASE id' = Len(HostName) + 1 /\ HostName' = Append(HostName, host)
    <3>1. HostName' \in Seq(Host \cup {Placeholder}) /\ id' \in Nat \ {0}
      BY <2>2
    <3> QED BY <1>2, <3>1 DEF FindHostInWorkerList, clients
  <2> QED BY <1>2, <2>1, <2>2 DEF FindHostInWorkerList
<1>3. CASE AssignPortForWorker
  <2>1. CASE id > Len(Port)
    <3>1. port' \in PortNumber /\ Port' \in Seq(PortNumber)
      BY <1>3, <2>1, NewCell
    <3> QED BY <1>3, <3>1 DEF AssignPortForWorker, clients
  <2>2. CASE ~(id > Len(Port))
    <3>1. Port[id] \in PortNumber
      BY <2>2
    <3> QED BY <1>3, <2>2, <3>1 DEF AssignPortForWorker, clients
  <2> QED BY <2>1, <2>2
<1>4. CASE StartWorker
  BY <1>4 DEF StartWorker, odb, request, clients
<1>5. CASE Reply
  <2>1. /\ client' = [client EXCEPT ![host] = "started"] \/ client' = [client EXCEPT ![host] = "connect"]
        /\ told' = told \/ told' = [told EXCEPT ![host] = port]
    BY <1>5 DEF Reply
  <2>2. /\ client' \in [Host -> {"start", "started", "connect", "connected"}]
        /\ told' \in [Host -> PortNumber]
    BY <2>1
  <2> QED BY <1>5, <2>2 DEF Reply, odb, request
<1>6. ASSUME NEW h \in Host, Connect(h) \/ ClientRestart(h) PROVE TypeOK'
  BY <1>6 DEF Connect, ClientRestart, odb, request
<1>7. CASE Crash \/ Abort
  BY <1>7 DEF Crash, Abort, End, odb, request
<1>8. CASE StartUp
  BY <1>8 DEF StartUp, odb, request, clients
<1>9. CASE UNCHANGED vars
  BY <1>9 DEF vars, odb, request, clients
<1> QED BY <1>1, <1>2, <1>3, <1>4, <1>5, <1>6, <1>7, <1>8, <1>9 DEF Next, Handle

\* The supervisor's variables keep their types in every behaviour.
THEOREM TypeCorrect == Spec => []TypeOK
BY TypeInit, TypeStep, PTL DEF Spec

-----------------------------------------------------------------------------
(* The inductive invariant.  A port in the ODB is 0 or the one its row       *)
(* number gives; what the request, the workers and the clients hold are      *)
(* copies of a row.                                                          *)

\* Port number p is the one the ODB gives host h's row.
HasPort(h, p) == \E i \in DOMAIN Port : i \in DOMAIN HostName /\ HostName[i] = h /\ Port[i] = p

Inv ==
  /\ HostsUnique
  /\ Len(Port) <= Len(HostName)
  /\ \A i \in DOMAIN Port : Port[i] \in {0, PortFor(i)}
  /\ pc \in {"AssignPort", "StartWorker", "Reply"} => id \in DOMAIN HostName /\ HostName[id] = host
  /\ pc \in {"StartWorker", "Reply"} => id \in DOMAIN Port /\ Port[id] = port
  /\ WorkersMatchOdb
  /\ \A i \in DOMAIN worker : worker[i].port # 0
  /\ \A h \in Host : client[h] \in {"connect", "connected"} => HasPort(h, told[h])

\* The two lists only grow, so whatever was copied from a row still matches it.
LEMMA RowsStay ==
  ASSUME TypeOK, Inv, [Next]_vars
  PROVE  /\ Len(HostName) <= Len(HostName') /\ Len(Port) <= Len(Port')
         /\ DOMAIN HostName \subseteq DOMAIN HostName' /\ DOMAIN Port \subseteq DOMAIN Port'
         /\ \A i \in DOMAIN HostName : HostName'[i] = HostName[i]
         /\ \A i \in DOMAIN Port : Port'[i] = Port[i]
<1>0. /\ HostName \in Seq(Host \cup {Placeholder}) /\ Port \in Seq(PortNumber)
      /\ id \in Nat \ {0} /\ host \in Host
  BY DEF TypeOK
<1>1. CASE FindHostInWorkerList
  <2>1. Port' = Port /\ (HostName' = HostName \/ HostName' = Append(HostName, host))
    BY <1>1 DEF FindHostInWorkerList
  <2> QED BY <1>0, <2>1
<1>2. CASE AssignPortForWorker
  <2>1. CASE id > Len(Port)
    <3>1. HostName' = HostName
      BY <1>2 DEF AssignPortForWorker
    <3>2. /\ Port' \in Seq(PortNumber) /\ Len(Port') = id
          /\ Port'[id] = PortFor(id)
          /\ \A j \in 1..Len(Port) : Port'[j] = Port[j]
          /\ \A j \in (Len(Port) + 1)..(id - 1) : Port'[j] = 0
      BY <1>2, <2>1, NewCell
    <3> QED BY <1>0, <2>1, <3>1, <3>2
  <2>2. CASE ~(id > Len(Port))
    BY <1>2, <2>2 DEF AssignPortForWorker, TypeOK
  <2> QED BY <2>1, <2>2
<1>3. CASE UNCHANGED odb
  BY <1>3 DEF odb, TypeOK
<1>4. [Next]_vars => FindHostInWorkerList \/ AssignPortForWorker \/ UNCHANGED odb
  BY DEF Next, Handle, StartWorker, Reply, Crash, Abort, End, StartUp, Receive, Connect, ClientRestart,
         vars, odb
<1> QED BY <1>1, <1>2, <1>3, <1>4

LEMMA InvInit == Init => Inv
BY DEF Init, Inv, HostsUnique, WorkersMatchOdb

\* The two lists only grow in the steps that write them; every other step
\* keeps what Inv says of the lists alone.
LEMMA ListsInv ==
  ASSUME TypeOK, Inv, FixedPort, [Next]_vars
  PROVE  /\ HostsUnique' /\ Len(Port') <= Len(HostName')
         /\ \A i \in DOMAIN Port' : Port'[i] \in {0, PortFor(i)'}
<1>0. /\ HostName \in Seq(Host \cup {Placeholder}) /\ Port \in Seq(PortNumber)
      /\ id \in Nat \ {0} /\ host \in Host
  BY DEF TypeOK
<1>1. CASE FindHostInWorkerList
  <2>1. Port' = Port /\ fPort' = fPort
    BY <1>1 DEF FindHostInWorkerList
  <2>2. CASE HostName' = HostName
    BY <2>1, <2>2 DEF Inv, HostsUnique, PortFor
  <2>3. CASE HostName' = Append(HostName, host) /\ Row(host) = {}
    <3>1. \A i \in DOMAIN HostName : HostName[i] # host
      BY <2>3 DEF Row
    <3>2. /\ Len(HostName') = Len(HostName) + 1 /\ HostName'[Len(HostName) + 1] = host
          /\ \A i \in 1..Len(HostName) : HostName'[i] = HostName[i]
          /\ DOMAIN HostName = 1..Len(HostName) /\ DOMAIN HostName' = 1..(Len(HostName) + 1)
      BY <1>0, <2>3
    <3>3. HostsUnique'
      BY <1>0, <3>1, <3>2 DEF Inv, HostsUnique
    <3> QED BY <1>0, <2>1, <3>2, <3>3 DEF Inv, PortFor
  <2> QED BY <1>1, <2>2, <2>3 DEF FindHostInWorkerList
<1>2. CASE AssignPortForWorker
  <2>0. HostName' = HostName /\ fPort' = fPort /\ id \in DOMAIN HostName
    BY <1>2 DEF AssignPortForWorker, Inv
  <2>1. CASE id > Len(Port)
    <3>3. /\ Port' \in Seq(PortNumber) /\ Len(Port') = id
          /\ Port'[id] = PortFor(id)
          /\ \A j \in 1..Len(Port) : Port'[j] = Port[j]
          /\ \A j \in (Len(Port) + 1)..(id - 1) : Port'[j] = 0
      BY <1>2, <2>1, NewCell
    <3>4. \A j \in 1..id : Port'[j] \in {0, PortFor(j)}
      BY <1>0, <3>3 DEF Inv
    <3>5. DOMAIN Port' = 1..id /\ \A j \in 1..id : PortFor(j)' = PortFor(j)
      BY <2>0, <3>3 DEF PortFor
    <3> QED BY <1>0, <2>0, <3>3, <3>4, <3>5 DEF Inv, HostsUnique
  <2>2. CASE ~(id > Len(Port))
    BY <1>2, <2>0, <2>2 DEF AssignPortForWorker, Inv, HostsUnique, PortFor
  <2> QED BY <2>1, <2>2
<1>3. CASE UNCHANGED odb /\ fPort' = fPort
  BY <1>3 DEF odb, Inv, HostsUnique, PortFor
<1>4. [Next]_vars => FindHostInWorkerList \/ AssignPortForWorker \/ UNCHANGED odb
  BY DEF Next, Handle, StartWorker, Reply, Crash, Abort, End, StartUp, Receive, Connect, ClientRestart,
         vars, odb
<1>5. fPort' = fPort
  <2>1. fPort \in SupervisorPorts /\ fPort' \in SupervisorPorts
    BY TypeStep DEF TypeOK
  <2> QED BY <2>1 DEF FixedPort
<1> QED BY <1>1, <1>2, <1>3, <1>4, <1>5

LEMMA InvStep ==
  ASSUME TypeOK, Inv, FixedPort, [Next]_vars
  PROVE  Inv'
<1>1. HostsUnique' /\ Len(Port') <= Len(HostName') /\ \A i \in DOMAIN Port' : Port'[i] \in {0, PortFor(i)'}
  BY ListsInv
<1>2. /\ DOMAIN HostName \subseteq DOMAIN HostName' /\ DOMAIN Port \subseteq DOMAIN Port'
      /\ \A i \in DOMAIN HostName : HostName'[i] = HostName[i]
      /\ \A i \in DOMAIN Port : Port'[i] = Port[i]
  BY RowsStay
<1>3. \A h \in Host, p \in PortNumber : HasPort(h, p) => HasPort(h, p)'
  BY <1>2 DEF HasPort
<1>4. /\ pc' \in {"AssignPort", "StartWorker", "Reply"} => id' \in DOMAIN HostName' /\ HostName'[id'] = host'
      /\ pc' \in {"StartWorker", "Reply"} => id' \in DOMAIN Port' /\ Port'[id'] = port'
  <2>0. /\ HostName \in Seq(Host \cup {Placeholder}) /\ Port \in Seq(PortNumber)
        /\ id \in Nat \ {0} /\ host \in Host
    BY DEF TypeOK
  <2>1. CASE FindHostInWorkerList
    <3>1. pc' = "AssignPort" /\ host' = host
      BY <2>1 DEF FindHostInWorkerList
    <3>2. id' \in DOMAIN HostName' /\ HostName'[id'] = host
      BY <2>0, <2>1 DEF FindHostInWorkerList, Row
    <3> QED BY <3>1, <3>2
  <2>2. CASE AssignPortForWorker
    <3>1. id' = id /\ host' = host /\ HostName' = HostName /\ id \in DOMAIN HostName /\ HostName[id] = host
      BY <2>2 DEF AssignPortForWorker, Inv
    <3>2. CASE id > Len(Port)
      <4>1. /\ port' = PortFor(id) /\ Port' \in Seq(PortNumber) /\ Len(Port') = id
            /\ Port'[id] = PortFor(id)
            /\ \A j \in 1..Len(Port) : Port'[j] = Port[j]
            /\ \A j \in (Len(Port) + 1)..(id - 1) : Port'[j] = 0
        BY <2>2, <3>2, NewCell
      <4> QED BY <2>0, <3>1, <4>1
    <3>3. CASE ~(id > Len(Port))
      BY <2>0, <2>2, <3>1, <3>3 DEF AssignPortForWorker
    <3> QED BY <3>2, <3>3
  <2>3. CASE StartWorker
    BY <2>3 DEF StartWorker, Inv, odb, request
  <2>4. CASE pc' \in {"idle", "down", "FindHost"}
    BY <2>4
  <2>5. CASE UNCHANGED <<odb, pc, request>>
    BY <2>5 DEF odb, request, Inv
  <2> QED BY <2>1, <2>2, <2>3, <2>4, <2>5 DEF Next, Handle, Reply, Crash, Abort, End, StartUp, Receive,
             Connect, ClientRestart, vars, odb, request
<1>5. WorkersMatchOdb' /\ \A i \in DOMAIN worker' : worker'[i].port # 0
  <2>1. CASE StartWorker /\ id \notin DOMAIN worker
    <3>1. worker' = [i \in DOMAIN worker \cup {id} |-> IF i = id THEN [port |-> port, host |-> host] ELSE worker[i]]
      BY <2>1 DEF StartWorker
    <3>2. /\ id \in DOMAIN HostName /\ HostName[id] = host /\ id \in DOMAIN Port /\ Port[id] = port /\ port # 0
      BY <2>1 DEF StartWorker, Inv
    <3>3. HostName' = HostName /\ Port' = Port
      BY <2>1 DEF StartWorker, odb
    <3> QED BY <3>1, <3>2, <3>3 DEF Inv, WorkersMatchOdb
  <2>2. CASE worker' = worker
    BY <1>2, <2>2 DEF Inv, WorkersMatchOdb
  <2>3. CASE worker' = [i \in {} |-> 0]
    BY <2>3 DEF WorkersMatchOdb
  <2> QED BY <2>1, <2>2, <2>3 DEF Next, Handle, FindHostInWorkerList, AssignPortForWorker, StartWorker, Reply,
             Crash, Abort, End, StartUp, Receive, Connect, ClientRestart, vars
<1>6. \A h \in Host : client'[h] \in {"connect", "connected"} => HasPort(h, told[h])'
  <2>0. told \in [Host -> PortNumber] /\ client \in [Host -> {"start", "started", "connect", "connected"}]
    BY DEF TypeOK
  <2>1. ASSUME UNCHANGED told,
               \A h \in Host : client'[h] \in {"connect", "connected"} => client[h] \in {"connect", "connected"}
        PROVE  \A h \in Host : client'[h] \in {"connect", "connected"} => HasPort(h, told[h])'
    BY <1>3, <2>0, <2>1 DEF Inv
  <2>2. CASE Reply
    <3>1. CASE cmd = "START_FRONTEND"
      BY <2>0, <2>1, <2>2, <3>1 DEF Reply
    <3>2. CASE cmd # "START_FRONTEND"
      <4>1. HasPort(host, port)
        BY <2>2 DEF Reply, Inv, HasPort
      <4>2. HostName' = HostName /\ Port' = Port /\ host' = host
        BY <2>2 DEF Reply, odb, request
      <4>3. /\ client' = [client EXCEPT ![host] = "connect"] /\ told' = [told EXCEPT ![host] = port]
            /\ host \in Host /\ port \in PortNumber
        BY <2>2, <3>2 DEF Reply, TypeOK
      <4>4. told'[host] = port /\ HasPort(host, told[host])'
        <5>1. told'[host] = port
          <6>1. host \in DOMAIN told
            BY <2>0, <4>3
          <6> QED BY <4>3, <6>1
        <5> QED BY <4>1, <4>2, <5>1 DEF HasPort
      <4>5. ASSUME NEW h \in Host \ {host}, client'[h] \in {"connect", "connected"}
            PROVE  HasPort(h, told[h])'
        <5>1. told'[h] = told[h] /\ client'[h] = client[h]
          BY <2>0, <4>3
        <5>2. HasPort(h, told[h])
          BY <4>5, <5>1 DEF Inv
        <5> QED BY <4>2, <5>1, <5>2 DEF HasPort
      <4> QED BY <4>2, <4>4, <4>5
    <3> QED BY <3>1, <3>2
  <2>3. ASSUME NEW h \in Host, Connect(h) \/ ClientRestart(h)
        PROVE  \A g \in Host : client'[g] \in {"connect", "connected"} => client[g] \in {"connect", "connected"}
    BY <2>0, <2>3 DEF Connect, ClientRestart
  <2>4. CASE End
    BY <2>0, <2>1, <2>4 DEF End
  <2>5. CASE UNCHANGED clients
    BY <2>1, <2>5 DEF clients
  <2>6. \/ Reply \/ End \/ UNCHANGED clients
        \/ \E h \in Host : (Connect(h) \/ ClientRestart(h)) /\ UNCHANGED told
    BY DEF Next, Handle, FindHostInWorkerList, AssignPortForWorker, StartWorker, Crash, Abort,
           StartUp, Receive, Connect, ClientRestart, vars
  <2> QED BY <2>1, <2>2, <2>3, <2>4, <2>5, <2>6
<1> QED BY <1>1, <1>4, <1>5, <1>6 DEF Inv

LEMMA InvAlways ==
  ASSUME FixedPort
  PROVE  Spec => [](TypeOK /\ Inv)
<1>1. Init => TypeOK /\ Inv
  BY TypeInit, InvInit
<1>2. (TypeOK /\ Inv) /\ [Next]_vars => (TypeOK /\ Inv)'
  BY TypeStep, InvStep
<1> QED BY <1>1, <1>2, PTL DEF Spec

\* A host never gets a second row of the worker list (FindHostInWorkerList),
\* wherever in a request the process may end.
THEOREM RowsAreUnique ==
  ASSUME FixedPort
  PROVE  Spec => []HostsUnique
<1>1. Inv => HostsUnique
  BY DEF Inv
<1> QED BY <1>1, InvAlways, PTL

\* A running worker always is the one the ODB's row describes, host and port
\* (AddNewClient, AssignPortForWorker).
THEOREM WorkersAlwaysMatchOdb ==
  ASSUME FixedPort
  PROVE  Spec => []WorkersMatchOdb
<1>1. Inv => WorkersMatchOdb
  BY DEF Inv
<1> QED BY <1>1, InvAlways, PTL

-----------------------------------------------------------------------------
(* Ports of different rows differ: there are at most Cardinality(Host) + 1   *)
(* rows, as no host has two, so no port number wraps around.                 *)

LEMMA RowBound ==
  ASSUME TypeOK, HostsUnique, FixedPort
  PROVE  Len(HostName) <= Cardinality(Host) + 1
<1> DEFINE S == Host \cup {Placeholder}
           n == Len(HostName)
<1>1. IsFiniteSet(S) /\ Cardinality(S) = Cardinality(Host) + 1 /\ Cardinality(Host) \in Nat
  BY FS_AddElement, FS_CardinalityType, HostAssumption DEF FixedPort
<1>2. n \in Nat /\ HostName \in [1..n -> S]
  BY DEF TypeOK
<1>3. IsFiniteSet(1..n) /\ Cardinality(1..n) = n
  BY <1>2, FS_Interval
<1>4. ASSUME Cardinality(S) < n PROVE FALSE
  <2>1. \E i, j \in 1..n : i # j /\ HostName[i] = HostName[j]
    <3> HIDE DEF S, n
    <3> QED BY <1>1, <1>2, <1>3, <1>4, FS_PigeonHole
  <2> QED BY <1>2, <2>1 DEF HostsUnique
<1> QED BY <1>1, <1>2, <1>4

LEMMA PortsDiffer ==
  ASSUME TypeOK, Inv, FixedPort, NEW i \in DOMAIN HostName, NEW j \in DOMAIN HostName
  PROVE  /\ PortFor(i) # 0
         /\ PortFor(i) = PortFor(j) => i = j
<1>1. Len(HostName) <= Cardinality(Host) + 1 /\ Len(HostName) \in Nat /\ Cardinality(Host) \in Nat
  BY RowBound, FS_CardinalityType DEF Inv, TypeOK, FixedPort
<1>2. i \in 1..Len(HostName) /\ j \in 1..Len(HostName)
  BY DEF TypeOK
<1>3. fPort \in Nat /\ PortModulus \in Nat \ {0} /\ fPort + Cardinality(Host) + 1 < PortModulus
  BY PortAssumption DEF TypeOK, FixedPort
<1>4. /\ fPort + i \in 1..(PortModulus - 1) /\ fPort + j \in 1..(PortModulus - 1)
  BY <1>1, <1>2, <1>3
<1>5. \A k \in 1..(PortModulus - 1) : k % PortModulus = k
  BY <1>3
<1>6. PortFor(i) = fPort + i /\ PortFor(j) = fPort + j
  BY <1>4, <1>5 DEF PortFor
<1> QED BY <1>2, <1>3, <1>6

LEMMA RightWorkerInv ==
  ASSUME TypeOK, Inv, FixedPort
  PROVE  RightWorker
<1> SUFFICES ASSUME NEW h \in Host, client[h] \in {"connect", "connected"},
                    NEW i \in ListeningOn(told[h])
             PROVE  worker[i].host = h
  BY DEF RightWorker
<1>1. PICK j \in DOMAIN Port : j \in DOMAIN HostName /\ HostName[j] = h /\ Port[j] = told[h]
  BY DEF Inv, HasPort
<1>2. /\ i \in DOMAIN HostName /\ HostName[i] = worker[i].host
      /\ i \in DOMAIN Port /\ Port[i] = told[h] /\ told[h] # 0
  BY DEF ListeningOn, Inv, WorkersMatchOdb
<1>3. Port[i] = PortFor(i) /\ Port[j] = PortFor(j)
  BY <1>1, <1>2 DEF Inv
<1>4. i = j
  BY <1>1, <1>2, <1>3, PortsDiffer
<1> QED BY <1>1, <1>2, <1>4

\* Whoever answers a client at the port it was told is the worker of its host.
THEOREM AlwaysRightWorker ==
  ASSUME FixedPort
  PROVE  Spec => []RightWorker
<1>1. TypeOK /\ Inv => RightWorker
  BY RightWorkerInv
<1> QED BY <1>1, InvAlways, PTL

-----------------------------------------------------------------------------
(* Refinement of HostRegistry.                                               *)

LEMMA RegistryRow ==
  ASSUME TypeOK, Inv, NEW i \in Assigned
  PROVE  /\ i \in DOMAIN HostName /\ HostName[i] \in DOMAIN Registry
         /\ Registry[HostName[i]] = Port[i]
<1>1. i \in DOMAIN HostName /\ Assigned \subseteq DOMAIN HostName
  BY DEF Assigned, Inv, TypeOK
<1>2. \A j \in Assigned : HostName[j] = HostName[i] => j = i
  BY <1>1 DEF Inv, HostsUnique
<1>3. (CHOOSE j \in Assigned : HostName[j] = HostName[i]) = i
  BY <1>2
<1>4. HostName[i] \in {HostName[j] : j \in Assigned}
  OBVIOUS
<1> QED BY <1>1, <1>3, <1>4 DEF Registry

LEMMA RegistryInit == Init => HR!Init
<1> SUFFICES ASSUME Init PROVE HR!Init
  OBVIOUS
<1>1. Assigned = {}
  BY DEF Init, Assigned
<1>2. {HostName[i] : i \in Assigned} = {}
  BY <1>1
<1> QED BY <1>2 DEF HR!Init, Registry

\* Where no row gets a port, the registry stays as it is.
LEMMA RegistrySame ==
  ASSUME TypeOK, Inv, [Next]_vars, Port' = Port
  PROVE  UNCHANGED Registry
<1>1. Assigned' = Assigned /\ Assigned \subseteq DOMAIN HostName
  BY DEF Assigned, Inv, TypeOK
<1>2. \A i \in Assigned : HostName'[i] = HostName[i]
  BY <1>1, RowsStay
<1>3. {HostName'[i] : i \in Assigned'} = {HostName[i] : i \in Assigned}
  BY <1>1, <1>2
<1>4. ASSUME NEW h \in {HostName[i] : i \in Assigned}
      PROVE  (CHOOSE i \in Assigned' : HostName'[i] = h) = (CHOOSE i \in Assigned : HostName[i] = h)
  BY <1>1, <1>2
<1> DEFINE D == {HostName[i] : i \in Assigned}
           F(h) == Port[CHOOSE i \in Assigned : HostName[i] = h]
           G(h) == Port'[CHOOSE i \in Assigned' : HostName'[i] = h]
<1>5. \A h \in D : G(h) = F(h)
  BY <1>4
<1>6. Registry' = [h \in D |-> G(h)]
  BY <1>3 DEF Registry
<1>7. Registry = [h \in D |-> F(h)]
  BY DEF Registry
<1> HIDE DEF D, F, G
<1> QED BY <1>5, <1>6, <1>7

RegistryRows == \A i \in Assigned : /\ i \in DOMAIN HostName /\ HostName[i] \in DOMAIN Registry
                                    /\ Registry[HostName[i]] = Port[i]

LEMMA RegistryRowsHere == TypeOK /\ Inv => RegistryRows
BY RegistryRow DEF RegistryRows

LEMMA RegistryRowsNext == TypeOK' /\ Inv' => RegistryRows'
BY RegistryRowsHere, PTL

\* A row that gets its port is a host entering the registry with a new port.
LEMMA RegistryGrows ==
  ASSUME TypeOK, Inv, FixedPort, AssignPortForWorker, id > Len(Port)
  PROVE  HR!Register(host, PortFor(id))
<1>0. TypeOK' /\ Inv'
  BY TypeStep, InvStep DEF Next, Handle
<1>1. /\ id \in DOMAIN HostName /\ HostName[id] = host /\ HostName' = HostName
      /\ id \in Nat \ {0} /\ Port \in Seq(PortNumber)
  BY DEF AssignPortForWorker, Inv, TypeOK
<1>2. PortFor(id) # 0
  BY <1>1, PortsDiffer
<1>3. /\ Port' \in Seq(PortNumber) /\ Len(Port') = id /\ Port'[id] = PortFor(id)
      /\ \A j \in 1..Len(Port) : Port'[j] = Port[j]
      /\ \A j \in (Len(Port) + 1)..(id - 1) : Port'[j] = 0
  BY NewCell
<1>4. Assigned' = Assigned \cup {id} /\ id \notin Assigned
  <2>1. DOMAIN Port' = 1..id /\ DOMAIN Port = 1..Len(Port)
    BY <1>1, <1>3
  <2>2. \A j \in 1..id : j = id \/ j \in 1..Len(Port) \/ j \in (Len(Port) + 1)..(id - 1)
    BY <1>1
  <2>3. \A j \in 1..Len(Port) : j \in 1..id
    BY <1>1
  <2>4. id \in 1..id /\ id \notin 1..Len(Port)
    BY <1>1
  <2> QED BY <1>2, <1>3, <2>1, <2>2, <2>3, <2>4 DEF Assigned
<1>5. \A i \in Assigned : /\ i \in DOMAIN HostName /\ HostName[i] # host
                          /\ Port[i] = PortFor(i) /\ PortFor(i) # PortFor(id)
  <2>1. \A i \in Assigned : i \in DOMAIN HostName /\ i # id /\ Port[i] = PortFor(i)
    BY <1>4, RegistryRowsHere DEF RegistryRows, Assigned, Inv
  <2>2. \A i \in Assigned : HostName[i] # host
    BY <1>1, <2>1 DEF Inv, HostsUnique
  <2>3. \A i \in Assigned : PortFor(i) # PortFor(id)
    BY <1>1, <2>1, PortsDiffer
  <2> QED BY <2>1, <2>2, <2>3
<1> DEFINE D == {HostName[i] : i \in Assigned}
<1>6. DOMAIN Registry = D /\ host \notin D
  BY <1>5 DEF Registry
<1>7. \A g \in D : Registry[g] # PortFor(id)
  BY <1>5, RegistryRowsHere DEF RegistryRows
<1>8. DOMAIN Registry' = D \cup {host}
  <2>1. DOMAIN Registry' = {HostName'[i] : i \in Assigned'}
    BY DEF Registry
  <2> QED BY <1>1, <1>4, <2>1
<1>9. Registry'[host] = PortFor(id) /\ \A g \in D : Registry'[g] = Registry[g]
  <2>1. \A i \in Assigned' : Registry'[HostName[i]] = Port'[i]
    BY <1>0, <1>1, RegistryRowsNext DEF RegistryRows
  <2>2. \A i \in Assigned : Registry[HostName[i]] = Port[i] /\ Port'[i] = Port[i]
    BY <1>1, <1>3, RegistryRowsHere DEF RegistryRows, Assigned
  <2> QED BY <1>1, <1>3, <1>4, <2>1, <2>2
<1>10. Registry' = [g \in D \cup {host} |-> Registry'[g]]
  BY <1>8 DEF Registry
<1>11. Registry' = [g \in D \cup {host} |-> IF g = host THEN PortFor(id) ELSE Registry[g]]
  <2> HIDE DEF D
  <2>1. \A g \in D \cup {host} : Registry'[g] = IF g = host THEN PortFor(id) ELSE Registry[g]
    BY <1>6, <1>9
  <2> QED BY <1>10, <2>1
<1> QED BY <1>6, <1>7, <1>11 DEF HR!Register

LEMMA RegistryStep ==
  ASSUME TypeOK, Inv, FixedPort, [Next]_vars
  PROVE  [HR!Next]_Registry
<1>1. CASE AssignPortForWorker /\ id > Len(Port)
  <2>1. HR!Register(host, PortFor(id))
    BY <1>1, RegistryGrows
  <2>2. host \in Host /\ PortFor(id) \in PortNumber
    BY PortForType DEF TypeOK
  <2> QED BY <2>1, <2>2 DEF HR!Next
<1>2. CASE Port' = Port
  BY <1>2, RegistrySame
<1> QED BY <1>1, <1>2 DEF Next, Handle, FindHostInWorkerList, AssignPortForWorker, StartWorker, Reply,
           Crash, Abort, End, StartUp, Receive, Connect, ClientRestart, vars, odb

\* The supervisor implements the registry: each host gets one port, no other
\* host ever gets it, and it never changes, over any number of restarts.
THEOREM SupervisorImplementsRegistry ==
  ASSUME FixedPort
  PROVE  Spec => ImplementsRegistry
<1>1. Init => HR!Init
  BY RegistryInit
<1>2. TypeOK /\ Inv /\ [Next]_vars => [HR!Next]_Registry
  BY RegistryStep
<1> QED BY <1>1, <1>2, InvAlways, PTL DEF Spec, ImplementsRegistry, HR!Spec

-----------------------------------------------------------------------------
(* The assertion of feGEMWorker::Init.  Between the two writes the row of    *)
(* the request has no port; if the process never ends there, every row of a  *)
(* host is filled as soon as the request leaves AssignPortForWorker, and the *)
(* only blank cell a write can leave is the placeholder's.                   *)

EndsBetweenWrites == pc = "AssignPort" /\ Crash

Filled(i) == i \in DOMAIN Port /\ Port[i] # 0

RowsFilled ==
  \A i \in DOMAIN HostName : HostName[i] \in Host =>
    Filled(i) \/ (pc = "AssignPort" /\ i = id /\ i > Len(Port))

LEMMA RowsFilledInit == Init => RowsFilled
BY HostAssumption DEF Init, RowsFilled

\* A new row waits for its port; an old one had it already.
LEMMA FindKeepsFilled ==
  ASSUME TypeOK, Inv, RowsFilled, FindHostInWorkerList
  PROVE  RowsFilled'
<1>1. /\ HostName \in Seq(Host \cup {Placeholder}) /\ Port \in Seq(PortNumber) /\ Port' = Port
      /\ pc = "FindHost" /\ pc' = "AssignPort"
  BY DEF FindHostInWorkerList, TypeOK
<1>2. \A i \in DOMAIN HostName : HostName[i] \in Host => Filled(i)
  BY <1>1 DEF RowsFilled
<1>3. \A i : Filled(i)' <=> Filled(i)
  BY <1>1 DEF Filled
<1>4. CASE HostName' = HostName
  BY <1>2, <1>3, <1>4 DEF RowsFilled
<1>5. CASE HostName' = Append(HostName, host) /\ id' = Len(HostName) + 1
  <2>1. /\ Len(HostName) \in Nat /\ DOMAIN HostName' = 1..(Len(HostName) + 1)
        /\ DOMAIN HostName = 1..Len(HostName)
        /\ \A i \in 1..Len(HostName) : HostName'[i] = HostName[i]
    BY <1>1, <1>5 DEF TypeOK
  <2>2. \A i \in DOMAIN HostName' : i \in DOMAIN HostName \/ i = id'
    BY <1>5, <2>1
  <2>3. id' > Len(Port')
    BY <1>1, <1>5, <2>1 DEF Inv
  <2> QED BY <1>1, <1>2, <1>3, <2>1, <2>2, <2>3 DEF RowsFilled
<1> QED BY <1>4, <1>5 DEF FindHostInWorkerList

\* The row of the request gets its port; the cells left blank before it belong to no
\* host, because every other host's row is filled.
LEMMA AssignKeepsFilled ==
  ASSUME TypeOK, Inv, FixedPort, RowsFilled, AssignPortForWorker
  PROVE  RowsFilled'
<1>1. /\ HostName' = HostName /\ id \in DOMAIN HostName /\ id \in Nat \ {0}
      /\ Port \in Seq(PortNumber)
  BY DEF AssignPortForWorker, Inv, TypeOK
<1>2. CASE id > Len(Port)
  <2>1. /\ Port' \in Seq(PortNumber) /\ Len(Port') = id /\ Port'[id] = PortFor(id)
        /\ \A j \in 1..Len(Port) : Port'[j] = Port[j]
    BY <1>2, NewCell
  <2>2. PortFor(id) # 0
    BY <1>1, PortsDiffer
  <2>3. DOMAIN Port' = 1..id /\ DOMAIN Port = 1..Len(Port) /\ Len(Port) \in Nat
    BY <1>1, <2>1
  <2>4. \A i \in DOMAIN HostName : i = id \/ Filled(i) => Filled(i)'
    BY <1>1, <1>2, <2>1, <2>2, <2>3 DEF Filled
  <2> QED BY <1>1, <2>4 DEF RowsFilled
<1>3. CASE ~(id > Len(Port))
  <2>1. Port' = Port
    BY <1>3 DEF AssignPortForWorker
  <2> QED BY <1>1, <1>3, <2>1 DEF RowsFilled, Filled
<1> QED BY <1>2, <1>3

LEMMA RowsFilledStep ==
  ASSUME TypeOK, Inv, FixedPort, RowsFilled, [Next]_vars, [~EndsBetweenWrites]_vars
  PROVE  RowsFilled'
<1>1. CASE FindHostInWorkerList
  BY <1>1, FindKeepsFilled
<1>2. CASE AssignPortForWorker
  BY <1>2, AssignKeepsFilled
<1>3. CASE UNCHANGED odb /\ pc # "AssignPort"
  BY <1>3 DEF RowsFilled, Filled, odb
<1>4. CASE UNCHANGED <<odb, pc, id>>
  BY <1>4 DEF RowsFilled, Filled, odb
<1>5. CASE Crash
  <2>1. CASE pc = "AssignPort"
    <3>1. UNCHANGED vars
      BY <1>5, <2>1 DEF EndsBetweenWrites
    <3> QED BY <1>4, <3>1 DEF vars, odb, request
  <2> QED BY <1>3, <1>5, <2>1 DEF Crash, End
<1> QED BY <1>1, <1>2, <1>3, <1>4, <1>5
       DEF Next, Handle, StartWorker, Reply, Abort, End, StartUp, Receive, Connect, ClientRestart,
           vars, odb, request

LEMMA RowsAlwaysFilled ==
  ASSUME FixedPort
  PROVE  Spec /\ [][~EndsBetweenWrites]_vars => []RowsFilled
<1>1. TypeOK /\ Inv /\ RowsFilled /\ [Next]_vars /\ [~EndsBetweenWrites]_vars => RowsFilled'
  BY RowsFilledStep
<1> QED BY <1>1, RowsFilledInit, InvAlways, PTL DEF Spec

\* The assertion of feGEMWorker::Init can only fail after the process has once ended
\* between the HostName and the Port write of a new row: without that no row of a
\* host ever reads port 0, whatever else crashes (AssignPortForWorker).
THEOREM WorkerPortAlwaysGood ==
  ASSUME FixedPort
  PROVE  Spec /\ [][~EndsBetweenWrites]_vars => []WorkerPortAssertion
<1>1. TypeOK /\ Inv /\ RowsFilled => WorkerPortAssertion
  <2> SUFFICES ASSUME TypeOK, Inv, RowsFilled, pc = "StartWorker" PROVE port > 0
    BY DEF WorkerPortAssertion
  <2>1. id \in DOMAIN HostName /\ HostName[id] = host /\ Port[id] = port /\ host \in Host
    BY DEF Inv, TypeOK
  <2>2. port # 0
    BY <2>1 DEF RowsFilled, Filled
  <2>3. port \in Nat
    BY PortNumberNat DEF TypeOK
  <2> QED BY <2>2, <2>3
<1> QED BY <1>1, RowsAlwaysFilled, InvAlways, PTL

\* Under the same condition no row is torn: the premise of ClientsServed holds, however
\* often the process ends elsewhere (FindHostInWorkerList, AssignPortForWorker).
THEOREM NoRowTorn ==
  ASSUME FixedPort
  PROVE  Spec /\ [][~EndsBetweenWrites]_vars => [](~TornRow)
<1>1. TypeOK /\ Inv /\ RowsFilled => ~TornRow
  <2> SUFFICES ASSUME TypeOK, Inv, RowsFilled,
                      NEW i \in DOMAIN HostName, HostName[i] \in Host, i <= Len(Port), Port[i] = 0
               PROVE  FALSE
    BY DEF TornRow
  <2>1. i \in Nat /\ Len(Port) \in Nat
    BY DEF TypeOK
  <2>2. ~Filled(i) /\ ~(i > Len(Port))
    BY <2>1 DEF Filled
  <2> QED BY <2>2 DEF RowsFilled
<1> QED BY <1>1, RowsAlwaysFilled, InvAlways, PTL
=============================================================================
