---------------------------- MODULE WorkerProofs ----------------------------
(***************************************************************************)
(* Theorems about module Worker, proved part by part: a lemma says which   *)
(* actions touch a part, and the part's invariant need only be followed    *)
(* through those.                                                          *)
(***************************************************************************)
EXTENDS Worker, FiniteSetTheorems, TLAPS

-----------------------------------------------------------------------------
(* The run state.                                                           *)

\* The worker is not yet registered for transitions.
Building == pc \in {"down", "start", "stop", "register"}

\* What a step may do to the run state.
LEMMA RunSteps ==
  ASSUME [Next]_vars
  PROVE  \/ Construct \/ Stop \/ (MidasThread /\ UNCHANGED pc)
         \/ UNCHANGED runVars /\ UNCHANGED pc
         \/ UNCHANGED runVars /\ ~Building /\ ~Building'
<1>1. CASE UNCHANGED vars
  BY <1>1 DEF vars, threadVars, parts
<1>2. CASE Construct \/ MidasThread \/ Crash
  BY <1>2 DEF Crash, MidasThread, threadVars
<1>3. CASE InitWorker
  BY <1>3 DEF InitWorker, Building
<1>4. CASE OtherWorkers \/ Analyse
  BY <1>4 DEF OtherWorkers, Analyse, threadVars
<1>5. CASE TcpThread
  <2>1. CASE Fatal \/ ScanNothing
    BY <2>1 DEF Fatal, ScanNothing
  <2>2. CASE PollNobody \/ Receive \/ SendEvent \/ SendReply
    BY <2>2 DEF PollNobody, Receive, SendEvent, SendReply, threadVars, Building
  <2>3. CASE BankTooBig \/ LogData \/ AnswerCommand \/ ChangeEventSize
    BY <2>3 DEF BankTooBig, LogData, AnswerCommand, ChangeEventSize, Turn, Done, Building
  <2>4. CASE Talk \/ Ignore \/ Save \/ Load \/ Scan \/ ReadFile
    BY <2>4 DEF Talk, Ignore, Save, Load, Scan, ReadFile, Turn, Done, Building
  <2> QED BY <1>5, <2>1, <2>2, <2>3, <2>4 DEF TcpThread
<1> QED BY <1>1, <1>2, <1>3, <1>4, <1>5 DEF Next

\* The ODB's run state, as MIDAS keeps it.
RunInfoInv ==
  /\ runinfo \in [number : Nat, start : Nat, stop : Nat, running : BOOLEAN]
  /\ runinfo.start = runinfo.number
  /\ runinfo.running => runinfo.stop = 0
  /\ ~runinfo.running => runinfo.stop = runinfo.number

\* A field is never of a later run than the ODB, nor, once a transition was seen,
\* than a field written before it; and a handler has written what comes before its
\* label.
FieldsInv ==
  /\ RUNNO \in Nat \cup {-1} /\ RUN_START_T \in Nat /\ RUN_STOP_T \in Nat
  /\ RUNNO <= runinfo.number /\ RUN_START_T <= runinfo.number /\ RUN_STOP_T <= runinfo.number
  /\ RunStatus \in {"UNKNOWN", "RUNNING", "STOPPED"}
  /\ RunStatus # "UNKNOWN" => RUN_STOP_T <= RUN_START_T /\ RUN_START_T <= RUNNO

HandlerInv ==
  /\ midas \in {"idle"} \cup Handlers
  /\ midas \in {"begin number", "begin start", "begin status"} => runinfo.running
  /\ midas \in {"end number", "end start", "end stop", "end status"} => ~runinfo.running
  /\ midas \in {"begin start", "begin status", "end start", "end stop", "end status"} =>
       RUNNO = runinfo.number
  /\ midas \in {"begin status", "end stop", "end status"} => RUN_START_T = runinfo.number
  /\ midas = "end status" => RUN_STOP_T = runinfo.number

RunInv ==
  /\ RunInfoInv /\ FieldsInv /\ HandlerInv /\ RunCurrent
  /\ registered \in BOOLEAN
  /\ Building => ~registered
  /\ ~registered => midas = "idle" /\ RunStatus = "UNKNOWN"

LEMMA RunInvInit == Init => RunInv
<1> SUFFICES ASSUME Init PROVE RunInv
  OBVIOUS
<1>1. RunInfoInv
  <2>1. CASE runinfo = [number |-> 0, start |-> 0, stop |-> 0, running |-> FALSE]
    BY <2>1 DEF RunInfoInv
  <2>2. CASE runinfo = [number |-> 1, start |-> 1, stop |-> 0, running |-> TRUE]
    BY <2>2 DEF RunInfoInv
  <2> QED BY <2>1, <2>2 DEF Init, RunInit
<1>2. FieldsInv
  BY <1>1 DEF Init, RunInit, FieldsInv, RunInfoInv
<1>3. HandlerInv /\ RunCurrent
  BY DEF Init, RunInit, HandlerInv, RunCurrent
<1> QED BY <1>1, <1>2, <1>3 DEF Init, RunInit, RunInv

LEMMA TransitionsKeepRunInv ==
  ASSUME RunInv, Transitions
  PROVE  /\ RunInfoInv' /\ FieldsInv' /\ HandlerInv' /\ RunCurrent' /\ registered' = registered
         /\ ~registered => midas' = "idle" /\ RunStatus' = "UNKNOWN"
<1>0. /\ RunInfoInv /\ FieldsInv /\ HandlerInv /\ RunCurrent
      /\ ~registered => midas = "idle" /\ RunStatus = "UNKNOWN"
  BY DEF RunInv
<1>1. runinfo.number \in Nat /\ runinfo.start = runinfo.number
  BY <1>0 DEF RunInfoInv
<1>2. CASE BeginRun
  <2>1. /\ midas = "idle" /\ UNCHANGED <<registered, RUNNO, RUN_START_T, RUN_STOP_T, RunStatus>>
        /\ runinfo' = [number |-> runinfo.number + 1, start |-> runinfo.number + 1,
                       stop |-> 0, running |-> TRUE]
        /\ midas' = IF registered THEN "begin number" ELSE "idle"
    BY <1>2 DEF BeginRun, fields
  <2>2. RunInfoInv' /\ runinfo'.running
    <3> DEFINE n == runinfo.number + 1
    <3>1. n \in Nat
      BY <1>1
    <3>2. runinfo' = [number |-> n, start |-> n, stop |-> 0, running |-> TRUE]
      BY <2>1
    <3> HIDE DEF n
    <3> QED BY <3>1, <3>2 DEF RunInfoInv
  <2>3. runinfo'.number = runinfo.number + 1
    BY <2>1
  <2>4. FieldsInv'
    <3>1. UNCHANGED <<RUNNO, RUN_START_T, RUN_STOP_T, RunStatus>>
      BY <2>1
    <3> QED BY <1>0, <1>1, <2>3, <3>1 DEF FieldsInv
  <2>5. HandlerInv'
    BY <2>1, <2>2 DEF HandlerInv, Handlers
  <2>6. ~registered => midas' = "idle" /\ RunStatus' = "UNKNOWN"
    BY <1>0, <2>1
  <2>7. RunCurrent'
    BY <2>1, <2>6 DEF RunCurrent
  <2> QED BY <2>1, <2>2, <2>4, <2>5, <2>6, <2>7
<1>3. CASE EndRun
  <2>1. /\ midas = "idle" /\ UNCHANGED <<registered, RUNNO, RUN_START_T, RUN_STOP_T, RunStatus>>
        /\ runinfo' = [number |-> runinfo.number, start |-> runinfo.start,
                       stop |-> runinfo.number, running |-> FALSE]
        /\ midas' = IF registered THEN "end number" ELSE "idle"
    BY <1>3 DEF EndRun, fields
  <2>2. RunInfoInv' /\ ~runinfo'.running
    BY <1>1, <2>1 DEF RunInfoInv
  <2>3. runinfo'.number = runinfo.number
    BY <2>1
  <2>4. FieldsInv'
    BY <1>0, <2>1, <2>3 DEF FieldsInv
  <2>5. HandlerInv'
    BY <2>1, <2>2 DEF HandlerInv, Handlers
  <2>6. ~registered => midas' = "idle" /\ RunStatus' = "UNKNOWN"
    BY <1>0, <2>1
  <2>7. RunCurrent'
    BY <2>1, <2>6 DEF RunCurrent
  <2> QED BY <2>1, <2>2, <2>4, <2>5, <2>6, <2>7
<1>4. CASE HandleBeginRun \/ HandleEndRun
  <2>1. UNCHANGED <<runinfo, registered>> /\ midas # "idle"
    BY <1>4 DEF HandleBeginRun, HandleEndRun
  <2>2. RunInfoInv'
    BY <1>0, <2>1 DEF RunInfoInv
  <2>3. FieldsInv'
    <3>1. CASE UNCHANGED <<RUN_START_T, RUN_STOP_T, RunStatus>> /\ RUNNO' = runinfo.number
      BY <1>0, <1>1, <2>1, <3>1 DEF FieldsInv
    <3>2. CASE /\ UNCHANGED <<RUNNO, RUN_STOP_T, RunStatus>> /\ RUN_START_T' = runinfo.number
               /\ RUNNO = runinfo.number
      BY <1>0, <1>1, <2>1, <3>2 DEF FieldsInv
    <3>3. CASE /\ UNCHANGED <<RUNNO, RUN_START_T, RunStatus>> /\ RUN_STOP_T' = runinfo.number
               /\ RUN_START_T = runinfo.number /\ RUNNO = runinfo.number
      BY <1>0, <1>1, <2>1, <3>3 DEF FieldsInv
    <3>4. CASE /\ UNCHANGED <<RUNNO, RUN_START_T, RUN_STOP_T>> /\ RunStatus' \in {"RUNNING", "STOPPED"}
               /\ RUN_START_T = runinfo.number /\ RUNNO = runinfo.number
      BY <1>0, <1>1, <2>1, <3>4 DEF FieldsInv
    <3>5. CASE HandleBeginRun
      BY <1>0, <1>1, <3>1, <3>2, <3>4, <3>5 DEF HandleBeginRun, HandlerInv
    <3>6. CASE HandleEndRun
      <4>1. runinfo.stop = runinfo.number
        BY <1>0, <3>6 DEF HandleEndRun, HandlerInv, RunInfoInv
      <4> QED BY <1>0, <1>1, <3>1, <3>2, <3>3, <3>4, <3>6, <4>1 DEF HandleEndRun, HandlerInv
    <3> QED BY <1>4, <3>5, <3>6
  <2>4. HandlerInv'
    <3>1. CASE HandleBeginRun
      BY <1>0, <1>1, <3>1 DEF HandleBeginRun, HandlerInv, Handlers
    <3>2. CASE HandleEndRun
      <4>1. runinfo.stop = runinfo.number
        BY <1>0, <3>2 DEF HandleEndRun, HandlerInv, RunInfoInv
      <4> QED BY <1>0, <1>1, <3>2, <4>1 DEF HandleEndRun, HandlerInv, Handlers
    <3> QED BY <1>4, <3>1, <3>2
  <2>5. RunCurrent'
    <3>1. CASE midas = "begin status"
      BY <1>0, <1>1, <1>4, <3>1 DEF HandleBeginRun, HandleEndRun, HandlerInv, RunCurrent
    <3>2. CASE midas = "end status"
      <4>1. runinfo.stop = runinfo.number
        BY <1>0, <3>2 DEF HandlerInv, RunInfoInv
      <4> QED BY <1>0, <1>1, <1>4, <3>2, <4>1 DEF HandleBeginRun, HandleEndRun, HandlerInv, RunCurrent
    <3>3. CASE midas \notin {"begin status", "end status"}
      BY <1>4, <3>3 DEF HandleBeginRun, HandleEndRun, RunCurrent
    <3> QED BY <3>1, <3>2, <3>3
  <2> QED BY <1>0, <2>1, <2>2, <2>3, <2>4, <2>5
<1> QED BY <1>2, <1>3, <1>4 DEF Transitions

LEMMA RunInvNext == RunInv /\ [Next]_vars => RunInv'
<1> SUFFICES ASSUME RunInv, [Next]_vars PROVE RunInv'
  OBVIOUS
<1>1. CASE Construct
  <2>0. ~registered
    BY <1>1 DEF Construct, Building, RunInv
  <2>1. /\ ~registered /\ UNCHANGED <<runinfo, midas, RunStatus>>
        /\ registered' \in BOOLEAN
        /\ Building' => ~registered'
    <3>1. CASE RegisterWorker
      BY <1>1, <2>0, <3>1 DEF Construct, RegisterWorker, fields, Building,
                              ConstructNumber, ConstructStart, ConstructStop
    <3>2. CASE ConstructNumber \/ ConstructStart \/ ConstructStop
      <4>1. UNCHANGED <<runinfo, midas, registered, RunStatus>>
        BY <3>2 DEF ConstructNumber, ConstructStart, ConstructStop
      <4>2. registered \in BOOLEAN
        BY DEF RunInv
      <4> QED BY <2>0, <4>1, <4>2
    <3> QED BY <1>1, <3>1, <3>2 DEF Construct
  <2>2. midas = "idle" /\ RunStatus = "UNKNOWN"
    BY <2>1 DEF RunInv
  <2>3. RunInfoInv' /\ HandlerInv' /\ RunCurrent'
    BY <2>1, <2>2 DEF RunInv, RunInfoInv, HandlerInv, RunCurrent
  <2>4. FieldsInv'
    <3>1. CASE ConstructNumber
      BY <2>2, <3>1 DEF ConstructNumber, RunInv, RunInfoInv, FieldsInv
    <3>2. CASE ConstructStart
      BY <2>2, <3>2 DEF ConstructStart, RunInv, RunInfoInv, FieldsInv
    <3>3. CASE ConstructStop
      BY <2>2, <3>3 DEF ConstructStop, RunInv, RunInfoInv, FieldsInv
    <3>4. CASE RegisterWorker
      BY <3>4 DEF RegisterWorker, fields, RunInv, FieldsInv
    <3> QED BY <1>1, <3>1, <3>2, <3>3, <3>4 DEF Construct
  <2> QED BY <2>1, <2>2, <2>3, <2>4 DEF RunInv
<1>2. CASE Stop
  <2>1. RunCrash /\ pc' = "down"
    BY <1>2 DEF Stop
  <2>2. RunInfoInv'
    BY <2>1 DEF RunCrash, RunInv, RunInfoInv
  <2>3. FieldsInv'
    BY <2>1 DEF RunCrash, RunInv, RunInfoInv, FieldsInv
  <2>4. HandlerInv'
    BY <2>1 DEF RunCrash, HandlerInv
  <2>5. RunCurrent'
    BY <2>1 DEF RunCrash, RunCurrent
  <2> QED BY <2>1, <2>2, <2>3, <2>4, <2>5 DEF RunCrash, RunInv
<1>3. CASE MidasThread /\ UNCHANGED pc
  BY <1>3, TransitionsKeepRunInv DEF MidasThread, RunInv, Building
<1>4. CASE UNCHANGED runVars /\ (UNCHANGED pc \/ (~Building /\ ~Building'))
  BY <1>4 DEF runVars, fields, Building, RunInv, RunInfoInv, FieldsInv, HandlerInv, RunCurrent
<1> QED BY <1>1, <1>2, <1>3, <1>4, RunSteps

LEMMA RunInvariant == Spec => []RunInv
BY RunInvInit, RunInvNext, PTL DEF Spec

\* A worker that has seen a transition never holds a field of a later run than one
\* written before it (HandleBeginRun, HandleEndRun), for any number of runs.
THEOREM FieldsAlwaysInOrder == Spec => []FieldsInOrder
<1>1. RunInv => FieldsInOrder
  BY DEF RunInv, FieldsInv, RunInfoInv, FieldsInOrder
<1> QED BY <1>1, RunInvariant, PTL

\* Between transitions it agrees with the ODB, but for the stop time.
THEOREM RunAlwaysCurrent == Spec => []RunCurrent
<1>1. RunInv => RunCurrent
  BY DEF RunInv
<1> QED BY <1>1, RunInvariant, PTL
-----------------------------------------------------------------------------
(* Sequences whose elements are of no particular set.                       *)

Elements(q) == {q[i] : i \in DOMAIN q}

LEMMA ElementsOfAppend ==
  ASSUME NEW S, NEW q \in Seq(S), NEW e
  PROVE  Elements(Append(q, e)) = Elements(q) \cup {e}
<1> DEFINE a == Append(q, e)
<1>1. Len(q) \in Nat /\ DOMAIN q = 1..Len(q) /\ DOMAIN a = 1..(Len(q) + 1)
  OBVIOUS
<1>2. a[Len(q) + 1] = e /\ \A i \in DOMAIN q : a[i] = q[i]
  OBVIOUS
<1> HIDE DEF a
<1>3. DOMAIN a = DOMAIN q \cup {Len(q) + 1}
  BY <1>1
<1>4. Elements(a) = {a[i] : i \in DOMAIN q} \cup {a[Len(q) + 1]}
  BY <1>3 DEF Elements
<1> QED BY <1>2, <1>4 DEF Elements, a

LEMMA SeqOfElements ==
  ASSUME NEW S, NEW q \in Seq(S)
  PROVE  q \in Seq(Elements(q))
BY DEF Elements

-----------------------------------------------------------------------------
(* The polling period.                                                      *)

LEMMA PeriodicitySteps ==
  ASSUME [Next]_vars
  PROVE  \/ Stop \/ UNCHANGED periodicityVars
         \/ \E prog : ProcessMessage(prog)
<1>1. CASE UNCHANGED vars
  BY <1>1 DEF vars, parts
<1>2. CASE Construct \/ InitWorker \/ Crash \/ MidasThread \/ OtherWorkers \/ Analyse
  BY <1>2 DEF Construct, InitWorker, Crash, MidasThread, OtherWorkers, Analyse
<1>3. CASE TcpThread
  <2>1. CASE Fatal \/ ScanNothing \/ Talk
    BY <2>1 DEF Fatal, ScanNothing, Talk
  <2>2. CASE PollNobody \/ Receive \/ SendEvent \/ SendReply
    BY <2>2 DEF PollNobody, Receive, SendEvent, SendReply
  <2>3. CASE BankTooBig \/ LogData \/ AnswerCommand \/ ChangeEventSize
    BY <2>3 DEF BankTooBig, LogData, AnswerCommand, ChangeEventSize
  <2>4. CASE Ignore \/ Save \/ Load \/ Scan \/ ReadFile
    BY <2>4 DEF Ignore, Save, Load, Scan, ReadFile
  <2> QED BY <1>3, <2>1, <2>2, <2>3, <2>4 DEF TcpThread
<1> QED BY <1>1, <1>2, <1>3 DEF Next

PollInv ==
  /\ RemoteCallers \in Seq(Callers) /\ IsFiniteSet(Callers)
  /\ fPeriod \in Nat /\ fNumberOfConnections \in Nat
  /\ SparePoll

LEMMA PollInvInit == PeriodicityInit => PollInv
<1> SUFFICES ASSUME PeriodicityInit PROVE PollInv
  OBVIOUS
<1>1. RemoteCallers = <<>> /\ fPeriod = 500 /\ fNumberOfConnections = 0
  BY DEF PeriodicityInit
<1>2. Callers = {}
  BY <1>1 DEF Callers
<1> QED BY <1>1, <1>2, FS_EmptySet DEF PollInv, SparePoll

\* What is left of a second, divided by the polls needed.
LEMMA Share ==
  ASSUME NEW k \in Nat, k # 0
  PROVE  1000 \div k \in Nat /\ (1000 \div k) * k <= 1000
OBVIOUS

LEMMA ProcessMessageKeepsPollInv ==
  ASSUME PollInv, NEW prog, ProcessMessage(prog)
  PROVE  PollInv'
<1>1. CASE prog \in Callers
  <2>1. UNCHANGED <<RemoteCallers, fNumberOfConnections>>
    BY <1>1 DEF ProcessMessage, AddRemoteCaller
  <2>2. fPeriod' = IF fPeriod * (fNumberOfConnections + 1) > 1000
                   THEN 1000 \div (fNumberOfConnections + 1) ELSE fPeriod
    BY <2>1 DEF ProcessMessage, UpdatePerodicity
  <2>3. fPeriod' = fPeriod
    BY <2>2 DEF PollInv, SparePoll
  <2> QED BY <2>1, <2>3 DEF PollInv, SparePoll, Callers
<1>2. CASE prog \notin Callers
  <2>1. /\ RemoteCallers' = Append(RemoteCallers, prog)
        /\ fNumberOfConnections' = fNumberOfConnections + 1
    BY <1>2 DEF ProcessMessage, AddRemoteCaller
  <2>2. Callers' = Callers \cup {prog}
    <3>1. Elements(RemoteCallers) = Callers /\ Elements(RemoteCallers') = Callers'
      BY DEF Elements, Callers
    <3> QED BY <2>1, <3>1, ElementsOfAppend DEF PollInv
  <2>3. IsFiniteSet(Callers') /\ Cardinality(Callers') = Cardinality(Callers) + 1
    BY <1>2, <2>2, FS_AddElement DEF PollInv
  <2>4. RemoteCallers' \in Seq(Callers')
    BY <2>1, <2>2 DEF PollInv
  <2>5. /\ fNumberOfConnections' \in Nat
        /\ fNumberOfConnections' = Cardinality(Callers')
    BY <2>1, <2>3 DEF PollInv, SparePoll
  <2>6. fPeriod' \in Nat /\ fPeriod' * (fNumberOfConnections' + 1) <= 1000
    <3> DEFINE k == fNumberOfConnections' + 1
    <3>1. k \in Nat /\ k # 0
      BY <2>5
    <3>2. fPeriod' = IF fPeriod * k > 1000 THEN 1000 \div k ELSE fPeriod
      BY DEF ProcessMessage, UpdatePerodicity
    <3> HIDE DEF k
    <3>3. CASE fPeriod * k > 1000
      BY <3>1, <3>2, <3>3, Share DEF k
    <3>4. CASE ~(fPeriod * k > 1000)
      <4>1. fPeriod \in Nat /\ fPeriod * k \in Nat
        BY <3>1 DEF PollInv
      <4> QED BY <3>2, <3>4, <4>1 DEF k
    <3> QED BY <3>3, <3>4
  <2> QED BY <2>3, <2>4, <2>5, <2>6 DEF PollInv, SparePoll
<1> QED BY <1>1, <1>2

LEMMA PollInvNext == PollInv /\ [Next]_vars => PollInv'
<1> SUFFICES ASSUME PollInv, [Next]_vars PROVE PollInv'
  OBVIOUS
<1>1. CASE Stop
  <2>1. RemoteCallers' = <<>> /\ fPeriod' = 500 /\ fNumberOfConnections' = 0
    BY <1>1 DEF Stop, PeriodicityCrash
  <2>2. Callers' = {}
    BY <2>1 DEF Callers
  <2> QED BY <2>1, <2>2, FS_EmptySet DEF PollInv, SparePoll
<1>2. CASE UNCHANGED periodicityVars
  BY <1>2 DEF periodicityVars, PollInv, SparePoll, Callers
<1>3. CASE \E prog : ProcessMessage(prog)
  BY <1>3, ProcessMessageKeepsPollInv
<1> QED BY <1>1, <1>2, <1>3, PeriodicitySteps

\* There always is a poll a second for every program that announced itself and one
\* more (UpdatePerodicity), and a program counts once (AddRemoteCaller), for any
\* number of programs and restarts.
THEOREM AlwaysSparePoll == Spec => []SparePoll
<1>1. Init => PollInv
  BY PollInvInit DEF Init
<1>2. PollInv => SparePoll
  BY DEF PollInv
<1> QED BY <1>1, <1>2, PollInvNext, PTL DEF Spec
-----------------------------------------------------------------------------
(* The reply: an item that tells an event size tells one of at most n.      *)

Bounded(items, n) ==
  /\ items \in Seq(Elements(items))
  /\ \A e \in Elements(items) : e.key = "EventSize" => e.value \in Nat /\ e.value <= n

LEMMA BoundedEmpty == ASSUME NEW n PROVE Bounded(<<>>, n)
BY DEF Bounded, Elements

LEMMA BoundedData ==
  ASSUME NEW n, NEW key, NEW value, key = "EventSize" => value \in Nat /\ value <= n
  PROVE  Bounded(Data(key, value), n)
<1> DEFINE e == [key |-> key, value |-> value]
<1>1. e.key = key /\ e.value = value
  OBVIOUS
<1> HIDE DEF e
<1>2. Elements(<<e>>) = {e} /\ <<e>> \in Seq({e})
  BY DEF Elements
<1>3. Data(key, value) = <<e>>
  BY DEF Data, e
<1> QED BY <1>1, <1>2, <1>3 DEF Bounded

LEMMA BoundedText ==
  ASSUME NEW n, NEW text
  PROVE  Bounded(Message(text), n) /\ Bounded(Error(text), n)
BY BoundedData DEF Message, Error

LEMMA BoundedConcat ==
  ASSUME NEW n, NEW s, NEW t, Bounded(s, n), Bounded(t, n)
  PROVE  Bounded(s \o t, n)
<1> DEFINE u == s \o t
           S == Elements(s) \cup Elements(t)
<1>1. s \in Seq(S) /\ t \in Seq(S)
  <2>1. s \in Seq(Elements(s)) /\ t \in Seq(Elements(t))
    BY DEF Bounded
  <2> HIDE DEF S
  <2>2. Elements(s) \subseteq S /\ Elements(t) \subseteq S
    BY DEF S
  <2> QED BY <2>1, <2>2
<1> HIDE DEF S
<1>2. u \in Seq(S)
  BY <1>1
<1>3. Elements(u) \subseteq S
  BY <1>2 DEF Elements
<1>4. u \in Seq(Elements(u))
  BY <1>2, SeqOfElements
<1> QED BY <1>3, <1>4 DEF Bounded, S

LEMMA BoundedMore ==
  ASSUME NEW s, NEW m \in Nat, NEW n \in Nat, m <= n, Bounded(s, m)
  PROVE  Bounded(s, n)
BY DEF Bounded

-----------------------------------------------------------------------------
(* Event sizes.                                                             *)

Up == pc \notin {"down", "start", "stop", "register", "init"}
Handling == pc \in {"banks", "scan", "read", "event"}

Received(p, b) == \E m \in p.messages : \E i \in DOMAIN m.banks : b = m.banks[i]

\* The banks still to be handled are as they were received: one that was handled may
\* have been described.
LogInv ==
  /\ plan \in Traffic /\ log \in Seq(plan.messages) /\ next \in Nat \ {0}
  /\ Handling => log # <<>>
  /\ \A i \in DOMAIN banks : i \notin 1..(next - 1) => Received(plan, banks[i])

\* What a client was told or will be told is not more than the ODB holds; a running
\* worker goes by the ODB's size; and its buffer, which may be behind, was made after
\* the last reply.
SizeInv ==
  /\ BufferTypeOK /\ told \in Nat
  /\ told <= event_size
  /\ Bounded(JSONMessageQueue, event_size)
  /\ Up => fEventSize = event_size /\ buffer = lastEventSize /\ buffer <= fEventSize
  /\ Handling => told <= buffer

LEMMA ReceivedBanks ==
  ASSUME LogInv, NEW b, Received(plan, b)
  PROVE  IsBank(b) /\ (b.what \in {"save", "load"} => b.arg \in File)
BY TrafficAssumption DEF LogInv, Received, IsMessage

LEMMA LogInvNext == LogInv /\ [Next]_vars => LogInv'
<1> SUFFICES ASSUME LogInv, [Next]_vars PROVE LogInv'
  OBVIOUS
<1> USE DEF LogInv, Handling
<1>1. CASE UNCHANGED vars
  BY <1>1 DEF vars, threadVars, clientVars
<1>2. CASE Construct \/ InitWorker
  BY <1>2 DEF Construct, InitWorker, clientVars
<1>3. CASE MidasThread \/ OtherWorkers \/ Analyse
  BY <1>3 DEF MidasThread, OtherWorkers, Analyse, threadVars, clientVars
<1>4. CASE Stop
  BY <1>4 DEF Stop, clientVars
<1>5. CASE PollNobody
  BY <1>5 DEF PollNobody, threadVars, clientVars
<1>6. CASE Receive
  <2>1. PICK m \in plan.messages : log' = Append(log, m) /\ banks' = m.banks /\ next' = 1
    BY <1>6 DEF Receive
  <2>2. plan' = plan
    BY <1>6 DEF Receive
  <2>3. \A i \in DOMAIN banks' : Received(plan', banks'[i])
    BY <2>1, <2>2 DEF Received
  <2> QED BY <2>1, <2>2, <2>3
<1>7. CASE LogData
  <2>1. banks' = [banks EXCEPT ![next] = Described(@)] /\ next' = next + 1
    BY <1>7 DEF LogData, Done
  <2>2. \A i \in DOMAIN banks' : i \notin 1..(next' - 1) =>
          i \in DOMAIN banks /\ i \notin 1..(next - 1) /\ banks'[i] = banks[i]
    BY <2>1
  <2> QED BY <1>7, <2>1, <2>2 DEF LogData, Turn, Done, clientVars
<1>8. CASE BankTooBig \/ AnswerCommand \/ ChangeEventSize \/ Talk \/ Ignore \/ Save \/ ReadFile
  <2>1. /\ UNCHANGED <<plan, log, banks>> /\ next' = next + 1
        /\ Handling
    BY <1>8 DEF BankTooBig, AnswerCommand, ChangeEventSize, Talk, Ignore, Save, ReadFile,
                Turn, Done, clientVars
  <2>2. \A i : i \notin 1..(next' - 1) => i \notin 1..(next - 1)
    BY <2>1
  <2> QED BY <2>1, <2>2
<1>9. CASE Load \/ Scan \/ SendEvent \/ SendReply
  BY <1>9 DEF Load, Scan, SendEvent, SendReply, Turn, clientVars
<1> QED BY <1>1, <1>2, <1>3, <1>4, <1>5, <1>6, <1>7, <1>8, <1>9
       DEF Next, TcpThread, Crash, Fatal, ScanNothing

LEMMA BoundedReport ==
  ASSUME NEW n, NEW items, Bounded(items, n), Bounded(JSONMessageQueue, n), Report(items)
  PROVE  Bounded(JSONMessageQueue', n)
<1>1. Bounded(IF fDebugMode THEN Message("Received") ELSE <<>>, n)
  BY BoundedText, BoundedEmpty
<1> QED BY <1>1, BoundedConcat DEF Report, Queue

LEMMA AnswerBounded ==
  ASSUME SizeInv, Up, NEW command
  PROVE  Bounded(Answer(command), event_size)
<1>1. fEventSize \in Nat /\ fEventSize <= event_size
  BY DEF SizeInv, BufferTypeOK
<1> QED BY <1>1, BoundedData, BoundedEmpty DEF Answer

LEMMA SizeInvNext == LogInv /\ SizeInv /\ [Next]_vars => SizeInv'
<1> SUFFICES ASSUME LogInv, SizeInv, [Next]_vars PROVE SizeInv'
  OBVIOUS
<1>0. event_size \in Nat /\ fEventSize \in Nat /\ lastEventSize \in Nat /\ buffer \in Nat
      /\ told \in Nat
  BY DEF SizeInv, BufferTypeOK
<1>1. CASE UNCHANGED <<pc, told, bufferVars, JSONMessageQueue>>
  BY <1>1 DEF SizeInv, BufferTypeOK, bufferVars, Up, Handling
<1>2. CASE Construct
  BY <1>2 DEF Construct, clientVars, SizeInv, BufferTypeOK, bufferVars, Up, Handling
<1>3. CASE InitWorker
  BY <1>3 DEF InitWorker, MakeBuffer, clientVars, SizeInv, BufferTypeOK, Up, Handling
<1>4. CASE Stop
  BY <1>4, BoundedEmpty DEF Stop, BufferCrash, clientVars, SizeInv, BufferTypeOK, Up, Handling
<1>5. CASE PollNobody
  BY <1>5 DEF PollNobody, FlushBuffer, threadVars, clientVars, SizeInv, BufferTypeOK, Up, Handling
<1>6. CASE Receive
  <2>1. /\ FlushBuffer /\ pc = "poll" /\ UNCHANGED told /\ pc' \in {"event", "banks"}
    BY <1>6 DEF Receive
  <2>2. Bounded(JSONMessageQueue', event_size)
    <3>1. \/ JSONMessageQueue' = JSONMessageQueue \o Error("More bytes sent")
          \/ JSONMessageQueue' = JSONMessageQueue
      BY <1>6 DEF Receive, Queue
    <3>2. Bounded(JSONMessageQueue, event_size)
      BY DEF SizeInv
    <3>3. Bounded(JSONMessageQueue \o Error("More bytes sent"), event_size)
      BY <3>2, BoundedText, BoundedConcat
    <3> QED BY <3>1, <3>2, <3>3
  <2> QED BY <2>1, <2>2 DEF FlushBuffer, SizeInv, BufferTypeOK, Up, Handling
<1>7. CASE BankTooBig \/ LogData \/ AnswerCommand \/ Talk \/ Ignore \/ Save \/ Load \/ ReadFile
  <2>1. Up /\ Handling /\ Up' /\ Handling' /\ UNCHANGED <<told, bufferVars>>
    BY <1>7 DEF BankTooBig, LogData, AnswerCommand, Talk, Ignore, Save, Load, ReadFile, Turn, Done,
                clientVars, Up, Handling
  <2>2. Bounded(JSONMessageQueue, event_size)
    BY DEF SizeInv
  <2>3. Bounded(JSONMessageQueue', event_size)
    <3>1. CASE BankTooBig
      BY <2>2, <3>1, BoundedText, BoundedConcat DEF BankTooBig, Queue
    <3>2. CASE LogData \/ Talk \/ Ignore \/ Save \/ Load
      <4>1. Report(<<>>)
        BY <3>2 DEF LogData, Talk, Ignore, Save, Load
      <4> QED BY <2>2, <4>1, BoundedEmpty, BoundedReport
    <3>3. CASE AnswerCommand
      <4>1. Report(Answer(banks[next].eq))
        BY <3>3 DEF AnswerCommand
      <4>2. Bounded(Answer(banks[next].eq), event_size)
        BY <2>1, AnswerBounded
      <4> QED BY <2>2, <4>1, <4>2, BoundedReport
    <3>4. CASE ReadFile
      <4> DEFINE v == [file |-> banks[next].arg, time |-> chosen.time]
      <4>1. Bounded(Data("SettingsFile", v), event_size)
        <5> HIDE DEF v
        <5> QED BY BoundedData
      <4> QED BY <2>2, <3>4, <4>1, BoundedConcat DEF ReadFile, Queue
    <3> QED BY <1>7, <3>1, <3>2, <3>3, <3>4
  <2> QED BY <2>1, <2>3 DEF SizeInv, BufferTypeOK, bufferVars
<1>8. CASE ChangeEventSize
  <2>1. /\ Up /\ Handling /\ Up' /\ UNCHANGED <<told, lastEventSize, buffer>>
        /\ Report(<<>>) /\ SetEventSize(banks[next].arg) /\ banks[next].arg \in Int
    <3>1. IsBank(banks[next]) /\ banks[next].what = "command"
      BY <1>8, ReceivedBanks DEF ChangeEventSize, Turn, LogInv
    <3> QED BY <1>8, <3>1 DEF ChangeEventSize, SetEventSize, Turn, Done, clientVars, IsBank,
                              Up, Handling
  <2>2. event_size' \in Nat /\ fEventSize' = event_size' /\ event_size <= event_size'
    BY <1>0, <2>1, BufferAssumption DEF SetEventSize, Larger, SizeInv
  <2>3. Bounded(JSONMessageQueue', event_size')
    <3>1. Bounded(JSONMessageQueue', event_size)
      BY <2>1, BoundedEmpty, BoundedReport DEF SizeInv
    <3> QED BY <1>0, <2>2, <3>1, BoundedMore
  <2> QED BY <1>0, <2>1, <2>2, <2>3 DEF SizeInv, BufferTypeOK
<1>9. CASE Scan
  BY <1>9 DEF Scan, clientVars, SizeInv, BufferTypeOK, bufferVars, Up, Handling
<1>10. CASE SendEvent
  BY <1>10 DEF SendEvent, clientVars, SizeInv, BufferTypeOK, bufferVars, Up, Handling
<1>11. CASE SendReply
  <2>1. /\ pc = "reply" /\ pc' = "poll" /\ UNCHANGED bufferVars
        /\ JSONMessageQueue' = <<>>
        /\ reply' = JSONMessageQueue \o Message("DATA OK")
        /\ told' \in Sizes(reply') \cup {told} /\ \A s \in Sizes(reply') \cup {told} : s <= told'
    BY <1>11 DEF SendReply, ReadMessageQueue
  <2>2. Bounded(reply', event_size)
    BY <2>1, BoundedText, BoundedConcat DEF SizeInv
  <2>3. Sizes(reply') \subseteq {s \in Nat : s <= event_size}
    BY <2>2 DEF Sizes, Bounded, Elements
  <2>4. told' \in Nat /\ told' <= event_size
    BY <1>0, <2>1, <2>3 DEF SizeInv
  <2> QED BY <2>1, <2>4, BoundedEmpty DEF SizeInv, BufferTypeOK, bufferVars, Up, Handling
<1>12. CASE MidasThread \/ OtherWorkers \/ Analyse \/ UNCHANGED vars
  BY <1>1, <1>12 DEF MidasThread, OtherWorkers, Analyse, threadVars, clientVars, vars, parts
<1> QED BY <1>2, <1>3, <1>4, <1>5, <1>6, <1>7, <1>8, <1>9, <1>10, <1>11, <1>12
       DEF Next, TcpThread, Crash, Fatal, ScanNothing

LEMMA SizesAlways == Spec => [](LogInv /\ SizeInv)
<1>1. Init => LogInv
  BY DEF Init, LogInv, Handling
<1>2. Init => SizeInv
  BY BufferAssumption, BoundedEmpty DEF Init, BufferInit, SizeInv, BufferTypeOK, Up, Handling
<1> QED BY <1>1, <1>2, LogInvNext, SizeInvNext, PTL DEF Spec

\* A client that was once told an event size can rely on it from then on, after any
\* number of SET_EVENT_SIZE by anyone and after restarts: what leaves room for the
\* headers in that size fits the buffer it is read into and is not refused.
THEOREM ToldSizeAlwaysFits == Spec => []ToldSizeFits
<1>1. LogInv /\ SizeInv => ToldSizeFits
  <2> SUFFICES ASSUME LogInv, SizeInv, pc \in {"banks", "event"}, Last.size + Overhead <= told
               PROVE  Last.size + Overhead <= buffer /\ Last.size <= fEventSize
    BY DEF ToldSizeFits
  <2>1. Up /\ Handling
    BY DEF Up, Handling
  <2>2. Last.size \in Nat
    <3>1. Last \in plan.messages
      BY <2>1 DEF LogInv, Last
    <3> QED BY <3>1, TrafficAssumption DEF LogInv, IsMessage
  <2>3. /\ told \in Nat /\ buffer \in Nat /\ fEventSize \in Nat
        /\ told <= buffer /\ buffer <= fEventSize
    BY <2>1 DEF SizeInv, BufferTypeOK
  <2> QED BY <2>2, <2>3, BufferAssumption
<1> QED BY <1>1, SizesAlways, PTL
-----------------------------------------------------------------------------
(* Settings files.                                                          *)

\* While a LOAD goes on: what it found at its start is still there and, unless another
\* worker's LOAD began, the shared string still holds its name; what was chosen by
\* them is as LoadsCurrent says.
LoadInv ==
  /\ files \subseteq Revision /\ found \subseteq files /\ clock \in 0..MaxTime
  /\ pc \in {"scan", "read"} /\ ~overtaken => find_filename = banks[next].arg
  /\ LoadsCurrent

LEMMA LoadInvNext == LogInv /\ LoadInv /\ [Next]_vars => LoadInv'
<1> SUFFICES ASSUME LogInv, LoadInv, [Next]_vars PROVE LoadInv'
  OBVIOUS
<1>1. CASE UNCHANGED settingsVars /\ pc' \notin {"scan", "read"}
  BY <1>1 DEF settingsVars, LoadInv, LoadsCurrent
<1>2. CASE UNCHANGED <<settingsVars, pc, banks, next>>
  BY <1>2 DEF settingsVars, LoadInv, LoadsCurrent
<1>3. CASE Save
  <2>1. pc' = "banks" /\ SaveSettingsFile(banks[next].arg) /\ banks[next].arg \in File
    BY <1>3, ReceivedBanks DEF Save, Turn, Done, LogInv
  <2>2. /\ files' \subseteq Revision /\ clock' \in 0..MaxTime
        /\ found' = found /\ files \subseteq files'
    BY <2>1, FileAssumption DEF SaveSettingsFile, LoadInv, Revision
  <2> QED BY <2>1, <2>2 DEF LoadInv, LoadsCurrent
<1>4. CASE Load
  <2>1. pc' = "scan" /\ UNCHANGED <<banks, next, files>> /\ FindFilename(banks[next].arg)
    BY <1>4 DEF Load, FindFilename
  <2> QED BY <2>1 DEF FindFilename, LoadInv, LoadsCurrent
<1>5. CASE Scan
  <2>1. pc = "scan" /\ Choose /\ UNCHANGED <<banks, next>>
    BY <1>5 DEF Scan
  <2>2. /\ chosen' \in LastOf(find_filename)
        /\ UNCHANGED <<files, found, clock, find_filename, overtaken>>
    BY <2>1 DEF Choose
  <2>3. \A r \in found : r.file = chosen'.file => r.time <= chosen'.time
    BY <2>2 DEF LastOf, nameFilter, LoadInv
  <2>4. chosen'.file = find_filename \/ <<find_filename, chosen'.file>> \in Extensions
    BY <2>2 DEF LastOf, nameFilter
  <2>5. overtaken \/ find_filename = banks[next].arg
    BY <2>1 DEF LoadInv
  <2>6. LoadsCurrent'
    BY <2>1, <2>2, <2>3, <2>4, <2>5 DEF LoadsCurrent
  <2> QED BY <2>1, <2>2, <2>6 DEF LoadInv
<1>6. CASE OtherWorkers
  <2>1. UNCHANGED <<pc, banks, next>> /\ (OtherSave \/ OtherLoad)
    BY <1>6 DEF OtherWorkers, threadVars
  <2>2. CASE OtherLoad
    BY <2>1, <2>2 DEF OtherLoad, LoadInv, LoadsCurrent
  <2>3. CASE OtherSave
    <3>1. PICK h \in File : SaveSettingsFile(h)
      BY <2>3 DEF OtherSave
    <3>2. files \subseteq files' /\ UNCHANGED <<find_filename, chosen, found, overtaken>>
      BY <3>1 DEF SaveSettingsFile
    <3>3. files' \subseteq Revision /\ clock' \in 0..MaxTime
      BY <3>1, FileAssumption DEF SaveSettingsFile, LoadInv, Revision
    <3> QED BY <2>1, <3>2, <3>3 DEF LoadInv, LoadsCurrent
  <2> QED BY <2>1, <2>2, <2>3
<1>7. CASE Construct \/ InitWorker \/ Stop
  BY <1>1, <1>7 DEF Construct, InitWorker, Stop
<1>8. CASE MidasThread \/ Analyse \/ UNCHANGED vars \/ PollNobody
  BY <1>2, <1>8 DEF MidasThread, Analyse, vars, parts, PollNobody, threadVars
<1>9. CASE Receive \/ BankTooBig \/ LogData \/ AnswerCommand \/ ChangeEventSize
  BY <1>1, <1>9 DEF Receive, BankTooBig, LogData, AnswerCommand, ChangeEventSize, Done
<1>10. CASE Talk \/ Ignore \/ ReadFile \/ SendEvent \/ SendReply
  BY <1>1, <1>10 DEF Talk, Ignore, ReadFile, SendEvent, SendReply, Done
<1> QED BY <1>3, <1>4, <1>5, <1>6, <1>7, <1>8, <1>9, <1>10
       DEF Next, TcpThread, Crash, Fatal, ScanNothing

\* Whoever saves and loads in between, a LOAD reads the newest revision there was at
\* its start, or a newer one, of the file it reads, and that file is the one asked for
\* unless another worker's LOAD began meanwhile or the file's name begins with that of
\* the one asked for (LoadSettingsFile).
THEOREM AlwaysLoadsCurrent == Spec => []LoadsCurrent
<1>1. Init => LoadInv
  BY FileAssumption DEF Init, SettingsInit, LoadInv, LoadsCurrent
<1>2. LoadInv => LoadsCurrent
  BY DEF LoadInv
<1> QED BY <1>1, <1>2, LoadInvNext, SizesAlways, PTL DEF Spec
-----------------------------------------------------------------------------
(* The history.                                                             *)

LEMMA CellWritten ==
  ASSUME NEW S, NEW a \in Seq(S), NEW i \in 1..(Len(a) + 1), NEW v \in S, NEW blank
  PROVE  /\ WriteCell(a, i, v, blank) \in Seq(S)
         /\ Len(WriteCell(a, i, v, blank)) = (IF i > Len(a) THEN i ELSE Len(a))
         /\ WriteCell(a, i, v, blank)[i] = v
         /\ \A j \in 1..Len(a) : j # i => WriteCell(a, i, v, blank)[j] = a[j]
<1> DEFINE n == IF i > Len(a) THEN i ELSE Len(a)
           w == WriteCell(a, i, v, blank)
<1>1. n \in Nat /\ i \in 1..n /\ 1..Len(a) \subseteq 1..n
  OBVIOUS
<1>2. \A j \in 1..n : j # i => j \in 1..Len(a)
  OBVIOUS
<1>3. w = [j \in 1..n |-> IF j = i THEN v ELSE IF j <= Len(a) THEN a[j] ELSE blank]
  BY DEF WriteCell
<1> HIDE DEF n, w
<1>4. \A j \in 1..n : w[j] = IF j = i THEN v ELSE a[j]
  BY <1>1, <1>2, <1>3
<1>5. w \in [1..n -> S]
  BY <1>2, <1>3, <1>4
<1>6. w \in Seq(S) /\ Len(w) = n
  BY <1>1, <1>5
<1> QED BY <1>1, <1>4, <1>6 DEF n, w

IsVariable(v) ==
  /\ v = [cat |-> v.cat, var |-> v.var, period |-> v.period, last |-> v.last, host |-> v.host]
  /\ v.period \in Nat /\ v.last \in Int

\* The list, its times and the ODB's list go together; after a crash the ODB's list
\* is an old one until Init, before any bank is handled.
HistoryInv ==
  /\ fVariables \in Seq(Elements(fVariables)) /\ newest \in Seq(Int)
  /\ feVariables \in Seq(Elements(feVariables))
  /\ Len(newest) = Len(fVariables) /\ jumped \subseteq 1..Len(fVariables)
  /\ \A i \in 1..Len(fVariables) : IsVariable(fVariables[i])
  /\ VariablesListed
  /\ Up /\ fVariables = <<>> => feVariables = NoVariables
  /\ ~Up => fVariables = <<>>

\* Find: the variable of a bank is in the list once, or is to be added at its end.
LEMMA FindVariable ==
  ASSUME HistoryInv, NEW b
  PROVE  \/ /\ Find(b) \in 1..Len(fVariables)
            /\ IsMatch(fVariables[Find(b)], b)
            /\ Variable(b) = fVariables[Find(b)]
         \/ /\ Find(b) = Len(fVariables) + 1
            /\ \A i \in 1..Len(fVariables) : ~IsMatch(fVariables[i], b)
            /\ Variable(b) = NewVariable(b)
<1>1. Len(fVariables) \in Nat /\ DOMAIN fVariables = 1..Len(fVariables)
  BY DEF HistoryInv
<1>2. CASE \E i \in DOMAIN fVariables : IsMatch(fVariables[i], b)
  <2>1. PICK i \in DOMAIN fVariables : IsMatch(fVariables[i], b)
    BY <1>2
  <2>2. \A j \in 1..(i - 1) : j \in DOMAIN fVariables /\ j # i
    BY <1>1, <2>1
  <2>3. \A j \in 1..(i - 1) : ~IsMatch(fVariables[j], b)
    BY <2>1, <2>2 DEF IsMatch, HistoryInv, VariablesListed
  <2>4. Find(b) \in DOMAIN fVariables /\ IsMatch(fVariables[Find(b)], b)
    BY <1>2, <2>1, <2>3 DEF Find
  <2> QED BY <1>1, <2>4 DEF Variable
<1>3. CASE ~\E i \in DOMAIN fVariables : IsMatch(fVariables[i], b)
  <2>1. Find(b) = Len(fVariables) + 1
    BY <1>3 DEF Find
  <2>2. Find(b) \notin DOMAIN fVariables
    BY <1>1, <2>1
  <2> QED BY <1>1, <1>3, <2>1, <2>2 DEF Variable
<1> QED BY <1>2, <1>3

\* What is written back has the bank's name and the variable's period.
LEMMA UpdatedVariable ==
  ASSUME HistoryInv, NEW b, IsBank(b)
  PROVE  LET u == Updated(Variable(b), b)
         IN /\ IsVariable(u) /\ u.cat = b.cat /\ u.var = b.var
            /\ u.period = Variable(b).period /\ u.host = Variable(b).host
            /\ u.last = IF Variable(b).period = 0 \/ ToInt(b.time - Variable(b).last) < Variable(b).period
                        THEN Variable(b).last ELSE b.time
<1> DEFINE v == Variable(b)
           u == Updated(v, b)
<1>1. IsVariable(v) /\ v.cat = b.cat /\ v.var = b.var
  <2>1. CASE v = NewVariable(b)
    BY <2>1, HistoryAssumption DEF NewVariable, IsVariable, IsBank
  <2>2. CASE Find(b) \in 1..Len(fVariables) /\ IsMatch(fVariables[Find(b)], b)
             /\ v = fVariables[Find(b)]
    BY <2>2 DEF HistoryInv, IsMatch
  <2> QED BY <2>1, <2>2, FindVariable
<1> HIDE DEF v
<1>2. CASE v.period = 0 \/ ToInt(b.time - v.last) < v.period
  <2>1. u = v
    BY <1>2 DEF Updated
  <2> QED BY <1>1, <1>2, <2>1 DEF v
<1>3. CASE ~(v.period = 0 \/ ToInt(b.time - v.last) < v.period)
  <2>1. u = [v EXCEPT !.last = b.time]
    BY <1>3 DEF Updated
  <2>2. u = [cat |-> v.cat, var |-> v.var, period |-> v.period, last |-> b.time, host |-> v.host]
    BY <1>1, <2>1 DEF IsVariable
  <2>3. /\ u.cat = v.cat /\ u.var = v.var /\ u.period = v.period /\ u.last = b.time
        /\ u.host = v.host
    BY <2>2
  <2>4. IsVariable(u)
    BY <1>1, <2>2, <2>3 DEF IsVariable, IsBank
  <2> QED BY <1>1, <1>3, <2>3, <2>4 DEF v
<1> QED BY <1>2, <1>3

LEMMA UpdateKeepsHistoryInv ==
  ASSUME HistoryInv, Up, NEW b, IsBank(b), Update(b), Up'
  PROVE  HistoryInv'
<1> DEFINE i == Find(b)
           n == Len(fVariables)
           u == Updated(Variable(b), b)
           name(x) == <<x.cat, x.var>>
<1>1. /\ n \in Nat /\ DOMAIN fVariables = 1..n
      /\ i \in 1..(n + 1)
      /\ i \in 1..n => IsMatch(fVariables[i], b)
      /\ i \notin 1..n => i = n + 1 /\ \A j \in 1..n : ~IsMatch(fVariables[j], b)
  BY FindVariable DEF HistoryInv
<1>2. IsVariable(u) /\ u.cat = b.cat /\ u.var = b.var
  BY UpdatedVariable
<1> DEFINE m == IF i > n THEN i ELSE n
<1>3. /\ fVariables' \in Seq(Elements(fVariables) \cup {u})
      /\ Len(fVariables') = m
      /\ fVariables'[i] = u
      /\ \A j \in 1..n : j # i => fVariables'[j] = fVariables[j]
  <2> DEFINE S == Elements(fVariables) \cup {u}
  <2>1. fVariables \in Seq(S) /\ u \in S
    <3>1. fVariables \in Seq(Elements(fVariables)) /\ Elements(fVariables) \subseteq S
      BY DEF HistoryInv
    <3> HIDE DEF S, u
    <3>2. fVariables \in Seq(S)
      BY <3>1
    <3> QED BY <3>2 DEF S
  <2>2. PICK blank : fVariables' = WriteCell(fVariables, i, u, blank)
    BY DEF Update
  <2> HIDE DEF S, u, i
  <2>3. i \in 1..(Len(fVariables) + 1)
    BY <1>1
  <2>4. /\ fVariables' \in Seq(S)
        /\ Len(fVariables') = (IF i > Len(fVariables) THEN i ELSE Len(fVariables))
        /\ fVariables'[i] = u /\ \A j \in 1..Len(fVariables) : j # i => fVariables'[j] = fVariables[j]
    <3>1. /\ WriteCell(fVariables, i, u, blank) \in Seq(S)
          /\ Len(WriteCell(fVariables, i, u, blank)) = (IF i > Len(fVariables) THEN i ELSE Len(fVariables))
          /\ WriteCell(fVariables, i, u, blank)[i] = u
          /\ \A j \in 1..Len(fVariables) :
               j # i => WriteCell(fVariables, i, u, blank)[j] = fVariables[j]
      BY <2>1, <2>3, CellWritten, SMTT(30)
    <3> QED BY <2>2, <3>1
  <2> QED BY <2>4 DEF S
<1>4. newest' \in Seq(Int) /\ Len(newest') = m
  <2> DEFINE seen == IF i \notin DOMAIN fVariables \/ newest[i] < b.time THEN b.time ELSE newest[i]
  <2>1. newest' = WriteCell(newest, i, seen, 0)
    BY DEF Update
  <2>2. newest \in Seq(Int) /\ Len(newest) = n
    BY DEF HistoryInv
  <2>3. seen \in Int
    BY <1>1, <2>2 DEF IsBank
  <2> DEFINE S == Int
  <2>4. PICK x, blank : x \in S /\ newest' = WriteCell(newest, i, x, blank)
    BY <2>1, <2>3
  <2>7. newest \in Seq(S)
    BY <2>2
  <2> HIDE DEF i, S
  <2>5. i \in 1..(Len(newest) + 1)
    BY <1>1, <2>2
  <2>6. newest' \in Seq(S) /\ Len(newest') = (IF i > Len(newest) THEN i ELSE Len(newest))
    BY <2>4, <2>5, <2>7, CellWritten, SMTT(30)
  <2> QED BY <2>2, <2>6 DEF S
<1> HIDE DEF i, u
<1>5. /\ m \in Nat /\ 1..m = 1..n \cup {i} /\ m # 0
      /\ i \in 1..n => m = n
      /\ i \notin 1..n => m = n + 1
  <2>1. CASE i \in 1..n
    <3>0. n \in Nat /\ i \in Nat /\ i <= n /\ i # 0
      BY <1>1, <2>1
    <3>1. m = n /\ n # 0
      BY <3>0
    <3> HIDE DEF m, n
    <3> QED BY <1>1, <2>1, <3>1
  <2>2. CASE i \notin 1..n
    <3>1. m = n + 1 /\ i = n + 1
      BY <1>1, <2>2
    <3> HIDE DEF m, n
    <3>2. 1..(n + 1) = 1..n \cup {n + 1}
      BY <1>1
    <3> QED BY <1>1, <2>2, <3>1, <3>2
  <2> QED BY <2>1, <2>2
<1> HIDE DEF m, n
<1>6. fVariables' \in Seq(Elements(fVariables'))
  BY <1>3, SeqOfElements
<1>7. \A j \in 1..m : IsVariable(fVariables'[j])
  BY <1>2, <1>3, <1>5 DEF HistoryInv, n
<1>8. /\ name(fVariables'[i]) = <<b.cat, b.var>>
      /\ \A j \in 1..n : fVariables'[j].cat = fVariables[j].cat /\ fVariables'[j].var = fVariables[j].var
  BY <1>1, <1>2, <1>3 DEF IsMatch
<1>9. \A j, k \in 1..m :
        fVariables'[j].cat = fVariables'[k].cat /\ fVariables'[j].var = fVariables'[k].var => j = k
  <2>1. \A j, k \in 1..n :
          fVariables[j].cat = fVariables[k].cat /\ fVariables[j].var = fVariables[k].var => j = k
    BY <1>1 DEF HistoryInv, VariablesListed
  <2>2. CASE i \in 1..n
    BY <1>5, <1>8, <2>1, <2>2
  <2>3. CASE i \notin 1..n
    <3>1. \A j \in 1..n : ~(fVariables'[j].cat = b.cat /\ fVariables'[j].var = b.var)
      BY <1>1, <1>8, <2>3 DEF IsMatch
    <3>2. fVariables'[i].cat = b.cat /\ fVariables'[i].var = b.var
      BY <1>2, <1>3
    <3> QED BY <1>5, <1>8, <2>1, <3>1, <3>2
  <2> QED BY <2>2, <2>3
<1>10. /\ feVariables' \in Seq(Elements(feVariables'))
       /\ feVariables' = [j \in 1..m |-> name(fVariables'[j])]
  <2>1. CASE i \in 1..n
    <3>1. feVariables' = feVariables
      BY <1>1, <2>1 DEF Update, i
    <3>2. n # 0
      BY <1>1, <2>1
    <3>3. feVariables = [j \in 1..n |-> name(fVariables[j])]
      BY <1>1, <3>2 DEF HistoryInv, VariablesListed, n
    <3>4. feVariables' = [j \in 1..m |-> name(fVariables'[j])]
      BY <1>5, <1>8, <2>1, <3>1, <3>3
    <3> QED BY <3>1, <3>4 DEF HistoryInv
  <2>2. CASE i \notin 1..n
    <3> DEFINE e == <<b.cat, b.var>>
               S == Elements(feVariables) \cup {e}
    <3>1. PICK blank : feVariables' = WriteCell(feVariables, i, e, blank)
      BY <1>1, <2>2 DEF Update, i
    <3>2. feVariables \in Seq(S) /\ e \in S
      <4>1. feVariables \in Seq(Elements(feVariables)) /\ Elements(feVariables) \subseteq S
        BY DEF HistoryInv
      <4> HIDE DEF S, e
      <4>2. feVariables \in Seq(S)
        BY <4>1
      <4> QED BY <4>2 DEF S
    <3>3. \/ n = 0 /\ Len(feVariables) = 1
          \/ n # 0 /\ Len(feVariables) = n /\ \A j \in 1..n : feVariables[j] = name(fVariables[j])
      <4>1. CASE n = 0
        <5>1. fVariables = <<>>
          BY <4>1 DEF n, HistoryInv
        <5>2. feVariables = NoVariables
          BY <5>1 DEF HistoryInv
        <5> QED BY <4>1, <5>2 DEF NoVariables
      <4>2. CASE n # 0
        <5>1. feVariables = [j \in 1..n |-> name(fVariables[j])]
          BY <1>1, <4>2 DEF HistoryInv, VariablesListed, n
        <5> QED BY <1>1, <4>2, <5>1
      <4> QED BY <4>1, <4>2
    <3>4. i \in 1..(Len(feVariables) + 1) /\ i = n + 1
      BY <1>1, <2>2, <3>3
    <3> HIDE DEF S, e
    <3>5. /\ feVariables' \in Seq(S)
          /\ Len(feVariables') = (IF i > Len(feVariables) THEN i ELSE Len(feVariables))
          /\ feVariables'[i] = e /\ \A j \in 1..Len(feVariables) : j # i => feVariables'[j] = feVariables[j]
      BY <3>1, <3>2, <3>4, CellWritten, SMTT(30)
    <3>6. Len(feVariables') = m /\ DOMAIN feVariables' = 1..m
      BY <1>1, <1>5, <2>2, <3>3, <3>4, <3>5
    <3>7. \A j \in 1..m : feVariables'[j] = name(fVariables'[j])
      BY <1>1, <1>5, <1>8, <2>2, <3>3, <3>4, <3>5 DEF e
    <3>8. feVariables' = [j \in 1..m |-> feVariables'[j]]
      BY <3>5, <3>6
    <3> QED BY <3>5, <3>7, <3>8, SeqOfElements
  <2> QED BY <2>1, <2>2
<1>11. DOMAIN fVariables' = 1..m /\ fVariables' # <<>>
  BY <1>3, <1>5 DEF m
<1>12. VariablesListed'
  BY <1>9, <1>10, <1>11 DEF VariablesListed
<1>13. jumped' \subseteq 1..m
  <2>1. jumped' \subseteq jumped \cup {i}
    BY DEF Update, i
  <2>2. jumped \subseteq 1..n
    BY DEF HistoryInv, n
  <2> QED BY <1>5, <2>1, <2>2
<1> QED BY <1>3, <1>4, <1>6, <1>7, <1>10, <1>11, <1>12, <1>13 DEF HistoryInv

\* What a step may do to the history.
LEMMA HistorySteps ==
  ASSUME LogInv, [Next]_vars
  PROVE  \/ Stop
         \/ InitWorker
         \/ UNCHANGED historyVars /\ (Up <=> Up')
         \/ /\ Up /\ Up'
            /\ \E b : IsBank(b) /\ Received(plan, b) /\ Update(b)
<1>1. CASE LogData
  <2>1. Up /\ Up' /\ Update(banks[next])
    BY <1>1 DEF LogData, Turn, Done, Up
  <2>2. Received(plan, banks[next])
    BY <1>1 DEF LogData, Turn, LogInv
  <2> QED BY <2>1, <2>2, ReceivedBanks
<1>2. CASE Construct \/ MidasThread \/ OtherWorkers \/ Analyse \/ UNCHANGED vars
  BY <1>2 DEF Construct, MidasThread, OtherWorkers, Analyse, threadVars, vars, parts, Up
<1>3. CASE PollNobody \/ Receive \/ SendEvent \/ SendReply
  BY <1>3 DEF PollNobody, Receive, SendEvent, SendReply, threadVars, Up
<1>4. CASE BankTooBig \/ AnswerCommand \/ ChangeEventSize \/ Talk \/ Ignore
  BY <1>4 DEF BankTooBig, AnswerCommand, ChangeEventSize, Talk, Ignore, Turn, Done, Up
<1>5. CASE Save \/ Load \/ Scan \/ ReadFile
  BY <1>5 DEF Save, Load, Scan, ReadFile, Turn, Done, Up
<1> QED BY <1>1, <1>2, <1>3, <1>4, <1>5 DEF Next, TcpThread, Crash, Fatal, ScanNothing

LEMMA OneElement == ASSUME NEW e PROVE <<e>> \in Seq(Elements(<<e>>))
BY DEF Elements

LEMMA HistoryInvInit == Init => HistoryInv
<1> SUFFICES ASSUME Init PROVE HistoryInv
  OBVIOUS
<1>1. fVariables = <<>> /\ newest = <<>> /\ jumped = {} /\ feVariables = NoVariables /\ ~Up
  BY DEF Init, HistoryInit, Up
<1>2. PICK e : feVariables = <<e>>
  BY <1>1 DEF NoVariables
<1>3. feVariables \in Seq(Elements(feVariables))
  BY <1>2, OneElement
<1> QED BY <1>1, <1>3 DEF HistoryInv, VariablesListed, Elements

LEMMA HistoryInvNext == LogInv /\ HistoryInv /\ [Next]_vars => HistoryInv'
<1> SUFFICES ASSUME LogInv, HistoryInv, [Next]_vars PROVE HistoryInv'
  OBVIOUS
<1>1. CASE Stop
  <2>1. fVariables' = <<>> /\ newest' = <<>> /\ jumped' = {} /\ UNCHANGED feVariables /\ ~Up'
    BY <1>1 DEF Stop, HistoryCrash, Up
  <2> QED BY <2>1 DEF HistoryInv, VariablesListed, Elements
<1>2. CASE InitWorker
  <2>1. ~Up /\ feVariables' = NoVariables /\ UNCHANGED <<fVariables, newest, jumped>>
    BY <1>2 DEF InitWorker, ResetHistory, Up
  <2>2. fVariables = <<>>
    BY <2>1 DEF HistoryInv
  <2>3. PICK e : feVariables' = <<e>>
    BY <2>1 DEF NoVariables
  <2>4. feVariables' \in Seq(Elements(feVariables'))
    BY <2>3, OneElement
  <2> QED BY <2>1, <2>2, <2>4 DEF HistoryInv, VariablesListed, Elements
<1>3. CASE UNCHANGED historyVars /\ (Up <=> Up')
  BY <1>3 DEF historyVars, HistoryInv, VariablesListed
<1>4. CASE Up /\ Up' /\ \E b : IsBank(b) /\ Received(plan, b) /\ Update(b)
  BY <1>4, UpdateKeepsHistoryInv
<1> QED BY <1>1, <1>2, <1>3, <1>4, HistorySteps

LEMMA HistoryInvariant == Spec => []HistoryInv
BY HistoryInvInit, HistoryInvNext, SizesAlways, PTL DEF Spec

\* The ODB's list is the list in memory, each variable once, after any number of
\* banks and restarts (AddNewVariable, Init).
THEOREM VariablesAlwaysListed == Spec => []VariablesListed
<1>1. HistoryInv => VariablesListed
  BY DEF HistoryInv
<1> QED BY <1>1, HistoryInvariant, PTL

LEMMA UpdateKeepsFresh ==
  ASSUME HistoryInv, HistoryFresh, NEW b, IsBank(b), Update(b)
  PROVE  HistoryFresh'
<1> DEFINE i == Find(b)
           n == Len(fVariables)
           v == Variable(b)
           u == Updated(v, b)
           seen == IF i \notin DOMAIN fVariables \/ newest[i] < b.time THEN b.time ELSE newest[i]
           m == IF i > n THEN i ELSE n
<1>1. n \in Nat /\ DOMAIN fVariables = 1..n /\ Len(newest) = n /\ newest \in Seq(Int)
  BY DEF HistoryInv
<1>2. PICK none :
      /\ fVariables' = [j \in 1..m |-> IF j = i THEN u ELSE IF j <= n THEN fVariables[j] ELSE none]
      /\ newest' = [j \in 1..m |-> IF j = i THEN seen ELSE IF j <= n THEN newest[j] ELSE 0]
  BY <1>1 DEF Update, WriteCell
<1>3. \/ i \in 1..n /\ v = fVariables[i]
      \/ i = n + 1 /\ v.last = 0
  BY FindVariable DEF NewVariable
<1>4. b.time \in Int
  BY DEF IsBank
<1>5. IsVariable(u) /\ u.period = v.period
      /\ u.last = IF v.period = 0 \/ ToInt(b.time - v.last) < v.period THEN v.last ELSE b.time
  BY UpdatedVariable
<1>6. u.period \in Nat
  BY <1>5 DEF IsVariable
<1>7. v.last \in Int
  <2>1. CASE i \in 1..n /\ v = fVariables[i]
    BY <2>1 DEF HistoryInv, IsVariable
  <2> QED BY <1>3, <2>1
<1>8. jumped' = IF ToInt(b.time - v.last) = b.time - v.last THEN jumped ELSE jumped \cup {i}
  BY DEF Update, Fits
<1> HIDE DEF u, v, i
<1>9. i \notin jumped' /\ u.period # 0 => seen - u.last < u.period
  <2> SUFFICES ASSUME i \notin jumped', u.period # 0 PROVE seen - u.last < u.period
    OBVIOUS
  <2>1. i \notin jumped /\ ToInt(b.time - v.last) = b.time - v.last
    BY <1>8
  <2>2. u.last = IF b.time - v.last < u.period THEN v.last ELSE b.time
    BY <1>5, <2>1
  <2>3. CASE i \in 1..n
    <3>1. newest[i] \in Int /\ newest[i] - v.last < u.period
      BY <1>1, <1>3, <1>5, <1>6, <1>7, <2>1, <2>3 DEF HistoryFresh, Behind
    <3>2. seen = IF newest[i] < b.time THEN b.time ELSE newest[i]
      BY <1>1, <2>3
    <3> HIDE DEF seen
    <3> QED BY <1>4, <1>6, <1>7, <2>2, <3>1, <3>2
  <2>4. CASE i \notin 1..n
    <3>1. seen = b.time
      BY <1>1, <2>4
    <3> HIDE DEF seen
    <3> QED BY <1>4, <1>6, <1>7, <2>2, <3>1
  <2> QED BY <2>3, <2>4
<1>10. seen \in Int
  BY <1>1, <1>4
<1> HIDE DEF seen
<1>11. ASSUME NEW j \in 1..m
       PROVE  \/ j = i /\ fVariables'[j] = u /\ newest'[j] = seen
              \/ j \in 1..n /\ fVariables'[j] = fVariables[j] /\ newest'[j] = newest[j]
  <2>1. CASE j = i
    BY <1>2, <2>1
  <2>2. CASE j # i
    <3>1. j \in 1..n
      BY <1>1, <1>3, <2>2
    <3> HIDE DEF m
    <3> QED BY <1>1, <1>2, <2>2, <3>1
  <2> QED BY <2>1, <2>2
<1>12. DOMAIN fVariables' = 1..m /\ jumped \subseteq jumped'
  BY <1>2, <1>8
<1> HIDE DEF m
<1> SUFFICES ASSUME NEW j \in 1..m, j \notin jumped' PROVE ~Behind(j)'
  BY <1>12 DEF HistoryFresh
<1>13. CASE j = i /\ fVariables'[j] = u /\ newest'[j] = seen
  <2>1. u.last \in Int
    BY <1>5 DEF IsVariable
  <2> QED BY <1>6, <1>9, <1>10, <1>13, <2>1 DEF Behind
<1>14. CASE j \in 1..n /\ fVariables'[j] = fVariables[j] /\ newest'[j] = newest[j]
  <2>1. ~Behind(j)
    BY <1>1, <1>12, <1>14 DEF HistoryFresh
  <2> QED BY <1>14, <2>1 DEF Behind
<1> QED BY <1>11, <1>13, <1>14

LEMMA HistoryFreshNext == LogInv /\ HistoryInv /\ HistoryFresh /\ [Next]_vars => HistoryFresh'
<1> SUFFICES ASSUME LogInv, HistoryInv, HistoryFresh, [Next]_vars PROVE HistoryFresh'
  OBVIOUS
<1>1. CASE Stop
  BY <1>1 DEF Stop, HistoryCrash, HistoryFresh
<1>2. CASE InitWorker \/ UNCHANGED historyVars
  BY <1>2 DEF InitWorker, ResetHistory, historyVars, HistoryFresh, Behind
<1>3. ASSUME NEW b, IsBank(b), Received(plan, b), Update(b)
      PROVE  HistoryFresh'
  BY <1>3, UpdateKeepsFresh
<1> QED BY <1>1, <1>2, <1>3, HistorySteps

\* Whatever time stamps banks carry and in whatever order they come: of every variable
\* that is logged, the newest value handled is less than its period younger than the
\* one in the ODB, unless a bank of that very variable was further from the last one
\* written than an int can tell (HistoryVariable::Update).
THEOREM HistoryAlwaysFresh == Spec => []HistoryFresh
<1>1. Init => HistoryFresh
  BY DEF Init, HistoryInit, HistoryFresh
<1> QED BY <1>1, HistoryFreshNext, HistoryInvariant, SizesAlways, PTL DEF Spec

-----------------------------------------------------------------------------
(* Errors in the reply queue.                                               *)

LEMMA TailElements ==
  ASSUME NEW S, NEW q \in Seq(S), q # <<>>
  PROVE  /\ Elements(q) = {Head(q)} \cup Elements(Tail(q))
         /\ Tail(q) \in Seq(S)
<1>1. Len(q) \in Nat /\ Len(q) # 0 /\ DOMAIN q = 1..Len(q) /\ Head(q) = q[1]
  OBVIOUS
<1>2. DOMAIN Tail(q) = 1..(Len(q) - 1) /\ \A i \in 1..(Len(q) - 1) : Tail(q)[i] = q[i + 1]
  BY <1>1
<1>3. \A i \in 2..Len(q) : i - 1 \in 1..(Len(q) - 1) /\ q[i] = Tail(q)[i - 1]
  BY <1>1, <1>2
<1>4. \A e \in Elements(q) : e = Head(q) \/ e \in Elements(Tail(q))
  <2> TAKE e \in Elements(q)
  <2>1. PICK i \in 1..Len(q) : e = q[i]
    BY <1>1 DEF Elements
  <2>2. CASE i = 1
    BY <1>1, <2>1, <2>2
  <2>3. CASE i # 1
    <3>1. i \in 2..Len(q)
      BY <1>1, <2>1, <2>3
    <3>2. i - 1 \in DOMAIN Tail(q) /\ e = Tail(q)[i - 1]
      BY <1>2, <1>3, <2>1, <3>1
    <3> QED BY <3>2 DEF Elements
  <2> QED BY <2>2, <2>3
<1>5. \A e \in Elements(Tail(q)) : e \in Elements(q)
  BY <1>1, <1>2 DEF Elements
<1> QED BY <1>1, <1>4, <1>5 DEF Elements

LEMMA ElementsOfConcat ==
  ASSUME NEW S, NEW s \in Seq(S), NEW t \in Seq(S)
  PROVE  Elements(s \o t) = Elements(s) \cup Elements(t)
<1> DEFINE u == s \o t
<1>1. /\ Len(s) \in Nat /\ Len(t) \in Nat /\ DOMAIN s = 1..Len(s) /\ DOMAIN t = 1..Len(t)
      /\ DOMAIN u = 1..(Len(s) + Len(t))
  OBVIOUS
<1>2. \A i \in 1..Len(s) : i \in DOMAIN u /\ u[i] = s[i]
  BY <1>1
<1>3. \A i \in 1..Len(t) : Len(s) + i \in DOMAIN u /\ u[Len(s) + i] = t[i]
  BY <1>1
<1>4. \A i \in DOMAIN u : i \in 1..Len(s) \/ (i - Len(s) \in 1..Len(t) /\ i = Len(s) + (i - Len(s)))
  BY <1>1
<1> HIDE DEF u
<1>5. Elements(u) \subseteq Elements(s) \cup Elements(t)
  <2> SUFFICES ASSUME NEW i \in DOMAIN u PROVE u[i] \in Elements(s) \cup Elements(t)
    BY DEF Elements
  <2>1. CASE i \in 1..Len(s)
    BY <1>1, <1>2, <2>1 DEF Elements
  <2>2. CASE i \notin 1..Len(s)
    <3>1. PICK j \in 1..Len(t) : i = Len(s) + j
      BY <1>4, <2>2
    <3>2. u[i] = t[j]
      BY <1>3, <3>1
    <3> QED BY <1>1, <3>2 DEF Elements
  <2> QED BY <2>1, <2>2
<1>6. Elements(s) \subseteq Elements(u) /\ Elements(t) \subseteq Elements(u)
  BY <1>1, <1>2, <1>3 DEF Elements
<1> QED BY <1>5, <1>6 DEF u

\* A queue with an error in it keeps it until it is read out.
LEMMA FailedConcat ==
  ASSUME NEW s, NEW t, s \in Seq(Elements(s)), t \in Seq(Elements(t))
  PROVE  Failed(s \o t) <=> Failed(s) \/ Failed(t)
<1> DEFINE S == Elements(s) \cup Elements(t)
<1>1. s \in Seq(S) /\ t \in Seq(S)
  <2> HIDE DEF S
  <2>1. Elements(s) \subseteq S /\ Elements(t) \subseteq S
    BY DEF S
  <2> QED BY <2>1
<1> HIDE DEF S
<1>2. \A q : Failed(q) <=> \E e \in Elements(q) : e.key = "err"
  BY DEF Failed, Elements
<1> QED BY <1>1, <1>2, ElementsOfConcat

LEMMA FailedData ==
  ASSUME NEW key, NEW value
  PROVE  /\ Failed(Data(key, value)) <=> key = "err"
         /\ Data(key, value) \in Seq(Elements(Data(key, value)))
<1> DEFINE e == [key |-> key, value |-> value]
<1>1. e.key = key
  OBVIOUS
<1> HIDE DEF e
<1>2. Failed(<<e>>) <=> e.key = "err"
  BY DEF Failed
<1>3. Data(key, value) = <<e>>
  BY DEF Data, e
<1> QED BY <1>1, <1>2, <1>3, OneElement

-----------------------------------------------------------------------------
(* From the message to the trees.                                           *)

Clean == ~Failed(JSONMessageQueue)

Ours(b) == b.what = "data" /\ b.cat = THISHOST

\* The message in the buffer has the banks of the last message received, except that
\* banks already handled may have been described; while no error was reported, every
\* bank of the host's own that was handled has been.
MessageInv ==
  /\ JSONMessageQueue \in Seq(Elements(JSONMessageQueue))
  /\ pc = "event" => ~Clean
  /\ pc \in {"scan", "read"} => next \in DOMAIN banks /\ banks[next].what = "load"
  /\ Handling =>
       /\ IsMessage(Last)
       /\ DOMAIN banks = DOMAIN Last.banks /\ Len(banks) = Len(Last.banks)
       /\ \A i \in DOMAIN banks :
            /\ IsBank(banks[i]) /\ banks[i].what = Last.banks[i].what
            /\ banks[i].cat = Last.banks[i].cat /\ banks[i].var = Last.banks[i].var
       /\ Clean => \A i \in DOMAIN banks : i < next /\ Ours(banks[i]) => banks[i].eq = fHostName

\* The list of variables marks those that describe a host.
MarkInv == \A i \in 1..Len(fVariables) : fVariables[i].cat = THISHOST => fVariables[i].host

LEMMA LastReceived ==
  ASSUME LogInv, log # <<>>
  PROVE  Last \in plan.messages /\ IsMessage(Last)
<1>1. Last \in plan.messages
  BY DEF LogInv, Last
<1> QED BY <1>1, TrafficAssumption DEF LogInv

LEMMA HostOfVariable ==
  ASSUME HistoryInv, MarkInv, NEW b, b.cat = THISHOST, NewVariable(b).host
  PROVE  Variable(b).host
<1>1. CASE Variable(b) = NewVariable(b)
  BY <1>1
<1>2. CASE /\ Find(b) \in 1..Len(fVariables) /\ IsMatch(fVariables[Find(b)], b)
           /\ Variable(b) = fVariables[Find(b)]
  BY <1>2 DEF IsMatch, MarkInv
<1> QED BY <1>1, <1>2, FindVariable

LEMMA EmptyItems == <<>> \in Seq(Elements(<<>>))
BY DEF Elements

LEMMA QueueKeepsErrors ==
  ASSUME MessageInv, NEW items, items \in Seq(Elements(items)), Queue(items)
  PROVE  /\ JSONMessageQueue' \in Seq(Elements(JSONMessageQueue'))
         /\ Failed(items) \/ ~Clean => ~Clean'
<1> DEFINE q == JSONMessageQueue
           S == Elements(q) \cup Elements(items)
<1>1. q \in Seq(Elements(q))
  BY DEF MessageInv
<1>2. q \in Seq(S) /\ items \in Seq(S)
  <2>1. Elements(q) \subseteq S /\ Elements(items) \subseteq S
    OBVIOUS
  <2> HIDE DEF S
  <2> QED BY <1>1, <2>1
<1> HIDE DEF S
<1>3. q \o items \in Seq(S)
  BY <1>2
<1>4. q \o items \in Seq(Elements(q \o items))
  BY <1>3, SeqOfElements
<1>5. Failed(items) \/ Failed(q) => Failed(q \o items)
  BY <1>1, FailedConcat
<1> QED BY <1>4, <1>5 DEF Queue, Clean

LEMMA ReportKeepsErrors ==
  ASSUME MessageInv, NEW items, items \in Seq(Elements(items)), Report(items)
  PROVE  /\ JSONMessageQueue' \in Seq(Elements(JSONMessageQueue'))
         /\ Clean' => Clean
<1> DEFINE first == IF fDebugMode THEN Message("Received") ELSE <<>>
<1>1. first \in Seq(Elements(first))
  <2>1. Message("Received") \in Seq(Elements(Message("Received")))
    BY FailedData DEF Message
  <2> QED BY <2>1, EmptyItems
<1>2. first \o items \in Seq(Elements(first \o items))
  <2> DEFINE S == Elements(first) \cup Elements(items)
  <2> HIDE DEF first
  <2>1. Elements(first) \subseteq S /\ Elements(items) \subseteq S
    OBVIOUS
  <2> HIDE DEF S
  <2>2. first \in Seq(S) /\ items \in Seq(S)
    BY <1>1, <2>1
  <2>3. first \o items \in Seq(S)
    BY <2>2
  <2> QED BY <2>3, SeqOfElements
<1>3. Queue(first \o items)
  BY DEF Report
<1> QED BY <1>2, <1>3, QueueKeepsErrors

LEMMA AnswerItems == ASSUME NEW c PROVE Answer(c) \in Seq(Elements(Answer(c)))
BY FailedData, EmptyItems DEF Answer

\* Actions that take the next bank and leave it alone.
LEMMA BankLeftAlone ==
  ASSUME LogInv, MessageInv, UNCHANGED <<log, banks>>, next' = next + 1, Handling, pc' = "banks",
         JSONMessageQueue' \in Seq(Elements(JSONMessageQueue')),
         Clean' => Clean /\ next \in DOMAIN banks /\ banks[next].what # "data"
  PROVE  MessageInv'
<1>1. Last' = Last
  BY DEF Last
<1>2. Handling
  OBVIOUS
<1>3. DOMAIN banks = 1..Len(banks) /\ Len(banks) \in Nat
  BY <1>2 DEF MessageInv, IsMessage
<1>4. ASSUME Clean', NEW i \in DOMAIN banks, i < next + 1, Ours(banks[i])
      PROVE  banks[i].eq = fHostName
  <2>1. i # next
    BY <1>4 DEF Ours
  <2>2. i < next
    BY <1>3, <1>4, <2>1 DEF LogInv
  <2> QED BY <1>2, <1>4, <2>2 DEF MessageInv
<1> QED BY <1>1, <1>2, <1>4 DEF MessageInv, Handling

LEMMA MarkInvNext ==
  ASSUME LogInv, HistoryInv, MarkInv, [Next]_vars, HostsLog
  PROVE  MarkInv'
<1>1. CASE Stop
  BY <1>1 DEF Stop, HistoryCrash, MarkInv
<1>2. CASE InitWorker \/ UNCHANGED historyVars
  BY <1>2 DEF InitWorker, ResetHistory, historyVars, MarkInv
<1>3. ASSUME NEW b, IsBank(b), Received(plan, b), Update(b)
      PROVE  MarkInv'
  <2> DEFINE i == Find(b)
             n == Len(fVariables)
             u == Updated(Variable(b), b)
             m == IF i > n THEN i ELSE n
  <2>1. n \in Nat /\ (i \in 1..n \/ i = n + 1)
    BY FindVariable DEF HistoryInv
  <2>2. PICK none :
          fVariables' = [j \in 1..m |-> IF j = i THEN u ELSE IF j <= n THEN fVariables[j] ELSE none]
    BY <1>3 DEF Update, WriteCell
  <2>3. u.cat = b.cat /\ u.host = Variable(b).host
    BY <1>3, UpdatedVariable
  <2>4. u.cat = THISHOST => u.host
    <3>1. b.cat = THISHOST => NewVariable(b).host
      BY <1>3 DEF HostsLog, Received
    <3> QED BY <2>3, <3>1, HostOfVariable
  <2> HIDE DEF u, i
  <2>5. m \in Nat
    BY <2>1
  <2>6. Len(fVariables') = m
    <3> HIDE DEF m, n
    <3> QED BY <2>2, <2>5
  <2> SUFFICES ASSUME NEW j \in 1..m, fVariables'[j].cat = THISHOST PROVE fVariables'[j].host
    BY <2>6 DEF MarkInv
  <2>7. CASE j = i
    BY <2>2, <2>4, <2>7
  <2>8. CASE j # i
    <3>1. j \in 1..n
      BY <2>1, <2>8
    <3> HIDE DEF m
    <3>2. fVariables'[j] = fVariables[j]
      BY <2>1, <2>2, <2>8, <3>1
    <3> QED BY <3>1, <3>2 DEF MarkInv
  <2> QED BY <2>7, <2>8
<1> QED BY <1>1, <1>2, <1>3, HistorySteps

LEMMA MessageInvNext ==
  ASSUME LogInv, HistoryInv, MarkInv, MessageInv, HostsLog, [Next]_vars
  PROVE  MessageInv'
<1>1. CASE UNCHANGED <<log, pc, banks, next, JSONMessageQueue>>
  BY <1>1 DEF MessageInv, Handling, Clean, Last
<1>2. CASE UNCHANGED JSONMessageQueue /\ ~Handling'
  BY <1>2 DEF MessageInv, Handling
<1>3. CASE JSONMessageQueue' = <<>> /\ ~Handling'
  BY <1>3, EmptyItems DEF MessageInv, Handling
<1>4. CASE Receive
  <2>1. PICK m \in plan.messages :
          /\ log' = Append(log, m) /\ banks' = m.banks /\ next' = 1
          /\ \/ pc' = "event" /\ Queue(Error("More bytes sent"))
             \/ pc' = "banks" /\ UNCHANGED JSONMessageQueue
    BY <1>4 DEF Receive
  <2>2. IsMessage(m) /\ \A i \in DOMAIN m.banks : IsBank(m.banks[i])
    BY TrafficAssumption DEF LogInv, IsMessage
  <2>3. Last' = m
    <3>1. log \in Seq(plan.messages)
      BY DEF LogInv
    <3>2. Len(Append(log, m)) = Len(log) + 1 /\ Append(log, m)[Len(log) + 1] = m
      BY <3>1
    <3> QED BY <2>1, <3>2 DEF Last
  <2>4. /\ JSONMessageQueue' \in Seq(Elements(JSONMessageQueue'))
        /\ pc' = "event" => ~Clean'
    <3>1. CASE pc' = "event" /\ Queue(Error("More bytes sent"))
      BY <3>1, FailedData, QueueKeepsErrors DEF Error
    <3>2. CASE pc' = "banks" /\ UNCHANGED JSONMessageQueue
      BY <3>2 DEF MessageInv
    <3> QED BY <2>1, <3>1, <3>2
  <2>5. \A i \in DOMAIN banks' : ~(i < next')
    <3>1. DOMAIN banks' = 1..Len(banks') /\ Len(banks') \in Nat
      BY <2>1, <2>2 DEF IsMessage
    <3>2. \A i \in 1..Len(banks') : ~(i < 1)
      BY <3>1
    <3> QED BY <2>1, <3>1, <3>2
  <2> QED BY <2>1, <2>2, <2>3, <2>4, <2>5 DEF MessageInv
<1>5. CASE LogData
  <2> DEFINE b == banks[next]
  <2>1. /\ pc = "banks" /\ pc' = "banks" /\ next \in DOMAIN banks /\ next' = next + 1
        /\ b.what = "data" /\ banks' = [banks EXCEPT ![next] = Described(b)]
        /\ UNCHANGED <<log, plan>> /\ Report(<<>>)
    BY <1>5 DEF LogData, Turn, Done, clientVars
  <2>2. /\ Handling /\ IsBank(b) /\ Last' = Last
        /\ DOMAIN banks = 1..Len(banks) /\ Len(banks) \in Nat
    BY <2>1 DEF MessageInv, Handling, IsMessage, Last
  <2>3. /\ JSONMessageQueue' \in Seq(Elements(JSONMessageQueue')) /\ (Clean' => Clean)
    BY <2>1, EmptyItems, ReportKeepsErrors
  <2> DEFINE d == Described(b)
  <2>4. /\ IsBank(d) /\ d.what = b.what /\ d.cat = b.cat /\ d.var = b.var
        /\ d.eq = IF Variable(b).host THEN fHostName ELSE b.eq
    <3> HIDE DEF b
    <3>1. CASE Variable(b).host
      <4>1. d = [b EXCEPT !.eq = fHostName]
        BY <3>1 DEF Described
      <4>2. DOMAIN d = DOMAIN b /\ \A k \in DOMAIN b : k # "eq" => d[k] = b[k]
        BY <4>1
      <4> HIDE DEF d
      <4>3. IsBank(d) /\ d.what = b.what /\ d.cat = b.cat /\ d.var = b.var
        BY <2>2, <4>2 DEF IsBank
      <4>4. d.eq = fHostName
        BY <2>2, <4>1 DEF IsBank
      <4> QED BY <3>1, <4>3, <4>4
    <3>2. CASE ~Variable(b).host
      BY <2>2, <3>2 DEF Described
    <3> QED BY <3>1, <3>2
  <2>5. Ours(d) => d.eq = fHostName
    <3> SUFFICES ASSUME Ours(d) PROVE d.eq = fHostName
      OBVIOUS
    <3>1. b.cat = THISHOST
      BY <2>4 DEF Ours
    <3>2. Received(plan, b)
      BY <2>1 DEF LogInv
    <3>3. NewVariable(b).host
      BY <3>1, <3>2 DEF Received, HostsLog
    <3> QED BY <2>4, <3>1, <3>3, HostOfVariable
  <2>6. /\ banks'[next] = d /\ DOMAIN banks' = DOMAIN banks /\ Len(banks') = Len(banks)
        /\ \A i \in DOMAIN banks : i # next => banks'[i] = banks[i]
    BY <2>1, <2>2
  <2> HIDE DEF d, b
  <2>7. ASSUME NEW i \in DOMAIN banks
        PROVE  /\ IsBank(banks'[i]) /\ banks'[i].what = banks[i].what
               /\ banks'[i].cat = banks[i].cat /\ banks'[i].var = banks[i].var
    BY <2>2, <2>4, <2>6 DEF MessageInv, b
  <2>8. ASSUME Clean, NEW i \in DOMAIN banks, i < next + 1, Ours(banks'[i])
        PROVE  banks'[i].eq = fHostName
    <3>1. CASE i = next
      BY <2>5, <2>6, <2>8, <3>1
    <3>2. CASE i # next
      <4>1. i < next
        BY <2>2, <2>8, <3>2 DEF LogInv
      <4> QED BY <2>2, <2>6, <2>8, <3>2, <4>1 DEF MessageInv
    <3> QED BY <3>1, <3>2
  <2> QED BY <2>1, <2>2, <2>3, <2>6, <2>7, <2>8 DEF MessageInv
<1>6. CASE BankTooBig
  <2>1. UNCHANGED <<log, banks>> /\ next' = next + 1 /\ pc = "banks" /\ pc' = "banks"
        /\ Queue(Error("More bytes sent"))
    BY <1>6 DEF BankTooBig, Done, clientVars
  <2> QED BY <2>1, FailedData, QueueKeepsErrors, BankLeftAlone DEF Error, Handling
<1>7. CASE AnswerCommand \/ ChangeEventSize \/ Talk \/ Ignore \/ Save
  <2>1. UNCHANGED <<log, banks>> /\ next' = next + 1 /\ Handling /\ pc' = "banks"
        /\ next \in DOMAIN banks /\ banks[next].what # "data"
    BY <1>7 DEF AnswerCommand, ChangeEventSize, Talk, Ignore, Save, Turn, Done, clientVars,
                Handling
  <2>2. Report(<<>>) \/ Report(Answer(banks[next].eq))
    BY <1>7 DEF AnswerCommand, ChangeEventSize, Talk, Ignore, Save
  <2>3. JSONMessageQueue' \in Seq(Elements(JSONMessageQueue')) /\ (Clean' => Clean)
    BY <2>2, EmptyItems, AnswerItems, ReportKeepsErrors
  <2>4. Clean' => Clean /\ next \in DOMAIN banks /\ banks[next].what # "data"
    BY <2>1, <2>3
  <2> QED BY <2>1, <2>3, <2>4, BankLeftAlone
<1>8. CASE Load
  <2>1. /\ pc = "banks" /\ pc' = "scan" /\ UNCHANGED <<log, banks, next>> /\ Report(<<>>)
        /\ next \in DOMAIN banks /\ banks[next].what = "load"
    BY <1>8 DEF Load, Turn, clientVars
  <2>2. JSONMessageQueue' \in Seq(Elements(JSONMessageQueue')) /\ (Clean' => Clean)
    BY <2>1, EmptyItems, ReportKeepsErrors
  <2> QED BY <2>1, <2>2 DEF MessageInv, Handling, Last
<1>9. CASE Scan
  BY <1>9 DEF Scan, clientVars, MessageInv, Handling, Clean, Last
<1>10. CASE ReadFile
  <2>1. /\ UNCHANGED <<log, banks>> /\ next' = next + 1 /\ Handling /\ pc' = "banks"
        /\ next \in DOMAIN banks /\ banks[next].what # "data"
    BY <1>10 DEF ReadFile, Done, clientVars, Handling, MessageInv
  <2> DEFINE v == [file |-> banks[next].arg, time |-> chosen.time]
  <2>2. Queue(Data("SettingsFile", v))
    BY <1>10 DEF ReadFile
  <2> HIDE DEF v
  <2>3. JSONMessageQueue' \in Seq(Elements(JSONMessageQueue')) /\ (Clean' => Clean)
    BY <2>2, FailedData, QueueKeepsErrors
  <2>4. Clean' => Clean /\ next \in DOMAIN banks /\ banks[next].what # "data"
    BY <2>1, <2>3
  <2> QED BY <2>1, <2>3, <2>4, BankLeftAlone
<1>11. CASE Construct \/ InitWorker \/ SendEvent
  BY <1>2, <1>11 DEF Construct, InitWorker, SendEvent, Handling
<1>12. CASE SendReply \/ Stop
  BY <1>3, <1>12 DEF SendReply, ReadMessageQueue, Stop, Handling
<1>13. CASE PollNobody \/ MidasThread \/ OtherWorkers \/ Analyse \/ UNCHANGED vars
  BY <1>1, <1>13 DEF PollNobody, MidasThread, OtherWorkers, Analyse, threadVars, clientVars, vars, parts
<1> QED BY <1>4, <1>5, <1>6, <1>7, <1>8, <1>9, <1>10, <1>11, <1>12, <1>13
       DEF Next, TcpThread, Crash, Fatal, ScanNothing

\* A message's event is settled once nothing can be wrong with it any more: it was
\* answered without an error, or will be unless the process ends.
Settled(m) == \/ m \in answered \ refused
              \/ pc = "reply" /\ m = Len(log) /\ Clean

\* Banks that the analyser files where those of a message belong.
Right(bs, msg) ==
  /\ DOMAIN bs = DOMAIN msg.banks
  /\ \A i \in DOMAIN bs :
       /\ bs[i].what = msg.banks[i].what
       /\ bs[i].what = "data" => CombinedName(bs[i]) = Home(msg.banks[i])

\* The events and the rows are of messages received, and not of the one being handled;
\* those of settled messages are right; and of a settled message nothing is missing.
FiledInv ==
  /\ answered \subseteq 1..Len(log)
  /\ Handling \/ pc = "reply" => log # <<>> /\ Len(log) \notin answered
  /\ events \in Seq(Elements(events))
  /\ \A e \in Elements(events) :
       /\ e.msg \in 1..Len(log)
       /\ Handling => e.msg # Len(log)
       /\ Settled(e.msg) => Right(e.banks, log[e.msg])
  /\ \A n \in DOMAIN trees : \A row \in trees[n] :
       \E m \in 1..Len(log) : \E i :
         /\ row = <<m, i>>
         /\ Handling => m # Len(log)
         /\ Settled(m) /\ log[m].banks[i].what = "data" => n = Home(log[m].banks[i])
  /\ \A m : Settled(m) =>
       \/ \E e \in Elements(events) : e.msg = m
       \/ \A i \in DOMAIN log[m].banks : log[m].banks[i].what = "data" =>
            /\ Home(log[m].banks[i]) \in DOMAIN trees
            /\ <<m, i>> \in trees[Home(log[m].banks[i])]

LEMMA FiledIsFiled ==
  ASSUME FiledInv
  PROVE  AnsweredIsFiled
<1> SUFFICES ASSUME NEW m \in answered \ refused
             PROVE  \/ \E k \in DOMAIN events : events[k].msg = m
                    \/ \A i \in DOMAIN log[m].banks : log[m].banks[i].what = "data" =>
                         {n \in DOMAIN trees : <<m, i>> \in trees[n]} = {Home(log[m].banks[i])}
  BY DEF AnsweredIsFiled
<1>1. Settled(m)
  BY DEF Settled
<1>2. CASE \E e \in Elements(events) : e.msg = m
  BY <1>2 DEF Elements
<1>3. ASSUME NEW i \in DOMAIN log[m].banks, log[m].banks[i].what = "data",
             ~\E e \in Elements(events) : e.msg = m
      PROVE  {n \in DOMAIN trees : <<m, i>> \in trees[n]} = {Home(log[m].banks[i])}
  <2> DEFINE h == Home(log[m].banks[i])
  <2>1. h \in DOMAIN trees /\ <<m, i>> \in trees[h]
    BY <1>1, <1>3 DEF FiledInv
  <2>2. ASSUME NEW n \in DOMAIN trees, <<m, i>> \in trees[n]
        PROVE  n = h
    <3>1. PICK m1, i1 :
            /\ <<m, i>> = <<m1, i1>>
            /\ Settled(m1) /\ log[m1].banks[i1].what = "data" => n = Home(log[m1].banks[i1])
      BY <2>2 DEF FiledInv
    <3>2. m1 = m /\ i1 = i
      BY <3>1
    <3> QED BY <1>1, <1>3, <3>1, <3>2
  <2> QED BY <2>1, <2>2
<1> QED BY <1>2, <1>3

\* Steps that send no event, receive no message and answer none.
LEMMA FiledKept ==
  ASSUME FiledInv, UNCHANGED <<log, answered, refused, events, trees>>,
         pc' # "reply" \/ (UNCHANGED <<pc, JSONMessageQueue>>),
         Handling' => Handling
  PROVE  FiledInv'
<1>1. \A m : Settled(m)' => Settled(m)
  BY DEF Settled, Clean
<1>2. Handling' \/ pc' = "reply" => Handling \/ pc = "reply"
  OBVIOUS
<1> QED BY <1>1, <1>2 DEF FiledInv

LEMMA ReceiveKeepsFiled ==
  ASSUME LogInv, FiledInv, Receive
  PROVE  FiledInv'
<1>1. PICK m \in plan.messages : log' = Append(log, m)
  BY DEF Receive
<1>2. /\ UNCHANGED <<answered, refused, events, trees>> /\ pc' \in {"event", "banks"} /\ pc = "poll"
  BY DEF Receive, historyVars, settingsVars, analyserVars
<1>3. /\ Len(log) \in Nat /\ Len(log') = Len(log) + 1 /\ log' # <<>>
      /\ \A k \in 1..Len(log) : log'[k] = log[k]
  <2>1. log \in Seq(plan.messages)
    BY DEF LogInv
  <2> QED BY <1>1, <2>1
<1>4. \A k \in 1..Len(log) : k \in 1..Len(log') /\ k # Len(log')
  BY <1>3
<1>5. Len(log') \notin 1..Len(log)
  BY <1>3
<1>6. \A k : Settled(k)' => Settled(k) /\ k \in 1..Len(log)
  BY <1>2 DEF Settled, FiledInv
<1>7. answered' \subseteq 1..Len(log') /\ Len(log') \notin answered'
  BY <1>2, <1>4, <1>5 DEF FiledInv
<1>8. \A e \in Elements(events) :
        /\ e.msg \in 1..Len(log') /\ e.msg # Len(log')
        /\ Settled(e.msg)' => Right(e.banks, log'[e.msg])
  BY <1>3, <1>4, <1>6 DEF FiledInv
<1>9. ASSUME NEW n \in DOMAIN trees, NEW row \in trees[n]
      PROVE  \E k \in 1..Len(log') : \E i :
               /\ row = <<k, i>> /\ k # Len(log')
               /\ Settled(k)' /\ log'[k].banks[i].what = "data" => n = Home(log'[k].banks[i])
  <2>1. PICK k, i : /\ k \in 1..Len(log) /\ row = <<k, i>>
                    /\ Settled(k) /\ log[k].banks[i].what = "data" => n = Home(log[k].banks[i])
    BY <1>9 DEF FiledInv
  <2> QED BY <1>3, <1>4, <1>6, <2>1
<1>10. ASSUME NEW k, Settled(k)'
       PROVE  \/ \E e \in Elements(events) : e.msg = k
              \/ \A i \in DOMAIN log'[k].banks : log'[k].banks[i].what = "data" =>
                   /\ Home(log'[k].banks[i]) \in DOMAIN trees
                   /\ <<k, i>> \in trees[Home(log'[k].banks[i])]
  <2>1. Settled(k) /\ log'[k] = log[k]
    BY <1>3, <1>6, <1>10
  <2> QED BY <2>1 DEF FiledInv
<1> QED BY <1>2, <1>3, <1>7, <1>8, <1>9, <1>10 DEF FiledInv

LEMMA SendReplyKeepsFiled ==
  ASSUME LogInv, MessageInv, FiledInv, SendReply
  PROVE  FiledInv'
<1>1. /\ UNCHANGED <<log, events, trees>> /\ pc = "reply" /\ pc' = "poll"
      /\ reply' = JSONMessageQueue \o Message("DATA OK")
      /\ answered' = answered \cup {Len(log)}
      /\ refused' = IF Failed(reply') THEN refused \cup {Len(log)} ELSE refused
  BY DEF SendReply, analyserVars
<1>2. Len(log) \in 1..Len(log)
  <2>1. log \in Seq(plan.messages) /\ log # <<>>
    BY <1>1 DEF LogInv, FiledInv
  <2> QED BY <2>1
<1>3. Failed(JSONMessageQueue) => Failed(reply')
  BY <1>1, FailedData, FailedConcat DEF Message, MessageInv
<1>4. \A k : Settled(k)' => Settled(k)
  BY <1>1, <1>3 DEF Settled, Clean
<1>5. ~Handling' /\ pc' # "reply"
  BY <1>1 DEF Handling
<1>6. answered' \subseteq 1..Len(log)
  BY <1>1, <1>2 DEF FiledInv
<1>7. \A e \in Elements(events) :
        e.msg \in 1..Len(log) /\ (Settled(e.msg)' => Right(e.banks, log[e.msg]))
  BY <1>4 DEF FiledInv
<1>8. \A n \in DOMAIN trees : \A row \in trees[n] :
        \E m \in 1..Len(log) : \E i :
          /\ row = <<m, i>>
          /\ Settled(m)' /\ log[m].banks[i].what = "data" => n = Home(log[m].banks[i])
  <2> TAKE n \in DOMAIN trees
  <2> TAKE row \in trees[n]
  <2>1. PICK m, i : /\ m \in 1..Len(log) /\ row = <<m, i>>
                    /\ Settled(m) /\ log[m].banks[i].what = "data" => n = Home(log[m].banks[i])
    BY DEF FiledInv
  <2> QED BY <1>4, <2>1
<1>9. ASSUME NEW m, Settled(m)'
      PROVE  \/ \E e \in Elements(events) : e.msg = m
             \/ \A i \in DOMAIN log[m].banks : log[m].banks[i].what = "data" =>
                  /\ Home(log[m].banks[i]) \in DOMAIN trees
                  /\ <<m, i>> \in trees[Home(log[m].banks[i])]
  BY <1>4, <1>9 DEF FiledInv
<1>10. events \in Seq(Elements(events))
  BY DEF FiledInv
<1>11. UNCHANGED <<log, events, trees>>
  BY <1>1
<1> QED BY <1>5, <1>6, <1>7, <1>8, <1>9, <1>10, <1>11 DEF FiledInv

\* What was sent without an error has its names: the analyser will file it where its
\* message belongs.
LEMMA DescribedIsRight ==
  ASSUME LogInv, MessageInv, pc = "banks", next > Len(banks), Clean
  PROVE  Right(banks, Last)
<1>1. Handling
  BY DEF Handling
<1>2. DOMAIN banks = 1..Len(banks) /\ Len(banks) \in Nat /\ DOMAIN banks = DOMAIN Last.banks
  BY <1>1 DEF MessageInv, IsMessage
<1>3. ASSUME NEW i \in DOMAIN banks
      PROVE  /\ banks[i].what = Last.banks[i].what
             /\ banks[i].what = "data" => CombinedName(banks[i]) = Home(Last.banks[i])
  <2>1. /\ banks[i].what = Last.banks[i].what
        /\ banks[i].cat = Last.banks[i].cat /\ banks[i].var = Last.banks[i].var
    BY <1>1 DEF MessageInv
  <2>2. i < next
    BY <1>2 DEF LogInv
  <2>3. banks[i].what = "data" /\ banks[i].cat = THISHOST => banks[i].eq = fHostName
    BY <1>1, <2>2 DEF MessageInv, Ours
  <2> QED BY <2>1, <2>3 DEF CombinedName, Home
<1> QED BY <1>2, <1>3 DEF Right

LEMMA SendEventKeepsFiled ==
  ASSUME LogInv, MessageInv, FiledInv, SendEvent
  PROVE  FiledInv'
<1> DEFINE e == [msg |-> Len(log), banks |-> banks]
<1>1. /\ UNCHANGED <<log, answered, refused, trees, JSONMessageQueue>> /\ pc' = "reply"
      /\ events' = Append(events, e)
      /\ pc = "event" \/ (pc = "banks" /\ next > Len(banks))
  BY DEF SendEvent, clientVars
<1>2. Handling /\ ~Handling'
  BY <1>1 DEF Handling
<1>3. e.msg = Len(log) /\ e.banks = banks
  OBVIOUS
<1> HIDE DEF e
<1>4. Len(log) \in 1..Len(log) /\ log # <<>>
  <2>1. log \in Seq(plan.messages) /\ log # <<>>
    BY <1>2 DEF LogInv, FiledInv
  <2> QED BY <2>1
<1>5. Elements(events') = Elements(events) \cup {e} /\ events' \in Seq(Elements(events'))
  <2>1. Elements(events') = Elements(events) \cup {e}
    BY <1>1, ElementsOfAppend DEF FiledInv
  <2> DEFINE S == Elements(events) \cup {e}
  <2>2. events \in Seq(Elements(events)) /\ Elements(events) \subseteq S /\ e \in S
    BY DEF FiledInv
  <2> HIDE DEF S
  <2>3. events \in Seq(S)
    BY <2>2
  <2>4. events' \in Seq(S)
    BY <1>1, <2>2, <2>3
  <2> QED BY <2>1, <2>4 DEF S
<1>6. Len(log) \notin answered
  BY <1>2 DEF FiledInv
<1>7. Settled(Len(log))' => Right(banks, log[Len(log)])
  <2>1. Settled(Len(log))' => Clean
    BY <1>1, <1>6 DEF Settled, Clean
  <2>2. Clean => pc = "banks" /\ next > Len(banks)
    BY <1>1 DEF MessageInv
  <2> QED BY <2>1, <2>2, DescribedIsRight DEF Last
<1>8. \A k : k # Len(log) /\ Settled(k)' => Settled(k)
  BY <1>1 DEF Settled
<1>9. \A x \in Elements(events') :
        x.msg \in 1..Len(log) /\ (Settled(x.msg)' => Right(x.banks, log[x.msg]))
  <2> TAKE x \in Elements(events')
  <2>1. CASE x = e
    BY <1>1, <1>3, <1>4, <1>7, <2>1
  <2>2. CASE x \in Elements(events)
    BY <1>2, <1>8, <2>2 DEF FiledInv
  <2> QED BY <1>5, <2>1, <2>2
<1>10. \A n \in DOMAIN trees : \A row \in trees[n] :
         \E m \in 1..Len(log) : \E i :
           /\ row = <<m, i>>
           /\ Settled(m)' /\ log[m].banks[i].what = "data" => n = Home(log[m].banks[i])
  <2> TAKE n \in DOMAIN trees
  <2> TAKE row \in trees[n]
  <2>1. PICK m, i : /\ m \in 1..Len(log) /\ row = <<m, i>> /\ m # Len(log)
                    /\ Settled(m) /\ log[m].banks[i].what = "data" => n = Home(log[m].banks[i])
    BY <1>2 DEF FiledInv
  <2> QED BY <1>8, <2>1
<1>11. ASSUME NEW m, Settled(m)'
       PROVE  \/ \E x \in Elements(events') : x.msg = m
              \/ \A i \in DOMAIN log[m].banks : log[m].banks[i].what = "data" =>
                   /\ Home(log[m].banks[i]) \in DOMAIN trees
                   /\ <<m, i>> \in trees[Home(log[m].banks[i])]
  <2>1. CASE m = Len(log)
    BY <1>3, <1>5, <2>1
  <2>2. CASE m # Len(log)
    BY <1>5, <1>8, <1>11, <2>2 DEF FiledInv
  <2> QED BY <2>1, <2>2
<1>12. answered \subseteq 1..Len(log)
  BY DEF FiledInv
<1> QED BY <1>1, <1>2, <1>4, <1>5, <1>6, <1>9, <1>10, <1>11, <1>12 DEF FiledInv

LEMMA AnalyseKeepsFiled ==
  ASSUME FiledInv, AnalyzeFlowEvent, UNCHANGED <<log, answered, refused, pc, JSONMessageQueue>>
  PROVE  FiledInv'
<1> DEFINE e == Head(events)
           names == {TreeName(e.banks[i]) : i \in Filled(e)}
<1>1. /\ events # <<>> /\ events' = Tail(events)
      /\ trees' = [n \in DOMAIN trees \cup names |-> Tree(n) \cup Rows(e, n)]
  BY DEF AnalyzeFlowEvent
<1>2. Elements(events) = {e} \cup Elements(events') /\ events' \in Seq(Elements(events'))
  BY <1>1, TailElements, SeqOfElements DEF FiledInv
<1> HIDE DEF e
<1>3. \A k : Settled(k)' <=> Settled(k)
  BY DEF Settled, Clean
<1>4. /\ e.msg \in 1..Len(log)
      /\ Handling => e.msg # Len(log)
      /\ Settled(e.msg) => Right(e.banks, log[e.msg])
  BY <1>2 DEF FiledInv
<1>5. \A x \in Elements(events') :
        /\ x.msg \in 1..Len(log)
        /\ Handling => x.msg # Len(log)
        /\ Settled(x.msg) => Right(x.banks, log[x.msg])
  BY <1>2 DEF FiledInv
<1>6. ASSUME NEW i \in DOMAIN e.banks, Settled(e.msg), log[e.msg].banks[i].what = "data"
      PROVE  TreeName(e.banks[i]) = Home(log[e.msg].banks[i])
  <2>1. e.banks[i].what = "data" /\ CombinedName(e.banks[i]) = Home(log[e.msg].banks[i])
    <3>1. Right(e.banks, log[e.msg])
      BY <1>4, <1>6
    <3>2. /\ e.banks[i].what = log[e.msg].banks[i].what
          /\ e.banks[i].what = "data" => CombinedName(e.banks[i]) = Home(log[e.msg].banks[i])
      BY <3>1, <1>6 DEF Right
    <3> QED BY <1>6, <3>2
  <2>2. e.banks[i].what # "file"
    BY <2>1
  <2> QED BY <2>1, <2>2 DEF TreeName
<1>7. ASSUME NEW n \in DOMAIN trees', NEW row \in trees'[n]
      PROVE  \E m \in 1..Len(log) : \E i :
               /\ row = <<m, i>>
               /\ Handling => m # Len(log)
               /\ Settled(m) /\ log[m].banks[i].what = "data" => n = Home(log[m].banks[i])
  <2>1. row \in Tree(n) \/ row \in Rows(e, n)
    BY <1>1, <1>7
  <2>2. CASE row \in Tree(n)
    <3>1. n \in DOMAIN trees /\ row \in trees[n]
      BY <2>2 DEF Tree
    <3> QED BY <3>1 DEF FiledInv
  <2>3. CASE row \in Rows(e, n)
    <3>1. PICK i \in DOMAIN e.banks : row = <<e.msg, i>> /\ TreeName(e.banks[i]) = n
      BY <2>3 DEF Rows, Filled
    <3> QED BY <1>4, <1>6, <3>1
  <2> QED BY <2>1, <2>2, <2>3
<1>8. \A n \in DOMAIN trees : n \in DOMAIN trees' /\ trees[n] \subseteq trees'[n]
  BY <1>1 DEF Tree
<1>9. ASSUME NEW m, Settled(m)
      PROVE  \/ \E x \in Elements(events') : x.msg = m
             \/ \A i \in DOMAIN log[m].banks : log[m].banks[i].what = "data" =>
                  /\ Home(log[m].banks[i]) \in DOMAIN trees'
                  /\ <<m, i>> \in trees'[Home(log[m].banks[i])]
  <2>1. CASE \E x \in Elements(events') : x.msg = m
    BY <2>1
  <2>2. CASE \A i \in DOMAIN log[m].banks : log[m].banks[i].what = "data" =>
               /\ Home(log[m].banks[i]) \in DOMAIN trees
               /\ <<m, i>> \in trees[Home(log[m].banks[i])]
    BY <1>8, <2>2
  <2>3. CASE e.msg = m
    <3> SUFFICES ASSUME NEW i \in DOMAIN log[m].banks, log[m].banks[i].what = "data"
                 PROVE  /\ Home(log[m].banks[i]) \in DOMAIN trees'
                        /\ <<m, i>> \in trees'[Home(log[m].banks[i])]
      OBVIOUS
    <3> DEFINE h == Home(log[m].banks[i])
    <3>1. i \in DOMAIN e.banks /\ TreeName(e.banks[i]) = h /\ e.banks[i].what = "data"
      BY <1>4, <1>6, <1>9, <2>3 DEF Right
    <3>2. h \in names /\ <<m, i>> \in Rows(e, h)
      BY <2>3, <3>1 DEF Rows, Filled
    <3> HIDE DEF h, names
    <3>3. h \in DOMAIN trees' /\ <<m, i>> \in trees'[h]
      BY <1>1, <3>2
    <3> QED BY <3>3 DEF h
  <2> QED BY <1>2, <1>9, <2>1, <2>2, <2>3 DEF FiledInv
<1>10. /\ answered \subseteq 1..Len(log)
       /\ Handling \/ pc = "reply" => log # <<>> /\ Len(log) \notin answered
  BY DEF FiledInv
<1>11. Handling' <=> Handling
  BY DEF Handling
<1> QED BY <1>2, <1>3, <1>5, <1>7, <1>9, <1>10, <1>11 DEF FiledInv

LEMMA PlanKept == ASSUME [Next]_vars PROVE plan' = plan
<1>1. CASE Construct \/ InitWorker \/ Stop
  BY <1>1 DEF Construct, InitWorker, Stop, clientVars
<1>2. CASE PollNobody \/ Receive \/ SendEvent \/ SendReply \/ UNCHANGED vars
  BY <1>2 DEF PollNobody, Receive, SendEvent, SendReply, clientVars, vars
<1>3. CASE MidasThread \/ OtherWorkers \/ Analyse
  BY <1>3 DEF MidasThread, OtherWorkers, Analyse, clientVars
<1>4. CASE BankTooBig \/ LogData \/ AnswerCommand \/ ChangeEventSize \/ Talk \/ Ignore
  BY <1>4 DEF BankTooBig, LogData, AnswerCommand, ChangeEventSize, Talk, Ignore, clientVars
<1>5. CASE Save \/ Load \/ Scan \/ ReadFile
  BY <1>5 DEF Save, Load, Scan, ReadFile, clientVars
<1> QED BY <1>1, <1>2, <1>3, <1>4, <1>5 DEF Next, TcpThread, Crash, Fatal, ScanNothing

LEMMA FiledInvNext ==
  ASSUME LogInv, MessageInv, FiledInv, [Next]_vars
  PROVE  FiledInv'
<1>1. CASE Receive
  BY <1>1, ReceiveKeepsFiled
<1>2. CASE SendEvent
  BY <1>2, SendEventKeepsFiled
<1>3. CASE SendReply
  BY <1>3, SendReplyKeepsFiled
<1>4. CASE Analyse
  BY <1>4, AnalyseKeepsFiled DEF Analyse, threadVars, clientVars
<1>5. CASE Construct \/ InitWorker \/ Stop
  BY <1>5, FiledKept DEF Construct, InitWorker, Stop, clientVars, analyserVars, Handling
<1>6. CASE PollNobody \/ MidasThread \/ OtherWorkers \/ UNCHANGED vars
  BY <1>6, FiledKept DEF PollNobody, MidasThread, OtherWorkers, threadVars, clientVars, analyserVars,
                         vars, parts, Handling
<1>7. CASE BankTooBig \/ LogData \/ AnswerCommand \/ ChangeEventSize \/ Talk \/ Ignore
  BY <1>7, FiledKept DEF BankTooBig, LogData, AnswerCommand, ChangeEventSize, Talk, Ignore, Turn, Done,
                         clientVars, analyserVars, Handling
<1>8. CASE Save \/ Load \/ Scan \/ ReadFile
  BY <1>8, FiledKept DEF Save, Load, Scan, ReadFile, Turn, Done, clientVars, analyserVars, Handling
<1> QED BY <1>1, <1>2, <1>3, <1>4, <1>5, <1>6, <1>7, <1>8
       DEF Next, TcpThread, Crash, Fatal, ScanNothing

\* What a session in which hosts log what they report keeps (HostsLog).
FileInv == HostsLog => MarkInv /\ MessageInv /\ FiledInv

LEMMA FileInvariant == Spec => []FileInv
<1>1. Init => FileInv
  <2> SUFFICES ASSUME Init PROVE MarkInv /\ MessageInv /\ FiledInv
    BY DEF FileInv
  <2>1. MarkInv
    BY DEF Init, HistoryInit, MarkInv
  <2>2. MessageInv
    BY EmptyItems DEF Init, MessageInv, Handling
  <2>3. FiledInv
    <3>1. Elements(events) = {} /\ events \in Seq(Elements(events))
      BY EmptyItems DEF Init, AnalyserInit, Elements
    <3>2. DOMAIN trees = {}
      BY DEF Init, AnalyserInit
    <3> QED BY <3>1, <3>2 DEF Init, FiledInv, Settled, Handling
  <2> QED BY <2>1, <2>2, <2>3
<1>2. LogInv /\ HistoryInv /\ FileInv /\ [Next]_vars => FileInv'
  <2> SUFFICES ASSUME LogInv, HistoryInv, FileInv, [Next]_vars, HostsLog' PROVE FileInv'
    BY DEF FileInv
  <2>1. plan' = plan
    BY PlanKept
  <2>2. HostsLog
    BY <2>1 DEF HostsLog
  <2> QED BY <2>2, MarkInvNext, MessageInvNext, FiledInvNext DEF FileInv
<1> QED BY <1>1, <1>2, HistoryInvariant, SizesAlways, PTL DEF Spec

\* The data of a message answered with DATA OK and no error are never lost, and are
\* filed under their host or category only, whatever ends the process and however late
\* the analyser runs (SendEvent before the reply, HistoryVariable::Update on the
\* buffer, SaveToTree).
THEOREM AnsweredAlwaysFiled == Spec => []AnsweredIsFiled
<1>1. FileInv => AnsweredIsFiled
  BY FiledIsFiled DEF FileInv, AnsweredIsFiled
<1> QED BY <1>1, FileInvariant, PTL

\* The banks of an event that a host sent about itself name the host.
Named(e) == \A i \in DOMAIN e.banks : Ours(e.banks[i]) => e.banks[i].eq = fHostName
EventsNamed == \A e \in Elements(events) : Named(e)

LEMMA EventsNamedNext ==
  ASSUME LogInv, MessageInv, FiledInv, Clean, EventsNamed, [Next]_vars
  PROVE  EventsNamed'
<1>1. CASE UNCHANGED events
  BY <1>1 DEF EventsNamed, Elements
<1>2. CASE SendEvent
  <2> DEFINE e == [msg |-> Len(log), banks |-> banks]
  <2>1. /\ events' = Append(events, e) /\ e.banks = banks
        /\ pc = "event" \/ (pc = "banks" /\ next > Len(banks))
    BY <1>2 DEF SendEvent
  <2> HIDE DEF e
  <2>2. Handling /\ next > Len(banks)
    BY <2>1 DEF MessageInv, Handling
  <2>3. DOMAIN banks = 1..Len(banks) /\ Len(banks) \in Nat /\ next \in Nat
    BY <2>2 DEF MessageInv, LogInv, IsMessage
  <2>4. Named(e)
    <3>1. \A i \in DOMAIN banks : i < next
      BY <2>2, <2>3
    <3> QED BY <2>1, <2>2, <3>1 DEF Named, MessageInv
  <2>5. Elements(events') = Elements(events) \cup {e}
    BY <2>1, ElementsOfAppend DEF FiledInv
  <2> QED BY <2>4, <2>5 DEF EventsNamed, Named
<1>3. CASE Analyse
  <2>1. events # <<>> /\ events' = Tail(events)
    BY <1>3 DEF Analyse, AnalyzeFlowEvent
  <2>2. Elements(events') \subseteq Elements(events)
    BY <2>1, TailElements DEF FiledInv
  <2> QED BY <2>2 DEF EventsNamed
<1>4. CASE BankTooBig \/ LogData \/ AnswerCommand \/ ChangeEventSize \/ Talk \/ Ignore
  BY <1>1, <1>4 DEF BankTooBig, LogData, AnswerCommand, ChangeEventSize, Talk, Ignore, analyserVars
<1>5. CASE Save \/ Load \/ Scan \/ ReadFile \/ Receive \/ SendReply \/ PollNobody
  BY <1>1, <1>5 DEF Save, Load, Scan, ReadFile, Receive, SendReply, PollNobody, analyserVars
<1>6. CASE Construct \/ InitWorker \/ Stop \/ MidasThread \/ OtherWorkers \/ UNCHANGED vars
  BY <1>1, <1>6 DEF Construct, InitWorker, Stop, MidasThread, OtherWorkers, vars, parts, analyserVars
<1> QED BY <1>2, <1>3, <1>4, <1>5, <1>6 DEF Next, TcpThread, Crash, Fatal, ScanNothing

\* Every event names its host if the variables a host reports about itself are logged
\* and nothing is refused for its size: a history period of 0 and a refusal are the
\* only ways to a bank without a name (HistoryVariable's constructor and Update,
\* HandleBank).
THEOREM HostsAlwaysNamed == Spec /\ []Clean => [](HostsLog => HostsNamed)
<1> DEFINE I == HostsLog => EventsNamed
<1>1. Init => I
  BY DEF Init, AnalyserInit, EventsNamed, Elements
<1>2. LogInv /\ FileInv /\ Clean /\ I /\ [Next]_vars => I'
  <2> SUFFICES ASSUME LogInv, FileInv, Clean, I, [Next]_vars, HostsLog' PROVE EventsNamed'
    OBVIOUS
  <2>1. HostsLog
    BY PlanKept DEF HostsLog
  <2> QED BY <2>1, EventsNamedNext DEF FileInv
<1>3. I => (HostsLog => HostsNamed)
  BY DEF EventsNamed, Named, Ours, Elements, HostsNamed
<1> HIDE DEF I
<1> QED BY <1>1, <1>2, <1>3, FileInvariant, SizesAlways, PTL DEF Spec
=============================================================================
