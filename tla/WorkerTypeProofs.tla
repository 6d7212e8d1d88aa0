-------------------------- MODULE WorkerTypeProofs --------------------------
(***************************************************************************)
(* The type invariant of a worker and its parts, from the invariants of    *)
(* modules WorkerProofs and WorkerReplyProofs: what they leave open is     *)
(* followed here, part by part.                                            *)
(***************************************************************************)
EXTENDS WorkerReplyProofs

-----------------------------------------------------------------------------
(* The keys of the queue.                                                   *)

Keyed(items) ==
  /\ items \in Seq(Elements(items))
  /\ \A e \in Elements(items) : e.key \in Keys

LEMMA KeyedData ==
  ASSUME NEW key \in Keys, NEW value
  PROVE  Keyed(Data(key, value))
<1> DEFINE e == [key |-> key, value |-> value]
<1>1. e.key = key
  OBVIOUS
<1> HIDE DEF e
<1>2. Elements(<<e>>) = {e} /\ <<e>> \in Seq({e})
  BY DEF Elements
<1>3. Data(key, value) = <<e>>
  BY DEF Data, e
<1> QED BY <1>1, <1>2, <1>3 DEF Keyed

LEMMA KeyedTexts ==
  /\ Keyed(<<>>)
  /\ \A text : Keyed(Message(text)) /\ Keyed(Error(text))
<1>1. Keyed(<<>>)
  BY EmptyItems DEF Keyed, Elements
<1>2. "msg" \in Keys /\ "err" \in Keys
  BY DEF Keys
<1> QED BY <1>1, <1>2, KeyedData DEF Message, Error

LEMMA KeyedConcat ==
  ASSUME NEW s, NEW t, Keyed(s), Keyed(t)
  PROVE  Keyed(s \o t)
<1> DEFINE S == Elements(s) \cup Elements(t)
<1>1. s \in Seq(S) /\ t \in Seq(S)
  <2>1. s \in Seq(Elements(s)) /\ t \in Seq(Elements(t))
    BY DEF Keyed
  <2>2. Elements(s) \subseteq S /\ Elements(t) \subseteq S
    OBVIOUS
  <2> HIDE DEF S
  <2> QED BY <2>1, <2>2
<1> HIDE DEF S
<1>2. Elements(s \o t) = Elements(s) \cup Elements(t)
  BY <1>1, ElementsOfConcat
<1>3. s \o t \in Seq(Elements(s \o t))
  <2>1. s \o t \in Seq(S)
    BY <1>1
  <2> QED BY <2>1, SeqOfElements
<1> QED BY <1>2, <1>3 DEF Keyed

LEMMA KeyedReport ==
  ASSUME NEW items, Keyed(items), Keyed(JSONMessageQueue), Report(items)
  PROVE  Keyed(JSONMessageQueue')
<1>1. Keyed(IF fDebugMode THEN Message("Received") ELSE <<>>)
  BY KeyedTexts
<1> QED BY <1>1, KeyedConcat DEF Report, Queue

LEMMA KeyedAnswer == ASSUME NEW command PROVE Keyed(Answer(command))
<1>1. {"EventSize", "RunNumber", "RunStartTime", "RunStopTime", "RunStatus", "LV_TIME_NOW"}
        \subseteq Keys
  BY DEF Keys
<1> QED BY <1>1, KeyedData, KeyedTexts DEF Answer

LEMMA KeyedNext ==
  ASSUME Keyed(JSONMessageQueue), [Next]_vars
  PROVE  Keyed(JSONMessageQueue')
<1>1. CASE UNCHANGED JSONMessageQueue
  BY <1>1
<1>2. CASE Stop \/ SendReply
  BY <1>2, KeyedTexts DEF Stop, SendReply, ReadMessageQueue
<1>3. CASE Receive \/ BankTooBig
  <2>1. \/ UNCHANGED JSONMessageQueue
        \/ JSONMessageQueue' = JSONMessageQueue \o Error("More bytes sent")
    BY <1>3 DEF Receive, BankTooBig, Queue
  <2> QED BY <2>1, KeyedTexts, KeyedConcat
<1>4. CASE LogData \/ ChangeEventSize \/ Talk \/ Ignore \/ Save \/ Load
  <2>1. Report(<<>>)
    BY <1>4 DEF LogData, ChangeEventSize, Talk, Ignore, Save, Load
  <2> QED BY <2>1, KeyedTexts, KeyedReport
<1>5. CASE AnswerCommand
  <2>1. Report(Answer(banks[next].eq))
    BY <1>5 DEF AnswerCommand
  <2> QED BY <2>1, KeyedAnswer, KeyedReport
<1>6. CASE ReadFile
  <2> DEFINE v == [file |-> banks[next].arg, time |-> chosen.time]
  <2>1. JSONMessageQueue' = JSONMessageQueue \o Data("SettingsFile", v)
    BY <1>6 DEF ReadFile, Queue
  <2>2. "SettingsFile" \in Keys
    BY DEF Keys
  <2> HIDE DEF v
  <2> QED BY <2>1, <2>2, KeyedData, KeyedConcat
<1>7. CASE Construct \/ InitWorker \/ PollNobody \/ Scan \/ SendEvent
  BY <1>1, <1>7 DEF Construct, InitWorker, PollNobody, Scan, SendEvent
<1>8. CASE MidasThread \/ OtherWorkers \/ Analyse \/ UNCHANGED vars
  BY <1>1, <1>8 DEF MidasThread, OtherWorkers, Analyse, vars, parts
<1> QED BY <1>2, <1>3, <1>4, <1>5, <1>6, <1>7, <1>8
       DEF Next, TcpThread, Crash, Fatal, ScanNothing

-----------------------------------------------------------------------------
(* The history: whether a variable names its host.                          *)

NamesHost == \A i \in 1..Len(fVariables) : fVariables[i].host \in BOOLEAN

LEMMA NamesHostNext ==
  ASSUME LogInv, HistoryInv, NamesHost, [Next]_vars
  PROVE  NamesHost'
<1>1. CASE Stop
  BY <1>1 DEF Stop, HistoryCrash, NamesHost
<1>2. CASE InitWorker \/ UNCHANGED historyVars
  BY <1>2 DEF InitWorker, ResetHistory, historyVars, NamesHost
<1>3. ASSUME NEW b, IsBank(b), Update(b)
      PROVE  NamesHost'
  <2> DEFINE i == Find(b)
             n == Len(fVariables)
             u == Updated(Variable(b), b)
             m == IF i > n THEN i ELSE n
  <2>1. n \in Nat /\ (i \in 1..n \/ i = n + 1)
    BY FindVariable DEF HistoryInv
  <2>2. PICK none :
          fVariables' = [j \in 1..m |-> IF j = i THEN u ELSE IF j <= n THEN fVariables[j] ELSE none]
    BY <1>3 DEF Update, WriteCell
  <2>3. u.host \in BOOLEAN
    <3>1. Variable(b).host \in BOOLEAN
      <4>1. CASE Variable(b) = NewVariable(b)
        BY <4>1 DEF NewVariable
      <4>2. CASE i \in 1..n /\ Variable(b) = fVariables[i]
        BY <4>2 DEF NamesHost
      <4> QED BY <4>1, <4>2, FindVariable
    <3> QED BY <1>3, <3>1, UpdatedVariable
  <2> HIDE DEF u, i
  <2>4. m \in Nat
    BY <2>1
  <2>5. Len(fVariables') = m
    <3> HIDE DEF m, n
    <3> QED BY <2>2, <2>4
  <2> SUFFICES ASSUME NEW j \in 1..m PROVE fVariables'[j].host \in BOOLEAN
    BY <2>5 DEF NamesHost
  <2>6. CASE j = i
    BY <2>2, <2>3, <2>6
  <2>7. CASE j # i
    <3>1. j \in 1..n
      BY <2>1, <2>7
    <3> HIDE DEF m
    <3>2. fVariables'[j] = fVariables[j]
      BY <2>1, <2>2, <2>7, <3>1
    <3> QED BY <3>1, <3>2 DEF NamesHost
  <2> QED BY <2>6, <2>7
<1> QED BY <1>1, <1>2, <1>3, HistorySteps

-----------------------------------------------------------------------------
(* The settings files.                                                      *)

LEMMA SettingsSteps ==
  ASSUME LogInv, [Next]_vars
  PROVE  \/ UNCHANGED settingsVars
         \/ \E f \in File : SaveSettingsFile(f) \/ FindFilename(f)
         \/ Choose \/ OtherLoad
<1>1. CASE Save \/ Load
  <2>1. /\ SaveSettingsFile(banks[next].arg) \/ FindFilename(banks[next].arg)
        /\ banks[next].arg \in File
    BY <1>1, ReceivedBanks DEF Save, Load, Turn, LogInv
  <2> QED BY <2>1
<1>2. CASE Scan \/ OtherWorkers
  BY <1>2 DEF Scan, OtherWorkers, OtherSave
<1>3. CASE Construct \/ InitWorker \/ Stop \/ MidasThread \/ Analyse \/ UNCHANGED vars
  BY <1>3 DEF Construct, InitWorker, Stop, MidasThread, Analyse, vars, parts
<1>4. CASE PollNobody \/ Receive \/ SendEvent \/ SendReply
  BY <1>4 DEF PollNobody, Receive, SendEvent, SendReply
<1>5. CASE BankTooBig \/ LogData \/ AnswerCommand \/ ChangeEventSize \/ Talk \/ Ignore \/ ReadFile
  BY <1>5 DEF BankTooBig, LogData, AnswerCommand, ChangeEventSize, Talk, Ignore, ReadFile
<1> QED BY <1>1, <1>2, <1>3, <1>4, <1>5 DEF Next, TcpThread, Crash, Fatal, ScanNothing

LEMMA SettingsTypeNext ==
  ASSUME LogInv, SettingsTypeOK, [Next]_vars
  PROVE  SettingsTypeOK'
<1>1. CASE UNCHANGED settingsVars
  BY <1>1 DEF settingsVars, SettingsTypeOK
<1>2. ASSUME NEW f \in File, SaveSettingsFile(f)
      PROVE  SettingsTypeOK'
  <2>1. PICK t \in clock..MaxTime : clock' = t /\ files' = files \cup {[file |-> f, time |-> t]}
    BY <1>2 DEF SaveSettingsFile
  <2>2. t \in 0..MaxTime
    BY <2>1, FileAssumption DEF SettingsTypeOK
  <2>3. files' \subseteq Revision
    BY <2>1, <2>2 DEF SettingsTypeOK, Revision
  <2> QED BY <1>2, <2>1, <2>2, <2>3 DEF SaveSettingsFile, SettingsTypeOK
<1>3. ASSUME NEW f \in File, FindFilename(f)
      PROVE  SettingsTypeOK'
  BY <1>3 DEF FindFilename, SettingsTypeOK
<1>4. CASE Choose
  <2>1. chosen' \in files
    BY <1>4 DEF Choose, LastOf, nameFilter
  <2> QED BY <1>4, <2>1 DEF Choose, SettingsTypeOK
<1>5. CASE OtherLoad
  BY <1>5 DEF OtherLoad, SettingsTypeOK
<1> QED BY <1>1, <1>2, <1>3, <1>4, <1>5, SettingsSteps

-----------------------------------------------------------------------------
(* The threads and the clients.                                             *)

Places == {"down", "start", "stop", "register", "init", "poll", "banks", "scan", "read",
           "event", "reply"}

ThreadInv == pc \in Places /\ fDebugMode \in BOOLEAN /\ refused \subseteq answered

LEMMA ThreadInvNext == ASSUME ThreadInv, [Next]_vars PROVE ThreadInv'
<1>1. CASE Construct \/ InitWorker \/ Stop
  BY <1>1 DEF Construct, InitWorker, Stop, clientVars, ThreadInv, Places
<1>2. CASE PollNobody \/ MidasThread \/ OtherWorkers \/ Analyse \/ UNCHANGED vars
  BY <1>2 DEF PollNobody, MidasThread, OtherWorkers, Analyse, threadVars, clientVars, vars, ThreadInv
<1>3. CASE Receive
  BY <1>3 DEF Receive, ThreadInv, Places
<1>4. CASE AnswerCommand
  BY <1>4 DEF AnswerCommand, Done, clientVars, ThreadInv, Places
<1>5. CASE BankTooBig \/ LogData \/ ChangeEventSize \/ Talk \/ Ignore \/ Save \/ ReadFile
  BY <1>5 DEF BankTooBig, LogData, ChangeEventSize, Talk, Ignore, Save, ReadFile, Done, clientVars,
              ThreadInv, Places
<1>6. CASE Load \/ Scan \/ SendEvent
  BY <1>6 DEF Load, Scan, SendEvent, clientVars, ThreadInv, Places
<1>7. CASE SendReply
  BY <1>7 DEF SendReply, ThreadInv, Places
<1> QED BY <1>1, <1>2, <1>3, <1>4, <1>5, <1>6, <1>7
       DEF Next, TcpThread, Crash, Fatal, ScanNothing

-----------------------------------------------------------------------------
(* The type invariant.                                                      *)

\* What the other invariants do not say of the types.
TypeInv == Keyed(JSONMessageQueue) /\ NamesHost /\ SettingsTypeOK /\ ThreadInv

LEMMA TypesFollow ==
  ASSUME LogInv, SizeInv, RunInv, PollInv, HistoryInv, OpenInv, TypeInv
  PROVE  TypeOK
<1>1. log \in Seq(plan.messages) /\ DOMAIN log = 1..Len(log)
  BY DEF LogInv
<1>2. answered \subseteq DOMAIN log /\ refused \subseteq answered
  BY <1>1 DEF OpenInv, TypeInv, ThreadInv
<1>3. RunTypeOK
  BY DEF RunInv, RunInfoInv, FieldsInv, HandlerInv, RunTypeOK
<1>4. BufferTypeOK /\ told \in Nat
  BY DEF SizeInv
<1>5. HistoryTypeOK
  <2>1. /\ DOMAIN fVariables = 1..Len(fVariables) /\ DOMAIN newest = 1..Len(newest)
        /\ Len(newest) = Len(fVariables) /\ newest \in Seq(Int)
        /\ jumped \subseteq 1..Len(fVariables)
    BY DEF HistoryInv
  <2>2. \A i \in DOMAIN fVariables : IsVariable(fVariables[i]) /\ fVariables[i].host \in BOOLEAN
    BY <2>1 DEF HistoryInv, NamesHost, TypeInv
  <2> QED BY <2>1, <2>2 DEF HistoryTypeOK, IsVariable
<1>6. PeriodicityTypeOK
  BY DEF PollInv, PeriodicityTypeOK
<1>7. QueueTypeOK
  BY DEF TypeInv, Keyed, Elements, QueueTypeOK
<1> QED BY <1>1, <1>2, <1>3, <1>4, <1>5, <1>6, <1>7 DEF TypeOK, TypeInv, ThreadInv, Places, LogInv

LEMMA TypesAlways == Spec => []TypeInv
<1>1. Init => TypeInv
  <2> SUFFICES ASSUME Init PROVE TypeInv
    OBVIOUS
  <2>1. Keyed(JSONMessageQueue)
    BY KeyedTexts DEF Init
  <2>2. NamesHost
    BY DEF Init, HistoryInit, NamesHost
  <2>3. SettingsTypeOK
    <3>1. 0 \in 0..MaxTime
      BY FileAssumption
    <3>2. SettingsInit
      BY DEF Init
    <3> QED BY <3>1, <3>2 DEF SettingsInit, SettingsTypeOK
  <2>4. ThreadInv
    BY DEF Init, ThreadInv, Places
  <2> QED BY <2>1, <2>2, <2>3, <2>4 DEF TypeInv
<1>2. LogInv /\ HistoryInv /\ TypeInv /\ [Next]_vars => TypeInv'
  BY KeyedNext, NamesHostNext, SettingsTypeNext, ThreadInvNext DEF TypeInv
<1> QED BY <1>1, <1>2, SizesAlways, HistoryInvariant, PTL DEF Spec

\* A worker and its parts stay in their types, whatever clients send, runs change,
\* other workers save and however often the process ends: an answer is counted only
\* for a message received, and every item of a reply has one of the keys of
\* MessageHandler.
THEOREM TypeCorrect == Spec => []TypeOK
<1>1. Init => PollInv
  BY PollInvInit DEF Init
<1>2. Spec => []PollInv
  BY <1>1, PollInvNext, PTL DEF Spec
<1> QED BY <1>2, TypesFollow, TypesAlways, SizesAlways, RunInvariant, HistoryInvariant,
           RepliesAlways, PTL
=============================================================================
