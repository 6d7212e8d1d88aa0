------------------------------- MODULE Worker -------------------------------
(***************************************************************************)
(* One feGEM worker at work: its TCP thread takes messages apart bank by   *)
(* bank, the MIDAS thread changes the run state under it, other workers    *)
(* share the settings files, the process may end anywhere, and the events  *)
(* sent are analysed later.  How the bytes of a message arrive is module   *)
(* ServeHost; here a message arrives whole.                                *)
(*                                                                         *)
(* A bank's data type, category and variable name decide what is done with *)
(* it: that is its field "what".                                           *)
(***************************************************************************)
EXTENDS RunState, EventBuffer, MessageHandler, HistoryLogger, Periodicity,
        SettingsFileDatabase, Analyser

CONSTANT Traffic  \* sessions (see TrafficAssumption)

SupervisorCommands == {"START_FRONTEND", "GIVE_ME_ADDRESS", "GIVE_ME_PORT"}
DebugCommands == {"ENABLE_DEBUG_MODE", "DISABLE_DEBUG_MODE"}

\* A session: the messages its clients may send, how many at most (a bound), and
\* whether there are other workers and run transitions.
ASSUME TrafficAssumption ==
  \A p \in Traffic : /\ p.most \in Nat /\ p.others \in BOOLEAN /\ p.runs \in BOOLEAN
                     /\ \A m \in p.messages : IsMessage(m) /\ \A i \in DOMAIN m.banks :
                          m.banks[i].what \in {"save", "load"} => m.banks[i].arg \in File

VARIABLES
  plan,        \* the session
  log,         \* (history variable) the messages received
  pc,          \* the TCP thread
  banks,       \* the banks of the message as they are in the buffer
  next,        \* the bank to be handled next
  fDebugMode,
  reply,       \* the last reply sent
  told,        \* the largest event size a client has been told
  answered,    \* (history variable) numbers of the messages answered,
  refused      \* (history variable) with an error among them

threadVars == <<pc, banks, next, fDebugMode>>
clientVars == <<plan, log, reply, told, answered, refused>>
parts == <<runVars, bufferVars, JSONMessageQueue, historyVars, periodicityVars,
           settingsVars, analyserVars>>
vars == <<threadVars, clientVars, parts>>

Init ==
  /\ plan \in Traffic /\ log = <<>>
  /\ pc = "down" /\ banks = <<>> /\ next = 1 /\ fDebugMode = FALSE
  /\ reply = <<>> /\ told = 0 /\ answered = {} /\ refused = {}
  /\ RunInit /\ BufferInit /\ HistoryInit /\ PeriodicityInit /\ SettingsInit
  /\ JSONMessageQueue = <<>> /\ AnalyserInit

-----------------------------------------------------------------------------
(* The life of the worker.                                                  *)

\* The constructor reads three fields of /Runinfo; AddNewClient then registers the
\* worker and calls Init, which starts the thread.
Construct ==
  /\ \/ pc = "down" /\ pc' = "start" /\ ConstructNumber
     \/ pc = "start" /\ pc' = "stop" /\ ConstructStart
     \/ pc = "stop" /\ pc' = "register" /\ ConstructStop
     \/ pc = "register" /\ pc' = "init" /\ RegisterWorker
  /\ UNCHANGED <<banks, next, fDebugMode, clientVars, bufferVars, JSONMessageQueue,
                 historyVars, periodicityVars, settingsVars, analyserVars>>

InitWorker ==
  /\ pc = "init" /\ pc' = "poll"
  /\ MakeBuffer /\ ResetHistory
  /\ UNCHANGED <<banks, next, fDebugMode, clientVars, runVars, JSONMessageQueue,
                 periodicityVars, settingsVars, analyserVars>>

\* The process ends: by exit or an assertion in this thread, or in another one.
Stop ==
  /\ pc' = "down" /\ banks' = <<>> /\ next' = 1 /\ fDebugMode' = FALSE
  /\ JSONMessageQueue' = <<>>
  /\ RunCrash /\ BufferCrash /\ HistoryCrash /\ PeriodicityCrash
  /\ UNCHANGED <<clientVars, settingsVars, analyserVars>>

Crash == pc # "down" /\ Stop

-----------------------------------------------------------------------------
(* ServeHost: a message.                                                    *)

PollNobody ==
  /\ pc = "poll" /\ FlushBuffer
  /\ UNCHANGED <<threadVars, clientVars, runVars, JSONMessageQueue, historyVars,
                 periodicityVars, settingsVars, analyserVars>>

\* Mutant: a message that is too big is answered at once.
ReceiveTooBig ==
  /\ pc = "poll" /\ Len(log) < plan.most /\ FlushBuffer
  /\ \E m \in plan.messages :
       /\ log' = Append(log, m)
       /\ banks' = m.banks /\ next' = 1
       /\ IF m.array /\ m.size > fEventSize
          THEN pc' = "reply" /\ Queue(Error("More bytes sent"))
          ELSE pc' = "banks" /\ UNCHANGED JSONMessageQueue
  /\ UNCHANGED <<fDebugMode, plan, reply, told, answered, refused, runVars, historyVars,
                 periodicityVars, settingsVars, analyserVars>>

\* A message larger than the buffer is read all the same (the process may end there,
\* which Crash allows); only then is its size looked at.
Receive ==
  /\ pc = "poll" /\ Len(log) < plan.most /\ FlushBuffer
  /\ \E m \in plan.messages :
       /\ log' = Append(log, m)
       /\ banks' = m.banks /\ next' = 1
       /\ IF m.array /\ m.size > fEventSize
          THEN pc' = "event" /\ Queue(Error("More bytes sent"))
          ELSE pc' = "banks" /\ UNCHANGED JSONMessageQueue
  /\ UNCHANGED <<fDebugMode, plan, reply, told, answered, refused, runVars, historyVars,
                 periodicityVars, settingsVars, analyserVars>>

\* HandleBank for the bank whose turn it is.
Turn(what) ==
  /\ pc = "banks" /\ next \in DOMAIN banks
  /\ banks[next].what = what /\ banks[next].block <= fEventSize

Done == next' = next + 1 /\ pc' = "banks"

\* LogBank's report of a bank, in debug mode.
Report(items) == Queue((IF fDebugMode THEN Message("Received") ELSE <<>>) \o items)

BankTooBig ==
  /\ pc = "banks" /\ next \in DOMAIN banks /\ banks[next].block > fEventSize
  /\ Queue(Error("More bytes sent"))
  /\ Done
  /\ UNCHANGED <<banks, fDebugMode, clientVars, runVars, bufferVars, historyVars,
                 periodicityVars, settingsVars, analyserVars>>

\* Mutant: the logger works on a copy of the bank.
LogDataOfCopy ==
  /\ Turn("data") /\ Update(banks[next])
  /\ UNCHANGED banks
  /\ Report(<<>>) /\ Done
  /\ UNCHANGED <<fDebugMode, clientVars, runVars, bufferVars, periodicityVars,
                 settingsVars, analyserVars>>

LogData ==
  /\ Turn("data") /\ Update(banks[next])
  /\ banks' = [banks EXCEPT ![next] = Described(@)]
  /\ Report(<<>>) /\ Done
  /\ UNCHANGED <<fDebugMode, clientVars, runVars, bufferVars, periodicityVars,
                 settingsVars, analyserVars>>

Answer(command) ==
  CASE command = "GET_EVENT_SIZE"  -> Data("EventSize", fEventSize)
    [] command = "GET_RUNNO"       -> Data("RunNumber", RUNNO)
    [] command = "GET_RUN_START_T" -> Data("RunStartTime", RUN_START_T)
    [] command = "GET_RUN_STOP_T"  -> Data("RunStopTime", RUN_STOP_T)
    [] command = "GET_STATUS"      -> Data("RunStatus", RunStatus)
    [] command = "CHECK_TIME_SYNC" -> Data("LV_TIME_NOW", "now")
    [] OTHER                       -> <<>>

\* A query, a change of debug mode, or a command that is not understood.
AnswerCommand ==
  /\ Turn("command")
  /\ banks[next].eq \notin SupervisorCommands \cup {"SET_EVENT_SIZE"}
  /\ Report(Answer(banks[next].eq))
  /\ fDebugMode' = IF banks[next].eq \in DebugCommands
                   THEN banks[next].eq = "ENABLE_DEBUG_MODE" ELSE fDebugMode
  /\ Done
  /\ UNCHANGED <<banks, clientVars, runVars, bufferVars, historyVars, periodicityVars,
                 settingsVars, analyserVars>>

ChangeEventSize ==
  /\ Turn("command") /\ banks[next].eq = "SET_EVENT_SIZE"
  /\ SetEventSize(banks[next].arg)
  /\ Report(<<>>) /\ Done
  /\ UNCHANGED <<banks, fDebugMode, clientVars, runVars, historyVars, periodicityVars,
                 settingsVars, analyserVars>>

\* A supervisor's command fails an assertion in a worker; an unknown data type exits.
Fatal ==
  /\ \/ Turn("unknown")
     \/ Turn("command") /\ banks[next].eq \in SupervisorCommands
  /\ Stop

Talk ==
  /\ Turn("talk") /\ ProcessMessage(banks[next].arg)
  /\ Report(<<>>) /\ Done
  /\ UNCHANGED <<banks, fDebugMode, clientVars, runVars, bufferVars, historyVars,
                 settingsVars, analyserVars>>

Ignore ==
  /\ Turn("ignored") \/ Turn("file")
  /\ Report(<<>>) /\ Done
  /\ UNCHANGED <<banks, fDebugMode, clientVars, runVars, bufferVars, historyVars,
                 periodicityVars, settingsVars, analyserVars>>

Save ==
  /\ Turn("save") /\ SaveSettingsFile(banks[next].arg)
  /\ Report(<<>>) /\ Done
  /\ UNCHANGED <<banks, fDebugMode, clientVars, runVars, bufferVars, historyVars,
                 periodicityVars, analyserVars>>

Load ==
  /\ Turn("load") /\ FindFilename(banks[next].arg)
  /\ Report(<<>>)
  /\ pc' = "scan"
  /\ UNCHANGED <<banks, next, fDebugMode, clientVars, runVars, bufferVars, historyVars,
                 periodicityVars, analyserVars>>

Scan ==
  /\ pc = "scan" /\ Choose /\ pc' = "read"
  /\ UNCHANGED <<banks, next, fDebugMode, clientVars, runVars, bufferVars, JSONMessageQueue,
                 historyVars, periodicityVars, analyserVars>>

\* No file matches: namelist[-1] is read and followed.
ScanNothing == pc = "scan" /\ nameFilter(find_filename) = {} /\ Stop

ReadFile ==
  /\ pc = "read"
  /\ Queue(Data("SettingsFile", [file |-> banks[next].arg, time |-> chosen.time]))
  /\ Done
  /\ UNCHANGED <<banks, fDebugMode, clientVars, runVars, bufferVars, historyVars,
                 periodicityVars, settingsVars, analyserVars>>

-----------------------------------------------------------------------------
(* ServeHost: the event and the reply.                                      *)

SendEvent ==
  /\ pc = "event" \/ (pc = "banks" /\ next > Len(banks))
  /\ events' = Append(events, [msg |-> Len(log), banks |-> banks])
  /\ pc' = "reply"
  /\ UNCHANGED <<banks, next, fDebugMode, clientVars, runVars, bufferVars, JSONMessageQueue,
                 historyVars, periodicityVars, settingsVars, trees>>

\* The event sizes a reply carries.
Sizes(items) == {items[i].value : i \in {j \in DOMAIN items : items[j].key = "EventSize"}}

Failed(items) == \E i \in DOMAIN items : items[i].key = "err"

SendReply ==
  /\ pc = "reply" /\ pc' = "poll"
  /\ reply' = JSONMessageQueue \o Message("DATA OK")
  /\ ReadMessageQueue(Message("DATA OK"))
  /\ told' \in Sizes(reply') \cup {told} /\ \A s \in Sizes(reply') \cup {told} : s <= told'
  /\ answered' = answered \cup {Len(log)}
  /\ refused' = IF Failed(reply') THEN refused \cup {Len(log)} ELSE refused
  /\ UNCHANGED <<banks, next, fDebugMode, plan, log, runVars, bufferVars, historyVars,
                 periodicityVars, settingsVars, analyserVars>>

-----------------------------------------------------------------------------
MidasThread == plan.runs /\ Transitions /\ UNCHANGED
  <<threadVars, clientVars, bufferVars, JSONMessageQueue, historyVars, periodicityVars,
    settingsVars, analyserVars>>

OtherWorkers == plan.others /\ (OtherSave \/ OtherLoad) /\ UNCHANGED
  <<threadVars, clientVars, runVars, bufferVars, JSONMessageQueue, historyVars,
    periodicityVars, analyserVars>>

Analyse == AnalyzeFlowEvent /\ UNCHANGED
  <<threadVars, clientVars, runVars, bufferVars, JSONMessageQueue, historyVars,
    periodicityVars, settingsVars>>

TcpThread ==
  \/ PollNobody \/ Receive
  \/ BankTooBig \/ LogData \/ AnswerCommand \/ ChangeEventSize \/ Fatal \/ Talk \/ Ignore
  \/ Save \/ Load \/ Scan \/ ScanNothing \/ ReadFile
  \/ SendEvent \/ SendReply

Next == \/ Construct \/ InitWorker \/ Crash \/ TcpThread
        \/ MidasThread \/ OtherWorkers \/ Analyse

Spec == Init /\ [][Next]_vars

-----------------------------------------------------------------------------
(* Properties.                                                              *)

\* Type invariant of a worker and its parts.
TypeOK ==
  /\ plan \in Traffic /\ log \in Seq(plan.messages)
  /\ pc \in {"down", "start", "stop", "register", "init", "poll", "banks", "scan", "read",
             "event", "reply"}
  /\ next \in Nat \ {0} /\ fDebugMode \in BOOLEAN /\ told \in Nat
  /\ answered \subseteq DOMAIN log /\ refused \subseteq answered
  /\ RunTypeOK /\ BufferTypeOK /\ HistoryTypeOK /\ PeriodicityTypeOK /\ SettingsTypeOK
  /\ QueueTypeOK

Last == log[Len(log)]

\* The answer a bank asks for.
AnswerKey(b) ==
  LET asks(command) == b.what = "command" /\ b.eq = command
  IN CASE b.what = "load"         -> "SettingsFile"
       [] asks("GET_EVENT_SIZE")  -> "EventSize"
       [] asks("GET_RUNNO")       -> "RunNumber"
       [] asks("GET_RUN_START_T") -> "RunStartTime"
       [] asks("GET_RUN_STOP_T")  -> "RunStopTime"
       [] asks("GET_STATUS")      -> "RunStatus"
       [] asks("CHECK_TIME_SYNC") -> "LV_TIME_NOW"
       [] OTHER                   -> "none"

\* The items of a reply that answer something, and the banks of a message before the
\* n-th that ask for something.
Answers(items) == {k \in DOMAIN items : items[k].key \notin {"msg", "err"}}
Asked(bs, n) == {i \in DOMAIN bs : i < n /\ AnswerKey(bs[i]) # "none"}

\* The items answer those banks: one by one, each with what was asked, in their order.
AnswersAsked(items, bs, n) ==
  \E bank \in [Answers(items) -> Asked(bs, n)] :
    /\ \A i \in Asked(bs, n) : \E k \in Answers(items) : bank[k] = i
    /\ \A k, l \in Answers(items) : k < l => bank[k] < bank[l]
    /\ \A k \in Answers(items) : items[k].key = AnswerKey(bs[bank[k]])

\* A reply answers its message and no other: it carries the answers to the queries
\* and loads of the message just handled, in their order, none of an earlier or
\* interrupted one, or no answer and an error if the message was too big, and it
\* ends with DATA OK (one MessageHandler for all clients of a worker).
ReplyComplete ==
  pc = "poll" /\ Len(log) \in answered =>
    /\ IF Failed(reply) THEN Answers(reply) = {}
       ELSE AnswersAsked(reply, Last.banks, Len(Last.banks) + 1)
    /\ reply[Len(reply)] = Message("DATA OK")[1]

\* A client that has once been told an event size can rely on it, now and after a
\* restart: a message that leaves room for the MIDAS headers in that size fits into
\* the buffer it is read into, and is not refused (SET_EVENT_SIZE, the deferred
\* reallocation in ServeHost, and event_size in the ODB).
ToldSizeFits ==
  pc \in {"banks", "event"} /\ Last.size + Overhead <= told =>
    /\ Last.size + Overhead <= buffer
    /\ Last.size <= fEventSize

\* A LOAD, whatever its offset, answers with no outdated revision: of the file it
\* reads there was none newer when it began, whoever saves or loads in between, and
\* it reads a file of another name only if another worker's LOAD came in between or
\* that name begins with the one asked for (find_filename, nameFilter and alphasort
\* in LoadSettingsFile).
LoadsCurrent ==
  pc = "read" =>
    /\ \A r \in found : r.file = chosen.file => r.time <= chosen.time
    /\ chosen.file = banks[next].arg \/ overtaken
       \/ <<banks[next].arg, chosen.file>> \in Extensions

\* LOAD-n means LOAD n revisions ago: as many of the revisions found are newer than
\* the one that is read, if there are that many (the comments at HandleStrBank's call
\* of LoadSettingsFile and at its definition).
LoadsRevision ==
  pc = "read" =>
    LET revisions == {r \in found : r.file = banks[next].arg}
    IN Cardinality(revisions) > banks[next].offset =>
         Cardinality({r \in revisions : r.time > chosen.time}) = banks[next].offset

\* A message's event is sent once and before the message is answered, a message that
\* was open when the process ended is never answered, and the analyser meets the
\* events in the order of the messages (ServeHost: SendEvent, then the reply).
Stage == IF pc \in {"banks", "scan", "read", "event"} THEN "handled"
         ELSE IF pc = "reply" THEN "stored" ELSE "idle"
Waiting == [k \in DOMAIN events |-> events[k].msg]
D == INSTANCE Delivery WITH received <- Len(log), stage <- Stage, waiting <- Waiting
ImplementsDelivery == D!Spec

\* The data a host reports about itself name that host in every event sent: the bank
\* itself does not say where it comes from (HistoryVariable::Update overwrites its
\* EquipmentType in the buffer; banks of files, string arrays and commands do not
\* pass through it and never name their host).
HostsNamed ==
  \A k \in DOMAIN events : \A i \in DOMAIN events[k].banks :
    LET b == events[k].banks[i]
    IN b.what = "data" /\ b.cat = THISHOST => b.eq = fHostName

\* Where the data of a bank belong: under the host that sent them, or their category.
Home(b) == IF b.cat = THISHOST THEN <<fHostName, b.var>> ELSE <<b.cat, b.var>>

\* The variables a host reports about itself are logged (see HostsNamed).
HostsLog == \A m \in plan.messages : \A i \in DOMAIN m.banks :
              m.banks[i].cat = THISHOST => NewVariable(m.banks[i]).host

\* The data of a message answered with DATA OK and no error are never lost or
\* misfiled, whatever crashes: its event waits for the analyser, or each of its data
\* banks is in the tree of its host or category, and in no other
\* (HistoryVariable::Update on the buffer, SendEvent, SaveToTree).
AnsweredIsFiled ==
  HostsLog => \A m \in answered \ refused :
    \/ \E k \in DOMAIN events : events[k].msg = m
    \/ \A i \in DOMAIN log[m].banks : log[m].banks[i].what = "data" =>
         {n \in DOMAIN trees : <<m, i>> \in trees[n]} = {Home(log[m].banks[i])}
=============================================================================
