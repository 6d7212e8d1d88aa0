------------------------- MODULE WorkerReplyProofs --------------------------
(***************************************************************************)
(* A worker's reply answers its message and no other: ReplyComplete of     *)
(* module Worker.  The correspondence between the items of the queue and   *)
(* the banks that asked for them is carried through the handling of the    *)
(* message, one bank at a time.                                            *)
(***************************************************************************)
EXTENDS WorkerProofs

-----------------------------------------------------------------------------
(* Items put together.                                                      *)

LEMMA ItemsOfConcat ==
  ASSUME NEW q, NEW t, q \in Seq(Elements(q)), t \in Seq(Elements(t))
  PROVE  /\ q \o t \in Seq(Elements(q \o t))
         /\ Len(q \o t) = Len(q) + Len(t) /\ Len(q) \in Nat /\ Len(t) \in Nat
         /\ DOMAIN q = 1..Len(q) /\ DOMAIN t = 1..Len(t) /\ DOMAIN (q \o t) = 1..(Len(q) + Len(t))
         /\ \A k \in 1..Len(q) : (q \o t)[k] = q[k]
         /\ \A k \in 1..Len(t) : (q \o t)[Len(q) + k] = t[k]
<1> DEFINE S == Elements(q) \cup Elements(t)
<1>1. q \in Seq(S) /\ t \in Seq(S)
  <2>1. Elements(q) \subseteq S /\ Elements(t) \subseteq S
    OBVIOUS
  <2> HIDE DEF S
  <2> QED BY <2>1
<1> HIDE DEF S
<1>2. q \o t \in Seq(S)
  BY <1>1
<1>3. q \o t \in Seq(Elements(q \o t))
  BY <1>2, SeqOfElements
<1>4. Len(q \o t) = Len(q) + Len(t) /\ Len(q) \in Nat /\ Len(t) \in Nat
      /\ DOMAIN q = 1..Len(q) /\ DOMAIN t = 1..Len(t) /\ DOMAIN (q \o t) = 1..(Len(q) + Len(t))
  BY <1>1
<1>5. \A k \in 1..Len(q) : (q \o t)[k] = q[k]
  BY <1>1
<1>6. \A k \in 1..Len(t) : (q \o t)[Len(q) + k] = t[k]
  BY <1>1
<1> QED BY <1>3, <1>4, <1>5, <1>6

\* The answers among items put together are those of both parts.
LEMMA AnswersOfConcat ==
  ASSUME NEW q, NEW t, q \in Seq(Elements(q)), t \in Seq(Elements(t))
  PROVE  /\ Answers(q) \subseteq 1..Len(q) /\ Len(q) \in Nat
         /\ Answers(q \o t) = Answers(q) \cup {Len(q) + k : k \in Answers(t)}
<1> DEFINE u == q \o t
<1>1. /\ Len(q) \in Nat /\ Len(t) \in Nat
      /\ DOMAIN q = 1..Len(q) /\ DOMAIN t = 1..Len(t) /\ DOMAIN u = 1..(Len(q) + Len(t))
      /\ \A k \in 1..Len(q) : u[k] = q[k]
      /\ \A k \in 1..Len(t) : u[Len(q) + k] = t[k]
  BY ItemsOfConcat
<1> HIDE DEF u
<1>2. \A k \in DOMAIN u : k \in 1..Len(q) \/ \E l \in 1..Len(t) : k = Len(q) + l
  <2> TAKE k \in DOMAIN u
  <2>1. CASE k \in 1..Len(q)
    BY <2>1
  <2>2. CASE k \notin 1..Len(q)
    <3>1. k - Len(q) \in 1..Len(t) /\ k = Len(q) + (k - Len(q))
      BY <1>1, <2>2
    <3> QED BY <3>1
  <2> QED BY <2>1, <2>2
<1>3. Answers(u) \subseteq Answers(q) \cup {Len(q) + k : k \in Answers(t)}
  BY <1>1, <1>2 DEF Answers
<1>4. Answers(q) \subseteq Answers(u)
  <2>1. 1..Len(q) \subseteq DOMAIN u
    BY <1>1
  <2> QED BY <1>1, <2>1 DEF Answers
<1>5. \A k \in Answers(t) : Len(q) + k \in Answers(u)
  <2>1. \A k \in 1..Len(t) : Len(q) + k \in DOMAIN u
    BY <1>1
  <2> QED BY <1>1, <2>1 DEF Answers
<1>6. Answers(q) \subseteq 1..Len(q)
  BY <1>1 DEF Answers
<1> QED BY <1>1, <1>3, <1>4, <1>5, <1>6 DEF u

LEMMA ItemAnswers ==
  ASSUME NEW key, NEW value
  PROVE  /\ Data(key, value) \in Seq(Elements(Data(key, value))) /\ Len(Data(key, value)) = 1
         /\ Data(key, value)[1].key = key
         /\ Answers(Data(key, value)) = IF key \in {"msg", "err"} THEN {} ELSE {1}
<1> DEFINE e == [key |-> key, value |-> value]
<1>1. e.key = key
  OBVIOUS
<1> HIDE DEF e
<1>2. Data(key, value) = <<e>>
  BY DEF Data, e
<1>3. <<e>> \in Seq(Elements(<<e>>)) /\ Len(<<e>>) = 1 /\ DOMAIN <<e>> = {1} /\ <<e>>[1] = e
  BY OneElement
<1> QED BY <1>1, <1>2, <1>3 DEF Answers

LEMMA NoItems == /\ <<>> \in Seq(Elements(<<>>)) /\ Len(<<>>) = 0
                 /\ Answers(<<>>) = {} /\ ~Failed(<<>>)
BY EmptyItems DEF Answers, Failed

-----------------------------------------------------------------------------
(* Items and the banks that asked for them.                                 *)

\* Texts and errors behind the answers change nothing.
LEMMA TextAnswersNothing ==
  ASSUME NEW q, NEW t, q \in Seq(Elements(q)), t \in Seq(Elements(t)), Answers(t) = {},
         NEW bs, NEW n, AnswersAsked(q, bs, n)
  PROVE  AnswersAsked(q \o t, bs, n)
<1>1. Answers(q \o t) = Answers(q) /\ Answers(q) \subseteq 1..Len(q)
  BY AnswersOfConcat
<1>2. \A k \in Answers(q) : (q \o t)[k] = q[k]
  BY <1>1, ItemsOfConcat
<1> DEFINE u == q \o t
<1> HIDE DEF u
<1>3. Answers(u) = Answers(q) /\ \A k \in Answers(q) : u[k] = q[k]
  BY <1>1, <1>2 DEF u
<1>4. AnswersAsked(u, bs, n)
  BY <1>3 DEF AnswersAsked
<1> QED BY <1>4 DEF u

\* The next bank asks for nothing.
LEMMA NothingAsked ==
  ASSUME NEW q, NEW bs, NEW n \in Nat, DOMAIN bs \subseteq Nat, AnswersAsked(q, bs, n),
         n \in DOMAIN bs => AnswerKey(bs[n]) = "none"
  PROVE  AnswersAsked(q, bs, n + 1)
<1>1. \A i \in DOMAIN bs : i < n + 1 <=> i < n \/ i = n
  OBVIOUS
<1>2. Asked(bs, n + 1) = Asked(bs, n)
  BY <1>1 DEF Asked
<1> QED BY <1>2 DEF AnswersAsked

\* The next bank asks for something, and that is the one answer among the new items.
LEMMA AnswerAppended ==
  ASSUME NEW q, NEW t, q \in Seq(Elements(q)), t \in Seq(Elements(t)),
         NEW bs, NEW n \in Nat, DOMAIN bs \subseteq Nat, n \in DOMAIN bs,
         AnswersAsked(q, bs, n), AnswerKey(bs[n]) # "none",
         NEW l, Answers(t) = {l}, t[l].key = AnswerKey(bs[n])
  PROVE  AnswersAsked(q \o t, bs, n + 1)
<1> DEFINE u == q \o t
           e == Len(q) + l
<1>1. /\ Answers(u) = Answers(q) \cup {e} /\ Answers(q) \subseteq 1..Len(q) /\ Len(q) \in Nat
      /\ l \in 1..Len(t) /\ Len(t) \in Nat
  <2>1. Answers(u) = Answers(q) \cup {Len(q) + k : k \in Answers(t)}
        /\ Answers(q) \subseteq 1..Len(q) /\ Len(q) \in Nat
    BY AnswersOfConcat
  <2>2. l \in DOMAIN t
    BY DEF Answers
  <2>3. DOMAIN t = 1..Len(t) /\ Len(t) \in Nat
    BY ItemsOfConcat
  <2> QED BY <2>1, <2>2, <2>3
<1>2. /\ \A k \in Answers(q) : u[k] = q[k]
      /\ u[e] = t[l]
  BY <1>1, ItemsOfConcat
<1>3. e \notin Answers(q) /\ \A k \in Answers(q) : k < e /\ ~(e < k)
  <2>1. e \in Nat /\ \A k \in 1..Len(q) : k < e /\ ~(e < k) /\ k # e
    BY <1>1
  <2> QED BY <1>1, <2>1
<1>4. e \in Nat /\ Answers(q) \subseteq Nat
  BY <1>1
<1> HIDE DEF u, e
<1>5. Asked(bs, n + 1) = Asked(bs, n) \cup {n} /\ Asked(bs, n) \subseteq Nat
      /\ \A i \in Asked(bs, n) : i < n
  <2>1. \A i \in DOMAIN bs : i < n + 1 <=> i < n \/ i = n
    OBVIOUS
  <2> QED BY <2>1 DEF Asked
<1>6. PICK bank \in [Answers(q) -> Asked(bs, n)] :
        /\ \A i \in Asked(bs, n) : \E k \in Answers(q) : bank[k] = i
        /\ \A k, m \in Answers(q) : k < m => bank[k] < bank[m]
        /\ \A k \in Answers(q) : q[k].key = AnswerKey(bs[bank[k]])
  BY DEF AnswersAsked
<1> DEFINE more == [k \in Answers(u) |-> IF k = e THEN n ELSE bank[k]]
<1>7. more \in [Answers(u) -> Asked(bs, n + 1)]
  BY <1>1, <1>3, <1>5, <1>6
<1>8. more[e] = n /\ \A k \in Answers(q) : more[k] = bank[k] /\ bank[k] \in Asked(bs, n)
  BY <1>1, <1>3, <1>6
<1> HIDE DEF more
<1>9. \A i \in Asked(bs, n + 1) : \E k \in Answers(u) : more[k] = i
  BY <1>1, <1>5, <1>6, <1>8
<1>10. \A k, m \in Answers(u) : k < m => more[k] < more[m]
  <2> SUFFICES ASSUME NEW k \in Answers(u), NEW m \in Answers(u), k < m
               PROVE  more[k] < more[m]
    OBVIOUS
  <2>1. k \in Answers(q)
    BY <1>1, <1>3, <1>4
  <2>2. CASE m = e
    BY <1>5, <1>8, <2>1, <2>2
  <2>3. CASE m # e
    BY <1>1, <1>6, <1>8, <2>1, <2>3
  <2> QED BY <2>2, <2>3
<1>11. \A k \in Answers(u) : u[k].key = AnswerKey(bs[more[k]])
  BY <1>1, <1>2, <1>6, <1>8
<1>12. AnswersAsked(u, bs, n + 1)
  BY <1>7, <1>9, <1>10, <1>11 DEF AnswersAsked
<1> QED BY <1>12 DEF u

\* Behind the last bank nothing more is asked.
LEMMA AllAsked ==
  ASSUME NEW q, NEW bs, NEW n \in Nat, Len(bs) \in Nat, DOMAIN bs = 1..Len(bs), n > Len(bs),
         AnswersAsked(q, bs, n)
  PROVE  AnswersAsked(q, bs, Len(bs) + 1)
<1>1. \A i \in DOMAIN bs : i < n /\ i < Len(bs) + 1
  OBVIOUS
<1>2. Asked(bs, n) = Asked(bs, Len(bs) + 1)
  BY <1>1 DEF Asked
<1> QED BY <1>2 DEF AnswersAsked

-----------------------------------------------------------------------------
(* The message being handled.                                               *)

Open == Handling \/ pc = "reply"

\* A message is open until it is answered.  Its banks are those received, from the
\* present one on, and the message fits the event size unless it is a single bank.
OpenInv ==
  /\ answered \subseteq 1..Len(log)
  /\ Open => log # <<>> /\ Len(log) \notin answered
  /\ Handling => /\ DOMAIN banks = DOMAIN Last.banks
                 /\ \A i \in DOMAIN banks : i >= next => banks[i] = Last.banks[i]
  /\ pc \in {"scan", "read"} => next \in DOMAIN banks /\ banks[next].what = "load"
  /\ pc \in {"banks", "scan", "read"} /\ Last.array => Last.size <= fEventSize

\* The steps that are done with a bank.
BankStep == \/ BankTooBig \/ LogData \/ AnswerCommand \/ ChangeEventSize \/ Talk \/ Ignore
            \/ Save \/ ReadFile

LEMMA BankSteps ==
  ASSUME LogInv, SizeInv, BankStep
  PROVE  /\ pc \in {"banks", "read"} /\ pc' = "banks" /\ next' = next + 1 /\ next \in Nat
         /\ UNCHANGED clientVars /\ fEventSize <= fEventSize'
         /\ DOMAIN banks' = DOMAIN banks
         /\ \A i \in DOMAIN banks : i # next => banks'[i] = banks[i]
<1>1. /\ pc \in {"banks", "read"} /\ pc' = "banks" /\ next' = next + 1 /\ next \in Nat
      /\ UNCHANGED clientVars
  BY DEF BankStep, BankTooBig, LogData, AnswerCommand, ChangeEventSize, Talk, Ignore, Save,
         ReadFile, Turn, Done, LogInv
<1>2. fEventSize <= fEventSize'
  <2>1. fEventSize \in Nat
    BY DEF SizeInv, BufferTypeOK
  <2>2. CASE ChangeEventSize
    <3>1. banks[next].arg \in Int
      BY <2>2, ReceivedBanks DEF ChangeEventSize, Turn, LogInv, IsBank
    <3> QED BY <2>1, <2>2, <3>1, BufferAssumption DEF ChangeEventSize, SetEventSize, Larger
  <2>3. CASE UNCHANGED bufferVars
    BY <2>1, <2>3 DEF bufferVars
  <2> QED BY <2>2, <2>3 DEF BankStep, BankTooBig, LogData, AnswerCommand, Talk, Ignore, Save, ReadFile
<1>3. /\ DOMAIN banks' = DOMAIN banks
      /\ \A i \in DOMAIN banks : i # next => banks'[i] = banks[i]
  <2>1. CASE LogData
    BY <2>1 DEF LogData
  <2>2. CASE UNCHANGED banks
    BY <2>2
  <2> QED BY <2>1, <2>2 DEF BankStep, BankTooBig, AnswerCommand, ChangeEventSize, Talk, Ignore,
                            Save, ReadFile
<1> QED BY <1>1, <1>2, <1>3

LEMMA Received1 ==
  ASSUME LogInv, NEW m, log' = Append(log, m), m \in plan.messages
  PROVE  /\ Last' = m /\ IsMessage(m) /\ Len(log') = Len(log) + 1 /\ Len(log) \in Nat
         /\ log' # <<>>
<1>1. log \in Seq(plan.messages)
  BY DEF LogInv
<1>2. /\ Len(Append(log, m)) = Len(log) + 1 /\ Len(log) \in Nat
      /\ Append(log, m)[Len(log) + 1] = m /\ Append(log, m) # <<>>
  BY <1>1
<1>3. IsMessage(m)
  BY TrafficAssumption DEF LogInv
<1> QED BY <1>2, <1>3 DEF Last

LEMMA OpenInvNext == LogInv /\ SizeInv /\ OpenInv /\ [Next]_vars => OpenInv'
<1> SUFFICES ASSUME LogInv, SizeInv, OpenInv, [Next]_vars PROVE OpenInv'
  OBVIOUS
<1>1. CASE UNCHANGED <<log, answered, pc, banks, next, fEventSize>>
  BY <1>1 DEF OpenInv, Open, Handling, Last
<1>2. CASE Receive
  <2>1. PICK m \in plan.messages :
          /\ log' = Append(log, m) /\ banks' = m.banks /\ next' = 1
          /\ IF m.array /\ m.size > fEventSize THEN pc' = "event" ELSE pc' = "banks"
    BY <1>2 DEF Receive
  <2>2. UNCHANGED <<answered, fEventSize>>
    BY <1>2 DEF Receive, FlushBuffer
  <2>3. /\ Last' = m /\ IsMessage(m) /\ Len(log') = Len(log) + 1 /\ Len(log) \in Nat
        /\ log' # <<>>
    BY <2>1, Received1
  <2>4. answered' \subseteq 1..Len(log') /\ Len(log') \notin answered'
    BY <2>2, <2>3 DEF OpenInv
  <2>5. pc' = "banks" /\ m.array => m.size <= fEventSize
    <3>1. m.size \in Nat /\ fEventSize \in Nat
      BY <2>3 DEF IsMessage, SizeInv, BufferTypeOK
    <3> QED BY <2>1, <3>1
  <2>6. pc' \in {"event", "banks"}
    BY <2>1
  <2> QED BY <2>1, <2>2, <2>3, <2>4, <2>5, <2>6 DEF OpenInv
<1>3. CASE BankStep
  <2>1. /\ pc \in {"banks", "read"} /\ pc' = "banks" /\ next' = next + 1 /\ next \in Nat
        /\ UNCHANGED <<log, answered>> /\ fEventSize <= fEventSize'
        /\ DOMAIN banks' = DOMAIN banks
        /\ \A i \in DOMAIN banks : i # next => banks'[i] = banks[i]
    BY <1>3, BankSteps DEF clientVars
  <2>2. Handling /\ Last' = Last
    BY <2>1 DEF Handling, Last
  <2>3. IsMessage(Last) /\ DOMAIN banks \subseteq Nat
    <3>1. IsMessage(Last)
      BY <2>2, LastReceived DEF LogInv
    <3> QED BY <2>2, <3>1 DEF OpenInv, IsMessage
  <2>4. \A i \in DOMAIN banks' : i >= next' => banks'[i] = Last.banks[i]
    <3> SUFFICES ASSUME NEW i \in DOMAIN banks, i >= next + 1 PROVE banks'[i] = Last.banks[i]
      BY <2>1
    <3>1. i >= next /\ i # next
      BY <2>1, <2>3
    <3> QED BY <2>1, <2>2, <3>1 DEF OpenInv
  <2>5. Last.array => Last.size <= fEventSize'
    <3>1. Last.size \in Nat /\ fEventSize \in Nat
      BY <2>3 DEF IsMessage, SizeInv, BufferTypeOK
    <3>2. fEventSize' \in Nat
      BY SizeInvNext DEF SizeInv, BufferTypeOK
    <3> QED BY <2>1, <3>1, <3>2 DEF OpenInv
  <2> QED BY <2>1, <2>2, <2>4, <2>5 DEF OpenInv, Open, Handling
<1>4. CASE Load
  BY <1>4 DEF Load, Turn, clientVars, bufferVars, OpenInv, Open, Handling, Last
<1>5. CASE Scan
  BY <1>5 DEF Scan, clientVars, bufferVars, OpenInv, Open, Handling, Last
<1>6. CASE SendEvent
  BY <1>6 DEF SendEvent, clientVars, OpenInv, Open, Handling
<1>7. CASE SendReply
  <2>1. pc = "reply" /\ pc' = "poll" /\ answered' = answered \cup {Len(log)} /\ log' = log
    BY <1>7 DEF SendReply
  <2>2. log # <<>> /\ log \in Seq(plan.messages)
    BY <2>1 DEF OpenInv, Open, LogInv
  <2>3. Len(log) \in 1..Len(log)
    BY <2>2
  <2> QED BY <2>1, <2>3 DEF OpenInv, Open, Handling
<1>8. CASE Construct \/ InitWorker \/ Stop
  BY <1>8 DEF Construct, InitWorker, Stop, clientVars, OpenInv, Open, Handling
<1>9. CASE PollNobody
  BY <1>1, <1>9 DEF PollNobody, FlushBuffer, threadVars, clientVars
<1>10. CASE MidasThread \/ OtherWorkers \/ Analyse \/ UNCHANGED vars
  BY <1>1, <1>10 DEF MidasThread, OtherWorkers, Analyse, threadVars, clientVars, bufferVars, vars, parts
<1> QED BY <1>2, <1>3, <1>4, <1>5, <1>6, <1>7, <1>8, <1>9, <1>10
       DEF Next, TcpThread, Crash, Fatal, ScanNothing, BankStep

-----------------------------------------------------------------------------
(* The queue.                                                               *)

\* What ReplyComplete says of the last reply, whatever the thread does now.
Complete ==
  Len(log) \in answered =>
    /\ IF Failed(reply) THEN Answers(reply) = {}
       ELSE AnswersAsked(reply, Last.banks, Len(Last.banks) + 1)
    /\ reply[Len(reply)] = Message("DATA OK")[1]

\* The queue is empty unless a message is open.  Then it answers the banks handled so
\* far; or it has an error and no answer, and no bank is left to be handled.
ReplyInv ==
  /\ JSONMessageQueue \in Seq(Elements(JSONMessageQueue))
  /\ ~Open => JSONMessageQueue = <<>>
  /\ pc = "event" => ~Clean
  /\ Open /\ Clean =>
       /\ AnswersAsked(JSONMessageQueue, Last.banks, next)
       /\ pc = "reply" => next > Len(Last.banks)
  /\ Open /\ ~Clean =>
       /\ Answers(JSONMessageQueue) = {}
       /\ pc \in {"banks", "scan", "read"} => next \notin DOMAIN Last.banks
  /\ Complete

\* What a step puts behind the queue: an item or none, after a report in debug mode.
LEMMA ReportedItems ==
  ASSUME NEW items, items \in Seq(Elements(items)), Report(items), ~Failed(items)
  PROVE  \E t : /\ t \in Seq(Elements(t)) /\ ~Failed(t)
                /\ JSONMessageQueue' = JSONMessageQueue \o t
                /\ Answers(items) = {} => Answers(t) = {}
                /\ Answers(items) = {1} => \E l : Answers(t) = {l} /\ t[l] = items[1]
<1> DEFINE first == IF fDebugMode THEN Message("Received") ELSE <<>>
           t == first \o items
<1>1. first \in Seq(Elements(first)) /\ ~Failed(first) /\ Answers(first) = {}
  BY ItemAnswers, FailedData, NoItems DEF Message
<1>2. JSONMessageQueue' = JSONMessageQueue \o t
  BY DEF Report, Queue
<1> HIDE DEF first
<1>3. t \in Seq(Elements(t)) /\ ~Failed(t)
  BY <1>1, ItemsOfConcat, FailedConcat
<1>4. Answers(t) = {Len(first) + k : k \in Answers(items)}
  BY <1>1, AnswersOfConcat
<1>5. ASSUME Answers(items) = {1} PROVE \E l : Answers(t) = {l} /\ t[l] = items[1]
  <2>1. 1 \in 1..Len(items)
    <3>1. DOMAIN items = 1..Len(items)
      OBVIOUS
    <3> QED BY <1>5, <3>1 DEF Answers
  <2>2. t[Len(first) + 1] = items[1]
    BY <1>1, <2>1, ItemsOfConcat
  <2>3. Answers(t) = {Len(first) + 1}
    BY <1>4, <1>5
  <2> QED BY <2>2, <2>3
<1> HIDE DEF t
<1> QED BY <1>2, <1>3, <1>4, <1>5

\* A query is answered with one item of its key; no other command is.
LEMMA AnswerOfCommand ==
  ASSUME NEW b, b.what = "command"
  PROVE  LET items == Answer(b.eq)
         IN /\ items \in Seq(Elements(items)) /\ ~Failed(items)
            /\ \/ AnswerKey(b) = "none" /\ Answers(items) = {}
               \/ AnswerKey(b) # "none" /\ Answers(items) = {1} /\ items[1].key = AnswerKey(b)
<1> DEFINE A == Answer(b.eq)
           K == AnswerKey(b)
           Queries == {"GET_EVENT_SIZE", "GET_RUNNO", "GET_RUN_START_T", "GET_RUN_STOP_T",
                       "GET_STATUS", "CHECK_TIME_SYNC"}
<1>1. CASE b.eq \notin Queries
  <2>1. A = <<>> /\ K = "none"
    BY <1>1 DEF Answer, AnswerKey
  <2> QED BY <2>1, NoItems
<1>2. CASE b.eq \in Queries
  <2>1. \E value : A = Data(K, value) /\ K \notin {"msg", "err", "none"}
    <3>1. CASE b.eq = "GET_EVENT_SIZE"
      <4>1. K = "EventSize" /\ A = Data("EventSize", fEventSize)
        BY <3>1 DEF Answer, AnswerKey
      <4> QED BY <4>1
    <3>2. CASE b.eq = "GET_RUNNO"
      <4>1. K = "RunNumber" /\ A = Data("RunNumber", RUNNO)
        BY <3>2 DEF Answer, AnswerKey
      <4> QED BY <4>1
    <3>3. CASE b.eq = "GET_RUN_START_T"
      <4>1. K = "RunStartTime" /\ A = Data("RunStartTime", RUN_START_T)
        BY <3>3 DEF Answer, AnswerKey
      <4> QED BY <4>1
    <3>4. CASE b.eq = "GET_RUN_STOP_T"
      <4>1. K = "RunStopTime" /\ A = Data("RunStopTime", RUN_STOP_T)
        BY <3>4 DEF Answer, AnswerKey
      <4> QED BY <4>1
    <3>5. CASE b.eq = "GET_STATUS"
      <4>1. K = "RunStatus" /\ A = Data("RunStatus", RunStatus)
        BY <3>5 DEF Answer, AnswerKey
      <4> QED BY <4>1
    <3>6. CASE b.eq = "CHECK_TIME_SYNC"
      <4>1. K = "LV_TIME_NOW" /\ A = Data("LV_TIME_NOW", "now")
        BY <3>6 DEF Answer, AnswerKey
      <4> QED BY <4>1
    <3> QED BY <1>2, <3>1, <3>2, <3>3, <3>4, <3>5, <3>6
  <2>2. PICK value : A = Data(K, value) /\ K \notin {"msg", "err", "none"}
    BY <2>1
  <2> HIDE DEF A, K
  <2>3. /\ A \in Seq(Elements(A)) /\ Answers(A) = {1} /\ A[1].key = K /\ ~Failed(A)
    BY <2>2, ItemAnswers, FailedData
  <2> QED BY <2>2, <2>3 DEF A, K
<1> QED BY <1>1, <1>2

\* The bank whose turn it is, is that of the message, and no error was reported.
LEMMA PresentBank ==
  ASSUME LogInv, OpenInv, ReplyInv, pc \in {"banks", "scan", "read"}, next \in DOMAIN banks
  PROVE  /\ Open /\ Handling /\ Clean /\ IsMessage(Last)
         /\ banks[next] = Last.banks[next] /\ next \in DOMAIN Last.banks
         /\ DOMAIN Last.banks = 1..Len(Last.banks) /\ Len(Last.banks) \in Nat
<1>1. Handling /\ Open
  BY DEF Handling, Open
<1>2. DOMAIN banks = DOMAIN Last.banks /\ IsMessage(Last)
  BY <1>1, LastReceived DEF OpenInv
<1>3. next \in Nat /\ next >= next
  BY DEF LogInv
<1>4. banks[next] = Last.banks[next]
  BY <1>1, <1>3 DEF OpenInv
<1>5. Clean
  BY <1>1, <1>2 DEF ReplyInv
<1> QED BY <1>1, <1>2, <1>4, <1>5 DEF IsMessage

\* A bank is done with: it asked for nothing, or was answered, or was too big and
\* the only one.
LEMMA DoneWithBank ==
  ASSUME LogInv, SizeInv, OpenInv, ReplyInv, BankStep, next \in DOMAIN banks,
         NEW t, t \in Seq(Elements(t)), JSONMessageQueue' = JSONMessageQueue \o t,
         \/ ~Failed(t) /\ Answers(t) = {} /\ AnswerKey(banks[next]) = "none"
         \/ /\ ~Failed(t) /\ AnswerKey(banks[next]) # "none"
            /\ \E l : Answers(t) = {l} /\ t[l].key = AnswerKey(banks[next])
         \/ Failed(t) /\ Answers(t) = {} /\ Len(Last.banks) = 1
  PROVE  ReplyInv'
<1> DEFINE q == JSONMessageQueue
           bs == Last.banks
<1>1. /\ pc \in {"banks", "read"} /\ pc' = "banks" /\ next' = next + 1 /\ next \in Nat
      /\ UNCHANGED <<log, answered, reply>>
  BY BankSteps DEF clientVars
<1>2. /\ Clean /\ Open /\ banks[next] = bs[next] /\ next \in DOMAIN bs
      /\ DOMAIN bs = 1..Len(bs) /\ Len(bs) \in Nat
  BY <1>1, PresentBank
<1>3. q \in Seq(Elements(q)) /\ AnswersAsked(q, bs, next) /\ Complete
  BY <1>2 DEF ReplyInv
<1>4. Last' = Last /\ Open'
  BY <1>1 DEF Last, Open, Handling
<1>5. q' \in Seq(Elements(q'))
  BY <1>3, ItemsOfConcat
<1>6. Clean' <=> ~Failed(t)
  BY <1>2, <1>3, FailedConcat DEF Clean
<1>7. Complete'
  BY <1>1, <1>3, <1>4 DEF Complete
<1>8. DOMAIN bs \subseteq Nat
  BY <1>2
<1>9. CASE ~Failed(t) /\ Answers(t) = {} /\ AnswerKey(banks[next]) = "none"
  <2>1. AnswersAsked(q \o t, bs, next)
    BY <1>3, <1>9, TextAnswersNothing
  <2>2. AnswerKey(bs[next]) = "none"
    BY <1>2, <1>9
  <2> HIDE DEF bs
  <2>3. AnswersAsked(q \o t, bs, next + 1)
    BY <1>1, <1>8, <2>1, <2>2, NothingAsked
  <2>4. AnswersAsked(q', bs, next')
    BY <1>1, <2>3
  <2> QED BY <1>1, <1>4, <1>5, <1>6, <1>7, <1>9, <2>4 DEF ReplyInv, bs
<1>10. CASE /\ ~Failed(t) /\ AnswerKey(banks[next]) # "none"
            /\ \E l : Answers(t) = {l} /\ t[l].key = AnswerKey(banks[next])
  <2>1. PICK l : Answers(t) = {l} /\ t[l].key = AnswerKey(banks[next])
    BY <1>10
  <2>2. AnswerKey(bs[next]) # "none" /\ t[l].key = AnswerKey(bs[next])
    BY <1>2, <1>10, <2>1
  <2> HIDE DEF bs
  <2>3. AnswersAsked(q \o t, bs, next + 1)
    BY <1>1, <1>2, <1>3, <1>8, <2>1, <2>2, AnswerAppended
  <2>4. AnswersAsked(q', bs, next')
    BY <1>1, <2>3
  <2> QED BY <1>1, <1>4, <1>5, <1>6, <1>7, <1>10, <2>4 DEF ReplyInv, bs
<1>11. CASE Failed(t) /\ Answers(t) = {} /\ Len(bs) = 1
  <2>1. next = 1 /\ next' \notin DOMAIN bs
    BY <1>1, <1>2, <1>11
  <2>2. Asked(bs, next) = {}
    BY <1>2, <2>1 DEF Asked
  <2>3. Answers(q) = {}
    BY <1>3, <2>2 DEF AnswersAsked
  <2>4. Answers(q') = {}
    BY <1>3, <1>11, <2>3, AnswersOfConcat
  <2> QED BY <1>1, <1>4, <1>5, <1>6, <1>7, <1>11, <2>1, <2>4 DEF ReplyInv
<1> QED BY <1>9, <1>10, <1>11

\* What each step puts behind the queue is what DoneWithBank asks for.
LEMMA BankKeepsReply ==
  ASSUME LogInv, SizeInv, OpenInv, ReplyInv, BankStep
  PROVE  ReplyInv'
<1> DEFINE Does(t) == /\ t \in Seq(Elements(t)) /\ JSONMessageQueue' = JSONMessageQueue \o t
                      /\ \/ ~Failed(t) /\ Answers(t) = {} /\ AnswerKey(banks[next]) = "none"
                         \/ /\ ~Failed(t) /\ AnswerKey(banks[next]) # "none"
                            /\ \E l : Answers(t) = {l} /\ t[l].key = AnswerKey(banks[next])
                         \/ Failed(t) /\ Answers(t) = {} /\ Len(Last.banks) = 1
<1>1. next \in DOMAIN banks /\ pc \in {"banks", "scan", "read"}
  BY DEF BankStep, BankTooBig, LogData, AnswerCommand, ChangeEventSize, Talk, Ignore, Save,
         ReadFile, Turn, OpenInv
<1>2. /\ Open /\ IsMessage(Last) /\ banks[next] = Last.banks[next] /\ next \in DOMAIN Last.banks
  BY <1>1, PresentBank
<1>3. CASE BankTooBig
  <2>1. JSONMessageQueue' = JSONMessageQueue \o Error("More bytes sent")
    BY <1>3 DEF BankTooBig, Queue
  <2>2. /\ Error("More bytes sent") \in Seq(Elements(Error("More bytes sent")))
        /\ Failed(Error("More bytes sent")) /\ Answers(Error("More bytes sent")) = {}
    BY ItemAnswers, FailedData DEF Error
  <2>3. pc = "banks" /\ banks[next].block > fEventSize
    BY <1>3 DEF BankTooBig
  <2>4. /\ Last.banks[next].block \in Nat /\ Last.size \in Nat
        /\ Last.banks[next].block <= Last.size /\ fEventSize \in Nat
    BY <1>2 DEF IsMessage, IsBank, SizeInv, BufferTypeOK
  <2>5. Last.array => Last.size <= fEventSize
    BY <2>3 DEF OpenInv
  <2>6. Len(Last.banks) = 1
    BY <1>2, <2>3, <2>4, <2>5 DEF IsMessage
  <2>7. Does(Error("More bytes sent"))
    BY <2>1, <2>2, <2>6
  <2> HIDE DEF Does
  <2>8. \E t : Does(t)
    BY <2>7
  <2> QED BY <1>1, <2>8, DoneWithBank DEF Does
<1>4. CASE LogData \/ ChangeEventSize \/ Talk \/ Ignore \/ Save
  <2>1. Report(<<>>)
    BY <1>4 DEF LogData, ChangeEventSize, Talk, Ignore, Save
  <2>2. PICK t : /\ t \in Seq(Elements(t)) /\ ~Failed(t)
                 /\ JSONMessageQueue' = JSONMessageQueue \o t /\ Answers(t) = {}
    BY <2>1, NoItems, ReportedItems
  <2>3. \/ banks[next].what \in {"data", "talk", "ignored", "file", "save"}
        \/ banks[next].what = "command" /\ banks[next].eq = "SET_EVENT_SIZE"
    BY <1>4 DEF LogData, ChangeEventSize, Talk, Ignore, Save, Turn
  <2>4. AnswerKey(banks[next]) = "none"
    BY <2>3 DEF AnswerKey
  <2> QED BY <1>1, <1>4, <2>2, <2>4, DoneWithBank DEF BankStep
<1>5. CASE AnswerCommand
  <2> DEFINE items == Answer(banks[next].eq)
             K == AnswerKey(banks[next])
  <2>1. banks[next].what = "command" /\ Report(items)
    BY <1>5 DEF AnswerCommand, Turn
  <2>2. /\ items \in Seq(Elements(items)) /\ ~Failed(items)
        /\ \/ K = "none" /\ Answers(items) = {}
           \/ K # "none" /\ Answers(items) = {1} /\ items[1].key = K
    BY <2>1, AnswerOfCommand
  <2> HIDE DEF items
  <2>3. PICK t : /\ t \in Seq(Elements(t)) /\ ~Failed(t)
                 /\ JSONMessageQueue' = JSONMessageQueue \o t
                 /\ Answers(items) = {} => Answers(t) = {}
                 /\ Answers(items) = {1} => \E l : Answers(t) = {l} /\ t[l] = items[1]
    BY <2>1, <2>2, ReportedItems
  <2>4. \/ K = "none" /\ Answers(t) = {}
        \/ K # "none" /\ \E l : Answers(t) = {l} /\ t[l].key = K
    BY <2>2, <2>3
  <2>5. Does(t)
    BY <2>3, <2>4
  <2> HIDE DEF Does
  <2> QED BY <1>1, <2>5, DoneWithBank DEF Does
<1>6. CASE ReadFile
  <2> DEFINE t == Data("SettingsFile", [file |-> banks[next].arg, time |-> chosen.time])
  <2>1. JSONMessageQueue' = JSONMessageQueue \o t /\ pc = "read"
    BY <1>6 DEF ReadFile, Queue
  <2>2. /\ t \in Seq(Elements(t)) /\ ~Failed(t)
        /\ Answers(t) = {1} /\ t[1].key = "SettingsFile"
    BY ItemAnswers, FailedData
  <2>3. AnswerKey(banks[next]) = "SettingsFile"
    BY <2>1 DEF OpenInv, AnswerKey
  <2> HIDE DEF t
  <2>4. Does(t)
    BY <2>1, <2>2, <2>3
  <2> HIDE DEF Does
  <2> QED BY <1>1, <2>4, DoneWithBank DEF Does
<1> QED BY <1>3, <1>4, <1>5, <1>6 DEF BankStep

LEMMA ReplyInvNext ==
  LogInv /\ SizeInv /\ OpenInv /\ ReplyInv /\ [Next]_vars => ReplyInv'
<1> SUFFICES ASSUME LogInv, SizeInv, OpenInv, ReplyInv, [Next]_vars PROVE ReplyInv'
  OBVIOUS
<1>1. CASE UNCHANGED <<log, answered, reply, pc, next, JSONMessageQueue>>
  BY <1>1 DEF ReplyInv, Complete, Open, Handling, Clean, Last
<1>2. CASE Receive
  <2>1. PICK m \in plan.messages :
          /\ log' = Append(log, m) /\ next' = 1
          /\ \/ pc' = "event" /\ JSONMessageQueue' = JSONMessageQueue \o Error("More bytes sent")
             \/ pc' = "banks" /\ JSONMessageQueue' = JSONMessageQueue
    BY <1>2 DEF Receive, Queue
  <2>2. /\ Last' = m /\ IsMessage(m) /\ Len(log') = Len(log) + 1 /\ Len(log) \in Nat
    BY <2>1, Received1
  <2>3. JSONMessageQueue = <<>> /\ pc = "poll"
    BY <1>2 DEF Receive, ReplyInv, Open, Handling
  <2>4. Len(log') \notin answered'
    <3>1. answered' = answered /\ answered \subseteq 1..Len(log)
      BY <1>2 DEF Receive, OpenInv
    <3> QED BY <2>2, <3>1
  <2>5. Complete'
    BY <2>4 DEF Complete
  <2>6. Open'
    BY <2>1 DEF Open, Handling
  <2>7. CASE pc' = "event" /\ JSONMessageQueue' = JSONMessageQueue \o Error("More bytes sent")
    <3>1. /\ Error("More bytes sent") \in Seq(Elements(Error("More bytes sent")))
          /\ Failed(Error("More bytes sent")) /\ Answers(Error("More bytes sent")) = {}
      BY ItemAnswers, FailedData DEF Error
    <3> DEFINE e == Error("More bytes sent")
    <3> HIDE DEF e
    <3>2. JSONMessageQueue' = <<>> \o e
      BY <2>3, <2>7 DEF e
    <3>3. e \in Seq(Elements(e)) /\ Failed(e) /\ Answers(e) = {}
      BY <3>1 DEF e
    <3>4. <<>> \o e = e
      BY <3>3
    <3>5. JSONMessageQueue' = e
      BY <3>2, <3>4
    <3> QED BY <2>5, <2>6, <2>7, <3>3, <3>5 DEF ReplyInv, Clean
  <2>8. CASE pc' = "banks" /\ JSONMessageQueue' = JSONMessageQueue
    <3>1. JSONMessageQueue' = <<>> /\ Clean'
      BY <2>3, <2>8, NoItems DEF Clean
    <3>2. Asked(m.banks, 1) = {}
      BY <2>2 DEF Asked, IsMessage
    <3>3. AnswersAsked(<<>>, m.banks, 1)
      <4> DEFINE none == [k \in {} |-> k]
      <4>1. none \in [Answers(<<>>) -> Asked(m.banks, 1)]
        BY <3>2, NoItems
      <4> HIDE DEF none
      <4> QED BY <3>2, <4>1, NoItems DEF AnswersAsked
    <3> QED BY <2>1, <2>2, <2>5, <2>6, <2>8, <3>1, <3>3, NoItems DEF ReplyInv
  <2> QED BY <2>1, <2>7, <2>8
<1>3. CASE BankStep
  BY <1>3, BankKeepsReply
<1>4. CASE Load
  <2>1. /\ pc = "banks" /\ pc' = "scan" /\ UNCHANGED <<log, answered, reply, next>>
        /\ Report(<<>>) /\ next \in DOMAIN banks
    BY <1>4 DEF Load, Turn, clientVars
  <2>2. PICK t : /\ t \in Seq(Elements(t)) /\ ~Failed(t)
                 /\ JSONMessageQueue' = JSONMessageQueue \o t /\ Answers(t) = {}
    BY <2>1, NoItems, ReportedItems
  <2>3. Open /\ Clean
    BY <2>1, PresentBank
  <2>4. /\ JSONMessageQueue \in Seq(Elements(JSONMessageQueue)) /\ Complete
        /\ AnswersAsked(JSONMessageQueue, Last.banks, next)
    BY <2>3 DEF ReplyInv
  <2>5. JSONMessageQueue' \in Seq(Elements(JSONMessageQueue')) /\ Clean'
    BY <2>2, <2>3, <2>4, ItemsOfConcat, FailedConcat DEF Clean
  <2>6. AnswersAsked(JSONMessageQueue', Last.banks, next)
    BY <2>2, <2>4, TextAnswersNothing
  <2>7. Last' = Last /\ Complete' /\ Open'
    BY <2>1, <2>4 DEF Last, Complete, Open, Handling
  <2> QED BY <2>1, <2>5, <2>6, <2>7 DEF ReplyInv
<1>5. CASE Scan
  BY <1>5 DEF Scan, clientVars, ReplyInv, Complete, Open, Handling, Clean, Last
<1>6. CASE SendEvent
  <2>1. /\ pc = "event" \/ (pc = "banks" /\ next > Len(banks))
        /\ pc' = "reply"
        /\ UNCHANGED <<log, answered, reply, next, JSONMessageQueue>>
    BY <1>6 DEF SendEvent, clientVars
  <2>2. Handling /\ Open /\ Open'
    BY <2>1 DEF Handling, Open
  <2>3. Clean => next > Len(Last.banks)
    <3>1. CASE pc = "event"
      BY <3>1 DEF ReplyInv
    <3>2. CASE pc = "banks" /\ next > Len(banks)
      <4>1. IsMessage(Last) /\ DOMAIN banks = DOMAIN Last.banks
        BY <2>2, LastReceived DEF OpenInv
      <4>2. next \in Nat /\ next > Len(banks)
        BY <3>2 DEF LogInv
      <4>3. next \notin DOMAIN Last.banks
        <5>1. Len(Last.banks) = Len(banks)
          BY <4>1 DEF IsMessage
        <5> QED BY <4>1, <4>2, <5>1 DEF IsMessage
      <4> QED BY <4>1, <4>2, <4>3 DEF IsMessage, LogInv
    <3> QED BY <2>1, <3>1, <3>2
  <2>4. Last' = Last /\ Complete' /\ (Clean' <=> Clean)
    BY <2>1 DEF Last, Complete, ReplyInv, Clean
  <2> QED BY <2>1, <2>2, <2>3, <2>4 DEF ReplyInv
<1>7. CASE SendReply
  <2>1. /\ pc = "reply" /\ pc' = "poll" /\ UNCHANGED <<log, next>>
        /\ reply' = JSONMessageQueue \o Message("DATA OK") /\ JSONMessageQueue' = <<>>
    BY <1>7 DEF SendReply, ReadMessageQueue
  <2>2. Open /\ ~Open' /\ log # <<>> /\ Last' = Last
    BY <2>1 DEF Open, Handling, OpenInv, Last
  <2> DEFINE q == JSONMessageQueue
             ok == Message("DATA OK")
  <2>3. /\ ok \in Seq(Elements(ok)) /\ ~Failed(ok) /\ Answers(ok) = {} /\ Len(ok) = 1
    BY ItemAnswers, FailedData DEF Message
  <2>4. q \in Seq(Elements(q))
    BY DEF ReplyInv
  <2> HIDE DEF ok
  <2>5. Failed(reply') <=> ~Clean
    BY <2>1, <2>3, <2>4, FailedConcat DEF Clean, ok
  <2>6. Clean => AnswersAsked(reply', Last.banks, Len(Last.banks) + 1)
    <3> SUFFICES ASSUME Clean PROVE AnswersAsked(reply', Last.banks, Len(Last.banks) + 1)
      OBVIOUS
    <3>1. AnswersAsked(q, Last.banks, next) /\ next > Len(Last.banks)
      BY <2>1, <2>2 DEF ReplyInv
    <3>2. AnswersAsked(q \o ok, Last.banks, next)
      BY <2>3, <2>4, <3>1, TextAnswersNothing
    <3>3. IsMessage(Last) /\ next \in Nat
      BY <2>2, LastReceived DEF LogInv
    <3> QED BY <2>1, <3>1, <3>2, <3>3, AllAsked DEF IsMessage, ok
  <2>7. ~Clean => Answers(reply') = {}
    <3> SUFFICES ASSUME ~Clean PROVE Answers(q \o ok) = {}
      BY <2>1 DEF ok
    <3>1. Answers(q) = {}
      BY <2>2 DEF ReplyInv
    <3> QED BY <2>3, <2>4, <3>1, AnswersOfConcat
  <2>8. reply'[Len(reply')] = Message("DATA OK")[1]
    <3>1. /\ Len(q \o ok) = Len(q) + 1 /\ 1 \in 1..Len(ok)
          /\ (q \o ok)[Len(q) + 1] = ok[1]
      <4>1. Len(q) \in Nat /\ 1 \in 1..Len(ok)
        BY <2>3, <2>4
      <4> HIDE DEF q
      <4>2. /\ Len(q \o ok) = Len(q) + Len(ok)
            /\ \A k \in 1..Len(ok) : (q \o ok)[Len(q) + k] = ok[k]
        BY <2>3, <2>4, ItemsOfConcat
      <4> QED BY <2>3, <4>1, <4>2
    <3> QED BY <2>1, <3>1 DEF ok
  <2>9. Complete'
    BY <2>2, <2>5, <2>6, <2>7, <2>8 DEF Complete
  <2> QED BY <2>1, <2>2, <2>9, NoItems DEF ReplyInv
<1>8. CASE Construct \/ InitWorker \/ Stop
  <2>1. UNCHANGED <<log, answered, reply>> /\ ~Open' /\ (Stop \/ ~Open)
    BY <1>8 DEF Construct, InitWorker, Stop, clientVars, Open, Handling
  <2>2. JSONMessageQueue' = <<>>
    BY <1>8, <2>1 DEF Construct, InitWorker, Stop, ReplyInv
  <2>3. Complete'
    BY <2>1 DEF ReplyInv, Complete, Last
  <2>4. pc' # "event"
    BY <2>1 DEF Open, Handling
  <2> QED BY <2>1, <2>2, <2>3, <2>4, NoItems DEF ReplyInv
<1>9. CASE PollNobody \/ MidasThread \/ OtherWorkers \/ Analyse \/ UNCHANGED vars
  BY <1>1, <1>9 DEF PollNobody, MidasThread, OtherWorkers, Analyse, threadVars, clientVars, vars, parts
<1> QED BY <1>2, <1>3, <1>4, <1>5, <1>6, <1>7, <1>8, <1>9
       DEF Next, TcpThread, Crash, Fatal, ScanNothing, BankStep

LEMMA RepliesAlways == Spec => [](OpenInv /\ ReplyInv)
<1>1. Init => OpenInv /\ ReplyInv
  BY NoItems DEF Init, OpenInv, ReplyInv, Complete, Open, Handling
<1> QED BY <1>1, OpenInvNext, ReplyInvNext, SizesAlways, PTL DEF Spec

\* A reply answers its message and no other, in the order asked, or has an error and
\* no answer, whoever was interrupted before and whatever ended the process (one
\* MessageHandler queue for all clients, filled by HandleBank, read out by ServeHost).
THEOREM ReplyAlwaysComplete == Spec => []ReplyComplete
<1>1. ReplyInv => ReplyComplete
  BY DEF ReplyInv, Complete, ReplyComplete
<1> QED BY <1>1, RepliesAlways, PTL
=============================================================================
