------------------------ MODULE WorkerDeliveryProofs ------------------------
(***************************************************************************)
(* Worker implements Delivery.  Of a worker's state the abstract one is    *)
(* the number of messages received, the stage of the last one, and the     *)
(* numbers in the events that wait; each step of the worker is one step    *)
(* there or none.  The order of the events is proved there and inherited.  *)
(***************************************************************************)
EXTENDS WorkerReplyProofs

EventsInv == events \in Seq(Elements(events))

\* The numbers in a sequence of events.
Numbers(es) == [k \in DOMAIN es |-> es[k].msg]

LEMMA NumbersOfAppend ==
  ASSUME NEW S, NEW es \in Seq(S), NEW e
  PROVE  Numbers(Append(es, e)) = Append(Numbers(es), e.msg)
<1> DEFINE a == Append(es, e)
           T == {es[k].msg : k \in DOMAIN es}
           b == Append(Numbers(es), e.msg)
<1>1. Len(es) \in Nat /\ DOMAIN es = 1..Len(es)
  OBVIOUS
<1>2. DOMAIN a = 1..(Len(es) + 1) /\ a[Len(es) + 1] = e /\ \A k \in 1..Len(es) : a[k] = es[k]
  OBVIOUS
<1>3. Numbers(es) \in Seq(T) /\ Len(Numbers(es)) = Len(es)
  <2>1. Numbers(es) \in [1..Len(es) -> T]
    BY <1>1 DEF Numbers
  <2> HIDE DEF T
  <2> QED BY <1>1, <2>1
<1> HIDE DEF T
<1>4. /\ b = [k \in DOMAIN b |-> b[k]] /\ DOMAIN b = 1..(Len(es) + 1) /\ b[Len(es) + 1] = e.msg
      /\ \A k \in 1..Len(es) : b[k] = Numbers(es)[k]
  BY <1>1, <1>3
<1>5. \A k \in 1..Len(es) : Numbers(es)[k] = es[k].msg
  BY <1>1 DEF Numbers
<1> HIDE DEF a, b
<1>6. \A k \in 1..(Len(es) + 1) : a[k].msg = b[k]
  <2>1. \A k \in 1..(Len(es) + 1) : k \in 1..Len(es) \/ k = Len(es) + 1
    BY <1>1
  <2> QED BY <1>2, <1>4, <1>5, <2>1
<1>7. Numbers(a) = [k \in 1..(Len(es) + 1) |-> a[k].msg]
  BY <1>2 DEF Numbers
<1> QED BY <1>4, <1>6, <1>7 DEF a, b

LEMMA NumbersOfTail ==
  ASSUME NEW S, NEW es \in Seq(S), es # <<>>
  PROVE  Numbers(es) # <<>> /\ Numbers(Tail(es)) = Tail(Numbers(es))
<1> DEFINE T == {es[k].msg : k \in DOMAIN es}
           t == Tail(es)
           b == Tail(Numbers(es))
<1>1. Len(es) \in Nat /\ Len(es) # 0 /\ DOMAIN es = 1..Len(es)
  OBVIOUS
<1>2. DOMAIN t = 1..(Len(es) - 1) /\ \A k \in 1..(Len(es) - 1) : t[k] = es[k + 1]
  BY <1>1
<1>3. Numbers(es) \in Seq(T) /\ Len(Numbers(es)) = Len(es)
  <2>1. Numbers(es) \in [1..Len(es) -> T]
    BY <1>1 DEF Numbers
  <2> HIDE DEF T
  <2> QED BY <1>1, <2>1
<1> HIDE DEF T
<1>4. /\ b = [k \in DOMAIN b |-> b[k]] /\ DOMAIN b = 1..(Len(es) - 1)
      /\ \A k \in 1..(Len(es) - 1) : b[k] = Numbers(es)[k + 1]
  <2>1. Numbers(es) # <<>>
    BY <1>1, <1>3
  <2>2. b \in Seq(T) /\ Len(b) = Len(es) - 1
    BY <1>1, <1>3, <2>1
  <2>3. \A k \in 1..(Len(es) - 1) : b[k] = Numbers(es)[k + 1]
    BY <1>1, <1>3, <2>1
  <2> HIDE DEF b
  <2> QED BY <1>1, <2>2, <2>3
<1>5. \A k \in 1..(Len(es) - 1) : k + 1 \in DOMAIN es
  BY <1>1
<1> HIDE DEF t, b
<1>6. \A k \in 1..(Len(es) - 1) : t[k].msg = b[k]
  BY <1>2, <1>4, <1>5 DEF Numbers
<1>7. Numbers(t) = [k \in 1..(Len(es) - 1) |-> t[k].msg]
  BY <1>2 DEF Numbers
<1>8. Numbers(es) # <<>>
  BY <1>1, <1>3
<1> QED BY <1>4, <1>6, <1>7, <1>8 DEF t, b

LEMMA EventsInvNext ==
  ASSUME EventsInv, [Next]_vars
  PROVE  EventsInv'
<1>1. CASE UNCHANGED events
  BY <1>1 DEF EventsInv
<1>2. CASE SendEvent
  <2>1. PICK e : events' = Append(events, e)
    BY <1>2 DEF SendEvent
  <2> DEFINE S == Elements(events) \cup {e}
  <2>2. events \in Seq(S)
    <3>1. Elements(events) \subseteq S
      OBVIOUS
    <3> HIDE DEF S
    <3> QED BY <3>1 DEF EventsInv
  <2>3. e \in S
    OBVIOUS
  <2> HIDE DEF S
  <2>4. events' \in Seq(S)
    BY <2>1, <2>2, <2>3
  <2> QED BY <2>4, SeqOfElements DEF EventsInv
<1>3. CASE Analyse
  <2>1. events # <<>> /\ events' = Tail(events)
    BY <1>3 DEF Analyse, AnalyzeFlowEvent
  <2> QED BY <2>1, TailElements, SeqOfElements DEF EventsInv
<1>4. CASE BankStep
  BY <1>1, <1>4 DEF BankStep, BankTooBig, LogData, AnswerCommand, ChangeEventSize, Talk, Ignore, Save,
                    ReadFile, analyserVars
<1>5. CASE Load \/ Scan \/ Receive \/ SendReply \/ PollNobody
  BY <1>1, <1>5 DEF Load, Scan, Receive, SendReply, PollNobody, analyserVars
<1>6. CASE Construct \/ InitWorker \/ Stop \/ MidasThread \/ OtherWorkers \/ UNCHANGED vars
  BY <1>1, <1>6 DEF Construct, InitWorker, Stop, MidasThread, OtherWorkers, vars, parts, analyserVars
<1> QED BY <1>2, <1>3, <1>4, <1>5, <1>6
       DEF Next, TcpThread, Crash, Fatal, ScanNothing, BankStep

-----------------------------------------------------------------------------
(* The steps of a worker as steps of Delivery.                               *)

LEMMA DeliveryInit == Init => D!Init
<1> SUFFICES ASSUME Init PROVE D!Init
  OBVIOUS
<1>1. log = <<>> /\ pc = "down" /\ events = <<>> /\ answered = {}
  BY DEF Init, AnalyserInit
<1>2. Waiting = <<>>
  BY <1>1 DEF Waiting
<1>3. Len(log) = 0 /\ Stage = "idle"
  BY <1>1 DEF Stage
<1> QED BY <1>1, <1>2, <1>3 DEF D!Init

LEMMA DeliveryQuiet ==
  ASSUME UNCHANGED <<log, events, answered>>, Stage' = Stage
  PROVE  UNCHANGED D!deliveryVars
BY DEF D!deliveryVars, Waiting

\* A message received is one more, whatever its size.
LEMMA DeliveryReceive == ASSUME LogInv, Receive PROVE D!Receive
<1>1. PICK m \in plan.messages : log' = Append(log, m)
  BY DEF Receive
<1>2. Len(log') = Len(log) + 1
  BY <1>1 DEF LogInv
<1>3. /\ pc = "poll" /\ pc' \in {"banks", "event"} /\ UNCHANGED <<answered, events>>
  BY DEF Receive, analyserVars
<1>4. Stage = "idle" /\ Stage' = "handled" /\ Waiting' = Waiting
  BY <1>3 DEF Stage, Waiting
<1> QED BY <1>2, <1>3, <1>4 DEF D!Receive

LEMMA DeliveryStore == ASSUME EventsInv, SendEvent PROVE D!Store
<1> DEFINE e == [msg |-> Len(log), banks |-> banks]
<1>1. /\ pc \in {"event", "banks"} /\ pc' = "reply" /\ events' = Append(events, e)
      /\ UNCHANGED <<log, answered>> /\ e.msg = Len(log)
  BY DEF SendEvent, clientVars
<1> HIDE DEF e
<1>2. Numbers(events') = Append(Numbers(events), e.msg)
  BY <1>1, NumbersOfAppend DEF EventsInv
<1>3. Waiting' = Append(Waiting, Len(log))
  BY <1>1, <1>2 DEF Waiting, Numbers
<1>4. Stage = "handled" /\ Stage' = "stored"
  BY <1>1 DEF Stage
<1> QED BY <1>1, <1>3, <1>4 DEF D!Store

LEMMA DeliveryAnswer == ASSUME SendReply PROVE D!Answer
<1>1. /\ pc = "reply" /\ pc' = "poll" /\ answered' = answered \cup {Len(log)}
      /\ UNCHANGED <<log, events>>
  BY DEF SendReply, analyserVars
<1> QED BY <1>1 DEF D!Answer, Stage, Waiting

\* The end of the process closes the message that is open, if one is.
LEMMA DeliveryStop == ASSUME Stop PROVE D!Lose \/ UNCHANGED D!deliveryVars
<1>1. pc' = "down" /\ UNCHANGED <<log, events, answered>>
  BY DEF Stop, clientVars, analyserVars
<1>2. Stage' = "idle" /\ Waiting' = Waiting
  BY <1>1 DEF Stage, Waiting
<1> QED BY <1>1, <1>2 DEF D!Lose, D!deliveryVars

LEMMA DeliveryAnalyse == ASSUME EventsInv, Analyse PROVE D!Analyse
<1>1. /\ events # <<>> /\ events' = Tail(events) /\ UNCHANGED <<pc, log, answered>>
  BY DEF Analyse, AnalyzeFlowEvent, threadVars, clientVars
<1>2. Numbers(events) # <<>> /\ Numbers(events') = Tail(Numbers(events))
  BY <1>1, NumbersOfTail DEF EventsInv
<1>3. Waiting # <<>> /\ Waiting' = Tail(Waiting)
  BY <1>2 DEF Waiting, Numbers
<1>4. Stage' = Stage
  BY <1>1 DEF Stage
<1> QED BY <1>1, <1>3, <1>4 DEF D!Analyse

LEMMA DeliveryStep ==
  ASSUME LogInv, EventsInv, [Next]_vars
  PROVE  D!Next \/ UNCHANGED D!deliveryVars
<1>1. CASE Receive
  BY <1>1, DeliveryReceive DEF D!Next
<1>2. CASE SendEvent
  BY <1>2, DeliveryStore DEF D!Next
<1>3. CASE SendReply
  BY <1>3, DeliveryAnswer DEF D!Next
<1>4. CASE Stop
  BY <1>4, DeliveryStop DEF D!Next
<1>5. CASE Analyse
  BY <1>5, DeliveryAnalyse DEF D!Next
<1>6. CASE BankStep
  <2>1. pc \in {"banks", "read"} /\ pc' = "banks" /\ UNCHANGED <<log, answered, events>>
    BY <1>6 DEF BankStep, BankTooBig, LogData, AnswerCommand, ChangeEventSize, Talk, Ignore, Save,
                ReadFile, Turn, Done, clientVars, analyserVars
  <2> QED BY <2>1, DeliveryQuiet DEF Stage
<1>7. CASE Load \/ Scan
  <2>1. /\ pc \in {"banks", "scan"} /\ pc' \in {"scan", "read"}
        /\ UNCHANGED <<log, answered, events>>
    BY <1>7 DEF Load, Scan, Turn, clientVars, analyserVars
  <2> QED BY <2>1, DeliveryQuiet DEF Stage
<1>8. CASE Construct \/ InitWorker
  <2>1. /\ pc \in {"down", "start", "stop", "register", "init"}
        /\ pc' \in {"start", "stop", "register", "init", "poll"}
        /\ UNCHANGED <<log, answered, events>>
    BY <1>8 DEF Construct, InitWorker, clientVars, analyserVars
  <2> QED BY <2>1, DeliveryQuiet DEF Stage
<1>9. CASE PollNobody \/ MidasThread \/ OtherWorkers \/ UNCHANGED vars
  <2>1. UNCHANGED <<pc, log, answered, events>>
    BY <1>9 DEF PollNobody, MidasThread, OtherWorkers, threadVars, clientVars, analyserVars, vars, parts
  <2> QED BY <2>1, DeliveryQuiet DEF Stage
<1> QED BY <1>1, <1>2, <1>3, <1>4, <1>5, <1>6, <1>7, <1>8, <1>9
       DEF Next, TcpThread, Crash, Fatal, ScanNothing, BankStep

LEMMA EventsAlways == Spec => [](LogInv /\ EventsInv)
<1>1. Init => EventsInv
  BY EmptyItems DEF Init, AnalyserInit, EventsInv
<1> QED BY <1>1, EventsInvNext, SizesAlways, PTL DEF Spec

\* A worker delivers: each message's event is stored, once, before it is answered, a
\* message interrupted by the end of the process is never answered, and the analyser
\* takes the events in the messages' order (ServeHost: SendEvent, then the reply).
THEOREM WorkerImplementsDelivery == Spec => ImplementsDelivery
<1>1. LogInv /\ EventsInv /\ [Next]_vars => [D!Next]_(D!deliveryVars)
  BY DeliveryStep
<1> QED BY <1>1, DeliveryInit, EventsAlways, PTL DEF Spec, ImplementsDelivery, D!Spec

=============================================================================
