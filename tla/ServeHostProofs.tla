-------------------------- MODULE ServeHostProofs --------------------------
(* Theorems about a serving thread, for any number of connections, any      *)
(* messages and any limits.                                                 *)
EXTENDS ServeHost, TLAPS

LEMMA MessageType ==
  ASSUME NEW m \in Messages
  PROVE  /\ m.size \in Nat \ {0}
         /\ m.bank \in BOOLEAN /\ m.named \in BOOLEAN
         /\ m.allowed \in BOOLEAN /\ m.whole \in BOOLEAN
BY MessageAssumption

-----------------------------------------------------------------------------
(* Type correctness.  A thread that is past accept serves a connection.     *)

TypeInv == TypeOK /\ (pc # "accept" => conn \in Conn)

LEMMA TypeInit == Init => TypeInv
<1> SUFFICES ASSUME Init PROVE TypeInv
  OBVIOUS
<1>1. \A c \in Conn : message[c].size \in Nat
  BY MessageType, TrafficAssumption DEF Init
<1> QED BY <1>1, TrafficAssumption DEF Init, TypeInv, TypeOK

LEMMA TypeClient ==
  ASSUME TypeInv, NEW c \in Conn, Connect(c) \/ Send(c) \/ CloseEarly(c)
  PROVE  TypeInv'
<1>1. CASE Connect(c)
  <2>1. backlog' \in Seq(Conn)
    BY <1>1 DEF Connect, TypeInv, TypeOK
  <2> QED BY <1>1, <2>1 DEF Connect, TypeInv, TypeOK, reading
<1>2. CASE Send(c)
  <2>1. PICK n \in 1..unsent[c] : /\ unsent' = [unsent EXCEPT ![c] = @ - n]
                                  /\ arrived' = [arrived EXCEPT ![c] = @ + n]
    BY <1>2 DEF Send
  <2>2. unsent[c] \in Nat /\ arrived[c] \in Nat
    BY DEF TypeInv, TypeOK
  <2>3. unsent[c] - n \in Nat /\ arrived[c] + n \in Nat
    BY <2>2
  <2>4. unsent' \in [Conn -> Nat] /\ arrived' \in [Conn -> Nat]
    BY <2>1, <2>3 DEF TypeInv, TypeOK
  <2> QED BY <1>2, <2>4 DEF Send, TypeInv, TypeOK, reading
<1>3. CASE CloseEarly(c)
  BY <1>3 DEF CloseEarly, TypeInv, TypeOK, reading
<1> QED BY <1>1, <1>2, <1>3

LEMMA TypeThread == TypeInv /\ Thread => TypeInv'
<1> SUFFICES ASSUME TypeInv, Thread PROVE TypeInv'
  OBVIOUS
<1>0. pc # "accept" => conn \in Conn /\ arrived[conn] \in Nat
  BY DEF TypeInv, TypeOK
<1>1. CASE Accept
  <2>1. Head(backlog) \in Conn /\ Tail(backlog) \in Seq(Conn)
    BY <1>1 DEF Accept, TypeInv, TypeOK
  <2> QED BY <1>1, <2>1 DEF Accept, TypeInv, TypeOK, client, reading
<1>2. CASE NoName
  BY <1>2 DEF NoName, Leave, TypeInv, TypeOK, client
<1>3. CASE Reject
  BY <1>3 DEF Reject, Leave, TypeInv, TypeOK, client
<1>4. CASE Admit
  BY <1>4, SizeAssumption DEF Admit, TypeInv, TypeOK, client
<1>5. CASE ReadHeader
  BY <1>0, <1>5 DEF ReadHeader, Read, TypeInv, TypeOK, client
<1>6. CASE HeaderFails
  BY <1>0, <1>6 DEF HeaderFails, Leave, TypeInv, TypeOK, client
<1>7. CASE Malformed
  BY <1>7 DEF Malformed, Leave, TypeInv, TypeOK, client
<1>8. CASE HeaderDone
  BY <1>8, SizeAssumption DEF HeaderDone, TypeInv, TypeOK, client
<1>9. CASE ReadBody
  BY <1>0, <1>9 DEF ReadBody, Read, TypeInv, TypeOK, client
<1>10. CASE BodyFails
  BY <1>0, <1>10 DEF BodyFails, Leave, TypeInv, TypeOK, client
<1>11. CASE SendEvent
  BY <1>0, <1>11 DEF SendEvent, TypeInv, TypeOK, client, reading
<1>12. CASE SendReply
  BY <1>0, <1>12 DEF SendReply, Leave, TypeInv, TypeOK
<1> QED BY <1>1, <1>2, <1>3, <1>4, <1>5, <1>6, <1>7, <1>8, <1>9, <1>10, <1>11, <1>12 DEF Thread

LEMMA TypeStep == TypeInv /\ [Next]_vars => TypeInv'
<1> SUFFICES ASSUME TypeInv, [Next]_vars PROVE TypeInv'
  OBVIOUS
<1>1. CASE Thread
  BY <1>1, TypeThread
<1>2. ASSUME NEW c \in Conn, Connect(c) \/ Send(c) \/ CloseEarly(c) PROVE TypeInv'
  BY <1>2, TypeClient
<1>3. CASE UNCHANGED vars
  BY <1>3 DEF vars, client, reading, TypeInv, TypeOK
<1> QED BY <1>1, <1>2, <1>3 DEF Next

LEMMA TypeAlways == Spec => []TypeInv
BY TypeInit, TypeStep, PTL DEF Spec

\* The variables of ServeHost keep their types, whatever the clients do.
THEOREM TypeCorrect == Spec => []TypeOK
<1>1. TypeInv => TypeOK
  BY DEF TypeInv
<1> QED BY <1>1, TypeAlways, PTL

-----------------------------------------------------------------------------
(* Events.  A connection is served once: it is new, then in the backlog,    *)
(* then the thread's, then neither.  Until the thread reads from it, what   *)
(* has arrived and what is still to be sent make up the message; while the  *)
(* thread reads, position counts what has left the buffer.                  *)

Waiting == {backlog[i] : i \in DOMAIN backlog}

QueueInv ==
  /\ \A i, j \in DOMAIN backlog : backlog[i] = backlog[j] => i = j
  /\ \A c \in Waiting : peer[c] # "new" /\ c # conn
  /\ conn \in Conn => peer[conn] # "new"
  /\ pc = "accept" => conn = NoConn

Unread(c) == peer[c] = "new" \/ c \in Waiting \/ (c = conn /\ pc = "admit")

FreshInv ==
  \A c \in Conn :
    /\ Unread(c) => arrived[c] + unsent[c] = message[c].size
    /\ Unread(c) \/ (c = conn /\ pc # "reply") => events[c] = 0

ReadingInv ==
  /\ pc \in {"header", "body"} => position + arrived[conn] + unsent[conn] = message[conn].size
  /\ pc \in {"header", "body", "reply"} => message[conn].allowed
  /\ pc \in {"body", "reply"} => message[conn].bank
  /\ pc = "reply" => events[conn] = 1

EventInv == QueueInv /\ FreshInv /\ ReadingInv /\ EventsAreWhole

LEMMA EventInit == Init => EventInv
<1> SUFFICES ASSUME Init PROVE EventInv
  OBVIOUS
<1>1. Waiting = {}
  BY DEF Init, Waiting
<1>2. \A c \in Conn : message[c].size \in Nat
  BY MessageType, TrafficAssumption DEF Init
<1> QED BY <1>1, <1>2, ConnAssumption
        DEF Init, EventInv, QueueInv, FreshInv, ReadingInv, EventsAreWhole, Unread

LEMMA AppendBacklog ==
  ASSUME NEW b \in Seq(Conn), NEW c \in Conn,
         \A i \in DOMAIN b : b[i] # c,
         \A i, j \in DOMAIN b : b[i] = b[j] => i = j
  PROVE  /\ {Append(b, c)[i] : i \in DOMAIN Append(b, c)} = {b[i] : i \in DOMAIN b} \cup {c}
         /\ \A i, j \in DOMAIN Append(b, c) : Append(b, c)[i] = Append(b, c)[j] => i = j
<1> DEFINE a == Append(b, c)
<1>1. /\ Len(a) = Len(b) + 1 /\ DOMAIN a = 1..Len(a) /\ DOMAIN b = 1..Len(b) /\ Len(b) \in Nat
      /\ a[Len(b) + 1] = c /\ \A i \in 1..Len(b) : a[i] = b[i]
  OBVIOUS
<1>2. {a[i] : i \in DOMAIN a} = {b[i] : i \in DOMAIN b} \cup {c}
  <2>1. ASSUME NEW i \in DOMAIN a PROVE a[i] \in {b[k] : k \in DOMAIN b} \cup {c}
    <3>1. i \in DOMAIN b \/ i = Len(b) + 1
      BY <1>1
    <3> QED BY <1>1, <3>1
  <2>2. ASSUME NEW i \in DOMAIN b PROVE b[i] \in {a[k] : k \in DOMAIN a}
    <3>1. i \in DOMAIN a
      BY <1>1
    <3> QED BY <1>1, <3>1
  <2>3. c \in {a[k] : k \in DOMAIN a}
    <3>1. Len(b) + 1 \in DOMAIN a
      BY <1>1
    <3> QED BY <1>1, <3>1
  <2> QED BY <2>1, <2>2, <2>3
<1>3. ASSUME NEW i \in DOMAIN a, NEW j \in DOMAIN a, a[i] = a[j] PROVE i = j
  <2>1. (i \in DOMAIN b \/ i = Len(b) + 1) /\ (j \in DOMAIN b \/ j = Len(b) + 1)
    BY <1>1
  <2> QED BY <1>1, <1>3, <2>1
<1> QED BY <1>2, <1>3

LEMMA TailBacklog ==
  ASSUME NEW b \in Seq(Conn), b # <<>>,
         \A i, j \in DOMAIN b : b[i] = b[j] => i = j
  PROVE  /\ {Tail(b)[i] : i \in DOMAIN Tail(b)} = {b[i] : i \in DOMAIN b} \ {Head(b)}
         /\ \A i, j \in DOMAIN Tail(b) : Tail(b)[i] = Tail(b)[j] => i = j
         /\ Head(b) \in {b[i] : i \in DOMAIN b}
<1> DEFINE a == Tail(b)
<1>1. /\ Len(a) = Len(b) - 1 /\ DOMAIN a = 1..Len(a) /\ DOMAIN b = 1..Len(b)
      /\ Len(b) \in Nat /\ Len(b) >= 1
      /\ Head(b) = b[1] /\ \A i \in 1..Len(a) : a[i] = b[i + 1]
  OBVIOUS
<1>2. ASSUME NEW i \in DOMAIN a PROVE a[i] \in {b[k] : k \in DOMAIN b} \ {Head(b)}
  <2>1. i + 1 \in DOMAIN b /\ i + 1 # 1 /\ 1 \in DOMAIN b
    BY <1>1
  <2> QED BY <1>1, <2>1
<1>3. ASSUME NEW i \in DOMAIN b, b[i] # Head(b) PROVE b[i] \in {a[k] : k \in DOMAIN a}
  <2>1. i - 1 \in DOMAIN a /\ (i - 1) + 1 = i
    BY <1>1, <1>3
  <2>2. a[i - 1] = b[i]
    BY <1>1, <2>1
  <2> QED BY <2>1, <2>2
<1>4. ASSUME NEW i \in DOMAIN a, NEW j \in DOMAIN a, a[i] = a[j] PROVE i = j
  <2>1. i + 1 \in DOMAIN b /\ j + 1 \in DOMAIN b /\ b[i + 1] = b[j + 1]
    BY <1>1, <1>4
  <2>2. i + 1 = j + 1
    BY <2>1
  <2> QED BY <1>1, <2>2
<1>5. Head(b) \in {b[i] : i \in DOMAIN b}
  <2>1. 1 \in DOMAIN b
    BY <1>1
  <2> QED BY <1>1, <2>1
<1> QED BY <1>2, <1>3, <1>4, <1>5

LEMMA EventConnect ==
  ASSUME TypeInv, EventInv, NEW c \in Conn, Connect(c)
  PROVE  EventInv'
<1>1. /\ backlog \in Seq(Conn) /\ peer[c] = "new"
      /\ backlog' = Append(backlog, c) /\ peer' = [peer EXCEPT ![c] = "open"]
  BY DEF Connect, TypeInv, TypeOK
<1>2. \A i \in DOMAIN backlog : backlog[i] # c
  BY <1>1 DEF EventInv, QueueInv, Waiting
<1>3. /\ Waiting' = Waiting \cup {c}
      /\ \A i, j \in DOMAIN backlog' : backlog'[i] = backlog'[j] => i = j
  BY <1>1, <1>2, AppendBacklog DEF EventInv, QueueInv, Waiting
<1>4. \A d \in Conn : /\ peer'[d] = IF d = c THEN "open" ELSE peer[d]
                      /\ Unread(d)' => Unread(d)
  BY <1>1, <1>3 DEF Connect, Unread, TypeInv, TypeOK
<1>5. Waiting \subseteq Conn /\ c # conn
  BY <1>1 DEF Waiting, EventInv, QueueInv
<1>6. QueueInv'
  BY <1>1, <1>3, <1>4, <1>5 DEF Connect, EventInv, QueueInv
<1>7. FreshInv'
  BY <1>4 DEF Connect, EventInv, FreshInv
<1>8. ReadingInv' /\ EventsAreWhole'
  BY <1>4 DEF Connect, EventInv, ReadingInv, EventsAreWhole, reading
<1> QED BY <1>6, <1>7, <1>8 DEF EventInv

LEMMA EventSend ==
  ASSUME TypeInv, EventInv, NEW c \in Conn, Send(c)
  PROVE  EventInv'
<1>1. PICK n \in 1..unsent[c] : /\ unsent' = [unsent EXCEPT ![c] = @ - n]
                                /\ arrived' = [arrived EXCEPT ![c] = @ + n]
  BY DEF Send
<1>2. \A d \in Conn : arrived[d] \in Nat /\ unsent[d] \in Nat
  BY DEF TypeInv, TypeOK
<1>3. \A d \in Conn : arrived'[d] + unsent'[d] = arrived[d] + unsent[d]
  <2> SUFFICES ASSUME NEW d \in Conn PROVE arrived'[d] + unsent'[d] = arrived[d] + unsent[d]
    OBVIOUS
  <2>1. CASE d = c
    <3>1. arrived'[c] = arrived[c] + n /\ unsent'[c] = unsent[c] - n
      BY <1>1 DEF TypeInv, TypeOK
    <3> QED BY <1>2, <2>1, <3>1
  <2>2. CASE d # c
    BY <1>1, <2>2 DEF TypeInv, TypeOK
  <2> QED BY <2>1, <2>2
<1>4. unsent[c] # 0
  BY <1>1, <1>2
<1>5. \A d \in Conn : d # c => unsent'[d] = unsent[d]
  BY <1>1 DEF TypeInv, TypeOK
<1>6. UNCHANGED <<peer, message, backlog, pc, conn, position, events>>
  BY DEF Send, reading
<1>7. QueueInv' /\ FreshInv'
  BY <1>3, <1>6 DEF EventInv, QueueInv, FreshInv, Waiting, Unread
<1>8. EventsAreWhole'
  BY <1>4, <1>5, <1>6 DEF EventInv, EventsAreWhole
<1>9. ReadingInv'
  <2>1. ASSUME pc \in {"header", "body"}
        PROVE  position + arrived'[conn] + unsent'[conn] = position + arrived[conn] + unsent[conn]
    <3>1. conn \in Conn /\ position \in Nat
      BY <2>1 DEF TypeInv, TypeOK
    <3>2. arrived'[conn] \in Nat /\ unsent'[conn] \in Nat
      BY <3>1, TypeClient DEF TypeInv, TypeOK
    <3> QED BY <1>2, <1>3, <3>1, <3>2
  <2> QED BY <1>6, <2>1 DEF EventInv, ReadingInv
<1> QED BY <1>7, <1>8, <1>9 DEF EventInv

LEMMA EventCloseEarly ==
  ASSUME TypeInv, EventInv, NEW c \in Conn, CloseEarly(c)
  PROVE  EventInv'
<1>1. \A d \in Conn : peer'[d] = IF d = c THEN "closed" ELSE peer[d]
  BY DEF CloseEarly, TypeInv, TypeOK
<1>2. peer[c] = "open" /\ UNCHANGED <<message, unsent, arrived, backlog, pc, conn, position, events>>
  BY DEF CloseEarly, reading
<1>3. Waiting \subseteq Conn /\ Waiting' = Waiting
  BY <1>2 DEF Waiting, TypeInv, TypeOK
<1>4. \A d \in Conn : Unread(d)' => Unread(d)
  BY <1>1, <1>2, <1>3 DEF Unread
<1>5. QueueInv' /\ FreshInv'
  BY <1>1, <1>2, <1>3, <1>4 DEF EventInv, QueueInv, FreshInv
<1>6. ReadingInv' /\ EventsAreWhole'
  BY <1>1, <1>2 DEF EventInv, ReadingInv, EventsAreWhole
<1> QED BY <1>5, <1>6 DEF EventInv

LEMMA EventAccept ==
  ASSUME TypeInv, EventInv, Accept
  PROVE  EventInv'
<1>1. /\ backlog \in Seq(Conn) /\ backlog # <<>>
      /\ backlog' = Tail(backlog) /\ conn' = Head(backlog) /\ pc' = "admit"
  BY DEF Accept, TypeInv, TypeOK
<1>2. /\ Waiting' = Waiting \ {conn'} /\ conn' \in Waiting
      /\ \A i, j \in DOMAIN backlog' : backlog'[i] = backlog'[j] => i = j
  <2>1. \A i, j \in DOMAIN backlog : backlog[i] = backlog[j] => i = j
    BY DEF EventInv, QueueInv
  <2>2. /\ {Tail(backlog)[i] : i \in DOMAIN Tail(backlog)} = Waiting \ {Head(backlog)}
        /\ \A i, j \in DOMAIN Tail(backlog) : Tail(backlog)[i] = Tail(backlog)[j] => i = j
        /\ Head(backlog) \in Waiting
    BY <1>1, <2>1, TailBacklog DEF Waiting
  <2>3. Waiting' = {Tail(backlog)[i] : i \in DOMAIN Tail(backlog)}
    BY <1>1 DEF Waiting
  <2> QED BY <1>1, <2>2, <2>3
<1>3. UNCHANGED <<peer, message, unsent, arrived, events>>
  BY DEF Accept, client
<1>4. QueueInv'
  BY <1>1, <1>2, <1>3 DEF EventInv, QueueInv
<1>5. FreshInv'
  BY <1>1, <1>2, <1>3 DEF EventInv, FreshInv, Unread
<1>6. ReadingInv' /\ EventsAreWhole'
  BY <1>1, <1>3 DEF EventInv, ReadingInv, EventsAreWhole
<1> QED BY <1>4, <1>5, <1>6 DEF EventInv

\* Every way out of ServeHost without an answer.
LEMMA EventLeave ==
  ASSUME TypeInv, EventInv, Leave, UNCHANGED <<client, backlog, events>>,
         \A c \in Conn : c # conn => arrived'[c] = arrived[c]
  PROVE  EventInv'
<1>1. conn' = NoConn /\ pc' = "accept" /\ UNCHANGED <<peer, message, unsent>>
  BY DEF Leave, client
<1>2. Waiting \subseteq Conn /\ Waiting' = Waiting
  BY DEF Waiting, TypeInv, TypeOK
<1>3. \A c \in Conn : c # NoConn
  BY ConnAssumption
<1>4. \A c \in Conn : Unread(c)' => Unread(c) /\ c # conn
  BY <1>1, <1>2, <1>3 DEF Unread, EventInv, QueueInv
<1>5. QueueInv'
  BY <1>1, <1>2, <1>3 DEF EventInv, QueueInv
<1>6. FreshInv'
  BY <1>1, <1>3, <1>4 DEF EventInv, FreshInv
<1>7. ReadingInv' /\ EventsAreWhole'
  BY <1>1 DEF EventInv, ReadingInv, EventsAreWhole
<1> QED BY <1>5, <1>6, <1>7 DEF EventInv

\* A step of the thread between accept and the event.
LEMMA EventGoOn ==
  ASSUME TypeInv, EventInv, pc \in {"admit", "header", "body"}, pc' \in {"header", "body"},
         UNCHANGED <<client, backlog, events, conn>>,
         \A c \in Conn : c # conn => arrived'[c] = arrived[c],
         position' + arrived'[conn] + unsent[conn] = message[conn].size,
         message[conn].allowed, pc' = "body" => message[conn].bank
  PROVE  EventInv'
<1>1. UNCHANGED <<peer, message, unsent>>
  BY DEF client
<1>2. Waiting \subseteq Conn /\ Waiting' = Waiting /\ conn \in Conn
  BY DEF Waiting, TypeInv, TypeOK
<1>3. \A c \in Conn : Unread(c)' => Unread(c) /\ c # conn
  BY <1>1, <1>2 DEF Unread, EventInv, QueueInv
<1>4. QueueInv'
  BY <1>1, <1>2 DEF EventInv, QueueInv
<1>5. FreshInv'
  BY <1>1, <1>3 DEF EventInv, FreshInv
<1>6. ReadingInv' /\ EventsAreWhole'
  BY <1>1 DEF EventInv, ReadingInv, EventsAreWhole
<1> QED BY <1>4, <1>5, <1>6 DEF EventInv

LEMMA EventSendEvent ==
  ASSUME TypeInv, EventInv, SendEvent
  PROVE  EventInv'
<1>1. /\ conn \in Conn /\ pc = "body" /\ pc' = "reply" /\ position = message[conn].size
      /\ UNCHANGED <<peer, message, unsent, arrived, backlog, conn>>
  BY DEF SendEvent, TypeInv, client
<1>2. events[conn] = 0 /\ position + arrived[conn] + unsent[conn] = message[conn].size
      /\ message[conn].allowed /\ message[conn].bank
  BY <1>1 DEF EventInv, FreshInv, ReadingInv
<1>3. unsent[conn] = 0
  <2>1. unsent[conn] \in Nat /\ arrived[conn] \in Nat /\ position \in Nat
    BY <1>1 DEF TypeInv, TypeOK
  <2> QED BY <1>1, <1>2, <2>1
<1>4. \A c \in Conn : events'[c] = IF c = conn THEN 1 ELSE events[c]
  BY <1>2 DEF SendEvent, TypeInv, TypeOK
<1>5. Waiting' = Waiting /\ QueueInv'
  BY <1>1 DEF Waiting, EventInv, QueueInv
<1>6. \A c \in Conn : Unread(c)' => Unread(c) /\ c # conn
  BY <1>1, <1>5 DEF Unread, EventInv, QueueInv
<1>7. FreshInv'
  BY <1>1, <1>4, <1>6 DEF EventInv, FreshInv
<1>8. ReadingInv' /\ EventsAreWhole'
  BY <1>1, <1>2, <1>3, <1>4 DEF EventInv, ReadingInv, EventsAreWhole
<1> QED BY <1>5, <1>7, <1>8 DEF EventInv

LEMMA EventSendReply ==
  ASSUME TypeInv, EventInv, SendReply
  PROVE  EventInv'
<1>1. /\ conn \in Conn /\ pc = "reply" /\ pc' = "accept" /\ conn' = NoConn
      /\ UNCHANGED <<message, unsent, arrived, backlog, events>>
  BY DEF SendReply, Leave, TypeInv
<1>2. events[conn] = 1
  BY <1>1 DEF EventInv, ReadingInv
<1>3. \A c \in Conn : /\ peer'[c] \in {peer[c], "answered"}
                      /\ c # conn => peer'[c] = peer[c]
  BY DEF SendReply, TypeInv, TypeOK
<1>4. Waiting \subseteq Conn /\ Waiting' = Waiting
  BY <1>1 DEF Waiting, TypeInv, TypeOK
<1>5. QueueInv'
  BY <1>1, <1>3, <1>4, ConnAssumption DEF EventInv, QueueInv
<1>6. \A c \in Conn : Unread(c)' => Unread(c)
  BY <1>1, <1>3, <1>4 DEF Unread
<1>7. FreshInv'
  BY <1>1, <1>6, ConnAssumption DEF EventInv, FreshInv
<1>8. ReadingInv' /\ EventsAreWhole'
  BY <1>1, <1>2, <1>3 DEF EventInv, ReadingInv, EventsAreWhole
<1> QED BY <1>5, <1>7, <1>8 DEF EventInv

LEMMA EventThread == TypeInv /\ EventInv /\ Thread => EventInv'
<1> SUFFICES ASSUME TypeInv, EventInv, Thread PROVE EventInv'
  OBVIOUS
<1>0. \A c \in Conn : arrived[c] \in Nat /\ unsent[c] \in Nat
  BY DEF TypeInv, TypeOK
<1>1. CASE NoName \/ Reject
  BY <1>1, EventLeave DEF NoName, Reject
<1>2. CASE HeaderFails \/ Malformed \/ BodyFails
  <2>1. \A c \in Conn : c # conn => arrived'[c] = arrived[c]
    BY <1>2 DEF HeaderFails, Malformed, BodyFails, TypeInv, TypeOK
  <2> QED BY <1>2, <2>1, EventLeave DEF HeaderFails, Malformed, BodyFails
<1>3. CASE Admit
  <2>1. conn \in Conn /\ Unread(conn)
    BY <1>3 DEF Admit, Unread, TypeInv
  <2>2. arrived[conn] + unsent[conn] = message[conn].size
    BY <2>1 DEF EventInv, FreshInv
  <2>3. position' + arrived[conn] + unsent[conn] = message[conn].size
    BY <1>0, <1>3, <2>1, <2>2 DEF Admit
  <2> QED BY <1>3, <2>3, EventGoOn DEF Admit
<1>4. CASE ReadHeader \/ ReadBody
  <2>1. /\ conn \in Conn /\ pc \in {"header", "body"} /\ position \in Nat
        /\ position' = position + arrived[conn] /\ arrived' = [arrived EXCEPT ![conn] = 0]
        /\ UNCHANGED <<client, backlog, pc, conn, events>>
    BY <1>4 DEF ReadHeader, ReadBody, Read, TypeInv, TypeOK
  <2>2. arrived'[conn] = 0 /\ \A c \in Conn : c # conn => arrived'[c] = arrived[c]
    BY <2>1 DEF TypeInv, TypeOK
  <2>3. position + arrived[conn] + unsent[conn] = message[conn].size
    BY <2>1 DEF EventInv, ReadingInv
  <2>4. position' + arrived'[conn] + unsent[conn] = message[conn].size
    BY <1>0, <2>1, <2>2, <2>3
  <2>5. message[conn].allowed /\ (pc = "body" => message[conn].bank)
    BY <2>1 DEF EventInv, ReadingInv
  <2> QED BY <2>1, <2>2, <2>4, <2>5, EventGoOn
<1>5. CASE HeaderDone
  <2>1. position + arrived[conn] + unsent[conn] = message[conn].size /\ message[conn].allowed
    BY <1>5 DEF HeaderDone, EventInv, ReadingInv
  <2> QED BY <1>5, <2>1, EventGoOn DEF HeaderDone
<1>6. CASE Accept \/ SendEvent \/ SendReply
  BY <1>6, EventAccept, EventSendEvent, EventSendReply
<1> QED BY <1>1, <1>2, <1>3, <1>4, <1>5, <1>6 DEF Thread

LEMMA EventStep == TypeInv /\ EventInv /\ [Next]_vars => EventInv'
<1> SUFFICES ASSUME TypeInv, EventInv, [Next]_vars PROVE EventInv'
  OBVIOUS
<1>1. CASE Thread
  BY <1>1, EventThread
<1>2. ASSUME NEW c \in Conn, Connect(c) \/ Send(c) \/ CloseEarly(c) PROVE EventInv'
  BY <1>2, EventConnect, EventSend, EventCloseEarly
<1>3. CASE UNCHANGED vars
  BY <1>3 DEF vars, client, reading, EventInv, QueueInv, FreshInv, ReadingInv, EventsAreWhole,
              Waiting, Unread
<1> QED BY <1>1, <1>2, <1>3 DEF Next

\* However messages are cut up, limits are hit and clients go away, an event is
\* made of one whole message of an allowed host, and "DATA OK" means it was sent.
THEOREM EventsAlwaysWhole == Spec => []EventsAreWhole
<1>1. EventInv => EventsAreWhole
  BY DEF EventInv
<1> QED BY <1>1, EventInit, EventStep, TypeAlways, PTL DEF Spec

-----------------------------------------------------------------------------
(* Sockets.  A read of a client that is still there moves position by at    *)
(* least one, so a thread that runs out of reads has had as many pieces as  *)
(* it has reads: the message is too fine.                                   *)

BudgetInv ==
  /\ pc = "header" => read_status <= position
  /\ pc = "header" /\ peer[conn] # "closed" => position + max_reads >= MaxHeaderReads
  /\ pc = "body" /\ peer[conn] # "closed" => position + max_reads >= MaxBodyReads + HeaderSize

SocketInv == BudgetInv /\ SocketsAccounted

LEMMA SocketClient ==
  ASSUME TypeInv, SocketInv, NEW c \in Conn, Connect(c) \/ Send(c) \/ CloseEarly(c)
  PROVE  SocketInv'
<1>1. UNCHANGED <<message, fds, pc, conn, position, read_status, max_reads>>
  BY DEF Connect, Send, CloseEarly, reading
<1>2. \A d \in Conn : peer[d] = "closed" => peer'[d] = "closed"
  BY DEF Connect, Send, CloseEarly, TypeInv, TypeOK
<1>3. fds \subseteq Conn /\ (pc # "accept" => conn \in Conn)
  BY DEF TypeInv, TypeOK
<1>4. BudgetInv'
  BY <1>1, <1>2, <1>3 DEF SocketInv, BudgetInv
<1>5. SocketsAccounted'
  BY <1>1, <1>2, <1>3 DEF SocketInv, SocketsAccounted, TooFine
<1> QED BY <1>4, <1>5 DEF SocketInv

\* ServeHost gives a connection up only after its client has gone, or after as
\* many reads as it has.
LEMMA GivesUp ==
  ASSUME TypeInv, EventInv, SocketInv, HeaderFails \/ BodyFails
  PROVE  peer[conn] = "closed" \/ TooFine(conn)
<1> SUFFICES ASSUME peer[conn] # "closed" PROVE TooFine(conn)
  OBVIOUS
<1>1. conn \in Conn /\ pc \in {"header", "body"}
  BY DEF HeaderFails, BodyFails, TypeInv
<1>2. /\ arrived[conn] \in Nat /\ unsent[conn] \in Nat /\ position \in Nat /\ max_reads \in Nat
      /\ message[conn] \in Messages
  BY <1>1 DEF TypeInv, TypeOK
<1>3. position + arrived[conn] + unsent[conn] = message[conn].size
  BY <1>1 DEF EventInv, ReadingInv
<1>4. arrived[conn] > 0
  BY DEF HeaderFails, BodyFails, CanRead
<1>5. max_reads = 1
  BY <1>2, <1>4 DEF HeaderFails, BodyFails
<1>6. position + 1 >= MaxHeaderReads \/ position + 1 >= MaxBodyReads + HeaderSize
  BY <1>1, <1>5 DEF SocketInv, BudgetInv
<1>7. message[conn].size \in Nat /\ MaxHeaderReads \in Nat /\ MaxBodyReads + HeaderSize \in Nat
  BY <1>2, MessageType, SizeAssumption
<1>8. message[conn].size >= position + 1
  BY <1>2, <1>3, <1>4, <1>7
<1>9. MaxBodyReads + HeaderSize = HeaderSize + MaxBodyReads
  BY SizeAssumption
<1> QED BY <1>2, <1>6, <1>7, <1>8, <1>9 DEF TooFine

\* A read that does not end the attempt.
LEMMA SocketRead ==
  ASSUME TypeInv, SocketInv, ReadHeader \/ ReadBody
  PROVE  SocketInv'
<1>1. /\ conn \in Conn /\ position \in Nat /\ max_reads \in Nat /\ arrived[conn] \in Nat
      /\ max_reads > 1
  BY DEF ReadHeader, ReadBody, TypeInv, TypeOK
<1>2. /\ position' = position + arrived[conn] /\ read_status' = arrived[conn]
      /\ max_reads' = max_reads - 1
      /\ UNCHANGED <<peer, message, fds, pc, conn>>
  BY DEF ReadHeader, ReadBody, Read, client
<1>3. peer[conn] # "closed" => arrived[conn] > 0
  BY DEF ReadHeader, ReadBody, Read, CanRead
<1>4. read_status' <= position'
  BY <1>1, <1>2
<1>5. peer[conn] # "closed" => position' + max_reads' >= position + max_reads
  BY <1>1, <1>2, <1>3
<1>6. position' + max_reads' \in Nat /\ position + max_reads \in Nat
      /\ MaxHeaderReads \in Nat /\ MaxBodyReads + HeaderSize \in Nat
  BY <1>1, <1>2, SizeAssumption
<1>7. BudgetInv'
  BY <1>2, <1>4, <1>5, <1>6 DEF SocketInv, BudgetInv
<1> QED BY <1>2, <1>7 DEF SocketInv, SocketsAccounted, TooFine

LEMMA SocketThread ==
  ASSUME TypeInv, EventInv, SocketInv, Thread
  PROVE  SocketInv'
<1>0. fds \subseteq Conn /\ \A c \in Conn : c # NoConn
  BY ConnAssumption DEF TypeInv, TypeOK
<1>1. CASE Accept
  <2>1. conn = NoConn /\ pc' = "admit" /\ fds' = fds \cup {conn'} /\ UNCHANGED <<peer, message>>
    BY <1>1 DEF Accept, EventInv, QueueInv, client
  <2> QED BY <1>0, <2>1 DEF SocketInv, BudgetInv, SocketsAccounted, TooFine
<1>2. CASE NoName \/ HeaderFails \/ BodyFails
  <2>1. peer[conn] = "closed" \/ ~message[conn].named \/ TooFine(conn)
    BY <1>2, GivesUp DEF NoName
  <2>2. pc' = "accept" /\ UNCHANGED <<peer, message, fds>>
    BY <1>2 DEF NoName, HeaderFails, BodyFails, Leave, client
  <2> QED BY <2>1, <2>2 DEF SocketInv, BudgetInv, SocketsAccounted, TooFine
<1>3. CASE Reject \/ Malformed
  <2>1. pc' = "accept" /\ fds' = fds \ {conn} /\ UNCHANGED <<peer, message>>
    BY <1>3 DEF Reject, Malformed, Leave, client
  <2> QED BY <2>1 DEF SocketInv, BudgetInv, SocketsAccounted, TooFine
<1>4. CASE SendReply
  <2>1. pc' = "accept" /\ fds' = fds \ {conn} /\ UNCHANGED message
    BY <1>4 DEF SendReply, Leave
  <2>2. \A c \in Conn : peer[c] = "closed" => peer'[c] = "closed"
    BY <1>4 DEF SendReply, TypeInv, TypeOK
  <2> QED BY <1>0, <2>1, <2>2 DEF SocketInv, BudgetInv, SocketsAccounted, TooFine
<1>5. CASE Admit
  <2>1. /\ pc' = "header" /\ position' = 0 /\ read_status' = 0 /\ max_reads' = MaxHeaderReads
        /\ UNCHANGED <<peer, message, fds, conn>>
    BY <1>5 DEF Admit, client
  <2> QED BY <2>1, SizeAssumption DEF SocketInv, BudgetInv, SocketsAccounted, TooFine
<1>6. CASE ReadHeader \/ ReadBody
  BY <1>6, SocketRead
<1>7. CASE HeaderDone
  <2>1. /\ pc = "header" /\ pc' = "body" /\ read_status >= HeaderSize /\ max_reads' = MaxBodyReads
        /\ UNCHANGED <<peer, message, fds, conn, position, read_status>>
    BY <1>7 DEF HeaderDone, client
  <2>2. position' + max_reads' >= MaxBodyReads + HeaderSize
    <3>1. position \in Nat /\ read_status \in Nat /\ read_status <= position
      BY <2>1 DEF SocketInv, BudgetInv, TypeInv, TypeOK
    <3> QED BY <2>1, <3>1, SizeAssumption
  <2> QED BY <2>1, <2>2 DEF SocketInv, BudgetInv, SocketsAccounted, TooFine
<1>8. CASE SendEvent
  <2>1. pc' = "reply" /\ UNCHANGED <<peer, message, fds, conn>>
    BY <1>8 DEF SendEvent, client
  <2> QED BY <2>1 DEF SocketInv, BudgetInv, SocketsAccounted, TooFine
<1> QED BY <1>1, <1>2, <1>3, <1>4, <1>5, <1>6, <1>7, <1>8 DEF Thread

\* For every limit and every traffic, the sockets held open are the one being
\* served and those of clients with no name, gone, or with a message too fine.
THEOREM SocketsAlwaysAccounted == Spec => []SocketsAccounted
<1>1. Init => SocketInv
  BY DEF Init, SocketInv, BudgetInv, SocketsAccounted, TooFine
<1>2. TypeInv /\ EventInv /\ SocketInv /\ [Next]_vars => SocketInv'
  <2> SUFFICES ASSUME TypeInv, EventInv, SocketInv, [Next]_vars PROVE SocketInv'
    OBVIOUS
  <2>1. CASE Thread
    BY <2>1, SocketThread
  <2>2. ASSUME NEW c \in Conn, Connect(c) \/ Send(c) \/ CloseEarly(c) PROVE SocketInv'
    BY <2>2, SocketClient
  <2>3. CASE UNCHANGED vars
    BY <2>3 DEF vars, client, reading, SocketInv, BudgetInv, SocketsAccounted, TooFine
  <2> QED BY <2>1, <2>2, <2>3 DEF Next
<1>3. Spec => []EventInv
  BY EventInit, EventStep, TypeAlways, PTL DEF Spec
<1>4. SocketInv => SocketsAccounted
  BY DEF SocketInv
<1> QED BY <1>1, <1>2, <1>3, <1>4, TypeAlways, PTL DEF Spec

=============================================================================
