----------------------------- MODULE ServeHost -----------------------------
(***************************************************************************)
(* How one TCP thread of feGEM serves connections: feGEMClass::Run and     *)
(* ServeHost (src/feGEMClass.cxx).  The thread polls accept, reads the     *)
(* header and then the rest of one message with blocking reads, turns it   *)
(* into one MIDAS event, answers and closes.                               *)
(*                                                                         *)
(* Data are counted in pieces: a message is some number of pieces, of      *)
(* which the first HeaderSize hold the header, and a read returns every    *)
(* piece that has arrived.  A connection carries one message and is used   *)
(* once.  Clients are not part of the repository: a client connects, sends *)
(* its message piecewise, stalls, closes early or waits for the answer.    *)
(***************************************************************************)
EXTENDS Naturals, Sequences, FiniteSets

CONSTANTS
  Conn,            \* connections, each made at most once
  NoConn,          \* the thread serves nobody
  HeaderSize,      \* the 88 bytes of a bank header, in pieces
  Messages,        \* messages clients may send
  Traffic,         \* which client may send which
  MaxHeaderReads,  \* max_reads while the header is read, 100000 in the code
  MaxBodyReads,    \* max_reads while the rest is read, 10000 in the code
  MaxFds           \* sockets the process can have open

ASSUME ConnAssumption == NoConn \notin Conn
ASSUME SizeAssumption == /\ HeaderSize \in Nat \ {0}
                         /\ MaxHeaderReads \in Nat \ {0} /\ MaxBodyReads \in Nat \ {0}
                         /\ MaxFds \in Nat
\* A message has a size, a legal type tag or not, a sender whose address has a
\* name or not and whose host is allowed or not, and a first segment that holds
\* the whole header or need not.
ASSUME MessageAssumption ==
  Messages \subseteq [size : Nat \ {0}, bank : BOOLEAN, named : BOOLEAN,
                      allowed : BOOLEAN, whole : BOOLEAN]
ASSUME TrafficAssumption == Traffic \subseteq [Conn -> Messages]

VARIABLES
  peer,       \* peer[c]: what client c does: "new", "open", "closed" or "answered"
  message,    \* message[c]: the message c sends
  unsent,     \* unsent[c]: pieces the client still has to send
  arrived,    \* arrived[c]: pieces in the socket's receive buffer
  backlog,    \* connections the kernel has not handed over yet
  fds,        \* connections whose socket the process holds open
  pc, conn,   \* the thread, and the connection it serves
  position, read_status, max_reads,  \* the local variables of ServeHost
  events      \* events[c]: MIDAS events sent for c's message

client == <<peer, message, unsent>>
reading == <<position, read_status, max_reads>>
vars == <<client, arrived, backlog, fds, pc, conn, reading, events>>

Init ==
  /\ peer = [c \in Conn |-> "new"]
  /\ message \in Traffic
  /\ unsent = [c \in Conn |-> message[c].size]
  /\ arrived = [c \in Conn |-> 0]
  /\ backlog = <<>> /\ fds = {}
  /\ pc = "accept" /\ conn = NoConn
  /\ position = 0 /\ read_status = 0 /\ max_reads = 0
  /\ events = [c \in Conn |-> 0]

-----------------------------------------------------------------------------
(* Clients.                                                                 *)

Connect(c) ==
  /\ peer[c] = "new"
  /\ peer' = [peer EXCEPT ![c] = "open"]
  /\ backlog' = Append(backlog, c)
  /\ UNCHANGED <<message, unsent, arrived, fds, pc, conn, reading, events>>

Send(c) ==
  /\ peer[c] = "open"
  /\ \E n \in 1..unsent[c] :
       /\ message[c].whole /\ unsent[c] = message[c].size => n >= HeaderSize
       /\ unsent' = [unsent EXCEPT ![c] = @ - n]
       /\ arrived' = [arrived EXCEPT ![c] = @ + n]
  /\ UNCHANGED <<peer, message, backlog, fds, pc, conn, reading, events>>

CloseEarly(c) ==
  /\ peer[c] = "open"
  /\ peer' = [peer EXCEPT ![c] = "closed"]
  /\ UNCHANGED <<message, unsent, arrived, backlog, fds, pc, conn, reading, events>>

-----------------------------------------------------------------------------
(* The thread.  Leave ends ServeHost; Run calls it again after a pause.     *)

Leave == pc' = "accept" /\ conn' = NoConn /\ position' = 0 /\ read_status' = 0 /\ max_reads' = 0

\* accept fails when no socket can be opened, which looks like no client at all.
Accept ==
  /\ pc = "accept"
  /\ backlog # <<>> /\ Cardinality(fds) < MaxFds
  /\ conn' = Head(backlog) /\ backlog' = Tail(backlog)
  /\ fds' = fds \cup {Head(backlog)}
  /\ pc' = "admit"
  /\ UNCHANGED <<client, arrived, reading, events>>

\* getnameinfo fails: ServeHost returns and leaves the socket open.
NoName ==
  /\ pc = "admit"
  /\ ~message[conn].named
  /\ Leave
  /\ UNCHANGED <<client, arrived, backlog, fds, events>>

Reject ==
  /\ pc = "admit"
  /\ message[conn].named /\ ~message[conn].allowed
  /\ fds' = fds \ {conn}
  /\ Leave
  /\ UNCHANGED <<client, arrived, backlog, events>>

Admit ==
  /\ pc = "admit"
  /\ message[conn].named /\ message[conn].allowed
  /\ pc' = "header"
  /\ position' = 0 /\ read_status' = 0 /\ max_reads' = MaxHeaderReads
  /\ UNCHANGED <<client, arrived, backlog, fds, conn, events>>

\* A blocking read returns what has arrived, or nothing once the peer is gone (a
\* read that fails on a connection reset takes the same ways out).
CanRead == arrived[conn] > 0 \/ peer[conn] = "closed"

Read ==
  /\ CanRead
  /\ read_status' = arrived[conn]
  /\ position' = position + arrived[conn]
  /\ arrived' = [arrived EXCEPT ![conn] = 0]

\* The loop ends on the size of the last read, not on the sum of them.
ReadHeader ==
  /\ pc = "header" /\ read_status < HeaderSize
  /\ Read
  /\ position' # 0 /\ max_reads > 1
  /\ max_reads' = max_reads - 1
  /\ UNCHANGED <<client, backlog, fds, pc, conn, events>>

\* Nothing to read, or too many reads: ServeHost returns, the socket stays open.
HeaderFails ==
  /\ pc = "header" /\ read_status < HeaderSize
  /\ CanRead
  /\ position + arrived[conn] = 0 \/ max_reads = 1
  /\ arrived' = [arrived EXCEPT ![conn] = 0]
  /\ Leave
  /\ UNCHANGED <<client, backlog, fds, events>>

\* Mutant: a malformed message is dropped without closing the connection.
MalformedNotClosed ==
  /\ pc = "header" /\ read_status >= HeaderSize
  /\ ~message[conn].bank
  /\ Leave
  /\ UNCHANGED <<client, arrived, backlog, fds, events>>

\* The type tag is neither GEA1 nor GEB1: BanHost, close.
Malformed ==
  /\ pc = "header" /\ read_status >= HeaderSize
  /\ ~message[conn].bank
  /\ fds' = fds \ {conn}
  /\ Leave
  /\ UNCHANGED <<client, arrived, backlog, events>>

\* Mutant: the header loop wants more than the header.
HeaderDoneBeyondHeader ==
  /\ pc = "header" /\ read_status > HeaderSize
  /\ message[conn].bank
  /\ pc' = "body" /\ max_reads' = MaxBodyReads
  /\ UNCHANGED <<client, arrived, backlog, fds, conn, position, read_status, events>>

HeaderDone ==
  /\ pc = "header" /\ read_status >= HeaderSize
  /\ message[conn].bank
  /\ pc' = "body" /\ max_reads' = MaxBodyReads
  /\ UNCHANGED <<client, arrived, backlog, fds, conn, position, read_status, events>>

\* Mutant: the loop does not stop when its reads are used up.
ReadBodyUnlimited ==
  /\ pc = "body" /\ position < message[conn].size
  /\ Read
  /\ max_reads' = max_reads - 1
  /\ UNCHANGED <<client, backlog, fds, pc, conn, events>>

ReadBody ==
  /\ pc = "body" /\ position < message[conn].size
  /\ Read
  /\ max_reads > 1
  /\ max_reads' = max_reads - 1
  /\ UNCHANGED <<client, backlog, fds, pc, conn, events>>

\* The last read allowed ends the attempt even if it completes the message.
BodyFails ==
  /\ pc = "body" /\ position < message[conn].size
  /\ CanRead
  /\ max_reads = 1
  /\ arrived' = [arrived EXCEPT ![conn] = 0]
  /\ Leave
  /\ UNCHANGED <<client, backlog, fds, events>>

\* Mutant: the event is sent once the header is there, and without the assertion.
SendEventEarly ==
  /\ pc = "body"
  /\ events' = [events EXCEPT ![conn] = @ + 1]
  /\ pc' = "reply"
  /\ UNCHANGED <<client, arrived, backlog, fds, conn, reading>>

\* assert(BankSize==position); the banks are handled and the event is sent.
SendEvent ==
  /\ pc = "body" /\ position >= message[conn].size
  /\ position = message[conn].size
  /\ events' = [events EXCEPT ![conn] = @ + 1]
  /\ pc' = "reply"
  /\ UNCHANGED <<client, arrived, backlog, fds, conn, reading>>

\* "DATA OK" is lost on a client that has closed; the socket is closed.
SendReply ==
  /\ pc = "reply"
  /\ peer' = [peer EXCEPT ![conn] = IF @ = "open" THEN "answered" ELSE @]
  /\ fds' = fds \ {conn}
  /\ Leave
  /\ UNCHANGED <<message, unsent, arrived, backlog, events>>

-----------------------------------------------------------------------------
Thread == \/ Accept \/ NoName \/ Reject \/ Admit
          \/ ReadHeader \/ HeaderFails \/ Malformed \/ HeaderDone
          \/ ReadBody \/ BodyFails \/ SendEvent \/ SendReply

Next == Thread \/ \E c \in Conn : Connect(c) \/ Send(c) \/ CloseEarly(c)

\* Run loops for ever.  Nothing makes a client send, close or wait.
Fairness == WF_vars(Thread)

Spec == Init /\ [][Next]_vars /\ Fairness

-----------------------------------------------------------------------------
(* Properties.                                                              *)

\* Type invariant of a serving thread.
TypeOK ==
  /\ peer \in [Conn -> {"new", "open", "closed", "answered"}]
  /\ message \in [Conn -> Messages]
  /\ unsent \in [Conn -> Nat] /\ arrived \in [Conn -> Nat] /\ events \in [Conn -> Nat]
  /\ backlog \in Seq(Conn) /\ fds \subseteq Conn
  /\ pc \in {"accept", "admit", "header", "body", "reply"}
  /\ conn \in Conn \cup {NoConn}
  /\ position \in Nat /\ read_status \in Nat /\ max_reads \in Nat

\* A connection gives rise to at most one event, and only to one made of the
\* whole message of an allowed host; a client that reads "DATA OK" has its event
\* in MIDAS (the order of reading, SendEvent and send in ServeHost).
EventsAreWhole ==
  \A c \in Conn :
    /\ events[c] > 0 => events[c] = 1 /\ unsent[c] = 0 /\ message[c].allowed /\ message[c].bank
    /\ peer[c] = "answered" => events[c] = 1

\* A message that may arrive in more pieces than ServeHost has reads for it.
TooFine(c) == message[c].size >= MaxHeaderReads \/ message[c].size >= HeaderSize + MaxBodyReads

\* The sockets held open are the one being served and those ServeHost walked
\* away from: a client with no name, one that went away first, or one whose
\* message can outlast the reads.  Every other way out of ServeHost closes.
SocketsAccounted ==
  \A c \in fds : c = conn \/ peer[c] = "closed" \/ ~message[c].named \/ TooFine(c)

\* The reads have no timeout: the thread waits for a client that neither sends
\* the rest of its message nor closes.
Stalled == conn # NoConn /\ peer[conn] = "open" /\ unsent[conn] > 0

\* A socket can be opened, whatever ServeHost has walked away from.
FdLeft == Cardinality(fds \ {conn}) < MaxFds

\* A client of an allowed host that sends a legal message and waits is answered,
\* unless the thread waits for ever on a client that stalls, the sockets left
\* open exhaust the process, or the message can outlast the reads (Run, ServeHost).
Legal(c) == message[c].named /\ message[c].allowed /\ message[c].bank
Answered ==
  []<>~Stalled /\ []FdLeft =>
    \A c \in Conn :
      (peer[c] = "open" /\ Legal(c) /\ ~TooFine(c)) ~> peer[c] \in {"answered", "closed"}

\* As long as every client's header arrives in one piece, nothing else keeps a
\* legal client from its answer: not clients that close half way or leave, send
\* something else, use up their reads, or come from a host that is not allowed.
Served == (\A c \in Conn : message[c].whole) => Answered
=============================================================================
