# TLA+ verification of feGEM

feGEM is a MIDAS frontend that lets LabVIEW and Python programs (CRIOs, data
packers, slow-control PCs) log data over TCP. A *supervisor* listens on one
port; it gives every host a row of a worker list in the MIDAS online database
(ODB), a port, and a *worker* thread listening there. Clients send *banks*, one
message per connection, and read back one JSON reply. This directory holds TLA+
models of that program, TLC configurations that check them on small instances,
and proofs checked by TLAPS. Paths below are relative to the repository's root
(`src/` is its frontend sources, `include/` its headers, `libGEM/` the analyser
library).

## 1. Inventory

| Component | State it keeps | Operations | Talks to |
|---|---|---|---|
| AllowedHosts (`src/AllowedHosts.cxx`) | allowed, banned and questionable lists under one mutex; ODB arrays `allowed_hosts`, `banned_hosts` | constructor, IsAllowed, AddHost, BanHost, PrintRejection | every TCP thread calls it; writes the ODB |
| feGEMSupervisor (`src/feGEMSupervisor.cxx`) | ODB arrays `HostName`, `Port`, `DateAdded`; RunningWorkers in memory | FindHostInWorkerList, AssignPortForWorker, AddNewClient | answers START_FRONTEND and GIVE_ME_PORT; starts workers |
| feGEMWorker (`src/feGEMWorker.cxx`) | its port, socket, thread, event buffer | constructor, Init | binds the port the supervisor gave |
| feGEMClass::ServeHost, Run (`src/feGEMClass.cxx`) | sockets, event buffer, read position, limits | one connection: accept, admit, read, handle, send event, reply | AllowedHosts, MessageHandler, MIDAS |
| Command banks (feGEMClass::HandleCommandBank) | event size | START_FRONTEND, ALLOW_HOST, GIVE_ME_PORT, ALLOW_SSH_TUNNEL, SET_EVENT_SIZE, run queries | all of the above |
| Run state, frontend status | RUNNO, start and stop time, RunStatus, status colour | HandleBeginRun, HandleEndRun, GET_..., SetFEStatus | written by the MIDAS thread, read by TCP threads |
| MessageHandler | JSONMessageQueue, JSONErrorQueue | QueueData, QueueMessage, QueueError, ReadMessageQueue | filled while a message is handled, emptied by the reply |
| PeriodicityManager | period, connection count, poll counts, rate | AddRemoteCaller, UpdatePerodicity, Log... | sleeps of Run |
| HistoryLogger | list of variables with their last update | Find, AddNewVariable, Update | ODB history |
| SettingsFileDatabase | files on disk, a static search string | SaveSettingsFile, LoadSettingsFile | all workers share the directory |
| Bank walk (HandleBankArray, HandleBank, LogBank) | position in the array | dispatch by type and category | HistoryLogger, MessageHandler, SettingsFileDatabase |
| Host::operator== | none | pattern matching | AllowedHosts |
| libGEM analyser | ROOT trees by name | FindOrCreateTree, Fill | reads the banks offline |

What is hard here:

- **Threads.** The supervisor's and every worker's TCP thread share one
  AllowedHosts; the MIDAS thread shares the run state with all of them.
  Correctness of AllowedHosts: what the ODB shows is enforced, bans survive, only
  the operator extends the lists when self registration is off, additions are
  stored.
- **Crashes.** Any `exit` or failed `assert` in any thread ends the process with
  all its workers; the ODB survives, the rest is rebuilt. Correctness of the
  supervisor: one row per host, one port per row for ever, the data of a host go
  to its own worker, clients end up served.
- **Blocking reads.** A TCP thread serves one connection at a time with blocking
  reads. Correctness of ServeHost: exactly one event for a whole legal message,
  no event without one, no socket lost but where the code walks away from it, every
  legal client answered unless another one stalls.
- **One worker, many parts.** A bank may be logged, answered, stored as a file, or
  change the buffer the next message is read into, while the MIDAS thread rewrites the
  run fields and other workers write the same settings files. Correctness: a reply
  answers its own message and no other; the event sent names the host of every bank, so
  that the analyser files it where it belongs; data acknowledged are not lost; an event
  size once told holds; a LOAD gets no outdated revision; the history lags less than its
  period; run fields never run ahead of one another.

PROJECT.json lists each hazard at its line with the property that covers it, or
the reason why none does.

## 2. Modules

| Module | Stands for |
|---|---|
| `Odb` | the array write of MVOdb: blank cells up to a new index (external) |
| `AllowedHosts`, `MCAllowedHosts` | host permissions and the calls made to them |
| `AllowedHostsProofs` | theorems about AllowedHosts |
| `HostRegistry` | abstract: what the supervisor promises, a port per host for ever |
| `Supervisor`, `MCSupervisor` | worker list, ports, workers, clients' retries |
| `SupervisorProofs` | theorems about Supervisor, refinement of HostRegistry among them |
| `ServeHost`, `MCServeHost` | one TCP thread and the clients that connect to it |
| `ServeHostProofs` | theorems about ServeHost |
| `RunState` | a worker's copy of the run, written by the MIDAS thread |
| `EventBuffer` | event sizes, in memory and in the ODB, and the buffer |
| `MessageHandler` | the queue of reply items |
| `GemBank` | what the program tells apart in a bank and a message |
| `HistoryLogger` | variables, their last update, the list in the ODB |
| `Periodicity` | programs announced and the polling period |
| `SettingsFileDatabase` | settings files and the LOAD that searches them |
| `Analyser` | events stored and the trees they are filled into |
| `Worker`, `MCWorker` | one worker at work: the composition of the eight modules above |
| `Delivery` | abstract: what a worker does with the messages it receives |
| `WorkerProofs` | theorems about Worker and its parts |
| `WorkerReplyProofs` | a reply answers its own message and no other |
| `WorkerTypeProofs` | type correctness of Worker |
| `WorkerDeliveryProofs` | refinement of Delivery |

A definition whose comment begins with *Mutant* is not part of the model: it is a
faulty form of the definition after it, kept to show that a property would
notice that bug.

### AllowedHosts

The three lists are `allowed_hosts`, `banned_hosts` (sets of the strings in the
vectors) and `RejectionCount` (the questionable list with its counters);
`allowed_size` and `banned_size` are the vectors' `size()`, kept apart because
racing threads can push a string twice and the ODB index is computed from
the size. `odbAllowed` and `odbBanned` are the ODB arrays with their blank cells.

Each thread has a label `pc[t]`. A region under `list_lock` is one action; a lock
released and taken again, or code after the unlock, separates two actions:
`BanCheck`/`BanPush` (BanHost), `AddCheck`/`AddPush`/`AddSize`/`AddWrite`
(AddHost, where `size()` and the ODB write happen outside the lock). `IsAllowed`
is `CheckAllowed`, `CheckBanned` and one of `FirstContact`, `LaterContact`,
`AutoBan`. `Malformed`, `AllowHost`, `AllowSshTunnel` and `Finish` are what
ServeHost and HandleCommandBank do for an admitted peer; several command banks may
arrive in one message, so `AddHost` returns to `"banks"`. `Restart` is a crash at
any point followed by the constructor, `Load`. `setup` is what the operator has set when
the process starts for the first time: `allow_self_registration`, the two arrays, and the
peers and names that occur; it is chosen from the constant `Setups` and never changes, so
one run can look at several.

Abstractions: whether an entry matches a name is the constant relation `Covers`
(the matcher itself is not modelled, see section 5); whether the cool-down has elapsed is a free
choice; after a host has been removed from the questionable list the code reads
the removed element, and both outcomes are allowed; the arithmetic of the log
messages is left out; the read-modify-write of an ODB array by MVOdb is atomic.
A fault between `banned_hosts.push_back` and the `WSAI` after it is not
separated from the action, because both are under the lock and a crash there
loses only memory.

### Supervisor

`HostName` and `Port` are the ODB arrays; ids count from 1 (0 in the code), so
`PortFor(i) = fPort + i` is the code's `fPort + workerID + 1`, modulo
`PortModulus` (2^16, because it is returned as `uint16_t`). One request is handled
in the steps `FindHostInWorkerList`, `AssignPortForWorker`, `StartWorker`
(START_FRONTEND only) and `Reply`; `Crash` may end the process at the labels of
`CrashAt`, `Abort` is the assertion of feGEMWorker::Init, `StartUp` the next start
with any `supervisor_port` of `SupervisorPorts`. A client asks for its frontend,
then for its port, then connects; refused, it starts over (the clients' programs
are not in the repository: these actions are external).

Abstractions: `DateAdded` and the status texts are left out; names are model
values, so BuildFrontendName's truncation is not seen; a worker that is started
binds at once.

### HostRegistry

The abstract promise: a function from hosts to ports that only grows, by a
port no other host has. `Supervisor` implements it with the rows whose port cell
is not blank as the registry (`Registry`, `ImplementsRegistry`): a host whose row
is not yet, or never properly, filled is not registered.

### ServeHost

One thread (`pc`, `conn`, `position`, `read_status`, `max_reads` are ServeHost's
local variables) and the clients of its port. Data are counted in pieces; a read
returns all pieces that have arrived, or nothing once the peer has closed.
`HeaderFails` and `BodyFails` are the returns of the two read loops, `NoName` the
return after getnameinfo, `Reject` and `Malformed` the two that close; `SendEvent`
is `assert(BankSize==position)`, the handling of the banks and `SendEvent` of
MIDAS; `SendReply` answers and closes. The socket a return leaves open stays in `fds`,
and with `MaxFds` of them open `accept` fails. `Traffic` gives each connection its
message. A client may stop sending at any point, for ever: `Stalled` says that the thread
is waiting for such a one, `FdLeft` that a descriptor is left besides the one in use, and
`TooFine` that a message has as many pieces as the thread has reads.

Abstractions: the content of banks and the event buffer's size (they are in Worker); a
read that fails is treated like a closed peer; a client sends one message per
connection, as the protocol has it.

### Worker

ServeHost says how the bytes of a message arrive, Worker what is done with the whole
message. Its TCP thread (`pc`) goes through the `banks` of the message in the buffer,
`next` first:

| Actions | Code |
|---|---|
| `Construct`, `InitWorker` | feGEMWorker's constructor reads `/Runinfo` field by field, AddNewClient registers the worker, `Init` makes the buffer and starts the thread |
| `PollNobody`, `Receive` | ServeHost: the deferred reallocation of the buffer, then nobody, or a message; its size is tested only after it has been read |
| `BankTooBig`, `LogData`, `AnswerCommand`, `ChangeEventSize`, `Talk`, `Ignore`, `Save`, `Load`/`Scan`/`ReadFile`, `Fatal`, `ScanNothing` | HandleBank and LogBank, one action per kind of bank; `Fatal` and `ScanNothing` end the process |
| `SendEvent`, `SendReply` | the event goes to MIDAS with the banks *as they are in the buffer now*; "DATA OK" is queued and the queue read out |
| `MidasThread` | BeginRun, EndRun and their handlers, one field per step |
| `OtherWorkers` | saves and LOADs of other workers in the same directory |
| `Analyse` | libGEM's module, any time later |
| `Crash` | the process ends at any step, by this thread or another |

What a bank's data type, category and variable name make of it is its field `what`
(the chain of tests in HandleBank and LogBank is a case split on it); `GemBank` lists
the other fields. A bank refused for its size (`BankTooBig`) is skipped and reported;
a whole message refused is reported as well, none of its banks is handled, and its
event is sent all the same.

The parts, each with its own variables and `...TypeOK`:

- **RunState.** A time is written as the number of the run that began or ended then.
  `HandleBeginRun` and `HandleEndRun` have a label per assignment because the TCP thread
  reads the fields without a lock. HandleBeginRun's read of the stop time is commented
  out in the source, so `RUN_STOP_T` stays.
- **EventBuffer.** `SetEventSize` raises `fEventSize` and the ODB at once; the buffer
  follows in `FlushBuffer`, the first lines of the next ServeHost. Sizes are compared
  with `Larger` as the code does, so nothing shrinks.
- **MessageHandler.** A queue of items with a key and a value. QueueError puts errors in
  the same queue; JSONErrorQueue is never filled.
- **HistoryLogger.** `Find`, `NewVariable` (with the early return at a period of 0),
  `Updated` (the rate limit; `ToInt` is the cut of a 64-bit difference to an int of
  `2 * IntMax` values) and `Described`, the overwriting of the bank's EquipmentType.
  `newest` (the latest time stamp of each variable) and `jumped` (the variables that had a
  bank further from the last one written than an int can tell, `Fits`) are history variables.
- **Periodicity.** `AddRemoteCaller` and `UpdatePerodicity` with the code's integer division.
- **SettingsFileDatabase.** `find_filename` is the static string of the source, shared by
  all workers: `FindFilename` sets it, `Choose` reads it later. `nameFilter` accepts every
  name that begins with it, `LastOf` is the last of alphasort. The pairs `Extensions`
  say which names begin with which. The number after LOAD is a bank's field `offset`, which no
  action reads, as the source does not. `found` (the directory when the LOAD began) and
  `overtaken` are history variables.
- **Analyser.** One action per event; `TreeName` is FindOrCreateTree's key, a row of a
  tree is the place of the bank in the log, and banks of an unknown type are left out
  (`Filled`).

`log`, `answered`, `refused` and `told` are history variables for the properties.

Abstractions: host and variable names, texts and file contents are model values or left
out (so are md5 and base64); a command bank carries one command; sizes inside an array
are consistent; reading past the old buffer shows only as a possible `Crash`; MIDAS
(events, ODB, transitions) is external and in order; the elog and CLIENT_INFO change
nothing in the worker.

### Delivery

The abstract promise about messages: one is open at a time; its event is stored before it
is answered, and once; the process may end with it open, and then it is never answered;
the stored events are analysed in the order of the messages. `Worker` implements it
(`ImplementsDelivery`) with the number of messages received, the `Stage` its `pc` stands
for ("handled" up to the event, "stored" up to the reply) and the message numbers of the
events that wait (`Waiting`). The banks, the runs, the files and the buffer
are invisible there: whatever they do, they neither drop an event nor answer early.

## 3. What the runs check

| Run | Expected | Checks | Bounds |
|---|---|---|---|
| `AH_permissions` | pass | TypeOK, OdbEnforced, OperatorDecides, BansSurvive, CellsKept, AdditionsStoredInTurn, ProbationEnds | 2 threads and two setups: hosts register themselves (2 peers, nobody known), or the operator decides (3 peers, a pattern allowed, a host banned) |
| `AH_write_race` | violation | AdditionsStored | 2 threads, self registration on |
| `AH_gap` | violation | BansSurvive | 2 threads, a blank cell before a used one |
| `SV_registry` | pass | TypeOK, HostsUnique, WorkersMatchOdb, RightWorker, ImplementsRegistry, ClientsServed | 2 hosts, crashes anywhere |
| `SV_port_zero` | violation | WorkerPortAssertion | 2 hosts, the code's port numbers |
| `SV_port_moved` | violation | RightWorker | 2 hosts, `supervisor_port` 12345 or 12344, no crash between the two cells of a row |
| `SH_serve` | pass | TypeOK, EventsAreWhole, SocketsAccounted, Served | 3 connections, 8 kinds of message, at most 9 pieces, 2 descriptors, 5 and 3 reads |
| `SH_fragments` | violation | Answered | the same |
| `WK_traffic` | pass | TypeOK, FieldsInOrder, RunCurrent, ToldSizeFits, ReplyComplete, HistoryFresh, VariablesListed, SparePoll, LoadsCurrent, AnsweredIsFiled, ImplementsDelivery | five sessions of 2 or 3 messages, 2 runs, 2 files, crashes anywhere |
| `WK_unlogged` | violation | HostsNamed | one session: a host's own bank with a history period of 0 |
| `WK_clockless` | violation | HistoryCatchesUp | one variable with two proper times and one of 1904 |
| `WK_load` | violation | LoadsRevision | saves of one file and LOAD-1 of it |

The properties in words stand above their definitions.

**Why the bounds are enough.** AllowedHosts: two threads give every overlap of two
critical regions, and no step depends on a third;
of the hosts one name is a prefix of another (so one entry can cover two names) and one is
unrelated. `retry_limit` only has to be passed, so 0 (a second contact passes it) stands
for 10; `Spare` 1 stands for 10. Self registration does not mix with the operator's
decision, as the setting never changes, which is why they are two setups and not a product;
where hosts register themselves, two peers that may both ask for the same name give the
race, a duplicate and a ban of one of them. The state space is finite without a further bound because a host in a list is
not added again except by a race, and a race needs two threads at the same label.
Supervisor: one host to be torn and one to write past it is the smallest case for
`TornRow`, and two hosts can collide on a port. `SV_registry` uses small ports
because TLC enumerates the abstract `PortNumber`. ServeHost: with three connections two
clients can do harm, one after the other, before a third is served. A header of two pieces
can be split; a message of three or five is split in header and body. The read limits (5
and 3 for 100000 and 10000) are within reach of a message of five pieces, so a live client
can use up either. `MaxFds` 2 is less than the number of connections: two sockets left
open, or one while another is served, and `accept` fails. `PieceBound` 9 leaves out the
traffic in which all three messages are long.
`CHECK_DEADLOCK FALSE` in the ServeHost runs: connections are used once, so the
bounded system ends when all are done.
Worker: a session (`Session` in MCWorker) brings one part into play with messages that
may come in any order and repeat: queries during two runs (the first may be on already);
a size told and outgrown, a message that just fits the size told and others too big for
the buffer, with banks too big as well; two variables and a host's own with times out of
order around the period; saves and LOADs of two names, one of which begins with the
other, against other workers; announcements, debug mode, files and what ends the process. Parts
that do not share state need not be mixed in one session, which is what keeps the
product small; crashes, which touch all of them, are in every session. Three messages
let one change state, one use it and one come after a restart; two are enough with
transitions or other workers, which interleave at every step. `LastRun` 2 gives a field
an older and a newer run to mix up; sizes are in kilobytes (`MinEventSize` 10,
`Overhead` 1); `MaxTime` 1 gives two seconds, so two saves may share one. `IntMax` 8
stands for 2^31: the times 3 to 7 of devices with clocks are less apart, and the time -7
of one that counts from 1904 is further off, as 2082844800 s before 1970 is from now. The
process can always be restarted, so deadlock is checked.

**What the violations show.** Each is a disagreement of the code with a line of its
own (quoted in PROJECT.json):

- `AH_write_race`: AddHost computes the ODB index after unlocking; two threads
  write the same cell and one host is lost at the next restart, in a class described
  as thread safe.
- `AH_gap`: a blank cell in `banned_hosts` (an operator clears one, or the race above
  leaves one in `allowed_hosts`) makes the next ban overwrite an older one.
- `SV_port_zero`: a process that ends between the host's and the port's cell leaves
  a row whose port reads 0 once the next host has registered; from then on that
  host's request aborts the supervisor, and with it every worker.
- `SV_port_moved`: after `supervisor_port` is lowered, new ports can equal old ones;
  SO_REUSEPORT lets both workers bind, and a host's data can reach another's.
- `SH_fragments`: the header loop tests the size of the last read and not the sum, so
  a split header makes the thread and the client wait for each other.
- `WK_unlogged`: a bank a host sends about itself with a history period of 0 is never
  given the host's name, as the constructor of HistoryVariable returns early; the
  analyser then files it under the text the client sent.
- `WK_clockless`: after a bank with a proper time comes one stamped in 1904. The
  difference wraps in the int it is stored in, so the old bank is written and its time
  kept as that of the last update; the next proper one wraps the other way and is not
  written, nor are those after it.
- `WK_load`: of two revisions LOAD-1 reads the newest, because the offset is parsed and
  handed on, and never used.

### Fairness

- *ServeHost*: weak fairness of the thread as a whole, because Run calls ServeHost for
  ever. Nothing is assumed of the clients: none has to connect, to go on sending or to
  close. The reads have no timeout, so a client that stalls blocks the port, and a
  socket left open at every early return is one less to accept with; the code prevents
  neither. `Answered` has both as stated premises: the thread is not left waiting for a
  stalled client for ever (`[]<>~Stalled`), and the lost sockets leave one to open
  (`[]FdLeft`). Under them the other ways in which a client can get in the way are
  covered: it closes half way (while a descriptor is left), leaves before it is accepted,
  sends no bank, has no name, is not allowed, or uses up the reads.
- *Supervisor*: weak fairness of the handling of a request and of each client's
  request and connection attempt (the thread polls for ever, clients retry), and of
  `StartUp` (a MIDAS frontend that ended is started again). Crashes and client
  restarts are not fair; `ClientsServed` assumes they stop some time.
- *Worker*: no fairness and no liveness property: handling a message has no loop, and
  what could block it, the socket, is in ServeHost.
- *AllowedHosts*: no fairness. `ProbationEnds` says that something cannot happen for
  ever, which needs none; it assumes only that restarts stop some time, as a restart
  forgets the counters.

## 4. What is proved

All theorems hold for every value of the constants allowed by the named
assumptions of the modules (`EntryAssumption`, `SettingsAssumption`,
`SetupAssumption`; `HostAssumption`, `PortAssumption`, `CrashAssumption`; `ConnAssumption`,
`SizeAssumption`, `MessageAssumption`, `TrafficAssumption`; for Worker those of its parts and
`TrafficAssumption`, which says what a message is) and by the assumptions listed here.

| Theorem | States | Further assumptions |
|---|---|---|
| `AllowedHostsProofs!TypeCorrect` | `[]TypeOK` | |
| `OdbAlwaysEnforced` | `[]OdbEnforced` | |
| `OperatorAlwaysDecides` | `[]OperatorDecides` | |
| `BansAlwaysSurvive` | `BansSurvive` (self registration off) | no gap in the banned array of a setup |
| `CellsAlwaysKept` | `CellsKept` (self registration off) | the same |
| `AdditionsAlwaysStored` | `AdditionsStoredInTurn` | no gap in the allowed array of a setup |
| `SupervisorProofs!TypeCorrect` | `[]TypeOK` | |
| `RowsAreUnique` | `[]HostsUnique` | `FixedPort` |
| `WorkersAlwaysMatchOdb` | `[]WorkersMatchOdb` | `FixedPort` |
| `AlwaysRightWorker` | `[]RightWorker` | `FixedPort` |
| `SupervisorImplementsRegistry` | `ImplementsRegistry` | `FixedPort` |
| `WorkerPortAlwaysGood` | `[]WorkerPortAssertion` | `FixedPort`, `[][~EndsBetweenWrites]_vars` |
| `NoRowTorn` | `[](~TornRow)` | the same |
| `ServeHostProofs!TypeCorrect` | `[]TypeOK` | |
| `EventsAlwaysWhole` | `[]EventsAreWhole` | |
| `SocketsAlwaysAccounted` | `[]SocketsAccounted` | |
| `WorkerProofs!FieldsAlwaysInOrder` | `[]FieldsInOrder` | |
| `RunAlwaysCurrent` | `[]RunCurrent` | |
| `AlwaysSparePoll` | `[]SparePoll` | |
| `ToldSizeAlwaysFits` | `[]ToldSizeFits` | |
| `AlwaysLoadsCurrent` | `[]LoadsCurrent` | |
| `VariablesAlwaysListed` | `[]VariablesListed` | |
| `HistoryAlwaysFresh` | `[]HistoryFresh` | |
| `AnsweredAlwaysFiled` | `[]AnsweredIsFiled` | |
| `HostsAlwaysNamed` | `[](HostsLog => HostsNamed)` | `[]Clean`: nothing is refused |
| `WorkerReplyProofs!ReplyAlwaysComplete` | `[]ReplyComplete` | |
| `WorkerTypeProofs!TypeCorrect` | `[]TypeOK` | |
| `WorkerDeliveryProofs!WorkerImplementsDelivery` | `ImplementsDelivery` | |

`FixedPort`: finitely many hosts, one supervisor port in all sessions, and no
wrap-around of port numbers. The violations `SV_port_moved` and `AH_gap` show that
the assumptions on the port and on the gap cannot be dropped. `AdditionsStoredInTurn` is
`[]OneStores => []AdditionsStored`, where `OneStores` says that no two threads are between
AddHost's push and its ODB write at once. The code does not see to that, and
`AH_write_race` shows what happens then; the theorem says that it is the only thing
missing, and that a critical section from `push_back` to `WSAI` would be enough, for any
number of threads and whatever bans and restarts come between. Likewise `WorkerPortAlwaysGood` and `HostsAlwaysNamed`
complete what `SV_port_zero` and `WK_unlogged` show: the property fails in the way shown
there (or, for `HostsNamed`, by a refused message, whose event has its banks
undescribed) and in no other. `EndsBetweenWrites` is a crash between the HostName and the
Port write of a request. `SocketsAccounted` and `HistoryFresh` name in
their own text what the code cannot do (a message too fine for the reads, a time too far
off for an int), so their theorems need no assumption on clients or clocks. Traffic may be any set of
sessions, of any length, with any banks.

The arguments:

- *AllowedHosts.* `TypeInv` adds to TypeOK what a label says of the locals (a thread
  inside AddHost has something to add). For
  `OdbEnforced` the strengthening is `EnforcedInv`: a thread that is about to write a
  host to the ODB has already pushed it to memory; AddHost's unlocked write then cannot
  store anything that is not enforced, however late it comes. For `OperatorDecides`
  it is `OperatorInv`: no
  thread reaches AddHost or the questionable list, the allowed list is the operator's,
  and whoever is served is on it. For
  the bans it is `BanMirror`: with self registration off the used cells of `odbBanned` are exactly
  `1..banned_size`, and their entries are `banned_hosts`. It holds because push and
  write are in one critical region, and a restart preserves it because the
  constructor leaves an array with no gap as it is. For `AdditionsStored` it is `StoredInv`:
  while no thread is between push and write, the used cells of `odbAllowed` are
  `1..allowed_size` with the entries of `allowed_hosts`; while one is, memory is one entry
  ahead and the cell after the used ones is the one it will write. A crash between the two
  forgets the entry on both sides.
- *Supervisor.* The invariant `Inv` says that a port in the ODB is 0 or the port its
  row number gives, that `Port` is never longer than `HostName`, that row numbers of
  hosts are unique, and that what the request, the workers and the clients hold are
  copies of a row. Uniqueness of ports is then arithmetic on row numbers (this is
  where `FixedPort` is used). For the refinement, the only step that changes the
  registry is AssignPortForWorker on a new row, and it maps to `Register`; every other
  step maps to a stutter. `RowsFilled`, for the port assertion: outside
  AssignPortForWorker every host's row has a port, so the cells that MVOdb fills with 0 on
  the way to a new one belong to no host.
- *ServeHost.* `EventInv` follows a connection through its one life: new, then once in
  the backlog, then the thread's, then neither. Until the thread reads from it, the
  pieces sent and still to be sent add up to the message, and no event has been made;
  while it is read, `position` counts what has left the buffer, so the sum still
  holds, and `position = size` at the assertion means that nothing is unsent.
  `BudgetInv` counts reads: each read of a client that is still there moves
  `position` by one at least, so a thread with no reads left has read as many pieces as
  it has reads, and the message is `TooFine`, or its client has gone.

- *Worker.* A lemma per part (`RunSteps`, `PeriodicitySteps`, `HistorySteps`) says which
  steps touch it, and the part's invariant is followed through those only. `RunInv` says
  for each label of a handler which fields already hold the present run. `SizeInv`
  bounds what a client was told, and every size still in the reply queue, by the ODB's;
  a running worker goes by the ODB's size, and while a message is handled the buffer,
  which may be behind, is no smaller than what was told before. It needs `LogInv`: banks
  still to be handled are as they were received. `LoadInv` keeps the files found at
  the start of a LOAD in the directory, and the name searched for as long as no other LOAD began. `HistoryInv` keeps the lists together; a
  variable that is in the list is there once, so the first match Find returns is the only
  one. `HistoryFresh` is then inductive: for a variable not in `jumped` the cut is the
  identity, and the rest is arithmetic on the rate limit. `PollInv` counts the callers.

  For `AnsweredIsFiled` three invariants are needed. `MarkInv`: a variable in the list that
  belongs to the host itself is marked so, which is what makes a bank get the host's name.
  `MessageInv`: the banks in the buffer are those of the message received, and as long as
  no error was reported, each of the host's own banks that has been handled carries the
  host's name. `FiledInv`: an event or a row of a tree is that of a message received; it is
  right when the message is settled (answered without an error, or about to be); and of a
  settled message nothing is missing. A crash empties the buffer and keeps the events,
  and the analyser turns an event into rows of the same message.

  For `ReplyComplete`: `OpenInv` says that from the present bank on, the buffer holds what
  the client sent, that the open message is unanswered and, if it is an array, no larger
  than the event size; so a bank of it can be refused only when the whole message is one
  bank. `ReplyInv` carries the correspondence of `AnswersAsked` through the
  handling: as long as no error is queued, the answers queued are those to the banks
  before `next`, one for one and in order; with an error queued there is no answer and
  nothing left to be handled. With no message open the queue is empty, which is why
  nothing of a message that a crash interrupted gets into a later reply. `TypeOK`
  follows from these invariants and `TypeInv`, which adds the keys of the items, the mark of
  each variable, the settings files and the thread's labels.

  For `ImplementsDelivery` only `LogInv` and `EventsInv` (`log` and `events` are
  sequences) are needed: `Receive` (with a size error or without), `SendEvent`,
  `SendReply` and `Analyse` are a step of Delivery each, a step that ends the process is
  `Lose` or a stutter, and all others stutter.

Only model-checked: the liveness properties `ProbationEnds`, `ClientsServed` and
`Served` (the prover has no support for fairness and ENABLED), and the counterexamples.
All other properties of the passing runs are theorems. Of the properties of the runs that
expect a violation, `AdditionsStored`, `BansSurvive`, `WorkerPortAssertion`, `RightWorker`
and `HostsNamed` are theorems under a condition that excludes the counterexample;
`HistoryFresh` is what is left of `HistoryCatchesUp` for a variable whose times fit, and
`LoadsCurrent` of `LoadsRevision`; `Answered` is a liveness property.

## 5. Not modelled, and the plan

Not modelled, and why:

- `Host::operator==`: matches characters and keeps no state; `Covers` may be any
  relation, so the properties of AllowedHosts hold whatever it answers.
- SetFEStatus and the status texts, the bank rate and the poll counters: written for the
  operator, read by no code.
- What is in settings files, their md5 and base64 forms: carried unchanged, never looked at.
- Types of branches, time stamps and the ROOT file of the analyser (TStoreGEMEvent), and
  banks whose sizes contradict each other: data layout.
- The cut of equipment names to 27 characters and endianness.
- The time it takes to handle a message, which adds to the sleeps of Run: `SparePoll`
  counts polls as if it were nothing.
- A COMMAND bank of several entries: HandleStrBank runs the command once per entry, the
  model once per bank, and `ReplyComplete` holds under that only.
- `HostsNamed` speaks of banks of data: files, string arrays and commands never pass
  through HistoryVariable::Update, so they go out under the text the client sent.
- The mode in which feGEM is started for one host ("Probably broken" in
  `src/feGEMmain.cxx`), MIDAS itself, build files.

The plan, most important first:

1. AllowedHosts, Supervisor, ServeHost (done: models, runs, theorems).
2. Worker with RunState, EventBuffer, MessageHandler, GemBank, HistoryLogger, Periodicity,
   SettingsFileDatabase and Analyser (done: models, runs, theorems of each part).
3. Theorems for the rest of Worker, its refinement of Delivery, and `AdditionsStored`
   (done).
4. A composition of AllowedHosts and Supervisor: a host from its first contact to its
   first event; ServeHost as the part of Delivery that reads a message.

The run list stays short: small components share a run where they are parts of one
worker.
