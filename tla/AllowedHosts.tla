---------------------------- MODULE AllowedHosts ----------------------------
(***************************************************************************)
(* The host permissions shared by every TCP thread of feGEM: class         *)
(* AllowedHosts (src/AllowedHosts.cxx, include/AllowedHosts.h) and the     *)
(* calls feGEMClass::ServeHost and HandleCommandBank make to it.           *)
(*                                                                         *)
(* A thread handles one connection at a time.  A region guarded by         *)
(* list_lock is one action; what the code does outside the lock lies       *)
(* between two labels of pc.  The ODB arrays "allowed_hosts" and           *)
(* "banned_hosts" outlive the process, everything else is rebuilt by the   *)
(* constructor, so Restart is a crash at any point followed by a start.    *)
(***************************************************************************)
EXTENDS Odb, FiniteSets

CONSTANTS
  Thread,                   \* TCP threads: the supervisor's and the workers'
  Entry,                    \* strings a list can hold: host names and patterns
  Host,                     \* the names getnameinfo returns for a peer
  Blank,                    \* the empty ODB cell
  Covers,                   \* Covers[e]: the strings that entry e matches
  retry_limit,              \* 10 in the code
  Spare,                    \* blank cells kept for later additions, 10 in the code
  Setups                    \* what an operator may start with (see SetupAssumption)

OdbArray == Seq(Entry \cup {Blank})

ASSUME EntryAssumption == /\ Host \subseteq Entry
                          /\ Blank \notin Entry
                          /\ Covers \in [Entry -> SUBSET Entry]
ASSUME SettingsAssumption == /\ retry_limit \in Nat
                             /\ Spare \in Nat
\* A setup: the setting allow_self_registration, the ODB arrays at the very first
\* start, the peers that connect and the names they may ask to be allowed.
ASSUME SetupAssumption ==
  \A s \in Setups : /\ s.self \in BOOLEAN /\ s.allowed \in OdbArray /\ s.banned \in OdbArray
                    /\ s.peers \subseteq Host /\ s.names \subseteq Entry

VARIABLES
  setup,                        \* the operator's, never changed
  allowed_hosts, allowed_size,  \* the vector: the strings in it, and its size()
  banned_hosts, banned_size,
  RejectionCount,               \* questionable_hosts: entry -> its counter
  odbAllowed, odbBanned,        \* the ODB arrays
  pc,                           \* pc[t]: where thread t is in ServeHost
  hostname,                     \* hostname[t]: the peer of t's connection
  adding,                       \* adding[t]: AddHost calls its command still makes
  slot                          \* slot[t]: size() as AddHost read it

lists == <<allowed_hosts, allowed_size, banned_hosts, banned_size, RejectionCount>>
odb   == <<odbAllowed, odbBanned, setup>>
local == <<pc, hostname, adding, slot>>
vars  == <<lists, odb, local>>

allow_self_registration == setup.self
OdbAllowed0 == setup.allowed
OdbBanned0  == setup.banned

Label == {"accept",        \* listening
          "IsAllowed", "IsBanned", "IsQuestionable", "LogicFailed", "PrintRejection",
          "read", "banks", \* admitted: reading the header, handling the banks
          "BanHost", "ban",
          "AddHost", "push", "size", "write"}

-----------------------------------------------------------------------------
(* The ODB arrays.                                                         *)

Used(a)    == {i \in DOMAIN a : a[i] # Blank}
Entries(a) == {a[i] : i \in Used(a)}

WSAI(a, i, v) == WriteCell(a, i, v, Blank)

\* The constructor leaves blank cells behind the entries it has loaded.
Autogrow(a) ==
  LET n == Cardinality(Used(a))
  IN  IF Len(a) < n + Spare THEN WSAI(a, n + Spare + 1, Blank) ELSE a

\* No blank cell lies before a used one.
Compact(a) == \E n \in 0..Len(a) : Used(a) = 1..n

-----------------------------------------------------------------------------
Listed(list, h) == \E e \in list : h \in Covers[e]

IsListedAsAllowed(h) == Listed(allowed_hosts, h)
IsListedAsBanned(h)  == Listed(banned_hosts, h)

At(t, label)   == pc[t] = label
Goto(t, label) == pc' = [pc EXCEPT ![t] = label]

\* Mutant: the constructor stops at the first blank cell.
Leading(a) == {a[i] : i \in {k \in Used(a) : 1..k \subseteq Used(a)}}
LoadToFirstBlank(a, b) ==
  /\ allowed_hosts' = Leading(a) /\ allowed_size' = Cardinality(Used(a))
  /\ banned_hosts' = Leading(b)  /\ banned_size' = Cardinality(Used(b))
  /\ RejectionCount' = [e \in {} |-> 0]
  /\ odbAllowed' = Autogrow(a)
  /\ odbBanned' = Autogrow(b)

\* What the constructor makes of the ODB arrays a and b.
Load(a, b) ==
  /\ allowed_hosts' = Entries(a) /\ allowed_size' = Cardinality(Used(a))
  /\ banned_hosts' = Entries(b)  /\ banned_size' = Cardinality(Used(b))
  /\ RejectionCount' = [e \in {} |-> 0]
  /\ odbAllowed' = Autogrow(a)
  /\ odbBanned' = Autogrow(b)

Init ==
  /\ setup \in Setups
  /\ allowed_hosts = Entries(OdbAllowed0) /\ allowed_size = Cardinality(Used(OdbAllowed0))
  /\ banned_hosts = Entries(OdbBanned0)   /\ banned_size = Cardinality(Used(OdbBanned0))
  /\ RejectionCount = [e \in {} |-> 0]
  /\ odbAllowed = Autogrow(OdbAllowed0)
  /\ odbBanned = Autogrow(OdbBanned0)
  /\ pc = [t \in Thread |-> "accept"]
  /\ hostname \in [Thread -> setup.peers]
  /\ adding = [t \in Thread |-> <<>>]
  /\ slot = [t \in Thread |-> 0]

-----------------------------------------------------------------------------
(* ServeHost admits or rejects the peer of a new connection.               *)

Accept(t) ==
  /\ At(t, "accept")
  /\ Goto(t, "IsAllowed")
  /\ \E h \in setup.peers : hostname' = [hostname EXCEPT ![t] = h]
  /\ UNCHANGED <<lists, odb, adding, slot>>

CheckAllowed(t) ==
  /\ At(t, "IsAllowed")
  /\ Goto(t, IF IsListedAsAllowed(hostname[t]) THEN "read" ELSE "IsBanned")
  /\ UNCHANGED <<lists, odb, hostname, adding, slot>>

CheckBanned(t) ==
  /\ At(t, "IsBanned")
  /\ Goto(t, IF IsListedAsBanned(hostname[t]) \/ ~allow_self_registration
             THEN "PrintRejection" ELSE "IsQuestionable")
  /\ UNCHANGED <<lists, odb, hostname, adding, slot>>

\* The entries of questionable_hosts that match h.  The code takes the oldest
\* of several; which one that is, is left open.
Known(h) == {e \in DOMAIN RejectionCount : h \in Covers[e]}

\* A host's first contact is let through.
FirstContact(t) ==
  /\ At(t, "IsQuestionable")
  /\ Known(hostname[t]) = {}
  /\ RejectionCount' = [e \in DOMAIN RejectionCount \cup {hostname[t]} |->
                          IF e = hostname[t] THEN 0 ELSE RejectionCount[e]]
  /\ Goto(t, "read")
  /\ UNCHANGED <<allowed_hosts, allowed_size, banned_hosts, banned_size,
                 odb, hostname, adding, slot>>

\* Mutants: the counter runs the wrong way; it is never bumped.
LaterContactCountsDown(t) ==
  /\ At(t, "IsQuestionable")
  /\ \E e \in Known(hostname[t]), cooled \in BOOLEAN :
       /\ RejectionCount[e] <= retry_limit
       /\ RejectionCount' = IF cooled THEN [RejectionCount EXCEPT ![e] = @ - 1]
                                      ELSE RejectionCount
       /\ Goto(t, IF cooled THEN "read" ELSE "LogicFailed")
  /\ UNCHANGED <<allowed_hosts, allowed_size, banned_hosts, banned_size,
                 odb, hostname, adding, slot>>

LaterContactUncounted(t) ==
  /\ At(t, "IsQuestionable")
  /\ \E e \in Known(hostname[t]) : RejectionCount[e] <= retry_limit
  /\ Goto(t, "read") \/ Goto(t, "LogicFailed")
  /\ UNCHANGED <<lists, odb, hostname, adding, slot>>

\* A later contact counts, and is let through only after cool_down_time.
LaterContact(t) ==
  /\ At(t, "IsQuestionable")
  /\ \E e \in Known(hostname[t]), cooled \in BOOLEAN :
       /\ RejectionCount[e] <= retry_limit
       /\ RejectionCount' = IF cooled THEN [RejectionCount EXCEPT ![e] = @ + 1]
                                      ELSE RejectionCount
       /\ Goto(t, IF cooled THEN "read" ELSE "LogicFailed")
  /\ UNCHANGED <<allowed_hosts, allowed_size, banned_hosts, banned_size,
                 odb, hostname, adding, slot>>

\* Past retry_limit the entry is banned, in memory only.  The cool-down test
\* that follows reads the list node just removed: either outcome.
AutoBan(t) ==
  /\ At(t, "IsQuestionable")
  /\ \E e \in Known(hostname[t]) :
       /\ RejectionCount[e] > retry_limit
       /\ banned_hosts' = banned_hosts \cup {e}
       /\ RejectionCount' = [x \in DOMAIN RejectionCount \ {e} |-> RejectionCount[x]]
  /\ banned_size' = banned_size + 1
  /\ Goto(t, "read") \/ Goto(t, "LogicFailed")
  /\ UNCHANGED <<allowed_hosts, allowed_size, odb, hostname, adding, slot>>

\* assert("LOGIC_FAILED") asserts a non-null pointer and never fails.
PassAssert(t) ==
  /\ At(t, "LogicFailed")
  /\ Goto(t, "PrintRejection")
  /\ UNCHANGED <<lists, odb, hostname, adding, slot>>

\* At "PrintRejection" the thread walks banned_hosts without the lock; this is
\* the end of the walk.  The counters it bumps only decide what is logged.
Reject(t) ==
  /\ At(t, "PrintRejection")
  /\ Goto(t, "accept")
  /\ UNCHANGED <<lists, odb, hostname, adding, slot>>

-----------------------------------------------------------------------------
(* What an admitted peer makes ServeHost call.                             *)

Serving(t) == pc[t] \in {"read", "banks"}

Malformed(t) ==
  /\ At(t, "read")
  /\ Goto(t, "BanHost")
  /\ UNCHANGED <<lists, odb, hostname, adding, slot>>

\* Mutant: ALLOW_HOST forgets to test allow_self_registration.
AllowHostUnguarded(t) ==
  /\ Serving(t)
  /\ \E d \in setup.names :
       adding' = [adding EXCEPT ![t] = IF d # hostname[t] THEN <<hostname[t], d>> ELSE <<d>>]
  /\ Goto(t, "AddHost")
  /\ UNCHANGED <<lists, odb, hostname, slot>>

\* ALLOW_HOST with payload d; one message may hold several commands.
AllowHost(t) ==
  /\ Serving(t)
  /\ \E d \in setup.names :
       IF ~allow_self_registration
       THEN Goto(t, "banks") /\ UNCHANGED adding
       ELSE /\ adding' = [adding EXCEPT ![t] = IF d # hostname[t] THEN <<hostname[t], d>>
                                                                  ELSE <<d>>]
            /\ Goto(t, "AddHost")
  /\ UNCHANGED <<lists, odb, hostname, slot>>

AllowSshTunnel(t) ==
  /\ Serving(t)
  /\ IF ~allow_self_registration
     THEN Goto(t, "banks") /\ UNCHANGED adding
     ELSE /\ adding' = [adding EXCEPT ![t] = <<hostname[t]>>]
          /\ Goto(t, "AddHost")
  /\ UNCHANGED <<lists, odb, hostname, slot>>

\* Every other message leaves the lists alone; the connection ends.
Finish(t) ==
  /\ Serving(t)
  /\ Goto(t, "accept")
  /\ UNCHANGED <<lists, odb, hostname, adding, slot>>

\* BanHost: the test takes the lock, gives it back, and the update takes it again.
BanCheck(t) ==
  /\ At(t, "BanHost")
  /\ Goto(t, IF IsListedAsBanned(hostname[t]) THEN "accept" ELSE "ban")
  /\ UNCHANGED <<lists, odb, hostname, adding, slot>>

\* Mutants: the ban is not written to the ODB; it is written one cell early.
BanPushInMemory(t) ==
  /\ At(t, "ban")
  /\ banned_hosts' = banned_hosts \cup {hostname[t]}
  /\ banned_size' = banned_size + 1
  /\ Goto(t, "accept")
  /\ UNCHANGED <<allowed_hosts, allowed_size, RejectionCount, odb, hostname, adding, slot>>

BanPushOneCellEarly(t) ==
  /\ At(t, "ban")
  /\ banned_hosts' = banned_hosts \cup {hostname[t]}
  /\ banned_size' = banned_size + 1
  /\ odbBanned' = WSAI(odbBanned, banned_size, hostname[t])
  /\ Goto(t, "accept")
  /\ UNCHANGED <<allowed_hosts, allowed_size, RejectionCount, odbAllowed, setup,
                 hostname, adding, slot>>

BanPush(t) ==
  /\ At(t, "ban")
  /\ banned_hosts' = banned_hosts \cup {hostname[t]}
  /\ banned_size' = banned_size + 1
  /\ odbBanned' = WSAI(odbBanned, banned_size', hostname[t])
  /\ Goto(t, "accept")
  /\ UNCHANGED <<allowed_hosts, allowed_size, RejectionCount, odbAllowed, setup,
                 hostname, adding, slot>>

\* AddHost: only the push_back is under the lock; size() and WSAI come after.
NextAdd(t) ==
  /\ adding' = [adding EXCEPT ![t] = Tail(@)]
  /\ Goto(t, IF Len(adding[t]) = 1 THEN "banks" ELSE "AddHost")

AddCheck(t) ==
  /\ At(t, "AddHost")
  /\ IF IsListedAsAllowed(Head(adding[t]))
     THEN NextAdd(t)
     ELSE Goto(t, "push") /\ UNCHANGED adding
  /\ UNCHANGED <<lists, odb, hostname, slot>>

AddPush(t) ==
  /\ At(t, "push")
  /\ allowed_hosts' = allowed_hosts \cup {Head(adding[t])}
  /\ allowed_size' = allowed_size + 1
  /\ Goto(t, "size")
  /\ UNCHANGED <<banned_hosts, banned_size, RejectionCount, odb, hostname, adding, slot>>

\* Mutant: the size is read as the index of the last entry.
AddSizeMinusOne(t) ==
  /\ At(t, "size")
  /\ slot' = [slot EXCEPT ![t] = allowed_size - 1]
  /\ Goto(t, "write")
  /\ UNCHANGED <<lists, odb, hostname, adding>>

AddSize(t) ==
  /\ At(t, "size")
  /\ slot' = [slot EXCEPT ![t] = allowed_size]
  /\ Goto(t, "write")
  /\ UNCHANGED <<lists, odb, hostname, adding>>

AddWrite(t) ==
  /\ At(t, "write")
  /\ odbAllowed' = WSAI(odbAllowed, slot[t], Head(adding[t]))
  /\ slot' = [slot EXCEPT ![t] = 0]
  /\ NextAdd(t)
  /\ UNCHANGED <<lists, odbBanned, setup, hostname>>

-----------------------------------------------------------------------------
\* The process ends (exit, a failed assert, a signal) and is started again.
Restart ==
  /\ Load(odbAllowed, odbBanned)
  /\ pc' = [t \in Thread |-> "accept"]
  /\ adding' = [t \in Thread |-> <<>>]
  /\ slot' = [t \in Thread |-> 0]
  /\ UNCHANGED <<setup, hostname>>

IsAllowed(t) == \/ CheckAllowed(t) \/ CheckBanned(t)
                \/ FirstContact(t) \/ LaterContact(t) \/ AutoBan(t) \/ PassAssert(t)
AddHost(t)   == AddCheck(t) \/ AddPush(t) \/ AddSize(t) \/ AddWrite(t)
BanHost(t)   == BanCheck(t) \/ BanPush(t)
Serve(t)     == Malformed(t) \/ AllowHost(t) \/ AllowSshTunnel(t) \/ Finish(t)

Next == \/ \E t \in Thread : \/ Accept(t) \/ IsAllowed(t) \/ Reject(t)
                             \/ Serve(t) \/ AddHost(t) \/ BanHost(t)
        \/ Restart

Spec == Init /\ [][Next]_vars

-----------------------------------------------------------------------------
(* Properties.                                                             *)

\* Type invariant of the permissions.
TypeOK ==
  /\ setup \in Setups
  /\ allowed_hosts \subseteq Entry /\ allowed_size \in Nat
  /\ banned_hosts \subseteq Entry  /\ banned_size \in Nat
  /\ DOMAIN RejectionCount \subseteq Entry
  /\ RejectionCount \in [DOMAIN RejectionCount -> Nat]
  /\ odbAllowed \in OdbArray
  /\ odbBanned \in OdbArray
  /\ pc \in [Thread -> Label]
  /\ hostname \in [Thread -> Host]
  /\ adding \in [Thread -> Seq(Entry)]
  /\ slot \in [Thread -> Nat]

\* What the ODB shows is in force: every entry an operator can read in the two
\* arrays is in the list the threads test hosts against, whatever the other
\* threads are doing and however often the process was restarted
\* (the constructor, AddHost and BanHost keep memory and ODB in step).
OdbEnforced == /\ Entries(odbAllowed) \subseteq allowed_hosts
               /\ Entries(odbBanned) \subseteq banned_hosts

\* With self registration off, only a host the operator listed is ever served:
\* no peer's commands, in any interleaving, over any number of restarts, extend
\* the list the operator wrote (IsAllowed and the guards of ALLOW_HOST and
\* ALLOW_SSH_TUNNEL).
OperatorDecides ==
  ~allow_self_registration =>
    /\ \A t \in Thread : Serving(t) => Listed(Entries(OdbAllowed0), hostname[t])
    /\ Entries(odbAllowed) = Entries(OdbAllowed0)

\* With self registration off a ban is for good: a host that is banned stays
\* banned, over any interleaving of threads and over restarts (BanHost writes the
\* ODB in the same critical section as the list, at the cell the list's length names).
BansSurvive == [][~allow_self_registration => banned_hosts \subseteq banned_hosts']_vars

\* A cell of the banned array that holds a host is never given to another one,
\* however many bans overlap, with self registration off (BanHost writes at
\* size()-1, which has to be the first free cell).
CellsKept ==
  [][~allow_self_registration =>
       \A i \in Used(odbBanned) : odbBanned'[i] = odbBanned[i]]_vars

Storing(t) == pc[t] \in {"size", "write"}

\* Once every AddHost has returned, each host allowed in memory is in the ODB,
\* and so is still allowed after a restart (AddHost).
AdditionsStored == (\A t \in Thread : ~Storing(t)) => allowed_hosts = Entries(odbAllowed)

\* The race between push_back and WSAI is the only way to lose an addition: as long
\* as no two threads are between the two at once, every AddHost that has returned
\* has stored its host, over any sequence of calls, bans and restarts, also one
\* between the two (AddHost; a critical section over both would see to it).
OneStores == \A s, t \in Thread : Storing(s) /\ Storing(t) => s = t
AdditionsStoredInTurn == []OneStores => []AdditionsStored

\* Unless the process keeps restarting, no host is served on probation for
\* ever: sooner or later its contacts make it allowed or banned
\* (RejectionCount and retry_limit in IsListedAsQuestionable).
OnProbation == \E t \in Thread : At(t, "IsQuestionable") /\ pc'[t] = "read"
ProbationEnds == <>[][~Restart]_vars => <>[][~OnProbation]_vars
=============================================================================
