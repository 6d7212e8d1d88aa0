------------------------- MODULE AllowedHostsProofs -------------------------
(* Theorems about AllowedHosts, for every set of threads, hosts and entries, *)
(* every matching relation, every retry limit and every set of setups.       *)
EXTENDS AllowedHosts, FiniteSetTheorems, SequenceTheorems, TLAPS

\* The number of used cells of an array is a natural number.
LEMMA UsedFinite ==
  ASSUME NEW a \in OdbArray
  PROVE  IsFiniteSet(Used(a)) /\ Cardinality(Used(a)) \in Nat
<1>1. Used(a) \subseteq 1..Len(a)
  BY DEF Used, OdbArray
<1>2. IsFiniteSet(1..Len(a))
  BY FS_Interval DEF OdbArray
<1> QED BY <1>1, <1>2, FS_Subset, FS_CardinalityType

\* A write gives an array: the old one, extended with blanks up to the cell.
LEMMA WriteType ==
  ASSUME NEW a \in OdbArray, NEW i \in Nat, NEW v \in Entry \cup {Blank}
  PROVE  /\ WSAI(a, i, v) \in OdbArray
         /\ Len(WSAI(a, i, v)) = IF i > Len(a) THEN i ELSE Len(a)
         /\ \A j \in 1..Len(WSAI(a, i, v)) :
              WSAI(a, i, v)[j] = IF j = i THEN v ELSE IF j <= Len(a) THEN a[j] ELSE Blank
<1> DEFINE n == IF i > Len(a) THEN i ELSE Len(a)
<1>1. n \in Nat
  BY DEF OdbArray
<1>2. \A j \in 1..n : (IF j = i THEN v ELSE IF j <= Len(a) THEN a[j] ELSE Blank) \in Entry \cup {Blank}
  BY DEF OdbArray
<1>3. WSAI(a, i, v) \in [1..n -> Entry \cup {Blank}]
  BY <1>2 DEF WSAI, WriteCell
<1>4. WSAI(a, i, v) \in OdbArray /\ Len(WSAI(a, i, v)) = n
  BY <1>1, <1>3 DEF OdbArray
<1>5. \A j \in 1..n : WSAI(a, i, v)[j] = IF j = i THEN v ELSE IF j <= Len(a) THEN a[j] ELSE Blank
  BY DEF WSAI, WriteCell
<1> QED BY <1>4, <1>5

\* A write adds nothing but the value written, and any other cell stays used.
LEMMA WriteEntries ==
  ASSUME NEW a \in OdbArray, NEW i \in Nat \ {0}, NEW v \in Entry
  PROVE  /\ Entries(WSAI(a, i, v)) \subseteq Entries(a) \cup {v}
         /\ Used(WSAI(a, i, v)) = Used(a) \cup {i}
         /\ \A j \in Used(a) \ {i} : WSAI(a, i, v)[j] = a[j]
         /\ WSAI(a, i, v)[i] = v
<1> DEFINE w == WSAI(a, i, v)
<1>1. w \in OdbArray /\ Len(w) = (IF i > Len(a) THEN i ELSE Len(a))
  BY WriteType
<1>2. \A j \in 1..Len(w) : w[j] = IF j = i THEN v ELSE IF j <= Len(a) THEN a[j] ELSE Blank
  BY WriteType
<1>3. DOMAIN w = 1..Len(w) /\ DOMAIN a = 1..Len(a) /\ Len(a) \in Nat /\ Len(w) \in Nat
  BY <1>1 DEF OdbArray
<1>4. v # Blank
  BY EntryAssumption
<1>5. i \in 1..Len(w)
  BY <1>1, <1>3
<1>6. Used(w) = Used(a) \cup {i}
  BY <1>1, <1>2, <1>3, <1>4, <1>5 DEF Used
<1>7. \A j \in Used(a) \ {i} : w[j] = a[j]
  BY <1>1, <1>2, <1>3 DEF Used
<1>8. Entries(w) \subseteq Entries(a) \cup {v}
  BY <1>2, <1>5, <1>6, <1>7 DEF Entries
<1> QED BY <1>2, <1>5, <1>6, <1>7, <1>8

\* The same when the index may be 0, which names no cell.
LEMMA WriteAny ==
  ASSUME NEW a \in OdbArray, NEW i \in Nat, NEW v \in Entry
  PROVE  Entries(WSAI(a, i, v)) \subseteq Entries(a) \cup {v}
<1> DEFINE w == WSAI(a, i, v)
<1>1. CASE i # 0
  BY <1>1, WriteEntries
<1>2. CASE i = 0
  <2>1. w \in OdbArray /\ Len(w) = Len(a) /\ \A j \in 1..Len(w) : w[j] = a[j]
    BY <1>2, WriteType DEF OdbArray
  <2>2. Used(w) = Used(a) /\ \A j \in Used(a) : w[j] = a[j]
    <3> HIDE DEF w
    <3> QED BY <2>1 DEF Used, OdbArray
  <2> QED BY <2>2 DEF Entries
<1> QED BY <1>1, <1>2

\* Growing an array on load changes no used cell.
LEMMA AutogrowSame ==
  ASSUME NEW a \in OdbArray
  PROVE  /\ Autogrow(a) \in OdbArray
         /\ Used(Autogrow(a)) = Used(a)
         /\ \A j \in Used(a) : Autogrow(a)[j] = a[j]
         /\ Entries(Autogrow(a)) = Entries(a)
<1> DEFINE n == Cardinality(Used(a)) + Spare
           w == WSAI(a, n + 1, Blank)
<1>1. n \in Nat
  BY UsedFinite, SettingsAssumption
<1>2. CASE Len(a) >= n
  BY <1>1, <1>2 DEF Autogrow, OdbArray
<1>3. CASE Len(a) < n
  <2>1. w \in OdbArray /\ Len(w) = n + 1
    BY <1>1, <1>3, WriteType DEF OdbArray
  <2>2. \A j \in 1..Len(w) : w[j] = IF j = n + 1 THEN Blank ELSE IF j <= Len(a) THEN a[j] ELSE Blank
    BY <1>1, WriteType
  <2>3. DOMAIN w = 1..Len(w) /\ DOMAIN a = 1..Len(a) /\ Len(a) \in Nat
    BY <2>1 DEF OdbArray
  <2>4. Used(w) = Used(a) /\ \A j \in Used(a) : w[j] = a[j]
    <3> HIDE DEF w, n
    <3>1. \A j \in 1..Len(w) : (j > Len(a) => w[j] = Blank) /\ (j <= Len(a) => w[j] = a[j])
      BY <1>1, <1>3, <2>1, <2>2, <2>3
    <3>2. 1..Len(a) \subseteq 1..Len(w)
      BY <1>1, <1>3, <2>1, <2>3
    <3> QED BY <1>1, <2>1, <2>3, <3>1, <3>2 DEF Used
  <2>5. Entries(w) = Entries(a)
    BY <2>4 DEF Entries
  <2>6. Autogrow(a) = w
    BY <1>1, <1>3 DEF Autogrow
  <2> QED BY <2>1, <2>4, <2>5, <2>6
<1> QED BY <1>1, <1>2, <1>3 DEF OdbArray

-----------------------------------------------------------------------------
(* Type correctness needs one fact about control: a thread inside AddHost    *)
(* still has the string it adds.                                             *)

Adding(t) == pc[t] \in {"AddHost", "push", "size", "write"}

TypeInv == TypeOK /\ \A t \in Thread : Adding(t) => adding[t] # <<>>

LEMMA EntriesType ==
  ASSUME NEW a \in OdbArray
  PROVE  Entries(a) \subseteq Entry
BY DEF Entries, Used, OdbArray

\* What an operator starts with.
LEMMA SetupType ==
  ASSUME setup \in Setups
  PROVE  /\ OdbAllowed0 \in OdbArray /\ OdbBanned0 \in OdbArray
         /\ setup.peers \subseteq Host /\ setup.names \subseteq Entry
BY SetupAssumption DEF OdbAllowed0, OdbBanned0

LEMMA TypeInit == Init => TypeInv
<1> SUFFICES ASSUME Init PROVE TypeInv
  OBVIOUS
<1>0. /\ setup \in Setups /\ OdbAllowed0 \in OdbArray /\ OdbBanned0 \in OdbArray
      /\ setup.peers \subseteq Host
  BY SetupType DEF Init
<1>1. allowed_size \in Nat /\ banned_size \in Nat
  BY <1>0, UsedFinite DEF Init
<1>2. allowed_hosts \subseteq Entry /\ banned_hosts \subseteq Entry
  BY <1>0, EntriesType DEF Init
<1>3. odbAllowed \in OdbArray /\ odbBanned \in OdbArray
  BY <1>0, AutogrowSame DEF Init
<1>4. DOMAIN RejectionCount \subseteq Entry /\ RejectionCount \in [DOMAIN RejectionCount -> Nat]
  BY DEF Init
<1>5. /\ pc \in [Thread -> Label] /\ hostname \in [Thread -> Host]
      /\ adding \in [Thread -> Seq(Entry)] /\ slot \in [Thread -> Nat]
  BY <1>0 DEF Init, Label
<1>6. \A t \in Thread : ~Adding(t)
  BY DEF Init, Adding
<1> QED BY <1>0, <1>1, <1>2, <1>3, <1>4, <1>5, <1>6 DEF TypeInv, TypeOK

\* What is left of an AddHost list after one call.
LEMMA NextAddType ==
  ASSUME TypeInv, NEW t \in Thread, Adding(t), NextAdd(t)
  PROVE  /\ pc' \in [Thread -> Label] /\ adding' \in [Thread -> Seq(Entry)]
         /\ \A u \in Thread : Adding(u)' => adding'[u] # <<>>
<1>1. adding[t] \in Seq(Entry) /\ adding[t] # <<>> /\ Len(adding[t]) \in Nat \ {0}
  BY DEF TypeInv, TypeOK
<1>2. Tail(adding[t]) \in Seq(Entry) /\ (Len(adding[t]) # 1 => Tail(adding[t]) # <<>>)
  <2>1. Tail(adding[t]) \in Seq(Entry) /\ Len(Tail(adding[t])) = Len(adding[t]) - 1
    BY <1>1, HeadTailProperties
  <2>2. Tail(adding[t]) = <<>> => Len(Tail(adding[t])) = 0
    BY <2>1, EmptySeq
  <2> QED BY <1>1, <2>1, <2>2
<1>3. pc' \in [Thread -> Label]
  BY DEF TypeInv, TypeOK, NextAdd, Goto, Label
<1>4. adding' \in [Thread -> Seq(Entry)]
  BY <1>2 DEF TypeInv, TypeOK, NextAdd
<1>5. ASSUME NEW u \in Thread, Adding(u)' PROVE adding'[u] # <<>>
  BY <1>2, <1>5 DEF TypeInv, TypeOK, NextAdd, Goto, Adding
<1> QED BY <1>3, <1>4, <1>5

\* The actions that only move pc, and those of IsAllowed.
LEMMA TypeAdmission ==
  ASSUME TypeInv, NEW t \in Thread,
         Accept(t) \/ IsAllowed(t) \/ Reject(t) \/ BanHost(t)
  PROVE  TypeInv'
<1> USE DEF TypeInv, TypeOK, Label, At, Goto, Adding, lists, odb
<1>0. hostname[t] \in Entry
  BY EntryAssumption
<1>1. CASE Accept(t)
  BY <1>1, SetupType DEF Accept
<1>2. CASE CheckAllowed(t) \/ CheckBanned(t) \/ PassAssert(t) \/ Reject(t) \/ BanCheck(t)
  BY <1>2 DEF CheckAllowed, CheckBanned, PassAssert, Reject, BanCheck
<1>3. CASE FirstContact(t)
  BY <1>0, <1>3 DEF FirstContact
<1>4. CASE LaterContact(t)
  <2> PICK e \in Known(hostname[t]), cooled \in BOOLEAN :
        /\ RejectionCount' = IF cooled THEN [RejectionCount EXCEPT ![e] = @ + 1] ELSE RejectionCount
        /\ Goto(t, IF cooled THEN "read" ELSE "LogicFailed")
    BY <1>4 DEF LaterContact
  <2>1. e \in DOMAIN RejectionCount
    BY DEF Known
  <2>2. DOMAIN RejectionCount' = DOMAIN RejectionCount /\ RejectionCount' \in [DOMAIN RejectionCount -> Nat]
    BY <2>1
  <2> QED BY <1>4, <2>2 DEF LaterContact
<1>5. CASE AutoBan(t)
  <2> PICK e \in Known(hostname[t]) :
        /\ banned_hosts' = banned_hosts \cup {e}
        /\ RejectionCount' = [x \in DOMAIN RejectionCount \ {e} |-> RejectionCount[x]]
    BY <1>5 DEF AutoBan
  <2>1. e \in Entry
    BY DEF Known
  <2>2. DOMAIN RejectionCount' \subseteq Entry /\ RejectionCount' \in [DOMAIN RejectionCount' -> Nat]
    OBVIOUS
  <2>3. pc' = [pc EXCEPT ![t] = "read"] \/ pc' = [pc EXCEPT ![t] = "LogicFailed"]
    BY <1>5 DEF AutoBan
  <2>4. pc' \in [Thread -> Label] /\ \A u \in Thread : Adding(u)' => Adding(u)
    BY <2>3
  <2>5. /\ UNCHANGED <<allowed_hosts, allowed_size, odb, hostname, adding, slot>>
        /\ banned_size' = banned_size + 1
    BY <1>5 DEF AutoBan
  <2> QED BY <2>1, <2>2, <2>4, <2>5
<1>6. CASE BanPush(t)
  <2>1. odbBanned' \in OdbArray
    <3>1. banned_size' \in Nat /\ odbBanned \in OdbArray
      BY <1>6 DEF BanPush
    <3> HIDE DEF TypeInv, TypeOK
    <3> QED BY <1>0, <1>6, <3>1, WriteType DEF BanPush
  <2> QED BY <1>0, <1>6, <2>1 DEF BanPush
<1> QED BY <1>1, <1>2, <1>3, <1>4, <1>5, <1>6 DEF IsAllowed, BanHost

\* The commands of an admitted peer.
LEMMA TypeService ==
  ASSUME TypeInv, NEW t \in Thread, Serve(t) \/ AddHost(t)
  PROVE  TypeInv'
<1>0. hostname[t] \in Entry
  BY EntryAssumption DEF TypeInv, TypeOK
<1>1. CASE Malformed(t) \/ Finish(t)
  BY <1>1 DEF Malformed, Finish, TypeInv, TypeOK, Label, At, Goto, Adding, Serving, lists, odb
<1>2. CASE AllowHost(t)
  <2>0. setup.names \subseteq Entry
    BY SetupType DEF TypeInv, TypeOK
  <2> PICK d \in setup.names :
       IF ~allow_self_registration
       THEN Goto(t, "banks") /\ UNCHANGED adding
       ELSE /\ adding' = [adding EXCEPT ![t] = IF d # hostname[t] THEN <<hostname[t], d>> ELSE <<d>>]
            /\ Goto(t, "AddHost")
    BY <1>2 DEF AllowHost
  <2>1. /\ <<hostname[t], d>> \in Seq(Entry) /\ <<hostname[t], d>> # <<>>
        /\ <<d>> \in Seq(Entry) /\ <<d>> # <<>>
    BY <1>0, <2>0
  <2> QED BY <1>2, <2>1 DEF AllowHost, TypeInv, TypeOK, Label, Goto, Adding, lists, odb
<1>3. CASE AllowSshTunnel(t)
  <2>1. <<hostname[t]>> \in Seq(Entry) /\ <<hostname[t]>> # <<>>
    BY <1>0
  <2> QED BY <1>3, <2>1 DEF AllowSshTunnel, TypeInv, TypeOK, Label, Goto, Adding, lists, odb
<1>4. CASE AddCheck(t)
  <2>1. Adding(t)
    BY <1>4 DEF AddCheck, At, Adding
  <2>2. CASE IsListedAsAllowed(Head(adding[t]))
    BY <1>4, <2>1, <2>2, NextAddType DEF AddCheck, TypeInv, TypeOK, lists, odb
  <2>3. CASE ~IsListedAsAllowed(Head(adding[t]))
    BY <1>4, <2>1, <2>3 DEF AddCheck, TypeInv, TypeOK, Label, Goto, Adding, lists, odb
  <2> QED BY <2>2, <2>3
<1>5. ASSUME Adding(t) PROVE Head(adding[t]) \in Entry
  BY <1>5 DEF TypeInv, TypeOK
<1>6. CASE AddPush(t) \/ AddSize(t)
  <2>1. Adding(t) /\ adding[t] # <<>> /\ adding' = adding
    BY <1>6 DEF AddPush, AddSize, At, Adding, TypeInv
  <2>2. Head(adding[t]) \in Entry
    BY <1>5, <2>1
  <2>3. \A u \in Thread : Adding(u)' => adding'[u] # <<>>
    BY <1>6, <2>1 DEF AddPush, AddSize, TypeInv, TypeOK, Goto, Adding
  <2>4. CASE AddPush(t)
    BY <2>2, <2>3, <2>4 DEF AddPush, TypeInv, TypeOK, Label, Goto, odb
  <2>5. CASE AddSize(t)
    BY <2>3, <2>5 DEF AddSize, TypeInv, TypeOK, Label, Goto, lists, odb
  <2> QED BY <1>6, <2>4, <2>5
<1>7. CASE AddWrite(t)
  <2>1. Adding(t)
    BY <1>7 DEF AddWrite, At, Adding
  <2>2. odbAllowed' \in OdbArray
    BY <1>5, <1>7, <2>1, WriteType DEF AddWrite, TypeInv, TypeOK
  <2> QED BY <1>7, <2>1, <2>2, NextAddType DEF AddWrite, TypeInv, TypeOK, lists
<1> QED BY <1>1, <1>2, <1>3, <1>4, <1>6, <1>7 DEF Serve, AddHost

LEMMA TypeRestart == TypeInv /\ Restart => TypeInv'
<1> SUFFICES ASSUME TypeInv, Restart PROVE TypeInv'
  OBVIOUS
<1> USE DEF TypeInv, TypeOK
<1>1. /\ allowed_size' \in Nat /\ allowed_hosts' \subseteq Entry
      /\ banned_size' \in Nat /\ banned_hosts' \subseteq Entry
  BY UsedFinite, EntriesType DEF Restart, Load
<1>2. odbAllowed' \in OdbArray /\ odbBanned' \in OdbArray
  BY AutogrowSame DEF Restart, Load
<1>3. DOMAIN RejectionCount' \subseteq Entry /\ RejectionCount' \in [DOMAIN RejectionCount' -> Nat]
  BY DEF Restart, Load
<1>4. /\ pc' \in [Thread -> Label] /\ hostname' \in [Thread -> Host] /\ setup' \in Setups
      /\ adding' \in [Thread -> Seq(Entry)] /\ slot' \in [Thread -> Nat]
      /\ \A t \in Thread : ~Adding(t)'
  BY DEF Restart, Adding, Label
<1> QED BY <1>1, <1>2, <1>3, <1>4

LEMMA TypeStep == TypeInv /\ [Next]_vars => TypeInv'
<1> SUFFICES ASSUME TypeInv, [Next]_vars PROVE TypeInv'
  OBVIOUS
<1>1. CASE \E t \in Thread : Accept(t) \/ IsAllowed(t) \/ Reject(t) \/ BanHost(t)
  BY <1>1, TypeAdmission
<1>2. CASE \E t \in Thread : Serve(t) \/ AddHost(t)
  BY <1>2, TypeService
<1>3. CASE Restart
  BY <1>3, TypeRestart
<1>4. CASE UNCHANGED vars
  BY <1>4 DEF TypeInv, TypeOK, Adding, vars, lists, odb, local
<1> QED BY <1>1, <1>2, <1>3, <1>4 DEF Next

\* The variables keep their types in every behaviour of the permissions.
THEOREM TypeCorrect == Spec => []TypeOK
<1>1. TypeInv => TypeOK
  BY DEF TypeInv
<1> QED BY <1>1, TypeInit, TypeStep, PTL DEF Spec

LEMMA TypeAlways == Spec => []TypeInv
BY TypeInit, TypeStep, PTL DEF Spec

-----------------------------------------------------------------------------
(* OdbEnforced.  A thread between push_back and WSAI has already put the     *)
(* string it is about to write into allowed_hosts, and nothing takes it out  *)
(* again while the thread lives.                                             *)

EnforcedInv ==
  OdbEnforced /\ \A t \in Thread : pc[t] \in {"size", "write"} => Head(adding[t]) \in allowed_hosts

LEMMA EnforcedInit == Init => EnforcedInv
<1> SUFFICES ASSUME Init PROVE EnforcedInv
  OBVIOUS
<1>1. Entries(odbAllowed) = allowed_hosts /\ Entries(odbBanned) = banned_hosts
  BY SetupType, AutogrowSame DEF Init
<1>2. \A t \in Thread : pc[t] = "accept"
  BY DEF Init
<1> QED BY <1>1, <1>2 DEF EnforcedInv, OdbEnforced

\* Steps that write no ODB cell, drop no allowed or banned host, and bring no
\* thread to AddHost's last two labels.
LEMMA EnforcedQuiet ==
  ASSUME EnforcedInv, UNCHANGED odb,
         allowed_hosts \subseteq allowed_hosts', banned_hosts \subseteq banned_hosts',
         \A t \in Thread : pc'[t] \in {"size", "write"} =>
            Head(adding'[t]) \in allowed_hosts' \/ (pc[t] \in {"size", "write"} /\ adding'[t] = adding[t])
  PROVE  EnforcedInv'
BY DEF EnforcedInv, OdbEnforced, odb

LEMMA EnforcedStep == TypeInv /\ EnforcedInv /\ [Next]_vars => EnforcedInv'
<1> SUFFICES ASSUME TypeInv, EnforcedInv, [Next]_vars PROVE EnforcedInv'
  OBVIOUS
<1>0. pc \in [Thread -> Label] /\ adding \in [Thread -> Seq(Entry)]
  BY DEF TypeInv, TypeOK
<1>1. ASSUME NEW t \in Thread, Accept(t) \/ IsAllowed(t) \/ Reject(t) \/ Serve(t) \/ BanCheck(t)
      PROVE  EnforcedInv'
  <2>1. UNCHANGED odb /\ allowed_hosts' = allowed_hosts /\ banned_hosts \subseteq banned_hosts'
    BY <1>1 DEF Accept, IsAllowed, CheckAllowed, CheckBanned, FirstContact, LaterContact, AutoBan,
                PassAssert, Reject, Serve, Malformed, AllowHost, AllowSshTunnel, Finish, BanCheck,
                lists, odb
  <2>2. \E l \in Label \ {"size", "write"} : pc' = [pc EXCEPT ![t] = l]
    BY <1>1 DEF Accept, IsAllowed, CheckAllowed, CheckBanned, FirstContact, LaterContact, AutoBan,
                PassAssert, Reject, Serve, Malformed, AllowHost, AllowSshTunnel, Finish, BanCheck,
                Goto, Label
  <2>3. \A u \in Thread \ {t} : adding'[u] = adding[u]
    BY <1>0, <1>1 DEF Accept, IsAllowed, CheckAllowed, CheckBanned, FirstContact, LaterContact, AutoBan,
                PassAssert, Reject, Serve, Malformed, AllowHost, AllowSshTunnel, Finish, BanCheck
  <2>4. \A u \in Thread : pc'[u] \in {"size", "write"} => u # t /\ pc[u] = pc'[u]
    BY <1>0, <2>2
  <2> QED BY <2>1, <2>3, <2>4, EnforcedQuiet
<1>2. ASSUME NEW t \in Thread, BanPush(t) PROVE EnforcedInv'
  <2>1. hostname[t] \in Entry /\ banned_size + 1 \in Nat \ {0} /\ odbBanned \in OdbArray
    BY EntryAssumption DEF TypeInv, TypeOK
  <2>2. Entries(odbBanned') \subseteq Entries(odbBanned) \cup {hostname[t]}
    BY <1>2, <2>1, WriteEntries DEF BanPush
  <2>3. OdbEnforced'
    BY <1>2, <2>2 DEF BanPush, EnforcedInv, OdbEnforced
  <2> QED BY <1>0, <1>2, <2>3 DEF BanPush, EnforcedInv, Goto
<1>3. ASSUME NEW t \in Thread, AddCheck(t) \/ AddPush(t) \/ AddSize(t) PROVE EnforcedInv'
  <2>1. UNCHANGED <<odb, banned_hosts>> /\ allowed_hosts \subseteq allowed_hosts'
    BY <1>3 DEF AddCheck, AddPush, AddSize, lists
  <2>2. \A u \in Thread \ {t} : adding'[u] = adding[u] /\ pc'[u] = pc[u]
    BY <1>0, <1>3 DEF AddCheck, AddPush, AddSize, NextAdd, Goto
  <2>3. CASE AddCheck(t)
    <3>1. pc'[t] \notin {"size", "write"}
      BY <1>0, <2>3 DEF AddCheck, NextAdd, Goto
    <3> QED BY <2>1, <2>2, <3>1, EnforcedQuiet
  <2>4. CASE AddPush(t)
    <3>1. Head(adding'[t]) \in allowed_hosts'
      BY <2>4 DEF AddPush
    <3> QED BY <2>1, <2>2, <3>1, EnforcedQuiet
  <2>5. CASE AddSize(t)
    <3>1. pc[t] = "size" /\ adding'[t] = adding[t]
      BY <2>5 DEF AddSize, At
    <3> QED BY <2>1, <2>2, <3>1, EnforcedQuiet
  <2> QED BY <1>3, <2>3, <2>4, <2>5
<1>4. ASSUME NEW t \in Thread, AddWrite(t) PROVE EnforcedInv'
  <2>1. Head(adding[t]) \in allowed_hosts /\ allowed_hosts \subseteq Entry
    BY <1>4 DEF AddWrite, At, EnforcedInv, TypeInv, TypeOK
  <2>2. slot[t] \in Nat /\ odbAllowed \in OdbArray
    BY DEF TypeInv, TypeOK
  <2>3. Entries(odbAllowed') \subseteq Entries(odbAllowed) \cup {Head(adding[t])}
    BY <1>4, <2>1, <2>2, WriteAny DEF AddWrite
  <2>4. OdbEnforced'
    BY <1>4, <2>1, <2>3 DEF AddWrite, EnforcedInv, OdbEnforced, lists
  <2>5. /\ pc'[t] \notin {"size", "write"}
        /\ \A u \in Thread \ {t} : pc'[u] = pc[u] /\ adding'[u] = adding[u]
    BY <1>0, <1>4 DEF AddWrite, NextAdd, Goto
  <2>6. allowed_hosts' = allowed_hosts
    BY <1>4 DEF AddWrite, lists
  <2> QED BY <2>4, <2>5, <2>6 DEF EnforcedInv
<1>5. CASE Restart
  <2>1. Entries(odbAllowed') = allowed_hosts' /\ Entries(odbBanned') = banned_hosts'
    BY <1>5, AutogrowSame DEF Restart, Load, TypeInv, TypeOK
  <2>2. \A t \in Thread : pc'[t] = "accept"
    BY <1>5 DEF Restart
  <2> QED BY <2>1, <2>2 DEF EnforcedInv, OdbEnforced
<1>6. CASE UNCHANGED vars
  BY <1>6 DEF vars, lists, odb, local, EnforcedInv, OdbEnforced
<1> QED BY <1>1, <1>2, <1>3, <1>4, <1>5, <1>6 DEF Next, AddHost, BanHost

\* Every entry an operator reads in the ODB is in force in memory, for any
\* number of threads in any interleaving and any number of restarts.
THEOREM OdbAlwaysEnforced == Spec => []OdbEnforced
<1>1. EnforcedInv => OdbEnforced
  BY DEF EnforcedInv
<1> QED BY <1>1, EnforcedInit, EnforcedStep, TypeAlways, PTL DEF Spec

-----------------------------------------------------------------------------
(* OperatorDecides.  With self registration off the allowed list, in memory  *)
(* and in the ODB, is the operator's, no thread is inside AddHost, and none  *)
(* reaches the questionable list.                                            *)

OperatorInv ==
  /\ ~allow_self_registration
  /\ allowed_hosts = Entries(OdbAllowed0)
  /\ Entries(odbAllowed) = Entries(OdbAllowed0)
  /\ \A t \in Thread : ~Adding(t) /\ pc[t] \notin {"IsQuestionable", "LogicFailed"}
  /\ \A t \in Thread : Serving(t) => IsListedAsAllowed(hostname[t])

LEMMA OperatorInit == Init /\ ~allow_self_registration => OperatorInv
BY SetupType, AutogrowSame DEF Init, OperatorInv, Adding, Serving

\* The operator's setup is never changed.
LEMMA SetupKept == [Next]_vars => setup' = setup
<1>1. ASSUME NEW t \in Thread, Accept(t) \/ IsAllowed(t) \/ Reject(t) \/ Serve(t) \/ AddHost(t) \/ BanHost(t)
      PROVE  setup' = setup
  BY <1>1 DEF Accept, IsAllowed, CheckAllowed, CheckBanned, FirstContact, LaterContact, AutoBan,
              PassAssert, Reject, Serve, Malformed, AllowHost, AllowSshTunnel, Finish, BanHost,
              BanCheck, BanPush, AddHost, AddCheck, AddPush, AddSize, AddWrite, odb
<1>2. Restart \/ UNCHANGED vars => setup' = setup
  BY DEF Restart, vars, odb
<1> QED BY <1>1, <1>2 DEF Next

LEMMA OperatorStep == TypeInv /\ OperatorInv /\ [Next]_vars => OperatorInv'
<1> SUFFICES ASSUME TypeInv, OperatorInv, [Next]_vars PROVE OperatorInv'
  OBVIOUS
<1>0. pc \in [Thread -> Label] /\ hostname \in [Thread -> Host]
  BY DEF TypeInv, TypeOK
<1>s. OdbAllowed0' = OdbAllowed0 /\ allow_self_registration' = allow_self_registration
  BY SetupKept DEF OdbAllowed0, allow_self_registration
<1> USE DEF OperatorInv, Adding, Serving, At, Goto
<1>1. ASSUME NEW t \in Thread, Accept(t) PROVE OperatorInv'
  <2>1. \E h \in Host : hostname' = [hostname EXCEPT ![t] = h]
    BY <1>1, SetupType DEF Accept, TypeInv, TypeOK
  <2>2. pc' = [pc EXCEPT ![t] = "IsAllowed"] /\ UNCHANGED <<allowed_hosts, odbAllowed>>
    BY <1>1 DEF Accept, lists, odb
  <2> QED BY <1>0, <1>s, <2>1, <2>2 DEF IsListedAsAllowed
<1>2. ASSUME NEW t \in Thread, CheckAllowed(t) PROVE OperatorInv'
  <2>1. UNCHANGED <<allowed_hosts, odbAllowed, hostname>>
    BY <1>2 DEF CheckAllowed, lists, odb
  <2>2. pc' = [pc EXCEPT ![t] = IF IsListedAsAllowed(hostname[t]) THEN "read" ELSE "IsBanned"]
    BY <1>2 DEF CheckAllowed
  <2> QED BY <1>0, <1>s, <2>1, <2>2 DEF IsListedAsAllowed
<1>3. ASSUME NEW t \in Thread,
             CheckBanned(t) \/ Reject(t) \/ Serve(t) \/ BanHost(t)
      PROVE  OperatorInv'
  <2>1. UNCHANGED <<allowed_hosts, odbAllowed, hostname>>
    BY <1>3 DEF CheckBanned, Reject, Serve, Malformed, AllowHost, AllowSshTunnel, Finish,
                BanHost, BanCheck, BanPush, lists, odb
  <2>2. \E l \in {"PrintRejection", "accept", "BanHost", "ban", "banks"} :
          pc' = [pc EXCEPT ![t] = l] /\ (l = "banks" => Serving(t))
    BY <1>3 DEF CheckBanned, Reject, Serve, Malformed, AllowHost, AllowSshTunnel, Finish,
                BanHost, BanCheck, BanPush
  <2> QED BY <1>0, <1>s, <2>1, <2>2 DEF IsListedAsAllowed
<1>4. ASSUME NEW t \in Thread,
             FirstContact(t) \/ LaterContact(t) \/ AutoBan(t) \/ PassAssert(t) \/ AddHost(t)
      PROVE  FALSE
  BY <1>4 DEF FirstContact, LaterContact, AutoBan, PassAssert, AddHost, AddCheck, AddPush, AddSize, AddWrite
<1>5. CASE Restart
  BY <1>s, <1>5, AutogrowSame DEF Restart, Load, TypeInv, TypeOK
<1>6. CASE UNCHANGED vars
  BY <1>s, <1>6 DEF vars, lists, odb, local, IsListedAsAllowed
<1> QED BY <1>1, <1>2, <1>3, <1>4, <1>5, <1>6 DEF Next, IsAllowed

\* Only hosts the operator listed are served while self registration is off.
THEOREM OperatorAlwaysDecides == Spec => []OperatorDecides
<1> DEFINE Inv == allow_self_registration \/ OperatorInv
<1>1. Init => Inv
  BY OperatorInit
<1>2. TypeInv /\ Inv /\ [Next]_vars => Inv'
  BY OperatorStep, SetupKept DEF allow_self_registration
<1>3. Inv => OperatorDecides
  BY DEF OperatorInv, OperatorDecides, IsListedAsAllowed
<1> QED BY <1>1, <1>2, <1>3, TypeAlways, PTL DEF Spec

-----------------------------------------------------------------------------
(* Bans.  While the ODB array has no blank cell before a used one and only   *)
(* BanHost adds to the list, the list is the image of the array: the cell    *)
(* BanHost writes is the first free one, and a restart loads what there was. *)

BanMirror == Used(odbBanned) = 1..banned_size /\ banned_hosts = Entries(odbBanned)

LEMMA LoadCompact ==
  ASSUME NEW a \in OdbArray, Compact(a)
  PROVE  Used(a) = 1..Cardinality(Used(a))
<1>1. PICK n \in 0..Len(a) : Used(a) = 1..n
  BY DEF Compact
<1>2. n \in Nat
  BY DEF OdbArray
<1>3. Cardinality(1..n) = n
  BY <1>2, FS_Interval
<1> QED BY <1>1, <1>3

LEMMA MirrorInit == Init /\ Compact(OdbBanned0) => BanMirror
<1> SUFFICES ASSUME Init, Compact(OdbBanned0) PROVE BanMirror
  OBVIOUS
<1>0. OdbBanned0 \in OdbArray
  BY SetupType DEF Init
<1>1. Used(OdbBanned0) = 1..Cardinality(Used(OdbBanned0))
  BY <1>0, LoadCompact
<1>2. Used(odbBanned) = Used(OdbBanned0) /\ Entries(odbBanned) = Entries(OdbBanned0)
  BY <1>0, AutogrowSame DEF Init
<1> QED BY <1>1, <1>2 DEF Init, BanMirror

\* A step of the mirrored list: it grows by what is written behind it, or the
\* step leaves list and array as they were.
LEMMA MirrorStep ==
  ASSUME TypeInv, OperatorInv, BanMirror, [Next]_vars
  PROVE  /\ BanMirror'
         /\ banned_hosts \subseteq banned_hosts'
         /\ \A i \in Used(odbBanned) : odbBanned'[i] = odbBanned[i]
<1>1. ASSUME NEW t \in Thread, BanPush(t)
      PROVE  /\ BanMirror'
             /\ banned_hosts \subseteq banned_hosts'
             /\ \A i \in Used(odbBanned) : odbBanned'[i] = odbBanned[i]
  <2> DEFINE n == banned_size + 1
  <2>1. hostname[t] \in Entry /\ odbBanned \in OdbArray /\ banned_size \in Nat /\ n \in Nat \ {0}
    BY EntryAssumption DEF TypeInv, TypeOK
  <2>2. odbBanned' = WSAI(odbBanned, n, hostname[t]) /\ banned_size' = n
        /\ banned_hosts' = banned_hosts \cup {hostname[t]}
    BY <1>1 DEF BanPush
  <2>3. /\ Entries(odbBanned') \subseteq Entries(odbBanned) \cup {hostname[t]}
        /\ Used(odbBanned') = Used(odbBanned) \cup {n}
        /\ \A j \in Used(odbBanned) \ {n} : odbBanned'[j] = odbBanned[j]
        /\ odbBanned'[n] = hostname[t]
    <3> DEFINE w == WSAI(odbBanned, n, hostname[t])
    <3> HIDE DEF n
    <3>1. /\ Entries(w) \subseteq Entries(odbBanned) \cup {hostname[t]}
          /\ Used(w) = Used(odbBanned) \cup {n}
          /\ \A j \in Used(odbBanned) \ {n} : w[j] = odbBanned[j]
          /\ w[n] = hostname[t]
      BY <2>1, WriteEntries
    <3> QED BY <2>2, <3>1
  <2>4. Used(odbBanned') = 1..n /\ n \notin Used(odbBanned)
    BY <2>1, <2>3 DEF BanMirror
  <2>5. Entries(odbBanned) \cup {hostname[t]} \subseteq Entries(odbBanned')
    <3>1. \A j \in Used(odbBanned) : odbBanned[j] \in Entries(odbBanned')
      BY <2>3, <2>4 DEF Entries
    <3>2. hostname[t] \in Entries(odbBanned')
      BY <2>3 DEF Entries
    <3> QED BY <3>1, <3>2 DEF Entries
  <2> QED BY <2>2, <2>3, <2>4, <2>5 DEF BanMirror
<1>2. CASE UNCHANGED <<banned_hosts, banned_size, odbBanned>>
  BY <1>2 DEF BanMirror
<1>3. CASE Restart
  <2>1. odbBanned \in OdbArray
    BY DEF TypeInv, TypeOK
  <2>2. Used(odbBanned) = 1..Cardinality(Used(odbBanned))
    <3>1. Cardinality(1..banned_size) = banned_size
      <4>1. banned_size \in Nat
        BY DEF TypeInv, TypeOK
      <4> QED BY <4>1, FS_Interval
    <3> QED BY <3>1 DEF BanMirror
  <2>3. /\ banned_hosts' = Entries(odbBanned) /\ banned_size' = Cardinality(Used(odbBanned))
        /\ odbBanned' = Autogrow(odbBanned)
    BY <1>3 DEF Restart, Load
  <2>4. /\ Used(odbBanned') = Used(odbBanned) /\ Entries(odbBanned') = Entries(odbBanned)
        /\ \A j \in Used(odbBanned) : odbBanned'[j] = odbBanned[j]
    BY <2>1, <2>3, AutogrowSame
  <2> QED BY <2>2, <2>3, <2>4 DEF BanMirror
<1>4. ASSUME NEW t \in Thread, ~BanPush(t), ~AutoBan(t),
             Accept(t) \/ IsAllowed(t) \/ Reject(t) \/ Serve(t) \/ AddHost(t) \/ BanHost(t)
      PROVE  UNCHANGED <<banned_hosts, banned_size, odbBanned>>
  BY <1>4 DEF Accept, IsAllowed, CheckAllowed, CheckBanned, FirstContact, LaterContact, PassAssert,
              Reject, Serve, Malformed, AllowHost, AllowSshTunnel, Finish, BanHost, BanCheck,
              AddHost, AddCheck, AddPush, AddSize, AddWrite, lists, odb
<1>5. \A t \in Thread : ~AutoBan(t)
  BY DEF AutoBan, OperatorInv, At
<1>6. UNCHANGED vars => UNCHANGED <<banned_hosts, banned_size, odbBanned>>
  BY DEF vars, lists, odb
<1> QED BY <1>1, <1>2, <1>3, <1>4, <1>5, <1>6 DEF Next

\* The two invariants together, for setups without self registration.
MirrorInv == ~allow_self_registration => OperatorInv /\ BanMirror

LEMMA MirrorAlways ==
  ASSUME \A s \in Setups : Compact(s.banned)
  PROVE  Spec => []MirrorInv
<1>1. Init => MirrorInv
  <2>1. Init => Compact(OdbBanned0)
    BY DEF Init, OdbBanned0
  <2> QED BY <2>1, OperatorInit, MirrorInit DEF MirrorInv
<1>2. TypeInv /\ MirrorInv /\ [Next]_vars => MirrorInv'
  BY SetupKept, OperatorStep, MirrorStep DEF MirrorInv, allow_self_registration
<1> QED BY <1>1, <1>2, TypeAlways, PTL DEF Spec

\* With self registration off and no gap in the operator's banned list, a ban
\* outlives every restart, for any number of threads banning at once.
THEOREM BansAlwaysSurvive ==
  ASSUME \A s \in Setups : Compact(s.banned)
  PROVE  Spec => BansSurvive
<1> DEFINE Kept == ~allow_self_registration => banned_hosts \subseteq banned_hosts'
<1>1. TypeInv /\ MirrorInv /\ [Next]_vars => [Kept]_vars
  BY MirrorStep DEF MirrorInv
<1> QED BY <1>1, TypeAlways, MirrorAlways, PTL DEF Spec, BansSurvive

\* Under the same condition neither BanHost nor a restart ever gives an occupied
\* cell of the banned array to another host.
THEOREM CellsAlwaysKept ==
  ASSUME \A s \in Setups : Compact(s.banned)
  PROVE  Spec => CellsKept
<1> DEFINE Kept == ~allow_self_registration =>
                     \A i \in Used(odbBanned) : odbBanned'[i] = odbBanned[i]
<1>1. TypeInv /\ MirrorInv /\ [Next]_vars => [Kept]_vars
  BY MirrorStep DEF MirrorInv
<1> QED BY <1>1, TypeAlways, MirrorAlways, PTL DEF Spec, CellsKept

-----------------------------------------------------------------------------
(* Additions.  Between push_back and WSAI an AddHost has an entry in the     *)
(* list that the ODB lacks.  While no two calls are there at once, the list  *)
(* is the image of the array but for that entry, and the cell it goes to is  *)
(* the first free one, whether or not the entries differ.                    *)

Stored == Used(odbAllowed) = 1..allowed_size /\ allowed_hosts = Entries(odbAllowed)

StoredInv ==
  /\ (\A t \in Thread : ~Storing(t)) => Stored
  /\ \A t \in Thread : Storing(t) =>
       /\ allowed_size # 0 /\ Used(odbAllowed) = 1..(allowed_size - 1)
       /\ allowed_hosts = Entries(odbAllowed) \cup {Head(adding[t])}
       /\ At(t, "write") => slot[t] = allowed_size

LEMMA StoredInit == Init /\ Compact(OdbAllowed0) => StoredInv
<1> SUFFICES ASSUME Init, Compact(OdbAllowed0) PROVE StoredInv
  OBVIOUS
<1>0. OdbAllowed0 \in OdbArray
  BY SetupType DEF Init
<1>1. Used(OdbAllowed0) = 1..Cardinality(Used(OdbAllowed0))
  BY <1>0, LoadCompact
<1>2. Used(odbAllowed) = Used(OdbAllowed0) /\ Entries(odbAllowed) = Entries(OdbAllowed0)
  BY <1>0, AutogrowSame DEF Init
<1>3. \A t \in Thread : ~Storing(t)
  BY DEF Init, Storing
<1> QED BY <1>1, <1>2, <1>3 DEF Init, StoredInv, Stored

\* A write to the first free cell adds the value and takes nothing away.
LEMMA WriteBehind ==
  ASSUME NEW a \in OdbArray, NEW n \in Nat \ {0}, Used(a) = 1..(n - 1), NEW v \in Entry
  PROVE  /\ Used(WSAI(a, n, v)) = 1..n
         /\ Entries(WSAI(a, n, v)) = Entries(a) \cup {v}
<1> DEFINE w == WSAI(a, n, v)
<1>1. /\ Entries(w) \subseteq Entries(a) \cup {v} /\ Used(w) = Used(a) \cup {n}
      /\ \A j \in Used(a) \ {n} : w[j] = a[j]
      /\ w[n] = v
  BY WriteEntries
<1> HIDE DEF w
<1>2. n \notin Used(a) /\ Used(w) = 1..n
  BY <1>1
<1>3. Entries(a) \cup {v} \subseteq Entries(w)
  BY <1>1, <1>2 DEF Entries
<1> QED BY <1>1, <1>2, <1>3 DEF w

\* Steps that leave the list, its array and the calls of AddHost as they were.
LEMMA StoredQuiet ==
  ASSUME StoredInv, UNCHANGED <<allowed_hosts, allowed_size, odbAllowed, slot>>,
         \A t \in Thread : pc'[t] = pc[t] \/ (~Storing(t) /\ ~Storing(t)'),
         \A t \in Thread : Storing(t) => adding'[t] = adding[t]
  PROVE  StoredInv'
BY DEF StoredInv, Stored, Storing, At

LEMMA StoredStep ==
  ASSUME TypeInv, OneStores, OneStores', StoredInv, [Next]_vars
  PROVE  StoredInv'
<1>0. /\ pc \in [Thread -> Label] /\ adding \in [Thread -> Seq(Entry)] /\ slot \in [Thread -> Nat]
      /\ allowed_size \in Nat /\ odbAllowed \in OdbArray
  BY DEF TypeInv, TypeOK
<1>1. ASSUME NEW t \in Thread, Accept(t) \/ IsAllowed(t) \/ Reject(t) \/ Serve(t) \/ BanHost(t)
                               \/ AddCheck(t)
      PROVE  StoredInv'
  <2>1. UNCHANGED <<allowed_hosts, allowed_size, odbAllowed, slot>>
    BY <1>1 DEF Accept, IsAllowed, CheckAllowed, CheckBanned, FirstContact, LaterContact, AutoBan,
                PassAssert, Reject, Serve, Malformed, AllowHost, AllowSshTunnel, Finish, BanHost,
                BanCheck, BanPush, AddCheck, lists, odb
  <2>2. ~Storing(t) /\ \E l \in Label \ {"size", "write"} : pc' = [pc EXCEPT ![t] = l]
    BY <1>1 DEF Accept, IsAllowed, CheckAllowed, CheckBanned, FirstContact, LaterContact, AutoBan,
                PassAssert, Reject, Serve, Malformed, AllowHost, AllowSshTunnel, Finish, BanHost,
                BanCheck, BanPush, AddCheck, NextAdd, Goto, Label, At, Serving, Storing
  <2>3. \A u \in Thread \ {t} : adding'[u] = adding[u]
    BY <1>0, <1>1 DEF Accept, IsAllowed, CheckAllowed, CheckBanned, FirstContact, LaterContact,
                AutoBan, PassAssert, Reject, Serve, Malformed, AllowHost, AllowSshTunnel, Finish,
                BanHost, BanCheck, BanPush, AddCheck, NextAdd
  <2>4. \A u \in Thread : pc'[u] = pc[u] \/ (~Storing(u) /\ ~Storing(u)')
    BY <1>0, <2>2 DEF Storing
  <2> QED BY <2>1, <2>2, <2>3, <2>4, StoredQuiet
<1>2. ASSUME NEW t \in Thread, AddPush(t) PROVE StoredInv'
  <2>1. /\ pc[t] = "push" /\ pc' = [pc EXCEPT ![t] = "size"]
        /\ allowed_hosts' = allowed_hosts \cup {Head(adding[t])} /\ allowed_size' = allowed_size + 1
        /\ UNCHANGED <<odbAllowed, adding, slot>>
    BY <1>2 DEF AddPush, At, Goto, odb
  <2>2. Storing(t)' /\ ~Storing(t) /\ \A u \in Thread \ {t} : Storing(u) => Storing(u)'
    BY <1>0, <2>1 DEF Storing
  <2>3. \A u \in Thread : ~Storing(u)
    BY <2>2 DEF OneStores
  <2>4. Stored
    BY <2>3 DEF StoredInv
  <2>5. \A u \in Thread : Storing(u)' => u = t
    BY <2>2 DEF OneStores
  <2>6. pc'[t] = "size"
    BY <1>0, <2>1
  <2>7. (allowed_size + 1) - 1 = allowed_size /\ allowed_size + 1 # 0
    BY <1>0
  <2> QED BY <2>1, <2>2, <2>4, <2>5, <2>6, <2>7 DEF StoredInv, Stored, At
<1>3. ASSUME NEW t \in Thread, AddSize(t) PROVE StoredInv'
  <2>1. /\ Storing(t) /\ pc' = [pc EXCEPT ![t] = "write"] /\ slot' = [slot EXCEPT ![t] = allowed_size]
        /\ UNCHANGED <<allowed_hosts, allowed_size, odbAllowed, adding>>
    BY <1>3 DEF AddSize, At, Goto, Storing, lists, odb
  <2>2. Storing(t)' /\ slot'[t] = allowed_size'
    BY <1>0, <2>1 DEF Storing
  <2>3. \A u \in Thread : Storing(u)' => u = t
    BY <2>2 DEF OneStores
  <2> QED BY <2>1, <2>2, <2>3 DEF StoredInv, At
<1>4. ASSUME NEW t \in Thread, AddWrite(t) PROVE StoredInv'
  <2> DEFINE v == Head(adding[t])
             n == allowed_size
  <2>1. /\ pc[t] = "write" /\ odbAllowed' = WSAI(odbAllowed, slot[t], v)
        /\ UNCHANGED <<allowed_hosts, allowed_size>>
        /\ \E l \in {"banks", "AddHost"} : pc' = [pc EXCEPT ![t] = l]
    BY <1>4 DEF AddWrite, NextAdd, Goto, At, lists
  <2>2. Storing(t) /\ \A u \in Thread : ~Storing(u)'
    <3>1. Storing(t) /\ ~Storing(t)'
      BY <1>0, <2>1 DEF Storing
    <3>2. \A u \in Thread \ {t} : ~Storing(u) /\ pc'[u] = pc[u]
      BY <1>0, <2>1, <3>1 DEF OneStores
    <3> QED BY <3>1, <3>2 DEF Storing
  <2>3. /\ n # 0 /\ Used(odbAllowed) = 1..(n - 1) /\ slot[t] = n
        /\ allowed_hosts = Entries(odbAllowed) \cup {v}
    BY <2>1, <2>2 DEF StoredInv, At
  <2>4. v \in Entry
    <3>1. adding[t] # <<>>
      BY <2>1 DEF TypeInv, Adding
    <3> QED BY <1>0, <3>1
  <2>5. odbAllowed' = WSAI(odbAllowed, n, v)
    BY <2>1, <2>3
  <2> HIDE DEF v
  <2>6. Used(odbAllowed') = 1..n /\ Entries(odbAllowed') = Entries(odbAllowed) \cup {v}
    BY <1>0, <2>3, <2>4, <2>5, WriteBehind
  <2> QED BY <2>1, <2>2, <2>3, <2>6 DEF StoredInv, Stored
<1>5. CASE Restart
  <2>1. \A t \in Thread : ~Storing(t)'
    BY <1>5 DEF Restart, Storing
  <2>2. \E n \in Nat : Used(odbAllowed) = 1..n
    <3>1. CASE \A t \in Thread : ~Storing(t)
      BY <1>0, <3>1 DEF StoredInv, Stored
    <3>2. CASE \E t \in Thread : Storing(t)
      <4>1. allowed_size - 1 \in Nat /\ Used(odbAllowed) = 1..(allowed_size - 1)
        BY <1>0, <3>2 DEF StoredInv
      <4> QED BY <4>1
    <3> QED BY <3>1, <3>2
  <2>3. Used(odbAllowed) = 1..Cardinality(Used(odbAllowed))
    BY <2>2, FS_Interval
  <2>4. /\ allowed_hosts' = Entries(odbAllowed) /\ allowed_size' = Cardinality(Used(odbAllowed))
        /\ odbAllowed' = Autogrow(odbAllowed)
    BY <1>5 DEF Restart, Load
  <2>5. Used(odbAllowed') = Used(odbAllowed) /\ Entries(odbAllowed') = Entries(odbAllowed)
    BY <1>0, <2>4, AutogrowSame
  <2> QED BY <2>1, <2>3, <2>4, <2>5 DEF StoredInv, Stored
<1>6. CASE UNCHANGED vars
  BY <1>6, StoredQuiet DEF vars, lists, odb, local
<1> QED BY <1>1, <1>2, <1>3, <1>4, <1>5, <1>6 DEF Next, AddHost

\* What AddHost adds is in the ODB once it has returned, for any number of threads and
\* over restarts, if the operator's list has no gap and no two threads are between
\* push_back and WSAI at once: the critical section AddHost would need.
THEOREM AdditionsAlwaysStored ==
  ASSUME \A s \in Setups : Compact(s.allowed)
  PROVE  Spec => AdditionsStoredInTurn
<1>1. Init => StoredInv
  <2>1. Init => Compact(OdbAllowed0)
    BY DEF Init, OdbAllowed0
  <2> QED BY <2>1, StoredInit
<1>2. TypeInv /\ OneStores /\ OneStores' /\ StoredInv /\ [Next]_vars => StoredInv'
  BY StoredStep
<1>3. StoredInv => AdditionsStored
  BY DEF StoredInv, Stored, Storing, AdditionsStored
<1> QED BY <1>1, <1>2, <1>3, TypeAlways, PTL DEF Spec, AdditionsStoredInTurn
=============================================================================
