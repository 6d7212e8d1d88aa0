--------------------------- MODULE HistoryLogger ---------------------------
(***************************************************************************)
(* The variables a worker has seen and when it last wrote each to the ODB  *)
(* (src/HistoryLogger.cxx).  The first bank of a variable adds it to the   *)
(* list, fixes its period and names it in the ODB list "feVariables"; a    *)
(* bank is written if the period has passed since the last one written.    *)
(***************************************************************************)
EXTENDS GemBank, Odb, Integers

CONSTANTS
  fHostName,       \* the host the worker serves
  DefaultPeriod,   \* 65535 in a bank: use gHistoryPeriod
  gHistoryPeriod,
  IntMax           \* 2^31: an int is in -IntMax..IntMax-1

ASSUME HistoryAssumption ==
  DefaultPeriod \in Nat /\ gHistoryPeriod \in Nat /\ IntMax \in Nat \ {0}

VARIABLES
  fVariables,   \* the list, in memory
  feVariables,  \* the list in the ODB
  newest,       \* (history variable) newest[i]: latest time stamp of variable i so far
  jumped        \* (history variable) variables with a bank whose time was further from
                \* that of the last one written than an int can tell

historyVars == <<fVariables, feVariables, newest, jumped>>

NoVariables == <<"No variables logged yet...">>

HistoryTypeOK ==
  /\ \A i \in DOMAIN fVariables :
       fVariables[i].period \in Nat /\ fVariables[i].last \in Int /\ fVariables[i].host \in BOOLEAN
  /\ DOMAIN newest = DOMAIN fVariables
  /\ \A i \in DOMAIN newest : newest[i] \in Int
  /\ jumped \subseteq DOMAIN fVariables

HistoryInit == fVariables = <<>> /\ feVariables = NoVariables /\ newest = <<>> /\ jumped = {}

\* Mutant: the ODB list of the session before stays.
ResetHistoryKept == UNCHANGED historyVars

\* feGEMWorker::Init overwrites the ODB list.
ResetHistory == feVariables' = NoVariables /\ UNCHANGED <<fVariables, newest, jumped>>

HistoryCrash == fVariables' = <<>> /\ newest' = <<>> /\ jumped' = {} /\ UNCHANGED feVariables

IsMatch(v, b) == v.cat = b.cat /\ v.var = b.var

\* The constructor of HistoryVariable.  With a period of 0 it returns before
\* AddHostnameToDescription is set.
NewVariable(b) ==
  LET UpdateFrequency == IF b.period = DefaultPeriod THEN gHistoryPeriod ELSE b.period
  IN [cat |-> b.cat, var |-> b.var, period |-> UpdateFrequency, last |-> 0,
      host |-> b.cat = THISHOST /\ UpdateFrequency # 0]

Find(b) ==
  IF \E i \in DOMAIN fVariables : IsMatch(fVariables[i], b)
  THEN CHOOSE i \in DOMAIN fVariables :
         IsMatch(fVariables[i], b) /\ \A j \in 1..(i - 1) : ~IsMatch(fVariables[j], b)
  ELSE Len(fVariables) + 1

Variable(b) == IF Find(b) \in DOMAIN fVariables THEN fVariables[Find(b)] ELSE NewVariable(b)

\* A 64-bit difference stored in an int: the part that does not fit is cut off.
ToInt(n) == ((n + IntMax) % (2 * IntMax)) - IntMax

\* Mutant: the update time moves on although nothing was written.
UpdatedAlways(v, b) == IF v.period = 0 THEN v ELSE [v EXCEPT !.last = b.time]

Updated(v, b) ==
  IF v.period = 0 \/ ToInt(b.time - v.last) < v.period THEN v ELSE [v EXCEPT !.last = b.time]

Fits(n) == ToInt(n) = n

\* HistoryLogger::Update with AddNewVariable.
Update(b) ==
  LET i == Find(b)
      new == i \notin DOMAIN fVariables
      seen == IF new \/ newest[i] < b.time THEN b.time ELSE newest[i]
  IN /\ fVariables' = WriteCell(fVariables, i, Updated(Variable(b), b), "")
     /\ feVariables' = IF new THEN WriteCell(feVariables, i, <<b.cat, b.var>>, "") ELSE feVariables
     /\ newest' = WriteCell(newest, i, seen, 0)
     /\ jumped' = IF Fits(b.time - Variable(b).last) THEN jumped ELSE jumped \cup {i}

\* A bank cannot say which host it comes from: its EquipmentType is overwritten.
Described(b) == IF Variable(b).host THEN [b EXCEPT !.eq = fHostName] ELSE b

-----------------------------------------------------------------------------
(* Properties.                                                              *)

\* The ODB is behind the banks handled by a period or more.
Behind(i) == fVariables[i].period # 0 /\ newest[i] - fVariables[i].last >= fVariables[i].period

\* The history lags behind by less than a period: of every variable that is logged,
\* the latest bank handled in this session is less than the variable's period
\* younger than the one in the ODB, in whatever order the banks came, unless a bank
\* of that variable was further off in time than an int can tell, as one of a
\* device without a clock is (the rate limit of HistoryVariable::Update).
HistoryFresh == \A i \in DOMAIN fVariables \ jumped : ~Behind(i)

\* Banks of devices without a clock, which the code means to support, do no harm to
\* those of the others: a bank younger than all before it brings the ODB up to date
\* (HistoryVariable::Update).
HistoryCatchesUp ==
  [][\A i \in DOMAIN newest \cap DOMAIN newest' :
       newest'[i] > newest[i] => ~Behind(i)']_historyVars

\* The ODB lists exactly the variables in memory, each once and in their order, also
\* after restarts (AddNewVariable writes at the size of the list, Find comes first).
VariablesListed ==
  /\ \A i, j \in DOMAIN fVariables :
       fVariables[i].cat = fVariables[j].cat /\ fVariables[i].var = fVariables[j].var => i = j
  /\ fVariables # <<>> =>
       feVariables = [i \in DOMAIN fVariables |-> <<fVariables[i].cat, fVariables[i].var>>]
=============================================================================
