------------------------------ MODULE GemBank ------------------------------
(* A GEM bank as the other modules see it (libGEM/include/GEM_BANK.h): a     *)
(* record with                                                              *)
(*   what    what its data type, category and name make of it (see Worker)  *)
(*   cat     VARCATEGORY, var VARNAME, eq EquipmentType                      *)
(*   period  HistoryPeriod, time the Unix time of its last entry            *)
(*   block   the size of its header and one entry                           *)
(*   arg     the text of a string bank, where it has a meaning              *)
(*   offset  the number behind LOAD in its name, 0 where there is none      *)
(* and a message, one bank or an array of banks:                            *)
(*   array   it is a GEMBANKARRAY, size its total size, banks its banks     *)
EXTENDS Integers, Sequences

CONSTANT THISHOST  \* the category of what a host reports about itself

\* "data": a number, or a string nothing else claims.  "ignored": a bank that changes
\* no state of the worker (an elog post, CLIENT_INFO, LIST, string arrays).
Kinds == {"data", "command", "talk", "save", "load", "file", "ignored", "unknown"}

IsBank(b) ==
  /\ DOMAIN b = {"what", "cat", "var", "eq", "period", "time", "block", "arg", "offset"}
  /\ b.what \in Kinds /\ b.block \in Nat /\ b.period \in Nat /\ b.time \in Int
  /\ b.offset \in Nat
  /\ b.what = "command" => b.arg \in Int

IsMessage(m) ==
  /\ m.size \in Nat /\ m.array \in BOOLEAN
  /\ Len(m.banks) \in Nat /\ DOMAIN m.banks = 1..Len(m.banks)
  /\ ~m.array => Len(m.banks) = 1
  /\ \A i \in DOMAIN m.banks : IsBank(m.banks[i]) /\ m.banks[i].block <= m.size

\* Mutant: the host is left out.
NameWithoutHost(b) == <<b.cat, b.var>>

\* GetCombinedName: a host's own banks carry the host's name in EquipmentType.
CombinedName(b) == IF b.cat = THISHOST THEN <<b.eq, b.var>> ELSE <<b.cat, b.var>>
=============================================================================
