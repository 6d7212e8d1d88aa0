------------------------------ MODULE Analyser ------------------------------
(* The offline half: libGEM's analyser module takes the events MIDAS has    *)
(* stored and fills each bank into the tree of its name.  The rows of a     *)
(* tree are written as the place of the bank: <<message, index>>.           *)
EXTENDS GemBank, Naturals, Sequences

VARIABLES
  events,  \* events stored and not yet analysed: the message's number and its banks
  trees    \* name -> the rows filled

analyserVars == <<events, trees>>

AnalyserInit == events = <<>> /\ trees = [n \in {} |-> {}]

\* SaveToTree puts FILE: before the names of files.
TreeName(b) == IF b.what = "file" THEN <<"FILE:", CombinedName(b)>> ELSE CombinedName(b)

\* A bank of an unknown data type is left out.
Filled(e) == {i \in DOMAIN e.banks : e.banks[i].what # "unknown"}

Rows(e, n) == {<<e.msg, i>> : i \in {j \in Filled(e) : TreeName(e.banks[j]) = n}}

Tree(n) == IF n \in DOMAIN trees THEN trees[n] ELSE {}

\* Analyze and AnalyzeFlowEvent, SaveToTree with FindOrCreateTree for every bank.
AnalyzeFlowEvent ==
  /\ events # <<>>
  /\ LET e == Head(events)
         names == {TreeName(e.banks[i]) : i \in Filled(e)}
     IN trees' = [n \in DOMAIN trees \cup names |-> Tree(n) \cup Rows(e, n)]
  /\ events' = Tail(events)
=============================================================================
