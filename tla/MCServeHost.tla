---------------------------- MODULE MCServeHost ----------------------------
(* A small instance of ServeHost: three connections, a header of two pieces *)
(* and messages of two, three and five, the longest of which can use up the *)
(* reads of the header or of the body.                                      *)
EXTENDS ServeHost, FiniteSetsExt, SequencesExt

CONSTANTS c1, c2, c3

MCConn == {c1, c2, c3}

Short == [size |-> 2, bank |-> TRUE, named |-> TRUE, allowed |-> TRUE, whole |-> TRUE]
Long  == [Short EXCEPT !.size = 3]
Fine  == [Short EXCEPT !.size = 5]
Kind  == <<Short, Long, [Long EXCEPT !.whole = FALSE], Fine, [Fine EXCEPT !.whole = FALSE],
           [Short EXCEPT !.bank = FALSE], [Short EXCEPT !.allowed = FALSE],
           [Short EXCEPT !.named = FALSE]>>
MCMessages == ToSet(Kind)

\* Connections differ in their messages only, so one order of them will do; at
\* most PieceBound pieces are sent.
PieceBound == 9
MCTraffic ==
  {[c \in MCConn |-> IF c = c1 THEN Kind[i] ELSE IF c = c2 THEN Kind[j] ELSE Kind[k]] :
     <<i, j, k>> \in {n \in (DOMAIN Kind) \X (DOMAIN Kind) \X (DOMAIN Kind) :
        n[1] <= n[2] /\ n[2] <= n[3]
        /\ Kind[n[1]].size + Kind[n[2]].size + Kind[n[3]].size <= PieceBound}}
=============================================================================
