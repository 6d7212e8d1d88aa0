------------------------------ MODULE Delivery ------------------------------
(* What a worker promises about the messages it receives: one at a time is   *)
(* open; its event is stored, once, before it is answered; the process may   *)
(* end with a message open, which is then never answered; and the events     *)
(* stored are analysed in the order the messages came.                       *)
EXTENDS Naturals, Sequences

VARIABLES
  received,  \* messages received
  stage,     \* of the last one: "handled", "stored", or "idle" when it is closed
  waiting,   \* the numbers of the messages whose events wait for the analyser
  answered   \* the numbers of those answered

deliveryVars == <<received, stage, waiting, answered>>

Init == received = 0 /\ stage = "idle" /\ waiting = <<>> /\ answered = {}

Receive ==
  /\ stage = "idle" /\ stage' = "handled"
  /\ received' = received + 1
  /\ UNCHANGED <<waiting, answered>>

Store ==
  /\ stage = "handled" /\ stage' = "stored"
  /\ waiting' = Append(waiting, received)
  /\ UNCHANGED <<received, answered>>

Answer ==
  /\ stage = "stored" /\ stage' = "idle"
  /\ answered' = answered \cup {received}
  /\ UNCHANGED <<received, waiting>>

Lose ==
  /\ stage # "idle" /\ stage' = "idle"
  /\ UNCHANGED <<received, waiting, answered>>

Analyse ==
  /\ waiting # <<>> /\ waiting' = Tail(waiting)
  /\ UNCHANGED <<received, stage, answered>>

Next == Receive \/ Store \/ Answer \/ Lose \/ Analyse

Spec == Init /\ [][Next]_deliveryVars
=============================================================================
