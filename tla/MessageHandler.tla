--------------------------- MODULE MessageHandler ---------------------------
(* The JSON reply to a client: filled item by item while its message is     *)
(* handled, read out once.  A value is whatever the item is about; quoting  *)
(* and layout are left out.                                                 *)
EXTENDS Naturals, Sequences

VARIABLE JSONMessageQueue  \* a sequence of items, each a key and a value

Keys == {"msg", "err", "EventSize", "RunNumber", "RunStartTime", "RunStopTime",
         "RunStatus", "LV_TIME_NOW", "SettingsFile"}

QueueTypeOK ==
  /\ DOMAIN JSONMessageQueue = 1..Len(JSONMessageQueue)
  /\ \A i \in DOMAIN JSONMessageQueue : JSONMessageQueue[i].key \in Keys

Data(key, value) == <<[key |-> key, value |-> value]>>

Message(text) == Data("msg", text)

\* QueueError uses QueueData like the rest.  JSONErrorQueue is never filled, so
\* HaveErrors never holds and no error stops the frontend.
Error(text) == Data("err", text)

Queue(items) == JSONMessageQueue' = JSONMessageQueue \o items

\* Mutant: the queue is copied and not cleared.
ReadMessageQueueAgain(last) == JSONMessageQueue' = JSONMessageQueue \o last

\* What is read out goes to the client, the item queued last included.
ReadMessageQueue(last) == JSONMessageQueue' = <<>>
=============================================================================
