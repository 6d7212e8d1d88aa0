---------------------------- MODULE EventBuffer ----------------------------
(***************************************************************************)
(* The buffer a worker reads a message into and sends to MIDAS from.  A    *)
(* client may ask for a larger one (SET_EVENT_SIZE); the buffer in use is  *)
(* replaced when ServeHost is entered next, and the size is kept in the    *)
(* ODB for later sessions.                                                 *)
(***************************************************************************)
EXTENDS Naturals

CONSTANTS
  MinEventSize,  \* 10000 bytes, the least size SET_EVENT_SIZE leaves
  Overhead,      \* the MIDAS headers in front of the message in the buffer
  EventSizes     \* what "event_size" may be in the ODB at the start

ASSUME BufferAssumption ==
  MinEventSize \in Nat /\ Overhead \in Nat /\ EventSizes \subseteq Nat

VARIABLES
  event_size,     \* the ODB's copy
  fEventSize,     \* the size the worker goes by
  lastEventSize,  \* the size the buffer was made for
  buffer          \* the bytes fEventBuf has

bufferVars == <<event_size, fEventSize, lastEventSize, buffer>>

BufferTypeOK ==
  event_size \in Nat /\ fEventSize \in Nat /\ lastEventSize \in Nat /\ buffer \in Nat

BufferInit ==
  event_size \in EventSizes /\ fEventSize = 0 /\ lastEventSize = 0 /\ buffer = 0

Larger(m, n) == IF m > n THEN m ELSE n

\* feGEMWorker::Init takes the size from the ODB.
MakeBuffer ==
  /\ fEventSize' = event_size /\ lastEventSize' = event_size /\ buffer' = event_size
  /\ UNCHANGED event_size

\* The first lines of ServeHost.
FlushBuffer ==
  /\ buffer' = IF lastEventSize # fEventSize THEN fEventSize ELSE buffer
  /\ lastEventSize' = fEventSize
  /\ UNCHANGED <<event_size, fEventSize>>

\* Mutants: the ODB is not told; the buffer is marked as replaced already.
SetEventSizeInMemory(n) ==
  /\ fEventSize' = Larger(n, Larger(fEventSize, MinEventSize))
  /\ UNCHANGED <<event_size, lastEventSize, buffer>>

SetEventSizeMarked(n) ==
  /\ fEventSize' = Larger(n, Larger(fEventSize, MinEventSize))
  /\ event_size' = fEventSize' /\ lastEventSize' = fEventSize'
  /\ UNCHANGED buffer

\* SET_EVENT_SIZE only ever grows the size.
SetEventSize(n) ==
  /\ fEventSize' = Larger(n, Larger(fEventSize, MinEventSize))
  /\ event_size' = fEventSize'
  /\ UNCHANGED <<lastEventSize, buffer>>

BufferCrash ==
  fEventSize' = 0 /\ lastEventSize' = 0 /\ buffer' = 0 /\ UNCHANGED event_size
=============================================================================
