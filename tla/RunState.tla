------------------------------ MODULE RunState ------------------------------
(***************************************************************************)
(* What a worker knows of the current run: the four fields that the MIDAS  *)
(* thread writes one after another at a transition (HandleBeginRun and     *)
(* HandleEndRun of src/feGEMClass.cxx) and that the worker's TCP thread    *)
(* reads one per command, without a lock.  A worker is constructed, also   *)
(* field by field, before it is registered for transitions.                *)
(*                                                                         *)
(* A time is written as the number of the run that started or stopped then *)
(* and 0 is "never" (1/1/1970).                                            *)
(***************************************************************************)
EXTENDS Integers

CONSTANT LastRun  \* bound: runs end with this one

ASSUME RunAssumption == LastRun \in Nat

VARIABLES
  runinfo,                             \* the ODB's /Runinfo
  midas,                               \* what the MIDAS thread does next, "idle" between transitions
  registered,                          \* the worker is called at transitions
  RUNNO, RUN_START_T, RUN_STOP_T, RunStatus

fields  == <<RUNNO, RUN_START_T, RUN_STOP_T, RunStatus>>
runVars == <<runinfo, midas, registered, fields>>

Handlers == {"begin number", "begin start", "begin status",
             "end number", "end start", "end stop", "end status"}

RunTypeOK ==
  /\ runinfo \in [number : Nat, start : Nat, stop : Nat, running : BOOLEAN]
  /\ midas \in {"idle"} \cup Handlers
  /\ registered \in BOOLEAN
  /\ RUNNO \in Nat \cup {-1} /\ RUN_START_T \in Nat /\ RUN_STOP_T \in Nat
  /\ RunStatus \in {"UNKNOWN", "RUNNING", "STOPPED"}

\* The experiment is between runs or in its first run.
RunInit ==
  /\ runinfo \in {[number |-> 0, start |-> 0, stop |-> 0, running |-> FALSE],
                  [number |-> 1, start |-> 1, stop |-> 0, running |-> TRUE]}
  /\ midas = "idle" /\ registered = FALSE
  /\ RUNNO = -1 /\ RUN_START_T = 0 /\ RUN_STOP_T = 0 /\ RunStatus = "UNKNOWN"

-----------------------------------------------------------------------------
(* MIDAS stores a transition in the ODB and then calls the handlers.        *)

BeginRun ==
  /\ midas = "idle" /\ ~runinfo.running /\ runinfo.number < LastRun
  /\ runinfo' = [number |-> runinfo.number + 1, start |-> runinfo.number + 1,
                 stop |-> 0, running |-> TRUE]
  /\ midas' = IF registered THEN "begin number" ELSE "idle"
  /\ UNCHANGED <<registered, fields>>

EndRun ==
  /\ midas = "idle" /\ runinfo.running
  /\ runinfo' = [number |-> runinfo.number, start |-> runinfo.start,
                 stop |-> runinfo.number, running |-> FALSE]
  /\ midas' = IF registered THEN "end number" ELSE "idle"
  /\ UNCHANGED <<registered, fields>>

\* Mutants: the start time first; the run number not read again.
ReadStartFirst ==
  \/ /\ midas = "begin number" /\ midas' = "begin start"
     /\ RUN_START_T' = runinfo.start
     /\ UNCHANGED <<runinfo, registered, RUNNO, RUN_STOP_T, RunStatus>>
  \/ /\ midas = "begin start" /\ midas' = "begin status"
     /\ RUNNO' = runinfo.number
     /\ UNCHANGED <<runinfo, registered, RUN_START_T, RUN_STOP_T, RunStatus>>
  \/ /\ midas = "begin status" /\ midas' = "idle"
     /\ RunStatus' = "RUNNING"
     /\ UNCHANGED <<runinfo, registered, RUNNO, RUN_START_T, RUN_STOP_T>>

StatusOnly ==
  /\ midas = "begin number" /\ midas' = "idle"
  /\ RunStatus' = "RUNNING"
  /\ UNCHANGED <<runinfo, registered, RUNNO, RUN_START_T, RUN_STOP_T>>

\* The stop time keeps the value it had: its read is commented out.
HandleBeginRun ==
  \/ /\ midas = "begin number" /\ midas' = "begin start"
     /\ RUNNO' = runinfo.number
     /\ UNCHANGED <<runinfo, registered, RUN_START_T, RUN_STOP_T, RunStatus>>
  \/ /\ midas = "begin start" /\ midas' = "begin status"
     /\ RUN_START_T' = runinfo.start
     /\ UNCHANGED <<runinfo, registered, RUNNO, RUN_STOP_T, RunStatus>>
  \/ /\ midas = "begin status" /\ midas' = "idle"
     /\ RunStatus' = "RUNNING"
     /\ UNCHANGED <<runinfo, registered, RUNNO, RUN_START_T, RUN_STOP_T>>

HandleEndRun ==
  \/ /\ midas = "end number" /\ midas' = "end start"
     /\ RUNNO' = runinfo.number
     /\ UNCHANGED <<runinfo, registered, RUN_START_T, RUN_STOP_T, RunStatus>>
  \/ /\ midas = "end start" /\ midas' = "end stop"
     /\ RUN_START_T' = runinfo.start
     /\ UNCHANGED <<runinfo, registered, RUNNO, RUN_STOP_T, RunStatus>>
  \/ /\ midas = "end stop" /\ midas' = "end status"
     /\ RUN_STOP_T' = runinfo.stop
     /\ UNCHANGED <<runinfo, registered, RUNNO, RUN_START_T, RunStatus>>
  \/ /\ midas = "end status" /\ midas' = "idle"
     /\ RunStatus' = "STOPPED"
     /\ UNCHANGED <<runinfo, registered, RUNNO, RUN_START_T, RUN_STOP_T>>

Transitions == BeginRun \/ EndRun \/ HandleBeginRun \/ HandleEndRun

-----------------------------------------------------------------------------
(* The life of the worker: parts of its actions in module Worker.           *)

\* feGEMWorker's constructor reads field after field (RI leaves -1 only if the
\* ODB has no run number).
ConstructNumber ==
  /\ RUNNO' = runinfo.number
  /\ UNCHANGED <<runinfo, midas, registered, RUN_START_T, RUN_STOP_T, RunStatus>>
ConstructStart ==
  /\ RUN_START_T' = runinfo.start
  /\ UNCHANGED <<runinfo, midas, registered, RUNNO, RUN_STOP_T, RunStatus>>
ConstructStop ==
  /\ RUN_STOP_T' = runinfo.stop
  /\ UNCHANGED <<runinfo, midas, registered, RUNNO, RUN_START_T, RunStatus>>

\* AddNewClient registers the worker after it has constructed it: a transition
\* between the two passes it by.
RegisterWorker == registered' = TRUE /\ UNCHANGED <<runinfo, midas, fields>>

\* The process ends; the ODB stays.
RunCrash ==
  /\ midas' = "idle" /\ registered' = FALSE
  /\ RUNNO' = -1 /\ RUN_START_T' = 0 /\ RUN_STOP_T' = 0 /\ RunStatus' = "UNKNOWN"
  /\ UNCHANGED runinfo

-----------------------------------------------------------------------------
(* Properties.                                                              *)

\* Once the worker has seen a transition (its status is no longer UNKNOWN), no
\* field is of a later run than one that is written before it: a client that asks
\* for the stop time, the start time and the number, in that order and at any
\* moments, never gets an older run for the later question (HandleBeginRun,
\* HandleEndRun against the GET_RUN commands).
FieldsInOrder ==
  RunStatus # "UNKNOWN" =>
    /\ RUN_STOP_T <= RUN_START_T
    /\ RUN_START_T <= RUNNO
    /\ RUNNO <= runinfo.number

\* Between transitions a worker that has seen one agrees with the ODB, except for
\* the stop time while a run goes on: then it still holds an earlier run's.
RunCurrent ==
  midas = "idle" /\ RunStatus # "UNKNOWN" =>
    /\ RUNNO = runinfo.number /\ RUN_START_T = runinfo.start
    /\ RunStatus = IF runinfo.running THEN "RUNNING" ELSE "STOPPED"
    /\ RunStatus = "STOPPED" => RUN_STOP_T = runinfo.stop
=============================================================================
