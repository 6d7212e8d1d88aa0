------------------------ MODULE SettingsFileDatabase ------------------------
(***************************************************************************)
(* The settings files all workers keep in one directory, saved as          *)
(* "name.unixtime" and never overwritten but within a second.  LOAD puts   *)
(* the name in a string that all workers share, lists the files that begin *)
(* with it, and takes the last in alphabetical order.  What is in a file   *)
(* is left out.                                                            *)
(***************************************************************************)
EXTENDS Naturals, FiniteSets

CONSTANTS
  File,        \* names of settings files
  NoFile,      \* the empty string
  Extensions,  \* pairs <<f, g>>: the name g begins with f and is longer
  MaxTime      \* bound on the unix time at saves

ASSUME FileAssumption ==
  /\ MaxTime \in Nat /\ NoFile \notin File
  /\ Extensions \subseteq {p \in File \X File : p[1] # p[2]}

VARIABLES
  files,          \* the directory
  clock,          \* the time of the last save
  find_filename,  \* the string shared by all workers
  chosen,         \* the file a LOAD has chosen
  found,          \* (history variable) the directory when the LOAD began
  overtaken       \* (history variable) another worker's LOAD has begun since

settingsVars == <<files, clock, find_filename, chosen, found, overtaken>>

Revision == [file : File, time : 0..MaxTime]

SettingsTypeOK ==
  /\ files \subseteq Revision /\ found \subseteq files
  /\ chosen \in Revision \cup {[file |-> NoFile, time |-> 0]}
  /\ clock \in 0..MaxTime
  /\ find_filename \in File \cup {NoFile} /\ overtaken \in BOOLEAN

SettingsInit ==
  /\ files = {} /\ clock = 0 /\ found = {} /\ overtaken = FALSE
  /\ find_filename = NoFile /\ chosen = [file |-> NoFile, time |-> 0]

\* The md5 file written next to it is never read.
SaveSettingsFile(f) ==
  /\ \E t \in clock..MaxTime : clock' = t /\ files' = files \cup {[file |-> f, time |-> t]}
  /\ UNCHANGED <<find_filename, chosen, found, overtaken>>

\* LoadSettingsFile up to the assignment of find_filename.
FindFilename(f) ==
  /\ find_filename' = f /\ found' = files /\ overtaken' = FALSE
  /\ UNCHANGED <<files, clock, chosen>>

nameFilter(f) == {r \in files : r.file = f \/ <<f, r.file>> \in Extensions}

\* Mutant: the first of the list.
FirstOf(f) ==
  {r \in nameFilter(f) : \A s \in nameFilter(f) :
     s.file = f => r.file = f /\ r.time <= s.time}

\* "f.time" sorts before the files whose name goes on with a letter after f.
LastOf(f) ==
  {r \in nameFilter(f) : \A s \in nameFilter(f) :
     /\ s.file # f => r.file # f
     /\ s.file = r.file => s.time <= r.time}

\* Mutant: the name is put together from the time of the last save.
ChooseByClock ==
  /\ chosen' = [file |-> find_filename, time |-> clock + 1]
  /\ UNCHANGED <<files, clock, find_filename, found, overtaken>>

\* namelist[n-1]: the offset of LOAD-n is not used.
Choose ==
  /\ chosen' \in LastOf(find_filename)
  /\ UNCHANGED <<files, clock, find_filename, found, overtaken>>

\* Any other worker.
OtherSave == \E f \in File : SaveSettingsFile(f)
OtherLoad ==
  /\ find_filename' \in File /\ overtaken' = TRUE
  /\ UNCHANGED <<files, clock, chosen, found>>
=============================================================================
