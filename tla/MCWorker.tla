------------------------------ MODULE MCWorker ------------------------------
(* A small instance of Worker: sessions that each bring one part of it into *)
(* play, with two or three messages in any order.  Sizes are in kilobytes.   *)
EXTENDS Worker

CONSTANTS f, g

MCEventSizes == {10, 12}
MCFile == {f, g}
MCExtensions == {<<f, g>>}

Plain == [what |-> "data", cat |-> "CAT", var |-> "x", eq |-> "text", period |-> 2,
          time |-> 3, block |-> 1, arg |-> 0, offset |-> 0]
Command(c) == [Plain EXCEPT !.what = "command", !.var = "COMMAND", !.eq = c]
Array(size, bs) == [array |-> TRUE, size |-> size, banks |-> bs]
Single(b) == [array |-> FALSE, size |-> b.block, banks |-> <<b>>]
At(b, t) == [b EXCEPT !.time = t]

Session(messages) == [messages |-> messages, most |-> 3, others |-> FALSE, runs |-> FALSE]

\* Run queries while runs start and stop.
Runs == [Session({Array(2, <<Command("GET_RUN_STOP_T"), Command("GET_RUN_START_T"),
                             Command("GET_RUNNO"), Command("GET_STATUS")>>)})
         EXCEPT !.most = 2, !.runs = TRUE]

\* A host reports about itself.
Own == [Plain EXCEPT !.cat = THISHOST, !.period = DefaultPeriod]

\* Larger event sizes, messages that fill the size told and messages too big.
BigMessages == Session({
  Array(2, <<Command("GET_EVENT_SIZE"), [Command("SET_EVENT_SIZE") EXCEPT !.arg = 14],
             Command("GET_EVENT_SIZE")>>),
  Array(9, <<[Plain EXCEPT !.block = 8]>>),
  Array(13, <<Command("GET_EVENT_SIZE")>>),
  Array(16, <<Command("GET_EVENT_SIZE"), Own>>),
  Single([Own EXCEPT !.block = 15])})

\* Three variables, of which one is the host's own; time stamps out of order, and
\* one of a device without a clock, which counts from 1904.
History == Session({
  Array(4, <<At(Plain, 3), At(Own, 5), At(Plain, 4)>>),
  Array(4, <<At(Own, 7), At(Plain, 7)>>),
  Array(4, <<At(Plain, 5), At([Plain EXCEPT !.period = 0, !.var = "y"], 5)>>),
  Single(At(Plain, -7))})

\* One variable of which some banks have no proper time.
Clockless == Session({Single(At(Plain, 6)), Single(At(Plain, 7)), Single(At(Plain, -7))})

\* Settings files, two workers.
Settings == [Session({Single([Plain EXCEPT !.what = "save", !.arg = f]),
                      Single([Plain EXCEPT !.what = "load", !.arg = f]),
                      Array(3, <<[Plain EXCEPT !.what = "load", !.arg = g],
                                 Command("GET_RUNNO")>>)})
             EXCEPT !.most = 2, !.others = TRUE]

\* One settings file and requests for its last revision but one.
LoadBack == Session({Single([Plain EXCEPT !.what = "save", !.arg = f]),
                     Single([Plain EXCEPT !.what = "load", !.arg = f, !.offset = 1])})

\* Programs that announce themselves, debug replies, files, and what ends the process.
Talking == Session({
  Array(4, <<[Plain EXCEPT !.what = "talk", !.arg = "a"], [Plain EXCEPT !.what = "talk", !.arg = "b"]>>),
  Array(4, <<[Plain EXCEPT !.what = "talk", !.arg = "c"], [Plain EXCEPT !.what = "talk", !.arg = "b"]>>),
  Array(4, <<Command("ENABLE_DEBUG_MODE"), Command("CHECK_TIME_SYNC")>>),
  Array(4, <<[Plain EXCEPT !.what = "file"], [Plain EXCEPT !.what = "ignored"]>>),
  Array(4, <<Command("GET_RUNNO"), [Plain EXCEPT !.what = "unknown"]>>),
  Single(Command("START_FRONTEND"))})

\* A host that reports something it does not want in the history, and something it does.
Unlogged == Session({Single([Own EXCEPT !.period = 0, !.var = "y"]), Single(Own)})

MCUnlogged == {Unlogged}
MCClockless == {Clockless}
MCLoadBack == {LoadBack}

MCTraffic == {Runs, BigMessages, History, Settings, Talking}
=============================================================================
