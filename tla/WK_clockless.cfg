SPECIFICATION Spec
CONSTANTS
  f = f
  g = g
  LastRun = 2
  MinEventSize = 10
  Overhead = 1
  EventSizes <- MCEventSizes
  THISHOST = "THISHOST"
  fHostName = "host"
  DefaultPeriod = 9
  gHistoryPeriod = 3
  IntMax = 8
  File <- MCFile
  NoFile = NoFile
  Extensions <- MCExtensions
  MaxTime = 1
  Traffic <- MCClockless
PROPERTIES
  HistoryCatchesUp
