SPECIFICATION Spec
CONSTANTS
  c1 = c1
  c2 = c2
  c3 = c3
  Conn <- MCConn
  NoConn = NoConn
  Messages <- MCMessages
  Traffic <- MCTraffic
  HeaderSize = 2
  MaxHeaderReads = 5
  MaxBodyReads = 3
  MaxFds = 2
CHECK_DEADLOCK FALSE
PROPERTIES
  Answered
