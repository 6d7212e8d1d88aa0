SPECIFICATION Spec
CONSTANTS
  t1 = t1
  t2 = t2
  lx = lx
  lxplus = lxplus
  cern = cern
  pattern = pattern
  free = free
  Blank = free
  Thread <- MCThread
  Entry <- MCEntry
  Host <- MCHost
  Covers <- MCCovers
  retry_limit = 0
  Spare = 1
  Setups <- MCGap
PROPERTIES
  BansSurvive
