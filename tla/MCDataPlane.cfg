SPECIFICATION Spec
CONSTANTS
  main_lcore = main_lcore
  worker = worker
  Lcores <- BothLcores
  Main = main_lcore
  Burst = 2
  MbufCount = 3
  ReportInterval = 1
  U64 = 16
  MaxPackets = 3
  MaxTsc = 2
INVARIANTS LockExclusive MbufsConserved EveryPacketCounted FinalReportComplete
PROPERTY Terminates
CHECK_DEADLOCK FALSE
