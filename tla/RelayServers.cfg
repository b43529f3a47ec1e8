CONSTANTS
  m1 = m1
  m2 = m2
  Messages = {m1, m2}
  QueueOf <- MCQueueOf
  Configs <- MCConfigs
  MaxFaults = 2
  Exchanges = {e1}
  Ttl = 1
  Unit = 2
  MaxTime = 3
  MaxKeys = 2
  MaxOutages = 1
  Events = {t1, t2, t3, t4}
  BatchSize = 2
SPECIFICATION MCSpec
INVARIANTS BootTypeOK StartIsSound LostForACause
           GateTypeOK HandledIsVouchedFor DiesForACause
           TelemetryTypeOK EventsPostedOnce
PROPERTIES RefusedForACause
CHECK_DEADLOCK FALSE
