SPECIFICATION MCSpec
CONSTANTS
  Saves = {s1, s2, s3}
  Users = {u1, u2}
  Texts = {t1, t2}
  Restarts = 1
  Deaths = 1
  Nobody = nobody
  Records = 5
  Flushes = {f1}
  QueueCapacity = 2
  RetentionFiles = 3
  FileRecords = 1
  FileBytes = 6
  Rotations = 1
  Limit = 2
  MaxRecord = 2
  MaxRead = 4
  MaxResponse = 4
INVARIANTS
  LiveIsLatestSaved
  FlushConfirms
  HistoryKept
  PagesContinueExactly
PROPERTIES
  SavedPolicyKept
  ExpiryOnlyIfChosen
CHECK_DEADLOCK FALSE
