\* Two polls at one lock, a changing endpoint, failing reads and recoveries.
SPECIFICATION FairSessionsSpec
CONSTANTS
  None = None
  Key = {k1}
  Direct = {k1}
  Endpoint = {e1, e2}
  Task = {t1, t2}
  Client = {c1, c2, c3}
  MaxBlocks = 2
  MaxAbandoned = 1
  ReadsMayFail = TRUE
INVARIANTS SessionsTypeOK ReadsItsOwnSession OpenSessionsAreKnown FailedSessionsAreNotReused
PROPERTY EveryPollEnds
