CONSTANTS
  s1 = s1
  s2 = s2
  s3 = s3
  Series = {s1, s2, s3}
  Refused = {s1, s2}
  PromCh = PromCh
  c1 = c1
  Others = {c1}
  ErrRoom = 1
  InboxCap = 2
  MaxPublish = 4
SPECIFICATION FairSpec
INVARIANTS
  GaugesFollow
  ReportedOnce
PROPERTIES
  EventuallyExported
CHECK_DEADLOCK FALSE
