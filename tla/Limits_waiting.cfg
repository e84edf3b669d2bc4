SPECIFICATION FairSpec
CONSTANTS
  c1 = c1 c2 = c2 p1 = p1 r1 = r1 r2 = r2 r3 = r3 big = big
  Clients = {c1, c2} Principals = {p1} Rows = {r1, r2, r3, big}
  Casts <- Pairs Limit <- Requests Window <- Ticks Period = 2
  Size <- Sizes Uploads <- Files Wrapper = 1
  MaxRecords = 2 MaxBytes = 4 BatchRecords = 2 RequestBytes = 4
  Retries = 2 MaxSleep = 2 MaxFail = 2 LockSpan = 2 AnnounceSpan = 3
INVARIANTS TypeOK SpanBounded StoredInOrder GivesUpLate FailuresBounded
PROPERTIES UploadEnds LockEnds
