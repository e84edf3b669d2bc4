SPECIFICATION Spec
CONSTANTS
  t1 = t1 t2 = t2 b1 = b1
  Tabs = {t1, t2} NoTab = NoTab Threads = {w1, w2}
  Browsers = {b1} BrowserOf <- OneBrowser Does <- Overlapping
  PolicyRequired = FALSE FirstCreds = {0, 1}
  MaxSid = 3 MaxChal = 2 MaxCred = 2
SYMMETRY Symmetric
INVARIANTS TypeOK ChallengeCountsOnce
PROPERTIES CeremonyKept RevokedStaysRevoked AuthenticationFixed
CHECK_DEADLOCK FALSE
