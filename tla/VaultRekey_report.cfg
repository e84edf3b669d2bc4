SPECIFICATION Spec
CONSTANTS
  t1 = t1 t2 = t2 b1 = b1 b2 = b2
  Docs = {d1} Vals = {v1} NoVal = NoVal
  Tabs = {t1, t2} NoTab = NoTab Threads = {w1, w2}
  Browsers = {b1, b2} BrowserOf <- TwoBrowsers Does <- RecoverAndUse
  MaxGen = 2 MaxSid = 3 MaxTotal = 4 MaxChunk = 1
INVARIANTS FailureReportIsTrue
