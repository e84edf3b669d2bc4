SPECIFICATION Spec
CONSTANTS
  t1 = t1 t2 = t2 b1 = b1
  Tabs = {t1, t2} NoTab = NoTab Threads = {w1, w2}
  Browsers = {b1} BrowserOf <- OneBrowser Does <- Removing
  PolicyRequired = TRUE FirstCreds = {2}
  MaxSid = 3 MaxChal = 3 MaxCred = 2
INVARIANTS ProtectedVaultHasPasskey
