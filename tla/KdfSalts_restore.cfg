SPECIFICATION Spec
CONSTANTS
  t1 = t1 t2 = t2 Tabs = {t1, t2} NoTab = NoTab Threads = {w1, w2}
  Local = Local LegacyTabs = {t1} LegacyVault = TRUE NoSalts = NoSalts
  Backup = Backup BackupVersion = 2
  Does <- Restoring MaxGen = 2
SYMMETRY Symmetric
INVARIANTS TypeOK ReadableUnlessOverwritten KeysFollowVault
CHECK_DEADLOCK FALSE
