SPECIFICATION Spec
CONSTANTS
  t1 = t1 t2 = t2 Tabs = {t1, t2} NoTab = NoTab Threads = {w1, w2}
  Local = Local LegacyTabs = {} LegacyVault = FALSE NoSalts = NoSalts
  Backup = Backup BackupVersion = 2
  Does <- FirstUnlocks MaxGen = 2
SYMMETRY Symmetric
PROPERTY GeneratedOnlyWhenUnset
CHECK_DEADLOCK FALSE
