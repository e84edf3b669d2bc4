SPECIFICATION Spec
CONSTANTS
  t1 = t1 t2 = t2 Tabs = {t1, t2} NoTab = NoTab Threads = {w1, w2} Items = {i1}
  Does <- Acts MaxKey = 2 MaxSalt = 2 MaxChal = 2
SYMMETRY Symmetric
INVARIANTS TypeOK OneRecordPerChallenge OutageBurnsNothing StaleProofsFromSurvivors
PROPERTIES JudgedStaysSpent CommitmentFollowsKeys TagAppearsWithProof
CHECK_DEADLOCK FALSE
