CONSTANTS
  p1 = p1
  p2 = p2
  t1 = t1
  t2 = t2
  Process = {p1, p2}
  Tx = {t1, t2}
  NoTx = NoTx
  NoProcess = NoProcess
  Denom = {1, 5}
  BootDenom = 1
  NoDenom = NoDenom
  MaxVersion = 2
  LastMigration = 3
  Offered = {"key", "rotate", "check", "sign"}
  Presented = {1, 2}
  Crashes = TRUE
SPECIFICATION Spec
INVARIANTS TypeOK OneActive ServesMigrated CachesKnow CollisionExplained NamesSigner GraceEnds
PROPERTY NeverKeyless
SYMMETRY Interchangeable
