SPECIFICATION StorageSpec
CONSTANTS
  Daemons = {d1, d2}
  Clients = {c1, c2}
  Secrets = {s1, s2}
  Redacted = redacted
  None = none
  FileVersion = 0
  MaxVersion = 3
  Users = {u1, u2}
  Limits = {0, 2}
  MaxLimit = 2
  AuditDays = 1
  OutcomeDays = 1
  FailureDays = 1
  MaxWrites = 3
  MaxTime = 2
  NoTime = notime
SYMMETRY Symmetry
INVARIANTS
  TypeOK
  TablesAgree
  FailuresTruthful
  PagesComplete
PROPERTY IsRegister
CHECK_DEADLOCK FALSE
