SPECIFICATION MCSpec
CONSTANTS
  None = None
  NoStream = NoStream
  Absent = Absent
  Initially <- FirstNodes
  Archives <- Uploads
  Initials <- JustFirst
  Replacements <- Saved
  Owner <- Issued
  Logins = {l1}
  Requests = {r1, r2}
  MaxRevision = 4
  Streams = {s1, s2}
  Queries = {q1, q2}
  MaxPending = 2
  QueueSize = 1
  FailureRoom = 2
  MaxSecret = 2
  Nodes = {n1, n2}
  Secrets = {x, y, z}
  Workers = {w1, w2}
  Attempts = 2
  MaxCalls = 3
  Default = default
  Builtin = {m}
  Custom = {a, b}
  Admins = {a1, a2}
  Visitors = {v1}
  MaxDecls = 3
  MaxThemeCalls = 5
INVARIANTS
  NewestSessionServes
  AnswersAreOwn
  
  StoredConfigIsSound
  RevokedSecretsRefused
  DeletedLeavesNothing
  SelectedThemeStays
  ThemesAreWhole
PROPERTIES
  EndedStreamsAreJoined
  LoginChangesOnlySession
  EditsKeepSecrets
CHECK_DEADLOCK FALSE
