SPECIFICATION Spec
CONSTANTS
  NULL = NULL
  v1 = v1 a1 = a1
  Edits <- MCEdits
  Seeds <- MCSeeds
  Apps = {a1, a2}
  Hashes = {"settings", "modules"}
  Fields = {f1}
  Values = {v1, v2}
  Requests = {r1}
  Elsewhere = {a2}
  Limit = 2
  MaxChanges = 2
  MaxFailures = 1
INVARIANTS
  TypeOK
PROPERTIES
  ImplementsDirectory
  OutdatedLeaves
CHECK_DEADLOCK FALSE
