SPECIFICATION Spec
CONSTANTS
  m1 = m1 m2 = m2 n1 = n1 ann = ann bob = bob eve = eve ea = ea eb = eb en = en
  t1 = t1 t2 = t2 c1 = c1 g1 = g1 h1 = h1 p1 = p1 p2 = p2 yes = yes no = no
  vip = vip f = f g = g w1 = w1 w2 = w2
  NULL = NULL
  None = None
  MemberIds = {m1, m2, n1}
  Names = {ann, bob, eve}
  Emails = {ea, eb, en}
  Roles = {"general-member", vip}
  Tags = {t1, t2}
  Categories = {c1}
  Groups = {g1}
  Phones = {h1}
  PropertyIds = {p1, p2}
  Values = {yes, no}
  Conditions <- MCConditions
  FirstMembers <- MCFirstMembers
  Jobs <- MCJobs
  Versions <- MCVersions
  NewIds = {n1}
  Leads <- MCLeads
  Sought <- MCSought
  Stallable <- MCStallable
  Renames = {eve}
  Restless = {m1, n1}
  MaxChanges = 1
  Doomed = Doomed
  Other = Other
  MaxRows = 3
  Workers = {w1, w2}
  ExportJobs <- MCExportJobs
  Scenes <- MCScenes
  Unsteady <- MCUnsteady
  Zones = {"Asia/Taipei", "UTC"}
  Taipei = "Asia/Taipei"
SYMMETRY Same
INVARIANTS
  TypeOK
  SearchesAgree
  ImportsAccounted
  ImportKeepsMembers
  DeletionIsWhole
  ExportsKeepZone
CHECK_DEADLOCK FALSE
