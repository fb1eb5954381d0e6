SPECIFICATION Spec
CONSTANTS
  m1 = m1 m2 = m2 o1 = o1 o2 = o2 l1 = l1 l2 = l2 k1 = k1 sale = sale p1 = p1 p2 = p2
  c1 = c1 c2 = c2 c3 = c3 all = all some = some fresh = fresh card = card
  pack = pack full = full drip = drip a1 = a1 t1 = t1 t2 = t2
  s1 = s1 s2 = s2 v1 = v1 x1 = x1 x2 = x2 call1 = call1 call2 = call2 pod = pod
  mute = mute cast1 = cast1 cast2 = cast2 cast3 = cast3 host = host guest = guest
  NULL = NULL
  NoRow = NoRow
  Members = {m1, m2}
  OrderIds = {o1, o2}
  LineIds = {l1, l2}
  Discounts = {k1, sale}
  Coupons = {k1}
  Products <- MCProducts
  Shelves <- MCShelves
  MaxTime = 3
  MaxTransfers = 1
  ProgramIds = {p1, p2}
  Contents = {c1, c2, c3}
  PlanIds = {all, some, fresh}
  Cards = {card}
  PackageIds = {pack}
  PackagePlanIds = {full, drip}
  ProgramOf <- MCProgramOf
  Plans <- MCPlans
  CardProducts <- MCCardProducts
  PackagePlans <- MCPackagePlans
  PackagePrograms <- MCPackagePrograms
  DisplayMode <- MCDisplayMode
  Staffs <- MCStaffs
  ActivityIds = {a1}
  Tickets = {t1, t2}
  Sessions = {s1, s2}
  ActivityOfTicket <- MCActivityOfTicket
  ActivityOfSession <- MCActivityOfSession
  SessionTickets <- MCSessionTickets
  PodcastIds = {cast1, cast2, cast3}
  Creators = {host, guest}
  CreatorOf <- MCCreatorOf
  HostsOf <- MCHostsOf
  Albums <- MCAlbums
  Viewers = {v1}
  Clips = {x1, x2}
  Bodies <- MCBodies
  GradeOf <- MCGradeOf
  Calls = {call1, call2}
  Reports = {40, 100}
  Positions = {50}
  Scenes <- MCScenes
  WalletOf <- MCWalletOf
  DealsOf <- MCDealsOf
  PriceOf <- MCPriceOf
  ReductionOf <- MCReductionOf
  ExportConditions <- MCExportConditions
  ContentChanges = {c1}
  ProgramChanges = {p1}
  TempoChanges <- MCTempoChanges
SYMMETRY Same
INVARIANTS
  TypeOK
  SpentCouponShown
  ListAgreesWithContent
  ListedContentOpens
  OwnedPagesOpen
  AttendanceTold
  OrderExportsAgree
PROPERTIES
  TransferMovesAccess
  LapsedIsListed
  ProgressNeverDropsAlone
CHECK_DEADLOCK FALSE
