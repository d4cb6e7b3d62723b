SPECIFICATION PagesSpec
CONSTANTS
  Tickets = {t1, t2}
  Roles = {Contributor}
  TTL = 2
  Period = 3
  MaxTries = 2
  MaxRestarts = 1
  Contributors = {q1, q2}
  Contributor1 = {q1}
  OnePage = {p1}
  Tenants = {w1}
  OneGuest = {g1}
  Resources = {"api"}
  TwoBuilders = {b1, b2}
  OneBuilder = {b1}
  Slots = {s1, s2}
  OneSlot = {s1}
  NoSlot = NoSlot
INVARIANTS
  TypeOK OneStreamEach InTimeOpens
  WorkspacesTypeOK NoOrphans GuestsListed
  DemoTypeOK DemoWhole WholeLists
PROPERTIES
  OpenedInTime AbandonedGo ContributorsOnly ListSettles PagesSettle
