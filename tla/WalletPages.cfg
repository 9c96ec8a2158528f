CONSTANTS
  ann = ann
  bob = bob
  tab1 = tab1
  c1 = c1
  h1 = h1
  h2 = h2
  User = {ann, bob}
  Tab = {tab1}
  Token = {c1}
  Slot = {h1, h2}
  MaxId = 1
  Nobody = Nobody
  NoTab = NoTab
  NoToken = NoToken
SPECIFICATION Spec
INVARIANTS TypeOK CreditsPresenter
PROPERTIES CoinKept PendingKept
SYMMETRY Interchangeable
