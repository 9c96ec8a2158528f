CONSTANTS
  m = m
  k = k
  c1 = c1
  c2 = c2
  e1 = e1
  e2 = e2
  t1 = t1
  t2 = t2
  User = {m, k}
  Coin = {c1, c2}
  Escrow = {e1}
  Merchant <- OneMerchant
  Worth <- OneDearToken
  Price <- UnitPrice
  Opening = 0
  Cash = {1}
  DailyCap = 1
  NoUser = NoUser
  NoCoin = NoCoin
  Tx = {t1, t2}
  NoTx = NoTx
  NoEscrow = NoEscrow
  Offered = {"create", "lock", "confirm", "cancel", "details", "split", "deposit"}
  Patient = TRUE
  Crashes = TRUE
SPECIFICATION Spec
PROPERTY Atomic
INVARIANTS TokensBacked DailyCapKept
SYMMETRY Connections
