CONSTANTS
  m = m
  k = k
  c1 = c1
  c2 = c2
  e1 = e1
  e2 = e2
  t1 = t1
  t2 = t2
  User = {m, k}
  Coin = {c1, c2}
  Escrow = {e1}
  Merchant <- OneMerchant
  Worth <- UnitWorth
  Price <- UnitPrice
  Opening = 0
  Cash = {}
  DailyCap = 1
  NoUser = NoUser
  NoCoin = NoCoin
  Tx = {t1, t2}
  NoTx = NoTx
  NoEscrow = NoEscrow
  Offered = {"create", "lock", "confirm", "cancel", "details", "pay"}
  Patient = FALSE
  Crashes = TRUE
SPECIFICATION Spec
INVARIANTS TypeOK SpendOnce EscrowHasToken Conservation AuditTrail
SYMMETRY Interchangeable
