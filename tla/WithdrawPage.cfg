CONSTANTS
  Q = 3
  Words = 5
  Digest <- SmallDigest
  N = 2
  FirstKey = {2}
  Nonce = {1}
  Draw <- TwoDraws
  Serial = {0}
  MaxSession = 2
  MaxVersion = 2
  MaxCalls = 2
  Funds = 1
SPECIFICATION Spec
INVARIANTS TypeOK TokenVerifies SignedHeld BlindersKept RevealsTheChoice
PROPERTIES HonestPasses SessionKept
VIEW StillRead
