CONSTANTS
  u1 = u1
  u2 = u2
  s1 = s1
  s2 = s2
  s3 = s3
  t1 = t1
  t2 = t2
  t3 = t3
  j1 = j1
  j2 = j2
  User = {u1}
  Session = {s1, s2}
  Owner <- TwoOfOne
  Amount <- Units
  Index = {j1, j2}
  NoIndex = NoIndex
  NoSession = NoSession
  Opening = 1
  Tx = {t1, t2}
  NoTx = NoTx
  Patient = FALSE
  Crashes = TRUE
SPECIFICATION Spec
INVARIANT NoOverdraft
SYMMETRY Interchangeable
