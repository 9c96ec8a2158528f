------------------------ MODULE WithdrawPage_proofs ------------------------
(***************************************************************************)
(* The algebra of the blind signature, for every order of the group; and   *)
(* what the wizard makes of it, however its requests, their answers and    *)
(* the user's clicks fall: the shape of its state always, and, as long as  *)
(* answers come in order, that no signature is lost, no secret of the      *)
(* chosen candidate leaves the page, what is signed with the version it    *)
(* names verifies and nobody fails the check under the key the page had.   *)
(***************************************************************************)
EXTENDS WithdrawPage, FiniteSetTheorems, TLAPS

(* Remainders.                                                             *)

\* Quotient and remainder, as the provers are to see them.
LEMMA DivMod ==
  ASSUME NEW q \in Nat, q > 0, NEW a \in Int
  PROVE  /\ a % q \in 0 .. q - 1
         /\ a \div q \in Int
         /\ a = q * (a \div q) + (a % q)
OBVIOUS

\* No multiple of q but 0 lies strictly between -q and q.
LEMMA SmallMultiple ==
  ASSUME NEW q \in Nat, q > 0, NEW k \in Int, q * k < q, -q < q * k
  PROVE  k = 0
OBVIOUS

\* The remainder is the only number below q that differs from a by a multiple of q.
LEMMA RemainderUnique ==
  ASSUME NEW q \in Nat, q > 0, NEW m \in Int, NEW r \in 0 .. q - 1, NEW a \in Int, a = q * m + r
  PROVE  a % q = r /\ a \div q = m
<1>1. a % q \in 0 .. q - 1 /\ a \div q \in Int /\ a = q * (a \div q) + (a % q)
  BY DivMod
<1>2. PICK d \in Int : d = m - a \div q
  BY <1>1
<1>3. q * d = (a % q) - r
  BY <1>1, <1>2
<1>4. q * d < q /\ -q < q * d
  BY <1>1, <1>3
<1>5. d = 0
  BY <1>4, SmallMultiple
<1> QED
  BY <1>1, <1>2, <1>5

\* Numbers that differ by a multiple of q have the same remainder.
LEMMA SameRemainder ==
  ASSUME NEW q \in Nat, q > 0, NEW a \in Int, NEW b \in Int, NEW m \in Int, a = b + q * m
  PROVE  a % q = b % q
<1>1. b % q \in 0 .. q - 1 /\ b \div q \in Int /\ b = q * (b \div q) + (b % q)
  BY DivMod
<1>2. PICK d \in Int : d = (b \div q) + m
  BY <1>1
<1>3. a = q * d + (b % q)
  BY <1>1, <1>2
<1> QED
  BY <1>1, <1>3, RemainderUnique

\* A summand may be reduced first.
LEMMA ReduceSummand ==
  ASSUME NEW q \in Nat, q > 0, NEW a \in Int, NEW b \in Int
  PROVE  ((a % q) + b) % q = (a + b) % q
<1>1. a % q \in 0 .. q - 1 /\ a \div q \in Int /\ a = q * (a \div q) + (a % q)
  BY DivMod
<1>2. PICK r \in Int, d \in Int : r = a % q /\ d = a \div q /\ a = q * d + r
  BY <1>1
<1>3. a + b = (r + b) + q * d
  BY <1>2
<1>4. a + b \in Int /\ r + b \in Int
  BY <1>2
<1>5. (a + b) % q = (r + b) % q
  BY <1>3, <1>4, SameRemainder
<1> QED
  BY <1>2, <1>5

\* A factor may be reduced first.
LEMMA ReduceFactor ==
  ASSUME NEW q \in Nat, q > 0, NEW a \in Int, NEW b \in Int
  PROVE  ((a % q) * b) % q = (a * b) % q
<1>1. a % q \in 0 .. q - 1 /\ a \div q \in Int /\ a = q * (a \div q) + (a % q)
  BY DivMod
<1>2. PICK r \in Int, d \in Int : r = a % q /\ d = a \div q /\ a = q * d + r
  BY <1>1
<1>3. PICK m \in Int : m = d * b
  BY <1>2
<1>4. a * b = r * b + q * m
  BY <1>2, <1>3
<1>5. a * b \in Int /\ r * b \in Int
  BY <1>2
<1>6. (a * b) % q = (r * b) % q
  BY <1>3, <1>4, <1>5, SameRemainder
<1> QED
  BY <1>2, <1>6

-----------------------------------------------------------------------------
(* The group.                                                              *)

\* ModN reduces a sum or a product whose first or second part is reduced already.
LEMMA Reduce ==
  ASSUME NEW a \in Int, NEW b \in Int
  PROVE  /\ ModN(a) \in Scalar
         /\ ModN(ModN(a) + b) = ModN(a + b)
         /\ ModN(a + ModN(b)) = ModN(a + b)
         /\ ModN(ModN(a) * b) = ModN(a * b)
         /\ ModN(a * ModN(b)) = ModN(a * b)
<1>1. Q \in Nat /\ Q > 0
  BY OrderAssumption
<1>2. /\ a % Q \in 0 .. Q - 1
      /\ b % Q \in 0 .. Q - 1
  BY <1>1, DivMod
<1>3. ((a % Q) + b) % Q = (a + b) % Q
  BY <1>1, ReduceSummand
<1>4. ((b % Q) + a) % Q = (b + a) % Q
  BY <1>1, ReduceSummand
<1>5. ((a % Q) * b) % Q = (a * b) % Q
  BY <1>1, ReduceFactor
<1>6. ((b % Q) * a) % Q = (b * a) % Q
  BY <1>1, ReduceFactor
<1>7. PICK r \in Int : r = b % Q
  BY <1>1, <1>2
<1>8. a + r = r + a /\ a * r = r * a /\ a + b = b + a /\ a * b = b * a
  BY <1>7
<1> QED
  BY <1>2, <1>3, <1>4, <1>5, <1>6, <1>7, <1>8 DEF ModN, Scalar

\* A scalar is reduced.
LEMMA ScalarReduced ==
  ASSUME NEW s \in Scalar
  PROVE  s \in Int /\ ModN(s) = s
<1>1. Q \in Nat /\ Q > 0 /\ s \in 0 .. Q - 1 /\ s = Q * 0 + s
  BY OrderAssumption DEF Scalar
<1> QED
  BY <1>1, RemainderUnique DEF ModN

\* A challenge is a scalar the signature check accepts as one: never 0.
LEMMA ChallengeTyped ==
  ASSUME NEW RPrime \in Point, NEW serial \in Serial, NEW P \in Point
  PROVE  HashToScalar(RPrime, serial, P) \in ValidScalar /\ HashToScalar(RPrime, serial, P) \in Int
<1>1. Digest(RPrime, serial, P) \in Int
  BY DigestAssumption DEF Point
<1>2. ModN(Digest(RPrime, serial, P)) \in Scalar
  BY <1>1, Reduce
<1> QED
  BY <1>2, OrderAssumption DEF HashToScalar, Scalar, ValidScalar

\* What the bank's nonce, its key and the user's blinders make of a candidate, reduced once.
LEMMA CommitmentReduced ==
  ASSUME NEW k \in Scalar, NEW x \in Scalar,
         NEW blinder \in [alpha : Scalar, beta : Scalar]
  PROVE  BlindedCommitment(BankStep1(k), blinder, PublicKey(x))
           = ModN(k + blinder.alpha + blinder.beta * x)
<1> DEFINE alpha == blinder.alpha
           beta == blinder.beta
<1>1. /\ alpha \in Scalar /\ beta \in Scalar
      /\ k \in Int /\ x \in Int /\ alpha \in Int /\ beta \in Int
  BY ScalarReduced
<1>2. BankStep1(k) = k /\ PublicKey(x) = x /\ Mult(alpha, G) = alpha
  <2>1. k * 1 = k /\ x * 1 = x /\ alpha * 1 = alpha
    BY <1>1
  <2>2. ModN(k) = k /\ ModN(x) = x /\ ModN(alpha) = alpha
    BY <1>1, ScalarReduced
  <2> QED
    BY <2>1, <2>2 DEF BankStep1, PublicKey, Mult, G
<1>3. Add(k, alpha) = ModN(k + alpha) /\ Mult(beta, x) = ModN(beta * x)
  BY DEF Add, Mult
<1>4. k + alpha \in Int /\ beta * x \in Int
  BY <1>1
<1>5. Add(ModN(k + alpha), ModN(beta * x)) = ModN((k + alpha) + beta * x)
  <2>1. ModN(beta * x) \in Int
    BY <1>4, Reduce, ScalarReduced
  <2>2. ModN(ModN(k + alpha) + ModN(beta * x)) = ModN((k + alpha) + ModN(beta * x))
    BY <1>4, <2>1, Reduce
  <2>3. ModN((k + alpha) + ModN(beta * x)) = ModN((k + alpha) + beta * x)
    BY <1>4, Reduce
  <2> QED
    BY <2>2, <2>3 DEF Add
<1> QED
  BY <1>2, <1>3, <1>5 DEF BlindedCommitment

-----------------------------------------------------------------------------
(* schnorrBlind.js: what is signed blind verifies once it is unblinded.    *)

\* bankStep3 signs the blinded challenge of a candidate, unblindResponse adds alpha: the result
\* satisfies the equation verifySig checks, s'G = R' + e'P, whatever nonce, key and blinders.
THEOREM UnblindedVerifies ==
  ASSUME NEW k \in Scalar, NEW x \in Scalar, NEW serial \in Serial,
         NEW blinder \in [alpha : Scalar, beta : Scalar]
  PROVE  LET P == PublicKey(x)
             cand == CandidateOf(BankStep1(k), serial, blinder, P)
             sPrime == UnblindResponse(BankStep3(k, cand.e, x), blinder.alpha)
         IN  Mult(sPrime, G) = Add(cand.RPrime, Mult(HashToScalar(cand.RPrime, serial, P), P))
<1> DEFINE P == PublicKey(x)
           cand == CandidateOf(BankStep1(k), serial, blinder, P)
           sPrime == UnblindResponse(BankStep3(k, cand.e, x), blinder.alpha)
           alpha == blinder.alpha
           beta == blinder.beta
           h == HashToScalar(cand.RPrime, serial, P)
<1>1. /\ alpha \in Scalar /\ beta \in Scalar
      /\ k \in Int /\ x \in Int /\ alpha \in Int /\ beta \in Int
  BY ScalarReduced
<1>2. P = x
  <2>1. x * 1 = x /\ ModN(x) = x
    BY <1>1, ScalarReduced
  <2> QED
    BY <2>1 DEF PublicKey, Mult, G
<1>3. cand.RPrime = ModN(k + alpha + beta * x)
  BY CommitmentReduced DEF CandidateOf
<1>4. cand.RPrime \in Point /\ P \in Point
  <2>1. k + alpha + beta * x \in Int
    BY <1>1
  <2> QED
    BY <1>2, <1>3, <2>1, Reduce DEF Point, Scalar
<1>5. h \in Int
  BY <1>4, ChallengeTyped
<1>6. cand.e = ModN(h + beta)
  BY DEF CandidateOf, BlindedChallenge
<1> HIDE DEF h, cand, P, alpha, beta
<1>7. Mult(sPrime, G) = ModN(k + (h + beta) * x + alpha)
  <2>1. h + beta \in Int /\ (h + beta) * x \in Int /\ k + (h + beta) * x \in Int
        /\ k + (h + beta) * x + alpha \in Int
    BY <1>1, <1>5
  <2>2. ModN(cand.e * x) = ModN((h + beta) * x)
    BY <1>1, <1>6, <2>1, Reduce
  <2>3. BankStep3(k, cand.e, x) = ModN(k + (h + beta) * x)
    BY <1>1, <2>1, <2>2, Reduce DEF BankStep3
  <2>4. sPrime = ModN(k + (h + beta) * x + alpha)
    BY <1>1, <2>1, <2>3, Reduce DEF UnblindResponse, alpha
  <2>5. sPrime \in Scalar /\ sPrime \in Int /\ ModN(sPrime) = sPrime
    BY <2>1, <2>4, Reduce, ScalarReduced
  <2>6. sPrime * 1 = sPrime
    BY <2>5
  <2> QED
    BY <2>4, <2>5, <2>6 DEF Mult, G
<1>8. Add(cand.RPrime, Mult(h, P)) = ModN((k + alpha + beta * x) + h * x)
  <2>1. k + alpha + beta * x \in Int /\ h * x \in Int
    BY <1>1, <1>5
  <2>2. ModN(h * x) \in Int
    BY <2>1, Reduce, ScalarReduced
  <2>3. ModN(ModN(k + alpha + beta * x) + ModN(h * x)) = ModN((k + alpha + beta * x) + ModN(h * x))
    BY <2>1, <2>2, Reduce
  <2>4. ModN((k + alpha + beta * x) + ModN(h * x)) = ModN((k + alpha + beta * x) + h * x)
    BY <2>1, Reduce
  <2> QED
    BY <1>2, <1>3, <2>3, <2>4 DEF Add, Mult
<1>9. k + (h + beta) * x + alpha = (k + alpha + beta * x) + h * x
  BY <1>1, <1>5
<1>10. Mult(sPrime, G) = Add(cand.RPrime, Mult(h, P))
  BY <1>7, <1>8, <1>9
<1> QED
  BY <1>10 DEF h, cand, P, alpha, beta

\* A candidate whose blinder passes the bank's check would, had it been the one signed, have
\* given a token that verifySig accepts, unless the unblinded s' happens to be 0: what cut and
\* choose checks of N - 1 candidates is all that the token's validity takes.
THEOREM RevealedVerifies ==
  ASSUME NEW k \in Scalar, NEW x \in Scalar,
         NEW blinder \in [alpha : Scalar, beta : Scalar],
         NEW cand, cand.serial \in Serial,
         VerifyRevealed(BankStep1(k), cand, blinder, PublicKey(x)),
         UnblindResponse(BankStep3(k, cand.e, x), blinder.alpha) # 0
  PROVE  VerifySig(cand.RPrime, UnblindResponse(BankStep3(k, cand.e, x), blinder.alpha),
                   cand.serial, PublicKey(x))
<1> DEFINE P == PublicKey(x)
           honest == CandidateOf(BankStep1(k), cand.serial, blinder, P)
           sPrime == UnblindResponse(BankStep3(k, cand.e, x), blinder.alpha)
<1>1. Decodes(P) /\ Decodes(cand.RPrime)
  BY DEF VerifyRevealed
<1>2. cand.RPrime = honest.RPrime /\ cand.e = honest.e
  BY DEF VerifyRevealed, CandidateOf
<1>3. Mult(sPrime, G) = Add(cand.RPrime, Mult(HashToScalar(cand.RPrime, cand.serial, P), P))
  BY <1>2, UnblindedVerifies
<1>4. sPrime \in ValidScalar
  <2>1. BankStep3(k, cand.e, x) \in Int /\ blinder.alpha \in Int
    <3>1. honest.RPrime \in Point /\ P \in Point
      <4>1. k \in Int /\ x \in Int /\ blinder.alpha \in Int /\ blinder.beta \in Int
        BY ScalarReduced
      <4>2. k + blinder.alpha + blinder.beta * x \in Int /\ x * 1 \in Int
        BY <4>1
      <4> QED
        BY <4>2, CommitmentReduced, Reduce DEF CandidateOf, PublicKey, Mult, G, Point, Scalar
    <3>2. HashToScalar(honest.RPrime, cand.serial, P) \in Int
      BY <3>1, ChallengeTyped
    <3>3. k \in Int /\ x \in Int /\ blinder.alpha \in Int /\ blinder.beta \in Int
      BY ScalarReduced
    <3>4. honest.e \in Int
      <4>1. honest.e = ModN(HashToScalar(honest.RPrime, cand.serial, P) + blinder.beta)
        BY DEF CandidateOf, BlindedChallenge
      <4>2. HashToScalar(honest.RPrime, cand.serial, P) + blinder.beta \in Int
        BY <3>2, <3>3
      <4>3. ModN(HashToScalar(honest.RPrime, cand.serial, P) + blinder.beta) \in Int
        BY <4>2, Reduce, ScalarReduced
      <4> QED
        BY <4>1, <4>3
    <3>5. honest.e * x \in Int
      BY <3>3, <3>4
    <3>6. ModN(honest.e * x) \in Int
      BY <3>5, Reduce, ScalarReduced
    <3>7. k + ModN(honest.e * x) \in Int
      BY <3>3, <3>6
    <3>8. ModN(k + ModN(honest.e * x)) \in Int
      BY <3>7, Reduce, ScalarReduced
    <3> QED
      BY <1>2, <3>3, <3>8 DEF BankStep3
  <2>2. sPrime \in Scalar
    BY <2>1, Reduce DEF UnblindResponse
  <2> QED
    BY <2>2 DEF Scalar, ValidScalar
<1> QED
  BY <1>1, <1>3, <1>4 DEF VerifySig

\* An honest candidate passes the check, if neither of its points is the one at infinity.
THEOREM HonestAccepted ==
  ASSUME NEW R, NEW P, NEW serial, NEW blinder,
         Decodes(R), Decodes(P), Decodes(BlindedCommitment(R, blinder, P))
  PROVE  VerifyRevealed(R, CandidateOf(R, serial, blinder, P), blinder, P)
BY DEF VerifyRevealed, CandidateOf

-----------------------------------------------------------------------------
(* cutAndChoose.js: the index is picked without bias.                      *)

\* Every index stands for equally many of the words pickRandomJ accepts: words below the
\* limit and pairs of an index and a round, Words \div n rounds, correspond one to one.
THEOREM PickUniform ==
  ASSUME NEW n \in Nat, n > 0
  PROVE  /\ \A word \in 0 .. PickLimit(n) - 1 :
               /\ PickRandomJ(n, word) \in 0 .. n - 1
               /\ word \div n \in 0 .. (Words \div n) - 1
         /\ \A j \in 0 .. n - 1, round \in 0 .. (Words \div n) - 1 :
               \E word \in 0 .. PickLimit(n) - 1 :
                  /\ PickRandomJ(n, word) = j /\ word \div n = round
                  /\ \A other \in 0 .. PickLimit(n) - 1 :
                        PickRandomJ(n, other) = j /\ other \div n = round => other = word
<1>1. PICK rounds \in Int : rounds = Words \div n
  BY WordsAssumption, DivMod
<1>2. PickLimit(n) = n * rounds /\ n * rounds \in Int
  BY <1>1 DEF PickLimit
<1>3. ASSUME NEW word \in 0 .. n * rounds - 1
      PROVE  word % n \in 0 .. n - 1 /\ word \div n \in 0 .. rounds - 1
  <2>1. /\ word \in Int /\ word % n \in 0 .. n - 1 /\ word \div n \in Int
        /\ word = n * (word \div n) + (word % n)
    BY <1>2, DivMod
  <2>2. PICK d \in Int, r \in 0 .. n - 1 : d = word \div n /\ r = word % n /\ word = n * d + r
    BY <2>1
  <2>3. 0 <= n * d + r /\ n * d + r < n * rounds
    BY <1>2, <2>2
  <2>4. d >= 0
    <3>1. SUFFICES ASSUME d <= -1 PROVE FALSE
      BY <2>2
    <3>2. n * d <= -n
      BY <3>1, <2>2
    <3> QED
      BY <3>2, <2>2, <2>3
  <2>5. d < rounds
    <3>1. SUFFICES ASSUME d >= rounds PROVE FALSE
      BY <1>1, <2>2
    <3>2. n * d >= n * rounds
      BY <1>1, <3>1, <2>2
    <3> QED
      BY <1>2, <3>2, <2>2, <2>3
  <2> QED
    BY <2>1, <2>2, <2>4, <2>5
<1>4. ASSUME NEW j \in 0 .. n - 1, NEW round \in 0 .. rounds - 1
      PROVE  \E word \in 0 .. n * rounds - 1 :
                /\ word % n = j /\ word \div n = round
                /\ \A other \in 0 .. n * rounds - 1 :
                      other % n = j /\ other \div n = round => other = word
  <2>1. PICK word \in Int : word = n * round + j
    BY <1>1
  <2>2. word % n = j /\ word \div n = round
    BY <1>1, <2>1, RemainderUnique
  <2>3. word \in 0 .. n * rounds - 1
    <3>1. n * round >= 0 /\ n * (round + 1) <= n * rounds
      BY <1>1
    <3>2. n * (round + 1) = n * round + n /\ n * round \in Int
      BY <1>1
    <3> QED
      BY <1>2, <2>1, <3>1, <3>2
  <2>4. ASSUME NEW other \in 0 .. n * rounds - 1, other % n = j, other \div n = round
        PROVE  other = word
    BY <1>2, <2>1, <2>4, DivMod
  <2> QED
    BY <2>2, <2>3, <2>4
<1> QED
  BY <1>1, <1>2, <1>3, <1>4 DEF PickRandomJ
-----------------------------------------------------------------------------
(***************************************************************************)
(* The shape of the state.  The parts of the invariant take the state they *)
(* are about as arguments: rows the sessions, v the version of the key.    *)
(***************************************************************************)
Blinder == [alpha : ValidScalar, beta : ValidScalar]
Full(S) == [Index -> S] \cup {Empty}
Statuses == {"none", "pending", "submitted", "committed", "cancelled", "expired", "aborted"}
Rows == [status : Statuses, k : Full(ValidScalar), cands : Full(Candidates),
         j : Index \cup {NoIndex}, fetched : 0 .. MaxVersion, lookups : SUBSET (1 .. MaxVersion)]
Pages == [step : 0 .. 3, sess : SessionId \cup {NoSession}, version : 0 .. MaxVersion,
          j : Index \cup {NoIndex}, token : Tokens \cup {NoToken}, saved : BOOLEAN,
          loading : BOOLEAN, expired : BOOLEAN, blinders : Full(Blinder), cands : Full(Candidates)]
Calls == [op : {"none", "pubkeys", "init", "submit", "reveal", "cancel"},
          at : {"none", "sent", "answered"}, ok : BOOLEAN, orphan : BOOLEAN,
          sess : SessionId \cup {NoSession}, version : 0 .. MaxVersion,
          j : Index \cup {NoIndex}, cands : Full(Candidates), blinders : Blinders, s : Scalar]

\* The sessions whose amount has left the account.
Held(rows) == {s \in SessionId : rows[s].status \in {"pending", "submitted", "committed"}}

Opened(s, rows) == s \in SessionId /\ rows[s].status # "none"

RowTyped(row, v) ==
    /\ row.status # "none" => row.k \in [Index -> ValidScalar] /\ row.fetched \in 1 .. v
    /\ row.status \in {"none", "pending"} => row.cands = Empty
    /\ row.status \in {"submitted", "committed", "aborted"} => row.cands # Empty
    /\ row.j \in Index <=> row.cands # Empty

PageTyped(p, rows, v) ==
    /\ p.sess # NoSession => Opened(p.sess, rows) /\ p.version \in 1 .. v
    /\ p.blinders = Empty <=> p.cands = Empty
    /\ p.step = 3 => p.token # NoToken

CallTyped(m, rows, v) ==
    /\ m.op = "none" <=> m.at = "none"
    /\ m.ok => m.at = "answered"
    /\ m.orphan => m.at = "sent"
    /\ m.op = "init" => m.version \in 1 .. v /\ (m.ok => Opened(m.sess, rows))
    /\ m.op \in {"submit", "reveal", "cancel"} => Opened(m.sess, rows)
    /\ m.op = "submit" => m.cands # Empty /\ (m.ok => m.j \in Index)
    /\ m.op = "reveal" => m.j \in Index /\ (m.ok => m.version \in 1 .. v)

KeysTyped(ks) == ks \in Seq(ValidScalar) /\ Len(ks) \in 1 .. MaxVersion
RowsTyped(rows, v) == rows \in [SessionId -> Rows] /\ \A s \in SessionId : RowTyped(rows[s], v)
CallsTyped(cs, rows, v) == cs \in [Slot -> Calls] /\ \A c \in Slot : CallTyped(cs[c], rows, v)
Account(b, rows) == b \in Nat /\ b = Funds - Cardinality(Held(rows))

TInv ==
    /\ KeysTyped(keys)
    /\ RowsTyped(session, Version)
    /\ Account(balance, session)
    /\ late \subseteq SessionId
    /\ page \in Pages /\ PageTyped(page, session, Version)
    /\ CallsTyped(calls, session, Version)
    /\ wallet \subseteq Tokens
    /\ leaked \subseteq SessionId \X Index /\ overtaken \in BOOLEAN /\ dropped \subseteq SessionId

-----------------------------------------------------------------------------
(* What the steps have in common.                                          *)

\* Zero is an index, and no full array is empty.
LEMMA FullOrEmpty ==
  /\ 0 \in Index /\ NoIndex \notin Index
  /\ \A S, f : f \in [Index -> S] => f # Empty
  /\ \A S : Empty \in Full(S)
  /\ Empty \in Blinders
<1>1. 0 \in Index /\ NoIndex \notin Index
  BY CountAssumption DEF Index, NoIndex
<1>2. ASSUME NEW S, NEW f \in [Index -> S], f = Empty PROVE FALSE
  <2>1. DOMAIN f = Index /\ DOMAIN f = {}
    BY <1>2 DEF Empty
  <2> QED
    BY <1>1, <2>1
<1>3. Empty \in [{} -> [alpha : ValidScalar, beta : ValidScalar]]
  BY DEF Empty
<1>4. Empty \in Blinders
  BY <1>3 DEF Blinders
<1> QED
  BY <1>1, <1>2, <1>4 DEF Full

\* A number is the least of a set of numbers that has one.
LEMMA LeastIn ==
  ASSUME NEW n \in Nat, NEW S \in SUBSET (1 .. n), S # {}
  PROVE  Min(S) \in S
<1> DEFINE T == {0 .. y : y \in S}
<1>1. PICK D : D = 0 .. n
  OBVIOUS
<1>2. IsWellFoundedOn(StrictSubsetOrdering(D), SUBSET D)
  <2>1. IsFiniteSet(D)
    BY <1>1, FS_Interval
  <2>2. FiniteSubsetsOf(D) = SUBSET D
    BY <2>1, FS_FiniteSubsetsOfFinite
  <2>3. IsWellFoundedOn(StrictSubsetOrdering(D), FiniteSubsetsOf(D))
    BY FS_StrictSubsetOrderingWellFounded
  <2> QED
    BY <2>2, <2>3
<1>3. T \subseteq SUBSET D
  BY <1>1
<1>7. T # {}
  OBVIOUS
<1>4. PICK s \in T : \A u \in T : <<u, s>> \notin StrictSubsetOrdering(D)
  <2> HIDE DEF T
  <2> QED
    BY <1>2, <1>3, <1>7, WFMin
<1>5. PICK x \in S : s = 0 .. x
  BY <1>4
<1>6. ASSUME NEW y \in S, y < x PROVE FALSE
  <2>1. 0 .. y \in T /\ 0 .. y \in SUBSET D /\ s \in SUBSET D
    BY <1>1, <1>5
  <2>2. 0 .. y \subseteq s /\ x \in s /\ x \notin 0 .. y
    BY <1>5, <1>6
  <2> QED
    BY <1>4, <2>1, <2>2 DEF StrictSubsetOrdering
<1>8. \E z \in S : \A y \in S : z =< y
  BY <1>6
<1> QED
  BY <1>8 DEF Min

\* The sessions are finitely many; those held too.
LEMMA HeldFinite ==
  ASSUME NEW rows
  PROVE  IsFiniteSet(Held(rows)) /\ Cardinality(Held(rows)) \in Nat
<1>1. IsFiniteSet(SessionId)
  BY CountAssumption, FS_Interval DEF SessionId
<1>2. Held(rows) \in SUBSET SessionId
  BY DEF Held
<1> QED
  BY <1>1, <1>2, FS_Subset, FS_CardinalityType

\* No session is forgotten, and the versions of the key only grow.
Grows(rows, v, next, w) ==
    /\ v \in Nat /\ w \in Nat /\ v <= w
    /\ \A s \in SessionId : rows[s].status # "none" => next[s].status # "none"

LEMMA StillTyped ==
  ASSUME NEW rows, NEW v, NEW next, NEW w, Grows(rows, v, next, w)
  PROVE  /\ \A p : PageTyped(p, rows, v) => PageTyped(p, next, w)
         /\ \A m : CallTyped(m, rows, v) => CallTyped(m, next, w)
         /\ \A cs : CallsTyped(cs, rows, v) => CallsTyped(cs, next, w)
<1>1. \A s : Opened(s, rows) => Opened(s, next)
  BY DEF Grows, Opened
<1>2. \A i : i \in 1 .. v => i \in 1 .. w
  BY DEF Grows
<1>3. \A p : PageTyped(p, rows, v) => PageTyped(p, next, w)
  BY <1>1, <1>2 DEF PageTyped
<1>4. \A m : CallTyped(m, rows, v) => CallTyped(m, next, w)
  BY <1>1, <1>2 DEF CallTyped
<1> QED
  BY <1>3, <1>4 DEF CallsTyped

\* One call changes.
LEMMA OneCall ==
  ASSUME NEW cs, NEW rows, NEW v, CallsTyped(cs, rows, v), NEW c \in Slot, NEW m \in Calls,
         CallTyped(m, rows, v)
  PROVE  CallsTyped([cs EXCEPT ![c] = m], rows, v)
BY DEF CallsTyped

\* A request goes to a slot that is free.
LEMMA Sending ==
  ASSUME calls = [c \in Slot |-> calls[c]], NEW m, Send(m)
  PROVE  \E c \in Slot : calls[c].op = "none" /\ calls' = [calls EXCEPT ![c] = m]
<1>1. Free \in SUBSET (1 .. MaxCalls) /\ Free # {} /\ MaxCalls \in Nat
  BY CountAssumption DEF Free, Slot, Send
<1>2. Min(Free) \in Free
  BY <1>1, LeastIn
<1> QED
  BY <1>2 DEF Send, Free, InFlight

\* No call at all.
LEMMA NoCallTyped ==
  ASSUME NEW rows, NEW v
  PROVE  NoCall \in Calls /\ CallTyped(NoCall, rows, v)
<1>1. 0 \in Scalar
  BY OrderAssumption DEF Scalar
<1>2. 0 \in 0 .. MaxVersion
  BY CountAssumption
<1> QED
  BY <1>1, <1>2, FullOrEmpty DEF NoCall, Calls, CallTyped

-----------------------------------------------------------------------------
(* Clicks and the network keep the shape.                                  *)

LEMMA InitTInv == Init => TInv
<1> SUFFICES ASSUME Init PROVE TInv
  OBVIOUS
<1>1. PICK x \in ValidScalar : keys = <<x>>
  BY DrawAssumption DEF Init
<1>2. MaxVersion \in Nat /\ MaxVersion >= 1 /\ Funds \in Nat
  BY CountAssumption
<1>3. KeysTyped(keys) /\ Version = 1
  BY <1>1, <1>2 DEF KeysTyped, Version
<1>4. RowsTyped(session, Version)
  <2>1. NoRow \in Rows /\ RowTyped(NoRow, Version)
    BY <1>2, FullOrEmpty DEF NoRow, Rows, RowTyped, Statuses
  <2> QED
    BY <2>1 DEF RowsTyped, Init
<1>5. Account(balance, session)
  <2>1. Held(session) = {}
    BY DEF Init, Held, NoRow
  <2> QED
    BY <1>2, <2>1, FS_EmptySet DEF Account, Init
<1>6. Mounted \in Pages /\ PageTyped(Mounted, session, Version)
  BY <1>2, FullOrEmpty DEF Mounted, Pages, PageTyped
<1>7. CallsTyped(calls, session, Version)
  BY NoCallTyped DEF CallsTyped, Init
<1> QED
  BY <1>3, <1>4, <1>5, <1>6, <1>7 DEF TInv, Init

\* Requests start from the page's session.
LEMMA RequestTyped ==
  ASSUME TInv, NEW op \in {"pubkeys", "submit", "reveal", "cancel"},
         op = "pubkeys" \/ page.sess # NoSession
  PROVE  /\ Request(op) \in Calls
         /\ Request(op).op = op /\ Request(op).at = "sent" /\ ~Request(op).ok
         /\ ~Request(op).orphan /\ Request(op).sess = page.sess
         /\ op # "pubkeys" => Opened(page.sess, session)
<1>1. NoCall \in Calls /\ NoCall.ok = FALSE /\ NoCall.orphan = FALSE
  BY NoCallTyped DEF NoCall
<1>2. page \in Pages /\ (page.sess # NoSession => Opened(page.sess, session))
  BY DEF TInv, PageTyped
<1>3. Request(op) = [NoCall EXCEPT !.op = op, !.at = "sent", !.sess = page.sess]
  BY DEF Request
<1>4. page.sess \in SessionId \cup {NoSession}
  BY <1>2 DEF Pages
<1> QED
  BY <1>1, <1>2, <1>3, <1>4 DEF Calls

\* A step of the page that sends a request.
LEMMA Sent ==
  ASSUME TInv, NEW m \in Calls, CallTyped(m, session, Version), Send(m),
         page' \in Pages, PageTyped(page', session, Version), leaked' \subseteq SessionId \X Index,
         UNCHANGED <<bank, late, wallet, overtaken, dropped>>
  PROVE  TInv'
<1>1. CallsTyped(calls, session, Version)
  BY DEF TInv
<1>2. calls = [c \in Slot |-> calls[c]]
  BY <1>1 DEF CallsTyped
<1>3. PICK c \in Slot : calls' = [calls EXCEPT ![c] = m]
  BY <1>2, Sending
<1>4. CallsTyped(calls', session, Version)
  BY <1>1, <1>3, OneCall
<1> QED
  BY <1>4 DEF TInv, bank, Version

LEMMA ClickInitTInv == ASSUME TInv, ClickInit PROVE TInv'
<1>1. Request("pubkeys") \in Calls /\ CallTyped(Request("pubkeys"), session, Version)
  BY RequestTyped DEF CallTyped
<1>2. page \in Pages /\ PageTyped(page, session, Version) /\ leaked \subseteq SessionId \X Index
  BY DEF TInv
<1>3. page' \in Pages /\ PageTyped(page', session, Version)
  BY <1>2 DEF ClickInit, Pages, PageTyped
<1>4. Send(Request("pubkeys")) /\ UNCHANGED <<bank, late, wallet, history>>
  BY DEF ClickInit
<1> QED
  BY <1>1, <1>2, <1>3, <1>4, Sent DEF history

\* What is reduced is a scalar.
LEMMA ModNTyped ==
  ASSUME NEW a \in Int
  PROVE  ModN(a) \in Scalar /\ ModN(a) \in Int
BY Reduce, ScalarReduced

LEMMA CandidateTyped ==
  ASSUME NEW R \in Point, NEW serial \in Serial, NEW blinder \in Blinder, NEW P \in Point
  PROVE  CandidateOf(R, serial, blinder, P) \in Candidates
<1>1. PICK alpha \in Int, beta \in Int : alpha = blinder.alpha /\ beta = blinder.beta
  BY DEF Blinder, ValidScalar
<1>2. PICK r \in Int, q \in Int : r = R /\ q = P
  BY DEF Point
<1>3. ModN(alpha * 1) \in Scalar /\ ModN(beta * q) \in Scalar
  <2>1. PICK a \in Int, b \in Int : a = alpha * 1 /\ b = beta * q
    BY <1>1, <1>2
  <2> QED
    BY <2>1, ModNTyped
<1>4. PICK x \in Int, y \in Int : x = ModN(alpha * 1) /\ y = ModN(beta * q)
  BY <1>3, ScalarReduced
<1>5. ModN(r + x) \in Scalar
  BY <1>2, <1>4, Reduce
<1>6. PICK z \in Int : z = ModN(r + x)
  BY <1>5, ScalarReduced
<1>7. ModN(z + y) \in Scalar
  BY <1>4, <1>6, Reduce
<1>8. BlindedCommitment(R, blinder, P) = ModN(z + y)
  BY <1>1, <1>2, <1>4, <1>6 DEF BlindedCommitment, Add, Mult, G
<1>9. PICK RPrime \in Point : RPrime = BlindedCommitment(R, blinder, P)
  BY <1>7, <1>8 DEF Point, Scalar
<1>10. HashToScalar(RPrime, serial, P) \in Int
  BY ChallengeTyped
<1>11. ModN(HashToScalar(RPrime, serial, P) + beta) \in Scalar
  <2>1. PICK a \in Int : a = HashToScalar(RPrime, serial, P) + beta
    BY <1>1, <1>10
  <2> QED
    BY <2>1, ModNTyped
<1> QED
  BY <1>1, <1>9, <1>11 DEF CandidateOf, BlindedChallenge, Candidates

\* A valid scalar times G.
LEMMA PointOf ==
  ASSUME NEW x \in ValidScalar
  PROVE  /\ BankStep1(x) = x /\ PublicKey(x) = x
         /\ x \in Scalar /\ x \in Point /\ Decodes(x)
<1>1. x \in Scalar /\ x \in Point /\ x # 0 /\ x * 1 = x
  BY OrderAssumption DEF ValidScalar, Scalar, Point
<1> QED
  BY <1>1, ScalarReduced DEF BankStep1, PublicKey, Mult, G, Decodes, Infinity

LEMMA ClickSubmitTInv == ASSUME TInv, ClickSubmit PROVE TInv'
<1>1. PICK drawn \in Draw, serials \in [Index -> Serial] :
        LET P == PublicKey(keys[page.version])
            cands == [i \in Index |-> CandidateOf(BankStep1(session[page.sess].k[i]),
                                                  serials[i], drawn[i], P)]
        IN  /\ page' = [page EXCEPT !.loading = TRUE, !.blinders = drawn, !.cands = cands]
            /\ Send([Request("submit") EXCEPT !.cands = cands])
  BY DEF ClickSubmit
<1>2. PICK cands : cands = [i \in Index |-> CandidateOf(BankStep1(session[page.sess].k[i]),
                                   serials[i], drawn[i], PublicKey(keys[page.version]))]
  OBVIOUS
<1>3. /\ page' = [page EXCEPT !.loading = TRUE, !.blinders = drawn, !.cands = cands]
      /\ Send([Request("submit") EXCEPT !.cands = cands])
  BY <1>1, <1>2
<1>4. /\ page \in Pages /\ PageTyped(page, session, Version) /\ page.sess # NoSession
      /\ leaked \subseteq SessionId \X Index
  BY DEF TInv, ClickSubmit
<1>5. drawn \in [Index -> Blinder]
  BY DrawAssumption DEF Index, Blinder
<1>6. cands \in [Index -> Candidates]
  <2>1. keys[page.version] \in ValidScalar
    BY <1>4 DEF PageTyped, TInv, KeysTyped, Version
  <2>2. session[page.sess].k \in [Index -> ValidScalar]
    BY <1>4 DEF PageTyped, Opened, TInv, RowsTyped, RowTyped
  <2>3. PICK P \in Point : P = PublicKey(keys[page.version])
    BY <2>1, PointOf
  <2>4. ASSUME NEW i \in Index
        PROVE  CandidateOf(BankStep1(session[page.sess].k[i]), serials[i], drawn[i], P) \in Candidates
    <3>1. PICK R \in Point : R = BankStep1(session[page.sess].k[i])
      BY <2>2, PointOf
    <3>2. serials[i] \in Serial /\ drawn[i] \in Blinder
      BY <1>5
    <3> QED
      BY <3>1, <3>2, CandidateTyped
  <2> QED
    BY <1>2, <2>3, <2>4
<1>7. drawn # Empty /\ cands # Empty /\ drawn \in Full(Blinder) /\ cands \in Full(Candidates)
  BY <1>5, <1>6, FullOrEmpty DEF Full
<1>8. page' \in Pages /\ PageTyped(page', session, Version)
  BY <1>3, <1>4, <1>7 DEF Pages, PageTyped
<1>9. PICK m : m = [Request("submit") EXCEPT !.cands = cands]
  OBVIOUS
<1>10. m \in Calls /\ CallTyped(m, session, Version)
  <2>1. /\ Request("submit") \in Calls
        /\ Request("submit").op = "submit" /\ Request("submit").at = "sent"
        /\ ~Request("submit").ok
        /\ ~Request("submit").orphan /\ Request("submit").sess = page.sess
        /\ Opened(page.sess, session)
    BY <1>4, RequestTyped
  <2>2. m \in Calls
    BY <1>7, <1>9, <2>1 DEF Calls
  <2>3. /\ m.op = "submit" /\ m.at = "sent" /\ ~m.ok /\ ~m.orphan
        /\ m.sess = page.sess /\ m.cands = cands
    BY <1>9, <2>1 DEF Calls
  <2> QED
    BY <1>7, <2>1, <2>2, <2>3 DEF CallTyped
<1> QED
  BY <1>3, <1>4, <1>8, <1>9, <1>10, Sent DEF ClickSubmit, history

\* What the page reveals is a part of its blinders.
LEMMA RevealedTyped ==
  ASSUME TInv, page.blinders # Empty
  PROVE  /\ Revealed \in [Index \ {page.j} -> Blinder] /\ Revealed \in Blinders
         /\ DOMAIN Revealed = Index \ {page.j}
<1>1. page.blinders \in [Index -> Blinder]
  BY DEF TInv, Pages, Full
<1>2. Revealed \in [Index \ {page.j} -> Blinder]
  BY <1>1 DEF Revealed
<1> QED
  BY <1>2 DEF Blinders, Blinder

LEMMA ClickRevealTInv == ASSUME TInv, ClickReveal PROVE TInv'
<1>1. CASE page.blinders = Empty
  BY <1>1 DEF ClickReveal, TInv, Version, bank
<1>2. CASE page.blinders # Empty
  <2>1. /\ page' = [page EXCEPT !.loading = TRUE]
        /\ Send([Request("reveal") EXCEPT !.blinders = Revealed, !.j = page.j])
        /\ leaked' = leaked \cup ({page.sess} \X DOMAIN Revealed)
        /\ page.sess # NoSession /\ page.j # NoIndex
        /\ UNCHANGED <<bank, late, wallet, overtaken, dropped>>
    BY <1>2 DEF ClickReveal
  <2>2. page \in Pages /\ PageTyped(page, session, Version) /\ leaked \subseteq SessionId \X Index
    BY DEF TInv
  <2>3. page' \in Pages /\ PageTyped(page', session, Version)
    BY <2>1, <2>2 DEF Pages, PageTyped
  <2>4. PICK m : m = [Request("reveal") EXCEPT !.blinders = Revealed, !.j = page.j]
    OBVIOUS
  <2>5. m \in Calls /\ CallTyped(m, session, Version)
    <3>1. /\ Request("reveal") \in Calls
          /\ Request("reveal").op = "reveal" /\ Request("reveal").at = "sent"
          /\ ~Request("reveal").ok
          /\ ~Request("reveal").orphan /\ Request("reveal").sess = page.sess
          /\ Opened(page.sess, session)
      BY <2>1, RequestTyped
    <3>2. page.j \in Index
      BY <2>1, <2>2 DEF Pages
    <3>3. m \in Calls
      BY <1>2, <2>4, <3>1, <3>2, RevealedTyped DEF Calls
    <3>4. /\ m.op = "reveal" /\ m.at = "sent" /\ ~m.ok /\ ~m.orphan
          /\ m.sess = page.sess /\ m.j = page.j
      BY <2>4, <3>1 DEF Calls
    <3> QED
      BY <3>1, <3>2, <3>3, <3>4 DEF CallTyped
  <2>6. leaked' \subseteq SessionId \X Index
    <3>1. page.sess \in SessionId
      BY <2>1, <2>2 DEF Pages
    <3> QED
      BY <1>2, <2>1, <2>2, <3>1, RevealedTyped
  <2> QED
    BY <2>1, <2>3, <2>4, <2>5, <2>6, Sent
<1> QED
  BY <1>1, <1>2

LEMMA ClickCancelTInv == ASSUME TInv, ClickCancel PROVE TInv'
<1>1. page.sess # NoSession
  BY DEF ClickCancel
<1>2. Request("cancel") \in Calls /\ CallTyped(Request("cancel"), session, Version)
  BY <1>1, RequestTyped DEF CallTyped
<1>3. page \in Pages /\ PageTyped(page, session, Version) /\ leaked \subseteq SessionId \X Index
  BY DEF TInv
<1>4. page' \in Pages /\ PageTyped(page', session, Version)
  BY <1>3 DEF ClickCancel, Pages, PageTyped
<1>5. Send(Request("cancel")) /\ UNCHANGED <<bank, late, wallet, history>>
  BY DEF ClickCancel
<1> QED
  BY <1>2, <1>3, <1>4, <1>5, Sent DEF history

LEMMA SaveToWalletTInv == ASSUME TInv, SaveToWallet PROVE TInv'
<1>1. /\ page \in Pages /\ PageTyped(page, session, Version)
      /\ CallsTyped(calls, session, Version) /\ page.step = 3
  BY DEF TInv, SaveToWallet
<1>2. page.token \in Tokens
  BY <1>1 DEF Pages, PageTyped
<1>3. page' \in Pages /\ PageTyped(page', session, Version)
  BY <1>1 DEF SaveToWallet, Pages, PageTyped
<1> QED
  BY <1>1, <1>2, <1>3 DEF SaveToWallet, TInv, bank, history, Version

LEMMA MountedTyped ==
  ASSUME NEW rows, NEW v
  PROVE  Mounted \in Pages /\ PageTyped(Mounted, rows, v)
BY CountAssumption, FullOrEmpty DEF Mounted, Pages, PageTyped

LEMMA LeaveTInv == ASSUME TInv, Leave PROVE TInv'
<1>1. page \in Pages /\ CallsTyped(calls, session, Version)
  BY DEF TInv
<1>2. CallsTyped(calls', session, Version)
  <2>1. ASSUME NEW c \in Slot, calls[c].at = "sent"
        PROVE  /\ [calls[c] EXCEPT !.orphan = TRUE] \in Calls
               /\ CallTyped([calls[c] EXCEPT !.orphan = TRUE], session, Version)
    BY <1>1, <2>1 DEF CallsTyped, CallTyped, Calls
  <2> QED
    BY <2>1, NoCallTyped DEF Leave, CallsTyped
<1>3. dropped' \subseteq SessionId
  <2>1. ASSUME NEW c \in Slot, calls[c].op = "reveal" PROVE calls[c].sess \in SessionId
    BY <1>1, <2>1 DEF CallsTyped, CallTyped, Opened
  <2>2. page.token.sess \in SessionId \cup {NoSession}
    BY <1>1 DEF Pages, Tokens, NoToken
  <2> QED
    BY <2>1, <2>2 DEF Leave, TInv
<1> QED
  BY <1>2, <1>3, MountedTyped DEF Leave, TInv, bank, Version

-----------------------------------------------------------------------------
(* The bank keeps the shape.                                               *)

\* A call is answered: the slot is freed, or holds the answer.
AnswerOf(m, answered) == IF m.orphan THEN NoCall ELSE [answered EXCEPT !.at = "answered"]

LEMMA Answered ==
  ASSUME NEW c \in Slot, NEW m \in Calls, NEW v,
         NEW rows, CallsTyped(calls, session, Version), Grows(session, Version, rows, v),
         Answer(c, m), m.op # "none", m.orphan = calls[c].orphan,
         CallTyped([m EXCEPT !.at = "answered", !.orphan = FALSE], rows, v)
  PROVE  CallsTyped(calls', rows, v)
<1>1. CallsTyped(calls, rows, v)
  BY StillTyped
<1>2. PICK answer : answer = AnswerOf(calls[c], m)
  OBVIOUS
<1>3. calls' = [calls EXCEPT ![c] = answer]
  BY <1>2 DEF Answer, AnswerOf
<1>4. answer \in Calls /\ CallTyped(answer, rows, v)
  <2>1. CASE calls[c].orphan
    BY <1>2, <2>1, NoCallTyped DEF AnswerOf
  <2>2. CASE ~calls[c].orphan
    <3>1. answer = [m EXCEPT !.at = "answered", !.orphan = FALSE]
      BY <1>2, <2>2 DEF AnswerOf, Calls
    <3>2. answer \in Calls
      BY <3>1 DEF Calls
    <3> QED
      BY <3>1, <3>2
  <2> QED
    BY <2>1, <2>2
<1> QED
  BY <1>1, <1>3, <1>4, OneCall

\* The bank refuses a call.
LEMMA Refused ==
  ASSUME NEW c \in Slot, NEW rows, NEW v,
         CallsTyped(calls, session, Version), Grows(session, Version, rows, v),
         Refuse(c), calls[c].op # "none"
  PROVE  CallsTyped(calls', rows, v)
<1>1. calls[c] \in Calls /\ CallTyped(calls[c], rows, v)
  BY StillTyped DEF CallsTyped
<1>2. PICK m : m = [calls[c] EXCEPT !.ok = FALSE]
  OBVIOUS
<1>3. m \in Calls /\ m.op # "none" /\ m.orphan = calls[c].orphan
  BY <1>1, <1>2 DEF Calls
<1>4. CallTyped([m EXCEPT !.at = "answered", !.orphan = FALSE], rows, v)
  BY <1>1, <1>2 DEF Calls, CallTyped
<1>5. Answer(c, m)
  BY <1>2 DEF Refuse
<1> QED
  BY <1>3, <1>4, <1>5, Answered

\* Sessions that are closed give their amount back.
Close(rows, S, status) ==
    [s \in SessionId |-> IF s \in S THEN [rows[s] EXCEPT !.status = status] ELSE rows[s]]

LEMMA ClosedTyped ==
  ASSUME NEW rows, NEW v \in Nat, RowsTyped(rows, v), NEW S \in SUBSET SessionId,
         \A s \in S : rows[s].status \in {"pending", "submitted"},
         NEW status \in {"expired", "cancelled", "aborted"},
         status = "aborted" => \A s \in S : rows[s].cands # Empty,
         NEW b, Account(b, rows)
  PROVE  /\ RowsTyped(Close(rows, S, status), v)
         /\ Grows(rows, v, Close(rows, S, status), v)
         /\ Account(b + Cardinality(S), Close(rows, S, status))
         /\ Cardinality(S) \in Nat
<1>1. PICK next : next = Close(rows, S, status)
  OBVIOUS
<1>2. ASSUME NEW s \in SessionId
      PROVE  /\ rows[s] \in Rows /\ RowTyped(rows[s], v)
             /\ next[s] = IF s \in S THEN [rows[s] EXCEPT !.status = status] ELSE rows[s]
  BY <1>1 DEF RowsTyped, Close
<1>3. RowsTyped(next, v)
  <2>1. ASSUME NEW s \in SessionId PROVE next[s] \in Rows /\ RowTyped(next[s], v)
    <3>1. CASE s \in S
      <4>1. next[s] \in Rows
        BY <1>2, <3>1 DEF Rows, Statuses
      <4>2. /\ next[s].status = status /\ next[s].k = rows[s].k /\ next[s].fetched = rows[s].fetched
            /\ next[s].cands = rows[s].cands /\ next[s].j = rows[s].j
        BY <1>2, <3>1 DEF Rows
      <4> QED
        BY <1>2, <3>1, <4>1, <4>2 DEF RowTyped
    <3>2. CASE s \notin S
      BY <1>2, <3>2
    <3> QED
      BY <3>1, <3>2
  <2> QED
    BY <1>1, <2>1 DEF RowsTyped, Close
<1>4. ASSUME NEW s \in SessionId PROVE next[s].status = IF s \in S THEN status ELSE rows[s].status
  BY <1>2 DEF Rows
<1>5. Grows(rows, v, next, v)
  BY <1>4 DEF Grows
<1>6. Held(next) = Held(rows) \ S /\ S \in SUBSET Held(rows) /\ Held(rows) \cap S = S
  BY <1>4 DEF Held
<1>7. /\ IsFiniteSet(Held(rows)) /\ Cardinality(Held(rows)) \in Nat
      /\ IsFiniteSet(S) /\ Cardinality(S) \in Nat
  BY <1>6, HeldFinite, FS_Subset, FS_CardinalityType
<1>8. Cardinality(Held(next)) = Cardinality(Held(rows)) - Cardinality(S)
  BY <1>6, <1>7, FS_Difference
<1>9. Account(b + Cardinality(S), next)
  BY <1>7, <1>8, CountAssumption DEF Account
<1> QED
  BY <1>1, <1>3, <1>5, <1>7, <1>9

\* refundAndClose of open sessions, in a step of the bank that answers at most one call.
LEMMA Refunding ==
  ASSUME TInv, NEW S \in SUBSET SessionId, \A s \in S : Active(s),
         NEW status \in {"expired", "cancelled"}, Refund(S, status)
  PROVE  /\ RowsTyped(session', Version) /\ Account(balance', session')
         /\ Grows(session, Version, session', Version)
<1>1. Version \in Nat
  BY DEF TInv, KeysTyped, Version
<1>2. RowsTyped(session, Version) /\ Account(balance, session)
  BY DEF TInv
<1>3. \A s \in S : session[s].status \in {"pending", "submitted"}
  BY DEF Active
<1>4. session' = Close(session, S, status) /\ balance' = balance + Cardinality(S)
  BY DEF Refund, Close
<1> QED
  BY <1>1, <1>2, <1>3, <1>4, ClosedTyped

\* A step of the bank.
LEMMA Banked ==
  ASSUME TInv, RowsTyped(session', Version), Account(balance', session'),
         Grows(session, Version, session', Version), CallsTyped(calls', session', Version),
         UNCHANGED <<keys, late, page, wallet, history>>
  PROVE  TInv'
<1>1. page \in Pages /\ PageTyped(page, session', Version)
  BY StillTyped DEF TInv
<1>2. Version' = Version
  BY DEF Version
<1> QED
  BY <1>1, <1>2 DEF TInv, history

LEMMA SameRows == ASSUME TInv PROVE Grows(session, Version, session, Version)
BY DEF TInv, KeysTyped, Version, Grows

LEMMA RefusedOnly ==
  ASSUME TInv, NEW c \in Slot, Refuse(c), calls[c].op # "none",
         UNCHANGED <<bank, late, page, wallet, history>>
  PROVE  TInv'
<1>1. CallsTyped(calls', session, Version)
  BY SameRows, Refused DEF TInv
<1> QED
  BY <1>1, SameRows, Banked DEF TInv, bank

LEMMA RefusedRefunding ==
  ASSUME TInv, NEW c \in Slot, Refuse(c), calls[c].op # "none",
         NEW S \in SUBSET SessionId, \A s \in S : Active(s),
         NEW status \in {"expired", "cancelled"},
         Refund(S, status), UNCHANGED <<keys, late, page, wallet, history>>
  PROVE  TInv'
<1>1. /\ RowsTyped(session', Version) /\ Account(balance', session')
      /\ Grows(session, Version, session', Version)
  BY Refunding
<1>2. PICK rows : rows = session'
  OBVIOUS
<1>3. CallsTyped(calls', rows, Version)
  BY <1>1, <1>2, Refused DEF TInv
<1> QED
  BY <1>1, <1>2, <1>3, Banked

LEMMA PubkeysTInv == ASSUME TInv, NEW c \in Slot, Pubkeys(c) PROVE TInv'
<1>1. CallsTyped(calls, session, Version) /\ calls[c] \in Calls /\ CallTyped(calls[c], session, Version)
  BY DEF TInv, CallsTyped
<1>2. Version \in 1 .. MaxVersion /\ MaxVersion \in Nat
  BY CountAssumption DEF TInv, KeysTyped, Version
<1>3. PICK m : m \in Calls /\ CallTyped(m, session, Version) /\ calls' = [calls EXCEPT ![c] = m]
  <2>1. CASE calls' = [calls EXCEPT ![c] = NoCall]
    BY <2>1, NoCallTyped
  <2>2. ASSUME NEW v \in MayKnow, calls' = [calls EXCEPT ![c].op = "init", ![c].version = v]
        PROVE  \E n : n \in Calls /\ CallTyped(n, session, Version) /\ calls' = [calls EXCEPT ![c] = n]
    <3>1. v \in 1 .. Version /\ v \in 0 .. MaxVersion
      BY <1>2 DEF MayKnow
    <3>2. PICK n : n = [calls[c] EXCEPT !.op = "init", !.version = v]
      OBVIOUS
    <3>3. calls' = [calls EXCEPT ![c] = n]
      BY <1>1, <2>2, <3>2 DEF CallsTyped
    <3>4. n \in Calls
      BY <1>1, <3>1, <3>2 DEF Calls
    <3>5. n.op = "init" /\ n.version = v /\ n.at = "sent" /\ ~n.ok
      BY <1>1, <3>2 DEF Calls, Pubkeys, Arrived, CallTyped
    <3>6. CallTyped(n, session, Version)
      BY <3>1, <3>5 DEF CallTyped
    <3> QED
      BY <3>3, <3>4, <3>6
  <2> QED
    BY <2>1, <2>2 DEF Pubkeys
<1>4. CallsTyped(calls', session, Version)
  BY <1>1, <1>3, OneCall
<1> QED
  BY <1>4 DEF TInv, Pubkeys, bank, history, Version

\* What the bank opens.
LEMMA BankInitTInv == ASSUME TInv, NEW c \in Slot, BankInit(c) PROVE TInv'
<1> DEFINE Expired == {s \in SessionId : Active(s) /\ s \in late}
           Unused == {s \in SessionId : session[s].status = "none"}
           Opens(expired, u) ==
             /\ balance + Cardinality(expired) # 0
             /\ \E k \in [Index -> Nonce] :
                   /\ session' = [s \in SessionId |->
                         IF s = u THEN [NoRow EXCEPT !.status = "pending", !.k = k,
                                                     !.fetched = calls[c].version]
                         ELSE IF s \in expired THEN [session[s] EXCEPT !.status = "expired"]
                         ELSE session[s]]
                   /\ balance' = balance + Cardinality(expired) - 1
                   /\ Accept(c, [calls[c] EXCEPT !.sess = u])
<1>6. \/ Refund(Expired, "expired") /\ Refuse(c)
      \/ Unused # {} /\ Opens(Expired, Min(Unused))
  BY DEF BankInit
<1>7. Unused # {} => Min(Unused) \in Unused
  <2>1. Unused \in SUBSET (1 .. MaxSession) /\ MaxSession \in Nat
    BY CountAssumption DEF SessionId
  <2> HIDE DEF Unused
  <2> QED
    BY <2>1, LeastIn
<1> HIDE DEF Opens
<1>1. PICK expired : /\ expired = {s \in SessionId : Active(s) /\ s \in late}
                     /\ \/ Refund(expired, "expired") /\ Refuse(c)
                        \/ \E u \in SessionId : session[u].status = "none" /\ Opens(expired, u)
  BY <1>6, <1>7
<1> USE DEF Opens
<1>2. /\ calls[c].op = "init" /\ calls[c].at = "sent"
      /\ UNCHANGED <<keys, late, page, wallet, history>>
  BY DEF BankInit, Arrived
<1>3. expired \in SUBSET SessionId /\ \A s \in expired : Active(s)
  BY <1>1
<1>4. CASE Refund(expired, "expired") /\ Refuse(c)
  BY <1>2, <1>3, <1>4, RefusedRefunding
<1>5. CASE \E u \in SessionId : session[u].status = "none" /\ Opens(expired, u)
  <2>1. PICK k \in [Index -> Nonce], u \in SessionId :
             /\ session[u].status = "none"
             /\ balance + Cardinality(expired) # 0
             /\ session' = [s \in SessionId |->
                   IF s = u THEN [NoRow EXCEPT !.status = "pending", !.k = k,
                                               !.fetched = calls[c].version]
                   ELSE IF s \in expired THEN [session[s] EXCEPT !.status = "expired"]
                   ELSE session[s]]
             /\ balance' = balance + Cardinality(expired) - 1
             /\ Accept(c, [calls[c] EXCEPT !.sess = u])
    BY <1>5
  <2>2. Version \in Nat /\ RowsTyped(session, Version) /\ Account(balance, session)
    BY DEF TInv, KeysTyped, Version
  <2>3. PICK closed : closed = Close(session, expired, "expired")
    OBVIOUS
  <2>4. /\ RowsTyped(closed, Version) /\ Grows(session, Version, closed, Version)
        /\ Account(balance + Cardinality(expired), closed)
        /\ Cardinality(expired) \in Nat
    <3>1. \A s \in expired : session[s].status \in {"pending", "submitted"}
      BY <1>3 DEF Active
    <3> QED
      BY <1>3, <2>2, <2>3, <3>1, ClosedTyped
  <2>5. PICK row : row = [NoRow EXCEPT !.status = "pending", !.k = k, !.fetched = calls[c].version]
    OBVIOUS
  <2>6. calls[c] \in Calls /\ CallTyped(calls[c], session, Version) /\ calls[c].version \in 1 .. Version
    BY <1>2 DEF TInv, CallsTyped, CallTyped
  <2>7. /\ row \in Rows /\ RowTyped(row, Version) /\ row.status = "pending"
    <3>1. k \in [Index -> ValidScalar] /\ k \in Full(ValidScalar)
      BY DrawAssumption DEF Full
    <3>2. calls[c].version \in 0 .. MaxVersion
      BY <2>6 DEF Calls
    <3>3. row = [status |-> "pending", k |-> k, cands |-> Empty, j |-> NoIndex,
                 fetched |-> calls[c].version, lookups |-> {}]
      BY <2>5 DEF NoRow
    <3> QED
      BY <2>6, <3>1, <3>2, <3>3, FullOrEmpty DEF Rows, RowTyped, Statuses
  <2>8. u \notin expired
    BY <1>3, <2>1 DEF Active
  <2>9. session' = [closed EXCEPT ![u] = row]
    <3>1. closed = [s \in SessionId |-> IF s \in expired THEN [session[s] EXCEPT !.status = "expired"]
                                                         ELSE session[s]]
      BY <2>3 DEF Close
    <3> QED
      BY <2>1, <2>5, <3>1
  <2>10. PICK rows : rows = session'
    OBVIOUS
  <2>11. \A s \in SessionId : rows[s] = IF s = u THEN row ELSE closed[s]
    BY <2>4, <2>9, <2>10 DEF RowsTyped
  <2>12. RowsTyped(rows, Version)
    BY <2>4, <2>7, <2>9, <2>10 DEF RowsTyped
  <2>13. Grows(session, Version, rows, Version)
    BY <2>2, <2>4, <2>7, <2>11 DEF Grows
  <2>14. Account(balance', rows)
    <3>1. closed[u].status = "none"
      BY <2>1, <2>3, <2>8 DEF Close
    <3>2. Held(rows) = Held(closed) \cup {u} /\ u \notin Held(closed)
      BY <2>7, <2>11, <3>1 DEF Held
    <3>3. Cardinality(Held(rows)) = Cardinality(Held(closed)) + 1
      BY <3>2, HeldFinite, FS_AddElement
    <3>4. Cardinality(Held(closed)) \in Nat /\ Funds \in Nat
      BY HeldFinite, CountAssumption
    <3>5. PICK b \in Nat : b = balance + Cardinality(expired) /\ b = Funds - Cardinality(Held(closed))
      BY <2>4 DEF Account
    <3>6. balance' = b - 1 /\ b # 0
      <4>1. balance \in Nat /\ Cardinality(expired) \in Nat
        BY <2>2, <2>4 DEF Account
      <4> QED
        BY <2>1, <3>5, <4>1
    <3>7. balance' \in Nat /\ balance' = Funds - (Cardinality(Held(closed)) + 1)
      BY <3>4, <3>5, <3>6
    <3> QED
      BY <3>3, <3>7 DEF Account
  <2>15. CallsTyped(calls', rows, Version)
    <3>1. PICK m : m = [calls[c] EXCEPT !.sess = u, !.ok = TRUE]
      OBVIOUS
    <3>2. Answer(c, m)
      BY <2>1, <2>6, <3>1 DEF Accept, Calls
    <3>3. m \in Calls /\ m.op # "none" /\ m.orphan = calls[c].orphan
      BY <1>2, <2>6, <3>1 DEF Calls
    <3>4. Opened(u, rows)
      BY <2>7, <2>11 DEF Opened
    <3>5. PICK answer : answer = [m EXCEPT !.at = "answered", !.orphan = FALSE]
      OBVIOUS
    <3>6. /\ answer.op = "init" /\ answer.at = "answered" /\ answer.ok /\ ~answer.orphan
          /\ answer.sess = u /\ answer.version = calls[c].version
      BY <1>2, <2>6, <3>1, <3>5 DEF Calls
    <3>7. CallTyped(answer, rows, Version)
      BY <2>6, <3>4, <3>6 DEF CallTyped
    <3> QED
      BY <2>13, <3>2, <3>3, <3>5, <3>7, Answered DEF TInv
  <2> QED
    BY <1>2, <2>10, <2>12, <2>13, <2>14, <2>15, Banked
<1> QED
  BY <1>1, <1>4, <1>5

\* One session changes, held before and after.
LEMMA OneRow ==
  ASSUME TInv, NEW s \in SessionId, NEW row \in Rows, RowTyped(row, Version),
         session[s].status \in {"pending", "submitted"}, row.status \in {"submitted", "committed"},
         session' = [session EXCEPT ![s] = row], balance' = balance
  PROVE  /\ RowsTyped(session', Version) /\ Account(balance', session')
         /\ Grows(session, Version, session', Version)
<1>1. RowsTyped(session, Version) /\ Account(balance, session)
  BY DEF TInv
<1>2. PICK rows : rows = session'
  OBVIOUS
<1>3. \A t \in SessionId : rows[t] = IF t = s THEN row ELSE session[t]
  BY <1>1, <1>2 DEF RowsTyped
<1>4. RowsTyped(rows, Version)
  BY <1>1, <1>2 DEF RowsTyped
<1>5. Held(rows) = Held(session)
  BY <1>3 DEF Held
<1>6. Grows(session, Version, rows, Version)
  BY <1>3, SameRows DEF Grows
<1> QED
  BY <1>1, <1>2, <1>4, <1>5, <1>6 DEF Account

\* The answer of a call the bank accepts.
LEMMA Accepted ==
  ASSUME TInv, NEW c \in Slot, calls[c].op # "none", NEW m \in Calls, m.orphan = calls[c].orphan,
         m.op = calls[c].op, Accept(c, m),
         CallTyped([m EXCEPT !.ok = TRUE, !.at = "answered", !.orphan = FALSE], session', Version),
         RowsTyped(session', Version), Account(balance', session'),
         Grows(session, Version, session', Version),
         UNCHANGED <<keys, late, page, wallet, history>>
  PROVE  TInv'
<1>1. PICK rows : rows = session'
  OBVIOUS
<1>2. PICK n : n = [m EXCEPT !.ok = TRUE]
  OBVIOUS
<1>3. n \in Calls /\ n.op # "none" /\ n.orphan = calls[c].orphan
  BY <1>2 DEF Calls
<1>4. [n EXCEPT !.at = "answered", !.orphan = FALSE]
        = [m EXCEPT !.ok = TRUE, !.at = "answered", !.orphan = FALSE]
  BY <1>2 DEF Calls
<1>5. CallsTyped(calls', rows, Version)
  BY <1>1, <1>2, <1>3, <1>4, Answered DEF Accept, TInv
<1> QED
  BY <1>1, <1>5, Banked

LEMMA PickedTyped ==
  ASSUME NEW word \in 0 .. PickLimit(N) - 1
  PROVE  PickRandomJ(N, word) \in Index
<1>1. N \in Nat /\ N > 0
  BY CountAssumption
<1>2. PickLimit(N) \in Int
  <2>1. Words \in Int /\ N * (Words \div N) \in Int
    BY <1>1, WordsAssumption, DivMod
  <2> QED
    BY <2>1 DEF PickLimit
<1>3. word \in Int
  BY <1>2
<1> QED
  BY <1>1, <1>3, DivMod DEF PickRandomJ, Index

LEMMA BankSubmitTInv == ASSUME TInv, NEW c \in Slot, BankSubmit(c) PROVE TInv'
<1>1. PICK s : s = calls[c].sess
  OBVIOUS
<1>2. /\ calls[c] \in Calls /\ CallTyped(calls[c], session, Version)
      /\ calls[c].op = "submit" /\ calls[c].at = "sent" /\ Opened(s, session) /\ s \in SessionId
      /\ calls[c].cands # Empty /\ calls[c].cands \in Full(Candidates)
  BY <1>1 DEF TInv, CallsTyped, CallTyped, BankSubmit, Arrived, Opened, Calls
<1>3. session[s] \in Rows /\ RowTyped(session[s], Version)
  BY <1>2 DEF TInv, RowsTyped
<1>4. UNCHANGED <<keys, late, page, wallet, history>>
  BY DEF BankSubmit
<1>5. CASE session[s].status # "pending"
  BY <1>1, <1>2, <1>4, <1>5, RefusedOnly DEF BankSubmit, bank
<1>6. CASE session[s].status = "pending" /\ s \in late
  <2>1. Refund({s}, "expired") /\ Refuse(c)
    BY <1>1, <1>6 DEF BankSubmit
  <2>2. PICK S \in SUBSET SessionId : S = {s}
    BY <1>2
  <2>3. \A t \in S : Active(t)
    BY <1>6, <2>2 DEF Active
  <2> QED
    BY <1>2, <1>4, <2>1, <2>2, <2>3, RefusedRefunding
<1>7. CASE session[s].status = "pending" /\ s \notin late
  <2>1. PICK j \in Index :
          /\ session' = [session EXCEPT ![s].status = "submitted", ![s].j = j,
                                        ![s].cands = calls[c].cands]
          /\ Accept(c, [calls[c] EXCEPT !.j = j])
          /\ balance' = balance
    BY <1>1, <1>7, PickedTyped DEF BankSubmit
  <2>2. PICK row : row = [session[s] EXCEPT !.status = "submitted", !.j = j, !.cands = calls[c].cands]
    OBVIOUS
  <2>3. row \in Rows /\ row.status = "submitted" /\ RowTyped(row, Version)
    BY <1>2, <1>3, <2>2, <1>7 DEF Rows, RowTyped, Statuses
  <2>4. session' = [session EXCEPT ![s] = row]
    BY <1>2, <2>1, <2>2 DEF TInv, RowsTyped
  <2>5. /\ RowsTyped(session', Version) /\ Account(balance', session')
        /\ Grows(session, Version, session', Version)
    BY <1>2, <1>7, <2>1, <2>3, <2>4, OneRow
  <2>6. PICK m : m = [calls[c] EXCEPT !.j = j]
    OBVIOUS
  <2>7. m \in Calls /\ m.orphan = calls[c].orphan /\ m.op = calls[c].op
    BY <1>2, <2>6 DEF Calls
  <2>8. PICK n : n = [m EXCEPT !.ok = TRUE, !.at = "answered", !.orphan = FALSE]
    OBVIOUS
  <2>9. /\ n.op = "submit" /\ n.at = "answered" /\ n.ok /\ ~n.orphan /\ n.sess = s
        /\ n.cands = calls[c].cands /\ n.j = j
    BY <1>1, <1>2, <2>6, <2>8 DEF Calls
  <2>10. PICK rows : rows = session'
    OBVIOUS
  <2>11. CallTyped(n, rows, Version)
    BY <1>2, <2>5, <2>9, <2>10 DEF CallTyped, Opened, Grows
  <2> QED
    BY <1>2, <1>4, <2>1, <2>5, <2>6, <2>7, <2>8, <2>10, <2>11, Accepted
<1> QED
  BY <1>5, <1>6, <1>7

\* What bankStep3 returns is a scalar.
LEMMA SignatureTyped ==
  ASSUME NEW k \in Int, NEW e \in Int, NEW x \in Int
  PROVE  BankStep3(k, e, x) \in Scalar
<1>1. PICK a \in Int : a = e * x
  OBVIOUS
<1>2. PICK b \in Int : b = ModN(a)
  BY ModNTyped
<1>3. PICK d \in Int : d = k + b
  OBVIOUS
<1> QED
  BY <1>1, <1>2, <1>3, ModNTyped DEF BankStep3

\* What the bank signs with any key it has is a scalar.
LEMMA ResponseTyped ==
  ASSUME TInv, NEW s \in SessionId, session[s].status = "submitted", NEW v \in 1 .. Version
  PROVE  Response(session[s], keys[v]) \in Scalar
<1>1. session[s] \in Rows /\ RowTyped(session[s], Version)
  BY DEF TInv, RowsTyped
<1>2. PICK j \in Index : j = session[s].j
  BY <1>1 DEF RowTyped
<1>3. session[s].k[j] \in ValidScalar /\ session[s].cands[j] \in Candidates
  BY <1>1 DEF RowTyped, Rows, Full
<1>4. keys[v] \in ValidScalar
  BY DEF TInv, KeysTyped, Version
<1>5. session[s].k[j] \in Int /\ session[s].cands[j].e \in Int /\ keys[v] \in Int
  BY <1>3, <1>4 DEF ValidScalar, Candidates, Scalar
<1> QED
  BY <1>2, <1>5, SignatureTyped DEF Response

\* A session the bank aborts.
LEMMA Aborting ==
  ASSUME TInv, NEW s \in SessionId, session[s].status = "submitted", NEW v \in 1 .. Version,
         Abort(s, v)
  PROVE  /\ RowsTyped(session', Version) /\ Account(balance', session')
         /\ Grows(session, Version, session', Version)
<1>1. PICK rows, closed : rows = session' /\ closed = Close(session, {s}, "aborted")
  OBVIOUS
<1>2. /\ RowsTyped(session, Version) /\ Account(balance, session) /\ Version \in Nat
      /\ session[s] \in Rows /\ RowTyped(session[s], Version) /\ v \in 1 .. MaxVersion
  BY CountAssumption DEF TInv, RowsTyped, KeysTyped, Version
<1>3. PICK S \in SUBSET SessionId : S = {s} /\ Cardinality(S) = 1
  BY FS_Singleton
<1>4. \A t \in S : session[t].status \in {"pending", "submitted"} /\ session[t].cands # Empty
  BY <1>2, <1>3 DEF RowTyped
<1>5. /\ RowsTyped(closed, Version) /\ Grows(session, Version, closed, Version)
      /\ Account(balance + 1, closed)
  BY <1>1, <1>2, <1>3, <1>4, ClosedTyped
<1>6. PICK row : row = [session[s] EXCEPT !.status = "aborted", !.lookups = {v}]
  OBVIOUS
<1>7. rows = [session EXCEPT ![s] = row] /\ balance' = balance + 1
  BY <1>1, <1>2, <1>6 DEF Abort, RowsTyped
<1>8. row \in Rows /\ row.status = "aborted" /\ RowTyped(row, Version)
  BY <1>2, <1>6 DEF Rows, RowTyped, Statuses
<1>9. RowsTyped(rows, Version)
  BY <1>2, <1>7, <1>8 DEF RowsTyped
<1>10. \A t \in SessionId : rows[t].status = closed[t].status
  <2>1. ASSUME NEW t \in SessionId PROVE rows[t].status = closed[t].status
    <3>1. CASE t = s
      BY <1>1, <1>2, <1>7, <1>8, <3>1 DEF Close, Rows, RowsTyped
    <3>2. CASE t # s
      BY <1>1, <1>2, <1>7, <3>2 DEF Close, RowsTyped
    <3> QED
      BY <3>1, <3>2
  <2> QED
    BY <2>1
<1>11. Held(rows) = Held(closed) /\ Grows(session, Version, rows, Version)
  BY <1>5, <1>10 DEF Held, Grows
<1> QED
  BY <1>1, <1>5, <1>7, <1>9, <1>11 DEF Account

LEMMA BankRevealTInv == ASSUME TInv, NEW c \in Slot, BankReveal(c) PROVE TInv'
<1>1. PICK s : s = calls[c].sess
  OBVIOUS
<1>2. /\ calls[c] \in Calls /\ CallTyped(calls[c], session, Version)
      /\ calls[c].op = "reveal" /\ calls[c].at = "sent" /\ Opened(s, session) /\ s \in SessionId
      /\ calls[c].j \in Index
  BY <1>1 DEF TInv, CallsTyped, CallTyped, BankReveal, Arrived, Opened
<1>3. session[s] \in Rows /\ RowTyped(session[s], Version)
  BY <1>2 DEF TInv, RowsTyped
<1>4. UNCHANGED <<keys, late, page, wallet, history>>
  BY DEF BankReveal
<1>5. CASE Refuse(c) /\ UNCHANGED <<session, balance>>
  BY <1>2, <1>4, <1>5, RefusedOnly DEF bank
<1>6. CASE session[s].status = "submitted" /\ Refund({s}, "expired") /\ Refuse(c)
  <2>1. PICK S \in SUBSET SessionId : S = {s}
    BY <1>2
  <2>2. \A t \in S : Active(t)
    BY <1>6, <2>1 DEF Active
  <2> QED
    BY <1>2, <1>4, <1>6, <2>1, <2>2, RefusedRefunding
<1>7. ASSUME session[s].status = "submitted", NEW v \in 1 .. Version, Abort(s, v), Refuse(c)
      PROVE  TInv'
  <2>1. PICK rows : rows = session'
    OBVIOUS
  <2>2. /\ RowsTyped(session', Version) /\ Account(balance', session')
        /\ Grows(session, Version, session', Version)
    BY <1>2, <1>7, Aborting
  <2>3. CallsTyped(calls', rows, Version)
    BY <1>2, <1>7, <2>1, <2>2, Refused DEF TInv
  <2> QED
    BY <1>4, <2>1, <2>2, <2>3, Banked
<1>8. ASSUME session[s].status = "submitted",
             NEW L \in SUBSET (1 .. Version), NEW x \in 1 .. Version, NEW v \in 1 .. Version,
             session' = [session EXCEPT ![s].status = "committed", ![s].lookups = L],
             Accept(c, [calls[c] EXCEPT !.s = Response(session[s], keys[x]), !.version = v]),
             balance' = balance
      PROVE  TInv'
  <2>1. PICK row : row = [session[s] EXCEPT !.status = "committed", !.lookups = L]
    OBVIOUS
  <2>2. Version \in 1 .. MaxVersion /\ v \in 0 .. MaxVersion /\ L \in SUBSET (1 .. MaxVersion)
    BY CountAssumption DEF TInv, KeysTyped, Version
  <2>3. row \in Rows /\ row.status = "committed" /\ RowTyped(row, Version)
    BY <1>3, <1>8, <2>1, <2>2 DEF Rows, RowTyped, Statuses
  <2>4. session' = [session EXCEPT ![s] = row]
    BY <1>2, <1>8, <2>1 DEF TInv, RowsTyped
  <2>5. /\ RowsTyped(session', Version) /\ Account(balance', session')
        /\ Grows(session, Version, session', Version)
    BY <1>2, <1>8, <2>3, <2>4, OneRow
  <2>6. PICK sj \in Scalar : sj = Response(session[s], keys[x])
    BY <1>2, <1>8, ResponseTyped
  <2>7. PICK m : m = [calls[c] EXCEPT !.s = sj, !.version = v]
    OBVIOUS
  <2>8. m \in Calls /\ m.orphan = calls[c].orphan /\ m.op = calls[c].op
    BY <1>2, <2>2, <2>7 DEF Calls
  <2>9. PICK n : n = [m EXCEPT !.ok = TRUE, !.at = "answered", !.orphan = FALSE]
    OBVIOUS
  <2>10. /\ n.op = "reveal" /\ n.at = "answered" /\ n.ok /\ ~n.orphan /\ n.sess = s
         /\ n.j = calls[c].j /\ n.version = v
    BY <1>1, <1>2, <2>2, <2>7, <2>9 DEF Calls
  <2>11. PICK rows : rows = session'
    OBVIOUS
  <2>12. CallTyped(n, rows, Version)
    BY <1>2, <2>5, <2>10, <2>11 DEF CallTyped, Opened, Grows
  <2>13. Accept(c, m)
    BY <1>8, <2>6, <2>7
  <2> QED
    BY <1>2, <1>4, <1>8, <2>5, <2>8, <2>9, <2>11, <2>12, <2>13, Accepted
<1> QED
  <2>1. \/ Refuse(c) /\ UNCHANGED <<session, balance>>
        \/ session[s].status = "submitted" /\ Refund({s}, "expired") /\ Refuse(c)
        \/ session[s].status = "submitted" /\ \E v \in 1 .. Version : Abort(s, v) /\ Refuse(c)
        \/ /\ session[s].status = "submitted" /\ balance' = balance
           /\ \E w, x, v \in 1 .. Version :
                 /\ session' = [session EXCEPT ![s].status = "committed", ![s].lookups = {w, x, v}]
                 /\ Accept(c, [calls[c] EXCEPT !.s = Response(session[s], keys[x]), !.version = v])
    BY <1>1 DEF BankReveal, MayKnow
  <2>2. ASSUME session[s].status = "submitted", balance' = balance,
               NEW w \in 1 .. Version, NEW x \in 1 .. Version, NEW v \in 1 .. Version,
               session' = [session EXCEPT ![s].status = "committed", ![s].lookups = {w, x, v}],
               Accept(c, [calls[c] EXCEPT !.s = Response(session[s], keys[x]), !.version = v])
        PROVE  TInv'
    <3>1. PICK L \in SUBSET (1 .. Version) : L = {w, x, v}
      OBVIOUS
    <3> QED
      BY <1>8, <2>2, <3>1
  <2> QED
    BY <1>5, <1>6, <1>7, <2>1, <2>2

LEMMA BankCancelTInv == ASSUME TInv, NEW c \in Slot, BankCancel(c) PROVE TInv'
<1>1. PICK s : s = calls[c].sess
  OBVIOUS
<1>2. /\ calls[c] \in Calls /\ CallTyped(calls[c], session, Version)
      /\ calls[c].op = "cancel" /\ calls[c].at = "sent" /\ Opened(s, session) /\ s \in SessionId
  BY <1>1 DEF TInv, CallsTyped, CallTyped, BankCancel, Arrived, Opened
<1>3. UNCHANGED <<keys, late, page, wallet, history>>
  BY DEF BankCancel
<1>4. CASE ~Active(s)
  BY <1>1, <1>2, <1>3, <1>4, RefusedOnly DEF BankCancel, bank
<1>5. CASE Active(s)
  <2>1. Refund({s}, "cancelled") /\ Accept(c, calls[c])
    BY <1>1, <1>5 DEF BankCancel
  <2>2. PICK S \in SUBSET SessionId : S = {s}
    BY <1>2
  <2>3. /\ RowsTyped(session', Version) /\ Account(balance', session')
        /\ Grows(session, Version, session', Version)
    BY <1>5, <2>1, <2>2, Refunding
  <2>4. PICK n : n = [calls[c] EXCEPT !.ok = TRUE, !.at = "answered", !.orphan = FALSE]
    OBVIOUS
  <2>5. n.op = "cancel" /\ n.at = "answered" /\ n.ok /\ ~n.orphan /\ n.sess = s
    BY <1>1, <1>2, <2>4 DEF Calls
  <2>6. PICK rows : rows = session'
    OBVIOUS
  <2>7. CallTyped(n, rows, Version)
    BY <1>2, <2>3, <2>5, <2>6 DEF CallTyped, Opened, Grows
  <2> QED
    BY <1>2, <1>3, <2>1, <2>3, <2>4, <2>6, <2>7, Accepted
<1> QED
  BY <1>4, <1>5

LEMMA SweepTInv == ASSUME TInv, Sweep PROVE TInv'
<1>1. PICK expired : expired = {s \in SessionId : Active(s) /\ s \in late}
  OBVIOUS
<1>2. expired \in SUBSET SessionId /\ \A s \in expired : Active(s)
  BY <1>1
<1>3. Refund(expired, "expired") /\ UNCHANGED <<keys, late, page, calls, wallet, history>>
  BY <1>1 DEF Sweep
<1>4. /\ RowsTyped(session', Version) /\ Account(balance', session')
      /\ Grows(session, Version, session', Version)
  BY <1>2, <1>3, Refunding
<1>5. PICK rows : rows = session'
  OBVIOUS
<1>6. CallsTyped(calls, rows, Version)
  BY <1>4, <1>5, StillTyped DEF TInv
<1> QED
  BY <1>3, <1>4, <1>5, <1>6, Banked

LEMMA RotateTInv == ASSUME TInv, Rotate PROVE TInv'
<1>1. PICK x \in ValidScalar : keys' = Append(keys, x)
  BY DEF Rotate
<1>2. /\ KeysTyped(keys) /\ Version < MaxVersion /\ MaxVersion \in Nat
      /\ UNCHANGED <<session, balance, late, page, calls, wallet, history>>
  BY CountAssumption DEF Rotate, TInv
<1>3. KeysTyped(keys') /\ Len(keys') = Version + 1 /\ Version \in Nat
  BY <1>1, <1>2 DEF KeysTyped, Version
<1>4. PICK w \in Nat : w = Len(keys') /\ Version <= w
  BY <1>3
<1>5. Grows(session, Version, session, w)
  BY <1>3, <1>4 DEF Grows
<1>6. PageTyped(page, session, w) /\ CallsTyped(calls, session, w)
  BY <1>5, StillTyped DEF TInv
<1>7. RowsTyped(session, w)
  BY <1>3, <1>4 DEF TInv, RowsTyped, RowTyped
<1>8. Version' = w
  BY <1>4 DEF Version
<1> QED
  BY <1>2, <1>3, <1>6, <1>7, <1>8 DEF TInv, history

-----------------------------------------------------------------------------
(* Time and the answers keep the shape.                                    *)

LEMMA TtlElapsesTInv == ASSUME TInv, NEW s \in SessionId, TtlElapses(s) PROVE TInv'
BY DEF TtlElapses, TInv, bank, history, Version

LEMMA CountdownEndsTInv == ASSUME TInv, CountdownEnds PROVE TInv'
<1>1. page \in Pages /\ PageTyped(page, session, Version)
  BY DEF TInv
<1>2. page' \in Pages /\ PageTyped(page', session, Version)
  BY <1>1 DEF CountdownEnds, Pages, PageTyped
<1> QED
  BY <1>2 DEF CountdownEnds, TInv, bank, history, Version

LEMMA FailTInv == ASSUME TInv, NEW c \in Slot, Fail(c) PROVE TInv'
<1>1. /\ CallsTyped(calls, session, Version)
      /\ calls[c] \in Calls /\ CallTyped(calls[c], session, Version)
  BY DEF TInv, CallsTyped
<1>2. PICK m : m = IF calls[c].orphan THEN NoCall
                   ELSE [calls[c] EXCEPT !.at = "answered", !.ok = FALSE]
  OBVIOUS
<1>3. m \in Calls /\ CallTyped(m, session, Version)
  <2>1. CASE calls[c].orphan
    BY <1>2, <2>1, NoCallTyped
  <2>2. CASE ~calls[c].orphan
    <3>1. m = [calls[c] EXCEPT !.at = "answered", !.ok = FALSE]
      BY <1>2, <2>2
    <3>2. m \in Calls /\ m.op # "none"
      BY <1>1, <3>1 DEF Calls, CallTyped, Fail
    <3> QED
      BY <1>1, <2>2, <3>1, <3>2 DEF Calls, CallTyped
  <2> QED
    BY <2>1, <2>2
<1>4. CallsTyped(calls', session, Version)
  BY <1>1, <1>2, <1>3, OneCall DEF Fail
<1>5. dropped' \subseteq SessionId
  BY <1>1 DEF Fail, TInv, CallTyped, Opened
<1> QED
  BY <1>4, <1>5 DEF Fail, TInv, bank, Version

\* The page takes an answer.
LEMMA Taken ==
  ASSUME TInv, NEW c \in Slot, NEW p \in Pages, PageTyped(p, session, Version), Finish(c, p),
         UNCHANGED <<bank, late, wallet, leaked, dropped>>, overtaken' \in BOOLEAN
  PROVE  TInv'
<1>1. CallsTyped(calls', session, Version)
  BY NoCallTyped, OneCall DEF TInv, Finish
<1>2. page' \in Pages /\ PageTyped(page', session, Version)
  BY DEF Finish, Pages, PageTyped
<1> QED
  BY <1>1, <1>2 DEF TInv, bank, Version

LEMMA OnInitTInv == ASSUME TInv, NEW c \in Slot, OnInit(c) PROVE TInv'
<1>1. /\ page \in Pages /\ PageTyped(page, session, Version) /\ overtaken \in BOOLEAN
      /\ calls[c] \in Calls /\ CallTyped(calls[c], session, Version)
      /\ calls[c].op = "init" /\ calls[c].ok
  BY DEF TInv, CallsTyped, OnInit, Returned
<1>2. PICK p : p = [page EXCEPT !.sess = calls[c].sess, !.version = calls[c].version,
                                !.expired = FALSE, !.step = 1]
  OBVIOUS
<1>3. /\ calls[c].sess \in SessionId \cup {NoSession} /\ calls[c].version \in 0 .. MaxVersion
      /\ calls[c].version \in 1 .. Version /\ Opened(calls[c].sess, session)
  BY <1>1 DEF Calls, CallTyped
<1>4. p \in Pages
  <2>1. 1 \in 0 .. 3
    OBVIOUS
  <2> QED
    BY <1>1, <1>2, <1>3, <2>1 DEF Pages
<1>5. PageTyped(p, session, Version)
  BY <1>1, <1>2, <1>3 DEF Pages, PageTyped
<1> QED
  BY <1>1, <1>2, <1>4, <1>5, Taken DEF OnInit, history

LEMMA OnSubmitTInv == ASSUME TInv, NEW c \in Slot, OnSubmit(c) PROVE TInv'
<1>1. /\ page \in Pages /\ PageTyped(page, session, Version) /\ overtaken \in BOOLEAN
      /\ calls[c] \in Calls
  BY DEF TInv, CallsTyped
<1>2. PICK p : p = [page EXCEPT !.j = calls[c].j, !.step = 2]
  OBVIOUS
<1>3. calls[c].j \in Index \cup {NoIndex}
  BY <1>1 DEF Calls
<1>4. p \in Pages
  <2>1. 2 \in 0 .. 3
    OBVIOUS
  <2> QED
    BY <1>1, <1>2, <1>3, <2>1 DEF Pages
<1>5. PageTyped(p, session, Version)
  BY <1>1, <1>2 DEF Pages, PageTyped
<1> QED
  BY <1>1, <1>2, <1>4, <1>5, Taken DEF OnSubmit, history

LEMMA OnRevealTInv == ASSUME TInv, NEW c \in Slot, OnReveal(c) PROVE TInv'
<1>1. /\ page \in Pages /\ PageTyped(page, session, Version) /\ overtaken \in BOOLEAN
      /\ calls[c] \in Calls /\ CallTyped(calls[c], session, Version)
      /\ calls[c].op = "reveal" /\ calls[c].ok /\ Version <= MaxVersion
      /\ Version \in Nat /\ MaxVersion \in Nat
  BY CountAssumption DEF TInv, CallsTyped, OnReveal, Returned, KeysTyped, Version
<1>2. CASE page.blinders = Empty
  BY <1>1, <1>2, Taken DEF OnReveal, history
<1>3. CASE page.blinders # Empty
  <2>1. PICK j \in Index : j = calls[c].j
    BY <1>1 DEF CallTyped
  <2>2. page.cands[j] \in Candidates /\ page.blinders[j] \in Blinder
    BY <1>1, <1>3 DEF PageTyped, Pages, Full
  <2>3. PICK token : token = [sess |-> calls[c].sess, serial |-> page.cands[j].serial,
                              RPrime |-> page.cands[j].RPrime,
                              s |-> UnblindResponse(calls[c].s, page.blinders[j].alpha),
                              version |-> calls[c].version]
    OBVIOUS
  <2>4. UnblindResponse(calls[c].s, page.blinders[j].alpha) \in Scalar
    <3>1. PICK a \in Int : a = calls[c].s + page.blinders[j].alpha
      BY <1>1, <2>2 DEF Calls, Blinder, Scalar, ValidScalar
    <3> QED
      BY <3>1, ModNTyped DEF UnblindResponse
  <2>5. token \in Tokens
    <3>1. calls[c].sess \in SessionId /\ calls[c].version \in 1 .. MaxVersion
      BY <1>1 DEF CallTyped, Opened, Calls
    <3> QED
      BY <2>2, <2>3, <2>4, <3>1 DEF Tokens, Candidates
  <2>6. PICK p : p = [page EXCEPT !.token = token, !.step = 3, !.blinders = Empty, !.cands = Empty]
    OBVIOUS
  <2>7. token # NoToken
    BY <2>5, CountAssumption DEF Tokens, NoToken, SessionId, NoSession
  <2>8. p \in Pages
    <3>1. Empty \in Full(Blinder) /\ Empty \in Full(Candidates)
      BY FullOrEmpty
    <3>2. token \in Tokens \cup {NoToken} /\ 3 \in 0 .. 3
      BY <2>5
    <3> QED
      BY <1>1, <2>6, <3>1, <3>2 DEF Pages
  <2>9. PageTyped(p, session, Version)
    BY <1>1, <2>6, <2>7 DEF Pages, PageTyped
  <2>10. Finish(c, p) /\ UNCHANGED <<bank, late, wallet, history>>
    BY <1>3, <2>1, <2>3, <2>6 DEF OnReveal
  <2> QED
    BY <1>1, <2>8, <2>9, <2>10, Taken DEF history
<1> QED
  BY <1>2, <1>3

LEMMA OnCancelTInv == ASSUME TInv, NEW c \in Slot, OnCancel(c) PROVE TInv'
<1>1. Finish(c, Mounted) /\ UNCHANGED <<bank, late, wallet, leaked, dropped>>
  BY DEF OnCancel, ResetSession
<1>2. overtaken' \in BOOLEAN
  BY DEF OnCancel, TInv
<1> QED
  BY <1>1, <1>2, MountedTyped, Taken

LEMMA OnErrorTInv == ASSUME TInv, NEW c \in Slot, OnError(c) PROVE TInv'
<1>1. page \in Pages /\ PageTyped(page, session, Version) /\ overtaken \in BOOLEAN
  BY DEF TInv
<1> QED
  BY <1>1, Taken DEF OnError, history

LEMMA StutterTInv == ASSUME TInv, UNCHANGED vars PROVE TInv'
BY DEF TInv, vars, bank, history, Version

LEMMA NextTInv == ASSUME TInv, [Next]_vars PROVE TInv'
BY ClickInitTInv, ClickSubmitTInv, ClickRevealTInv, ClickCancelTInv, SaveToWalletTInv, LeaveTInv,
   PubkeysTInv, BankInitTInv, BankSubmitTInv, BankRevealTInv, BankCancelTInv, SweepTInv,
   RotateTInv, TtlElapsesTInv, CountdownEndsTInv, FailTInv, OnInitTInv, OnSubmitTInv,
   OnRevealTInv, OnCancelTInv, OnErrorTInv, StutterTInv
   DEF Next, Click, Bank, Elapse, Reply

\* The invariant says what TypeOK says.
LEMMA TInvTypeOK == ASSUME TInv PROVE TypeOK
<1>1. /\ Version \in 1 .. MaxVersion /\ \A v \in 1 .. Version : keys[v] \in ValidScalar
      /\ late \subseteq SessionId /\ wallet \subseteq Tokens
  BY DEF TInv, KeysTyped, Version
<1>2. ASSUME NEW s \in SessionId
      PROVE  /\ session[s].status \in Statuses
             /\ session[s].j \in Index <=> session[s].cands # Empty
             /\ session[s].cands # Empty => session[s].cands \in [Index -> Candidates]
  BY DEF TInv, RowsTyped, RowTyped, Rows, Full
<1>3. balance = Funds - Cardinality({s \in SessionId : Active(s) \/ session[s].status = "committed"})
  <2>1. Held(session) = {s \in SessionId : Active(s) \/ session[s].status = "committed"}
    BY DEF Held, Active
  <2> QED
    BY <2>1 DEF TInv, Account
<1>4. balance \in 0 .. Funds
  BY HeldFinite, CountAssumption DEF TInv, Account
<1>5. \A f : f \in [Index -> Blinder] => f \in Blinders
  BY DEF Blinder, Blinders
<1>6. /\ page.step \in 0 .. 3 /\ page.sess \in SessionId \cup {NoSession}
      /\ page.blinders \in Blinders /\ page.token \in Tokens \cup {NoToken}
  BY <1>5, FullOrEmpty DEF TInv, Pages, Full
<1>7. \A c \in Slot : calls[c].blinders \in Blinders
  BY DEF TInv, CallsTyped, Calls
<1> QED
  BY <1>1, <1>2, <1>3, <1>4, <1>6, <1>7 DEF TypeOK, Statuses

\* Whatever the order of clicks, answers, losses, sweeps and rotations: the rows, the refs and
\* the messages keep their shape, and the account is what the user brought less the sessions
\* that are open or committed (balance_after of withdrawalService.js).
THEOREM TypeOKAlways == Spec => []TypeOK
BY InitTInv, NextTInv, TInvTypeOK, PTL DEF Spec

-----------------------------------------------------------------------------
(***************************************************************************)
(* The order of things.  As long as no cancel was answered while another   *)
(* request was in flight, the requests the page still waits for are about  *)
(* the session and the step it is at, two of them only when one is the     *)
(* cancel of an expired session; so no answer surprises the page.          *)
(***************************************************************************)
\* A request whose answer the page still waits for.
Live(m) == m.op # "none" /\ ~m.orphan

\* The bank has taken the candidates of session s and picked its index.
Past(s, rows) == rows[s].status \notin {"none", "pending"}

\* The step of the wizard says how far its session is, and page.j that it is the bank's choice.
PageOrdered(p, rows, w) ==
    /\ p.step = 0 <=> p.sess = NoSession
    /\ p.sess = NoSession => p.blinders = Empty /\ ~p.expired
    /\ p.step < 3 => p.token = NoToken /\ ~p.saved
    /\ p.step = 2 => /\ Past(p.sess, rows) /\ p.j = rows[p.sess].j
                     /\ p.cands = rows[p.sess].cands /\ p.cands # Empty
    /\ p.step = 3 => p.token.sess = p.sess
    /\ p.saved => p.token \in w

\* A request the page waits for was sent for the step the page is at.
CallOrdered(m, p, rows) ==
    /\ p.loading \/ p.expired
    /\ m.op \in {"pubkeys", "init"} => p.sess = NoSession
    /\ m.op \in {"submit", "reveal", "cancel"} => m.sess = p.sess
    /\ m.op = "submit" => /\ p.step = 1 /\ m.cands = p.cands
                          /\ m.ok => /\ Past(m.sess, rows) /\ rows[m.sess].cands = m.cands
                                     /\ rows[m.sess].j = m.j
    /\ m.op = "reveal" => p.step = 2
    /\ m.op = "cancel" /\ m.ok => rows[m.sess].status = "cancelled"

\* Of two requests the page waits for, one is a cancel.
Beside(m, n, p) == p.expired /\ (m.op = "cancel" \/ n.op = "cancel")

\* Of every reveal, one whose page has gone included.
RevealOrdered(m, rows, lost) ==
    m.op = "reveal" => /\ Past(m.sess, rows) /\ rows[m.sess].j \in Index
                       /\ m.j = rows[m.sess].j
                       /\ m.orphan => m.sess \in lost

\* What has been revealed are other candidates than the chosen one.
LeakOrdered(pairs, rows) ==
    \A s \in SessionId, i \in Index : <<s, i>> \in pairs => Past(s, rows) /\ i # rows[s].j

CallsOrdered(cs, p, rows, lost) ==
    /\ \A c \in Slot : Live(cs[c]) => CallOrdered(cs[c], p, rows)
    /\ \A c, d \in Slot : c # d /\ Live(cs[c]) /\ Live(cs[d]) => Beside(cs[c], cs[d], p)
    /\ \A c \in Slot : RevealOrdered(cs[c], rows, lost)

\* The token of session s is somewhere.
SessionHeld(s, w, t, cs) ==
    \/ \E token \in w : token.sess = s
    \/ t.sess = s
    \/ \E c \in Slot : cs[c].op = "reveal" /\ cs[c].sess = s /\ cs[c].ok

AllHeld(rows, lost, w, t, cs) ==
    \A s \in SessionId \ lost : rows[s].status = "committed" => SessionHeld(s, w, t, cs)

Ordered ==
    /\ PageOrdered(page, session, wallet)
    /\ CallsOrdered(calls, page, session, dropped)
    /\ LeakOrdered(leaked, session)
    /\ AllHeld(session, dropped, wallet, page.token, calls)

OInv == InOrder => Ordered

-----------------------------------------------------------------------------
(* What the bank does to its sessions.                                     *)

\* A session keeps its nonces, once past pending its candidates and index, and if cancelled or
\* signed its status and what was looked up to sign it.
Advances(rows, next) ==
    \A s \in SessionId :
      /\ rows[s].status # "none" => /\ next[s].status # "none" /\ next[s].k = rows[s].k
                                    /\ next[s].fetched = rows[s].fetched
      /\ Past(s, rows) => /\ Past(s, next) /\ next[s].j = rows[s].j
                          /\ next[s].cands = rows[s].cands
      /\ rows[s].status = "cancelled" => next[s].status = "cancelled"
      /\ rows[s].status = "committed" => /\ next[s].status = "committed"
                                         /\ next[s].lookups = rows[s].lookups

LEMMA StillOrdered ==
  ASSUME TInv, NEW next, Advances(session, next)
  PROVE  /\ PageOrdered(page, session, wallet) => PageOrdered(page, next, wallet)
         /\ CallsOrdered(calls, page, session, dropped) => CallsOrdered(calls, page, next, dropped)
         /\ LeakOrdered(leaked, session) => LeakOrdered(leaked, next)
<1>1. page \in Pages /\ PageTyped(page, session, Version) /\ CallsTyped(calls, session, Version)
  BY DEF TInv
<1>2. PageOrdered(page, session, wallet) => PageOrdered(page, next, wallet)
  BY <1>1 DEF PageOrdered, PageTyped, Opened, Advances
<1>3. ASSUME NEW c \in Slot
      PROVE  /\ CallOrdered(calls[c], page, session) => CallOrdered(calls[c], page, next)
             /\ RevealOrdered(calls[c], session, dropped) => RevealOrdered(calls[c], next, dropped)
  <2>1. PICK m \in Calls : m = calls[c] /\ CallTyped(m, session, Version)
    BY <1>1 DEF CallsTyped
  <2>2. m.op \in {"submit", "reveal", "cancel"} => m.sess \in SessionId
    BY <2>1 DEF CallTyped, Opened
  <2>3. CallOrdered(m, page, session) => CallOrdered(m, page, next)
    BY <2>2 DEF CallOrdered, Advances
  <2>4. RevealOrdered(m, session, dropped) => RevealOrdered(m, next, dropped)
    BY <2>2 DEF RevealOrdered, Advances
  <2> QED
    BY <2>1, <2>3, <2>4
<1>4. CallsOrdered(calls, page, session, dropped) => CallsOrdered(calls, page, next, dropped)
  BY <1>3 DEF CallsOrdered
<1>5. LeakOrdered(leaked, session) => LeakOrdered(leaked, next)
  BY DEF LeakOrdered, Advances
<1> QED
  BY <1>2, <1>4, <1>5

LEMMA NoCallOrdered ==
  ~Live(NoCall) /\ NoCall.op = "none" /\ \A rows, lost : RevealOrdered(NoCall, rows, lost)
BY DEF NoCall, Live, RevealOrdered

\* A request in flight is answered, lost or goes on: the call stays one of its kind.
LEMMA OneCallOrdered ==
  ASSUME NEW cs, NEW p, NEW rows, NEW lost, CallsOrdered(cs, p, rows, lost),
         NEW c \in Slot, NEW m, cs = [d \in Slot |-> cs[d]],
         Live(m) => /\ CallOrdered(m, p, rows) /\ Live(cs[c])
                    /\ m.op = "cancel" <=> cs[c].op = "cancel",
         RevealOrdered(m, rows, lost)
  PROVE  CallsOrdered([cs EXCEPT ![c] = m], p, rows, lost)
<1>1. PICK next : next = [cs EXCEPT ![c] = m]
  OBVIOUS
<1>2. \A d \in Slot : next[d] = IF d = c THEN m ELSE cs[d]
  BY <1>1
<1>3. \A d \in Slot : Live(next[d]) => CallOrdered(next[d], p, rows)
  BY <1>2 DEF CallsOrdered
<1>4. \A d \in Slot : RevealOrdered(next[d], rows, lost)
  BY <1>2 DEF CallsOrdered
<1>5. ASSUME NEW d \in Slot, NEW e \in Slot, d # e, Live(next[d]), Live(next[e])
      PROVE  Beside(next[d], next[e], p)
  <2>1. Live(cs[d]) /\ Live(cs[e])
    BY <1>2, <1>5
  <2>2. Beside(cs[d], cs[e], p)
    BY <1>5, <2>1 DEF CallsOrdered
  <2>3. (next[d].op = "cancel" <=> cs[d].op = "cancel") /\ (next[e].op = "cancel" <=> cs[e].op = "cancel")
    BY <1>2, <1>5
  <2> QED
    BY <2>2, <2>3 DEF Beside
<1> QED
  BY <1>1, <1>3, <1>4, <1>5 DEF CallsOrdered

\* A step of the bank that answers one call, or none.
LEMMA BankOrdered ==
  ASSUME TInv, Ordered, Advances(session, session'),
         NEW c \in Slot, NEW m, calls' = [calls EXCEPT ![c] = m],
         Live(m) => /\ CallOrdered(m, page, session') /\ Live(calls[c])
                    /\ m.op = "cancel" <=> calls[c].op = "cancel",
         RevealOrdered(m, session', dropped),
         \A s \in SessionId \ dropped : session'[s].status = "committed" =>
            \/ session[s].status = "committed"
            \/ m.op = "reveal" /\ m.sess = s /\ m.ok,
         ~calls[c].ok, UNCHANGED <<late, page, wallet, history>>
  PROVE  Ordered'
<1>1. PICK rows : rows = session'
  OBVIOUS
<1>2. calls = [d \in Slot |-> calls[d]]
  BY DEF TInv, CallsTyped
<1>3. /\ PageOrdered(page, rows, wallet) /\ LeakOrdered(leaked, rows)
      /\ CallsOrdered(calls, page, rows, dropped)
  BY <1>1, StillOrdered DEF Ordered
<1>4. CallsOrdered([calls EXCEPT ![c] = m], page, rows, dropped)
  BY <1>1, <1>2, <1>3, OneCallOrdered
<1>5. PICK next : next = calls' /\ \A d \in Slot : next[d] = IF d = c THEN m ELSE calls[d]
  BY <1>2
<1>6. AllHeld(rows, dropped, wallet, page.token, next)
  <2>1. ASSUME NEW s \in SessionId \ dropped, rows[s].status = "committed"
        PROVE  SessionHeld(s, wallet, page.token, next)
    <3>1. CASE session[s].status = "committed"
      <4>1. SessionHeld(s, wallet, page.token, calls)
        BY <3>1 DEF Ordered, AllHeld
      <4> QED
        BY <4>1, <1>5 DEF SessionHeld
    <3>2. CASE m.op = "reveal" /\ m.sess = s /\ m.ok
      BY <3>2, <1>5 DEF SessionHeld
    <3> QED
      BY <1>1, <2>1, <3>1, <3>2
  <2> QED
    BY <2>1 DEF AllHeld
<1> QED
  BY <1>1, <1>3, <1>4, <1>5, <1>6 DEF Ordered, history

-----------------------------------------------------------------------------
(* The clicks keep the order.                                              *)

LEMMA InitOInv == Init => OInv
<1> SUFFICES ASSUME Init PROVE Ordered
  BY DEF OInv
<1>1. PageOrdered(Mounted, session, wallet)
  BY DEF PageOrdered, Mounted
<1>2. CallsOrdered(calls, page, session, dropped)
  BY DEF Init, NoCall, CallsOrdered, Live, RevealOrdered
<1>3. LeakOrdered(leaked, session)
  BY DEF Init, LeakOrdered
<1>4. AllHeld(session, dropped, wallet, page.token, calls)
  BY DEF Init, NoRow, AllHeld
<1> QED
  BY <1>1, <1>2, <1>3, <1>4 DEF Ordered, Init

\* A button that is enabled: nothing is in flight that the page waits for.
LEMMA Quiet ==
  ASSUME Ordered, ~page.loading, ~page.expired, NEW c \in Slot
  PROVE  ~Live(calls[c])
BY DEF Ordered, CallsOrdered, CallOrdered

\* The page sends a request when no other is in flight.
LEMMA SentOrdered ==
  ASSUME TInv, Ordered, ~page.loading, ~page.expired,
         NEW m, Send(m), m.op # "none", ~m.ok, ~m.orphan,
         PageOrdered(page', session, wallet), CallOrdered(m, page', session),
         RevealOrdered(m, session, dropped), page'.token = page.token,
         LeakOrdered(leaked', session), UNCHANGED <<bank, wallet, dropped>>
  PROVE  Ordered'
<1>1. calls = [d \in Slot |-> calls[d]]
  BY DEF TInv, CallsTyped
<1>2. PICK c \in Slot : calls[c].op = "none" /\ calls' = [calls EXCEPT ![c] = m]
  BY <1>1, Sending
<1>3. PICK next : next = calls' /\ \A d \in Slot : next[d] = IF d = c THEN m ELSE calls[d]
  BY <1>1, <1>2
<1>4. \A d \in Slot : Live(next[d]) => d = c
  BY <1>3, Quiet
<1>5. PICK p : p = page'
  OBVIOUS
<1>6. CallsOrdered(next, p, session, dropped)
  <2>1. \A d \in Slot : Live(next[d]) => CallOrdered(next[d], p, session)
    BY <1>3, <1>4, <1>5
  <2>2. \A d \in Slot : RevealOrdered(next[d], session, dropped)
    BY <1>3 DEF Ordered, CallsOrdered
  <2> QED
    BY <1>4, <2>1, <2>2 DEF CallsOrdered
<1>7. AllHeld(session, dropped, wallet, p.token, next)
  <2>1. ASSUME NEW s \in SessionId \ dropped, session[s].status = "committed"
        PROVE  SessionHeld(s, wallet, p.token, next)
    <3>1. SessionHeld(s, wallet, page.token, calls)
      BY <2>1 DEF Ordered, AllHeld
    <3> QED
      BY <1>2, <1>3, <1>5, <3>1 DEF SessionHeld
  <2> QED
    BY <2>1 DEF AllHeld
<1> QED
  BY <1>3, <1>5, <1>6, <1>7 DEF Ordered, bank

LEMMA ClickInitOrdered == ASSUME TInv, Ordered, ClickInit PROVE Ordered'
<1>1. /\ page \in Pages /\ PageOrdered(page, session, wallet) /\ page.step = 0 /\ ~page.loading
      /\ page' = [page EXCEPT !.loading = TRUE] /\ LeakOrdered(leaked, session)
  BY DEF TInv, Ordered, ClickInit
<1>2. page.sess = NoSession /\ ~page.expired
  BY <1>1 DEF PageOrdered
<1>3. PageOrdered(page', session, wallet) /\ page'.token = page.token
  BY <1>1 DEF PageOrdered, Pages
<1>4. PICK m : m = Request("pubkeys")
  OBVIOUS
<1>5. m.op = "pubkeys" /\ ~m.ok /\ ~m.orphan
  BY <1>4, RequestTyped
<1>6. CallOrdered(m, page', session)
  BY <1>1, <1>2, <1>5 DEF CallOrdered, Pages
<1>7. RevealOrdered(m, session, dropped)
  BY <1>5 DEF RevealOrdered
<1> QED
  BY <1>1, <1>2, <1>3, <1>4, <1>5, <1>6, <1>7, SentOrdered DEF ClickInit, history

LEMMA ClickSubmitOrdered == ASSUME TInv, Ordered, ClickSubmit PROVE Ordered'
<1>1. /\ page \in Pages /\ PageOrdered(page, session, wallet) /\ page.step = 1
      /\ ~page.loading /\ ~page.expired /\ page.sess # NoSession
      /\ LeakOrdered(leaked, session) /\ UNCHANGED <<bank, late, wallet, history>>
  BY DEF TInv, Ordered, ClickSubmit
<1>2. PICK drawn, cands :
        /\ page' = [page EXCEPT !.loading = TRUE, !.blinders = drawn, !.cands = cands]
        /\ Send([Request("submit") EXCEPT !.cands = cands])
  BY DEF ClickSubmit
<1>3. PICK p : p = page'
  OBVIOUS
<1>4. /\ p.step = 1 /\ p.sess = page.sess /\ p.loading /\ p.token = page.token /\ p.cands = cands
      /\ p.saved = page.saved
  BY <1>1, <1>2, <1>3 DEF Pages
<1>5. PageOrdered(p, session, wallet)
  BY <1>1, <1>4 DEF PageOrdered
<1>6. PICK m : m = [Request("submit") EXCEPT !.cands = cands]
  OBVIOUS
<1>7. m.op = "submit" /\ ~m.ok /\ ~m.orphan /\ m.cands = cands /\ m.sess = page.sess
  BY <1>1, <1>6, RequestTyped DEF Calls
<1>8. CallOrdered(m, p, session)
  BY <1>4, <1>7 DEF CallOrdered
<1>9. RevealOrdered(m, session, dropped)
  BY <1>7 DEF RevealOrdered
<1> QED
  BY <1>1, <1>2, <1>3, <1>4, <1>5, <1>6, <1>7, <1>8, <1>9, SentOrdered DEF history

LEMMA ClickRevealOrdered == ASSUME TInv, Ordered, ClickReveal PROVE Ordered'
<1>1. /\ page \in Pages /\ PageOrdered(page, session, wallet) /\ page.step = 2
      /\ PageTyped(page, session, Version)
      /\ ~page.loading /\ ~page.expired /\ page.sess # NoSession /\ page.j # NoIndex
      /\ LeakOrdered(leaked, session) /\ UNCHANGED <<bank, late, wallet, overtaken, dropped>>
  BY DEF TInv, Ordered, ClickReveal
<1>2. page.blinders # Empty
  BY <1>1 DEF PageOrdered, PageTyped
<1>3. /\ page' = [page EXCEPT !.loading = TRUE]
      /\ Send([Request("reveal") EXCEPT !.blinders = Revealed, !.j = page.j])
      /\ leaked' = leaked \cup ({page.sess} \X DOMAIN Revealed)
  BY <1>2 DEF ClickReveal
<1>4. PICK p : p = page'
  OBVIOUS
<1>5. p.step = 2 /\ p.sess = page.sess /\ p.loading /\ p.token = page.token
  BY <1>1, <1>3, <1>4 DEF Pages
<1>6. PageOrdered(p, session, wallet)
  BY <1>1, <1>3, <1>4 DEF PageOrdered, Pages
<1>7. PICK m : m = [Request("reveal") EXCEPT !.blinders = Revealed, !.j = page.j]
  OBVIOUS
<1>8. m.op = "reveal" /\ ~m.ok /\ ~m.orphan /\ m.j = page.j /\ m.sess = page.sess
  BY <1>1, <1>7, RequestTyped DEF Calls
<1>9. CallOrdered(m, p, session)
  BY <1>5, <1>8 DEF CallOrdered
<1>10. page.j \in Index /\ Past(page.sess, session) /\ page.j = session[page.sess].j
  BY <1>1 DEF PageOrdered, Pages
<1>11. RevealOrdered(m, session, dropped)
  BY <1>8, <1>10 DEF RevealOrdered
<1>12. LeakOrdered(leaked', session)
  <2>1. ASSUME NEW s \in SessionId, NEW i \in Index, <<s, i>> \in leaked'
        PROVE  Past(s, session) /\ i # session[s].j
    <3>1. CASE <<s, i>> \in leaked
      BY <1>1, <3>1 DEF LeakOrdered
    <3>2. CASE <<s, i>> \in {page.sess} \X DOMAIN Revealed
      <4>1. s = page.sess /\ i \in Index \ {page.j}
        BY <1>2, <3>2, RevealedTyped
      <4> QED
        BY <1>10, <4>1
    <3> QED
      BY <1>3, <2>1, <3>1, <3>2
  <2>2. PICK pairs : pairs = leaked'
    OBVIOUS
  <2> QED
    BY <2>1, <2>2 DEF LeakOrdered
<1> QED
  BY <1>1, <1>3, <1>4, <1>5, <1>6, <1>7, <1>8, <1>9, <1>11, <1>12, SentOrdered

\* The cancel of an expired session goes out beside what is in flight.
LEMMA ClickCancelOrdered == ASSUME TInv, Ordered, ClickCancel PROVE Ordered'
<1>1. /\ page \in Pages /\ PageOrdered(page, session, wallet) /\ page.sess # NoSession
      /\ page.loading => page.expired
      /\ page' = [page EXCEPT !.loading = TRUE] /\ Send(Request("cancel"))
      /\ UNCHANGED <<bank, late, wallet, history>>
  BY DEF TInv, Ordered, ClickCancel
<1>2. calls = [d \in Slot |-> calls[d]]
  BY DEF TInv, CallsTyped
<1>3. PICK m : m = Request("cancel")
  OBVIOUS
<1>4. m.op = "cancel" /\ ~m.ok /\ ~m.orphan /\ m.sess = page.sess
  BY <1>1, <1>3, RequestTyped
<1>5. PICK c \in Slot : calls[c].op = "none" /\ calls' = [calls EXCEPT ![c] = m]
  BY <1>1, <1>2, <1>3, Sending
<1>6. PICK next : next = calls' /\ \A d \in Slot : next[d] = IF d = c THEN m ELSE calls[d]
  BY <1>2, <1>5
<1>7. PICK p : p = page'
  OBVIOUS
<1>8. /\ p.sess = page.sess /\ p.step = page.step /\ p.loading /\ p.token = page.token
      /\ p.cands = page.cands /\ p.expired = page.expired
  BY <1>1, <1>7 DEF Pages
<1>9. PageOrdered(p, session, wallet)
  BY <1>1, <1>7 DEF PageOrdered, Pages
<1>10. ASSUME NEW d \in Slot, Live(next[d]) PROVE CallOrdered(next[d], p, session)
  <2>1. CASE d = c
    BY <1>4, <1>6, <1>8, <2>1 DEF CallOrdered
  <2>2. CASE d # c
    <3>1. CallOrdered(calls[d], page, session)
      BY <1>6, <1>10, <2>2 DEF Ordered, CallsOrdered
    <3> QED
      BY <1>6, <1>8, <2>2, <3>1 DEF CallOrdered
  <2> QED
    BY <2>1, <2>2
<1>11. ASSUME NEW d \in Slot, Live(calls[d]) PROVE page.expired
  BY <1>1, <1>11 DEF Ordered, CallsOrdered, CallOrdered
<1>12. ASSUME NEW d \in Slot, NEW e \in Slot, d # e, Live(next[d]), Live(next[e])
       PROVE  Beside(next[d], next[e], p)
  <2>1. CASE d = c
    BY <1>1, <1>4, <1>6, <1>8, <1>11, <1>12, <2>1 DEF Beside
  <2>2. CASE e = c
    BY <1>1, <1>4, <1>6, <1>8, <1>11, <1>12, <2>2 DEF Beside
  <2>3. CASE d # c /\ e # c
    <3>1. Beside(calls[d], calls[e], page)
      BY <1>6, <1>12, <2>3 DEF Ordered, CallsOrdered
    <3> QED
      BY <1>6, <1>8, <2>3, <3>1 DEF Beside
  <2> QED
    BY <2>1, <2>2, <2>3
<1>13. \A d \in Slot : RevealOrdered(next[d], session, dropped)
  BY <1>4, <1>6 DEF Ordered, CallsOrdered, RevealOrdered
<1>14. CallsOrdered(next, p, session, dropped)
  BY <1>10, <1>12, <1>13 DEF CallsOrdered
<1>15. AllHeld(session, dropped, wallet, p.token, next)
  <2>1. ASSUME NEW s \in SessionId \ dropped, session[s].status = "committed"
        PROVE  SessionHeld(s, wallet, p.token, next)
    <3>1. SessionHeld(s, wallet, page.token, calls)
      BY <2>1 DEF Ordered, AllHeld
    <3> QED
      BY <1>5, <1>6, <1>8, <3>1 DEF SessionHeld
  <2> QED
    BY <2>1 DEF AllHeld
<1> QED
  BY <1>1, <1>6, <1>7, <1>9, <1>14, <1>15 DEF Ordered, bank, history

\* The page changes in nothing its requests depend on.
LEMMA PageMoves ==
  ASSUME NEW cs, NEW p, NEW q, NEW rows, NEW lost, CallsOrdered(cs, p, rows, lost),
         q.sess = p.sess, q.step = p.step, q.cands = p.cands, p.loading => q.loading,
         p.expired => q.expired
  PROVE  CallsOrdered(cs, q, rows, lost)
<1>1. \A c \in Slot : Live(cs[c]) => CallOrdered(cs[c], q, rows)
  BY DEF CallsOrdered, CallOrdered
<1>2. \A c, d \in Slot : c # d /\ Live(cs[c]) /\ Live(cs[d]) => Beside(cs[c], cs[d], q)
  BY DEF CallsOrdered, Beside
<1> QED
  BY <1>1, <1>2 DEF CallsOrdered

LEMMA SaveToWalletOrdered == ASSUME TInv, Ordered, SaveToWallet PROVE Ordered'
<1>1. /\ page \in Pages /\ PageOrdered(page, session, wallet) /\ page.step = 3
      /\ wallet' = wallet \cup {page.token} /\ page' = [page EXCEPT !.saved = TRUE]
      /\ UNCHANGED <<bank, late, calls, history>>
  BY DEF TInv, Ordered, SaveToWallet
<1>2. PICK p, w : p = page' /\ w = wallet'
  OBVIOUS
<1>3. /\ p.sess = page.sess /\ p.step = page.step /\ p.loading = page.loading
      /\ p.token = page.token /\ p.cands = page.cands /\ p.expired = page.expired
      /\ p.blinders = page.blinders
  BY <1>1, <1>2 DEF Pages
<1>4. PageOrdered(p, session, w)
  BY <1>1, <1>2, <1>3 DEF PageOrdered
<1>5. CallsOrdered(calls, p, session, dropped)
  BY <1>3, PageMoves DEF Ordered
<1>6. AllHeld(session, dropped, w, p.token, calls)
  BY <1>1, <1>2, <1>3 DEF Ordered, AllHeld, SessionHeld
<1> QED
  BY <1>1, <1>2, <1>4, <1>5, <1>6 DEF Ordered, bank, history

LEMMA LeaveOrdered == ASSUME TInv, Ordered, Leave PROVE Ordered'
<1>1. /\ page' = Mounted /\ UNCHANGED <<bank, late, wallet, leaked, overtaken>>
      /\ CallsTyped(calls, session, Version) /\ page \in Pages /\ PageOrdered(page, session, wallet)
  BY DEF Leave, TInv, Ordered
<1>8. PICK next : next = calls'
  OBVIOUS
<1>2. \A c \in Slot : next[c] =
          IF calls[c].at = "sent" THEN [calls[c] EXCEPT !.orphan = TRUE] ELSE NoCall
  BY <1>8 DEF Leave
<1>3. PICK lost : lost = dropped' /\ dropped \subseteq lost
                  /\ (\A c \in Slot : calls[c].op = "reveal" => calls[c].sess \in lost)
                  /\ (~page.saved /\ page.token.sess # NoSession => page.token.sess \in lost)
  BY DEF Leave
<1>4. ASSUME NEW c \in Slot
      PROVE  ~Live(next[c]) /\ RevealOrdered(next[c], session, lost)
  <2>1. CASE calls[c].at = "sent"
    <3>1. /\ next[c].orphan /\ next[c].op = calls[c].op /\ next[c].sess = calls[c].sess
          /\ next[c].j = calls[c].j
      BY <1>1, <1>2, <2>1 DEF CallsTyped, Calls
    <3>2. RevealOrdered(calls[c], session, dropped)
      BY DEF Ordered, CallsOrdered
    <3> QED
      BY <1>3, <3>1, <3>2 DEF Live, RevealOrdered
  <2>2. CASE calls[c].at # "sent"
    <3>1. next[c] = NoCall
      BY <1>2, <2>2
    <3> QED
      BY <3>1, NoCallOrdered
  <2> QED
    BY <2>1, <2>2
<1>5. CallsOrdered(next, Mounted, session, lost)
  BY <1>4 DEF CallsOrdered
<1>6. PageOrdered(Mounted, session, wallet)
  BY DEF PageOrdered, Mounted
<1>7. AllHeld(session, lost, wallet, Mounted.token, next)
  <2>1. ASSUME NEW s \in SessionId \ lost, session[s].status = "committed"
        PROVE  SessionHeld(s, wallet, Mounted.token, next)
    <3>1. SessionHeld(s, wallet, page.token, calls)
      BY <1>3, <2>1 DEF Ordered, AllHeld
    <3>2. page.token.sess = s => \E token \in wallet : token.sess = s
      <4>1. s # NoSession
        BY CountAssumption DEF SessionId, NoSession
      <4> QED
        BY <1>1, <1>3, <2>1, <4>1 DEF PageOrdered
    <3> QED
      BY <1>3, <2>1, <3>1, <3>2 DEF SessionHeld
  <2> QED
    BY <2>1 DEF AllHeld
<1> QED
  BY <1>1, <1>3, <1>5, <1>6, <1>7, <1>8 DEF Ordered, bank

-----------------------------------------------------------------------------
(* The bank keeps the order.                                               *)

\* A call and what becomes of it when it is answered.
LEMMA AnswerIs ==
  ASSUME NEW c \in Slot, NEW m \in Calls, Answer(c, m), m.op = calls[c].op,
         m.orphan = calls[c].orphan
  PROVE  \E n \in Calls :
           /\ calls' = [calls EXCEPT ![c] = n]
           /\ \/ n = NoCall /\ calls[c].orphan
              \/ ~calls[c].orphan /\ n = [m EXCEPT !.at = "answered"]
<1>1. PICK n : n = AnswerOf(calls[c], m)
  OBVIOUS
<1>2. n \in Calls
  BY <1>1, NoCallTyped DEF AnswerOf, Calls
<1> QED
  BY <1>1, <1>2 DEF Answer, AnswerOf

\* The bank refuses a call it has not answered yet.
LEMMA RefuseOrdered ==
  ASSUME TInv, Ordered, NEW c \in Slot, Refuse(c), calls[c].at = "sent",
         Advances(session, session'),
         \A s \in SessionId : session'[s].status = "committed" => session[s].status = "committed",
         UNCHANGED <<late, page, wallet, history>>
  PROVE  Ordered'
<1>1. calls[c] \in Calls /\ CallTyped(calls[c], session, Version) /\ ~calls[c].ok
  BY DEF TInv, CallsTyped, CallTyped
<1>2. PICK m : m = [calls[c] EXCEPT !.ok = FALSE]
  OBVIOUS
<1>3. m \in Calls /\ m.op = calls[c].op /\ m.orphan = calls[c].orphan
  BY <1>1, <1>2 DEF Calls
<1>4. PICK n \in Calls :
        /\ calls' = [calls EXCEPT ![c] = n]
        /\ \/ n = NoCall /\ calls[c].orphan
           \/ ~calls[c].orphan /\ n = [m EXCEPT !.at = "answered"]
  BY <1>2, <1>3, AnswerIs DEF Refuse
<1>5. PICK rows : rows = session'
  OBVIOUS
<1>6. CallsOrdered(calls, page, rows, dropped)
  BY <1>5, StillOrdered DEF Ordered
<1>7. CASE n = NoCall
  BY <1>1, <1>4, <1>7, BankOrdered DEF NoCall, Live, RevealOrdered
<1>8. CASE ~calls[c].orphan /\ n = [m EXCEPT !.at = "answered"]
  <2>1. /\ n.op = calls[c].op /\ n.orphan = calls[c].orphan /\ n.sess = calls[c].sess /\ ~n.ok
        /\ n.j = calls[c].j /\ n.cands = calls[c].cands
    BY <1>1, <1>2, <1>8 DEF Calls
  <2>2. CallOrdered(calls[c], page, rows) => CallOrdered(n, page, rows)
    BY <2>1 DEF CallOrdered
  <2>3. Live(n) => Live(calls[c]) /\ CallOrdered(n, page, rows)
    BY <1>6, <2>1, <2>2 DEF Live, CallsOrdered
  <2>4. RevealOrdered(n, rows, dropped)
    BY <1>6, <2>1 DEF CallsOrdered, RevealOrdered
  <2> QED
    BY <1>1, <1>4, <1>5, <2>1, <2>3, <2>4, BankOrdered
<1> QED
  BY <1>4, <1>7, <1>8

\* Closing open sessions.
LEMMA RefundAdvances ==
  ASSUME TInv, NEW S \in SUBSET SessionId, \A s \in S : Active(s),
         NEW status \in {"expired", "cancelled"}, Refund(S, status)
  PROVE  /\ Advances(session, session')
         /\ \A s \in SessionId : session'[s].status = "committed" => session[s].status = "committed"
         /\ \A s \in SessionId :
               session'[s].status = IF s \in S THEN status ELSE session[s].status
<1>1. PICK rows : rows = session'
  OBVIOUS
<1>2. ASSUME NEW s \in SessionId
      PROVE  /\ rows[s].status = IF s \in S THEN status ELSE session[s].status
             /\ rows[s].k = session[s].k /\ rows[s].fetched = session[s].fetched
             /\ rows[s].j = session[s].j /\ rows[s].cands = session[s].cands
             /\ rows[s].lookups = session[s].lookups
  BY <1>1 DEF TInv, RowsTyped, Rows, Refund
<1>3. Advances(session, rows)
  BY <1>2 DEF Advances, Past, Active
<1> QED
  BY <1>1, <1>2, <1>3

LEMMA PubkeysOrdered == ASSUME TInv, Ordered, NEW c \in Slot, Pubkeys(c) PROVE Ordered'
<1>1. /\ calls[c] \in Calls /\ CallTyped(calls[c], session, Version) /\ calls[c].op = "pubkeys"
      /\ calls[c].at = "sent" /\ ~calls[c].ok
      /\ UNCHANGED <<bank, late, page, wallet, history>>
  BY DEF TInv, CallsTyped, CallTyped, Pubkeys, Arrived
<1>2. Advances(session, session') /\ session' = session
  BY <1>1 DEF Advances, bank
<1>3. CASE calls' = [calls EXCEPT ![c] = NoCall]
  BY <1>1, <1>2, <1>3, BankOrdered DEF NoCall, Live, RevealOrdered
<1>4. ASSUME NEW v, calls' = [calls EXCEPT ![c].op = "init", ![c].version = v] PROVE Ordered'
  <2>1. PICK m : m = [calls[c] EXCEPT !.op = "init", !.version = v]
    OBVIOUS
  <2>2. calls' = [calls EXCEPT ![c] = m]
    BY <1>4, <2>1 DEF TInv, CallsTyped
  <2>3. m.op = "init" /\ m.orphan = calls[c].orphan
    BY <1>1, <2>1 DEF Calls
  <2>4. Live(m) => Live(calls[c]) /\ CallOrdered(calls[c], page, session)
    BY <1>1, <2>3 DEF Live, Ordered, CallsOrdered
  <2>5. (Live(m) => CallOrdered(m, page, session)) /\ RevealOrdered(m, session, dropped)
    BY <1>1, <2>3, <2>4 DEF CallOrdered, RevealOrdered
  <2> QED
    BY <1>1, <1>2, <2>2, <2>3, <2>4, <2>5, BankOrdered
<1> QED
  BY <1>3, <1>4 DEF Pubkeys

\* No session is committed that was not before.
NoneSigned(rows, next) ==
    \A s \in SessionId : next[s].status = "committed" => rows[s].status = "committed"

NoneAborted(rows, next) ==
    \A s \in SessionId : next[s].status = "aborted" => rows[s].status = "aborted"

\* What an init does to the sessions, and how it is answered.
LEMMA BankInitDoes ==
  ASSUME TInv, NEW c \in Slot, BankInit(c)
  PROVE  /\ Advances(session, session') /\ NoneSigned(session, session')
         /\ NoneAborted(session, session')
         /\ \/ Refuse(c)
            \/ \E u \in SessionId : /\ Accept(c, [calls[c] EXCEPT !.sess = u])
                                    /\ session'[u].fetched = calls[c].version
<1> DEFINE Expired == {s \in SessionId : Active(s) /\ s \in late}
           Unused == {s \in SessionId : session[s].status = "none"}
           Opens(u) ==
             \E k \in [Index -> Nonce] :
                   /\ session' = [s \in SessionId |->
                         IF s = u THEN [NoRow EXCEPT !.status = "pending", !.k = k,
                                                     !.fetched = calls[c].version]
                         ELSE IF s \in Expired THEN [session[s] EXCEPT !.status = "expired"]
                         ELSE session[s]]
                   /\ Accept(c, [calls[c] EXCEPT !.sess = u])
<1>1. \/ Refund(Expired, "expired") /\ Refuse(c)
      \/ Unused # {} /\ Opens(Min(Unused))
  BY DEF BankInit
<1>2. Unused # {} => Min(Unused) \in Unused
  <2>1. Unused \in SUBSET (1 .. MaxSession) /\ MaxSession \in Nat
    BY CountAssumption DEF SessionId
  <2> HIDE DEF Unused
  <2> QED
    BY <2>1, LeastIn
<1>3. CASE Refund(Expired, "expired") /\ Refuse(c)
  <2>1. PICK S \in SUBSET SessionId : S = Expired
    OBVIOUS
  <2>2. \A s \in S : Active(s)
    BY <2>1
  <2> HIDE DEF Expired
  <2> QED
    BY <1>3, <2>1, <2>2, RefundAdvances DEF NoneSigned, NoneAborted
<1>4. CASE \E u \in SessionId : session[u].status = "none" /\ Opens(u)
  <2>1. PICK u \in SessionId, k \in [Index -> Nonce] :
                   /\ session[u].status = "none"
                   /\ session' = [s \in SessionId |->
                         IF s = u THEN [NoRow EXCEPT !.status = "pending", !.k = k,
                                                     !.fetched = calls[c].version]
                         ELSE IF s \in Expired THEN [session[s] EXCEPT !.status = "expired"]
                         ELSE session[s]]
                   /\ Accept(c, [calls[c] EXCEPT !.sess = u])
    BY <1>4
  <2>2. PICK rows : rows = session'
    OBVIOUS
  <2>3. rows[u].status = "pending" /\ rows[u].fetched = calls[c].version
    BY <2>1, <2>2 DEF NoRow
  <2>4. ASSUME NEW s \in SessionId, s # u
        PROVE  /\ \/ rows[s].status = session[s].status
                  \/ Active(s) /\ rows[s].status = "expired"
               /\ rows[s].k = session[s].k /\ rows[s].fetched = session[s].fetched
               /\ rows[s].j = session[s].j /\ rows[s].cands = session[s].cands
               /\ rows[s].lookups = session[s].lookups
    <3>1. session[s] \in Rows
      BY DEF TInv, RowsTyped
    <3>2. rows[s] = IF s \in Expired THEN [session[s] EXCEPT !.status = "expired"] ELSE session[s]
      BY <2>1, <2>2, <2>4
    <3> QED
      BY <3>1, <3>2 DEF Rows
  <2>5. Advances(session, rows) /\ NoneSigned(session, rows) /\ NoneAborted(session, rows)
    BY <2>1, <2>3, <2>4 DEF Advances, Past, Active, NoneSigned, NoneAborted
  <2> QED
    BY <2>1, <2>2, <2>3, <2>5
<1> QED
  BY <1>1, <1>2, <1>3, <1>4

LEMMA BankInitOrdered == ASSUME TInv, Ordered, NEW c \in Slot, BankInit(c) PROVE Ordered'
<1>1. /\ calls[c].op = "init" /\ calls[c].at = "sent"
      /\ UNCHANGED <<keys, late, page, wallet, history>>
      /\ calls[c] \in Calls /\ CallTyped(calls[c], session, Version) /\ ~calls[c].ok
  BY DEF BankInit, Arrived, TInv, CallsTyped, CallTyped
<1>2. Advances(session, session') /\ NoneSigned(session, session')
  BY BankInitDoes
<1>3. CASE Refuse(c)
  BY <1>1, <1>2, <1>3, RefuseOrdered DEF NoneSigned
<1>4. ASSUME NEW u \in SessionId, Accept(c, [calls[c] EXCEPT !.sess = u])
      PROVE  Ordered'
  <2>1. PICK m : m = [calls[c] EXCEPT !.sess = u, !.ok = TRUE]
    OBVIOUS
  <2>2. Answer(c, m)
    BY <1>1, <1>4, <2>1 DEF Accept, Calls
  <2>3. m \in Calls /\ m.op = calls[c].op /\ m.orphan = calls[c].orphan
    BY <1>1, <2>1 DEF Calls
  <2>4. PICK n \in Calls :
        /\ calls' = [calls EXCEPT ![c] = n]
        /\ \/ n = NoCall /\ calls[c].orphan
           \/ ~calls[c].orphan /\ n = [m EXCEPT !.at = "answered"]
    BY <2>2, <2>3, AnswerIs
  <2>5. PICK rows : rows = session'
    OBVIOUS
  <2>6. CASE n = NoCall
    BY <1>1, <1>2, <2>4, <2>5, <2>6, BankOrdered, NoCallOrdered DEF NoneSigned
  <2>7. CASE ~calls[c].orphan /\ n = [m EXCEPT !.at = "answered"]
    <3>1. n.op = "init" /\ n.orphan = calls[c].orphan
      BY <1>1, <2>1, <2>7 DEF Calls
    <3>2. Live(calls[c]) /\ CallOrdered(calls[c], page, session)
      BY <1>1, <2>7 DEF Live, Ordered, CallsOrdered
    <3>3. CallOrdered(n, page, rows) /\ RevealOrdered(n, rows, dropped)
      BY <1>1, <3>1, <3>2 DEF CallOrdered, RevealOrdered
    <3> QED
      BY <1>1, <1>2, <2>4, <2>5, <3>1, <3>2, <3>3, BankOrdered DEF NoneSigned
  <2> QED
    BY <2>4, <2>6, <2>7
<1> QED
  BY <1>3, <1>4, BankInitDoes

\* What a submit does.
LEMMA BankSubmitDoes ==
  ASSUME TInv, NEW c \in Slot, BankSubmit(c), NEW s, s = calls[c].sess
  PROVE  /\ Advances(session, session') /\ NoneSigned(session, session')
         /\ NoneAborted(session, session')
         /\ \/ Refuse(c)
            \/ \E j \in Index : /\ Accept(c, [calls[c] EXCEPT !.j = j])
                                /\ session'[s].status = "submitted" /\ session'[s].j = j
                                /\ session'[s].cands = calls[c].cands
<1>1. calls[c].op = "submit" /\ CallTyped(calls[c], session, Version)
  BY DEF TInv, CallsTyped, BankSubmit, Arrived
<1>2. s \in SessionId /\ session[s] \in Rows
  BY <1>1 DEF CallTyped, Opened, TInv, RowsTyped
<1>3. CASE session[s].status # "pending"
  BY <1>3 DEF BankSubmit, Advances, NoneSigned, NoneAborted
<1>4. CASE session[s].status = "pending" /\ s \in late
  <2>1. Refund({s}, "expired") /\ Refuse(c)
    BY <1>4 DEF BankSubmit
  <2>2. PICK S \in SUBSET SessionId : S = {s}
    BY <1>2
  <2>3. \A t \in S : Active(t)
    BY <1>4, <2>2 DEF Active
  <2> QED
    BY <2>1, <2>2, <2>3, RefundAdvances DEF NoneSigned, NoneAborted
<1>5. CASE session[s].status = "pending" /\ s \notin late
  <2>1. PICK j \in Index :
          /\ session' = [session EXCEPT ![s].status = "submitted", ![s].j = j,
                                        ![s].cands = calls[c].cands]
          /\ Accept(c, [calls[c] EXCEPT !.j = j])
    BY <1>5, PickedTyped DEF BankSubmit
  <2>2. PICK rows : rows = session'
    OBVIOUS
  <2>3. \A t \in SessionId : t # s => rows[t] = session[t]
    BY <2>1, <2>2 DEF TInv, RowsTyped
  <2>4. /\ rows[s].status = "submitted" /\ rows[s].j = j /\ rows[s].cands = calls[c].cands
        /\ rows[s].k = session[s].k /\ rows[s].fetched = session[s].fetched
    <3>1. rows[s] = [session[s] EXCEPT !.status = "submitted", !.j = j, !.cands = calls[c].cands]
      BY <1>2, <2>1, <2>2 DEF TInv, RowsTyped
    <3> QED
      BY <1>2, <3>1 DEF Rows
  <2>5. Advances(session, rows) /\ NoneSigned(session, rows) /\ NoneAborted(session, rows)
    BY <1>5, <2>3, <2>4 DEF Advances, Past, NoneSigned, NoneAborted
  <2> QED
    BY <2>1, <2>2, <2>4, <2>5
<1> QED
  BY <1>3, <1>4, <1>5

LEMMA BankSubmitOrdered == ASSUME TInv, Ordered, NEW c \in Slot, BankSubmit(c) PROVE Ordered'
<1>1. PICK s : s = calls[c].sess
  OBVIOUS
<1>2. /\ calls[c] \in Calls /\ CallTyped(calls[c], session, Version) /\ ~calls[c].ok
      /\ calls[c].op = "submit" /\ calls[c].at = "sent"
      /\ UNCHANGED <<keys, late, page, wallet, history>>
  BY DEF TInv, CallsTyped, CallTyped, BankSubmit, Arrived
<1>3. Advances(session, session') /\ NoneSigned(session, session')
  BY <1>1, BankSubmitDoes
<1>4. CASE Refuse(c)
  BY <1>2, <1>3, <1>4, RefuseOrdered DEF NoneSigned
<1>5. ASSUME NEW j \in Index, Accept(c, [calls[c] EXCEPT !.j = j]),
             session'[s].status = "submitted", session'[s].j = j,
             session'[s].cands = calls[c].cands
      PROVE  Ordered'
  <2>1. PICK rows : rows = session'
    OBVIOUS
  <2>2. PICK m : m = [calls[c] EXCEPT !.j = j, !.ok = TRUE]
    OBVIOUS
  <2>3. Answer(c, m)
    BY <1>2, <1>5, <2>2 DEF Accept, Calls
  <2>4. m \in Calls /\ m.op = calls[c].op /\ m.orphan = calls[c].orphan
    BY <1>2, <2>2 DEF Calls
  <2>5. PICK n \in Calls :
        /\ calls' = [calls EXCEPT ![c] = n]
        /\ \/ n = NoCall /\ calls[c].orphan
           \/ ~calls[c].orphan /\ n = [m EXCEPT !.at = "answered"]
    BY <2>3, <2>4, AnswerIs
  <2>6. CASE n = NoCall
    BY <1>2, <1>3, <2>5, <2>6, BankOrdered, NoCallOrdered DEF NoneSigned
  <2>7. CASE ~calls[c].orphan /\ n = [m EXCEPT !.at = "answered"]
    <3>1. /\ n.op = "submit" /\ n.orphan = calls[c].orphan /\ n.sess = s /\ n.j = j
          /\ n.cands = calls[c].cands
      BY <1>1, <1>2, <2>2, <2>7 DEF Calls
    <3>2. Live(calls[c]) /\ CallOrdered(calls[c], page, session)
      BY <1>2, <2>7 DEF Live, Ordered, CallsOrdered
    <3>3. CallOrdered(n, page, rows) /\ RevealOrdered(n, rows, dropped)
      BY <1>1, <1>2, <1>5, <2>1, <3>1, <3>2 DEF CallOrdered, RevealOrdered, Past
    <3> QED
      BY <1>2, <1>3, <2>1, <2>5, <3>1, <3>2, <3>3, BankOrdered DEF NoneSigned
  <2> QED
    BY <2>5, <2>6, <2>7
<1> QED
  BY <1>1, <1>4, <1>5, BankSubmitDoes

\* What a reveal does: it signs only what passes the check.
\* What the bank finds in a reveal with this version of the key.
PassedWith(c, s, v) ==
    VerifyAllRevealed([i \in Index |-> BankStep1(session[s].k[i])], session[s].cands,
                      calls[c].blinders, PublicKey(keys[v]))

\* The bank signs session s, looking up w, x and v.
Signs(c, s, w, x, v) ==
    /\ session[s].status = "submitted" /\ PassedWith(c, s, w)
    /\ session' = [session EXCEPT ![s].status = "committed", ![s].lookups = {w, x, v}]
    /\ Accept(c, [calls[c] EXCEPT !.s = Response(session[s], keys[x]), !.version = v])

\* The ways a reveal ends.
LEMMA RevealEnds ==
  ASSUME NEW c \in Slot, BankReveal(c), NEW s, s = calls[c].sess
  PROVE  \/ Refuse(c) /\ UNCHANGED <<session, balance>>
         \/ session[s].status = "submitted" /\ Refund({s}, "expired") /\ Refuse(c)
         \/ \E v \in MayKnow : /\ session[s].status = "submitted" /\ ~PassedWith(c, s, v)
                               /\ Abort(s, v) /\ Refuse(c)
         \/ \E w, x, v \in MayKnow : Signs(c, s, w, x, v)
BY DEF BankReveal, Passes, PassedWith, Signs

\* A session that changes alone, and into one that is not open.
LEMMA RowAdvances ==
  ASSUME TInv, NEW s \in SessionId, session[s].status = "submitted",
         NEW status \in {"aborted", "committed"}, NEW L,
         session' = [session EXCEPT ![s].status = status, ![s].lookups = L]
  PROVE  /\ Advances(session, session')
         /\ session'[s].status = status /\ session'[s].lookups = L
         /\ \A t \in SessionId : t # s => session'[t] = session[t]
<1>1. PICK rows : rows = session'
  OBVIOUS
<1>2. session[s] \in Rows
  BY DEF TInv, RowsTyped
<1>3. \A t \in SessionId : t # s => rows[t] = session[t]
  BY <1>1 DEF TInv, RowsTyped
<1>4. rows[s] = [session[s] EXCEPT !.status = status, !.lookups = L]
  BY <1>1 DEF TInv, RowsTyped
<1>5. /\ rows[s].status = status /\ rows[s].lookups = L /\ rows[s].j = session[s].j
      /\ rows[s].cands = session[s].cands
      /\ rows[s].k = session[s].k /\ rows[s].fetched = session[s].fetched
  BY <1>2, <1>4 DEF Rows
<1>6. Advances(session, rows)
  BY <1>3, <1>5 DEF Advances, Past
<1> QED
  BY <1>1, <1>3, <1>5, <1>6

LEMMA BankRevealDoes ==
  ASSUME TInv, NEW c \in Slot, BankReveal(c), NEW s, s = calls[c].sess
  PROVE  /\ Advances(session, session')
         /\ \/ Refuse(c) /\ NoneSigned(session, session')
            \/ \E w, x, v \in MayKnow :
                  /\ Signs(c, s, w, x, v)
                  /\ session'[s].status = "committed" /\ session'[s].lookups = {w, x, v}
                  /\ \A t \in SessionId : t # s => session'[t] = session[t]
<1> DEFINE Goal == /\ Advances(session, session')
                   /\ \/ Refuse(c) /\ NoneSigned(session, session')
                      \/ \E w, x, v \in MayKnow :
                            /\ Signs(c, s, w, x, v)
                            /\ session'[s].status = "committed" /\ session'[s].lookups = {w, x, v}
                            /\ \A t \in SessionId : t # s => session'[t] = session[t]
<1>1. calls[c].op = "reveal" /\ CallTyped(calls[c], session, Version)
  BY DEF TInv, CallsTyped, BankReveal, Arrived
<1>2. s \in SessionId
  BY <1>1 DEF CallTyped, Opened
<1>3. ASSUME Refuse(c), UNCHANGED <<session, balance>> PROVE Goal
  BY <1>3 DEF Advances, NoneSigned
<1>4. ASSUME session[s].status = "submitted", Refund({s}, "expired"), Refuse(c) PROVE Goal
  <2>1. PICK S \in SUBSET SessionId : S = {s}
    BY <1>2
  <2>2. \A t \in S : Active(t)
    BY <1>4, <2>1 DEF Active
  <2> QED
    BY <1>4, <2>1, <2>2, RefundAdvances DEF NoneSigned
<1>5. ASSUME session[s].status = "submitted", NEW v \in MayKnow, Abort(s, v), Refuse(c) PROVE Goal
  <2>1. session' = [session EXCEPT ![s].status = "aborted", ![s].lookups = {v}]
    BY <1>5 DEF Abort
  <2> QED
    BY <1>2, <1>5, <2>1, RowAdvances DEF NoneSigned
<1>6. ASSUME NEW w \in MayKnow, NEW x \in MayKnow, NEW v \in MayKnow, Signs(c, s, w, x, v)
      PROVE  Goal
  <2>1. PICK L : L = {w, x, v}
    OBVIOUS
  <2>2. /\ Advances(session, session')
        /\ session'[s].status = "committed" /\ session'[s].lookups = L
        /\ \A t \in SessionId : t # s => session'[t] = session[t]
    BY <1>2, <1>6, <2>1, RowAdvances DEF Signs
  <2> QED
    BY <1>6, <2>1, <2>2
<1> QED
  BY <1>3, <1>4, <1>5, <1>6, RevealEnds

LEMMA BankRevealOrdered == ASSUME TInv, Ordered, NEW c \in Slot, BankReveal(c) PROVE Ordered'
<1>1. PICK s : s = calls[c].sess
  OBVIOUS
<1>2. /\ calls[c] \in Calls /\ CallTyped(calls[c], session, Version) /\ ~calls[c].ok
      /\ calls[c].op = "reveal" /\ calls[c].at = "sent"
      /\ UNCHANGED <<keys, late, page, wallet, history>>
  BY DEF TInv, CallsTyped, CallTyped, BankReveal, Arrived
<1>3. Advances(session, session')
  BY <1>1, BankRevealDoes
<1>4. CASE Refuse(c) /\ NoneSigned(session, session')
  BY <1>2, <1>3, <1>4, RefuseOrdered DEF NoneSigned
<1>5. ASSUME NEW sj, NEW v, Accept(c, [calls[c] EXCEPT !.s = sj, !.version = v]),
             session'[s].status = "committed",
             \A t \in SessionId : t # s => session'[t] = session[t]
      PROVE  Ordered'
  <2>1. PICK rows : rows = session'
    OBVIOUS
  <2>2. PICK n : n = IF calls[c].orphan THEN NoCall
                     ELSE [calls[c] EXCEPT !.s = sj, !.version = v, !.ok = TRUE, !.at = "answered"]
    OBVIOUS
  <2>3. calls' = [calls EXCEPT ![c] = n]
    BY <1>5, <2>2 DEF Accept, Answer
  <2>4. RevealOrdered(calls[c], session, dropped)
    BY DEF Ordered, CallsOrdered
  <2>5. CASE calls[c].orphan
    <3>1. n = NoCall /\ s \in dropped
      BY <1>1, <1>2, <2>2, <2>4, <2>5 DEF RevealOrdered
    <3>2. \A t \in SessionId \ dropped : rows[t].status = "committed" => session[t].status = "committed"
      BY <1>5, <2>1, <3>1
    <3> QED
      BY <1>2, <1>3, <2>1, <2>3, <3>1, <3>2, BankOrdered, NoCallOrdered
  <2>6. CASE ~calls[c].orphan
    <3>1. /\ n.op = "reveal" /\ n.orphan = calls[c].orphan /\ n.sess = s /\ n.j = calls[c].j /\ n.ok
      BY <1>1, <1>2, <2>2, <2>6 DEF Calls
    <3>2. Live(calls[c]) /\ CallOrdered(calls[c], page, session)
      BY <1>2, <2>6 DEF Live, Ordered, CallsOrdered
    <3>3. s \in SessionId /\ Past(s, rows) /\ rows[s].j = session[s].j
      BY <1>1, <1>2, <1>3, <2>1, <2>4 DEF RevealOrdered, Advances, CallTyped, Opened
    <3>4. CallOrdered(n, page, rows) /\ RevealOrdered(n, rows, dropped)
      BY <1>1, <1>2, <2>4, <2>6, <3>1, <3>2, <3>3 DEF CallOrdered, RevealOrdered
    <3>5. \A t \in SessionId : rows[t].status = "committed" =>
            session[t].status = "committed" \/ (n.op = "reveal" /\ n.sess = t /\ n.ok)
      BY <1>5, <2>1, <3>1
    <3> QED
      BY <1>2, <1>3, <2>1, <2>3, <3>1, <3>2, <3>4, <3>5, BankOrdered
  <2> QED
    BY <2>5, <2>6
<1> QED
  <2>1. \/ Refuse(c) /\ NoneSigned(session, session')
        \/ \E w, x, v \in MayKnow :
              /\ Signs(c, s, w, x, v) /\ session'[s].status = "committed"
              /\ \A t \in SessionId : t # s => session'[t] = session[t]
    BY <1>1, BankRevealDoes
  <2> QED
    BY <1>4, <1>5, <2>1 DEF Signs

LEMMA BankCancelOrdered == ASSUME TInv, Ordered, NEW c \in Slot, BankCancel(c) PROVE Ordered'
<1>1. PICK s : s = calls[c].sess
  OBVIOUS
<1>2. /\ calls[c] \in Calls /\ CallTyped(calls[c], session, Version) /\ ~calls[c].ok
      /\ calls[c].op = "cancel" /\ calls[c].at = "sent" /\ Opened(s, session) /\ s \in SessionId
      /\ UNCHANGED <<keys, late, page, wallet, history>>
  BY <1>1 DEF TInv, CallsTyped, CallTyped, BankCancel, Arrived, Opened
<1>3. CASE ~Active(s)
  <2>1. Refuse(c) /\ session' = session
    BY <1>1, <1>3 DEF BankCancel
  <2>2. Advances(session, session')
    BY <2>1 DEF Advances
  <2> QED
    BY <1>2, <2>1, <2>2, RefuseOrdered
<1>4. CASE Active(s)
  <2>1. Refund({s}, "cancelled") /\ Accept(c, calls[c])
    BY <1>1, <1>4 DEF BankCancel
  <2>2. PICK S \in SUBSET SessionId : S = {s}
    BY <1>2
  <2>3. /\ Advances(session, session')
        /\ \A t \in SessionId : session'[t].status = "committed" => session[t].status = "committed"
        /\ session'[s].status = "cancelled"
    BY <1>4, <2>1, <2>2, RefundAdvances
  <2>4. PICK m : m = [calls[c] EXCEPT !.ok = TRUE]
    OBVIOUS
  <2>5. m \in Calls /\ m.op = calls[c].op /\ m.orphan = calls[c].orphan /\ Answer(c, m)
    BY <1>2, <2>1, <2>4 DEF Calls, Accept
  <2>6. PICK n \in Calls :
        /\ calls' = [calls EXCEPT ![c] = n]
        /\ \/ n = NoCall /\ calls[c].orphan
           \/ ~calls[c].orphan /\ n = [m EXCEPT !.at = "answered"]
    BY <2>5, AnswerIs
  <2>7. PICK rows : rows = session'
    OBVIOUS
  <2>8. CASE n = NoCall
    BY <1>2, <2>3, <2>6, <2>8, BankOrdered, NoCallOrdered
  <2>9. CASE ~calls[c].orphan /\ n = [m EXCEPT !.at = "answered"]
    <3>1. n.op = "cancel" /\ n.orphan = calls[c].orphan /\ n.sess = s
      BY <1>1, <1>2, <2>4, <2>9 DEF Calls
    <3>2. Live(calls[c]) /\ CallOrdered(calls[c], page, session)
      BY <1>2, <2>9 DEF Live, Ordered, CallsOrdered
    <3>3. CallOrdered(n, page, rows) /\ RevealOrdered(n, rows, dropped)
      BY <1>1, <1>2, <2>3, <2>7, <3>1, <3>2 DEF CallOrdered, RevealOrdered
    <3> QED
      BY <1>2, <2>3, <2>6, <2>7, <3>1, <3>2, <3>3, BankOrdered
  <2> QED
    BY <2>6, <2>8, <2>9
<1> QED
  BY <1>3, <1>4

LEMMA SweepOrdered == ASSUME TInv, Ordered, Sweep PROVE Ordered'
<1>1. PICK S \in SUBSET SessionId : S = {s \in SessionId : Active(s) /\ s \in late}
  OBVIOUS
<1>2. \A s \in S : Active(s)
  BY <1>1
<1>3. Refund(S, "expired") /\ UNCHANGED <<keys, late, page, calls, wallet, history>>
  BY <1>1 DEF Sweep
<1>4. PICK rows : rows = session' /\ Advances(session, rows)
        /\ \A s \in SessionId : rows[s].status = "committed" => session[s].status = "committed"
  BY <1>2, <1>3, RefundAdvances
<1>5. /\ PageOrdered(page, rows, wallet) /\ LeakOrdered(leaked, rows)
      /\ CallsOrdered(calls, page, rows, dropped)
  BY <1>4, StillOrdered DEF Ordered
<1>6. AllHeld(rows, dropped, wallet, page.token, calls)
  BY <1>4 DEF Ordered, AllHeld
<1> QED
  BY <1>3, <1>4, <1>5, <1>6 DEF Ordered, history

-----------------------------------------------------------------------------
(* Time, losses and answers keep the order.                                *)

LEMMA CountdownEndsOrdered == ASSUME TInv, Ordered, CountdownEnds PROVE Ordered'
<1>1. /\ page \in Pages /\ PageOrdered(page, session, wallet) /\ page.sess \in SessionId
      /\ page' = [page EXCEPT !.expired = TRUE] /\ UNCHANGED <<bank, late, calls, wallet, history>>
  BY DEF TInv, Ordered, CountdownEnds
<1>2. PICK p : p = page'
  OBVIOUS
<1>3. /\ p.sess = page.sess /\ p.step = page.step /\ p.loading = page.loading
      /\ p.token = page.token /\ p.cands = page.cands /\ p.expired
      /\ p.saved = page.saved /\ p.j = page.j
  BY <1>1, <1>2 DEF Pages
<1>4. page.sess # NoSession
  BY <1>1, CountAssumption DEF SessionId, NoSession
<1>5. PageOrdered(p, session, wallet)
  BY <1>1, <1>3, <1>4 DEF PageOrdered
<1>6. CallsOrdered(calls, p, session, dropped)
  BY <1>3, PageMoves DEF Ordered
<1> QED
  BY <1>1, <1>2, <1>3, <1>5, <1>6 DEF Ordered, bank, history

LEMMA FailOrdered == ASSUME TInv, Ordered, NEW c \in Slot, Fail(c) PROVE Ordered'
<1>1. calls[c] \in Calls /\ CallTyped(calls[c], session, Version) /\ calls = [d \in Slot |-> calls[d]]
  BY DEF TInv, CallsTyped
<1>2. UNCHANGED <<bank, late, page, wallet, leaked, overtaken>>
  BY DEF Fail
<1>3. PICK lost : lost = dropped' /\ dropped \subseteq lost
                  /\ (calls[c].op = "reveal" /\ calls[c].ok => calls[c].sess \in lost)
  BY DEF Fail
<1>4. PICK m : m = IF calls[c].orphan THEN NoCall
                   ELSE [calls[c] EXCEPT !.at = "answered", !.ok = FALSE]
  OBVIOUS
<1>5. calls' = [calls EXCEPT ![c] = m]
  BY <1>4 DEF Fail
<1>6. CallsOrdered(calls, page, session, lost)
  BY <1>3 DEF Ordered, CallsOrdered, RevealOrdered
<1>7. /\ Live(m) => /\ CallOrdered(m, page, session) /\ Live(calls[c])
                    /\ m.op = "cancel" <=> calls[c].op = "cancel"
      /\ RevealOrdered(m, session, lost)
  <2>1. CASE calls[c].orphan
    <3>1. m = NoCall
      BY <1>4, <2>1
    <3> QED
      BY <3>1, NoCallOrdered
  <2>2. CASE ~calls[c].orphan
    <3>1. /\ m.op = calls[c].op /\ m.orphan = calls[c].orphan /\ m.sess = calls[c].sess /\ ~m.ok
          /\ m.j = calls[c].j /\ m.cands = calls[c].cands
      BY <1>1, <1>4, <2>2 DEF Calls
    <3>2. CallOrdered(calls[c], page, session) => CallOrdered(m, page, session)
      BY <3>1 DEF CallOrdered
    <3>3. RevealOrdered(m, session, lost)
      BY <1>6, <3>1 DEF CallsOrdered, RevealOrdered
    <3> QED
      BY <1>6, <3>1, <3>2, <3>3 DEF CallsOrdered, Live
  <2> QED
    BY <2>1, <2>2
<1>8. PICK next : next = calls' /\ next = [calls EXCEPT ![c] = m]
  BY <1>5
<1>9. CallsOrdered(next, page, session, lost)
  BY <1>1, <1>6, <1>7, <1>8, OneCallOrdered
<1>10. AllHeld(session, lost, wallet, page.token, next)
  <2>1. ASSUME NEW s \in SessionId \ lost, session[s].status = "committed"
        PROVE  SessionHeld(s, wallet, page.token, next)
    <3>1. SessionHeld(s, wallet, page.token, calls)
      BY <1>3, <2>1 DEF Ordered, AllHeld
    <3>2. ASSUME NEW d \in Slot, calls[d].op = "reveal", calls[d].sess = s, calls[d].ok
          PROVE  next[d] = calls[d]
      <4>1. d # c
        BY <1>3, <2>1, <3>2
      <4> QED
        BY <1>1, <1>8, <4>1
    <3> QED
      BY <3>1, <3>2 DEF SessionHeld
  <2> QED
    BY <2>1 DEF AllHeld
<1> QED
  BY <1>2, <1>3, <1>8, <1>9, <1>10 DEF Ordered, bank

\* An answer the page waits for.
LEMMA LiveAnswer ==
  ASSUME TInv, Ordered, NEW c \in Slot, calls[c].op # "none", calls[c].at = "answered"
  PROVE  /\ Live(calls[c]) /\ CallOrdered(calls[c], page, session)
         /\ calls[c] \in Calls /\ CallTyped(calls[c], session, Version)
         /\ page \in Pages /\ PageOrdered(page, session, wallet) /\ PageTyped(page, session, Version)
         /\ RevealOrdered(calls[c], session, dropped)
         /\ \A d \in Slot : d # c /\ Live(calls[d]) => Beside(calls[c], calls[d], page)
<1>1. /\ calls[c] \in Calls /\ CallTyped(calls[c], session, Version)
      /\ page \in Pages /\ PageTyped(page, session, Version)
  BY DEF TInv, CallsTyped
<1>2. Live(calls[c])
  BY <1>1 DEF CallTyped, Live
<1> QED
  BY <1>1, <1>2 DEF Ordered, CallsOrdered

\* The page takes an answer, and what is held stays held.
LEMMA TakenOrdered ==
  ASSUME TInv, Ordered, NEW c \in Slot, calls' = [calls EXCEPT ![c] = NoCall],
         NEW q, q = page', PageOrdered(q, session, wallet),
         \A d \in Slot : d # c /\ Live(calls[d]) => CallOrdered(calls[d], q, session) /\ q.expired,
         \A s \in SessionId \ dropped : session[s].status = "committed" =>
            /\ page.token.sess = s => q.token.sess = s
            /\ calls[c].op = "reveal" /\ calls[c].sess = s /\ calls[c].ok => q.token.sess = s,
         UNCHANGED <<bank, wallet, leaked, dropped>>
  PROVE  Ordered'
<1>1. calls = [d \in Slot |-> calls[d]]
  BY DEF TInv, CallsTyped
<1>2. PICK next : next = calls' /\ \A d \in Slot : next[d] = IF d = c THEN NoCall ELSE calls[d]
  BY <1>1
<1>3. \A d \in Slot : Live(next[d]) => d # c /\ Live(calls[d]) /\ next[d] = calls[d]
  BY <1>2, NoCallOrdered
<1>4. \A d \in Slot : Live(next[d]) => CallOrdered(next[d], q, session)
  BY <1>3
<1>5. \A d, e \in Slot : d # e /\ Live(next[d]) /\ Live(next[e]) => Beside(next[d], next[e], q)
  BY <1>3 DEF Ordered, CallsOrdered, Beside
<1>6. \A d \in Slot : RevealOrdered(next[d], session, dropped)
  <2>1. ASSUME NEW d \in Slot PROVE RevealOrdered(next[d], session, dropped)
    <3>1. next[d] = NoCall \/ next[d] = calls[d]
      BY <1>2
    <3>2. RevealOrdered(calls[d], session, dropped)
      BY DEF Ordered, CallsOrdered
    <3> QED
      BY <3>1, <3>2, NoCallOrdered
  <2> QED
    BY <2>1
<1>7. CallsOrdered(next, q, session, dropped)
  BY <1>4, <1>5, <1>6 DEF CallsOrdered
<1>8. AllHeld(session, dropped, wallet, q.token, next)
  <2>1. ASSUME NEW s \in SessionId \ dropped, session[s].status = "committed"
        PROVE  SessionHeld(s, wallet, q.token, next)
    <3>1. SessionHeld(s, wallet, page.token, calls)
      BY <2>1 DEF Ordered, AllHeld
    <3>2. ASSUME NEW d \in Slot, calls[d].op = "reveal", calls[d].sess = s, calls[d].ok
          PROVE  SessionHeld(s, wallet, q.token, next)
      BY <1>2, <2>1, <3>2 DEF SessionHeld
    <3> QED
      BY <2>1, <3>1, <3>2 DEF SessionHeld
  <2> QED
    BY <2>1 DEF AllHeld
<1> QED
  BY <1>2, <1>7, <1>8 DEF Ordered, bank

LEMMA OnInitOrdered == ASSUME TInv, Ordered, NEW c \in Slot, OnInit(c) PROVE Ordered'
<1>1. /\ calls[c].op = "init" /\ calls[c].at = "answered" /\ calls[c].ok
      /\ UNCHANGED <<bank, late, wallet, history>>
      /\ calls' = [calls EXCEPT ![c] = NoCall]
  BY DEF OnInit, Returned, Finish
<1>2. /\ CallOrdered(calls[c], page, session) /\ CallTyped(calls[c], session, Version)
      /\ page \in Pages /\ PageOrdered(page, session, wallet)
      /\ \A d \in Slot : d # c /\ Live(calls[d]) => Beside(calls[c], calls[d], page)
  BY <1>1, LiveAnswer
<1>3. page.sess = NoSession /\ page.step = 0 /\ ~page.expired /\ page.token = NoToken /\ ~page.saved
  BY <1>1, <1>2 DEF CallOrdered, PageOrdered
<1>4. \A d \in Slot : d # c => ~Live(calls[d])
  BY <1>2, <1>3 DEF Beside
<1>5. PICK q : q = page'
  OBVIOUS
<1>6. q = [[page EXCEPT !.sess = calls[c].sess, !.version = calls[c].version,
                        !.expired = FALSE, !.step = 1] EXCEPT !.loading = FALSE]
  BY <1>5 DEF OnInit, Finish
<1>7. q.sess = calls[c].sess /\ q.step = 1 /\ q.token = page.token /\ q.saved = page.saved
  BY <1>2, <1>6 DEF Pages
<1>8. calls[c].sess \in SessionId
  BY <1>1, <1>2 DEF CallTyped, Opened
<1>9. PageOrdered(q, session, wallet)
  BY <1>3, <1>7, <1>8, CountAssumption DEF PageOrdered, SessionId, NoSession
<1> QED
  BY <1>1, <1>4, <1>5, <1>7, <1>9, TakenOrdered DEF history

\* The cancel that stays in flight beside an answer.
LEMMA CancelStays ==
  ASSUME Ordered, NEW c \in Slot, NEW d \in Slot, d # c, calls[c].op # "cancel",
         Live(calls[c]), Live(calls[d]), NEW q, q.sess = page.sess, q.expired = page.expired
  PROVE  CallOrdered(calls[d], q, session) /\ q.expired
<1>1. CallOrdered(calls[d], page, session) /\ Beside(calls[c], calls[d], page)
  BY DEF Ordered, CallsOrdered
<1> QED
  BY <1>1 DEF CallOrdered, Beside

LEMMA OnSubmitOrdered == ASSUME TInv, Ordered, NEW c \in Slot, OnSubmit(c) PROVE Ordered'
<1>1. /\ calls[c].op = "submit" /\ calls[c].at = "answered" /\ calls[c].ok
      /\ UNCHANGED <<bank, late, wallet, history>>
      /\ calls' = [calls EXCEPT ![c] = NoCall]
  BY DEF OnSubmit, Returned, Finish
<1>2. /\ CallOrdered(calls[c], page, session) /\ CallTyped(calls[c], session, Version)
      /\ page \in Pages /\ PageOrdered(page, session, wallet) /\ Live(calls[c])
  BY <1>1, LiveAnswer
<1>3. /\ page.step = 1 /\ calls[c].sess = page.sess /\ calls[c].cands = page.cands
      /\ calls[c].cands # Empty /\ Past(page.sess, session)
      /\ session[page.sess].cands = page.cands /\ session[page.sess].j = calls[c].j
  BY <1>1, <1>2 DEF CallOrdered, CallTyped
<1>4. PICK q : q = page'
  OBVIOUS
<1>5. q = [[page EXCEPT !.j = calls[c].j, !.step = 2] EXCEPT !.loading = FALSE]
  BY <1>4 DEF OnSubmit, Finish
<1>6. /\ q.sess = page.sess /\ q.step = 2 /\ q.token = page.token /\ q.saved = page.saved
      /\ q.j = calls[c].j /\ q.cands = page.cands /\ q.expired = page.expired
  BY <1>2, <1>5 DEF Pages
<1>7. PageOrdered(q, session, wallet)
  BY <1>2, <1>3, <1>6 DEF PageOrdered
<1>8. \A d \in Slot : d # c /\ Live(calls[d]) => CallOrdered(calls[d], q, session) /\ q.expired
  BY <1>1, <1>2, <1>6, CancelStays
<1> QED
  BY <1>1, <1>4, <1>6, <1>7, <1>8, TakenOrdered DEF history

LEMMA OnRevealOrdered == ASSUME TInv, Ordered, NEW c \in Slot, OnReveal(c) PROVE Ordered'
<1>1. /\ calls[c].op = "reveal" /\ calls[c].at = "answered" /\ calls[c].ok
      /\ UNCHANGED <<bank, late, wallet, history>>
      /\ calls' = [calls EXCEPT ![c] = NoCall]
  BY DEF OnReveal, Returned, Finish
<1>2. /\ CallOrdered(calls[c], page, session)
      /\ page \in Pages /\ PageOrdered(page, session, wallet) /\ PageTyped(page, session, Version)
      /\ Live(calls[c])
  BY <1>1, LiveAnswer
<1>3. /\ page.step = 2 /\ calls[c].sess = page.sess /\ page.sess # NoSession
      /\ page.blinders # Empty /\ page.token = NoToken /\ ~page.saved
  BY <1>1, <1>2 DEF CallOrdered, PageOrdered, PageTyped
<1>4. PICK token : /\ token.sess = page.sess
                   /\ Finish(c, [page EXCEPT !.token = token, !.step = 3,
                                             !.blinders = Empty, !.cands = Empty])
  BY <1>3 DEF OnReveal
<1>5. PICK q : q = page'
  OBVIOUS
<1>6. q = [[page EXCEPT !.token = token, !.step = 3, !.blinders = Empty, !.cands = Empty]
             EXCEPT !.loading = FALSE]
  BY <1>4, <1>5 DEF Finish
<1>7. /\ q.sess = page.sess /\ q.step = 3 /\ q.token = token /\ q.saved = page.saved
      /\ q.expired = page.expired
  BY <1>2, <1>6 DEF Pages
<1>8. PageOrdered(q, session, wallet)
  BY <1>3, <1>4, <1>7 DEF PageOrdered
<1>9. \A d \in Slot : d # c /\ Live(calls[d]) => CallOrdered(calls[d], q, session) /\ q.expired
  BY <1>1, <1>2, <1>7, CancelStays
<1>10. \A s \in SessionId : page.token.sess # s
  BY <1>3, CountAssumption DEF NoToken, SessionId, NoSession
<1> QED
  BY <1>1, <1>3, <1>4, <1>5, <1>7, <1>8, <1>9, <1>10, TakenOrdered DEF history

LEMMA OnCancelOrdered == ASSUME TInv, Ordered, NEW c \in Slot, OnCancel(c), ~overtaken' PROVE Ordered'
<1>1. /\ calls[c].op = "cancel" /\ calls[c].at = "answered" /\ calls[c].ok
      /\ UNCHANGED <<bank, late, wallet, leaked, dropped>>
      /\ calls' = [calls EXCEPT ![c] = NoCall]
      /\ \A d \in Slot : d # c => ~Live(calls[d])
  BY DEF OnCancel, Returned, Finish, Live, InFlight
<1>2. /\ CallOrdered(calls[c], page, session)
      /\ page \in Pages /\ PageOrdered(page, session, wallet)
  BY <1>1, LiveAnswer
<1>3. session[page.sess].status = "cancelled" /\ calls[c].sess = page.sess
  BY <1>1, <1>2 DEF CallOrdered
<1>4. PICK q : q = page'
  OBVIOUS
<1>5. q = [Mounted EXCEPT !.loading = FALSE]
  BY <1>4 DEF OnCancel, ResetSession, Finish
<1>6. PageOrdered(q, session, wallet)
  BY <1>5 DEF PageOrdered, Mounted
<1>7. ASSUME NEW s \in SessionId, session[s].status = "committed"
      PROVE  page.token.sess # s
  <2>1. page.token = NoToken \/ page.token.sess = page.sess
    BY <1>2 DEF PageOrdered, Pages
  <2>2. s # NoSession
    BY CountAssumption DEF SessionId, NoSession
  <2> QED
    BY <1>3, <1>7, <2>1, <2>2 DEF NoToken
<1> QED
  BY <1>1, <1>4, <1>6, <1>7, TakenOrdered

LEMMA OnErrorOrdered == ASSUME TInv, Ordered, NEW c \in Slot, OnError(c) PROVE Ordered'
<1>1. /\ calls[c].at = "answered" /\ ~calls[c].ok
      /\ UNCHANGED <<bank, late, wallet, history>>
      /\ calls' = [calls EXCEPT ![c] = NoCall] /\ page' = [page EXCEPT !.loading = FALSE]
  BY DEF OnError, Finish
<1>2. calls[c].op # "none"
  BY <1>1 DEF TInv, CallsTyped, CallTyped
<1>3. /\ page \in Pages /\ PageOrdered(page, session, wallet)
      /\ \A d \in Slot : d # c /\ Live(calls[d]) => Beside(calls[c], calls[d], page)
  BY <1>1, <1>2, LiveAnswer
<1>4. PICK q : q = page'
  OBVIOUS
<1>5. /\ q.sess = page.sess /\ q.step = page.step /\ q.token = page.token /\ q.saved = page.saved
      /\ q.j = page.j /\ q.cands = page.cands /\ q.expired = page.expired
      /\ q.blinders = page.blinders
  BY <1>1, <1>3, <1>4 DEF Pages
<1>6. PageOrdered(q, session, wallet)
  BY <1>3, <1>5 DEF PageOrdered
<1>7. ASSUME NEW d \in Slot, d # c, Live(calls[d])
      PROVE  CallOrdered(calls[d], q, session) /\ q.expired
  <2>1. page.expired /\ CallOrdered(calls[d], page, session)
    BY <1>3, <1>7 DEF Beside, Ordered, CallsOrdered
  <2> QED
    BY <1>5, <2>1 DEF CallOrdered
<1> QED
  BY <1>1, <1>4, <1>5, <1>6, <1>7, TakenOrdered DEF history

LEMMA NextOInv == ASSUME TInv, OInv, [Next]_vars PROVE OInv'
<1> SUFFICES ASSUME ~overtaken' PROVE Ordered'
  BY DEF OInv, InOrder
<1>1. ASSUME ~overtaken PROVE Ordered
  BY <1>1 DEF OInv, InOrder
<1>2. CASE Click
  <2>1. ~overtaken
    BY <1>2 DEF Click, ClickInit, ClickSubmit, ClickReveal, ClickCancel, SaveToWallet, Leave, history
  <2> QED
    BY <1>1, <1>2, <2>1, ClickInitOrdered, ClickSubmitOrdered, ClickRevealOrdered,
       ClickCancelOrdered, SaveToWalletOrdered, LeaveOrdered DEF Click
<1>3. CASE Rotate
  BY <1>1, <1>3 DEF Rotate, Ordered, history
<1>4. CASE Bank /\ ~Rotate
  <2>1. ~overtaken
    BY <1>4 DEF Bank, Pubkeys, BankInit, BankSubmit, BankReveal, BankCancel, Sweep, history
  <2> QED
    BY <1>1, <1>4, <2>1, PubkeysOrdered, BankInitOrdered, BankSubmitOrdered, BankRevealOrdered,
       BankCancelOrdered, SweepOrdered DEF Bank
<1>5. CASE \E s \in SessionId : TtlElapses(s)
  BY <1>1, <1>5 DEF TtlElapses, Ordered, bank, history
<1>6. CASE CountdownEnds
  <2>1. ~overtaken
    BY <1>6 DEF CountdownEnds, history
  <2> QED
    BY <1>1, <1>6, <2>1, CountdownEndsOrdered
<1>7. ASSUME NEW c \in Slot, \/ Fail(c) \/ OnInit(c) \/ OnSubmit(c) \/ OnReveal(c) \/ OnCancel(c)
                             \/ OnError(c)
      PROVE  Ordered'
  <2>1. ~overtaken
    BY <1>7 DEF Fail, OnInit, OnSubmit, OnReveal, OnCancel, OnError, history
  <2> QED
    BY <1>1, <1>7, <2>1, FailOrdered, OnInitOrdered, OnSubmitOrdered, OnRevealOrdered,
       OnCancelOrdered, OnErrorOrdered
<1>8. CASE UNCHANGED vars
  BY <1>1, <1>8 DEF vars, Ordered, bank, history
<1> QED
  BY <1>2, <1>3, <1>4, <1>5, <1>6, <1>7, <1>8 DEF Next, Elapse, Reply

-----------------------------------------------------------------------------
(* What the order gives.                                                   *)

LEMMA OInvSays ==
  ASSUME TInv, OInv
  PROVE  SignedHeld /\ BlindersKept /\ RevealsTheChoice
<1> SUFFICES ASSUME InOrder, Ordered PROVE SignedHeld /\ BlindersKept /\ RevealsTheChoice
  BY DEF OInv, SignedHeld, BlindersKept, RevealsTheChoice
<1>1. SignedHeld
  BY DEF Ordered, AllHeld, SessionHeld, SignedHeld
<1>2. BlindersKept
  <2>1. ASSUME NEW s \in SessionId, <<s, session[s].j>> \in leaked PROVE FALSE
    <3>1. session[s].j \in Index
      BY <2>1 DEF TInv
    <3> QED
      BY <2>1, <3>1 DEF Ordered, LeakOrdered
  <2> QED
    BY <2>1 DEF BlindersKept
<1>3. RevealsTheChoice
  BY DEF Ordered, PageOrdered, RevealsTheChoice
<1> QED
  BY <1>1, <1>2, <1>3

\* What the wizard's user has paid for is there to be had: as long as answers come in order,
\* only a lost answer or leaving the page loses a signature (Withdraw.jsx, handleReveal).
THEOREM SignedHeldAlways == Spec => []SignedHeld
BY InitTInv, NextTInv, InitOInv, NextOInv, OInvSays, PTL DEF Spec

\* The blinders of the candidate the bank signs stay on the page, whatever is retried,
\* cancelled, left or lost, as long as answers come in order (blinding.js).
THEOREM BlindersKeptAlways == Spec => []BlindersKept
BY InitTInv, NextTInv, InitOInv, NextOInv, OInvSays, PTL DEF Spec

\* As long as answers come in order the page is at the reveal only with a session, and with
\* the index the bank chose for that session.
THEOREM RevealsTheChoiceAlways == Spec => []RevealsTheChoice
BY InitTInv, NextTInv, InitOInv, NextOInv, OInvSays, PTL DEF Spec

\* A step away from a session.
LEMMA StepKept ==
  ASSUME TInv, OInv, [Next]_vars
  PROVE  \/ Leave \/ ~InOrder
         \/ page.sess \in {NoSession, page'.sess}
         \/ session[page.sess].status = "cancelled"
<1> SUFFICES ASSUME ~Leave, Ordered
             PROVE  \/ page.sess \in {NoSession, page'.sess}
                    \/ session[page.sess].status = "cancelled"
  BY DEF OInv
<1>1. page \in Pages
  BY DEF TInv
<1>2. CASE Click
  BY <1>1, <1>2 DEF Click, ClickInit, ClickSubmit, ClickReveal, ClickCancel, SaveToWallet, Pages
<1>3. CASE Bank
  BY <1>3 DEF Bank, Pubkeys, BankInit, BankSubmit, BankReveal, BankCancel, Sweep, Rotate
<1>4. CASE Elapse
  BY <1>1, <1>4 DEF Elapse, TtlElapses, CountdownEnds, Pages
<1>5. ASSUME NEW c \in Slot, Fail(c) \/ OnSubmit(c) \/ OnReveal(c) \/ OnError(c)
      PROVE  page'.sess = page.sess
  BY <1>1, <1>5 DEF Fail, OnSubmit, OnReveal, OnError, Finish, Pages
<1>6. ASSUME NEW c \in Slot, OnInit(c) PROVE page.sess = NoSession
  <2>1. calls[c].op = "init" /\ calls[c].at = "answered"
    BY <1>6 DEF OnInit, Returned
  <2> QED
    BY <2>1, LiveAnswer DEF CallOrdered
<1>7. ASSUME NEW c \in Slot, OnCancel(c) PROVE session[page.sess].status = "cancelled"
  <2>1. calls[c].op = "cancel" /\ calls[c].at = "answered" /\ calls[c].ok
    BY <1>7 DEF OnCancel, Returned
  <2> QED
    BY <2>1, LiveAnswer DEF CallOrdered
<1>8. CASE UNCHANGED vars
  BY <1>8 DEF vars
<1> QED
  BY <1>2, <1>3, <1>4, <1>5, <1>6, <1>7, <1>8 DEF Next, Reply

\* Only the bank's word that it has cancelled and refunded makes the page let go of a session
\* its user stays with, as long as answers come in order (handleCancel, resetSession).
THEOREM SessionKeptAlways == Spec => SessionKept
<1>1. TInv /\ OInv /\ [Next]_vars =>
        [\/ Leave \/ ~InOrder
         \/ page.sess \in {NoSession, page'.sess}
         \/ session[page.sess].status = "cancelled"]_vars
  BY StepKept
<1> QED
  BY <1>1, InitTInv, NextTInv, InitOInv, NextOInv, PTL DEF Spec, SessionKept

-----------------------------------------------------------------------------
(***************************************************************************)
(* What the page and the bank compute.  As long as answers come in order,  *)
(* what the page holds and sends is made of the nonces and the key of the  *)
(* session it is about; and if the bank checks and signs with one key, a   *)
(* revealed candidate shows that it is that key, unless there was none to  *)
(* reveal.                                                                 *)
(***************************************************************************)

\* A candidate is what the page makes of nonce i with this blinder and the key it had fetched.
Made(row, ks, cand, blinder, i) ==
    cand = CandidateOf(BankStep1(row.k[i]), cand.serial, blinder, PublicKey(ks[row.fetched]))

\* The page knows the key its session was opened with, and the blinders of its candidates.
PageHonest(p, rows, ks) ==
    p.sess # NoSession =>
      /\ p.version = rows[p.sess].fetched
      /\ p.cands # Empty =>
            \A i \in Index : Made(rows[p.sess], ks, p.cands[i], p.blinders[i], i)

\* A reveal opens every candidate but the chosen one, as the bank stored them; if it was signed
\* with the version it names and no other was looked up, that is the key the page had fetched,
\* unless there was no candidate to open.
RevealHonest(m, row, ks) ==
    /\ DOMAIN m.blinders = Index \ {row.j}
    /\ \A i \in Index \ {row.j} :
          m.blinders[i] \in Blinder /\ Made(row, ks, row.cands[i], m.blinders[i], i)
    /\ m.ok => /\ row.status = "committed"
               /\ row.lookups = {m.version} =>
                    /\ m.s = Response(row, ks[m.version])
                    /\ N > 1 => ks[m.version] = ks[row.fetched]

CallHonest(m, rows, ks) ==
    /\ m.op = "init" /\ m.ok => m.version = rows[m.sess].fetched
    /\ m.op = "reveal" => RevealHonest(m, rows[m.sess], ks)

Verified(token, ks) ==
    \/ token.s = 0 \/ token.RPrime = Infinity
    \/ VerifySig(token.RPrime, token.s, token.serial, PublicKey(ks[token.version]))

\* A token is of a signed session and names a version the bank has; if no other was looked up,
\* it verifies under it.
TokenHonest(token, rows, ks) ==
    token # NoToken =>
      /\ token.sess \in SessionId /\ rows[token.sess].status = "committed"
      /\ token.version \in 1 .. Len(ks)
      /\ (N > 1 /\ rows[token.sess].lookups = {token.version}) => Verified(token, ks)

Genuine ==
    /\ PageHonest(page, session, keys)
    /\ \A c \in Slot : CallHonest(calls[c], session, keys)
    /\ \A token \in wallet \cup {page.token} : TokenHonest(token, session, keys)

HInv == InOrder => Genuine

-----------------------------------------------------------------------------
(* What stays honest.                                                      *)

\* Versions of the key are only added.
Extends(ks, kn) == \A v \in 1 .. Len(ks) : v \in 1 .. Len(kn) /\ kn[v] = ks[v]

\* A page that has the same candidates of the same session, or none.
PageKept(p, q) ==
    q.sess # NoSession => /\ q.sess = p.sess /\ q.version = p.version
                          /\ q.cands # Empty => q.cands = p.cands /\ q.blinders = p.blinders

\* A call that says nothing new.
CallKept(m, n) ==
    \/ n.op \notin {"init", "reveal"}
    \/ n.op = "init" /\ ~n.ok
    \/ /\ n.op = m.op /\ n.sess = m.sess /\ n.blinders = m.blinders
       /\ n.ok => m.ok /\ n.s = m.s /\ n.version = m.version

LEMMA PageStays ==
  ASSUME TInv, PageHonest(page, session, keys), NEW rows, NEW ks,
         Advances(session, rows), Extends(keys, ks), NEW q, PageKept(page, q)
  PROVE  PageHonest(q, rows, ks)
<1> SUFFICES ASSUME q.sess # NoSession PROVE PageHonest(q, rows, ks)
  BY DEF PageHonest
<1>1. /\ q.sess = page.sess /\ q.version = page.version
      /\ q.cands # Empty => q.cands = page.cands /\ q.blinders = page.blinders
  BY DEF PageKept
<1>2. PICK s \in SessionId : s = page.sess /\ session[s].status # "none" /\ RowTyped(session[s], Version)
  BY <1>1 DEF TInv, PageTyped, Opened, RowsTyped
<1>3. /\ rows[s].k = session[s].k /\ rows[s].fetched = session[s].fetched
      /\ ks[session[s].fetched] = keys[session[s].fetched]
  BY <1>2 DEF Advances, Extends, RowTyped, Version
<1> QED
  BY <1>1, <1>2, <1>3 DEF PageHonest, Made

LEMMA CallStays ==
  ASSUME TInv, Ordered, NEW c \in Slot, CallHonest(calls[c], session, keys), NEW rows, NEW ks,
         Advances(session, rows), Extends(keys, ks), NEW n, CallKept(calls[c], n)
  PROVE  CallHonest(n, rows, ks)
<1> SUFFICES ASSUME n.op = "reveal" \/ (n.op = "init" /\ n.ok)
             PROVE  CallHonest(n, rows, ks)
  BY DEF CallHonest
<1>1. PICK m : m = calls[c] /\ CallTyped(m, session, Version) /\ CallHonest(m, session, keys)
               /\ RevealOrdered(m, session, dropped)
  BY DEF TInv, CallsTyped, Ordered, CallsOrdered
<1>2. /\ n.op = m.op /\ n.sess = m.sess /\ n.blinders = m.blinders
      /\ n.ok => m.ok /\ n.s = m.s /\ n.version = m.version
  BY <1>1 DEF CallKept
<1>3. PICK s \in SessionId : s = m.sess /\ session[s].status # "none" /\ RowTyped(session[s], Version)
  BY <1>1, <1>2 DEF TInv, CallTyped, Opened, RowsTyped
<1>4. /\ rows[s].k = session[s].k /\ rows[s].fetched = session[s].fetched
      /\ ks[session[s].fetched] = keys[session[s].fetched]
  BY <1>3 DEF Advances, Extends, RowTyped, Version
<1>5. CASE n.op = "init"
  BY <1>1, <1>2, <1>3, <1>4, <1>5 DEF CallHonest
<1>6. CASE n.op = "reveal"
  <2>1. rows[s].cands = session[s].cands /\ rows[s].j = session[s].j
    BY <1>1, <1>2, <1>3, <1>6 DEF RevealOrdered, Advances
  <2>2. m.ok => ks[m.version] = keys[m.version]
    BY <1>1, <1>2, <1>6 DEF CallTyped, Extends, Version
  <2>3. RevealHonest(m, session[s], keys)
    BY <1>1, <1>2, <1>3, <1>6 DEF CallHonest
  <2>4. m.ok => rows[s].status = "committed" /\ rows[s].lookups = session[s].lookups
    BY <1>3, <2>3 DEF RevealHonest, Advances
  <2>5. RevealHonest(n, rows[s], ks)
    BY <1>2, <1>4, <2>1, <2>2, <2>3, <2>4 DEF RevealHonest, Made, Response
  <2> QED
    BY <1>2, <1>3, <1>6, <2>5 DEF CallHonest
<1> QED
  BY <1>5, <1>6

LEMMA TokenStays ==
  ASSUME NEW rows, NEW next, Advances(rows, next), NEW ks, NEW kn, Extends(ks, kn),
         NEW token, TokenHonest(token, rows, ks)
  PROVE  TokenHonest(token, next, kn)
BY DEF TokenHonest, Verified, Extends, Advances

\* A step in which the page, its requests and the wallet gain nothing.
LEMMA GenuineKept ==
  ASSUME TInv, Ordered, Genuine, Advances(session, session'), Extends(keys, keys'),
         PageKept(page, page'), \A c \in Slot : CallKept(calls[c], calls'[c]),
         wallet' \cup {page'.token} \subseteq wallet \cup {page.token, NoToken}
  PROVE  Genuine'
<1>1. PICK rows, ks, q, next : rows = session' /\ ks = keys' /\ q = page' /\ next = calls'
  OBVIOUS
<1>2. PageHonest(q, rows, ks)
  BY <1>1, PageStays DEF Genuine
<1>3. \A c \in Slot : CallHonest(next[c], rows, ks)
  BY <1>1, CallStays DEF Genuine
<1>4. \A token \in wallet \cup {page.token, NoToken} : TokenHonest(token, rows, ks)
  <2>1. TokenHonest(NoToken, session, keys)
    BY DEF TokenHonest
  <2> QED
    BY <1>1, <2>1, TokenStays DEF Genuine
<1> QED
  BY <1>1, <1>2, <1>3, <1>4 DEF Genuine

LEMMA SameState ==
  ASSUME TInv
  PROVE  /\ Advances(session, session) /\ Extends(keys, keys)
         /\ PageKept(page, page)
         /\ \A m : CallKept(m, m) /\ CallKept(m, NoCall)
BY DEF Advances, Past, Extends, PageKept, CallKept, NoCall, TInv, RowsTyped, Rows

\* A step of the bank that answers one call.
LEMMA BankGenuine ==
  ASSUME TInv, Ordered, Genuine, Advances(session, session'),
         NEW c \in Slot, NEW n, calls' = [calls EXCEPT ![c] = n], CallHonest(n, session', keys),
         UNCHANGED <<keys, page, wallet>>
  PROVE  Genuine'
<1>1. PICK rows, next : rows = session' /\ next = calls' /\ Advances(session, rows)
                        /\ CallHonest(n, rows, keys)
  OBVIOUS
<1>2. \A d \in Slot : next[d] = IF d = c THEN n ELSE calls[d]
  BY <1>1 DEF TInv, CallsTyped
<1>3. PageHonest(page, rows, keys)
  BY <1>1, SameState, PageStays DEF Genuine
<1>4. \A d \in Slot : CallHonest(calls[d], rows, keys)
  BY <1>1, SameState, CallStays DEF Genuine
<1>5. \A d \in Slot : CallHonest(next[d], rows, keys)
  BY <1>1, <1>2, <1>4
<1>6. \A token \in wallet \cup {page.token} : TokenHonest(token, rows, keys)
  BY <1>1, SameState, TokenStays DEF Genuine
<1> QED
  BY <1>1, <1>3, <1>5, <1>6 DEF Genuine

\* A call that changes into one that says nothing new.
LEMMA BankQuiet ==
  ASSUME TInv, Ordered, Genuine, Advances(session, session'),
         NEW c \in Slot, NEW n, calls' = [calls EXCEPT ![c] = n], CallKept(calls[c], n),
         UNCHANGED <<keys, page, wallet>>
  PROVE  Genuine'
<1>1. PICK rows : rows = session' /\ Advances(session, rows)
  OBVIOUS
<1>2. CallHonest(n, rows, keys)
  BY <1>1, SameState, CallStays DEF Genuine
<1> QED
  BY <1>1, <1>2, BankGenuine

\* A refusal says nothing new.
LEMMA RefusedGenuine ==
  ASSUME TInv, Ordered, Genuine, Advances(session, session'), NEW c \in Slot, Refuse(c),
         UNCHANGED <<keys, page, wallet>>
  PROVE  Genuine'
<1>1. calls[c] \in Calls
  BY DEF TInv, CallsTyped
<1>2. PICK n : n = AnswerOf(calls[c], [calls[c] EXCEPT !.ok = FALSE])
  OBVIOUS
<1>3. calls' = [calls EXCEPT ![c] = n]
  BY <1>2 DEF Refuse, Answer, AnswerOf
<1>4. CallKept(calls[c], n)
  BY <1>1, <1>2 DEF AnswerOf, CallKept, Calls, NoCall
<1> QED
  BY <1>3, <1>4, BankQuiet

-----------------------------------------------------------------------------
(* The clicks.                                                             *)

LEMMA InitHInv == Init => HInv
<1> SUFFICES ASSUME Init PROVE Genuine
  BY DEF HInv
<1>1. PageHonest(page, session, keys)
  BY DEF Init, Mounted, PageHonest
<1>2. \A c \in Slot : CallHonest(calls[c], session, keys)
  BY DEF Init, NoCall, CallHonest
<1>3. \A token \in wallet \cup {page.token} : TokenHonest(token, session, keys)
  BY DEF Init, Mounted, TokenHonest
<1> QED
  BY <1>1, <1>2, <1>3 DEF Genuine

\* The page sends a request.
LEMMA SentGenuine ==
  ASSUME TInv, Ordered, Genuine, NEW m, Send(m), CallHonest(m, session, keys),
         PageHonest(page', session, keys), page'.token = page.token, UNCHANGED <<bank, wallet>>
  PROVE  Genuine'
<1>1. calls = [d \in Slot |-> calls[d]]
  BY DEF TInv, CallsTyped
<1>2. PICK c \in Slot : calls' = [calls EXCEPT ![c] = m]
  BY <1>1, Sending
<1>3. PICK next, q : next = calls' /\ q = page' /\ \A d \in Slot : next[d] = IF d = c THEN m ELSE calls[d]
  BY <1>1, <1>2
<1>4. \A d \in Slot : CallHonest(next[d], session, keys)
  BY <1>3 DEF Genuine
<1> QED
  BY <1>3, <1>4 DEF Genuine, bank

\* A request that is no reveal says nothing.
LEMMA PlainRequest ==
  ASSUME TInv, NEW op \in {"pubkeys", "submit", "cancel"}, op = "pubkeys" \/ page.sess # NoSession
  PROVE  CallHonest(Request(op), session, keys)
BY RequestTyped DEF CallHonest

LEMMA ClickInitGenuine == ASSUME TInv, Ordered, Genuine, ClickInit PROVE Genuine'
<1>1. page \in Pages /\ page' = [page EXCEPT !.loading = TRUE] /\ Send(Request("pubkeys"))
      /\ UNCHANGED <<bank, late, wallet, history>>
  BY DEF ClickInit, TInv
<1>2. PICK q : q = page' /\ PageKept(page, q) /\ q.token = page.token
  BY <1>1 DEF Pages, PageKept
<1>3. PageHonest(q, session, keys)
  BY <1>2, SameState, PageStays DEF Genuine
<1> QED
  BY <1>1, <1>2, <1>3, PlainRequest, SentGenuine

LEMMA ClickCancelGenuine == ASSUME TInv, Ordered, Genuine, ClickCancel PROVE Genuine'
<1>1. /\ page \in Pages /\ page' = [page EXCEPT !.loading = TRUE] /\ Send(Request("cancel"))
      /\ page.sess # NoSession /\ UNCHANGED <<bank, late, wallet, history>>
  BY DEF ClickCancel, TInv
<1>2. PICK q : q = page' /\ PageKept(page, q) /\ q.token = page.token
  BY <1>1 DEF Pages, PageKept
<1>3. PageHonest(q, session, keys)
  BY <1>2, SameState, PageStays DEF Genuine
<1> QED
  BY <1>1, <1>2, <1>3, PlainRequest, SentGenuine

LEMMA ClickSubmitGenuine == ASSUME TInv, Ordered, Genuine, ClickSubmit PROVE Genuine'
<1>1. PICK drawn \in Draw, serials \in [Index -> Serial] :
        LET P == PublicKey(keys[page.version])
            cands == [i \in Index |-> CandidateOf(BankStep1(session[page.sess].k[i]),
                                                  serials[i], drawn[i], P)]
        IN  /\ page' = [page EXCEPT !.loading = TRUE, !.blinders = drawn, !.cands = cands]
            /\ Send([Request("submit") EXCEPT !.cands = cands])
  BY DEF ClickSubmit
<1>2. PICK cands : cands = [i \in Index |-> CandidateOf(BankStep1(session[page.sess].k[i]),
                                   serials[i], drawn[i], PublicKey(keys[page.version]))]
  OBVIOUS
<1>3. /\ page' = [page EXCEPT !.loading = TRUE, !.blinders = drawn, !.cands = cands]
      /\ Send([Request("submit") EXCEPT !.cands = cands])
  BY <1>1, <1>2
<1>4. page \in Pages /\ page.sess # NoSession /\ UNCHANGED <<bank, late, wallet, history>>
  BY DEF TInv, ClickSubmit
<1>12. PICK q : q = page'
  OBVIOUS
<1>5. /\ q.sess = page.sess /\ q.version = page.version
      /\ q.cands = cands /\ q.blinders = drawn /\ q.token = page.token
  BY <1>3, <1>4, <1>12 DEF Pages
<1>6. page.version = session[page.sess].fetched
  BY <1>4 DEF Genuine, PageHonest
<1>7. ASSUME NEW i \in Index PROVE Made(session[page.sess], keys, cands[i], drawn[i], i)
  <2>1. cands[i] = CandidateOf(BankStep1(session[page.sess].k[i]), serials[i], drawn[i],
                               PublicKey(keys[page.version]))
    BY <1>2
  <2>2. cands[i].serial = serials[i]
    BY <2>1 DEF CandidateOf
  <2> QED
    BY <1>6, <2>1, <2>2 DEF Made
<1>8. PageHonest(q, session, keys)
  BY <1>5, <1>6, <1>7 DEF PageHonest
<1>9. PICK m : m = [Request("submit") EXCEPT !.cands = cands]
  OBVIOUS
<1>10. m.op = "submit"
  BY <1>4, <1>9, RequestTyped DEF Calls
<1>11. CallHonest(m, session, keys)
  BY <1>10 DEF CallHonest
<1> QED
  BY <1>3, <1>4, <1>5, <1>8, <1>9, <1>11, <1>12, SentGenuine

LEMMA ClickRevealGenuine == ASSUME TInv, Ordered, Genuine, ClickReveal PROVE Genuine'
<1>1. /\ page \in Pages /\ PageOrdered(page, session, wallet) /\ page.step = 2
      /\ PageTyped(page, session, Version) /\ PageHonest(page, session, keys)
      /\ page.sess # NoSession /\ UNCHANGED <<bank, late, wallet, overtaken, dropped>>
  BY DEF TInv, Ordered, Genuine, ClickReveal
<1>2. /\ page.blinders # Empty /\ page.blinders \in [Index -> Blinder] /\ page.cands # Empty
      /\ page.cands = session[page.sess].cands /\ page.j = session[page.sess].j
  BY <1>1 DEF PageOrdered, PageTyped, Pages, Full
<1>3. /\ page' = [page EXCEPT !.loading = TRUE]
      /\ Send([Request("reveal") EXCEPT !.blinders = Revealed, !.j = page.j])
  BY <1>2 DEF ClickReveal
<1>4. PICK q : q = page' /\ PageKept(page, q) /\ q.token = page.token
  BY <1>1, <1>3 DEF Pages, PageKept
<1>5. PageHonest(q, session, keys)
  BY <1>1, <1>4, SameState, PageStays
<1>6. PICK m : m = [Request("reveal") EXCEPT !.blinders = Revealed, !.j = page.j]
  OBVIOUS
<1>7. /\ m.op = "reveal" /\ ~m.ok /\ m.sess = page.sess
      /\ m.blinders = [i \in Index \ {page.j} |-> page.blinders[i]]
  BY <1>1, <1>6, RequestTyped DEF Calls, Revealed
<1>8. RevealHonest(m, session[page.sess], keys)
  BY <1>1, <1>2, <1>7 DEF RevealHonest, PageHonest
<1>9. CallHonest(m, session, keys)
  BY <1>7, <1>8 DEF CallHonest
<1> QED
  BY <1>1, <1>3, <1>4, <1>5, <1>6, <1>9, SentGenuine

LEMMA SaveToWalletGenuine == ASSUME TInv, Ordered, Genuine, SaveToWallet PROVE Genuine'
<1>1. /\ page \in Pages /\ wallet' = wallet \cup {page.token}
      /\ page' = [page EXCEPT !.saved = TRUE] /\ UNCHANGED <<bank, late, calls, history>>
  BY DEF SaveToWallet, TInv
<1>2. PICK q : q = page' /\ PageKept(page, q) /\ q.token = page.token
  BY <1>1 DEF Pages, PageKept
<1> QED
  BY <1>1, <1>2, SameState, GenuineKept DEF bank

LEMMA LeaveGenuine == ASSUME TInv, Ordered, Genuine, Leave PROVE Genuine'
<1>1. page' = Mounted /\ UNCHANGED <<bank, late, wallet, leaked, overtaken>>
  BY DEF Leave
<1>2. PICK next : next = calls'
  OBVIOUS
<1>3. ASSUME NEW c \in Slot PROVE CallKept(calls[c], next[c])
  <2>1. calls[c] \in Calls
    BY DEF TInv, CallsTyped
  <2>2. next[c] = IF calls[c].at = "sent" THEN [calls[c] EXCEPT !.orphan = TRUE] ELSE NoCall
    BY <1>2 DEF Leave
  <2> QED
    BY <2>1, <2>2 DEF CallKept, Calls, NoCall
<1>4. PageKept(page, Mounted) /\ Mounted.token = NoToken
  BY DEF PageKept, Mounted
<1> QED
  BY <1>1, <1>2, <1>3, <1>4, SameState, GenuineKept DEF bank

-----------------------------------------------------------------------------
(* Time and the answers.                                                   *)

LEMMA CountdownEndsGenuine == ASSUME TInv, Ordered, Genuine, CountdownEnds PROVE Genuine'
<1>1. page \in Pages /\ page' = [page EXCEPT !.expired = TRUE]
      /\ UNCHANGED <<bank, late, calls, wallet, history>>
  BY DEF CountdownEnds, TInv
<1>2. PICK q : q = page' /\ PageKept(page, q) /\ q.token = page.token
  BY <1>1 DEF Pages, PageKept
<1> QED
  BY <1>1, <1>2, SameState, GenuineKept DEF bank

LEMMA FailGenuine == ASSUME TInv, Ordered, Genuine, NEW c \in Slot, Fail(c) PROVE Genuine'
<1>1. PICK n : /\ n = IF calls[c].orphan THEN NoCall
                      ELSE [calls[c] EXCEPT !.at = "answered", !.ok = FALSE]
               /\ calls' = [calls EXCEPT ![c] = n]
               /\ UNCHANGED <<bank, late, page, wallet, leaked, overtaken>>
  BY DEF Fail
<1>2. CallKept(calls[c], n)
  BY <1>1 DEF TInv, CallsTyped, Calls, CallKept, NoCall
<1> QED
  BY <1>1, <1>2, SameState, BankQuiet DEF bank

\* The page takes an answer.
LEMMA TakenGenuine ==
  ASSUME TInv, Ordered, Genuine, NEW c \in Slot, calls' = [calls EXCEPT ![c] = NoCall],
         NEW q, q = page', PageHonest(q, session, keys),
         q.token \in {page.token, NoToken} \/ TokenHonest(q.token, session, keys), UNCHANGED <<bank, wallet>>
  PROVE  Genuine'
<1>1. PICK next : /\ next = calls'
                  /\ \A d \in Slot : next[d] = IF d = c THEN NoCall ELSE calls[d]
  BY DEF TInv, CallsTyped
<1>2. \A d \in Slot : CallHonest(next[d], session, keys)
  BY <1>1 DEF Genuine, CallHonest, NoCall
<1>3. \A token \in wallet \cup {q.token} : TokenHonest(token, session, keys)
  BY DEF Genuine, TokenHonest
<1> QED
  BY <1>1, <1>2, <1>3 DEF Genuine, bank

LEMMA OnInitGenuine == ASSUME TInv, Ordered, Genuine, NEW c \in Slot, OnInit(c) PROVE Genuine'
<1>1. /\ calls[c].op = "init" /\ calls[c].at = "answered" /\ calls[c].ok
      /\ UNCHANGED <<bank, late, wallet, history>>
      /\ calls' = [calls EXCEPT ![c] = NoCall]
  BY DEF OnInit, Returned, Finish
<1>2. /\ CallOrdered(calls[c], page, session) /\ PageTyped(page, session, Version)
      /\ page \in Pages /\ PageOrdered(page, session, wallet)
  BY <1>1, LiveAnswer
<1>3. page.cands = Empty
  BY <1>1, <1>2 DEF CallOrdered, PageOrdered, PageTyped
<1>4. PICK q : q = page'
  OBVIOUS
<1>5. q = [[page EXCEPT !.sess = calls[c].sess, !.version = calls[c].version,
                        !.expired = FALSE, !.step = 1] EXCEPT !.loading = FALSE]
  BY <1>4 DEF OnInit, Finish
<1>6. /\ q.sess = calls[c].sess /\ q.version = calls[c].version /\ q.cands = Empty
      /\ q.token = page.token
  BY <1>2, <1>3, <1>5 DEF Pages
<1>7. calls[c].version = session[calls[c].sess].fetched
  BY <1>1 DEF Genuine, CallHonest
<1>8. PageHonest(q, session, keys)
  BY <1>6, <1>7 DEF PageHonest
<1> QED
  BY <1>1, <1>4, <1>6, <1>8, TakenGenuine

LEMMA OnSubmitGenuine == ASSUME TInv, Ordered, Genuine, NEW c \in Slot, OnSubmit(c) PROVE Genuine'
<1>1. /\ page \in Pages /\ UNCHANGED <<bank, late, wallet, history>>
      /\ calls' = [calls EXCEPT ![c] = NoCall]
  BY DEF TInv, OnSubmit, Finish
<1>2. PICK q : q = page'
  OBVIOUS
<1>3. q = [[page EXCEPT !.j = calls[c].j, !.step = 2] EXCEPT !.loading = FALSE]
  BY <1>2 DEF OnSubmit, Finish
<1>4. PageKept(page, q) /\ q.token = page.token
  BY <1>1, <1>3 DEF PageKept, Pages
<1>5. PageHonest(q, session, keys)
  BY <1>4, SameState, PageStays DEF Genuine
<1> QED
  BY <1>1, <1>2, <1>4, <1>5, TakenGenuine

LEMMA OnCancelGenuine == ASSUME TInv, Ordered, Genuine, NEW c \in Slot, OnCancel(c) PROVE Genuine'
<1>1. UNCHANGED <<bank, late, wallet, leaked, dropped>> /\ calls' = [calls EXCEPT ![c] = NoCall]
  BY DEF OnCancel, Finish
<1>2. PICK q : q = page'
  OBVIOUS
<1>3. q = [Mounted EXCEPT !.loading = FALSE]
  BY <1>2 DEF OnCancel, ResetSession, Finish
<1>4. PageHonest(q, session, keys) /\ q.token = NoToken
  BY <1>3 DEF PageHonest, Mounted
<1> QED
  BY <1>1, <1>2, <1>4, TakenGenuine

LEMMA OnErrorGenuine == ASSUME TInv, Ordered, Genuine, NEW c \in Slot, OnError(c) PROVE Genuine'
<1>1. /\ page \in Pages /\ UNCHANGED <<bank, late, wallet, history>>
      /\ calls' = [calls EXCEPT ![c] = NoCall] /\ page' = [page EXCEPT !.loading = FALSE]
  BY DEF TInv, OnError, Finish
<1>2. PICK q : q = page' /\ PageKept(page, q) /\ q.token = page.token
  BY <1>1 DEF PageKept, Pages
<1>3. PageHonest(q, session, keys)
  BY <1>2, SameState, PageStays DEF Genuine
<1> QED
  BY <1>1, <1>2, <1>3, TakenGenuine

-----------------------------------------------------------------------------
(* Which key the bank signs with.                                          *)

\* A blinder that is not 0 tells any two keys apart.
LEMMA KeysApart ==
  ASSUME NEW a \in Int, NEW b \in ValidScalar, NEW x \in ValidScalar, NEW y \in ValidScalar, x < y
  PROVE  ModN(a + b * x) # ModN(a + b * y)
<1> SUFFICES ASSUME ModN(a + b * x) = ModN(a + b * y) PROVE FALSE
  OBVIOUS
<1>1. Q \in Nat /\ Q > 0 /\ b \in Int /\ x \in Int /\ y \in Int
  BY OrderAssumption DEF ValidScalar
<1>2. PICK d \in Int : d = y - x
  BY <1>1
<1>3. d \in 1 .. Q - 1 /\ b \in 1 .. Q - 1
  BY <1>1, <1>2 DEF ValidScalar
<1>4. PICK u \in Int, w \in Int : u = a + b * x /\ w = b * d
  BY <1>1, <1>2
<1>5. a + b * y = u + w
  <2>1. y = x + d
    BY <1>1, <1>2
  <2> QED
    BY <1>1, <1>4, <2>1
<1>6. u % Q = (u + w) % Q
  BY <1>4, <1>5 DEF ModN
<1>7. /\ u \div Q \in Int /\ u = Q * (u \div Q) + (u % Q) /\ u % Q \in 0 .. Q - 1
      /\ (u + w) \div Q \in Int /\ u + w = Q * ((u + w) \div Q) + ((u + w) % Q)
  BY <1>1, <1>4, DivMod
<1>8. PICK m \in Int, n \in Int, r \in Int : u = Q * m + r /\ u + w = Q * n + r
  BY <1>6, <1>7
<1>9. PICK e \in Int : e = n - m
  BY <1>8
<1>10. w = Q * e + 0
  BY <1>1, <1>4, <1>8, <1>9
<1>11. 0 \in 0 .. Q - 1
  BY <1>1
<1>12. w % Q = 0
  BY <1>1, <1>4, <1>9, <1>10, <1>11, RemainderUnique
<1> QED
  BY <1>3, <1>4, <1>12, PrimeAssumption

\* A commitment made with one key does not pass for one made with another.
LEMMA SameKey ==
  ASSUME NEW k \in ValidScalar, NEW x \in ValidScalar, NEW y \in ValidScalar, NEW blinder \in Blinder,
         BlindedCommitment(BankStep1(k), blinder, PublicKey(x))
           = BlindedCommitment(BankStep1(k), blinder, PublicKey(y))
  PROVE  x = y
<1>1. /\ k \in Scalar /\ x \in Scalar /\ y \in Scalar
      /\ blinder \in [alpha : Scalar, beta : Scalar] /\ blinder.beta \in ValidScalar
  BY PointOf DEF Blinder
<1>2. PICK a \in Int : a = k + blinder.alpha
  BY DEF Blinder, ValidScalar
<1>3. ModN(a + blinder.beta * x) = ModN(a + blinder.beta * y)
  BY <1>1, <1>2, CommitmentReduced
<1>4. ~(x < y) /\ ~(y < x)
  BY <1>1, <1>2, <1>3, KeysApart
<1> QED
  BY <1>4 DEF ValidScalar

\* The facts about a reveal that has arrived.
LEMMA RevealArrived ==
  ASSUME TInv, Ordered, Genuine, NEW c \in Slot, BankReveal(c), NEW s, s = calls[c].sess
  PROVE  /\ calls[c] \in Calls /\ calls[c].op = "reveal" /\ s \in SessionId
         /\ session[s].k \in [Index -> ValidScalar] /\ session[s].fetched \in 1 .. Version
         /\ session[s].j \in Index /\ session[s].cands \in [Index -> Candidates]
         /\ RevealHonest(calls[c], session[s], keys)
         /\ Version \in 1 .. Len(keys)
         /\ \A v \in 1 .. Version : keys[v] \in ValidScalar
<1>1. /\ calls[c] \in Calls /\ CallTyped(calls[c], session, Version)
      /\ calls[c].op = "reveal" /\ CallHonest(calls[c], session, keys)
      /\ RevealOrdered(calls[c], session, dropped)
  BY DEF TInv, CallsTyped, Ordered, CallsOrdered, Genuine, BankReveal, Arrived
<1>2. s \in SessionId /\ session[s].status # "none"
  BY <1>1 DEF CallTyped, Opened
<1>3. session[s] \in Rows /\ RowTyped(session[s], Version)
  BY <1>2 DEF TInv, RowsTyped
<1>4. session[s].j \in Index
  BY <1>1 DEF RevealOrdered
<1>5. session[s].cands \in [Index -> Candidates]
  BY <1>3, <1>4 DEF RowTyped, Rows, Full
<1>6. /\ Version \in 1 .. Len(keys)
      /\ \A v \in 1 .. Version : keys[v] \in ValidScalar
  BY CountAssumption DEF TInv, KeysTyped, Version
<1> QED
  BY <1>1, <1>2, <1>3, <1>4, <1>5, <1>6 DEF CallHonest, RowTyped

\* If there is anything to reveal, it passes only with the key the page had fetched.
LEMMA PassesAsFetched ==
  ASSUME TInv, Ordered, Genuine, NEW c \in Slot, BankReveal(c), NEW s, s = calls[c].sess, N > 1,
         NEW v \in MayKnow, PassedWith(c, s, v)
  PROVE  keys[v] = keys[session[s].fetched]
<1>1. /\ s \in SessionId /\ session[s].k \in [Index -> ValidScalar]
      /\ session[s].fetched \in 1 .. Version /\ session[s].j \in Index
      /\ RevealHonest(calls[c], session[s], keys)
      /\ Version \in 1 .. Len(keys) /\ \A w \in 1 .. Version : keys[w] \in ValidScalar
  BY RevealArrived
<1>2. PICK i \in Index \ {session[s].j} : TRUE
  <2>1. 0 \in Index /\ 1 \in Index
    BY CountAssumption DEF Index
  <2> QED
    BY <2>1
<1>3. PICK row, blinder : row = session[s] /\ blinder = calls[c].blinders[i]
  OBVIOUS
<1>4. /\ blinder \in Blinder /\ i \in DOMAIN calls[c].blinders
      /\ Made(row, keys, row.cands[i], blinder, i)
  BY <1>1, <1>2, <1>3 DEF RevealHonest
<1>5. VerifyRevealed(BankStep1(row.k[i]), row.cands[i], blinder, PublicKey(keys[v]))
  BY <1>2, <1>3, <1>4 DEF PassedWith, VerifyAllRevealed
<1>6. BlindedCommitment(BankStep1(row.k[i]), blinder, PublicKey(keys[v])) = row.cands[i].RPrime
  BY <1>5 DEF VerifyRevealed
<1>7. BlindedCommitment(BankStep1(row.k[i]), blinder, PublicKey(keys[row.fetched])) = row.cands[i].RPrime
  BY <1>4 DEF Made, CandidateOf
<1>8. row.k[i] \in ValidScalar /\ keys[v] \in ValidScalar /\ keys[row.fetched] \in ValidScalar
  BY <1>1, <1>2, <1>3 DEF MayKnow
<1> QED
  BY <1>3, <1>4, <1>6, <1>7, <1>8, SameKey

-----------------------------------------------------------------------------
(* The bank.                                                               *)

LEMMA PubkeysGenuine == ASSUME TInv, Ordered, Genuine, NEW c \in Slot, Pubkeys(c) PROVE Genuine'
<1>1. /\ calls[c] \in Calls /\ ~calls[c].ok /\ UNCHANGED <<bank, late, page, wallet, history>>
  BY DEF TInv, CallsTyped, CallTyped, Pubkeys, Arrived
<1>2. CASE calls' = [calls EXCEPT ![c] = NoCall]
  BY <1>1, <1>2, SameState, BankQuiet DEF bank
<1>3. ASSUME NEW v, calls' = [calls EXCEPT ![c].op = "init", ![c].version = v] PROVE Genuine'
  <2>1. PICK n : n = [calls[c] EXCEPT !.op = "init", !.version = v]
    OBVIOUS
  <2>2. calls' = [calls EXCEPT ![c] = n]
    BY <1>3, <2>1 DEF TInv, CallsTyped
  <2>3. CallKept(calls[c], n)
    BY <1>1, <2>1 DEF CallKept, Calls
  <2> QED
    BY <1>1, <2>2, <2>3, SameState, BankQuiet DEF bank
<1> QED
  BY <1>2, <1>3 DEF Pubkeys

LEMMA BankInitGenuine == ASSUME TInv, Ordered, Genuine, NEW c \in Slot, BankInit(c) PROVE Genuine'
<1>1. /\ calls[c] \in Calls /\ calls[c].op = "init" /\ UNCHANGED <<keys, late, page, wallet, history>>
  BY DEF TInv, CallsTyped, BankInit, Arrived
<1>2. Advances(session, session')
  BY BankInitDoes
<1>3. CASE Refuse(c)
  BY <1>1, <1>2, <1>3, RefusedGenuine
<1>4. ASSUME NEW u \in SessionId, Accept(c, [calls[c] EXCEPT !.sess = u]),
             session'[u].fetched = calls[c].version
      PROVE  Genuine'
  <2>1. PICK n : n = IF calls[c].orphan THEN NoCall
                     ELSE [calls[c] EXCEPT !.sess = u, !.ok = TRUE, !.at = "answered"]
    OBVIOUS
  <2>2. calls' = [calls EXCEPT ![c] = n]
    BY <1>4, <2>1 DEF Accept, Answer
  <2>3. PICK rows : rows = session'
    OBVIOUS
  <2>4. n.op = "init" /\ n.ok => n.sess = u /\ n.version = calls[c].version
    BY <1>1, <2>1 DEF Calls, NoCall
  <2>5. n.op # "reveal"
    BY <1>1, <2>1 DEF Calls, NoCall
  <2>6. CallHonest(n, rows, keys)
    BY <1>4, <2>3, <2>4, <2>5 DEF CallHonest
  <2> QED
    BY <1>1, <1>2, <2>2, <2>3, <2>6, BankGenuine
<1> QED
  BY <1>3, <1>4, BankInitDoes

LEMMA BankSubmitGenuine == ASSUME TInv, Ordered, Genuine, NEW c \in Slot, BankSubmit(c) PROVE Genuine'
<1>1. /\ calls[c] \in Calls /\ calls[c].op = "submit"
      /\ UNCHANGED <<keys, late, page, wallet, history>>
  BY DEF TInv, CallsTyped, BankSubmit, Arrived
<1>2. Advances(session, session')
  BY BankSubmitDoes
<1>3. CASE Refuse(c)
  BY <1>1, <1>2, <1>3, RefusedGenuine
<1>4. ASSUME NEW j \in Index, Accept(c, [calls[c] EXCEPT !.j = j]) PROVE Genuine'
  <2>1. PICK n : n = IF calls[c].orphan THEN NoCall
                     ELSE [calls[c] EXCEPT !.j = j, !.ok = TRUE, !.at = "answered"]
    OBVIOUS
  <2>2. calls' = [calls EXCEPT ![c] = n]
    BY <1>4, <2>1 DEF Accept, Answer
  <2>3. n.op \notin {"init", "reveal"}
    BY <1>1, <2>1 DEF Calls, NoCall
  <2> QED
    BY <1>1, <1>2, <2>2, <2>3, BankQuiet DEF CallKept
<1> QED
  BY <1>3, <1>4, BankSubmitDoes

LEMMA BankRevealGenuine == ASSUME TInv, Ordered, Genuine, NEW c \in Slot, BankReveal(c) PROVE Genuine'
<1>1. PICK s : s = calls[c].sess
  OBVIOUS
<1>2. /\ calls[c] \in Calls /\ calls[c].op = "reveal" /\ s \in SessionId
      /\ RevealHonest(calls[c], session[s], keys)
      /\ session[s].fetched \in 1 .. Version
      /\ UNCHANGED <<keys, late, page, wallet, history>>
  BY <1>1, RevealArrived DEF BankReveal
<1>3. Advances(session, session')
  BY <1>1, BankRevealDoes
<1>4. CASE Refuse(c)
  BY <1>2, <1>3, <1>4, RefusedGenuine
<1>5. ASSUME NEW w \in MayKnow, NEW x \in MayKnow, NEW v \in MayKnow, Signs(c, s, w, x, v),
             session'[s].status = "committed", session'[s].lookups = {w, x, v}
      PROVE  Genuine'
  <2> DEFINE sj == Response(session[s], keys[x])
  <2>1. PICK n : n = IF calls[c].orphan THEN NoCall
                     ELSE [calls[c] EXCEPT !.s = sj, !.version = v, !.ok = TRUE, !.at = "answered"]
    OBVIOUS
  <2>2. calls' = [calls EXCEPT ![c] = n]
    BY <1>5, <2>1 DEF Signs, Accept, Answer
  <2>3. PICK rows : rows = session' /\ Advances(session, rows)
    BY <1>3
  <2>4. CASE calls[c].orphan
    <3>1. CallKept(calls[c], n)
      BY <2>1, <2>4 DEF CallKept, NoCall
    <3> QED
      BY <1>2, <1>3, <2>2, <3>1, BankQuiet
  <2>5. CASE ~calls[c].orphan
    <3>1. /\ n.op = "reveal" /\ n.sess = s /\ n.blinders = calls[c].blinders
          /\ n.s = sj /\ n.version = v
      BY <1>1, <1>2, <2>1, <2>5 DEF Calls
    <3>2. N > 1 => keys[w] = keys[session[s].fetched]
      BY <1>1, <1>5, PassesAsFetched DEF Signs
    <3>3. /\ rows[s].k = session[s].k /\ rows[s].fetched = session[s].fetched
          /\ rows[s].j = session[s].j /\ rows[s].cands = session[s].cands
          /\ rows[s].status = "committed" /\ rows[s].lookups = {w, x, v}
      <4>1. RevealOrdered(calls[c], session, dropped) /\ CallTyped(calls[c], session, Version)
        BY DEF Ordered, CallsOrdered, TInv, CallsTyped
      <4> QED
        BY <1>1, <1>2, <1>5, <2>3, <4>1 DEF RevealOrdered, CallTyped, Opened, Advances
    <3>4. rows[s].lookups = {v} => w = v /\ x = v
      BY <3>3
    <3>5. rows[s].lookups = {n.version} =>
             n.s = Response(rows[s], keys[n.version]) /\ (N > 1 => keys[n.version] = keys[rows[s].fetched])
      BY <3>1, <3>2, <3>3, <3>4 DEF Response
    <3>6. RevealHonest(n, rows[s], keys)
      BY <1>2, <3>1, <3>3, <3>5 DEF RevealHonest, Made
    <3>7. CallHonest(n, rows, keys)
      BY <3>1, <3>6 DEF CallHonest
    <3> QED
      BY <1>2, <1>3, <2>2, <2>3, <3>7, BankGenuine
  <2> QED
    BY <2>4, <2>5
<1> QED
  BY <1>1, <1>4, <1>5, BankRevealDoes

LEMMA BankCancelGenuine == ASSUME TInv, Ordered, Genuine, NEW c \in Slot, BankCancel(c) PROVE Genuine'
<1>1. PICK s : s = calls[c].sess
  OBVIOUS
<1>2. /\ calls[c] \in Calls /\ calls[c].op = "cancel" /\ s \in SessionId
      /\ UNCHANGED <<keys, late, page, wallet, history>>
  BY <1>1 DEF TInv, CallsTyped, CallTyped, Opened, BankCancel, Arrived
<1>3. CASE ~Active(s)
  BY <1>1, <1>2, <1>3, SameState, RefusedGenuine DEF BankCancel
<1>4. CASE Active(s)
  <2>1. Refund({s}, "cancelled") /\ Accept(c, calls[c])
    BY <1>1, <1>4 DEF BankCancel
  <2>2. PICK S \in SUBSET SessionId : S = {s}
    BY <1>2
  <2>3. Advances(session, session')
    BY <1>4, <2>1, <2>2, RefundAdvances
  <2>4. PICK n : n = IF calls[c].orphan THEN NoCall
                     ELSE [calls[c] EXCEPT !.ok = TRUE, !.at = "answered"]
    OBVIOUS
  <2>5. calls' = [calls EXCEPT ![c] = n]
    BY <2>1, <2>4 DEF Accept, Answer
  <2>6. n.op \notin {"init", "reveal"}
    BY <1>2, <2>4 DEF Calls, NoCall
  <2> QED
    BY <1>2, <2>3, <2>5, <2>6, BankQuiet DEF CallKept
<1> QED
  BY <1>3, <1>4

LEMMA SweepGenuine == ASSUME TInv, Ordered, Genuine, Sweep PROVE Genuine'
<1>1. PICK S \in SUBSET SessionId : S = {s \in SessionId : Active(s) /\ s \in late}
  OBVIOUS
<1>2. Refund(S, "expired") /\ UNCHANGED <<keys, late, page, calls, wallet, history>>
  BY <1>1 DEF Sweep
<1>3. Advances(session, session')
  BY <1>1, <1>2, RefundAdvances
<1> QED
  BY <1>2, <1>3, SameState, GenuineKept

LEMMA RotateGenuine == ASSUME TInv, Ordered, Genuine, Rotate PROVE Genuine'
<1>1. PICK x \in ValidScalar : keys' = Append(keys, x)
  BY DEF Rotate
<1>2. UNCHANGED <<session, balance, late, page, calls, wallet, history>>
  BY DEF Rotate
<1>3. Extends(keys, keys')
  <2>1. keys \in Seq(ValidScalar)
    BY DEF TInv, KeysTyped
  <2> QED
    BY <1>1, <2>1 DEF Extends
<1> QED
  BY <1>2, <1>3, SameState, GenuineKept

-----------------------------------------------------------------------------
(* The token the page makes of a signature.                                *)

\* Unblinded with the blinder it was made with, a signature of the key the page had fetched
\* verifies.
LEMMA TokenMade ==
  ASSUME NEW row, NEW ks, NEW cand \in Candidates, NEW blinder \in Blinder, NEW i \in Index,
         row.k[i] \in ValidScalar, ks[row.fetched] \in ValidScalar,
         Made(row, ks, cand, blinder, i),
         NEW token, token.s \in Scalar,
         token.s = UnblindResponse(BankStep3(row.k[i], cand.e, ks[row.fetched]), blinder.alpha),
         token.RPrime = cand.RPrime, token.serial = cand.serial,
         ks[token.version] = ks[row.fetched]
  PROVE  Verified(token, ks)
<1> SUFFICES ASSUME token.s # 0, token.RPrime # Infinity PROVE Verified(token, ks)
  BY DEF Verified
<1>1. PICK k \in ValidScalar, x \in ValidScalar : k = row.k[i] /\ x = ks[row.fetched]
  OBVIOUS
<1>2. k \in Scalar /\ x \in Scalar /\ blinder \in [alpha : Scalar, beta : Scalar]
      /\ cand.serial \in Serial
  BY PointOf DEF Blinder, Candidates
<1>3. cand = CandidateOf(BankStep1(k), cand.serial, blinder, PublicKey(x))
  BY <1>1 DEF Made
<1>4. PICK honest : honest = CandidateOf(BankStep1(k), cand.serial, blinder, PublicKey(x))
  OBVIOUS
<1>5. Mult(UnblindResponse(BankStep3(k, honest.e, x), blinder.alpha), G)
        = Add(honest.RPrime, Mult(HashToScalar(honest.RPrime, cand.serial, PublicKey(x)), PublicKey(x)))
  BY <1>2, <1>4, UnblindedVerifies
<1>6. honest = cand
  BY <1>3, <1>4
<1>7. Mult(token.s, G) = Add(token.RPrime, Mult(HashToScalar(token.RPrime, token.serial, PublicKey(x)),
                                                PublicKey(x)))
  BY <1>1, <1>5, <1>6
<1>8. token.s \in ValidScalar
  BY DEF Scalar, ValidScalar
<1>9. Decodes(token.RPrime) /\ Decodes(PublicKey(x))
  BY PointOf DEF Decodes
<1> QED
  BY <1>1, <1>7, <1>8, <1>9 DEF Verified, VerifySig

LEMMA OnRevealGenuine == ASSUME TInv, Ordered, Genuine, NEW c \in Slot, OnReveal(c) PROVE Genuine'
<1>1. /\ calls[c].op = "reveal" /\ calls[c].at = "answered" /\ calls[c].ok
      /\ UNCHANGED <<bank, late, wallet, history>>
      /\ calls' = [calls EXCEPT ![c] = NoCall]
  BY DEF OnReveal, Returned, Finish
<1>2. /\ CallOrdered(calls[c], page, session) /\ calls[c] \in Calls
      /\ CallTyped(calls[c], session, Version) /\ RevealOrdered(calls[c], session, dropped)
      /\ page \in Pages /\ PageOrdered(page, session, wallet) /\ PageTyped(page, session, Version)
  BY <1>1, LiveAnswer
<1>15. /\ calls[c].sess = page.sess /\ session[page.sess].j = calls[c].j
       /\ session[page.sess].j \in Index
  BY <1>1, <1>2 DEF CallOrdered, RevealOrdered
<1>3. PICK row, j : row = session[page.sess] /\ j = calls[c].j /\ row.j = j /\ j \in Index
  BY <1>15
<1>4. /\ page.sess \in SessionId /\ calls[c].sess = page.sess
      /\ page.blinders # Empty /\ page.cands # Empty /\ page.cands = row.cands
      /\ calls[c].version \in 1 .. Version
  BY <1>1, <1>2, <1>3 DEF CallOrdered, PageOrdered, PageTyped, CallTyped, Opened
<1>5. PICK cand \in Candidates, blinder \in Blinder : cand = page.cands[j] /\ blinder = page.blinders[j]
  BY <1>2, <1>3, <1>4 DEF Pages, Full
<1>6. PICK token : /\ token = [sess |-> calls[c].sess, serial |-> cand.serial, RPrime |-> cand.RPrime,
                               s |-> UnblindResponse(calls[c].s, blinder.alpha),
                               version |-> calls[c].version]
                   /\ Finish(c, [page EXCEPT !.token = token, !.step = 3,
                                             !.blinders = Empty, !.cands = Empty])
  BY <1>3, <1>4, <1>5 DEF OnReveal
<1>7. PICK q : q = page'
  OBVIOUS
<1>8. q = [[page EXCEPT !.token = token, !.step = 3, !.blinders = Empty, !.cands = Empty]
             EXCEPT !.loading = FALSE]
  BY <1>6, <1>7 DEF Finish
<1>9. PageKept(page, q) /\ q.token = token
  BY <1>2, <1>8 DEF PageKept, Pages
<1>10. PageHonest(q, session, keys)
  BY <1>9, SameState, PageStays DEF Genuine
<1>11. RevealHonest(calls[c], row, keys)
  BY <1>1, <1>3, <1>4 DEF Genuine, CallHonest
<1>12. /\ token.version \in 1 .. Len(keys) /\ token.sess = page.sess
       /\ session[page.sess].status = "committed"
  BY <1>1, <1>3, <1>4, <1>6, <1>11 DEF Version, RevealHonest
<1>13. ASSUME N > 1, row.lookups = {token.version} PROVE Verified(token, keys)
  <2>1. RowTyped(row, Version) /\ row.status # "none"
    BY <1>2, <1>3, <1>4 DEF TInv, RowsTyped, PageTyped, Opened, NoSession, SessionId
  <2>2. row.k[j] \in ValidScalar /\ keys[row.fetched] \in ValidScalar
    BY <1>3, <2>1 DEF RowTyped, TInv, KeysTyped, Version
  <2>3. Made(row, keys, cand, blinder, j)
    BY <1>3, <1>4, <1>5 DEF Genuine, PageHonest, NoSession, SessionId
  <2>4. /\ calls[c].s = BankStep3(row.k[j], cand.e, keys[calls[c].version])
        /\ keys[calls[c].version] = keys[row.fetched]
    BY <1>1, <1>3, <1>4, <1>5, <1>6, <1>11, <1>13 DEF RevealHonest, Response
  <2>5. token.s \in Scalar
    <3>1. PICK a \in Int : a = calls[c].s + blinder.alpha
      BY <1>2 DEF Calls, Blinder, Scalar, ValidScalar
    <3> QED
      BY <1>6, <3>1, ModNTyped DEF UnblindResponse
  <2> QED
    BY <1>3, <1>4, <1>5, <1>6, <2>2, <2>3, <2>4, <2>5, TokenMade
<1>14. TokenHonest(token, session, keys)
  BY <1>3, <1>4, <1>12, <1>13 DEF TokenHonest
<1> QED
  BY <1>1, <1>7, <1>9, <1>10, <1>14, TakenGenuine

LEMMA NextHInv == ASSUME TInv, OInv, HInv, [Next]_vars PROVE HInv'
<1> SUFFICES ASSUME ~overtaken' PROVE Genuine'
  BY DEF HInv, InOrder
<1>1. ASSUME ~overtaken PROVE Ordered /\ Genuine
  BY <1>1 DEF OInv, HInv, InOrder
<1>2. CASE Click
  <2>1. ~overtaken
    BY <1>2 DEF Click, ClickInit, ClickSubmit, ClickReveal, ClickCancel, SaveToWallet, Leave, history
  <2> QED
    BY <1>1, <1>2, <2>1, ClickInitGenuine, ClickSubmitGenuine, ClickRevealGenuine,
       ClickCancelGenuine, SaveToWalletGenuine, LeaveGenuine DEF Click
<1>3. CASE Bank
  <2>1. ~overtaken
    BY <1>3 DEF Bank, Pubkeys, BankInit, BankSubmit, BankReveal, BankCancel, Sweep, Rotate, history
  <2> QED
    BY <1>1, <1>3, <2>1, PubkeysGenuine, BankInitGenuine, BankSubmitGenuine, BankRevealGenuine,
       BankCancelGenuine, SweepGenuine, RotateGenuine DEF Bank
<1>4. CASE \E s \in SessionId : TtlElapses(s)
  BY <1>1, <1>4 DEF TtlElapses, Genuine, bank, history
<1>5. CASE CountdownEnds
  <2>1. ~overtaken
    BY <1>5 DEF CountdownEnds, history
  <2> QED
    BY <1>1, <1>5, <2>1, CountdownEndsGenuine
<1>6. ASSUME NEW c \in Slot, \/ Fail(c) \/ OnInit(c) \/ OnSubmit(c) \/ OnReveal(c) \/ OnCancel(c)
                             \/ OnError(c)
      PROVE  Genuine'
  <2>1. ~overtaken
    BY <1>6 DEF Fail, OnInit, OnSubmit, OnReveal, OnCancel, OnError, history
  <2> QED
    BY <1>1, <1>6, <2>1, FailGenuine, OnInitGenuine, OnSubmitGenuine, OnRevealGenuine,
       OnCancelGenuine, OnErrorGenuine
<1>7. CASE UNCHANGED vars
  BY <1>1, <1>7 DEF vars, Genuine, bank, history
<1> QED
  BY <1>2, <1>3, <1>4, <1>5, <1>6, <1>7 DEF Next, Elapse, Reply

LEMMA HInvSays == ASSUME HInv, N > 1 PROVE TokenVerifies
BY DEF HInv, Genuine, TokenHonest, Verified, TokenVerifies

\* What the bank signs of the page's candidates verifies once the page has unblinded it, under
\* the version of the key it names, whatever rotations, stale caches, retries and losses came in
\* between: as long as answers come in order, revealAndSign's three lookups return one version,
\* and the bank has more than one candidate to open (CUT_AND_CHOOSE_N; with one, nothing shows
\* that the page had been served another version).
THEOREM TokenVerifiesAlways == N > 1 => (Spec => []TokenVerifies)
<1> SUFFICES ASSUME N > 1 PROVE Spec => []TokenVerifies
  OBVIOUS
<1>1. HInv => TokenVerifies
  BY HInvSays
<1> QED
  BY <1>1, InitTInv, NextTInv, InitOInv, NextOInv, InitHInv, NextHInv, PTL DEF Spec

-----------------------------------------------------------------------------
(* Whom the bank turns away.                                               *)

\* A reveal of the page passes with the version the page fetched, if its points decode.
LEMMA RevealPasses ==
  ASSUME TInv, Ordered, Genuine, NEW c \in Slot, BankReveal(c), NEW s, s = calls[c].sess,
         \A i \in Index : session[s].cands[i].RPrime # Infinity
  PROVE  PassedWith(c, s, session[s].fetched)
<1>1. /\ session[s].k \in [Index -> ValidScalar]
      /\ RevealHonest(calls[c], session[s], keys) /\ session[s].fetched \in 1 .. Version
      /\ \A v \in 1 .. Version : keys[v] \in ValidScalar
  BY RevealArrived
<1>2. PICK x \in ValidScalar : x = keys[session[s].fetched]
  BY <1>1
<1>3. ASSUME NEW i \in DOMAIN calls[c].blinders
      PROVE  VerifyRevealed(BankStep1(session[s].k[i]), session[s].cands[i], calls[c].blinders[i],
                            PublicKey(x))
  <2>1. i \in Index \ {session[s].j}
    BY <1>1, <1>3 DEF RevealHonest
  <2>2. PICK row, cand, blinder, R, P :
           /\ row = session[s] /\ cand = session[s].cands[i] /\ blinder = calls[c].blinders[i]
           /\ R = BankStep1(session[s].k[i]) /\ P = PublicKey(x)
    OBVIOUS
  <2>3. cand = CandidateOf(R, cand.serial, blinder, P)
    BY <1>1, <1>2, <2>1, <2>2 DEF RevealHonest, Made
  <2>4. PICK serial : serial = cand.serial
    OBVIOUS
  <2>5. cand.RPrime = BlindedCommitment(R, blinder, P)
    BY <2>3 DEF CandidateOf
  <2>6. Decodes(R) /\ Decodes(P)
    BY <1>1, <2>1, <2>2, PointOf
  <2>7. Decodes(BlindedCommitment(R, blinder, P))
    BY <2>1, <2>2, <2>5 DEF Decodes
  <2>8. VerifyRevealed(R, CandidateOf(R, serial, blinder, P), blinder, P)
    BY <2>6, <2>7, HonestAccepted
  <2> QED
    BY <2>2, <2>3, <2>4, <2>8
<1>4. DOMAIN calls[c].blinders \subseteq Index
  BY <1>1 DEF RevealHonest
<1> QED
  BY <1>2, <1>3, <1>4 DEF PassedWith, VerifyAllRevealed

\* Only a reveal that fails the check aborts a session.
LEMMA WhoAborts ==
  ASSUME TInv, [Next]_vars, NEW s \in SessionId, session[s].status # "aborted",
         session'[s].status = "aborted"
  PROVE  \E c \in Slot, v \in MayKnow :
           /\ BankReveal(c) /\ s = calls[c].sess
           /\ ~PassedWith(c, s, v) /\ session'[s].lookups = {v}
<1>1. session[s] \in Rows
  BY DEF TInv, RowsTyped
<1>2. ASSUME NEW S, Refund(S, "expired") \/ Refund(S, "cancelled") PROVE FALSE
  BY <1>1, <1>2 DEF Refund, Rows
<1>3. ASSUME NEW c \in Slot, BankInit(c) PROVE FALSE
  BY <1>3, BankInitDoes DEF NoneAborted
<1>4. ASSUME NEW c \in Slot, BankSubmit(c) PROVE FALSE
  BY <1>4, BankSubmitDoes DEF NoneAborted
<1>5. ASSUME NEW c \in Slot, BankCancel(c) PROVE FALSE
  BY <1>2, <1>5 DEF BankCancel
<1>6. ~Sweep
  BY <1>2 DEF Sweep
<1>7. UNCHANGED session => FALSE
  OBVIOUS
<1>8. PICK c \in Slot : BankReveal(c)
  <2>1. Bank
    BY <1>7 DEF Next, Click, ClickInit, ClickSubmit, ClickReveal, ClickCancel, SaveToWallet, Leave,
       Elapse, TtlElapses, CountdownEnds, Reply, Fail, OnInit, OnSubmit, OnReveal, OnCancel, OnError,
       vars, bank
  <2> QED
    BY <1>3, <1>4, <1>5, <1>6, <1>7, <2>1 DEF Bank, Pubkeys, Rotate, bank
<1>9. PICK t : t = calls[c].sess
  OBVIOUS
<1>10. t \in SessionId
  BY <1>8, <1>9 DEF TInv, CallsTyped, CallTyped, BankReveal, Arrived, Opened
<1>11. ASSUME NEW w \in MayKnow, NEW x \in MayKnow, NEW v \in MayKnow, Signs(c, t, w, x, v)
       PROVE  FALSE
  BY <1>10, <1>11, RowAdvances DEF Signs
<1>12. PICK v \in MayKnow : session[t].status = "submitted" /\ ~PassedWith(c, t, v) /\ Abort(t, v)
  BY <1>2, <1>7, <1>8, <1>9, <1>11, RevealEnds
<1>13. /\ session'[t].lookups = {v}
       /\ \A u \in SessionId : u # t => session'[u] = session[u]
  BY <1>10, <1>12, RowAdvances DEF Abort
<1> QED
  BY <1>8, <1>9, <1>12, <1>13

LEMMA StepHonest ==
  ASSUME TInv, OInv, HInv, [Next]_vars
  PROVE  \A s \in SessionId :
           (InOrder /\ session[s].status # "aborted" /\ session'[s].status = "aborted") =>
               \/ session'[s].lookups # {session[s].fetched}
               \/ \E i \in Index : session[s].cands[i].RPrime = Infinity
<1> SUFFICES ASSUME NEW s \in SessionId, InOrder, session[s].status # "aborted",
                    session'[s].status = "aborted",
                    \A i \in Index : session[s].cands[i].RPrime # Infinity
             PROVE  session'[s].lookups # {session[s].fetched}
  OBVIOUS
<1>1. Ordered /\ Genuine
  BY DEF OInv, HInv
<1>2. PICK c \in Slot, v \in MayKnow :
           /\ BankReveal(c) /\ s = calls[c].sess
           /\ ~PassedWith(c, s, v) /\ session'[s].lookups = {v}
  BY WhoAborts
<1>3. PassedWith(c, s, session[s].fetched)
  BY <1>1, <1>2, RevealPasses
<1> QED
  BY <1>2, <1>3

\* The bank's check never turns away what the page has sent it, as long as answers come in
\* order: whoever aborted a session had looked up another version of the key than the page had
\* been served, or a commitment was at infinity (withdrawalService.js, revealAndSign).
THEOREM HonestPassesAlways == Spec => HonestPasses
<1>1. TInv /\ OInv /\ HInv /\ [Next]_vars =>
        [\A s \in SessionId :
            (InOrder /\ session[s].status # "aborted" /\ session'[s].status = "aborted") =>
                \/ session'[s].lookups # {session[s].fetched}
                \/ \E i \in Index : session[s].cands[i].RPrime = Infinity]_vars
  BY StepHonest
<1> QED
  BY <1>1, InitTInv, NextTInv, InitOInv, NextOInv, InitHInv, NextHInv, PTL DEF Spec, HonestPasses
=============================================================================
