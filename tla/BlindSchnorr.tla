---------------------------- MODULE BlindSchnorr ----------------------------
(***************************************************************************)
(* The blind Schnorr signature and the check of revealed candidates:       *)
(* crypto/server/{curve,hashToScalar,schnorrBlind,cutAndChoose}.js and     *)
(* crypto/client/{blinding,schnorrBlindClient}.js.                         *)
(*                                                                         *)
(* The curve is a cyclic group of prime order Q, so a point is written as  *)
(* its discrete logarithm: G is 1, the point at infinity 0, the product of *)
(* a scalar and a point a product modulo Q.  No operator looks at a        *)
(* logarithm except through the group operations and equality.             *)
(***************************************************************************)
EXTENDS Integers, Sequences

CONSTANTS Q,               \* the order of the curve
          Words,           \* how many values pickRandomJ's masked random word has: 2^31
          Serial,          \* the serials a candidate may have
          Digest(_, _, _)  \* SHA-256 of the tag, R', the serial, the amount and P, as a number

ASSUME OrderAssumption == Q \in Nat /\ Q > 1
\* The order is prime: no product of two scalars that are not 0 is 0.
ASSUME PrimeAssumption == \A a, b \in 1 .. Q - 1 : (a * b) % Q # 0
ASSUME WordsAssumption == Words \in Nat
ASSUME DigestAssumption ==
    \A RPrime, P \in 0 .. Q - 1, serial \in Serial : Digest(RPrime, serial, P) \in Nat

Scalar == 0 .. Q - 1
ValidScalar == 1 .. Q - 1           \* isValidScalar
Point == 0 .. Q - 1
Infinity == 0
G == 1

ModN(s) == s % Q
Mult(k, P) == ModN(k * P)
Add(P1, P2) == ModN(P1 + P2)

\* decodePoint returns: the point at infinity has no compressed encoding that decodes.
Decodes(P) == P # Infinity

PublicKey(x) == Mult(x, G)

HashToScalar(RPrime, serial, P) ==
    LET e == ModN(Digest(RPrime, serial, P)) IN IF e = 0 THEN 1 ELSE e

-----------------------------------------------------------------------------
(* The bank.                                                               *)

BankStep1(k) == Mult(k, G)

BankStep3(k, e, x) == ModN(k + ModN(e * x))

\* The words pickRandomJ accepts: those below the largest multiple of N.
PickLimit(N) == N * (Words \div N)

\* The j an accepted word stands for.
PickRandomJ(N, word) == word % N

-----------------------------------------------------------------------------
(* The user.  blinder is [alpha, beta], both valid scalars.                *)

BlindedCommitment(R, blinder, P) ==
    Add(Add(R, Mult(blinder.alpha, G)), Mult(blinder.beta, P))

BlindedChallenge(RPrime, serial, blinder, P) ==
    ModN(HashToScalar(RPrime, serial, P) + blinder.beta)

\* Mutant: the challenge the bank signs is not blinded.
PlainCandidate(R, serial, blinder, P) ==
    LET RPrime == BlindedCommitment(R, blinder, P)
    IN  [e |-> HashToScalar(RPrime, serial, P), RPrime |-> RPrime, serial |-> serial]

\* userComputeChallenge: what the bank is sent of a candidate.
CandidateOf(R, serial, blinder, P) ==
    LET RPrime == BlindedCommitment(R, blinder, P)
    IN  [e |-> BlindedChallenge(RPrime, serial, blinder, P), RPrime |-> RPrime, serial |-> serial]

\* Mutant: alpha is forgotten.
KeepResponse(s, alpha) == ModN(s)

UnblindResponse(s, alpha) == ModN(s + alpha)

-----------------------------------------------------------------------------
(* Verification, the same on both sides.                                   *)

VerifySig(RPrime, sPrime, serial, P) ==
    /\ sPrime \in ValidScalar
    /\ Decodes(RPrime) /\ Decodes(P)
    /\ Mult(sPrime, G) = Add(RPrime, Mult(HashToScalar(RPrime, serial, P), P))

\* The bank checks a candidate whose blinder was revealed.
VerifyRevealed(R, cand, blinder, P) ==
    /\ Decodes(R) /\ Decodes(P) /\ Decodes(cand.RPrime)
    /\ BlindedCommitment(R, blinder, P) = cand.RPrime
    /\ BlindedChallenge(cand.RPrime, cand.serial, blinder, P) = cand.e

\* verifyAllRevealed; blinders maps every revealed index to its blinder.
VerifyAllRevealed(R, cands, blinders, P) ==
    \A i \in DOMAIN blinders : VerifyRevealed(R[i], cands[i], blinders[i], P)
=============================================================================
