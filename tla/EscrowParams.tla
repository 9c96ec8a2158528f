---------------------------- MODULE EscrowParams ----------------------------
(***************************************************************************)
(* Users, tokens and escrows: what the atomic ledger (EscrowLedger) and    *)
(* the server's tables (EscrowDb) both speak of.                           *)
(***************************************************************************)
EXTENDS Integers, FiniteSets

CONSTANTS User,       \* users.id
          Coin,       \* serials of the tokens the bank has signed
          Escrow,     \* the ids randomUUID() will give to payment_escrows
          Merchant,   \* [Escrow -> User]: who will create it
          Worth,      \* [Coin -> Nat \ {0}]: value of a token
          Price,      \* [Escrow -> Nat \ {0}]: amount of an escrow
          Opening,    \* balance every user starts with
          Cash,       \* amounts a user pays in: within MAX_DEPOSIT_PER_TX
          DailyCap,   \* MAX_DEPOSIT_PER_DAY
          NoUser,     \* NULL in a column that refers to users
          NoCoin      \* payment_escrows.serial IS NULL

ASSUME MerchantAssumption == Merchant \in [Escrow -> User]
ASSUME ValueAssumption == /\ Worth \in [Coin -> Nat \ {0}]
                          /\ Price \in [Escrow -> Nat \ {0}]
ASSUME MoneyAssumption == Opening \in Nat /\ Cash \subseteq Nat \ {0} /\ DailyCap \in Nat
ASSUME FiniteAssumption == IsFiniteSet(User) /\ IsFiniteSet(Coin) /\ IsFiniteSet(Escrow)
ASSUME NullAssumption == NoUser \notin User /\ NoCoin \notin Coin

\* payment_escrows.status; "none" stands for a row not inserted yet.
Open == {"created", "locked"}
Status == {"none", "committed", "cancelled", "expired"} \cup Open

EscrowValue == [status : Status, customer : User \cup {NoUser}, serial : Coin \cup {NoCoin}]
Absent == [status |-> "none", customer |-> NoUser, serial |-> NoCoin]
=============================================================================
