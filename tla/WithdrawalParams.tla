-------------------------- MODULE WithdrawalParams --------------------------
(***************************************************************************)
(* The customers, their withdrawal sessions and the sessions' statuses:    *)
(* what the atomic ledger (WithdrawalLedger) and the server's tables       *)
(* (BankDb) both speak of.                                                 *)
(***************************************************************************)
EXTENDS Integers, FiniteSets

CONSTANTS User,       \* users.id
          Session,    \* the ids randomUUID() will give to withdrawal sessions
          Owner,      \* [Session -> User]: whose session it will be
          Amount,     \* [Session -> Nat \ {0}]: and of which denomination
          Index,      \* candidate indices 0..N-1 of cut-and-choose
          NoIndex,    \* j_index IS NULL
          Opening     \* balance every user starts with

ASSUME OwnerAssumption   == Owner \in [Session -> User]
ASSUME AmountAssumption  == Amount \in [Session -> Nat \ {0}]
ASSUME OpeningAssumption == Opening \in Nat
ASSUME IndexAssumption   == NoIndex \notin Index
ASSUME FiniteAssumption  == IsFiniteSet(User) /\ IsFiniteSet(Session)

\* withdrawal_sessions.status; "none" stands for a row not inserted yet.
Active == {"pending", "submitted"}
Closed == {"aborted", "cancelled", "expired"}
Status == {"none", "committed"} \cup Active \cup Closed

SessionValue == [status : Status, j_index : Index \cup {NoIndex}]
Absent == [status |-> "none", j_index |-> NoIndex]

\* The other sessions of the owner of session s.
Rival(s) == {r \in Session \ {s} : Owner[r] = Owner[s]}
=============================================================================
