-------------------------- MODULE WithdrawalLedger --------------------------
(***************************************************************************)
(* What the withdrawal service promises: every request takes effect at     *)
(* once or not at all.  The promise is the one of withdrawalService.js,    *)
(* lines 14-19: one active session per customer, init debits, closing a    *)
(* session refunds, and no other request comes between check and update.   *)
(***************************************************************************)
EXTENDS WithdrawalParams

VARIABLES balance,    \* [User -> Nat]
          session,    \* [Session -> SessionValue]
          issued      \* value of the tokens signed

ledger == <<balance, session, issued>>

Init ==
    /\ balance = [u \in User |-> Opening]
    /\ session = [s \in Session |-> Absent]
    /\ issued = 0

IsOpen(s) == session[s].status \in Active

\* init: a customer who has the money and no active session gets one.
Open(s) ==
    /\ session[s] = Absent
    /\ \A r \in Rival(s) : ~IsOpen(r)
    /\ balance[Owner[s]] >= Amount[s]
    /\ balance' = [balance EXCEPT ![Owner[s]] = @ - Amount[s]]
    /\ session' = [session EXCEPT ![s].status = "pending"]
    /\ issued' = issued

\* submit: the bank picks the candidate it will sign, once.
Submit(s, j) ==
    /\ session[s].status = "pending"
    /\ session' = [session EXCEPT ![s] = [status |-> "submitted", j_index |-> j]]
    /\ UNCHANGED <<balance, issued>>

\* reveal: the bank signs.
Sign(s) ==
    /\ session[s].status = "submitted"
    /\ session' = [session EXCEPT ![s].status = "committed"]
    /\ issued' = issued + Amount[s]
    /\ balance' = balance

\* What closing the sessions S gives back to user u.
Refund(S, u) ==
    IF \E s \in S : Owner[s] = u THEN Amount[CHOOSE s \in S : Owner[s] = u] ELSE 0

\* cancel, a failed cut-and-choose, or the end of the sessions' time: refunds.
Close(S, how) ==
    /\ S # {}
    /\ how = "aborted" => \A s \in S : session[s].status = "submitted"
    /\ how # "expired" => \E s \in S : S = {s}
    /\ balance' = [u \in User |-> balance[u] + Refund(S, u)]
    /\ session' = [s \in Session |->
                     IF s \in S THEN [session[s] EXCEPT !.status = how] ELSE session[s]]
    /\ issued' = issued

Next ==
    \/ \E s \in Session : Open(s) \/ Sign(s) \/ \E j \in Index : Submit(s, j)
    \/ \E S \in SUBSET {s \in Session : IsOpen(s)}, how \in Closed : Close(S, how)

Spec == Init /\ [][Next]_ledger

-----------------------------------------------------------------------------
\* Types, and with them that no balance is ever negative.
LedgerTypeOK ==
    /\ balance \in [User -> Nat]
    /\ session \in [Session -> SessionValue]
    /\ issued \in Nat

\* ISOLATION.md 3-4: at most one pending or submitted session per customer.
OneOpen == \A s \in Session : IsOpen(s) => \A r \in Rival(s) : ~IsOpen(r)

\* A session that ended stays as it ended, and the index picked for it is never picked again.
FinalFor(s) ==
    /\ session[s].status \in Closed \cup {"committed"} => session'[s] = session[s]
    /\ session[s].j_index # NoIndex => session'[s].j_index = session[s].j_index

Final == \A s \in Session : FinalFor(s)
=============================================================================
