--------------------------- MODULE MCWithdrawPage ---------------------------
(* An instance of WithdrawPage for TLC. *)
EXTENDS WithdrawPage, TLC

\* Any function will do for SHA-256 that depends on all it is given.
SmallDigest(RPrime, serial, P) == 1 + RPrime + 2 * serial + RPrime * P
Blinder(a, b) == [alpha |-> a, beta |-> b]
TwoDraws == { (0 :> Blinder(1, 2) @@ 1 :> Blinder(2, 1)),
              (0 :> Blinder(2, 1) @@ 1 :> Blinder(2, 2)) }

\* No action reads the candidates of a session that has ended: submit and reveal look at the
\* status first.  Of the properties only TypeOK speaks of them, which it has seen before the
\* end.  So states that differ in them only count as one.
Ended == {"committed", "cancelled", "expired", "aborted"}
Rows == [s \in SessionId |-> IF session[s].status \in Ended
                               THEN [session[s] EXCEPT !.cands = Empty] ELSE session[s]]
StillRead == <<keys, Rows, balance, late, page, calls, wallet, history>>
=============================================================================
