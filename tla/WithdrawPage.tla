---------------------------- MODULE WithdrawPage ----------------------------
(***************************************************************************)
(* The withdrawal wizard, pages/Withdraw.jsx, against the bank's four      *)
(* withdrawal endpoints.  The page is callbacks: a click sends a request   *)
(* and returns, the answer (or a network error) arrives at any later time, *)
(* and what the handler does then it does to the page as it is by then.    *)
(*                                                                         *)
(* The bank's handlers are one step each: how their statements interleave  *)
(* is WithdrawalTx's subject.  What a candidate holds, left out there, is  *)
(* BlindSchnorr's arithmetic here.  Each lookup of a key returns whatever  *)
(* a process may know: its caches are BankKeys' subject.                   *)
(***************************************************************************)
EXTENDS BlindSchnorr, FiniteSets, FiniteSetsExt

CONSTANTS N,            \* candidates of a session, CUT_AND_CHOOSE_N
          FirstKey,     \* the private keys the first version may have
          Nonce,        \* the k the bank may draw
          Draw,         \* the blinders the page may draw, one [alpha, beta] for each candidate
          MaxSession,   \* bound: sessions opened
          MaxVersion,   \* bound: versions of the denomination's key
          MaxCalls,     \* bound: requests in flight
          Funds         \* the account, in tokens

ASSUME DrawAssumption ==
    /\ FirstKey \subseteq ValidScalar /\ Nonce \subseteq ValidScalar
    /\ Draw \subseteq [0 .. N - 1 -> [alpha : ValidScalar, beta : ValidScalar]]

ASSUME CountAssumption ==
    {N, MaxSession, MaxVersion, MaxCalls} \subseteq Nat \ {0} /\ Funds \in Nat

Index == 0 .. N - 1
NoIndex == -1
SessionId == 1 .. MaxSession
NoSession == 0
Slot == 1 .. MaxCalls
Empty == [i \in {} |-> 0]      \* [] and what a ref is reset to

VARIABLES keys,      \* the bank: the private key of each version, the last one active
          session,   \* the bank: withdrawal_sessions
          balance,   \* the bank: the user's account, in tokens
          late,      \* the sessions whose expires_at has passed
          page,      \* the page's state and refs
          calls,     \* the requests in flight, and their answers
          wallet     \* the tokens saved in IndexedDB

(* What happened, kept for the properties only.                            *)
VARIABLES leaked,    \* the <<session, index>> whose blinders the page has sent
          overtaken, \* whether a cancel was answered while another request was in flight
          dropped    \* sessions whose signature was lost on the way or left on the page

bank == <<keys, session, balance>>
history == <<leaked, overtaken, dropped>>
vars == <<bank, late, page, calls, wallet, history>>

Version == Len(keys)

\* What getOrGenerate may return to a process: the active version or, from its _activeCache,
\* one that a rotation elsewhere has retired.  A handler is one step, its last; what an
\* earlier lookup of it returned, a rotation ago, is among these versions too.
MayKnow == 1 .. Version

\* The last two are not columns: the version of the key that the page had fetched, and the
\* versions that the lookups of its reveal returned.
NoRow == [status |-> "none", k |-> Empty, cands |-> Empty, j |-> NoIndex,
          fetched |-> 0, lookups |-> {}]
Active(s) == session[s].status \in {"pending", "submitted"}

NoToken == [sess |-> NoSession, serial |-> 0, RPrime |-> Infinity, s |-> 0, version |-> 0]

\* The component's state and refs when it is mounted.
Mounted == [step |-> 0, sess |-> NoSession, version |-> 0, j |-> NoIndex, token |-> NoToken,
            saved |-> FALSE, loading |-> FALSE, expired |-> FALSE,
            blinders |-> Empty, cands |-> Empty]

NoCall == [op |-> "none", at |-> "none", ok |-> FALSE, orphan |-> FALSE, sess |-> NoSession,
           version |-> 0, j |-> NoIndex, cands |-> Empty, blinders |-> Empty, s |-> 0]

InFlight(c) == calls[c].op # "none"
Free == {c \in Slot : ~InFlight(c)}

\* A render that reads session.N while session is null unmounts the page's whole tree.
Crashed == page.step = 2 /\ page.sess = NoSession

-----------------------------------------------------------------------------
(* Clicks.                                                                 *)

Send(request) ==
    /\ Free # {}
    /\ calls' = [calls EXCEPT ![Min(Free)] = request]

Request(op) == [NoCall EXCEPT !.op = op, !.at = "sent", !.sess = page.sess]

\* handleInit: GET /bank/pubkeys comes first.
ClickInit ==
    /\ page.step = 0 /\ ~page.loading
    /\ page' = [page EXCEPT !.loading = TRUE]
    /\ Send(Request("pubkeys"))
    /\ UNCHANGED <<bank, late, wallet, history>>

\* handleSubmit draws blinders and serials anew, a retry's too, and overwrites the refs.
ClickSubmit ==
    /\ page.step = 1 /\ page.sess # NoSession
    /\ ~page.loading /\ ~page.expired
    /\ \E drawn \in Draw, serials \in [Index -> Serial] :
          LET P == PublicKey(keys[page.version])
              cands == [i \in Index |-> CandidateOf(BankStep1(session[page.sess].k[i]),
                                                    serials[i], drawn[i], P)]
          IN  /\ page' = [page EXCEPT !.loading = TRUE, !.blinders = drawn, !.cands = cands]
              /\ Send([Request("submit") EXCEPT !.cands = cands])
    /\ UNCHANGED <<bank, late, wallet, history>>

\* Mutant: no index is skipped.
RevealedAll == page.blinders

\* The blinders handleReveal sends: those of every index but j.
Revealed == [i \in Index \ {page.j} |-> page.blinders[i]]

\* Mutant: the refs are cleared before the answer comes.
ClickRevealOnce ==
    /\ page.step = 2 /\ page.sess # NoSession /\ page.blinders # Empty
    /\ ~page.loading /\ ~page.expired
    /\ page' = [page EXCEPT !.loading = TRUE, !.blinders = Empty]
    /\ Send([Request("reveal") EXCEPT !.blinders = Revealed, !.j = page.j])
    /\ UNCHANGED <<bank, late, wallet, history>>

\* handleReveal
ClickReveal ==
    /\ page.step = 2 /\ page.sess # NoSession /\ page.j # NoIndex
    /\ ~page.loading /\ ~page.expired
    /\ IF page.blinders = Empty
         THEN UNCHANGED <<page, calls, leaked>>    \* reading alpha of undefined throws
         ELSE /\ page' = [page EXCEPT !.loading = TRUE]
              /\ Send([Request("reveal") EXCEPT !.blinders = Revealed, !.j = page.j])
              /\ leaked' = leaked \cup ({page.sess} \X DOMAIN Revealed)
    /\ UNCHANGED <<bank, late, wallet, overtaken, dropped>>

\* handleCancel.  Once the countdown is over the button that clears the session is not
\* disabled while another request, a cancel too, is in flight.
ClickCancel ==
    /\ page.sess # NoSession /\ page.step < 3 /\ ~Crashed
    /\ page.loading => page.expired
    /\ page' = [page EXCEPT !.loading = TRUE]
    /\ Send(Request("cancel"))
    /\ UNCHANGED <<bank, late, wallet, history>>

\* handleSaveToWallet; a serial already there (ConstraintError) counts as saved.
SaveToWallet ==
    /\ page.step = 3 /\ ~page.saved
    /\ wallet' = wallet \cup {page.token}
    /\ page' = [page EXCEPT !.saved = TRUE]
    /\ UNCHANGED <<bank, late, calls, history>>

\* The user reloads, closes or leaves the page: nobody waits for the answers any more.
Leave ==
    /\ page # Mounted
    /\ page' = Mounted
    /\ calls' = [c \in Slot |-> IF calls[c].at = "sent" THEN [calls[c] EXCEPT !.orphan = TRUE]
                                                        ELSE NoCall]
    /\ dropped' = dropped \cup {calls[c].sess : c \in {d \in Slot : calls[d].op = "reveal"}}
                          \cup (IF page.saved THEN {} ELSE {page.token.sess} \ {NoSession})
    /\ UNCHANGED <<bank, late, wallet, leaked, overtaken>>

-----------------------------------------------------------------------------
(* The bank.                                                               *)

\* The answer to call c; nobody takes it if the page has gone.
Answer(c, answered) ==
    calls' = [calls EXCEPT ![c] =
                 IF calls[c].orphan THEN NoCall ELSE [answered EXCEPT !.at = "answered"]]

Refuse(c) == Answer(c, [calls[c] EXCEPT !.ok = FALSE])
Accept(c, answered) == Answer(c, [answered EXCEPT !.ok = TRUE])

Arrived(c, op) == calls[c].op = op /\ calls[c].at = "sent"

\* Mutant: a session that expires stays open.
RefundOpen(sessions, status) ==
    /\ session' = [s \in SessionId |->
                      IF s \in sessions /\ status # "expired"
                        THEN [session[s] EXCEPT !.status = status] ELSE session[s]]
    /\ balance' = balance + Cardinality(sessions)

\* refundAndClose of a set of sessions.
Refund(sessions, status) ==
    /\ session' = [s \in SessionId |->
                      IF s \in sessions THEN [session[s] EXCEPT !.status = status] ELSE session[s]]
    /\ balance' = balance + Cardinality(sessions)

\* refundAndClose of a session that failed the check with this version's key.
Abort(s, version) ==
    /\ session' = [session EXCEPT ![s].status = "aborted", ![s].lookups = {version}]
    /\ balance' = balance + 1

\* GET /bank/pubkeys; handleInit goes on to POST /withdraw/init at once, even when the user
\* has gone to another route of the app (not when the document has gone).
Pubkeys(c) ==
    /\ Arrived(c, "pubkeys")
    /\ \/ \E v \in MayKnow :
             calls' = [calls EXCEPT ![c].op = "init", ![c].version = v]
       \/ calls[c].orphan /\ calls' = [calls EXCEPT ![c] = NoCall]
    /\ UNCHANGED <<bank, late, page, wallet, history>>

\* initWithdrawal: lazy cleanup, one active session, enough balance, N fresh nonces.
BankInit(c) ==
    LET expired == {s \in SessionId : Active(s) /\ s \in late}
        unused == {s \in SessionId : session[s].status = "none"}
    IN  /\ Arrived(c, "init")
        /\ IF (\E s \in SessionId : Active(s) /\ s \notin late) \/ balance + Cardinality(expired) = 0
             THEN Refund(expired, "expired") /\ Refuse(c)
             ELSE \E k \in [Index -> Nonce] :
                     /\ unused # {}
                     /\ session' = [s \in SessionId |->
                           IF s = Min(unused)
                             THEN [NoRow EXCEPT !.status = "pending", !.k = k,
                                                   !.fetched = calls[c].version]
                           ELSE IF s \in expired THEN [session[s] EXCEPT !.status = "expired"]
                           ELSE session[s]]
                     /\ balance' = balance + Cardinality(expired) - 1
                     /\ Accept(c, [calls[c] EXCEPT !.sess = Min(unused)])
        /\ UNCHANGED <<keys, late, page, wallet, history>>

\* submitCandidates
BankSubmit(c) ==
    LET s == calls[c].sess
    IN  /\ Arrived(c, "submit")
        /\ \/ /\ session[s].status # "pending"
              /\ Refuse(c)
              /\ UNCHANGED <<session, balance>>
           \/ /\ session[s].status = "pending" /\ s \in late
              /\ Refund({s}, "expired") /\ Refuse(c)
           \/ /\ session[s].status = "pending" /\ s \notin late
              /\ \E j \in {PickRandomJ(N, word) : word \in 0 .. PickLimit(N) - 1} :
                    /\ session' = [session EXCEPT ![s].status = "submitted", ![s].j = j,
                                                  ![s].cands = calls[c].cands]
                    /\ Accept(c, [calls[c] EXCEPT !.j = j])
              /\ UNCHANGED balance
        /\ UNCHANGED <<keys, late, page, wallet, history>>

\* Whether the revealed indices are those of every candidate but j.
CompleteReveal(c) == DOMAIN calls[c].blinders = Index \ {session[calls[c].sess].j}

\* What revealAndSign finds with the key of this version.
Passes(c, version) ==
    LET row == session[calls[c].sess]
    IN  VerifyAllRevealed([i \in Index |-> BankStep1(row.k[i])], row.cands,
                          calls[c].blinders, PublicKey(keys[version]))

Response(row, x) == BankStep3(row.k[row.j], row.cands[row.j].e, x)

\* revealAndSign looks the key up three times: the public key to check the reveals with, the
\* private key to sign with, and the version it names in the answer.
BankReveal(c) ==
    LET s == calls[c].sess
        row == session[s]
        live == row.status = "submitted" /\ s \notin late
    IN  /\ Arrived(c, "reveal")
        /\ \/ /\ row.status # "submitted" \/ (live /\ ~CompleteReveal(c))
              /\ Refuse(c)
              /\ UNCHANGED <<session, balance>>
           \/ /\ row.status = "submitted" /\ s \in late
              /\ Refund({s}, "expired") /\ Refuse(c)
           \/ /\ live /\ CompleteReveal(c)
              /\ \E checked \in MayKnow :
                    /\ ~Passes(c, checked)
                    /\ Abort(s, checked) /\ Refuse(c)
           \/ /\ live /\ CompleteReveal(c)
              /\ \E checked, signed, named \in MayKnow :
                    /\ Passes(c, checked)
                    /\ session' = [session EXCEPT ![s].status = "committed",
                                                  ![s].lookups = {checked, signed, named}]
                    /\ Accept(c, [calls[c] EXCEPT !.s = Response(row, keys[signed]),
                                                  !.version = named])
              /\ UNCHANGED balance
        /\ UNCHANGED <<keys, late, page, wallet, history>>

\* cancelWithdrawal
BankCancel(c) ==
    LET s == calls[c].sess
    IN  /\ Arrived(c, "cancel")
        /\ IF Active(s)
             THEN Refund({s}, "cancelled") /\ Accept(c, calls[c])
             ELSE Refuse(c) /\ UNCHANGED <<session, balance>>
        /\ UNCHANGED <<keys, late, page, wallet, history>>

\* cleanupExpiredSessions, by the hour or by hand.
Sweep ==
    LET expired == {s \in SessionId : Active(s) /\ s \in late}
    IN  /\ expired # {}
        /\ Refund(expired, "expired")
        /\ UNCHANGED <<keys, late, page, calls, wallet, history>>

\* rotateKey of the denomination.
Rotate ==
    /\ Version < MaxVersion
    /\ \E x \in ValidScalar \ {keys[v] : v \in 1 .. Version} : keys' = Append(keys, x)
    /\ UNCHANGED <<session, balance, late, page, calls, wallet, history>>

-----------------------------------------------------------------------------
(* Time and the network.                                                   *)

TtlElapses(s) ==
    /\ Active(s) /\ s \notin late
    /\ late' = late \cup {s}
    /\ UNCHANGED <<bank, page, calls, wallet, history>>

\* The page counts ttl_ms down from when it got the answer, so it is never early.
CountdownEnds ==
    /\ page.sess \in late /\ ~page.expired
    /\ page' = [page EXCEPT !.expired = TRUE]
    /\ UNCHANGED <<bank, late, calls, wallet, history>>

\* The request or its answer is lost, or the handler answers 500: a network error for the page.
Fail(c) ==
    /\ calls[c].at = "sent" \/ calls[c].ok
    /\ calls' = [calls EXCEPT ![c] = IF calls[c].orphan THEN NoCall
                                     ELSE [calls[c] EXCEPT !.at = "answered", !.ok = FALSE]]
    /\ dropped' = IF calls[c].op = "reveal" /\ calls[c].ok THEN dropped \cup {calls[c].sess}
                                                           ELSE dropped
    /\ UNCHANGED <<bank, late, page, wallet, leaked, overtaken>>

-----------------------------------------------------------------------------
(* Answers.                                                                *)

Returned(c, op) ==
    /\ calls[c].op = op /\ calls[c].at = "answered" /\ calls[c].ok
    /\ ~Crashed

\* Every handler ends with setLoading(false), whoever had set it.
Finish(c, newPage) ==
    /\ calls' = [calls EXCEPT ![c] = NoCall]
    /\ page' = [newPage EXCEPT !.loading = FALSE]

OnInit(c) ==
    /\ Returned(c, "init")
    /\ Finish(c, [page EXCEPT !.sess = calls[c].sess, !.version = calls[c].version,
                              !.expired = FALSE, !.step = 1])
    /\ UNCHANGED <<bank, late, wallet, history>>

\* setJIndex, setStep(2): of whatever session the page is at by now.
OnSubmit(c) ==
    /\ Returned(c, "submit")
    /\ Finish(c, [page EXCEPT !.j = calls[c].j, !.step = 2])
    /\ UNCHANGED <<bank, late, wallet, history>>

\* handleReveal's end; j is the closure's, the blinders the refs'.
OnReveal(c) ==
    LET j == calls[c].j
        cand == page.cands[j]
        token == [sess |-> calls[c].sess, serial |-> cand.serial, RPrime |-> cand.RPrime,
                  s |-> UnblindResponse(calls[c].s, page.blinders[j].alpha),
                  version |-> calls[c].version]
    IN  /\ Returned(c, "reveal")
        /\ IF page.blinders = Empty THEN Finish(c, page)
             ELSE Finish(c, [page EXCEPT !.token = token, !.step = 3,
                                         !.blinders = Empty, !.cands = Empty])
        /\ UNCHANGED <<bank, late, wallet, history>>

\* Mutant: the step stays.
ResetButStep == [Mounted EXCEPT !.step = page.step]

\* resetSession
ResetSession == Mounted

OnCancel(c) ==
    /\ Returned(c, "cancel")
    /\ Finish(c, ResetSession)
    /\ overtaken' = (overtaken \/ \E d \in Slot \ {c} : InFlight(d) /\ ~calls[d].orphan)
    /\ UNCHANGED <<bank, late, wallet, leaked, dropped>>

\* Mutant: handleCancel resets the page whatever the answer.
OnErrorReset(c) ==
    /\ calls[c].at = "answered" /\ ~calls[c].ok /\ ~Crashed
    /\ Finish(c, IF calls[c].op = "cancel" THEN Mounted ELSE page)
    /\ UNCHANGED <<bank, late, wallet, history>>

\* catch: the page only shows the error.
OnError(c) ==
    /\ calls[c].at = "answered" /\ ~calls[c].ok /\ ~Crashed
    /\ Finish(c, page)
    /\ UNCHANGED <<bank, late, wallet, history>>

-----------------------------------------------------------------------------
Init ==
    /\ \E x \in FirstKey : keys = <<x>>
    /\ session = [s \in SessionId |-> NoRow]
    /\ balance = Funds
    /\ late = {}
    /\ page = Mounted
    /\ calls = [c \in Slot |-> NoCall]
    /\ wallet = {}
    /\ leaked = {} /\ overtaken = FALSE /\ dropped = {}

Click == ClickInit \/ ClickSubmit \/ ClickReveal \/ ClickCancel \/ SaveToWallet \/ Leave

Bank ==
    \/ \E c \in Slot :
          Pubkeys(c) \/ BankInit(c) \/ BankSubmit(c) \/ BankReveal(c) \/ BankCancel(c)
    \/ Sweep
    \/ Rotate

Elapse == (\E s \in SessionId : TtlElapses(s)) \/ CountdownEnds

Reply ==
    \E c \in Slot : \/ Fail(c)
                    \/ OnInit(c) \/ OnSubmit(c) \/ OnReveal(c) \/ OnCancel(c)
                    \/ OnError(c)

Next == Click \/ Bank \/ Elapse \/ Reply

Spec == Init /\ [][Next]_vars

-----------------------------------------------------------------------------
(* Correctness.                                                            *)

Candidates == [e : Scalar, RPrime : Point, serial : Serial]
Blinders == UNION {[I -> [alpha : ValidScalar, beta : ValidScalar]] : I \in SUBSET Index}
Tokens == [sess : SessionId, serial : Serial, RPrime : Point, s : Scalar, version : 1 .. MaxVersion]

\* Every variable keeps the shape its rows, refs and messages have; the account never goes
\* below zero nor above what the user brought.
TypeOK ==
    /\ Version \in 1 .. MaxVersion /\ \A v \in 1 .. Version : keys[v] \in ValidScalar
    /\ \A s \in SessionId :
          /\ session[s].status \in {"none", "pending", "submitted", "committed",
                                    "cancelled", "expired", "aborted"}
          /\ session[s].j \in Index <=> session[s].cands # Empty
          /\ session[s].cands # Empty => session[s].cands \in [Index -> Candidates]
    /\ balance = Funds - Cardinality({s \in SessionId : Active(s) \/ session[s].status = "committed"})
    /\ balance \in 0 .. Funds
    /\ late \subseteq SessionId
    /\ page.step \in 0 .. 3 /\ page.sess \in SessionId \cup {NoSession}
    /\ page.blinders \in Blinders /\ page.token \in Tokens \cup {NoToken}
    /\ \A c \in Slot : calls[c].blinders \in Blinders
    /\ wallet \subseteq Tokens

\* No cancel has been answered while a submit or a reveal was in flight.  The button that
\* clears an expired session allows it: the late answer then re-enables the buttons of the
\* next session, or, a submit's, moves a page with the next session or none to step 3.  With
\* the buttons enabled a second init goes out beside the first; what its answer opens is
\* laid over a session that is under way, or over a token that is not saved yet.
InOrder == ~overtaken

\* verifyRevealed never refuses what this page sent: while answers come in order, a session is
\* aborted only because the process that checked it looked up another version of the key than
\* the one that had served the page (a rotation, or a cache that one had left stale), or
\* because a commitment came out at infinity.
HonestPasses ==
    [][\A s \in SessionId :
          (InOrder /\ session[s].status # "aborted" /\ session'[s].status = "aborted") =>
              \/ session'[s].lookups # {session[s].fetched}
              \/ \E i \in Index : session[s].cands[i].RPrime = Infinity]_vars

\* While answers come in order, the token the page makes of s_j verifies under the version it
\* names if the three lookups of its reveal returned one version, whatever version had
\* served the page and whichever is active by then; but for the two values no signature can
\* have: s' = 0 and R' at infinity.
TokenVerifies ==
    InOrder => \A token \in (wallet \cup {page.token}) \ {NoToken} :
        session[token.sess].lookups = {token.version} =>
            \/ token.s = 0 \/ token.RPrime = Infinity
            \/ VerifySig(token.RPrime, token.s, token.serial, PublicKey(keys[token.version]))

\* A committed session has been paid for: as long as answers come in order its token is on
\* the page or in the wallet, or its signature is on the way, unless an answer was lost or the
\* user left the page (nothing else the user can do, retries and cancels included, loses it).
SignedHeld ==
    InOrder => \A s \in SessionId \ dropped : session[s].status = "committed" =>
        \/ \E token \in wallet \cup {page.token} : token.sess = s
        \/ \E c \in Slot : calls[c].op = "reveal" /\ calls[c].sess = s /\ calls[c].ok

\* alpha and beta of the candidate the bank signs never leave the device (blinding.js), as
\* long as answers come in order.
BlindersKept ==
    InOrder => \A s \in SessionId : <<s, session[s].j>> \notin leaked

\* At step 3 of the wizard the page has a session and the index the bank chose for it, as
\* long as answers come in order.
RevealsTheChoice ==
    (InOrder /\ page.step = 2) => page.sess # NoSession /\ page.j = session[page.sess].j

\* The page, while the user stays on it and answers come in order, forgets a session only
\* when the bank has cancelled it and refunded the user.
SessionKept ==
    [][\/ Leave \/ ~InOrder
       \/ page.sess \in {NoSession, page'.sess}
       \/ session[page.sess].status = "cancelled"]_vars
=============================================================================
