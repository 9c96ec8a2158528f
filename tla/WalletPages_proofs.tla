------------------------- MODULE WalletPages_proofs -------------------------
(***************************************************************************)
(* However the handlers of the pages overlap, outlive their pages and      *)
(* logins, or lose their answers: no coin that is still worth anything is  *)
(* deleted from a wallet, unless by its user; and as long as no handler    *)
(* goes on in another user's wallet, no queued payment vanishes before it  *)
(* is settled, and the bank credits a token to whoever presented it.       *)
(***************************************************************************)
EXTENDS WalletPages, TLAPS

Kind == {"submit", "retry", "lock", "resubmit"}

\* The labels a handler reaches only with a token that it knows to be spent.
Settling == {"settle", "dropCoin", "dropPaid"}

(***************************************************************************)
(* The inductive invariant.  A handler on its way to deleting a coin was   *)
(* told that its token is spent, and what is spent stays spent.  Who asks  *)
(* is somebody, even if the tab is nobody's by now.                        *)
(***************************************************************************)
KnowsSpent(request, holder) ==
    /\ request.pc = "post" => request.kind \in Kind /\ request.by # Nobody
    /\ request.pc \in Settling /\ request.token \in Token => holder[request.token] # Nobody

Shaped(request) ==
    request = [kind |-> request.kind, tab |-> request.tab, by |-> request.by, pc |-> request.pc,
               token |-> request.token, id |-> request.id, db |-> request.db]

Functional ==
    /\ coins \in [Database -> SUBSET Token]
    /\ work = [h \in Slot |-> work[h]]
    /\ spent = [c \in Token |-> spent[c]]
    /\ \A h \in Slot : Shaped(work[h])

IInv == Functional /\ \A h \in Slot : KnowsSpent(work[h], spent)

-----------------------------------------------------------------------------
\* What is spent stays spent, and the handlers that did not move keep knowing what they knew.
StaysSpent == \A c \in Token : spent[c] # Nobody => spent'[c] # Nobody

\* A step of one handler keeps the invariant if it leaves that handler knowing enough.
LEMMA OneHandler ==
  ASSUME IInv, NEW h \in Slot, NEW next, work' = [work EXCEPT ![h] = next], Shaped(next),
         spent' = [c \in Token |-> spent'[c]], StaysSpent, KnowsSpent(next, spent'),
         coins' \in [Database -> SUBSET Token]
  PROVE  IInv'
<1>1. \A g \in Slot : work'[g] = IF g = h THEN next ELSE work[g]
  BY DEF IInv, Functional
<1>2. Functional'
  BY <1>1 DEF IInv, Functional, Shaped
<1>3. ASSUME NEW g \in Slot PROVE KnowsSpent(work'[g], spent')
  <2>1. CASE g = h
    BY <1>1, <2>1 DEF KnowsSpent
  <2>2. CASE g # h
    BY <1>1, <2>2 DEF IInv, KnowsSpent, StaysSpent
  <2> QED
    BY <2>1, <2>2
<1> QED
  BY <1>2, <1>3 DEF IInv

\* A step that moves no handler.
LEMMA NoHandler ==
  ASSUME IInv, work' = work, spent' = [c \in Token |-> spent'[c]], StaysSpent,
         coins' \in [Database -> SUBSET Token]
  PROVE  IInv'
  BY DEF IInv, Functional, KnowsSpent, Shaped, StaysSpent

\* Neither does one that leaves alone what the invariant speaks of.
LEMMA SameSpent ==
  ASSUME IInv, spent' = spent
  PROVE  spent' = [c \in Token |-> spent'[c]] /\ StaysSpent
  BY DEF IInv, Functional, StaysSpent

\* What the user does at once, and the buttons.
LEMMA UseIInv == IInv /\ Use => IInv'
<1> SUFFICES ASSUME IInv, NEW t \in Tab,
                    \/ OpenPayment(t) \/ Logout(t) \/ Reload(t)
                    \/ \E u \in User : Login(t, u)
                    \/ \E c \in Token : Save(t, c) \/ RemoveCoin(t, c) \/ Redeem(t, c)
                    \/ \E r \in tabs[t].list : Discard(t, r)
             PROVE  IInv'
  BY DEF Use
<1>0. coins \in [Database -> SUBSET Token]
  BY DEF IInv, Functional
<1>1. CASE OpenPayment(t) \/ Logout(t) \/ (\E u \in User : Login(t, u))
           \/ \E r \in tabs[t].list : Discard(t, r)
  BY <1>0, <1>1, NoHandler, SameSpent DEF OpenPayment, Logout, Login, Discard
<1>2. CASE Reload(t)
  <2>1. \A h \in Slot : work'[h] = IF work[h].tab = t THEN Idle ELSE work[h]
    BY <1>2 DEF Reload
  <2>2. spent' = spent /\ coins' = coins /\ work' = [h \in Slot |-> work'[h]]
    BY <1>2 DEF Reload
  <2>3. KnowsSpent(Idle, spent') /\ Shaped(Idle)
    BY DEF KnowsSpent, Shaped, Idle, Settling
  <2> QED
    BY <1>0, <2>1, <2>2, <2>3 DEF IInv, Functional, Shaped, KnowsSpent
<1>3. ASSUME NEW c \in Token, Save(t, c) PROVE IInv'
  <2>1. coins' \in [Database -> SUBSET Token]
    BY <1>0, <1>3 DEF Save, PutCoin
  <2> QED
    BY <1>3, <2>1, NoHandler, SameSpent DEF Save
<1>4. ASSUME NEW c \in Token, RemoveCoin(t, c) PROVE IInv'
  <2>1. coins' \in [Database -> SUBSET Token]
    BY <1>0, <1>4 DEF RemoveCoin, DeleteCoin
  <2> QED
    BY <1>4, <2>1, NoHandler, SameSpent DEF RemoveCoin
<1>5. ASSUME NEW c \in Token, Redeem(t, c) PROVE IInv'
  <2>1. spent' = [spent EXCEPT ![c] = tabs[t].user] /\ tabs[t].user # Nobody
    BY <1>5 DEF Redeem
  <2>2. spent' = [d \in Token |-> spent'[d]] /\ StaysSpent
    BY <2>1 DEF IInv, Functional, StaysSpent
  <2> QED
    BY <1>0, <1>5, <2>2, NoHandler DEF Redeem
<1> QED
  BY <1>1, <1>2, <1>3, <1>4, <1>5

LEMMA PressIInv == IInv /\ Press => IInv'
<1> SUFFICES ASSUME IInv, Press PROVE IInv'
  OBVIOUS
<1>1. PICK h \in Slot, t \in Tab : \E kind \in Kind : \E token, id : Begin(h, t, kind, token, id)
  BY DEF Press, BeginSubmit, BeginLock, BeginRetry, BeginResubmit, Kind
<1>2. PICK kind \in Kind : \E token, id : Begin(h, t, kind, token, id)
  BY <1>1
<1>3. PICK token, id : Begin(h, t, kind, token, id)
  BY <1>2
<1> DEFINE next == [kind |-> kind, tab |-> t, by |-> tabs[t].user, pc |-> "post",
                    token |-> token, id |-> id, db |-> Unopened]
<1>4. work' = [work EXCEPT ![h] = next] /\ tabs[t].user # Nobody
  BY <1>3 DEF Begin
<1>5. coins' = coins /\ spent' = spent
  BY DEF Press, BeginSubmit, BeginLock, BeginRetry, BeginResubmit
<1>6. Shaped(next) /\ next.kind = kind /\ next.by = tabs[t].user /\ next.pc = "post"
  BY DEF Shaped
<1>7. KnowsSpent(next, spent')
  BY <1>4, <1>6 DEF KnowsSpent, Settling
<1> HIDE DEF next
<1> QED
  BY <1>4, <1>5, <1>6, <1>7, OneHandler, SameSpent DEF IInv, Functional

-----------------------------------------------------------------------------
\* The record a handler becomes that goes on at label pc.
Onward(request, pc) == IF pc = "done" THEN Idle ELSE [request EXCEPT !.pc = pc]

LEMMA GotoFacts ==
  ASSUME IInv, NEW h \in Slot, NEW pc, Goto(h, pc)
  PROVE  LET next == Onward(work[h], pc)
         IN  /\ work' = [work EXCEPT ![h] = next]
             /\ Shaped(next)
             /\ next = Idle \/ (next.pc = pc /\ next.token = work[h].token
                                /\ next.kind = work[h].kind /\ next.by = work[h].by)
<1> Shaped(work[h])
  BY DEF IInv, Functional
<1>1. Shaped(Onward(work[h], pc))
  BY DEF Onward, Shaped, Idle
<1>2. CASE pc = "done"
  BY <1>1, <1>2 DEF Goto, Onward, IInv, Functional
<1>3. CASE pc # "done"
  BY <1>1, <1>3 DEF Goto, Onward, IInv, Functional, Shaped
<1> QED
  BY <1>2, <1>3

\* A handler that goes on at a label which is not one of Settling, or that knows the token spent.
LEMMA GotoIInv ==
  ASSUME IInv, NEW h \in Slot, NEW pc, Goto(h, pc), pc # "post",
         pc \in Settling /\ work[h].token \in Token => spent'[work[h].token] # Nobody,
         spent' = [c \in Token |-> spent'[c]], StaysSpent,
         coins' \in [Database -> SUBSET Token]
  PROVE  IInv'
<1> DEFINE next == Onward(work[h], pc)
<1>1. /\ work' = [work EXCEPT ![h] = next]
      /\ Shaped(next)
      /\ next = Idle \/ (next.pc = pc /\ next.token = work[h].token)
  BY GotoFacts
<1> HIDE DEF next
<1>2. KnowsSpent(next, spent')
  BY <1>1 DEF KnowsSpent, Idle, Settling
<1> QED
  BY <1>1, <1>2, OneHandler

\* The bank's answers.
LEMMA ReplyIInv == IInv /\ Reply => IInv'
<1> SUFFICES ASSUME IInv, NEW h \in Slot,
                    Honoured(h) \/ DoubleSpend(h) \/ Unavailable(h) \/ Refused(h)
             PROVE  IInv'
  BY DEF Reply
<1>0. work[h].pc = "post" /\ work[h].kind \in Kind /\ work[h].by # Nobody
  BY DEF Honoured, DoubleSpend, Unavailable, Refused, Post, IInv, KnowsSpent
<1>1. ASSUME NEW answer \in {"ok", "double", "unavailable", "refused"}
      PROVE  /\ After(work[h].kind, answer) # "post"
             /\ answer \in {"unavailable", "refused"} =>
                  After(work[h].kind, answer) \notin Settling
  BY <1>0 DEF After, Kind, Settling
<1>2. coins' \in [Database -> SUBSET Token]
  BY DEF IInv, Functional, Honoured, DoubleSpend, Unavailable, Refused
<1>3. CASE Honoured(h)
  <2> DEFINE holder == IF work[h].kind = "lock" THEN Escrow ELSE work[h].by
  <2>1. spent' = [spent EXCEPT ![work[h].token] = holder] /\ holder # Nobody
    BY <1>0, <1>3, NoneAssumption DEF Honoured
  <2> HIDE DEF holder
  <2>2. /\ spent' = [c \in Token |-> spent'[c]] /\ StaysSpent
        /\ work[h].token \in Token => spent'[work[h].token] # Nobody
    BY <2>1 DEF IInv, Functional, StaysSpent
  <2>3. PICK answer \in {"ok", "unavailable"} : Goto(h, After(work[h].kind, answer))
    BY <1>3 DEF Honoured, Post
  <2> QED
    BY <1>1, <1>2, <2>2, <2>3, GotoIInv
<1>4. CASE DoubleSpend(h)
  BY <1>1, <1>2, <1>4, GotoIInv, SameSpent DEF DoubleSpend, Post
<1>5. CASE Unavailable(h)
  BY <1>1, <1>2, <1>5, GotoIInv, SameSpent DEF Unavailable, Post
<1>6. CASE Refused(h)
  BY <1>1, <1>2, <1>6, GotoIInv, SameSpent DEF Refused, Post
<1> QED
  BY <1>3, <1>4, <1>5, <1>6

\* The handler whose get has found record r in database d.
Found(request, r, d) == [request EXCEPT !.pc = "put", !.token = r.token, !.db = d]

LEMMA FoundAs ==
  ASSUME NEW w, Shaped(w), NEW r, NEW d
  PROVE  Found(w, r, d) = [kind |-> w.kind, tab |-> w.tab, by |-> w.by, pc |-> "put",
                           token |-> r.token, id |-> w.id, db |-> d]
<1>1. PICK moved : moved = [w EXCEPT !.pc = "put"]
  OBVIOUS
<1>2. moved = [kind |-> w.kind, tab |-> w.tab, by |-> w.by, pc |-> "put",
               token |-> w.token, id |-> w.id, db |-> w.db]
  BY <1>1 DEF Shaped
<1>3. PICK named : named = [moved EXCEPT !.token = r.token]
  OBVIOUS
<1>4. named = [kind |-> w.kind, tab |-> w.tab, by |-> w.by, pc |-> "put",
               token |-> r.token, id |-> w.id, db |-> w.db]
  BY <1>2, <1>3
<1>5. Found(w, r, d) = [named EXCEPT !.db = d]
  BY <1>1, <1>3 DEF Found
<1> QED
  BY <1>4, <1>5

\* The rest of the handlers.
LEMMA StepIInv == IInv /\ Step => IInv'
<1> SUFFICES ASSUME IInv, NEW h \in Slot,
                    \/ Queue(h) \/ DropCoin(h) \/ DropPaid(h) \/ Unqueue(h)
                    \/ GetAttempt(h) \/ PutAttempt(h) \/ Reloaded(h)
             PROVE  IInv'
  BY DEF Step
<1>0. coins \in [Database -> SUBSET Token]
  BY DEF IInv, Functional
<1>1. spent' = spent
  BY DEF Queue, DropCoin, DropPaid, Unqueue, GetAttempt, PutAttempt, Reloaded, At
<1>2. CASE Queue(h)
  BY <1>0, <1>1, <1>2, GotoIInv, SameSpent DEF Queue, AddPendingPayment, Settling
<1>3. CASE DropCoin(h)
  <2>1. coins' \in [Database -> SUBSET Token]
    BY <1>0, <1>3 DEF DropCoin, DeleteCoin
  <2>2. PICK pc \in {"reload", "done"} : Goto(h, pc)
    BY <1>3 DEF DropCoin
  <2> QED
    BY <1>1, <2>1, <2>2, GotoIInv, SameSpent DEF Settling
<1>4. CASE DropPaid(h)
  <2>1. coins' \in [Database -> SUBSET Token]
    BY <1>0, <1>4 DEF DropPaid
  <2> QED
    BY <1>1, <1>4, <2>1, GotoIInv, SameSpent DEF DropPaid, Settling
<1>5. CASE Unqueue(h)
  <2>1. PICK pc \in {"settle", "unqueue"} :
          work[h].pc = pc /\ Goto(h, IF pc = "settle" THEN "dropCoin" ELSE "reload")
    BY <1>5 DEF Unqueue, At
  <2>2. coins' = coins
    BY <1>5 DEF Unqueue, DeletePendingPayment
  <2>3. pc = "settle" /\ work[h].token \in Token => spent[work[h].token] # Nobody
    BY <2>1 DEF IInv, KnowsSpent, Settling
  <2> QED
    BY <1>0, <1>1, <2>1, <2>2, <2>3, GotoIInv, SameSpent DEF Settling
<1>6. CASE GetAttempt(h)
  <2>1. coins' = coins
    BY <1>6 DEF GetAttempt
  <2>2. CASE Goto(h, "reload")
    BY <1>0, <1>1, <2>1, <2>2, GotoIInv, SameSpent DEF Settling
  <2>3. ASSUME NEW r, work' = [work EXCEPT ![h] = Found(@, r, DbOf(work[h].tab))] PROVE IInv'
    <3>1. PICK next : next = Found(work[h], r, DbOf(work[h].tab))
      OBVIOUS
    <3>2. next = [kind |-> work[h].kind, tab |-> work[h].tab, by |-> work[h].by, pc |-> "put",
                  token |-> r.token, id |-> work[h].id, db |-> DbOf(work[h].tab)]
      BY <3>1, FoundAs DEF IInv, Functional
    <3>3. Shaped(next) /\ KnowsSpent(next, spent')
      BY <3>2 DEF Shaped, KnowsSpent, Settling
    <3>4. work' = [work EXCEPT ![h] = next]
      BY <2>3, <3>1
    <3> QED
      BY <1>0, <1>1, <2>1, <3>3, <3>4, OneHandler, SameSpent
  <2> QED
    BY <1>6, <2>2, <2>3 DEF GetAttempt, Found
<1>7. CASE PutAttempt(h)
  BY <1>0, <1>1, <1>7, GotoIInv, SameSpent DEF PutAttempt, PutPendingPayment, Settling
<1>8. CASE Reloaded(h)
  BY <1>0, <1>1, <1>8, GotoIInv, SameSpent DEF Reloaded, Settling
<1> QED
  BY <1>2, <1>3, <1>4, <1>5, <1>6, <1>7, <1>8

LEMMA StutterIInv == IInv /\ UNCHANGED vars => IInv'
  BY NoHandler, SameSpent DEF vars, IInv, Functional

-----------------------------------------------------------------------------
\* Whoever deletes a coin knows that it is spent, unless the user removes it.
LEMMA StepKeepsCoins ==
  ASSUME IInv, [Next]_vars
  PROVE  \A d \in Database : \A c \in coins[d] \ coins'[d] :
            spent[c] # Nobody \/ \E t \in Tab : RemoveCoin(t, c)
<1> SUFFICES ASSUME NEW d \in Database, NEW c \in coins[d] \ coins'[d]
             PROVE  spent[c] # Nobody \/ \E t \in Tab : RemoveCoin(t, c)
  OBVIOUS
<1>0. coins \in [Database -> SUBSET Token] /\ c \in Token
  BY DEF IInv, Functional
<1>1. CASE Press \/ Reply \/ UNCHANGED vars
  <2>1. coins' = coins
    BY <1>1 DEF Press, BeginSubmit, BeginLock, BeginRetry, BeginResubmit, Reply, Honoured,
                DoubleSpend, Unavailable, Refused, vars
  <2> QED
    BY <2>1
<1>2. CASE Step
  <2>1. PICK h \in Slot : \/ Queue(h) \/ DropCoin(h) \/ DropPaid(h) \/ Unqueue(h)
                          \/ GetAttempt(h) \/ PutAttempt(h) \/ Reloaded(h)
    BY <1>2 DEF Step
  <2>2. CASE Queue(h) \/ Unqueue(h) \/ GetAttempt(h) \/ PutAttempt(h) \/ Reloaded(h)
    <3>1. coins' = coins
      BY <2>2 DEF Queue, Unqueue, GetAttempt, PutAttempt, Reloaded, AddPendingPayment,
                  DeletePendingPayment, PutPendingPayment
    <3> QED
      BY <3>1
  <2>3. CASE DropCoin(h) \/ DropPaid(h)
    <3>1. PICK t : coins' = [coins EXCEPT ![DbOf(t)] = @ \ {work[h].token}]
      BY <2>3 DEF DropCoin, DropPaid, DeleteCoin
    <3>2. c = work[h].token
      BY <1>0, <3>1
    <3>3. work[h].pc \in Settling
      BY <2>3 DEF DropCoin, DropPaid, At, Settling
    <3> QED
      BY <1>0, <3>2, <3>3 DEF IInv, KnowsSpent
  <2> QED
    BY <2>1, <2>2, <2>3
<1>3. CASE Use
  <2>1. PICK t \in Tab : \/ OpenPayment(t) \/ Logout(t) \/ Reload(t)
                         \/ \E u \in User : Login(t, u)
                         \/ \E x \in Token : Save(t, x) \/ RemoveCoin(t, x) \/ Redeem(t, x)
                         \/ \E r \in tabs[t].list : Discard(t, r)
    BY <1>3 DEF Use
  <2>2. CASE \/ OpenPayment(t) \/ Logout(t) \/ Reload(t)
             \/ \E u \in User : Login(t, u)
             \/ \E x \in Token : Redeem(t, x)
             \/ \E r \in tabs[t].list : Discard(t, r)
    <3>1. coins' = coins
      BY <2>2 DEF OpenPayment, Logout, Reload, Login, Redeem, Discard
    <3> QED
      BY <3>1
  <2>3. ASSUME NEW x \in Token, Save(t, x) PROVE FALSE
    BY <1>0, <2>3 DEF Save, PutCoin
  <2>4. ASSUME NEW x \in Token, RemoveCoin(t, x) PROVE RemoveCoin(t, c)
    <3>1. coins' = [coins EXCEPT ![DbOf(t)] = @ \ {x}]
      BY <2>4 DEF RemoveCoin, DeleteCoin
    <3>2. c = x
      BY <1>0, <3>1
    <3> QED
      BY <2>4, <3>2
  <2> QED
    BY <2>1, <2>2, <2>3, <2>4
<1> QED
  BY <1>1, <1>2, <1>3 DEF Next

LEMMA InitIInv == Init => IInv
<1> SUFFICES ASSUME Init PROVE IInv
  OBVIOUS
<1>1. \A h \in Slot : work[h] = Idle
  BY DEF Init
<1>2. Functional
  BY <1>1 DEF Init, Functional, Shaped, Idle
<1>3. KnowsSpent(Idle, spent)
  BY DEF KnowsSpent, Idle, Settling
<1> QED
  BY <1>1, <1>2, <1>3 DEF IInv

\* No handler of the pages deletes a coin that is still worth anything, however late it goes on,
\* in whichever tab, and whoever is logged in by then: CoinKept, for any number of users, tabs,
\* tokens and handlers.
THEOREM CoinsKept == Spec => CoinKept
<1>1. IInv /\ [Next]_vars => IInv'
  BY PressIInv, ReplyIInv, StepIInv, UseIInv, StutterIInv DEF Next
<1>2. IInv /\ [Next]_vars =>
        [\A d \in Database : \A c \in coins[d] \ coins'[d] :
            spent[c] # Nobody \/ \E t \in Tab : RemoveCoin(t, c)]_vars
  BY StepKeepsCoins
<1> QED
  BY <1>1, <1>2, InitIInv, PTL DEF Spec, CoinKept

-----------------------------------------------------------------------------
(***************************************************************************)
(* What the wallet holds.  Its types, with the labels each kind of handler *)
(* can be at.                                                              *)
(***************************************************************************)
Label == {"post", "dropPaid", "dropCoin", "settle", "queue", "get", "put", "unqueue", "reload"}

Fits(kind, pc) ==
    \/ pc \in {"post", "dropCoin"}
    \/ kind = "submit" /\ pc \in {"dropPaid", "queue", "reload"}
    \/ kind = "retry" /\ pc \in {"settle", "get", "put", "unqueue", "reload"}

Request == {w \in [kind : Kind, tab : Tab, by : User, pc : Label, token : Token, id : 0 .. MaxId,
                   db : Database \cup {Unopened}] :
               /\ Fits(w.kind, w.pc) /\ (w.kind = "retry" => w.id # 0)
               /\ w.pc = "put" => w.db \in Database}

TabState == [user : Database, db : Database \cup {Unopened}, list : SUBSET Record,
             last : Token \cup {NoToken}]

TabsTyped == tabs \in [Tab -> TabState]
WorkTyped == work \in [Slot -> Request \cup {Idle}]
SpentTyped == spent \in [Token -> User \cup {Nobody, Escrow}]
QueueTyped ==
    /\ pending \in [Database -> SUBSET Record] /\ lastId \in [Database -> 0 .. MaxId]
    /\ \A d \in Database : \A r, s \in pending[d] :
          r.id <= lastId[d] /\ (r.id = s.id => r = s)

TInv == TabsTyped /\ WorkTyped /\ SpentTyped /\ QueueTyped /\ strayed \in BOOLEAN

-----------------------------------------------------------------------------
(* The tab an action leaves, field by field.                               *)
TabAs(u, d, l, x) == [user |-> u, db |-> d, list |-> l, last |-> x]

LEMMA DbOfTyped == ASSUME TabsTyped, NEW t \in Tab PROVE DbOf(t) \in Database
  BY DEF TabsTyped, TabState, DbOf, Database

LEMMA OpenedAs ==
  ASSUME TabsTyped, NEW t \in Tab
  PROVE  Opened(t) = [tabs EXCEPT ![t] = TabAs(tabs[t].user, DbOf(t), tabs[t].list, tabs[t].last)]
<1>1. [tabs[t] EXCEPT !.db = DbOf(t)] = TabAs(tabs[t].user, DbOf(t), tabs[t].list, tabs[t].last)
  BY DEF TabsTyped, TabState, TabAs
<1> QED
  BY <1>1 DEF Opened

LEMMA LoadPendingAs ==
  ASSUME TabsTyped, NEW t \in Tab
  PROVE  LoadPending(t) = [tabs EXCEPT ![t] = TabAs(tabs[t].user, DbOf(t), pending[DbOf(t)],
                                                    tabs[t].last)]
<1> DEFINE opened == [tabs[t] EXCEPT !.db = DbOf(t)]
<1>1. opened = TabAs(tabs[t].user, DbOf(t), tabs[t].list, tabs[t].last)
  BY DEF TabsTyped, TabState, TabAs
<1>2. [opened EXCEPT !.list = pending[DbOf(t)]]
        = TabAs(tabs[t].user, DbOf(t), pending[DbOf(t)], tabs[t].last)
  <2> HIDE DEF opened
  <2> QED
    BY <1>1 DEF TabAs
<1>3. LoadPending(t) = [tabs EXCEPT ![t] = [opened EXCEPT !.list = pending[DbOf(t)]]]
  BY DEF LoadPending, TabsTyped
<1> QED
  BY <1>2, <1>3

\* A field of the tab that an action changes besides.
LEMMA OpenedLast ==
  ASSUME TabsTyped, NEW t \in Tab, NEW v
  PROVE  [Opened(t) EXCEPT ![t].last = v] = [tabs EXCEPT ![t] = TabAs(tabs[t].user, DbOf(t), tabs[t].list, v)]
<1>1. PICK tab : tab = TabAs(tabs[t].user, DbOf(t), tabs[t].list, tabs[t].last)
  OBVIOUS
<1>2. PICK f : f = Opened(t)
  OBVIOUS
<1>3. f = [tabs EXCEPT ![t] = tab]
  BY <1>1, <1>2, OpenedAs
<1>4. [f EXCEPT ![t].last = v] = [tabs EXCEPT ![t] = [tab EXCEPT !.last = v]]
  BY <1>3 DEF TabsTyped
<1>5. [tab EXCEPT !.last = v] = TabAs(tabs[t].user, DbOf(t), tabs[t].list, v)
  BY <1>1 DEF TabAs
<1> QED
  BY <1>2, <1>4, <1>5

LEMMA OpenedList ==
  ASSUME TabsTyped, NEW t \in Tab, NEW v
  PROVE  [Opened(t) EXCEPT ![t].list = v] = [tabs EXCEPT ![t] = TabAs(tabs[t].user, DbOf(t), v, tabs[t].last)]
<1>1. PICK tab : tab = TabAs(tabs[t].user, DbOf(t), tabs[t].list, tabs[t].last)
  OBVIOUS
<1>2. PICK f : f = Opened(t)
  OBVIOUS
<1>3. f = [tabs EXCEPT ![t] = tab]
  BY <1>1, <1>2, OpenedAs
<1>4. [f EXCEPT ![t].list = v] = [tabs EXCEPT ![t] = [tab EXCEPT !.list = v]]
  BY <1>3 DEF TabsTyped
<1>5. [tab EXCEPT !.list = v] = TabAs(tabs[t].user, DbOf(t), v, tabs[t].last)
  BY <1>1 DEF TabAs
<1> QED
  BY <1>2, <1>4, <1>5

LEMMA LoadedLast ==
  ASSUME TabsTyped, NEW t \in Tab, NEW v
  PROVE  [LoadPending(t) EXCEPT ![t].last = v] = [tabs EXCEPT ![t] = TabAs(tabs[t].user, DbOf(t), pending[DbOf(t)], v)]
<1>1. PICK tab : tab = TabAs(tabs[t].user, DbOf(t), pending[DbOf(t)], tabs[t].last)
  OBVIOUS
<1>2. PICK f : f = LoadPending(t)
  OBVIOUS
<1>3. f = [tabs EXCEPT ![t] = tab]
  BY <1>1, <1>2, LoadPendingAs
<1>4. [f EXCEPT ![t].last = v] = [tabs EXCEPT ![t] = [tab EXCEPT !.last = v]]
  BY <1>3 DEF TabsTyped
<1>5. [tab EXCEPT !.last = v] = TabAs(tabs[t].user, DbOf(t), pending[DbOf(t)], v)
  BY <1>1 DEF TabAs
<1> QED
  BY <1>2, <1>4, <1>5

LEMMA UserGone ==
  ASSUME TabsTyped, NEW t \in Tab
  PROVE  [tabs EXCEPT ![t].user = Nobody]
           = [tabs EXCEPT ![t] = TabAs(Nobody, tabs[t].db, tabs[t].list, tabs[t].last)]
<1>1. [tabs[t] EXCEPT !.user = Nobody] = TabAs(Nobody, tabs[t].db, tabs[t].list, tabs[t].last)
  BY DEF TabsTyped, TabState, TabAs
<1> QED
  BY <1>1

LEMMA ClosedAs ==
  ASSUME NEW u
  PROVE  [Closed EXCEPT !.user = u] = TabAs(u, Unopened, {}, NoToken)
  BY DEF Closed, TabAs

LEMMA TabTyped ==
  ASSUME TabsTyped, NEW t \in Tab, NEW u \in Database, NEW d \in Database \cup {Unopened},
         NEW l \in SUBSET Record, NEW x \in Token \cup {NoToken},
         tabs' = [tabs EXCEPT ![t] = TabAs(u, d, l, x)]
  PROVE  TabsTyped'
<1>1. TabAs(u, d, l, x) \in TabState
  BY DEF TabAs, TabState
<1> QED
  BY <1>1 DEF TabsTyped

-----------------------------------------------------------------------------
(* The queue's three transactions.                                         *)

LEMMA AddTyped ==
  ASSUME TInv, NEW t \in Tab, NEW token \in Token, AddPendingPayment(t, token)
  PROVE  QueueTyped'
<1> DEFINE d == DbOf(t)
           new == [id |-> lastId[d] + 1, token |-> token]
<1>0. d \in Database
  BY DbOfTyped DEF TInv
<1> HIDE DEF d
<1>1. /\ lastId[d] < MaxId /\ lastId' = [lastId EXCEPT ![d] = @ + 1]
      /\ pending' = [pending EXCEPT ![d] = @ \cup {new}]
  BY DEF AddPendingPayment, d
<1>2. new \in Record /\ new.id = lastId[d] + 1
  BY <1>0, <1>1, BoundAssumption DEF TInv, QueueTyped, Record
<1> HIDE DEF new
<1>3. pending' \in [Database -> SUBSET Record]
  BY <1>0, <1>1, <1>2 DEF TInv, QueueTyped
<1>4. lastId' \in [Database -> 0 .. MaxId]
  BY <1>0, <1>1, BoundAssumption DEF TInv, QueueTyped
<1>5. ASSUME NEW e \in Database, NEW r \in pending'[e], NEW s \in pending'[e]
      PROVE  r.id <= lastId'[e] /\ (r.id = s.id => r = s)
  <2>1. CASE e # d
    BY <1>0, <1>1, <1>5, <2>1 DEF TInv, QueueTyped
  <2>2. CASE e = d
    <3>1. lastId'[e] = lastId[d] + 1 /\ pending'[e] = pending[d] \cup {new} /\ lastId[d] \in Nat
      BY <1>0, <1>1, <2>2, BoundAssumption DEF TInv, QueueTyped
    <3>2. \A p \in pending[d] : p.id \in Nat /\ p.id <= lastId[d]
      BY <1>0, BoundAssumption DEF TInv, QueueTyped, Record
    <3>3. \A p, q \in pending[d] : p.id = q.id => p = q
      BY <1>0 DEF TInv, QueueTyped
    <3> QED
      BY <1>2, <1>5, <3>1, <3>2, <3>3
  <2> QED
    BY <2>1, <2>2
<1> QED
  BY <1>3, <1>4, <1>5 DEF QueueTyped

\* A queue some records have left.
LEMMA FewerTyped ==
  ASSUME TInv, NEW d \in Database, NEW kept \in SUBSET pending[d],
         pending' = [pending EXCEPT ![d] = kept], lastId' = lastId
  PROVE  QueueTyped'
  BY DEF TInv, QueueTyped

LEMMA DeleteTyped ==
  ASSUME TInv, NEW t \in Tab, NEW id, DeletePendingPayment(t, id)
  PROVE  QueueTyped'
<1>1. DbOf(t) \in Database
  BY DbOfTyped DEF TInv
<1>2. pending' = [pending EXCEPT ![DbOf(t)] = {r \in pending[DbOf(t)] : r.id # id}]
  BY DEF DeletePendingPayment
<1>3. lastId' = lastId
  BY DEF DeletePendingPayment
<1> QED
  BY <1>1, <1>2, <1>3, FewerTyped

LEMMA PutTyped ==
  ASSUME TInv, NEW d \in Database, NEW record \in Record, PutPendingPayment(d, record)
  PROVE  QueueTyped' /\ \A e \in Database : lastId[e] <= lastId'[e]
<1> DEFINE last == IF record.id > lastId[d] THEN record.id ELSE lastId[d]
           rest == {r \in pending[d] : r.id # record.id}
<1>0. d \in Database
  OBVIOUS
<1>1. /\ lastId' = [lastId EXCEPT ![d] = last]
      /\ pending' = [pending EXCEPT ![d] = rest \cup {record}]
  BY DEF PutPendingPayment
<1>2. record.id \in Nat /\ record.id <= MaxId /\ lastId[d] \in Nat /\ lastId[d] <= MaxId
  BY <1>0, BoundAssumption DEF TInv, QueueTyped, Record
<1>3. last \in 0 .. MaxId /\ last >= lastId[d] /\ last >= record.id
  BY <1>2, BoundAssumption
<1> HIDE DEF last
<1>4. rest \subseteq pending[d] /\ \A r \in rest : r.id # record.id
  OBVIOUS
<1> HIDE DEF rest
<1>5. pending' \in [Database -> SUBSET Record] /\ lastId' \in [Database -> 0 .. MaxId]
  BY <1>0, <1>1, <1>3, <1>4 DEF TInv, QueueTyped
<1>6. ASSUME NEW e \in Database, NEW r \in pending'[e], NEW s \in pending'[e]
      PROVE  r.id <= lastId'[e] /\ (r.id = s.id => r = s)
  <2>1. CASE e # d
    BY <1>0, <1>1, <1>6, <2>1 DEF TInv, QueueTyped
  <2>2. CASE e = d
    <3>1. lastId'[e] = last /\ pending'[e] = rest \cup {record} /\ last \in Nat
      BY <1>0, <1>1, <1>3, <2>2, BoundAssumption DEF TInv, QueueTyped
    <3>2. \A p \in rest : p.id \in Nat /\ p.id <= lastId[d]
      BY <1>0, <1>4, BoundAssumption DEF TInv, QueueTyped, Record
    <3>3. \A p, q \in rest : p.id = q.id => p = q
      BY <1>0, <1>4 DEF TInv, QueueTyped
    <3> QED
      BY <1>2, <1>3, <1>4, <1>6, <3>1, <3>2, <3>3
  <2> QED
    BY <2>1, <2>2
<1>7. \A e \in Database : lastId[e] <= lastId'[e]
  BY <1>0, <1>1, <1>2, <1>3, BoundAssumption DEF TInv, QueueTyped
<1> QED
  BY <1>5, <1>6, <1>7 DEF QueueTyped

-----------------------------------------------------------------------------
(* The types are kept.                                                     *)

LEMMA RunningTyped ==
  ASSUME WorkTyped, NEW h \in Slot, work[h].pc # "none"
  PROVE  work[h] \in Request
  BY DEF WorkTyped, Idle

LEMMA RequestFields ==
  ASSUME NEW w \in Request
  PROVE  /\ w.kind \in Kind /\ w.tab \in Tab /\ w.by \in User /\ w.pc \in Label
         /\ w.token \in Token /\ w.id \in 0 .. MaxId
         /\ Fits(w.kind, w.pc) /\ (w.kind = "retry" => w.id # 0)
         /\ w.db \in Database \cup {Unopened} /\ (w.pc = "put" => w.db \in Database)
         /\ Shaped(w)
  BY DEF Request, Shaped

LEMMA SlotTyped ==
  ASSUME WorkTyped, NEW h \in Slot, NEW next \in Request \cup {Idle},
         work' = [work EXCEPT ![h] = next]
  PROVE  WorkTyped'
  BY DEF WorkTyped

LEMMA GotoTyped ==
  ASSUME WorkTyped, NEW h \in Slot, work[h].pc # "none", NEW pc, Goto(h, pc),
         pc = "done" \/ (pc \in Label \ {"put"} /\ Fits(work[h].kind, pc))
  PROVE  WorkTyped'
<1>1. work[h] \in Request
  BY RunningTyped
<1>2. CASE pc = "done"
  BY <1>2, SlotTyped DEF Goto
<1>3. CASE pc # "done"
  <2> DEFINE next == [work[h] EXCEPT !.pc = pc]
  <2>1. next \in Request
    BY <1>1, <1>3 DEF Request
  <2>2. work' = [work EXCEPT ![h] = next]
    BY <1>3 DEF Goto
  <2> QED
    BY <2>1, <2>2, SlotTyped
<1> QED
  BY <1>2, <1>3

LEMMA PressTInv == TInv /\ Press => TInv'
<1> SUFFICES ASSUME TInv, Press PROVE TInv'
  OBVIOUS
<1>1. PICK h \in Slot, t \in Tab :
        \/ \E c \in Token : BeginSubmit(h, t, c) \/ BeginLock(h, t, c)
        \/ \E r \in tabs[t].list : BeginRetry(h, t, r)
        \/ BeginResubmit(h, t)
  BY DEF Press
<1>2. tabs[t] \in TabState
  BY DEF TInv, TabsTyped
<1>3. \E kind \in Kind, token \in Token, id \in 0 .. MaxId :
        Begin(h, t, kind, token, id) /\ (kind = "retry" => id # 0)
  <2>1. ASSUME NEW c \in Token, BeginSubmit(h, t, c) \/ BeginLock(h, t, c) PROVE <1>3
    BY <2>1, BoundAssumption DEF BeginSubmit, BeginLock, Kind
  <2>2. ASSUME NEW r \in tabs[t].list, BeginRetry(h, t, r) PROVE <1>3
    <3>1. r \in Record
      BY <1>2, <2>2 DEF TabState
    <3> QED
      BY <2>2, <3>1, BoundAssumption DEF BeginRetry, Record, Kind
  <2>3. CASE BeginResubmit(h, t)
    <3>1. tabs[t].last \in Token
      BY <1>2, <2>3 DEF BeginResubmit, TabState
    <3> QED
      BY <2>3, <3>1, BoundAssumption DEF BeginResubmit, Kind
  <2> QED
    BY <1>1, <2>1, <2>2, <2>3
<1>4. PICK kind \in Kind, token \in Token, id \in 0 .. MaxId :
        Begin(h, t, kind, token, id) /\ (kind = "retry" => id # 0)
  BY <1>3
<1> DEFINE next == [kind |-> kind, tab |-> t, by |-> tabs[t].user, pc |-> "post",
                    token |-> token, id |-> id, db |-> Unopened]
<1>5. tabs[t].user \in User
  BY <1>2, <1>4 DEF Begin, TabState, Database
<1>6. next \in Request
  BY <1>4, <1>5 DEF Request, Fits, Label
<1>7. work' = [work EXCEPT ![h] = next]
  BY <1>4 DEF Begin
<1> HIDE DEF next
<1>8. WorkTyped'
  BY <1>6, <1>7, SlotTyped DEF TInv
<1>9. UNCHANGED <<tabs, spent, pending, lastId, strayed>>
  BY <1>1 DEF BeginSubmit, BeginLock, BeginRetry, BeginResubmit, history
<1> QED
  BY <1>8, <1>9 DEF TInv, TabsTyped, SpentTyped, QueueTyped

\* The label a handler has when its answer is there.
LEMMA AfterFits ==
  ASSUME NEW kind \in Kind, NEW answer \in {"ok", "double", "unavailable", "refused"}
  PROVE  \/ After(kind, answer) = "done"
         \/ After(kind, answer) \in Label \ {"put"} /\ Fits(kind, After(kind, answer))
  BY DEF After, Kind, Label, Fits

LEMMA PostTyped ==
  ASSUME TInv, NEW h \in Slot, NEW answer \in {"ok", "double", "unavailable", "refused"},
         Post(h, answer)
  PROVE  WorkTyped' /\ work[h] \in Request
<1>1. work[h] \in Request
  BY RunningTyped DEF TInv, Post
<1>2. work[h].kind \in Kind
  BY <1>1 DEF Request
<1> QED
  BY <1>1, <1>2, AfterFits, GotoTyped DEF Post, TInv

LEMMA ReplyTInv == TInv /\ Reply => TInv'
<1> SUFFICES ASSUME TInv, NEW h \in Slot,
                    Honoured(h) \/ DoubleSpend(h) \/ Unavailable(h) \/ Refused(h)
             PROVE  TInv'
  BY DEF Reply
<1>1. WorkTyped' /\ work[h] \in Request
  BY PostTyped DEF Honoured, DoubleSpend, Unavailable, Refused
<1>2. QueueTyped' /\ strayed' \in BOOLEAN
  BY DEF Honoured, DoubleSpend, Unavailable, Refused, TInv, QueueTyped, history
<1>3. SpentTyped'
  <2>1. CASE Honoured(h)
    <3>1. work[h].by \in User
      BY <1>1 DEF Request
    <3> QED
      BY <2>1, <3>1 DEF Honoured, TInv, SpentTyped
  <2>2. CASE DoubleSpend(h) \/ Unavailable(h) \/ Refused(h)
    BY <2>2 DEF DoubleSpend, Unavailable, Refused, TInv, SpentTyped
  <2> QED
    BY <2>1, <2>2
<1>4. TabsTyped'
  <2>1. CASE UNCHANGED tabs
    BY <2>1 DEF TInv, TabsTyped
  <2>2. CASE tabs' = [tabs EXCEPT ![work[h].tab].user = Nobody]
    <3> DEFINE t == work[h].tab
    <3>1. t \in Tab
      BY <1>1 DEF Request
    <3> HIDE DEF t
    <3>2. tabs[t] \in TabState
      BY <3>1 DEF TInv, TabsTyped
    <3>3. tabs' = [tabs EXCEPT ![t] = TabAs(Nobody, tabs[t].db, tabs[t].list, tabs[t].last)]
      BY <2>2, <3>1, UserGone DEF TInv, t
    <3> QED
      BY <3>1, <3>2, <3>3, TabTyped DEF TInv, TabState, Database
  <2> QED
    BY <2>1, <2>2 DEF Honoured, DoubleSpend, Unavailable, Refused
<1> QED
  BY <1>1, <1>2, <1>3, <1>4 DEF TInv

\* The tab a handler goes on in, whose wallet is open by then.
LEMMA OpenedTyped ==
  ASSUME TInv, NEW t \in Tab, tabs' = Opened(t)
  PROVE  TabsTyped'
<1>1. tabs[t] \in TabState /\ DbOf(t) \in Database
  BY DbOfTyped DEF TInv, TabsTyped
<1> QED
  BY <1>1, OpenedAs, TabTyped DEF TInv, TabState

LEMMA LoadedTyped ==
  ASSUME TInv, NEW t \in Tab, NEW x \in Token \cup {NoToken}, NEW l \in SUBSET Record,
         tabs' = [tabs EXCEPT ![t] = TabAs(tabs[t].user, DbOf(t), l, x)]
  PROVE  TabsTyped'
<1>1. tabs[t] \in TabState /\ DbOf(t) \in Database
  BY DbOfTyped DEF TInv, TabsTyped
<1> QED
  BY <1>1, TabTyped DEF TInv, TabState

LEMMA StepTInv == TInv /\ Step => TInv'
<1> SUFFICES ASSUME TInv, NEW h \in Slot,
                    \/ Queue(h) \/ DropCoin(h) \/ DropPaid(h) \/ Unqueue(h)
                    \/ GetAttempt(h) \/ PutAttempt(h) \/ Reloaded(h)
             PROVE  TInv'
  BY DEF Step
<1> DEFINE t == work[h].tab
           w == work[h]
<1>1. w.pc # "none" /\ w.pc \in {"queue", "dropCoin", "dropPaid", "settle", "unqueue",
                                  "get", "put", "reload"}
  BY DEF Queue, DropCoin, DropPaid, Unqueue, GetAttempt, PutAttempt, Reloaded, At
<1>2. w \in Request
  BY <1>1, RunningTyped DEF TInv
<1>3. t \in Tab /\ w.token \in Token /\ w.kind \in Kind /\ Fits(w.kind, w.pc)
      /\ w.id \in 0 .. MaxId /\ (w.kind = "retry" => w.id # 0)
  BY <1>2 DEF Request
<1>4. SpentTyped' /\ strayed' \in BOOLEAN
  BY DEF Queue, DropCoin, DropPaid, Unqueue, GetAttempt, PutAttempt, Reloaded, At, TInv,
            SpentTyped, history
<1>5. tabs[t] \in TabState /\ DbOf(t) \in Database
  BY <1>3, DbOfTyped DEF TInv, TabsTyped
<1>6. CASE Queue(h)
  <2>1. AddPendingPayment(t, w.token) /\ Goto(h, "reload") /\ w.pc = "queue"
    BY <1>6 DEF Queue, At
  <2>2. tabs' = Opened(t)
    BY <2>1 DEF AddPendingPayment
  <2>3. "reload" \in Label /\ Fits(w.kind, "reload")
    BY <1>3, <2>1 DEF Fits, Label
  <2> HIDE DEF t, w
  <2>4. QueueTyped' /\ TabsTyped'
    BY <1>3, <2>1, <2>2, AddTyped, OpenedTyped
  <2>5. WorkTyped'
    BY <1>1, <2>1, <2>3, GotoTyped DEF TInv, w
  <2> QED
    BY <1>4, <2>4, <2>5 DEF TInv
<1>7. CASE DropCoin(h)
  <2>1. DeleteCoin(t, w.token) /\ w.pc = "dropCoin"
    BY <1>7 DEF DropCoin, At
  <2>2. PICK pc \in {"reload", "done"} : Goto(h, pc) /\ (pc = "reload" => w.kind = "retry")
    BY <1>7 DEF DropCoin
  <2>3. pc = "done" \/ (pc \in Label /\ Fits(w.kind, pc))
    BY <2>2 DEF Fits, Label
  <2>4. tabs' = Opened(t) /\ UNCHANGED <<pending, lastId>>
    BY <2>1 DEF DeleteCoin
  <2> HIDE DEF t, w
  <2>5. QueueTyped' /\ TabsTyped'
    BY <1>3, <2>4, OpenedTyped DEF TInv, QueueTyped
  <2>6. WorkTyped'
    BY <1>1, <2>2, <2>3, GotoTyped DEF TInv, w
  <2> QED
    BY <1>4, <2>5, <2>6 DEF TInv
<1>8. CASE DropPaid(h)
  <2>1. Goto(h, "done") /\ UNCHANGED <<pending, lastId>>
        /\ (tabs' = [Opened(t) EXCEPT ![t].last = w.token] \/ tabs' = Opened(t))
    BY <1>8 DEF DropPaid
  <2> HIDE DEF t, w
  <2>2. [Opened(t) EXCEPT ![t].last = w.token]
          = [tabs EXCEPT ![t] = TabAs(tabs[t].user, DbOf(t), tabs[t].list, w.token)]
    BY <1>3, OpenedLast DEF TInv
  <2>3. TabsTyped'
    <3>1. CASE tabs' = Opened(t)
      BY <1>3, <3>1, OpenedTyped
    <3>2. CASE tabs' = [Opened(t) EXCEPT ![t].last = w.token]
      BY <1>3, <1>5, <2>2, <3>2, LoadedTyped DEF TabState
    <3> QED
      BY <2>1, <3>1, <3>2
  <2>4. QueueTyped' /\ WorkTyped'
    BY <1>1, <2>1, GotoTyped DEF TInv, QueueTyped, w
  <2> QED
    BY <1>4, <2>3, <2>4 DEF TInv
<1>9. CASE Unqueue(h)
  <2>1. PICK pc \in {"settle", "unqueue"} :
          w.pc = pc /\ Goto(h, IF pc = "settle" THEN "dropCoin" ELSE "reload")
    BY <1>9 DEF Unqueue, At
  <2>2. PICK next \in {"dropCoin", "reload"} : Goto(h, next)
    BY <2>1
  <2>3. DeletePendingPayment(t, w.id)
    BY <1>9 DEF Unqueue
  <2>4. w.kind = "retry"
    BY <1>3, <2>1 DEF Fits
  <2>5. next \in Label /\ Fits(w.kind, next)
    BY <2>4 DEF Fits, Label
  <2>6. tabs' = Opened(t)
    BY <2>3 DEF DeletePendingPayment
  <2> HIDE DEF t, w
  <2>7. QueueTyped' /\ TabsTyped'
    BY <1>3, <2>3, <2>6, DeleteTyped, OpenedTyped
  <2>8. WorkTyped'
    BY <1>1, <2>2, <2>5, GotoTyped DEF TInv, w
  <2> QED
    BY <1>4, <2>7, <2>8 DEF TInv
<1>10. CASE GetAttempt(h)
  <2>1. w.pc = "get" /\ tabs' = Opened(t) /\ UNCHANGED <<pending, lastId>>
    BY <1>10 DEF GetAttempt, At
  <2>2. w.kind = "retry"
    BY <1>3, <2>1 DEF Fits
  <2>3. QueueTyped' /\ TabsTyped'
    <3> HIDE DEF t, w
    <3> QED
      BY <1>3, <2>1, OpenedTyped DEF TInv, QueueTyped
  <2>4. CASE Goto(h, "reload")
    <3>1. "reload" \in Label /\ Fits(w.kind, "reload")
      BY <2>2 DEF Fits, Label
    <3> HIDE DEF t, w
    <3>2. WorkTyped'
      BY <1>1, <2>4, <3>1, GotoTyped DEF TInv, w
    <3> QED
      BY <1>4, <2>3, <3>2 DEF TInv
  <2>5. ASSUME NEW r \in pending[DbOf(t)],
               work' = [work EXCEPT ![h] = Found(@, r, DbOf(t))]
        PROVE  TInv'
    <3>1. r.token \in Token
      BY <1>5, <2>5 DEF TInv, QueueTyped, Record
    <3>2. PICK next : next = Found(w, r, DbOf(t))
      OBVIOUS
    <3>3. work' = [work EXCEPT ![h] = next]
      BY <2>5, <3>2
    <3>4. next \in Request
      <4>1. next = [kind |-> w.kind, tab |-> w.tab, by |-> w.by, pc |-> "put",
                    token |-> r.token, id |-> w.id, db |-> DbOf(t)]
        BY <1>2, <3>2, RequestFields, FoundAs
      <4> QED
        BY <1>2, <1>5, <2>2, <3>1, <4>1, RequestFields DEF Request, Fits, Label
    <3>5. WorkTyped'
      BY <3>3, <3>4, SlotTyped DEF TInv
    <3> QED
      BY <1>4, <2>3, <3>5 DEF TInv
  <2> QED
    BY <1>10, <2>4, <2>5 DEF GetAttempt, Found
<1>11. CASE PutAttempt(h)
  <2> DEFINE record == [id |-> w.id, token |-> w.token]
  <2>1. w.pc = "put" /\ PutPendingPayment(w.db, record) /\ Goto(h, "reload")
    BY <1>11 DEF PutAttempt
  <2>2. w.kind = "retry" /\ w.db \in Database
    BY <1>2, <2>1, RequestFields DEF Fits
  <2>3. record \in Record
    BY <1>3, <2>2, BoundAssumption DEF Record
  <2>4. "reload" \in Label /\ Fits(w.kind, "reload")
    BY <2>2 DEF Fits, Label
  <2>5. tabs' = tabs
    BY <2>1 DEF PutPendingPayment
  <2> HIDE DEF record, t, w
  <2>6. QueueTyped' /\ TabsTyped'
    BY <2>1, <2>2, <2>3, <2>5, PutTyped DEF TInv, TabsTyped
  <2>7. WorkTyped'
    BY <1>1, <2>1, <2>4, GotoTyped DEF TInv, w
  <2> QED
    BY <1>4, <2>6, <2>7 DEF TInv
<1>12. CASE Reloaded(h)
  <2>1. tabs' = LoadPending(t) /\ Goto(h, "done") /\ UNCHANGED <<pending, lastId>>
    BY <1>12 DEF Reloaded
  <2> HIDE DEF t, w
  <2>2. pending[DbOf(t)] \in SUBSET Record
    BY <1>5 DEF TInv, QueueTyped
  <2>3. TabsTyped'
    BY <1>3, <1>5, <2>1, <2>2, LoadPendingAs, LoadedTyped DEF TInv, TabState
  <2>4. QueueTyped' /\ WorkTyped'
    BY <1>1, <2>1, GotoTyped DEF TInv, QueueTyped, w
  <2> QED
    BY <1>4, <2>3, <2>4 DEF TInv
<1> QED
  BY <1>6, <1>7, <1>8, <1>9, <1>10, <1>11, <1>12

LEMMA UseTInv == TInv /\ Use => TInv'
<1> SUFFICES ASSUME TInv, NEW t \in Tab,
                    \/ OpenPayment(t) \/ Logout(t) \/ Reload(t)
                    \/ \E u \in User : Login(t, u)
                    \/ \E c \in Token : Save(t, c) \/ RemoveCoin(t, c) \/ Redeem(t, c)
                    \/ \E r \in tabs[t].list : Discard(t, r)
             PROVE  TInv'
  BY DEF Use
<1>1. tabs[t] \in TabState /\ DbOf(t) \in Database /\ pending[DbOf(t)] \in SUBSET Record
  BY DbOfTyped DEF TInv, TabsTyped, QueueTyped
<1>2. strayed' \in BOOLEAN
  BY DEF TInv, OpenPayment, Logout, Reload, Login, Save, RemoveCoin, Redeem, Discard, history
<1>3. SpentTyped'
  <2>1. ASSUME NEW c \in Token, Redeem(t, c) PROVE SpentTyped'
    <3>1. tabs[t].user \in User
      BY <1>1, <2>1 DEF Redeem, TabState, Database
    <3> QED
      BY <2>1, <3>1 DEF Redeem, TInv, SpentTyped
  <2> QED
    BY <2>1 DEF OpenPayment, Logout, Reload, Login, Save, RemoveCoin, Discard, TInv, SpentTyped
<1>4. WorkTyped'
  <2>1. CASE Reload(t)
    BY <2>1 DEF Reload, TInv, WorkTyped
  <2> QED
    BY <2>1 DEF OpenPayment, Logout, Login, Save, RemoveCoin, Redeem, Discard, TInv, WorkTyped
<1>5. QueueTyped'
  <2>1. ASSUME NEW r \in tabs[t].list, Discard(t, r) PROVE QueueTyped'
    <3>1. pending' = [pending EXCEPT ![DbOf(t)] = {s \in pending[DbOf(t)] : s.id # r.id}]
      BY <2>1 DEF Discard
    <3>2. lastId' = lastId
      BY <2>1 DEF Discard
    <3> QED
      BY <1>1, <3>1, <3>2, FewerTyped
  <2> QED
    BY <2>1 DEF OpenPayment, Logout, Reload, Login, Save, RemoveCoin, DeleteCoin, Redeem, TInv,
                QueueTyped
<1>6. TabsTyped'
  <2>1. CASE OpenPayment(t)
    <3>1. tabs' = [tabs EXCEPT ![t] = TabAs(tabs[t].user, DbOf(t), pending[DbOf(t)], NoToken)]
      BY <2>1, LoadedLast DEF OpenPayment, TInv
    <3> QED
      BY <1>1, <3>1, LoadedTyped
  <2>2. ASSUME NEW u \in Database, tabs' = [tabs EXCEPT ![t] = [Closed EXCEPT !.user = u]]
        PROVE  TabsTyped'
    <3>1. tabs' = [tabs EXCEPT ![t] = TabAs(u, Unopened, {}, NoToken)]
      BY <2>2, ClosedAs
    <3> QED
      BY <3>1, TabTyped DEF TInv
  <2>3. Closed = [Closed EXCEPT !.user = Nobody]
    BY DEF Closed
  <2>4. CASE Logout(t)
    BY <2>2, <2>3, <2>4 DEF Logout, Database
  <2>5. CASE Reload(t)
    BY <1>1, <2>2, <2>5 DEF Reload, TabState
  <2>6. ASSUME NEW u \in User, Login(t, u) PROVE TabsTyped'
    BY <2>2, <2>6 DEF Login, Database
  <2>7. ASSUME NEW c \in Token, Save(t, c) \/ RemoveCoin(t, c) PROVE TabsTyped'
    BY <2>7, OpenedTyped DEF Save, PutCoin, RemoveCoin, DeleteCoin
  <2>8. ASSUME NEW c \in Token, Redeem(t, c) PROVE TabsTyped'
    BY <2>8 DEF Redeem, TInv, TabsTyped
  <2>9. ASSUME NEW r \in tabs[t].list, Discard(t, r) PROVE TabsTyped'
    <3>1. PICK l : l = {s \in pending[DbOf(t)] : s.id # r.id}
      OBVIOUS
    <3>2. pending'[DbOf(t)] = l
      BY <1>1, <2>9, <3>1 DEF Discard, TInv, QueueTyped
    <3>3. tabs' = [tabs EXCEPT ![t] = TabAs(tabs[t].user, DbOf(t), l, tabs[t].last)]
      BY <2>9, <3>2, OpenedList DEF Discard, TInv
    <3>4. l \in SUBSET Record
      BY <1>1, <3>1
    <3>5. tabs[t].last \in Token \cup {NoToken}
      BY <1>1 DEF TabState
    <3> QED
      BY <3>3, <3>4, <3>5, LoadedTyped
  <2> QED
    BY <2>1, <2>4, <2>5, <2>6, <2>7, <2>8, <2>9
<1> QED
  BY <1>2, <1>3, <1>4, <1>5, <1>6 DEF TInv

LEMMA StutterTInv == TInv /\ UNCHANGED vars => TInv'
  BY DEF TInv, TabsTyped, WorkTyped, SpentTyped, QueueTyped, vars, history

LEMMA InitTInv == Init => TInv
<1> SUFFICES ASSUME Init PROVE TInv
  OBVIOUS
<1>1. Closed \in TabState
  BY DEF Closed, TabState, Database
<1>2. TabsTyped /\ WorkTyped /\ SpentTyped /\ strayed \in BOOLEAN
  BY <1>1 DEF Init, TabsTyped, WorkTyped, SpentTyped
<1>3. QueueTyped
  BY BoundAssumption DEF Init, QueueTyped
<1> QED
  BY <1>2, <1>3 DEF TInv

LEMMA TypesKept ==
  /\ Init => IInv /\ TInv
  /\ (IInv /\ TInv) /\ [Next]_vars => (IInv /\ TInv)'
  BY InitIInv, InitTInv, PressIInv, ReplyIInv, StepIInv, UseIInv, StutterIInv,
     PressTInv, ReplyTInv, StepTInv, UseTInv, StutterTInv DEF Next

LEMMA TypedOK == IInv /\ TInv => TypeOK
<1> SUFFICES ASSUME IInv, TInv PROVE TypeOK
  OBVIOUS
<1>1. \A h \in Slot : work[h] = Idle \/ work[h].by \in User
  BY DEF TInv, WorkTyped, Request
<1>2. \A t \in Tab : tabs[t] \in TabState
  BY DEF TInv, TabsTyped
<1>3. \A t \in Tab : /\ tabs[t].user \in User \cup {Nobody}
                     /\ tabs[t].db \in Database \cup {Unopened}
                     /\ tabs[t].list \subseteq Record /\ tabs[t].last \in Token \cup {NoToken}
  BY <1>2 DEF TabState, Database
<1>4. \A d \in Database :
          /\ lastId[d] \in 0 .. MaxId
          /\ pending[d] \subseteq Record
          /\ \A r \in pending[d] : r.id <= lastId[d]
          /\ \A r, s \in pending[d] : r.id = s.id => r = s
  BY DEF TInv, QueueTyped
<1> QED
  BY <1>1, <1>3, <1>4 DEF TypeOK, IInv, Functional, TInv, SpentTyped

\* The wallet keeps its shape and its ids, whatever the handlers of any number of tabs write by
\* id: a put of a record that was deleted meanwhile never doubles an id.
THEOREM TypeOKAlways == Spec => []TypeOK
  BY TypesKept, TypedOK, PTL DEF Spec

-----------------------------------------------------------------------------
(***************************************************************************)
(* Who knows which queued payment.  A record of a database is known to it, *)
(* to the tabs that list it and to the retries that began from such a list.*)
(* As long as nobody has strayed, an id names one token of its database in *)
(* all these places, and its user presented that token; so a handler that  *)
(* deletes or overwrites by id means the record that is there.             *)
(***************************************************************************)
DbIn(tab) == IF tab.db = Unopened THEN tab.user ELSE tab.db

Noted(request) == [id |-> request.id, token |-> request.token]

Known(d, r) ==
    \/ r \in pending[d]
    \/ \E t \in Tab : DbIn(tabs[t]) = d /\ r \in tabs[t].list
    \/ \E h \in Slot : work[h].kind = "retry" /\ work[h].by = d /\ r = Noted(work[h])

KnownAgree ==
    \A d \in Database : \A r \in Record : Known(d, r) =>
        /\ r.id <= lastId[d] /\ <<d, r.token>> \in presented
        /\ \A s \in Record : Known(d, s) /\ r.id = s.id => r = s

TabHonest(tab, holder) ==
    /\ tab.db = Unopened => tab.list = {}
    /\ tab.user # Nobody /\ tab.db # Unopened => tab.db = tab.user
    /\ tab.last # NoToken => holder[tab.last] # Nobody

RequestHonest(w, holder, shown, gone) ==
    /\ w.kind = "submit" => <<w.by, w.token>> \in shown
    /\ w.kind = "resubmit" => holder[w.token] # Nobody
    /\ w.pc = "unqueue" => w.token \in gone
    /\ w.pc = "put" => w.db = w.by

Credited == \A c \in Token : spent[c] \in User => <<spent[c], c>> \in presented

Honest ==
    /\ KnownAgree
    /\ \A t \in Tab : TabHonest(tabs[t], spent)
    /\ \A h \in Slot : RequestHonest(work[h], spent, presented, refused)
    /\ Credited

JInv == IInv /\ TInv /\ (strayed \/ Honest)

-----------------------------------------------------------------------------
(* What a step must leave: nobody knows a record that was not known before.*)

TabKnown(tab, holder) == TabHonest(tab, holder) /\ \A r \in tab.list : Known(DbIn(tab), r)

RequestKnown(w, holder, shown, gone) ==
    RequestHonest(w, holder, shown, gone) /\ (w.kind = "retry" => Known(w.by, Noted(w)))

QueueKnown == \A d \in Database : \A r \in pending'[d] : Known(d, r)
TabsKnown == \A t \in Tab : TabKnown(tabs'[t], spent')
WorkKnown == \A h \in Slot : RequestKnown(work'[h], spent', presented', refused')
CountsOn == \A d \in Database : lastId[d] <= lastId'[d]
Remembers == StaysSpent /\ presented \subseteq presented' /\ refused \subseteq refused'

LEMMA HonestStep ==
  ASSUME TInv, TInv', Honest, QueueKnown, TabsKnown, WorkKnown, CountsOn, Remembers, Credited'
  PROVE  Honest'
<1>1. ASSUME NEW d \in Database, NEW r \in Record, Known(d, r)' PROVE Known(d, r)
  <2>1. CASE r \in pending'[d]
    BY <2>1 DEF QueueKnown
  <2>2. ASSUME NEW t \in Tab, DbIn(tabs'[t]) = d, r \in tabs'[t].list PROVE Known(d, r)
    BY <2>2 DEF TabsKnown, TabKnown
  <2>3. ASSUME NEW h \in Slot, work'[h].kind = "retry", work'[h].by = d, r = Noted(work'[h])
        PROVE  Known(d, r)
    BY <2>3 DEF WorkKnown, RequestKnown
  <2>4. \/ r \in pending'[d]
        \/ \E t \in Tab : DbIn(tabs'[t]) = d /\ r \in tabs'[t].list
        \/ \E h \in Slot : work'[h].kind = "retry" /\ work'[h].by = d /\ r = Noted(work'[h])
    BY <1>1 DEF Known, DbIn, Noted
  <2> QED
    BY <2>1, <2>2, <2>3, <2>4
<1>2. ASSUME NEW d \in Database, NEW r \in Record, Known(d, r)'
      PROVE  /\ r.id <= lastId'[d] /\ <<d, r.token>> \in presented'
             /\ \A s \in Record : Known(d, s)' /\ r.id = s.id => r = s
  <2>1. Known(d, r)
    BY <1>1, <1>2
  <2>2. r.id <= lastId[d] /\ <<d, r.token>> \in presented
    BY <2>1 DEF Honest, KnownAgree
  <2>3. r.id \in Nat /\ lastId[d] \in Nat /\ lastId'[d] \in Nat /\ lastId[d] <= lastId'[d]
    BY BoundAssumption DEF TInv, QueueTyped, Record, CountsOn
  <2>4. ASSUME NEW s \in Record, Known(d, s)', r.id = s.id PROVE r = s
    <3>1. Known(d, s)
      BY <1>1, <2>4
    <3> QED
      BY <2>1, <2>4, <3>1 DEF Honest, KnownAgree
  <2> QED
    BY <2>2, <2>3, <2>4 DEF Remembers
<1>3. KnownAgree'
  BY <1>2 DEF KnownAgree
<1>4. \A t \in Tab : TabHonest(tabs'[t], spent')
  BY DEF TabsKnown, TabKnown
<1>5. \A h \in Slot : RequestHonest(work'[h], spent', presented', refused')
  BY DEF WorkKnown, RequestKnown
<1> QED
  BY <1>3, <1>4, <1>5 DEF Honest

\* Whoever does not move knows what it knew.
LEMMA TabStays ==
  ASSUME TInv, Honest, Remembers, NEW t \in Tab
  PROVE  TabKnown(tabs[t], spent')
<1>1. tabs[t] \in TabState /\ TabHonest(tabs[t], spent)
  BY DEF TInv, TabsTyped, Honest
<1>2. TabHonest(tabs[t], spent')
  BY <1>1 DEF TabHonest, TabState, Remembers, StaysSpent
<1>3. \A r \in tabs[t].list : Known(DbIn(tabs[t]), r)
  BY DEF Known
<1> QED
  BY <1>2, <1>3 DEF TabKnown

LEMMA OneTab ==
  ASSUME TInv, Honest, Remembers, NEW t \in Tab, NEW next, tabs' = [tabs EXCEPT ![t] = next],
         TabKnown(next, spent')
  PROVE  TabsKnown
<1>1. ASSUME NEW u \in Tab PROVE TabKnown(tabs'[u], spent')
  <2>1. CASE u = t
    <3>1. tabs'[u] = next
      BY <2>1 DEF TInv, TabsTyped
    <3> QED
      BY <3>1
  <2>2. CASE u # t
    <3>1. tabs'[u] = tabs[u]
      BY <2>2 DEF TInv, TabsTyped
    <3> QED
      BY <3>1, TabStays
  <2> QED
    BY <2>1, <2>2
<1> QED
  BY <1>1 DEF TabsKnown

LEMMA SameTabs ==
  ASSUME TInv, Honest, Remembers, tabs' = tabs
  PROVE  TabsKnown
  BY TabStays DEF TabsKnown

LEMMA RequestStays ==
  ASSUME TInv, Honest, Remembers, NEW h \in Slot
  PROVE  RequestKnown(work[h], spent', presented', refused')
<1>1. work[h] \in Request \cup {Idle} /\ RequestHonest(work[h], spent, presented, refused)
  BY DEF TInv, WorkTyped, Honest
<1>2. RequestHonest(work[h], spent', presented', refused')
  BY <1>1 DEF RequestHonest, Request, Idle, Remembers, StaysSpent
<1>3. work[h].kind = "retry" => Known(work[h].by, Noted(work[h]))
  BY DEF Known
<1> QED
  BY <1>2, <1>3 DEF RequestKnown

LEMMA OneSlot ==
  ASSUME TInv, Honest, Remembers, NEW h \in Slot, NEW next, work' = [work EXCEPT ![h] = next],
         RequestKnown(next, spent', presented', refused')
  PROVE  WorkKnown
<1>1. ASSUME NEW g \in Slot PROVE RequestKnown(work'[g], spent', presented', refused')
  <2>1. CASE g = h
    <3>1. work'[g] = next
      BY <2>1 DEF TInv, WorkTyped
    <3> QED
      BY <3>1
  <2>2. CASE g # h
    <3>1. work'[g] = work[g]
      BY <2>2 DEF TInv, WorkTyped
    <3> QED
      BY <3>1, RequestStays
  <2> QED
    BY <2>1, <2>2
<1> QED
  BY <1>1 DEF WorkKnown

LEMMA SameWork ==
  ASSUME TInv, Honest, Remembers, work' = work
  PROVE  WorkKnown
  BY RequestStays DEF WorkKnown

LEMMA IdleKnown == \A holder, shown, gone : RequestKnown(Idle, holder, shown, gone)
  BY DEF RequestKnown, RequestHonest, Idle

\* A handler that goes on, with the token it had.
LEMMA GotoKnown ==
  ASSUME TInv, Honest, Remembers, NEW h \in Slot, work[h] \in Request, NEW pc, Goto(h, pc),
         pc = "unqueue" => work[h].token \in refused', pc # "put"
  PROVE  WorkKnown
<1>1. CASE pc = "done"
  BY <1>1, OneSlot, IdleKnown DEF Goto
<1>2. CASE pc # "done"
  <2> DEFINE next == [work[h] EXCEPT !.pc = pc]
  <2>1. /\ next.kind = work[h].kind /\ next.by = work[h].by /\ next.token = work[h].token
        /\ next.id = work[h].id /\ next.pc = pc
    BY DEF Request
  <2>2. work' = [work EXCEPT ![h] = next]
    BY <1>2 DEF Goto
  <2> HIDE DEF next
  <2>3. RequestKnown(work[h], spent', presented', refused')
    BY RequestStays
  <2>4. RequestHonest(next, spent', presented', refused')
    BY <2>1, <2>3 DEF RequestKnown, RequestHonest
  <2>5. Noted(next) = Noted(work[h])
    BY <2>1 DEF Noted
  <2>6. next.kind = "retry" => Known(next.by, Noted(next))
    BY <2>1, <2>3, <2>5 DEF RequestKnown
  <2> QED
    BY <2>2, <2>4, <2>6, OneSlot DEF RequestKnown
<1> QED
  BY <1>1, <1>2

\* A tab whose wallet is open, with what it listed or what is queued now.
LEMMA OpenedKnown ==
  ASSUME TInv, Honest, Remembers, NEW t \in Tab, NEW l, NEW x,
         \A r \in l : Known(DbOf(t), r), x # NoToken => spent'[x] # Nobody
  PROVE  TabKnown(TabAs(tabs[t].user, DbOf(t), l, x), spent')
<1> DEFINE next == TabAs(tabs[t].user, DbOf(t), l, x)
<1>1. tabs[t] \in TabState /\ DbOf(t) \in Database /\ TabHonest(tabs[t], spent)
  BY DbOfTyped DEF TInv, TabsTyped, Honest
<1>2. next.user = tabs[t].user /\ next.db = DbOf(t) /\ next.list = l /\ next.last = x
  BY DEF TabAs
<1>3. DbOf(t) # Unopened /\ (tabs[t].user # Nobody => DbOf(t) = tabs[t].user)
  BY <1>1, NoneAssumption DEF DbOf, TabHonest
<1> HIDE DEF next
<1>4. TabHonest(next, spent')
  BY <1>2, <1>3 DEF TabHonest
<1>5. DbIn(next) = DbOf(t)
  BY <1>2, <1>3 DEF DbIn
<1>6. \A r \in next.list : Known(DbIn(next), r)
  BY <1>2, <1>5
<1> QED
  BY <1>4, <1>6 DEF TabKnown, next

LEMMA ListKnown ==
  ASSUME TInv, NEW t \in Tab
  PROVE  /\ DbIn(tabs[t]) = DbOf(t)
         /\ \A r \in tabs[t].list : Known(DbOf(t), r)
         /\ \A r \in pending[DbOf(t)] : Known(DbOf(t), r)
  BY DEF DbIn, DbOf, Known

LEMMA OpenedTabs ==
  ASSUME TInv, Honest, Remembers, NEW t \in Tab, tabs' = Opened(t)
  PROVE  TabsKnown
<1>1. \A r \in tabs[t].list : Known(DbOf(t), r)
  BY ListKnown
<1>2. tabs[t].last # NoToken => spent'[tabs[t].last] # Nobody
  BY TabStays DEF TabKnown, TabHonest
<1>3. TabKnown(TabAs(tabs[t].user, DbOf(t), tabs[t].list, tabs[t].last), spent')
  BY <1>1, <1>2, OpenedKnown
<1>4. tabs' = [tabs EXCEPT ![t] = TabAs(tabs[t].user, DbOf(t), tabs[t].list, tabs[t].last)]
  BY OpenedAs DEF TInv
<1> QED
  BY <1>3, <1>4, OneTab

\* A tab that is closed, whoever is logged in.
LEMMA ClosedTabs ==
  ASSUME TInv, Honest, Remembers, NEW t \in Tab, NEW u,
         tabs' = [tabs EXCEPT ![t] = [Closed EXCEPT !.user = u]]
  PROVE  TabsKnown
<1>1. TabKnown([Closed EXCEPT !.user = u], spent')
  BY DEF Closed, TabKnown, TabHonest
<1> QED
  BY <1>1, OneTab

-----------------------------------------------------------------------------
\* Nothing that happened is forgotten.
LEMMA NothingForgotten ==
  ASSUME IInv, TInv, [Next]_vars
  PROVE  Remembers /\ (strayed => strayed')
<1>1. StaysSpent
  <2>1. CASE Press \/ Step \/ UNCHANGED vars
    <3>1. spent' = spent
      BY <2>1 DEF Press, BeginSubmit, BeginLock, BeginRetry, BeginResubmit, Step, Queue, DropCoin,
                  DropPaid, Unqueue, GetAttempt, PutAttempt, Reloaded, At, vars
    <3> QED
      BY <3>1 DEF StaysSpent
  <2>2. CASE Reply
    <3>1. PICK h \in Slot : Honoured(h) \/ DoubleSpend(h) \/ Unavailable(h) \/ Refused(h)
      BY <2>2 DEF Reply
    <3>2. CASE Honoured(h)
      <4>1. work[h].by # Nobody
        BY <3>2 DEF Honoured, Post, IInv, KnowsSpent
      <4>2. \A c \in Token : c # work[h].token => spent'[c] = spent[c]
        BY <3>2 DEF Honoured, TInv, SpentTyped
      <4>3. \A c \in Token : c = work[h].token => spent'[c] # Nobody
        BY <3>2, <4>1, NoneAssumption DEF Honoured, TInv, SpentTyped
      <4> QED
        BY <4>2, <4>3 DEF StaysSpent
    <3>3. CASE DoubleSpend(h) \/ Unavailable(h) \/ Refused(h)
      BY <3>3 DEF DoubleSpend, Unavailable, Refused, StaysSpent
    <3> QED
      BY <3>1, <3>2, <3>3
  <2>3. CASE Use
    <3>1. spent' = spent \/ \E t \in Tab : \E c \in Token : Redeem(t, c)
      BY <2>3 DEF Use, OpenPayment, Logout, Reload, Login, Save, RemoveCoin, Discard
    <3>2. ASSUME NEW t \in Tab, NEW c \in Token, Redeem(t, c) PROVE StaysSpent
      BY <3>2 DEF Redeem, TInv, SpentTyped, StaysSpent
    <3>3. CASE spent' = spent
      BY <3>3 DEF StaysSpent
    <3> QED
      BY <3>1, <3>2, <3>3
  <2> QED
    BY <2>1, <2>2, <2>3 DEF Next
<1>2. presented \subseteq presented' /\ refused \subseteq refused' /\ (strayed => strayed')
  <2>1. CASE Press
    BY <2>1 DEF Press, BeginSubmit, BeginLock, BeginRetry, BeginResubmit, history
  <2>2. CASE Reply
    BY <2>2 DEF Reply, Honoured, DoubleSpend, Unavailable, Refused, history
  <2>3. CASE Step
    <3>1. PICK h \in Slot : \/ Queue(h) \/ DropCoin(h) \/ DropPaid(h) \/ Unqueue(h)
                            \/ GetAttempt(h) \/ PutAttempt(h) \/ Reloaded(h)
      BY <2>3 DEF Step
    <3>2. CASE PutAttempt(h)
      BY <3>2 DEF PutAttempt, history
    <3>3. CASE \E pc : At(h, pc)
      BY <3>3 DEF At
    <3>4. PutAttempt(h) \/ \E pc : At(h, pc)
      BY <3>1 DEF Queue, DropCoin, DropPaid, Unqueue, GetAttempt, Reloaded
    <3> QED
      BY <3>2, <3>3, <3>4
  <2>4. CASE Use
    BY <2>4 DEF Use, OpenPayment, Logout, Reload, Login, Save, RemoveCoin, Redeem, Discard, history
  <2>5. CASE UNCHANGED vars
    BY <2>5 DEF vars, history
  <2> QED
    BY <2>1, <2>2, <2>3, <2>4, <2>5 DEF Next
<1> QED
  BY <1>1, <1>2 DEF Remembers

LEMMA SameQueue ==
  ASSUME TInv, pending' = pending, lastId' = lastId
  PROVE  QueueKnown /\ CountsOn
  BY BoundAssumption DEF QueueKnown, Known, CountsOn, TInv, QueueTyped

LEMMA SameCredit ==
  ASSUME Honest, Remembers, spent' = spent
  PROVE  Credited'
  BY DEF Honest, Credited, Remembers

LEMMA PressHonest ==
  ASSUME IInv, TInv, TInv', Honest, Remembers, Press
  PROVE  Honest'
<1>1. PICK h \in Slot, t \in Tab :
        \/ \E c \in Token : BeginSubmit(h, t, c) \/ BeginLock(h, t, c)
        \/ \E r \in tabs[t].list : BeginRetry(h, t, r)
        \/ BeginResubmit(h, t)
  BY DEF Press
<1>2. tabs[t] \in TabState /\ TabHonest(tabs[t], spent)
  BY DEF TInv, TabsTyped, Honest
<1>3. UNCHANGED <<tabs, spent, pending, lastId, refused>>
  BY <1>1 DEF BeginSubmit, BeginLock, BeginRetry, BeginResubmit, history
<1>4. TabsKnown /\ QueueKnown /\ CountsOn /\ Credited'
  BY <1>3, SameTabs, SameQueue, SameCredit
<1>5. ASSUME NEW kind, NEW token, NEW id, Begin(h, t, kind, token, id),
             RequestHonest([kind |-> kind, tab |-> t, by |-> tabs[t].user, pc |-> "post",
                            token |-> token, id |-> id, db |-> Unopened],
                           spent', presented', refused'),
             kind = "retry" => Known(tabs[t].user, [id |-> id, token |-> token])
      PROVE  WorkKnown
  <2> DEFINE next == [kind |-> kind, tab |-> t, by |-> tabs[t].user, pc |-> "post",
                      token |-> token, id |-> id, db |-> Unopened]
  <2>1. work' = [work EXCEPT ![h] = next]
    BY <1>5 DEF Begin
  <2>2. RequestKnown(next, spent', presented', refused')
    BY <1>5 DEF RequestKnown, Noted
  <2> HIDE DEF next
  <2> QED
    BY <2>1, <2>2, OneSlot
<1>6. ASSUME NEW c \in Token, BeginSubmit(h, t, c) PROVE WorkKnown
  BY <1>5, <1>6 DEF BeginSubmit, RequestHonest
<1>7. ASSUME NEW c \in Token, BeginLock(h, t, c) PROVE WorkKnown
  BY <1>5, <1>7 DEF BeginLock, RequestHonest
<1>8. CASE BeginResubmit(h, t)
  <2>1. spent'[tabs[t].last] # Nobody
    BY <1>2, <1>3, <1>8 DEF BeginResubmit, TabHonest
  <2>2. WorkKnown
    BY <1>5, <1>8, <2>1 DEF BeginResubmit, RequestHonest
  <2> QED
    BY <1>4, <2>2, HonestStep
<1>9. ASSUME NEW r \in tabs[t].list, BeginRetry(h, t, r) PROVE WorkKnown
  <2>1. tabs[t].user # Nobody /\ Begin(h, t, "retry", r.token, r.id)
    BY <1>9 DEF BeginRetry, Begin
  <2>2. DbOf(t) = tabs[t].user
    BY <1>2, <2>1 DEF DbOf, TabHonest
  <2>3. Known(tabs[t].user, r)
    BY <2>2, ListKnown
  <2>4. r = [id |-> r.id, token |-> r.token]
    BY <1>2 DEF TabState, Record
  <2> QED
    BY <1>5, <2>1, <2>3, <2>4 DEF RequestHonest
<1> QED
  BY <1>1, <1>4, <1>6, <1>7, <1>8, <1>9, HonestStep

LEMMA ReplyHonest ==
  ASSUME IInv, TInv, TInv', Honest, Remembers, Reply
  PROVE  Honest'
<1>1. PICK h \in Slot : Honoured(h) \/ DoubleSpend(h) \/ Unavailable(h) \/ Refused(h)
  BY DEF Reply
<1> DEFINE w == work[h]
           t == work[h].tab
<1>2. w \in Request
  BY <1>1, PostTyped DEF Honoured, DoubleSpend, Unavailable, Refused
<1>3. /\ w.kind \in Kind /\ w.token \in Token /\ w.by \in User /\ t \in Tab /\ w.id \in 0 .. MaxId
      /\ w.kind = "retry" => w.id # 0
  BY <1>2 DEF Request
<1>4. UNCHANGED <<pending, lastId>>
  BY <1>1 DEF Honoured, DoubleSpend, Unavailable, Refused
<1>5. QueueKnown /\ CountsOn
  BY <1>4, SameQueue
<1>6. WorkKnown
  <2>1. PICK answer \in {"ok", "double", "unavailable", "refused"} :
           Post(h, answer) /\ (answer = "refused" => Refused(h))
    BY <1>1 DEF Honoured, DoubleSpend, Unavailable, Refused
  <2>2. /\ After(w.kind, answer) = "unqueue" => w.kind = "retry" /\ answer = "refused"
        /\ After(w.kind, answer) # "put"
    BY <1>3 DEF After, Kind
  <2>3. After(w.kind, answer) = "unqueue" => w.token \in refused'
    BY <2>1, <2>2 DEF Refused
  <2>4. Goto(h, After(w.kind, answer))
    BY <2>1 DEF Post
  <2> PICK pc : pc = After(w.kind, answer)
    OBVIOUS
  <2> QED
    BY <1>2, <2>2, <2>3, <2>4, GotoKnown
<1>7. TabsKnown
  <2>1. CASE UNCHANGED tabs
    BY <2>1, SameTabs
  <2>2. CASE tabs' = [tabs EXCEPT ![t].user = Nobody]
    <3> DEFINE next == TabAs(Nobody, tabs[t].db, tabs[t].list, tabs[t].last)
    <3> HIDE DEF w, t
    <3>1. tabs' = [tabs EXCEPT ![t] = next]
      BY <1>3, <2>2, UserGone DEF TInv
    <3>2. TabKnown(tabs[t], spent')
      BY <1>3, TabStays
    <3>3. TabHonest(next, spent')
      BY <3>2 DEF TabKnown, TabHonest, TabAs
    <3>4. \A r \in next.list : Known(DbIn(next), r)
      BY <3>2 DEF TabKnown, TabHonest, TabAs, DbIn
    <3>5. TabKnown(next, spent')
      BY <3>3, <3>4 DEF TabKnown
    <3> HIDE DEF next
    <3> QED
      BY <1>3, <3>1, <3>5, OneTab
  <2> QED
    BY <1>1, <2>1, <2>2 DEF Honoured, DoubleSpend, Unavailable, Refused
<1>8. Credited'
  <2>1. CASE Honoured(h)
    <3>1. spent[w.token] = Nobody /\ presented' = presented
      BY <2>1 DEF Honoured, history
    <3>2. spent'[w.token] \in User => <<spent'[w.token], w.token>> \in presented
      <4>1. spent'[w.token] = IF w.kind = "lock" THEN Escrow ELSE w.by
        BY <1>3, <2>1 DEF Honoured, TInv, SpentTyped
      <4>2. CASE w.kind = "lock"
        BY <4>1, <4>2, NoneAssumption DEF Database
      <4>3. CASE w.kind = "submit"
        BY <4>1, <4>3 DEF Honest, RequestHonest
      <4>4. CASE w.kind = "resubmit"
        BY <3>1, <4>4 DEF Honest, RequestHonest
      <4>5. CASE w.kind = "retry"
        <5>1. Known(w.by, Noted(w)) /\ Noted(w) \in Record /\ Noted(w).token = w.token
          BY <1>3, <4>5, BoundAssumption DEF Known, Noted, Record
        <5>2. <<w.by, w.token>> \in presented
          BY <1>3, <5>1 DEF Honest, KnownAgree, Database
        <5> QED
          BY <4>1, <4>5, <5>2
      <4> QED
        BY <1>3, <4>2, <4>3, <4>4, <4>5 DEF Kind
    <3>3. \A c \in Token : c # w.token => spent'[c] = spent[c]
      BY <2>1 DEF Honoured, TInv, SpentTyped
    <3> QED
      BY <3>1, <3>2, <3>3 DEF Honest, Credited
  <2>2. CASE DoubleSpend(h) \/ Unavailable(h) \/ Refused(h)
    BY <2>2, SameCredit DEF DoubleSpend, Unavailable, Refused
  <2> QED
    BY <1>1, <2>1, <2>2
<1> QED
  BY <1>5, <1>6, <1>7, <1>8, HonestStep

\* A handler that goes on in the tab of the user it began for.
LEMMA AtHome ==
  ASSUME TInv, NEW h \in Slot, NEW pc \in Label, At(h, pc), ~ strayed'
  PROVE  /\ ~ strayed /\ DbOf(work[h].tab) = work[h].by
         /\ work[h] \in Request /\ spent' = spent
<1>1. work[h].pc # "none"
  BY DEF At, Label
<1> QED
  BY <1>1, RunningTyped DEF At, TInv

\* The record a retry means, when it is still queued.
LEMMA RetryMeans ==
  ASSUME TInv, Honest, NEW h \in Slot, work[h] \in Request, work[h].kind = "retry"
  PROVE  /\ Noted(work[h]) \in Record /\ Known(work[h].by, Noted(work[h]))
         /\ \A r \in pending[work[h].by] : r.id = work[h].id => r = Noted(work[h])
<1>1. /\ work[h].id \in 0 .. MaxId /\ work[h].id # 0 /\ work[h].token \in Token
      /\ work[h].by \in Database
  BY DEF Request, Database
<1>2. Noted(work[h]) \in Record /\ Noted(work[h]).id = work[h].id
  BY <1>1, BoundAssumption DEF Noted, Record
<1>3. Known(work[h].by, Noted(work[h]))
  BY DEF Known
<1>4. ASSUME NEW r \in pending[work[h].by], r.id = work[h].id PROVE r = Noted(work[h])
  <2>1. r \in Record /\ Known(work[h].by, r)
    BY <1>1 DEF TInv, QueueTyped, Known
  <2> QED
    BY <1>1, <1>2, <1>3, <1>4, <2>1 DEF Honest, KnownAgree
<1> QED
  BY <1>2, <1>3, <1>4

\* What is queued anew has an id nobody knows yet.
LEMMA QueueHonest ==
  ASSUME IInv, TInv, TInv', Honest, Remembers, NEW h \in Slot, Queue(h), ~ strayed'
  PROVE  Honest'
<1> DEFINE w == work[h]
           t == work[h].tab
           d == work[h].by
<1>1. DbOf(t) = d /\ w \in Request /\ spent' = spent
  BY AtHome DEF Queue, Label
<1>2. t \in Tab /\ d \in Database /\ w.token \in Token /\ w.kind = "submit"
  BY <1>1 DEF Request, Database, Queue, At, Fits
<1>3. <<d, w.token>> \in presented
  BY <1>2 DEF Honest, RequestHonest
<1> DEFINE new == [id |-> lastId[d] + 1, token |-> w.token]
<1>4. /\ lastId[d] < MaxId /\ lastId' = [lastId EXCEPT ![d] = @ + 1]
      /\ pending' = [pending EXCEPT ![d] = @ \cup {new}]
      /\ tabs' = Opened(t) /\ Goto(h, "reload")
  BY <1>1 DEF Queue, AddPendingPayment
<1>5. TabsKnown
  BY <1>2, <1>4, OpenedTabs
<1>6. WorkKnown
  BY <1>1, <1>4, GotoKnown
<1>7. new \in Record /\ new.id = lastId[d] + 1 /\ new.token = w.token
  BY <1>2, <1>4, BoundAssumption DEF TInv, QueueTyped, Record
<1>8. Credited'
  BY <1>1, SameCredit
<1>9. \A e \in Database : lastId[e] \in Nat /\ lastId'[e] \in Nat
                          /\ lastId'[e] = IF e = d THEN lastId[e] + 1 ELSE lastId[e]
  BY <1>2, <1>4, BoundAssumption DEF TInv, QueueTyped
<1> HIDE DEF new, w, t, d
<1>10. ASSUME NEW e \in Database, NEW r \in Record, Known(e, r)'
       PROVE  Known(e, r) \/ (e = d /\ r = new)
  <2>1. ASSUME r \in pending'[e] PROVE Known(e, r) \/ (e = d /\ r = new)
    BY <1>2, <1>4, <2>1 DEF TInv, QueueTyped, Known
  <2>2. ASSUME NEW u \in Tab, DbIn(tabs'[u]) = e, r \in tabs'[u].list PROVE Known(e, r)
    BY <1>5, <2>2 DEF TabsKnown, TabKnown
  <2>3. ASSUME NEW g \in Slot, work'[g].kind = "retry", work'[g].by = e, r = Noted(work'[g])
        PROVE  Known(e, r)
    BY <1>6, <2>3 DEF WorkKnown, RequestKnown
  <2>4. \/ r \in pending'[e]
        \/ \E u \in Tab : DbIn(tabs'[u]) = e /\ r \in tabs'[u].list
        \/ \E g \in Slot : work'[g].kind = "retry" /\ work'[g].by = e /\ r = Noted(work'[g])
    BY <1>10 DEF Known, DbIn, Noted
  <2> QED
    BY <2>1, <2>2, <2>3, <2>4
<1>11. ASSUME NEW e \in Database, NEW r \in Record, Known(e, r)
       PROVE  /\ r.id \in Nat /\ r.id <= lastId[e] /\ <<e, r.token>> \in presented
              /\ \A s \in Record : Known(e, s) /\ r.id = s.id => r = s
  BY <1>11, BoundAssumption DEF Honest, KnownAgree, Record
<1>12. ASSUME NEW e \in Database, NEW r \in Record, Known(e, r)'
       PROVE  /\ r.id <= lastId'[e] /\ <<e, r.token>> \in presented'
              /\ \A s \in Record : Known(e, s)' /\ r.id = s.id => r = s
  <2>1. r.id <= lastId'[e] /\ <<e, r.token>> \in presented'
    <3>1. CASE Known(e, r)
      <4>1. r.id \in Nat /\ r.id <= lastId[e] /\ <<e, r.token>> \in presented
        BY <1>11, <3>1
      <4> QED
        BY <1>9, <4>1 DEF Remembers
    <3>2. CASE e = d /\ r = new
      BY <1>3, <1>7, <1>9, <3>2 DEF Remembers, w, d
    <3> QED
      BY <1>10, <1>12, <3>1, <3>2
  <2>2. ASSUME NEW s \in Record, Known(e, s)', r.id = s.id PROVE r = s
    <3>1. (Known(e, r) \/ (e = d /\ r = new)) /\ (Known(e, s) \/ (e = d /\ s = new))
      BY <1>10, <1>12, <2>2
    <3>2. \A x \in Record : Known(e, x) => x.id \in Nat /\ x.id <= lastId[e]
      BY <1>11
    <3>3. CASE Known(e, r) /\ Known(e, s)
      BY <1>11, <2>2, <3>3
    <3>4. CASE e = d /\ Known(e, r) /\ s = new
      BY <1>7, <1>9, <2>2, <3>2, <3>4
    <3>5. CASE e = d /\ Known(e, s) /\ r = new
      BY <1>7, <1>9, <2>2, <3>2, <3>5
    <3> QED
      BY <3>1, <3>3, <3>4, <3>5
  <2> QED
    BY <2>1, <2>2
<1>13. KnownAgree'
  BY <1>12 DEF KnownAgree
<1>14. \A u \in Tab : TabHonest(tabs'[u], spent')
  BY <1>5 DEF TabsKnown, TabKnown
<1>15. \A g \in Slot : RequestHonest(work'[g], spent', presented', refused')
  BY <1>6 DEF WorkKnown, RequestKnown
<1> QED
  BY <1>8, <1>13, <1>14, <1>15 DEF Honest

\* A queue that only some records have left.
LEMMA LessQueue ==
  ASSUME TInv, NEW d \in Database, NEW kept \in SUBSET pending[d],
         pending' = [pending EXCEPT ![d] = kept], lastId' = lastId
  PROVE  QueueKnown /\ CountsOn
<1>1. \A e \in Database : pending'[e] \subseteq pending[e]
  BY DEF TInv, QueueTyped
<1>2. CountsOn
  BY BoundAssumption DEF CountsOn, TInv, QueueTyped
<1> QED
  BY <1>1, <1>2 DEF QueueKnown, Known

LEMMA StepHonest ==
  ASSUME IInv, TInv, TInv', Honest, Remembers, Step, ~ strayed'
  PROVE  Honest'
<1>1. PICK h \in Slot :
        \/ Queue(h) \/ DropCoin(h) \/ DropPaid(h) \/ Unqueue(h)
        \/ GetAttempt(h) \/ PutAttempt(h) \/ Reloaded(h)
  BY DEF Step
<1> DEFINE w == work[h]
           t == work[h].tab
           d == work[h].by
<1>2. w \in Request /\ spent' = spent
  <2>1. w.pc # "none" /\ spent' = spent
    BY <1>1 DEF Queue, DropCoin, DropPaid, Unqueue, GetAttempt, PutAttempt, Reloaded, At
  <2> QED
    BY <2>1, RunningTyped DEF TInv
<1>3. w \in Request /\ spent' = spent /\ (w.pc # "put" => DbOf(t) = d)
  <2>1. CASE ~ PutAttempt(h)
    <3>1. PICK pc \in {"queue", "dropCoin", "dropPaid", "settle", "unqueue", "get", "reload"} :
            At(h, pc)
      BY <1>1, <2>1 DEF Queue, DropCoin, DropPaid, Unqueue, GetAttempt, Reloaded
    <3> QED
      BY <1>2, <3>1, AtHome DEF Label
  <2> QED
    BY <1>2, <2>1 DEF PutAttempt
<1>4. t \in Tab /\ d \in Database /\ w.token \in Token /\ Fits(w.kind, w.pc)
  BY <1>3 DEF Request, Database
<1>5. Credited'
  BY <1>3, SameCredit
<1>6. CASE Queue(h)
  BY <1>6, QueueHonest
<1>7. CASE DropCoin(h)
  <2>1. tabs' = Opened(t) /\ UNCHANGED <<pending, lastId>>
    BY <1>7 DEF DropCoin, DeleteCoin
  <2>2. PICK next \in {"reload", "done"} : Goto(h, next)
    BY <1>7 DEF DropCoin
  <2>3. WorkKnown
    BY <1>3, <2>2, GotoKnown
  <2>4. TabsKnown /\ QueueKnown /\ CountsOn
    BY <1>4, <2>1, OpenedTabs, SameQueue
  <2> QED
    BY <1>5, <2>3, <2>4, HonestStep
<1>8. CASE DropPaid(h)
  <2>1. Goto(h, "done") /\ UNCHANGED <<pending, lastId>> /\ w.pc = "dropPaid"
        /\ (tabs' = [Opened(t) EXCEPT ![t].last = w.token] \/ tabs' = Opened(t))
    BY <1>8 DEF DropPaid, At
  <2>2. WorkKnown
    BY <1>3, <2>1, GotoKnown
  <2>3. QueueKnown /\ CountsOn
    BY <2>1, SameQueue
  <2>4. spent'[w.token] # Nobody
    BY <1>3, <1>4, <2>1 DEF IInv, KnowsSpent, Settling
  <2>5. CASE tabs' = [Opened(t) EXCEPT ![t].last = w.token]
    <3> DEFINE next == TabAs(tabs[t].user, DbOf(t), tabs[t].list, w.token)
    <3> HIDE DEF t, w
    <3>1. tabs' = [tabs EXCEPT ![t] = next]
      BY <1>4, <2>5, OpenedLast DEF TInv
    <3>2. TabKnown(next, spent')
      BY <1>4, <2>4, ListKnown, OpenedKnown
    <3> HIDE DEF next
    <3>3. TabsKnown
      BY <1>4, <3>1, <3>2, OneTab
    <3> QED
      BY <1>5, <2>2, <2>3, <3>3, HonestStep
  <2>6. CASE tabs' = Opened(t)
    <3>1. TabsKnown
      BY <1>4, <2>6, OpenedTabs
    <3> QED
      BY <1>5, <2>2, <2>3, <3>1, HonestStep
  <2> QED
    BY <2>1, <2>5, <2>6
<1>9. CASE Unqueue(h)
  <2>1. DeletePendingPayment(t, w.id)
    BY <1>9 DEF Unqueue
  <2>2. PICK next \in {"dropCoin", "reload"} : Goto(h, next)
    BY <1>9 DEF Unqueue
  <2>3. WorkKnown
    BY <1>3, <2>2, GotoKnown
  <2>4. /\ pending' = [pending EXCEPT ![d] = {r \in pending[d] : r.id # w.id}]
        /\ lastId' = lastId /\ tabs' = Opened(t)
    BY <1>3, <1>9, <2>1 DEF Unqueue, At, DeletePendingPayment
  <2>5. PICK kept \in SUBSET pending[d] : kept = {r \in pending[d] : r.id # w.id}
    OBVIOUS
  <2>6. QueueKnown /\ CountsOn
    BY <1>4, <2>4, <2>5, LessQueue
  <2>7. TabsKnown
    BY <1>4, <2>4, OpenedTabs
  <2> QED
    BY <1>5, <2>3, <2>6, <2>7, HonestStep
<1>10. CASE GetAttempt(h)
  <2>1. w.pc = "get" /\ tabs' = Opened(t) /\ UNCHANGED <<pending, lastId>>
    BY <1>10 DEF GetAttempt, At
  <2>2. w.kind = "retry"
    BY <1>4, <2>1 DEF Fits
  <2>3. TabsKnown /\ QueueKnown /\ CountsOn
    BY <1>4, <2>1, OpenedTabs, SameQueue
  <2>4. CASE Goto(h, "reload")
    <3>1. WorkKnown
      BY <1>3, <2>4, GotoKnown
    <3> QED
      BY <1>5, <2>3, <3>1, HonestStep
  <2>5. ASSUME NEW r \in pending[DbOf(t)], r.id = w.id,
               work' = [work EXCEPT ![h] = Found(@, r, DbOf(t))]
        PROVE  WorkKnown
    <3>1. DbOf(t) = d /\ r = Noted(w)
      BY <1>3, <2>1, <2>2, <2>5, RetryMeans
    <3>2. PICK next : next = Found(w, r, DbOf(t))
      OBVIOUS
    <3>3. next = [kind |-> w.kind, tab |-> w.tab, by |-> w.by, pc |-> "put",
                  token |-> r.token, id |-> w.id, db |-> DbOf(t)]
      BY <1>3, <3>2, RequestFields, FoundAs
    <3>4. Noted(next) = Noted(w) /\ next.by = w.by
      BY <3>1, <3>3 DEF Noted
    <3>5. RequestHonest(next, spent', presented', refused')
      BY <2>2, <3>1, <3>3 DEF RequestHonest
    <3>6. RequestKnown(next, spent', presented', refused')
      BY <1>3, <2>2, <3>4, <3>5, RetryMeans DEF RequestKnown
    <3>7. work' = [work EXCEPT ![h] = next]
      BY <2>5, <3>2
    <3> QED
      BY <3>6, <3>7, OneSlot
  <2>6. CASE \E r \in {x \in pending[DbOf(t)] : x.id = w.id} :
               work' = [work EXCEPT ![h] = Found(@, r, DbOf(t))]
    <3>1. WorkKnown
      BY <2>5, <2>6
    <3> QED
      BY <1>5, <2>3, <3>1, HonestStep
  <2> QED
    BY <1>10, <2>4, <2>6 DEF GetAttempt, Found
<1>11. CASE PutAttempt(h)
  <2>1. w.pc = "put" /\ PutPendingPayment(d, Noted(w)) /\ Goto(h, "reload")
    BY <1>11 DEF PutAttempt, Noted, Honest, RequestHonest
  <2>2. w.kind = "retry"
    BY <1>4, <2>1 DEF Fits
  <2>3. Noted(w) \in Record /\ Known(d, Noted(w))
    BY <1>3, <2>2, RetryMeans
  <2>4. pending' = [pending EXCEPT ![d] = {r \in pending[d] : r.id # Noted(w).id} \cup {Noted(w)}]
        /\ tabs' = tabs
    BY <2>1 DEF PutPendingPayment
  <2>5. WorkKnown
    BY <1>3, <2>1, GotoKnown
  <2>6. TabsKnown
    BY <1>3, <2>4, SameTabs
  <2>7. CountsOn
    <3> PICK record : record = Noted(w)
      OBVIOUS
    <3> QED
      BY <1>4, <2>1, <2>3, PutTyped DEF CountsOn
  <2>8. QueueKnown
    <3>1. ASSUME NEW e \in Database, NEW r \in pending'[e] PROVE Known(e, r)
      <4>1. r \in pending[e] \/ (e = d /\ r = Noted(w))
        BY <1>4, <2>4, <3>1 DEF TInv, QueueTyped
      <4>2. r \in pending[e] => Known(e, r)
        BY DEF Known
      <4> QED
        BY <2>3, <4>1, <4>2
    <3> QED
      BY <3>1 DEF QueueKnown
  <2> QED
    BY <1>5, <2>5, <2>6, <2>7, <2>8, HonestStep
<1>12. CASE Reloaded(h)
  <2>1. tabs' = LoadPending(t) /\ Goto(h, "done") /\ UNCHANGED <<pending, lastId>>
    BY <1>12 DEF Reloaded
  <2>2. WorkKnown
    BY <1>3, <2>1, GotoKnown
  <2>3. QueueKnown /\ CountsOn
    BY <2>1, SameQueue
  <2> DEFINE next == TabAs(tabs[t].user, DbOf(t), pending[DbOf(t)], tabs[t].last)
  <2> HIDE DEF t, w
  <2>4. tabs' = [tabs EXCEPT ![t] = next]
    BY <1>4, <2>1, LoadPendingAs DEF TInv
  <2>5. tabs[t].last # NoToken => spent'[tabs[t].last] # Nobody
    BY <1>4, TabStays DEF TabKnown, TabHonest
  <2>6. TabKnown(next, spent')
    BY <1>4, <2>5, ListKnown, OpenedKnown
  <2> HIDE DEF next
  <2>7. TabsKnown
    BY <1>4, <2>4, <2>6, OneTab
  <2> QED
    BY <1>5, <2>2, <2>3, <2>7, HonestStep
<1> QED
  BY <1>1, <1>6, <1>7, <1>8, <1>9, <1>10, <1>11, <1>12

LEMMA UseHonest ==
  ASSUME IInv, TInv, TInv', Honest, Remembers, Use
  PROVE  Honest'
<1>1. PICK t \in Tab : \/ OpenPayment(t) \/ Logout(t) \/ Reload(t)
                       \/ \E u \in User : Login(t, u)
                       \/ \E c \in Token : Save(t, c) \/ RemoveCoin(t, c) \/ Redeem(t, c)
                       \/ \E r \in tabs[t].list : Discard(t, r)
  BY DEF Use
<1>2. DbOf(t) \in Database /\ Closed = [Closed EXCEPT !.user = Nobody]
  BY DbOfTyped DEF TInv, Closed
<1>3. CASE OpenPayment(t)
  <2>1. UNCHANGED <<pending, lastId, work, spent>>
    BY <1>3 DEF OpenPayment
  <2> DEFINE next == TabAs(tabs[t].user, DbOf(t), pending[DbOf(t)], NoToken)
  <2>2. tabs' = [tabs EXCEPT ![t] = next]
    BY <1>3, LoadedLast DEF OpenPayment, TInv
  <2>3. TabKnown(next, spent')
    BY ListKnown, OpenedKnown
  <2> HIDE DEF next
  <2>4. TabsKnown
    BY <2>2, <2>3, OneTab
  <2> QED
    BY <2>1, <2>4, SameQueue, SameWork, SameCredit, HonestStep
<1>4. CASE Logout(t)
  <2>1. UNCHANGED <<pending, lastId, work, spent>>
    BY <1>4 DEF Logout
  <2>2. TabsKnown
    BY <1>2, <1>4, ClosedTabs DEF Logout
  <2> QED
    BY <2>1, <2>2, SameQueue, SameWork, SameCredit, HonestStep
<1>5. ASSUME NEW u \in User, Login(t, u) PROVE Honest'
  <2>1. UNCHANGED <<pending, lastId, work, spent>>
    BY <1>5 DEF Login
  <2>2. TabsKnown
    BY <1>5, ClosedTabs DEF Login
  <2> QED
    BY <2>1, <2>2, SameQueue, SameWork, SameCredit, HonestStep
<1>6. CASE Reload(t)
  <2>1. UNCHANGED <<pending, lastId, spent>>
    BY <1>6 DEF Reload
  <2>2. TabsKnown
    BY <1>6, ClosedTabs DEF Reload
  <2>3. \A h \in Slot : work'[h] = IF work[h].tab = t THEN Idle ELSE work[h]
    BY <1>6 DEF Reload
  <2>4. WorkKnown
    BY <2>3, RequestStays, IdleKnown DEF WorkKnown
  <2> QED
    BY <2>1, <2>2, <2>4, SameQueue, SameCredit, HonestStep
<1>7. ASSUME NEW c \in Token, Save(t, c) \/ RemoveCoin(t, c) PROVE Honest'
  <2>1. UNCHANGED <<pending, lastId, work, spent>> /\ tabs' = Opened(t)
    BY <1>7 DEF Save, PutCoin, RemoveCoin, DeleteCoin
  <2>2. TabsKnown
    BY <2>1, OpenedTabs
  <2> QED
    BY <2>1, <2>2, SameQueue, SameWork, SameCredit, HonestStep
<1>8. ASSUME NEW c \in Token, Redeem(t, c) PROVE Honest'
  <2>1. /\ UNCHANGED <<pending, lastId, work, tabs>> /\ spent' = [spent EXCEPT ![c] = tabs[t].user]
        /\ presented' = presented \cup {<<tabs[t].user, c>>}
    BY <1>8 DEF Redeem
  <2>2. Credited'
    <3>1. \A x \in Token : spent'[x] = IF x = c THEN tabs[t].user ELSE spent[x]
      BY <2>1 DEF TInv, SpentTyped
    <3> QED
      BY <2>1, <3>1 DEF Honest, Credited
  <2> QED
    BY <2>1, <2>2, SameTabs, SameQueue, SameWork, HonestStep
<1>9. ASSUME NEW r \in tabs[t].list, Discard(t, r) PROVE Honest'
  <2>1. UNCHANGED <<lastId, work, spent>>
    BY <1>9 DEF Discard
  <2>2. PICK kept \in SUBSET pending[DbOf(t)] : kept = {s \in pending[DbOf(t)] : s.id # r.id}
    OBVIOUS
  <2>3. pending' = [pending EXCEPT ![DbOf(t)] = kept]
    BY <1>9, <2>2 DEF Discard
  <2>4. pending'[DbOf(t)] = kept
    BY <1>2, <2>3 DEF TInv, QueueTyped
  <2>5. QueueKnown /\ CountsOn
    BY <1>2, <2>1, <2>3, LessQueue
  <2> DEFINE next == TabAs(tabs[t].user, DbOf(t), kept, tabs[t].last)
  <2>6. tabs' = [tabs EXCEPT ![t] = next]
    BY <1>9, <2>4, OpenedList DEF Discard, TInv
  <2>7. tabs[t].last # NoToken => spent'[tabs[t].last] # Nobody
    BY TabStays DEF TabKnown, TabHonest
  <2>8. \A s \in kept : Known(DbOf(t), s)
    BY <2>2, ListKnown
  <2>9. TabKnown(next, spent')
    BY <2>7, <2>8, OpenedKnown
  <2> HIDE DEF next
  <2>10. TabsKnown
    BY <2>6, <2>9, OneTab
  <2> QED
    BY <2>1, <2>5, <2>10, SameWork, SameCredit, HonestStep
<1> QED
  BY <1>1, <1>3, <1>4, <1>5, <1>6, <1>7, <1>8, <1>9

LEMMA StutterHonest ==
  ASSUME Honest, UNCHANGED vars
  PROVE  Honest'
  BY DEF Honest, KnownAgree, Known, DbIn, Noted, TabHonest, RequestHonest, Credited, vars, history

LEMMA InitHonest == Init => Honest
<1> SUFFICES ASSUME Init PROVE Honest
  OBVIOUS
<1>1. \A d \in Database, r \in Record : ~ Known(d, r)
  BY DEF Init, Known, Closed, Idle
<1>2. KnownAgree
  BY <1>1 DEF KnownAgree
<1>3. \A t \in Tab : TabHonest(tabs[t], spent)
  BY DEF Init, TabHonest, Closed
<1>4. \A h \in Slot : RequestHonest(work[h], spent, presented, refused)
  BY DEF Init, RequestHonest, Idle
<1>5. Credited
  BY NoneAssumption DEF Init, Credited
<1> QED
  BY <1>2, <1>3, <1>4, <1>5 DEF Honest

LEMMA JInvKept ==
  /\ Init => JInv
  /\ JInv /\ [Next]_vars => JInv'
<1>1. Init => JInv
  BY TypesKept, InitHonest DEF JInv
<1>2. ASSUME JInv, [Next]_vars PROVE JInv'
  <2>1. IInv /\ TInv /\ (IInv /\ TInv)'
    BY <1>2, TypesKept DEF JInv
  <2>2. Remembers /\ (strayed => strayed')
    BY <1>2, <2>1, NothingForgotten
  <2>3. ASSUME ~ strayed' PROVE Honest'
    <3>1. Honest
      BY <1>2, <2>2, <2>3 DEF JInv
    <3> QED
      BY <1>2, <2>1, <2>2, <2>3, <3>1, PressHonest, ReplyHonest, StepHonest, UseHonest,
         StutterHonest DEF Next
  <2> QED
    BY <2>1, <2>3 DEF JInv
<1> QED
  BY <1>1, <1>2

\* Whoever the bank credits a token presented it, however many handlers retry whatever they find
\* queued, unless one of them went on in a tab that its user had logged out of.
THEOREM CreditsPresenterAlways == Spec => []CreditsPresenter
<1>1. JInv => CreditsPresenter
  BY DEF JInv, Honest, Credited, CreditsPresenter
<1> QED
  BY <1>1, JInvKept, PTL DEF Spec

-----------------------------------------------------------------------------
\* Whoever takes a record from the queue means it, and knows that its token is spent or refused.
LEMMA StepKeepsPending ==
  ASSUME JInv, [Next]_vars
  PROVE  \A d \in Database : \A r \in pending[d] \ pending'[d] :
            \/ spent[r.token] # Nobody \/ r.token \in refused \/ strayed'
            \/ \E t \in Tab : Discard(t, r)
<1> SUFFICES ASSUME NEW d \in Database, NEW r \in pending[d] \ pending'[d], ~ strayed'
             PROVE  \/ spent[r.token] # Nobody \/ r.token \in refused
                    \/ \E t \in Tab : Discard(t, r)
  OBVIOUS
<1>1. IInv /\ TInv /\ Honest /\ r \in Record
  BY NothingForgotten DEF JInv, TInv, QueueTyped
<1>2. pending' # pending
  OBVIOUS
<1>3. CASE Step
  <2>1. PICK h \in Slot : Queue(h) \/ Unqueue(h) \/ PutAttempt(h)
    BY <1>2, <1>3 DEF Step, DropCoin, DeleteCoin, DropPaid, GetAttempt, Reloaded
  <2> DEFINE w == work[h]
             t == work[h].tab
  <2>2. PICK pc \in {"queue", "settle", "unqueue", "put"} :
          /\ w.pc = pc /\ (pc # "put" => At(h, pc)) /\ (Queue(h) => pc = "queue")
          /\ (Unqueue(h) => pc \in {"settle", "unqueue"}) /\ (PutAttempt(h) => pc = "put")
    <3>1. CASE Queue(h)
      BY <3>1 DEF Queue, Unqueue, PutAttempt, At
    <3>2. CASE Unqueue(h)
      BY <3>2 DEF Queue, Unqueue, PutAttempt, At
    <3>3. CASE PutAttempt(h)
      BY <3>3 DEF Queue, Unqueue, PutAttempt, At
    <3> QED
      BY <2>1, <3>1, <3>2, <3>3
  <2>3. (pc # "put" => DbOf(t) = w.by) /\ w \in Request /\ w.pc = pc
    BY <1>1, <2>2, AtHome, RunningTyped DEF Label, TInv
  <2>4. w.token \in Token /\ w.by \in Database /\ Fits(w.kind, w.pc)
    BY <2>3 DEF Request, Database
  <2>5. CASE Queue(h)
    <3>1. pending[d] \subseteq pending'[d]
      BY <1>1, <2>2, <2>3, <2>4, <2>5 DEF Queue, AddPendingPayment, TInv, QueueTyped
    <3> QED
      BY <3>1
  <2>6. w.kind = "retry" /\ d = w.by => \A s \in pending[d] : s.id = w.id => s = Noted(w)
    BY <1>1, <2>3, RetryMeans
  <2>7. CASE Unqueue(h)
    <3>1. pending' = [pending EXCEPT ![w.by] = {s \in pending[w.by] : s.id # w.id}]
      BY <2>2, <2>3, <2>7 DEF Unqueue, DeletePendingPayment
    <3>2. d = w.by /\ r.id = w.id
      BY <1>1, <2>4, <3>1 DEF TInv, QueueTyped
    <3>3. w.kind = "retry"
      BY <2>2, <2>3, <2>4, <2>7 DEF Fits
    <3>4. r.token = w.token
      BY <2>6, <3>2, <3>3 DEF Noted
    <3>5. pc = "settle" => spent[w.token] # Nobody
      BY <1>1, <2>3, <2>4 DEF IInv, KnowsSpent, Settling
    <3>6. pc = "unqueue" => w.token \in refused
      BY <1>1, <2>3 DEF Honest, RequestHonest
    <3> QED
      BY <2>2, <2>7, <3>4, <3>5, <3>6
  <2>8. CASE PutAttempt(h)
    <3>0. w.db = w.by
      BY <1>1, <2>2, <2>8 DEF Honest, RequestHonest
    <3>1. pending' = [pending EXCEPT ![w.by] = {s \in pending[w.by] : s.id # w.id} \cup {Noted(w)}]
      BY <2>8, <3>0 DEF PutAttempt, PutPendingPayment, Noted
    <3>2. d = w.by /\ r.id = w.id /\ r # Noted(w)
      BY <1>1, <2>4, <3>1 DEF TInv, QueueTyped
    <3>3. w.kind = "retry"
      BY <2>2, <2>3, <2>4, <2>8 DEF Fits
    <3> QED
      BY <2>6, <3>2, <3>3
  <2> QED
    BY <2>1, <2>5, <2>7, <2>8
<1>4. CASE Use
  <2>1. PICK t \in Tab : \E s \in tabs[t].list : Discard(t, s)
    BY <1>2, <1>4 DEF Use, OpenPayment, Logout, Reload, Login, Save, PutCoin, RemoveCoin, DeleteCoin,
                      Redeem
  <2>2. PICK s \in tabs[t].list : Discard(t, s)
    BY <2>1
  <2>3. DbOf(t) \in Database
    BY <1>1, DbOfTyped DEF TInv
  <2>4. pending' = [pending EXCEPT ![DbOf(t)] = {x \in pending[DbOf(t)] : x.id # s.id}]
    BY <2>2 DEF Discard
  <2>5. d = DbOf(t) /\ r.id = s.id
    BY <1>1, <2>3, <2>4 DEF TInv, QueueTyped
  <2>6. Known(d, r) /\ Known(d, s) /\ s \in Record
    BY <1>1, <2>5, ListKnown DEF TInv, TabsTyped, TabState
  <2>7. r = s
    BY <1>1, <2>5, <2>6 DEF Honest, KnownAgree
  <2> QED
    BY <2>2, <2>7
<1>5. CASE Press
  BY <1>2, <1>5 DEF Press, BeginSubmit, BeginLock, BeginRetry, BeginResubmit
<1>6. CASE Reply
  BY <1>2, <1>6 DEF Reply, Honoured, DoubleSpend, Unavailable, Refused
<1>7. CASE UNCHANGED vars
  BY <1>2, <1>7 DEF vars
<1> QED
  BY <1>3, <1>4, <1>5, <1>6, <1>7 DEF Next

\* A queued payment leaves the queue only when its token is spent, when a retry was refused for
\* good or when its user discards it, as long as no handler went on in a tab its user had logged
\* out of: PendingKept, for any number of users, tabs, tokens and handlers.
THEOREM PendingKeptAlways == Spec => PendingKept
<1>1. JInv /\ [Next]_vars =>
        [\A d \in Database : \A r \in pending[d] \ pending'[d] :
            \/ spent[r.token] # Nobody \/ r.token \in refused \/ strayed'
            \/ \E t \in Tab : Discard(t, r)]_vars
  BY StepKeepsPending
<1> QED
  BY <1>1, JInvKept, PTL DEF Spec, PendingKept
=============================================================================
