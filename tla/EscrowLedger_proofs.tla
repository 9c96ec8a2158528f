------------------------ MODULE EscrowLedger_proofs ------------------------
(***************************************************************************)
(* What the atomic escrow service guarantees, for any users, tokens,       *)
(* escrows, prices and deposits.  EscrowTx implements it as long as the    *)
(* requests about escrows do not overlap (its property Atomic).            *)
(***************************************************************************)
EXTENDS EscrowLedger, TLAPS

\* An escrow that expires keeps everything but its status.
LEMMA ExpiryKeeps ==
  ASSUME LedgerTypeOK, NEW S \in SUBSET Escrow
  PROVE  /\ EscrowAfter(S) \in [Escrow -> EscrowValue]
         /\ \A e \in Escrow : /\ EscrowAfter(S)[e].serial = escrow[e].serial
                              /\ EscrowAfter(S)[e].customer = escrow[e].customer
                              /\ e \notin S => EscrowAfter(S)[e] = escrow[e]
  BY DEF LedgerTypeOK, EscrowAfter, EscrowValue, Status

\* Rows of the ledger keep their types.
THEOREM LedgerTyped == Spec => []LedgerTypeOK
<1>1. Init => LedgerTypeOK
  BY DEF Init, LedgerTypeOK, EscrowValue, Absent, Status
<1>2. LedgerTypeOK /\ [Next]_ledger => LedgerTypeOK'
  <2> SUFFICES ASSUME LedgerTypeOK, [Next]_ledger PROVE LedgerTypeOK'
    OBVIOUS
  <2>1. ASSUME NEW S \in SUBSET Escrow, Expire(S) PROVE LedgerTypeOK'
    BY <2>1, ExpiryKeeps DEF Expire, LedgerTypeOK
  <2>2. ASSUME NEW S \in SUBSET Escrow, NEW e \in Escrow, Confirm(S, e) PROVE LedgerTypeOK'
    BY <2>2, ExpiryKeeps DEF Confirm, LedgerTypeOK, EscrowValue, Status
  <2>3. ASSUME NEW S \in SUBSET Escrow, NEW e \in Escrow, Cancel(S, e) PROVE LedgerTypeOK'
    BY <2>3, ExpiryKeeps DEF Cancel, LedgerTypeOK, EscrowValue, Status
  <2>4. ASSUME NEW S \in SUBSET Escrow, NEW e \in Escrow, NEW u \in User, NEW c \in Coin,
               Lock(S, e, u, c)
        PROVE  LedgerTypeOK'
    BY <2>4, ExpiryKeeps, MerchantAssumption DEF Lock, LedgerTypeOK, EscrowValue, Status, Open
  <2>5. ASSUME NEW e \in Escrow, Create(e) PROVE LedgerTypeOK'
    BY <2>5 DEF Create, LedgerTypeOK, EscrowValue, Status, Open
  <2>6. ASSUME NEW u \in User, NEW c \in Coin, Pay(u, c) PROVE LedgerTypeOK'
    BY <2>6 DEF Pay, LedgerTypeOK
  <2>7. ASSUME NEW u \in User, NEW amount \in Cash, Deposit(u, amount) PROVE LedgerTypeOK'
    BY <2>7 DEF Deposit, LedgerTypeOK
  <2>8. CASE UNCHANGED ledger
    BY <2>8 DEF ledger, LedgerTypeOK
  <2> QED
    BY <2>1, <2>2, <2>3, <2>4, <2>5, <2>6, <2>7, <2>8 DEF Next, Split
<1> QED
  BY <1>1, <1>2, PTL DEF Spec

\* A step that binds no token to an escrow and takes none from its holder keeps Bound.
LEMMA BoundKept ==
  ASSUME Bound,
         \A e \in Escrow : escrow'[e].serial = escrow[e].serial,
         \A c \in Coin : holder[c] # NoUser => holder'[c] = holder[c],
         LedgerTypeOK
  PROVE  Bound'
<1> SUFFICES ASSUME NEW e \in Escrow, escrow'[e].serial # NoCoin
             PROVE  /\ holder'[escrow'[e].serial] = Merchant[e]
                    /\ Worth[escrow'[e].serial] = Price[e]
                    /\ \A f \in Escrow \ {e} : escrow'[f].serial # escrow'[e].serial
  BY DEF Bound
<1>1. escrow[e].serial \in Coin /\ holder[escrow[e].serial] = Merchant[e] /\ Merchant[e] # NoUser
  BY MerchantAssumption, NullAssumption DEF Bound, LedgerTypeOK, EscrowValue
<1> QED
  BY <1>1 DEF Bound

\* Each escrow has a token of its own, of its price, spent in its merchant's name.
THEOREM BoundAlways == Spec => []Bound
<1>1. Init => Bound
  BY DEF Init, Bound, Absent
<1>2. LedgerTypeOK /\ Bound /\ [Next]_ledger => Bound'
  <2> SUFFICES ASSUME LedgerTypeOK, Bound, [Next]_ledger PROVE Bound'
    OBVIOUS
  <2>1. ASSUME NEW S \in SUBSET Escrow, Expire(S) PROVE Bound'
    BY <2>1, ExpiryKeeps, BoundKept DEF Expire
  <2>2. ASSUME NEW S \in SUBSET Escrow, NEW e \in Escrow, Confirm(S, e) PROVE Bound'
    <3>1. \A f \in Escrow : escrow'[f].serial = escrow[f].serial
      BY <2>2, ExpiryKeeps DEF Confirm, EscrowValue
    <3> QED
      BY <2>2, <3>1, BoundKept DEF Confirm
  <2>3. ASSUME NEW S \in SUBSET Escrow, NEW e \in Escrow, Cancel(S, e) PROVE Bound'
    <3>1. \A f \in Escrow : escrow'[f].serial = escrow[f].serial
      BY <2>3, ExpiryKeeps DEF Cancel, EscrowValue
    <3> QED
      BY <2>3, <3>1, BoundKept DEF Cancel
  <2>4. ASSUME NEW S \in SUBSET Escrow, NEW e \in Escrow, NEW u \in User, NEW c \in Coin,
               Lock(S, e, u, c)
        PROVE  Bound'
    <3>1. \A f \in Escrow \ {e} : escrow'[f].serial = escrow[f].serial
      BY <2>4, ExpiryKeeps DEF Lock
    <3>2. escrow'[e].serial = c /\ Worth[c] = Price[e] /\ holder[c] = NoUser
      BY <2>4, ExpiryKeeps DEF Lock
    <3>3. holder'[c] = Merchant[e] /\ \A d \in Coin \ {c} : holder'[d] = holder[d]
      BY <2>4 DEF Lock, LedgerTypeOK
    <3>4. \A f \in Escrow : escrow[f].serial # c
      BY <3>2, MerchantAssumption, NullAssumption DEF Bound
    <3>5. \A f \in Escrow : escrow[f].serial \in Coin \cup {NoCoin}
      BY DEF LedgerTypeOK, EscrowValue
    <3> QED
      BY <3>1, <3>2, <3>3, <3>4, <3>5, NullAssumption DEF Bound
  <2>5. ASSUME NEW e \in Escrow, Create(e) PROVE Bound'
    <3>1. \A f \in Escrow : escrow'[f].serial = escrow[f].serial
      BY <2>5 DEF Create, LedgerTypeOK, EscrowValue
    <3> QED
      BY <2>5, <3>1, BoundKept DEF Create
  <2>6. ASSUME NEW u \in User, NEW c \in Coin, Pay(u, c) PROVE Bound'
    BY <2>6, BoundKept DEF Pay, LedgerTypeOK
  <2>7. ASSUME NEW u \in User, NEW amount \in Cash, Deposit(u, amount) PROVE Bound'
    BY <2>7, BoundKept DEF Deposit
  <2>8. CASE UNCHANGED ledger
    BY <2>8, BoundKept DEF ledger
  <2> QED
    BY <2>1, <2>2, <2>3, <2>4, <2>5, <2>6, <2>7, <2>8 DEF Next, Split
<1> QED
  BY <1>1, <1>2, LedgerTyped, PTL DEF Spec

\* No request settles an escrow twice, reopens it, or spends a spent token.
THEOREM FinalAlways == Spec => [][Final]_ledger
<1>1. LedgerTypeOK /\ [Next]_ledger => [Final]_ledger
  <2> DEFINE OpenNows == {e \in Escrow : OpenNow(e)}
             Settled == {e \in Escrow : escrow[e].status \in Status \ (Open \cup {"none"})}
  <2> SUFFICES ASSUME LedgerTypeOK, Next PROVE Final
    OBVIOUS
  <2>0. ASSUME NEW S \in SUBSET OpenNows, NEW e \in Settled PROVE EscrowAfter(S)[e] = escrow[e]
    BY <2>0 DEF EscrowAfter, OpenNow
  <2>1. ASSUME NEW S \in SUBSET OpenNows, Expire(S) PROVE Final
    BY <2>0, <2>1 DEF Expire, Final
  <2>2. ASSUME NEW S \in SUBSET OpenNows, NEW e \in Escrow, Confirm(S, e) PROVE Final
    BY <2>0, <2>2, ExpiryKeeps DEF Confirm, Final, Open
  <2>3. ASSUME NEW S \in SUBSET OpenNows, NEW e \in Escrow, Cancel(S, e) PROVE Final
    BY <2>0, <2>3, ExpiryKeeps DEF Cancel, Final, OpenNow
  <2>4. ASSUME NEW S \in SUBSET OpenNows, NEW e \in Escrow, NEW u \in User, NEW c \in Coin,
               Lock(S, e, u, c)
        PROVE  Final
    BY <2>0, <2>4, ExpiryKeeps DEF Lock, Final, LedgerTypeOK, Open
  <2>5. ASSUME NEW e \in Escrow, Create(e) PROVE Final
    BY <2>5 DEF Create, Final, LedgerTypeOK, Absent
  <2>6. ASSUME NEW u \in User, NEW c \in Coin, Pay(u, c) PROVE Final
    BY <2>6 DEF Pay, Final, LedgerTypeOK
  <2>7. ASSUME NEW u \in User, NEW amount \in Cash, Deposit(u, amount) PROVE Final
    BY <2>7 DEF Deposit, Final
  <2> QED
    BY <2>1, <2>2, <2>3, <2>4, <2>5, <2>6, <2>7 DEF Next, Split
<1> QED
  BY <1>1, LedgerTyped, PTL DEF Spec
=============================================================================
