---------------------- MODULE WithdrawalLedger_proofs ----------------------
(***************************************************************************)
(* What the atomic ledger guarantees, for every number of customers and    *)
(* sessions.  WithdrawalTx implements it as long as the requests of one    *)
(* customer do not overlap (property Atomic), so these hold of it as well. *)
(***************************************************************************)
EXTENDS WithdrawalLedger, TLAPS

\* Balances stay natural numbers: nobody is ever overdrawn.
THEOREM LedgerTyped == Spec => []LedgerTypeOK
<1>1. Init => LedgerTypeOK
  BY OpeningAssumption
     DEF Init, LedgerTypeOK, SessionValue, Absent, Status
<1>2. LedgerTypeOK /\ [Next]_ledger => LedgerTypeOK'
  <2> SUFFICES ASSUME LedgerTypeOK, [Next]_ledger PROVE LedgerTypeOK'
    OBVIOUS
  <2>1. ASSUME NEW s \in Session, Open(s) PROVE LedgerTypeOK'
    <3>0. Owner[s] \in User /\ Amount[s] \in Nat
      BY OwnerAssumption, AmountAssumption
    <3>1. balance[Owner[s]] - Amount[s] \in Nat
      BY <2>1, <3>0 DEF Open, LedgerTypeOK
    <3> QED
      BY <2>1, <3>1 DEF Open, LedgerTypeOK, SessionValue, Status, Active
  <2>2. ASSUME NEW s \in Session, Sign(s) PROVE LedgerTypeOK'
    <3>1. Amount[s] \in Nat
      BY AmountAssumption
    <3> QED
      BY <2>2, <3>1 DEF Sign, LedgerTypeOK, SessionValue, Status
  <2>3. ASSUME NEW s \in Session, NEW j \in Index, Submit(s, j) PROVE LedgerTypeOK'
    BY <2>3 DEF Submit, LedgerTypeOK, SessionValue, Status, Active
  <2>4. ASSUME NEW S \in SUBSET Session, NEW how \in Closed, Close(S, how) PROVE LedgerTypeOK'
    <3>1. ASSUME NEW u \in User PROVE Refund(S, u) \in Nat
      BY AmountAssumption DEF Refund
    <3>2. balance' \in [User -> Nat]
      BY <2>4, <3>1 DEF Close, LedgerTypeOK
    <3> QED
      BY <2>4, <3>2 DEF Close, LedgerTypeOK, SessionValue, Status
  <2>5. CASE UNCHANGED ledger
    BY <2>5 DEF ledger, LedgerTypeOK
  <2> QED
    BY <2>1, <2>2, <2>3, <2>4, <2>5 DEF Next
<1> QED
  BY <1>1, <1>2, PTL DEF Spec

\* At most one pending or submitted session per customer.
THEOREM OneOpenAlways == Spec => []OneOpen
<1>1. Init => OneOpen
  BY DEF Init, OneOpen, IsOpen, Absent, Active
<1>2. LedgerTypeOK /\ OneOpen /\ [Next]_ledger => OneOpen'
  <2> SUFFICES ASSUME LedgerTypeOK, OneOpen, [Next]_ledger,
                      NEW q \in Session, IsOpen(q)', NEW r \in Rival(q)
               PROVE  ~IsOpen(r)'
    BY DEF OneOpen, Rival
  <2>1. r \in Session /\ r # q /\ q \in Rival(r)
    BY DEF Rival
  <2>2. IsOpen(q) => ~IsOpen(r)
    BY DEF OneOpen
  <2>3. ASSUME NEW s \in Session, Open(s) PROVE ~IsOpen(r)'
    BY <2>1, <2>2, <2>3 DEF Open, IsOpen, LedgerTypeOK, SessionValue
  <2>4. ASSUME NEW s \in Session, Sign(s) PROVE ~IsOpen(r)'
    BY <2>1, <2>2, <2>4 DEF Sign, IsOpen, LedgerTypeOK, SessionValue, Active
  <2>5. ASSUME NEW s \in Session, NEW j \in Index, Submit(s, j) PROVE ~IsOpen(r)'
    BY <2>1, <2>2, <2>5 DEF Submit, IsOpen, LedgerTypeOK, SessionValue, Active
  <2>6. ASSUME NEW S \in SUBSET Session, NEW how \in Closed, Close(S, how) PROVE ~IsOpen(r)'
    BY <2>1, <2>2, <2>6 DEF Close, IsOpen, LedgerTypeOK, SessionValue, Active, Closed
  <2>7. CASE UNCHANGED ledger
    BY <2>2, <2>7 DEF ledger, IsOpen
  <2> QED
    BY <2>3, <2>4, <2>5, <2>6, <2>7 DEF Next
<1> QED
  BY <1>1, <1>2, LedgerTyped, PTL DEF Spec

\* No index is picked before the submit.
Unpicked == \A s \in Session : session[s].status \in {"none", "pending"} => session[s].j_index = NoIndex

\* A session nobody has submitted has no index: the bank does not choose in advance.
LEMMA UnpickedAlways == Spec => []Unpicked
<1>1. Init => Unpicked
  BY DEF Init, Unpicked, Absent
<1>2. LedgerTypeOK /\ Unpicked /\ [Next]_ledger => Unpicked'
  <2> SUFFICES ASSUME LedgerTypeOK, Unpicked, [Next]_ledger PROVE Unpicked'
    OBVIOUS
  <2>1. ASSUME NEW s \in Session, Open(s) PROVE Unpicked'
    BY <2>1 DEF Open, Unpicked, LedgerTypeOK, SessionValue, Absent
  <2>2. ASSUME NEW s \in Session, Sign(s) PROVE Unpicked'
    BY <2>2 DEF Sign, Unpicked, LedgerTypeOK, SessionValue
  <2>3. ASSUME NEW s \in Session, NEW j \in Index, Submit(s, j) PROVE Unpicked'
    BY <2>3 DEF Submit, Unpicked, LedgerTypeOK, SessionValue
  <2>4. ASSUME NEW S \in SUBSET Session, NEW how \in Closed, Close(S, how) PROVE Unpicked'
    BY <2>4 DEF Close, Unpicked, LedgerTypeOK, SessionValue, Closed
  <2>5. CASE UNCHANGED ledger
    BY <2>5 DEF ledger, Unpicked
  <2> QED
    BY <2>1, <2>2, <2>3, <2>4, <2>5 DEF Next
<1> QED
  BY <1>1, <1>2, LedgerTyped, PTL DEF Spec

\* No step reopens a session that ended or picks a second index for a session.
THEOREM FinalAlways == Spec => [][Final]_ledger
<1>1. LedgerTypeOK /\ Unpicked /\ [Next]_ledger => [Final]_ledger
  <2> SUFFICES ASSUME LedgerTypeOK, Unpicked, Next, NEW q \in Session
               PROVE  FinalFor(q)
    BY DEF Final
  <2>1. ASSUME NEW s \in Session, Open(s)
        PROVE  FinalFor(q)
    BY <2>1 DEF FinalFor, Open, LedgerTypeOK, SessionValue, Closed, Absent
  <2>2. ASSUME NEW s \in Session, Sign(s)
        PROVE  FinalFor(q)
    BY <2>2 DEF FinalFor, Sign, LedgerTypeOK, SessionValue, Closed
  <2>3. ASSUME NEW s \in Session, NEW j \in Index, Submit(s, j)
        PROVE  FinalFor(q)
    BY <2>3 DEF FinalFor, Submit, Unpicked, LedgerTypeOK, SessionValue, Closed
  <2>4. ASSUME NEW S \in SUBSET {s \in Session : IsOpen(s)}, NEW how \in Closed, Close(S, how)
        PROVE  FinalFor(q)
    BY <2>4 DEF FinalFor, Close, IsOpen, Active, LedgerTypeOK, SessionValue, Closed
  <2> QED
    BY <2>1, <2>2, <2>3, <2>4 DEF Next
<1> QED
  BY <1>1, LedgerTyped, UnpickedAlways, PTL DEF Spec
=============================================================================
