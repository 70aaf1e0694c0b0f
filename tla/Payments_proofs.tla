--------------------------- MODULE Payments_proofs ---------------------------
(***************************************************************************)
(* Payments are credited once, for any number of payments and sessions.    *)
(* The inductive invariant says what a session knows while it holds a row: *)
(* between LockPayment and COMMIT the payment it locked is still pending   *)
(* and still locked by it; between PayLockCash and COMMIT the balance it   *)
(* read is still the balance.  The invariant survives not only the steps   *)
(* of Payments but every step of another component that respects the row   *)
(* locks (CashRely), so that it can be used in a composition.              *)
(***************************************************************************)
EXTENDS Payments, TLAPS

\* The sessions that are past LockPayment work on a pending payment they hold.
HoldsPayment ==
  \A t \in PayTx : payPc[t] \in {"lockCash", "commit"} =>
    payLock[payReq[t].id] = t /\ payStatus[payReq[t].id] = "pending"

\* A session about to commit a credit holds the account and knows its balance.
HoldsPayerCash ==
  \A t \in PayTx : payPc[t] = "commit" /\ payReq[t].outcome = "succeeded" =>
    cashLock[Payer[payReq[t].id]] = t /\ paySeen[t] = cash[Payer[payReq[t].id]]

CashTypeOK ==
  /\ cash \in [Users -> Int]
  /\ cashLog \in [Users -> Int]
  /\ cashLock \in [Users -> Tx \cup {Free}]

PaymentsInv ==
  /\ PaymentsTypeOK
  /\ HoldsPayment
  /\ HoldsPayerCash
  /\ CreditedOnce

\* What a step of somebody else may do to the accounts rows held by `mine`:
\* nothing.  This is the row lock of PostgreSQL.
CashRely(mine) ==
  \A u \in Users : cashLock[u] \in mine => cashLock'[u] = cashLock[u] /\ cash'[u] = cash[u]

LEMMA PaymentsInitInv == PaymentsInit /\ AccountsInit => PaymentsInv /\ CashTypeOK
  BY PayTxAssumption, NoPaymentAssumption, OpeningAssumption
  DEF PaymentsInit, AccountsInit, PaymentsInv, PaymentsTypeOK, PayStatuses, PayPcs, Outcomes,
      HoldsPayment, HoldsPayerCash, CreditedOnce, CashTypeOK

\* Steps of other components that leave the payments alone and respect the
\* row locks on the accounts preserve the invariant.
LEMMA PaymentsEnvironment ==
  ASSUME PaymentsInv, UNCHANGED payVars, CashRely(PayTx)
  PROVE  PaymentsInv'
<1>1. PaymentsTypeOK' /\ HoldsPayment' /\ CreditedOnce'
  BY DEF PaymentsInv, PaymentsTypeOK, HoldsPayment, CreditedOnce, payVars
<1>2. HoldsPayerCash'
  BY PayerAssumption
  DEF PaymentsInv, PaymentsTypeOK, HoldsPayerCash, CashRely, payVars
<1> QED BY <1>1, <1>2 DEF PaymentsInv

\* What PayForget does, session by session.
LEMMA PayForgetFacts ==
  ASSUME PaymentsTypeOK, NEW t \in PayTx, PayForget(t)
  PROVE  /\ payPc' \in [PayTx -> PayPcs]
         /\ payReq' \in [PayTx -> [id : PaymentIds \cup {NoPayment}, outcome : Outcomes]]
         /\ paySeen' \in [PayTx -> Int]
         /\ payPc'[t] = "idle"
         /\ \A s \in PayTx \ {t} :
              payPc'[s] = payPc[s] /\ payReq'[s] = payReq[s] /\ paySeen'[s] = paySeen[s]
  BY DEF PayForget, PaymentsTypeOK, PayPcs, Outcomes

\* Every step of the component preserves its invariant and the type of the
\* cash rows, and keeps ledger and balance together.
LEMMA PaymentsStepInv ==
  ASSUME PaymentsInv, CashTypeOK, BalanceMatchesLedger, PaymentsNext
  PROVE  PaymentsInv' /\ CashTypeOK' /\ BalanceMatchesLedger'
<1> USE PayTxAssumption, PayerAssumption, AmountAssumption, FreeIsNoTx
<1>1. PaymentsTypeOK /\ HoldsPayment /\ HoldsPayerCash /\ CreditedOnce
  BY DEF PaymentsInv
<1>2. CASE \E p \in PaymentIds : Deposit(p)
  <2>1. PICK p \in PaymentIds : Deposit(p)
    BY <1>2
  <2>2. PaymentsTypeOK' /\ CreditedOnce'
    BY <1>1, <2>1 DEF Deposit, PaymentsTypeOK, PayStatuses, CreditedOnce
  <2>3. HoldsPayment' /\ HoldsPayerCash'
    BY <1>1, <2>1 DEF Deposit, PaymentsTypeOK, HoldsPayment, HoldsPayerCash, cashVars
  <2> QED
    BY <2>1, <2>2, <2>3 DEF Deposit, PaymentsInv, CashTypeOK, BalanceMatchesLedger, cashVars
<1>3. ASSUME NEW t \in PayTx, NEW p \in PaymentIds, NEW outcome \in Outcomes,
             BeginSettle(t, p, outcome)
      PROVE  PaymentsInv' /\ CashTypeOK' /\ BalanceMatchesLedger'
  <2>1. PaymentsTypeOK' /\ CreditedOnce'
    BY <1>1, <1>3 DEF BeginSettle, PayGoto, PaymentsTypeOK, PayPcs, Outcomes, CreditedOnce
  <2>2. HoldsPayment' /\ HoldsPayerCash'
    BY <1>1, <1>3
    DEF BeginSettle, PayGoto, PaymentsTypeOK, HoldsPayment, HoldsPayerCash, cashVars
  <2> QED
    BY <1>3, <2>1, <2>2 DEF BeginSettle, PaymentsInv, CashTypeOK, BalanceMatchesLedger, cashVars
<1>4. ASSUME NEW t \in PayTx, LockPayment(t)
      PROVE  PaymentsInv' /\ CashTypeOK' /\ BalanceMatchesLedger'
  <2>1. payReq[t].id \in PaymentIds
    BY <1>1, <1>4 DEF LockPayment, PaymentsTypeOK
  <2>2. CASE payStatus[payReq[t].id] # "pending"
    <3>1. PayForget(t) /\ UNCHANGED <<payLock, payStatus, credits, cashVars>>
      BY <1>4, <2>2 DEF LockPayment
    <3>2. PaymentsTypeOK'
      BY <1>1, <3>1, PayForgetFacts DEF PaymentsTypeOK
    <3>3. CreditedOnce'
      BY <1>1, <3>1 DEF CreditedOnce
    <3>4. HoldsPayment'
      BY <1>1, <3>1, PayForgetFacts DEF HoldsPayment, PaymentsTypeOK
    <3>5. HoldsPayerCash'
      BY <1>1, <3>1, PayForgetFacts DEF HoldsPayerCash, PaymentsTypeOK, cashVars
    <3> QED
      BY <3>1, <3>2, <3>3, <3>4, <3>5
      DEF PaymentsInv, CashTypeOK, BalanceMatchesLedger, cashVars
  <2>3. CASE payStatus[payReq[t].id] = "pending"
    <3>1. /\ payPc[t] = "lockPayment" /\ payLock[payReq[t].id] = Free
          /\ payLock' = [payLock EXCEPT ![payReq[t].id] = t]
          /\ payPc' = [payPc EXCEPT ![t] =
                         IF payReq[t].outcome = "succeeded" THEN "lockCash" ELSE "commit"]
          /\ UNCHANGED <<payReq, paySeen, payStatus, credits, cash, cashLog, cashLock>>
      BY <1>4, <2>3 DEF LockPayment, PayGoto, cashVars
    <3>2. PaymentsTypeOK' /\ CreditedOnce'
      BY <1>1, <2>1, <3>1 DEF PaymentsTypeOK, PayPcs, CreditedOnce
    <3>3. HoldsPayment'
      BY <1>1, <2>1, <2>3, <3>1 DEF PaymentsTypeOK, HoldsPayment
    <3>4. HoldsPayerCash'
      BY <1>1, <2>1, <3>1 DEF PaymentsTypeOK, HoldsPayerCash
    <3> QED BY <3>1, <3>2, <3>3, <3>4 DEF PaymentsInv, CashTypeOK, BalanceMatchesLedger
  <2> QED BY <2>2, <2>3
<1>5. ASSUME NEW t \in PayTx, PayLockCash(t)
      PROVE  PaymentsInv' /\ CashTypeOK' /\ BalanceMatchesLedger'
  <2> DEFINE u == Payer[payReq[t].id]
  <2>1. /\ payReq[t].id \in PaymentIds /\ u \in Users
        /\ payPc[t] = "lockCash" /\ cashLock[u] = Free
        /\ cashLock' = [cashLock EXCEPT ![u] = t]
        /\ paySeen' = [paySeen EXCEPT ![t] = cash[u]]
        /\ payPc' = [payPc EXCEPT ![t] = "commit"]
        /\ UNCHANGED <<payStatus, payLock, credits, payReq, cash, cashLog>>
    BY <1>1, <1>5 DEF PayLockCash, Acquire, PayGoto, PaymentsTypeOK
  <2>2. PaymentsTypeOK' /\ CreditedOnce' /\ HoldsPayment'
    BY <1>1, <2>1 DEF PaymentsTypeOK, PayPcs, CreditedOnce, HoldsPayment, CashTypeOK
  <2>3. HoldsPayerCash'
    BY <1>1, <2>1 DEF PaymentsTypeOK, HoldsPayerCash, CashTypeOK
  <2>4. CashTypeOK' /\ BalanceMatchesLedger'
    BY <2>1 DEF CashTypeOK, BalanceMatchesLedger
  <2> QED BY <2>2, <2>3, <2>4 DEF PaymentsInv
<1>6. ASSUME NEW t \in PayTx, CommitCredit(t)
      PROVE  PaymentsInv' /\ CashTypeOK' /\ BalanceMatchesLedger'
  <2> DEFINE p == payReq[t].id
             u == Payer[p]
  <2>1. /\ p \in PaymentIds /\ u \in Users /\ Amount[p] \in Int
        /\ payPc[t] = "commit" /\ payStatus[p] = "pending" /\ payLock[p] = t
        /\ cashLock[u] = t /\ paySeen[t] = cash[u]
    BY <1>1, <1>6 DEF CommitCredit, PaymentsTypeOK, HoldsPayment, HoldsPayerCash
  <2>2. /\ payStatus' = [payStatus EXCEPT ![p] = "succeeded"]
        /\ credits' = [credits EXCEPT ![p] = @ + 1]
        /\ cash' = [cash EXCEPT ![u] = paySeen[t] + Amount[p]]
        /\ cashLog' = [cashLog EXCEPT ![u] = @ + Amount[p]]
        /\ cashLock' = Released(cashLock, t)
        /\ payLock' = Released(payLock, t)
        /\ PayForget(t)
    BY <1>6 DEF CommitCredit, PostCash
  <2>3. CashTypeOK' /\ BalanceMatchesLedger'
    BY <2>1, <2>2 DEF CashTypeOK, BalanceMatchesLedger, Released
  <2>4. PaymentsTypeOK'
    BY <1>1, <2>1, <2>2, PayForgetFacts DEF PaymentsTypeOK, PayStatuses, Released
  <2>5. CreditedOnce'
    BY <1>1, <2>1, <2>2 DEF CreditedOnce, PaymentsTypeOK
  <2>6. HoldsPayment'
    BY <1>1, <2>1, <2>2, PayForgetFacts DEF HoldsPayment, PaymentsTypeOK, Released
  <2>7. HoldsPayerCash'
    BY <1>1, <2>1, <2>2, PayForgetFacts
    DEF HoldsPayerCash, PaymentsTypeOK, CashTypeOK, Released
  <2> QED BY <2>3, <2>4, <2>5, <2>6, <2>7 DEF PaymentsInv
<1>7. ASSUME NEW t \in PayTx, CommitFailure(t)
      PROVE  PaymentsInv' /\ CashTypeOK' /\ BalanceMatchesLedger'
  <2> DEFINE p == payReq[t].id
  <2>1. p \in PaymentIds /\ payPc[t] = "commit" /\ payStatus[p] = "pending" /\ payLock[p] = t
    BY <1>1, <1>7 DEF CommitFailure, PaymentsTypeOK, HoldsPayment
  <2>2. /\ payStatus' = [payStatus EXCEPT ![p] = "failed"]
        /\ payLock' = Released(payLock, t)
        /\ PayForget(t)
        /\ UNCHANGED <<credits, cash, cashLog, cashLock>>
    BY <1>7 DEF CommitFailure, cashVars
  <2>3. PaymentsTypeOK'
    BY <1>1, <2>1, <2>2, PayForgetFacts DEF PaymentsTypeOK, PayStatuses, Released
  <2>4. CreditedOnce'
    BY <1>1, <2>1, <2>2 DEF CreditedOnce, PaymentsTypeOK
  <2>5. HoldsPayment'
    BY <1>1, <2>1, <2>2, PayForgetFacts DEF HoldsPayment, PaymentsTypeOK, Released
  <2>6. HoldsPayerCash'
    BY <1>1, <2>1, <2>2, PayForgetFacts DEF HoldsPayerCash, PaymentsTypeOK
  <2> QED
    BY <2>2, <2>3, <2>4, <2>5, <2>6 DEF PaymentsInv, CashTypeOK, BalanceMatchesLedger
<1>8. ASSUME NEW t \in PayTx, PayRollback(t)
      PROVE  PaymentsInv' /\ CashTypeOK' /\ BalanceMatchesLedger'
  <2>1. /\ payLock' = Released(payLock, t)
        /\ cashLock' = Released(cashLock, t)
        /\ PayForget(t)
        /\ UNCHANGED <<payStatus, credits, cash, cashLog>>
    BY <1>8 DEF PayRollback
  <2>2. PaymentsTypeOK' /\ CreditedOnce'
    BY <1>1, <2>1, PayForgetFacts DEF PaymentsTypeOK, CreditedOnce, Released
  <2>3. HoldsPayment'
    BY <1>1, <2>1, PayForgetFacts DEF HoldsPayment, PaymentsTypeOK, Released
  <2>4. HoldsPayerCash'
    BY <1>1, <2>1, PayForgetFacts DEF HoldsPayerCash, PaymentsTypeOK, CashTypeOK, Released
  <2>5. CashTypeOK' /\ BalanceMatchesLedger'
    BY <2>1 DEF CashTypeOK, BalanceMatchesLedger, Released
  <2> QED BY <2>2, <2>3, <2>4, <2>5 DEF PaymentsInv
<1> QED
  BY <1>2, <1>3, <1>4, <1>5, <1>6, <1>7, <1>8
  DEF PaymentsNext, PayStep, ConfirmPayment, ProcessWebhook, Outcomes

\* On its own, the component keeps its invariant.
LEMMA PaymentsInvariant ==
  PaymentsSpec => [](PaymentsInv /\ CashTypeOK /\ BalanceMatchesLedger)
<1>1. PaymentsInit /\ AccountsInit => PaymentsInv /\ CashTypeOK /\ BalanceMatchesLedger
  BY PaymentsInitInv DEF AccountsInit, BalanceMatchesLedger
<1>2. PaymentsInv /\ CashTypeOK /\ BalanceMatchesLedger
      /\ [PaymentsAlone]_<<payVars, cashVars, bonusVars>>
      => (PaymentsInv /\ CashTypeOK /\ BalanceMatchesLedger)'
  <2> SUFFICES ASSUME PaymentsInv, CashTypeOK, BalanceMatchesLedger,
                      [PaymentsAlone]_<<payVars, cashVars, bonusVars>>
               PROVE  (PaymentsInv /\ CashTypeOK /\ BalanceMatchesLedger)'
    OBVIOUS
  <2>1. CASE PaymentsNext
    BY <2>1, PaymentsStepInv
  <2>2. CASE UNCHANGED <<payVars, cashVars, bonusVars>>
    BY <2>2, PaymentsEnvironment DEF CashRely, CashTypeOK, BalanceMatchesLedger, cashVars
  <2> QED BY <2>1, <2>2 DEF PaymentsAlone
<1> QED BY <1>1, <1>2, PTL DEF PaymentsSpec, PaymentsInitAll

\* A payment is credited exactly once if it succeeded and never otherwise,
\* for every number of payments, users and racing requests.
THEOREM PaymentCreditedOnce == PaymentsSpec => []CreditedOnce
<1>1. PaymentsInv => CreditedOnce
  BY DEF PaymentsInv
<1> QED BY <1>1, PaymentsInvariant, PTL

\* Every payment, lock and request keeps its type, whatever the requests do
\* and wherever they fail.
THEOREM PaymentsTypesCorrect == PaymentsSpec => []PaymentsTypeOK
<1>1. PaymentsInv => PaymentsTypeOK
  BY DEF PaymentsInv
<1> QED BY <1>1, PaymentsInvariant, PTL

\* The wallet's balance is the sum of its ledger: no top-up is lost, although
\* the balance is written as a number read earlier (row lock of
\* withLockedPendingPayment's transaction on the account).
THEOREM PaymentsBalanceMatchesLedger == PaymentsSpec => []BalanceMatchesLedger
<1> QED BY PaymentsInvariant, PTL

\* Who writes the status of a payment holds its row and found it pending.
LEMMA SettledKept ==
  ASSUME PaymentsInv, PaymentsNext, NEW p \in PaymentIds,
         payStatus[p] \in {"succeeded", "failed"}
  PROVE  payStatus'[p] = payStatus[p]
<1>1. PaymentsTypeOK /\ HoldsPayment
  BY DEF PaymentsInv
<1>2. ASSUME NEW q \in PaymentIds, Deposit(q)
      PROVE  payStatus'[p] = payStatus[p]
  BY <1>1, <1>2 DEF Deposit, PaymentsTypeOK
<1>3. ASSUME NEW t \in PayTx, CommitCredit(t) \/ CommitFailure(t)
      PROVE  payStatus'[p] = payStatus[p]
  BY <1>1, <1>3 DEF CommitCredit, CommitFailure, PaymentsTypeOK, HoldsPayment
<1>4. ASSUME NEW t \in PayTx, LockPayment(t) \/ PayLockCash(t) \/ PayRollback(t)
      PROVE  payStatus'[p] = payStatus[p]
  BY <1>4 DEF LockPayment, PayLockCash, PayRollback
<1>5. ASSUME NEW t \in PayTx, NEW q \in PaymentIds,
             ConfirmPayment(t, q) \/ \E outcome \in Outcomes : ProcessWebhook(t, q, outcome)
      PROVE  payStatus'[p] = payStatus[p]
  BY <1>5 DEF ConfirmPayment, ProcessWebhook, BeginSettle
<1> QED
  BY <1>2, <1>3, <1>4, <1>5 DEF PaymentsNext, PayStep

\* Only a request that holds the row of a pending payment changes its status,
\* so a late webhook or confirm page never revises a settled one
\* (withLockedPendingPayment).
THEOREM PaymentsSettledIsFinal == PaymentsSpec => SettledIsFinal
<1>1. ASSUME PaymentsInv, [PaymentsAlone]_<<payVars, cashVars, bonusVars>>
      PROVE  [\A p \in PaymentIds :
                payStatus[p] \in {"succeeded", "failed"} => payStatus'[p] = payStatus[p]]_payStatus
  BY <1>1, SettledKept DEF PaymentsAlone, payVars
<1> QED BY <1>1, PaymentsInvariant, PTL DEF PaymentsSpec, SettledIsFinal
=============================================================================
