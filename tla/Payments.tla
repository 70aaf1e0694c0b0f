------------------------------ MODULE Payments ------------------------------
(***************************************************************************)
(* Top-ups of the cash account (usecase/payment.go).  A payment is created *)
(* pending by Deposit and is settled later by the confirm page of the      *)
(* payment emulator or by the provider's webhook.  Either may be repeated, *)
(* may come late, and may run at the same time as another one for the same *)
(* payment; the row lock on the payment is what makes the credit happen    *)
(* once.                                                                   *)
(***************************************************************************)
EXTENDS Accounts

CONSTANTS
  PayTx,      \* the sessions that serve payment requests
  PaymentIds, \* ids of the payments table
  NoPayment,  \* a session that serves no payment
  Payer,      \* the user each payment is created for
  Amount      \* and its amount

ASSUME PayTxAssumption == PayTx \subseteq Tx
ASSUME NoPaymentAssumption == NoPayment \notin PaymentIds
ASSUME PayerAssumption == Payer \in [PaymentIds -> Users]
\* Deposit refuses an amount that is not positive.
ASSUME AmountAssumption == Amount \in [PaymentIds -> Nat \ {0}]

VARIABLES
  payStatus,  \* payments.status, "none" for a row not yet inserted
  payLock,    \* the session whose transaction holds the payments row
  credits,    \* number of completed ledger transactions of type deposit
              \* that refer to the payment
  payPc,      \* where the request served by a session stands
  payReq,     \* the payment and the outcome the request is about
  paySeen     \* the cash balance the transaction read under its lock

payVars == <<payStatus, payLock, credits, payPc, payReq, paySeen>>

PayStatuses == {"none", "pending", "succeeded", "failed"}
Outcomes == {"succeeded", "failed"}
PayPcs == {"idle", "lockPayment", "lockCash", "commit"}

\* No session of this component holds or waits for anything at the start.
PaymentsInit ==
  /\ payStatus = [p \in PaymentIds |-> "none"]
  /\ payLock = [p \in PaymentIds |-> Free]
  /\ credits = [p \in PaymentIds |-> 0]
  /\ payPc = [t \in PayTx |-> "idle"]
  /\ payReq = [t \in PayTx |-> [id |-> NoPayment, outcome |-> "failed"]]
  /\ paySeen = [t \in PayTx |-> 0]

\* Forget the request once it has ended; its locks are released elsewhere.
PayForget(t) ==
  /\ payPc' = [payPc EXCEPT ![t] = "idle"]
  /\ payReq' = [payReq EXCEPT ![t] = [id |-> NoPayment, outcome |-> "failed"]]
  /\ paySeen' = [paySeen EXCEPT ![t] = 0]

PayGoto(t, label) == payPc' = [payPc EXCEPT ![t] = label]
-----------------------------------------------------------------------------
\* Deposit: one INSERT of a pending payment.  The idempotency key holds 16
\* random bytes drawn in the call, so no two calls meet on it.
Deposit(p) ==
  /\ payStatus[p] = "none"
  /\ payStatus' = [payStatus EXCEPT ![p] = "pending"]
  /\ UNCHANGED <<payLock, credits, payPc, payReq, paySeen, cashVars>>

BeginSettle(t, p, outcome) ==
  /\ payPc[t] = "idle"
  /\ payReq' = [payReq EXCEPT ![t] = [id |-> p, outcome |-> outcome]]
  /\ PayGoto(t, "lockPayment")
  /\ UNCHANGED <<payStatus, payLock, credits, paySeen, cashVars>>

\* POST of the confirm page: the handler reads the payment without a lock and
\* goes on unless the payment already succeeded.
ConfirmPayment(t, p) ==
  /\ payStatus[p] \in {"pending", "failed"}
  /\ BeginSettle(t, p, "succeeded")

\* The webhook of the provider: no look at the payment before the lock.
ProcessWebhook(t, p, outcome) ==
  /\ payStatus[p] # "none"
  /\ BeginSettle(t, p, outcome)

\* Variants for mutation: the status is not looked at again under the lock; the
\* transaction is left open when the payment turns out to be settled.
LockPaymentTrusting(t) ==
  LET p == payReq[t].id
  IN  /\ payPc[t] = "lockPayment"
      /\ Acquire(payLock, p, t)
      /\ PayGoto(t, IF payReq[t].outcome = "succeeded" THEN "lockCash" ELSE "commit")
      /\ UNCHANGED <<payStatus, credits, payReq, paySeen, cashVars>>

LockPaymentLeaking(t) ==
  LET p == payReq[t].id
  IN  /\ payPc[t] = "lockPayment"
      /\ Acquire(payLock, p, t)
      /\ IF payStatus[p] # "pending"
         THEN PayForget(t)
         ELSE /\ PayGoto(t, IF payReq[t].outcome = "succeeded" THEN "lockCash" ELSE "commit")
              /\ UNCHANGED <<payReq, paySeen>>
      /\ UNCHANGED <<payStatus, credits, cashVars>>

\* GetByIDForUpdateTx, then the status is looked at again under the lock.
LockPayment(t) ==
  LET p == payReq[t].id
  IN  /\ payPc[t] = "lockPayment"
      /\ payLock[p] = Free
      /\ \/ /\ payStatus[p] # "pending"   \* "payment already processed"
            /\ PayForget(t)
            /\ UNCHANGED payLock
         \/ /\ payStatus[p] = "pending"
            /\ payLock' = [payLock EXCEPT ![p] = t]
            /\ PayGoto(t, IF payReq[t].outcome = "succeeded" THEN "lockCash" ELSE "commit")
            /\ UNCHANGED <<payReq, paySeen>>
      /\ UNCHANGED <<payStatus, credits, cashVars>>

\* Variant for mutation: the account is read without FOR UPDATE.
PayReadCash(t) ==
  /\ payPc[t] = "lockCash"
  /\ paySeen' = [paySeen EXCEPT ![t] = cash[Payer[payReq[t].id]]]
  /\ PayGoto(t, "commit")
  /\ UNCHANGED <<payStatus, payLock, credits, payReq, cashVars>>

\* processSuccessfulPaymentTx reads the account of the owner FOR UPDATE.
PayLockCash(t) ==
  LET u == Payer[payReq[t].id]
  IN  /\ payPc[t] = "lockCash"
      /\ Acquire(cashLock, u, t)
      /\ paySeen' = [paySeen EXCEPT ![t] = cash[u]]
      /\ PayGoto(t, "commit")
      /\ UNCHANGED <<payStatus, payLock, credits, payReq, cash, cashLog>>

\* COMMIT of a success: the status, the ledger and the balance together.
CommitCredit(t) ==
  LET p == payReq[t].id
      u == Payer[p]
  IN  /\ payPc[t] = "commit" /\ payReq[t].outcome = "succeeded"
      /\ payStatus' = [payStatus EXCEPT ![p] = "succeeded"]
      /\ credits' = [credits EXCEPT ![p] = @ + 1]
      /\ PostCash(u, paySeen[t] + Amount[p], Amount[p])
      /\ cashLock' = Released(cashLock, t)
      /\ payLock' = Released(payLock, t)
      /\ PayForget(t)

\* Variant for mutation: the provider's word for a failure is stored as it came.
CommitFailureVerbatim(t) ==
  /\ payPc[t] = "commit" /\ payReq[t].outcome = "failed"
  /\ payStatus' = [payStatus EXCEPT ![payReq[t].id] = "canceled"]
  /\ payLock' = Released(payLock, t)
  /\ PayForget(t)
  /\ UNCHANGED <<credits, cashVars>>

\* COMMIT of a failure: only the status changes.
CommitFailure(t) ==
  /\ payPc[t] = "commit" /\ payReq[t].outcome = "failed"
  /\ payStatus' = [payStatus EXCEPT ![payReq[t].id] = "failed"]
  /\ payLock' = Released(payLock, t)
  /\ PayForget(t)
  /\ UNCHANGED <<credits, cashVars>>

\* A failed statement, a dropped connection or a crash of the server before
\* COMMIT: the deferred Rollback, or PostgreSQL itself, undoes everything.
PayRollback(t) ==
  /\ payPc[t] # "idle"
  /\ payLock' = Released(payLock, t)
  /\ cashLock' = Released(cashLock, t)
  /\ PayForget(t)
  /\ UNCHANGED <<payStatus, credits, cash, cashLog>>
-----------------------------------------------------------------------------
\* The steps a request takes by itself once it has begun.
PayStep(t) == LockPayment(t) \/ PayLockCash(t) \/ CommitCredit(t) \/ CommitFailure(t)

PaymentsNext ==
  \/ \E p \in PaymentIds : Deposit(p)
  \/ \E t \in PayTx, p \in PaymentIds : ConfirmPayment(t, p)
  \/ \E t \in PayTx, p \in PaymentIds, outcome \in Outcomes : ProcessWebhook(t, p, outcome)
  \/ \E t \in PayTx : PayStep(t) \/ PayRollback(t)

PaymentsTypeOK ==
  /\ payStatus \in [PaymentIds -> PayStatuses]
  /\ payLock \in [PaymentIds -> Tx \cup {Free}]
  /\ credits \in [PaymentIds -> Nat]
  /\ payPc \in [PayTx -> PayPcs]
  /\ payReq \in [PayTx -> [id : PaymentIds \cup {NoPayment}, outcome : Outcomes]]
  /\ \A t \in PayTx : payPc[t] # "idle" => payReq[t].id \in PaymentIds
  /\ paySeen \in [PayTx -> Int]
-----------------------------------------------------------------------------
\* A payment is credited to the wallet once if it succeeded and never
\* otherwise, whatever confirm pages and webhooks raced for it
\* (withLockedPendingPayment).
CreditedOnce ==
  \A p \in PaymentIds : credits[p] = IF payStatus[p] = "succeeded" THEN 1 ELSE 0

\* A settled payment is final: no late webhook reverses it and no confirm page
\* revives a failed one (withLockedPendingPayment).
SettledIsFinal ==
  [][\A p \in PaymentIds :
       payStatus[p] \in {"succeeded", "failed"} => payStatus'[p] = payStatus[p]]_payStatus

\* A request that began to settle a payment ends: nobody waits for ever for
\* the row locks of the payment and of the account.
SettleEnds == \A t \in PayTx : payPc[t] # "idle" ~> payPc[t] = "idle"
-----------------------------------------------------------------------------
\* The component on its own: nothing else touches the accounts.
PaymentsAlone == PaymentsNext /\ UNCHANGED bonusVars

PaymentsInitAll == AccountsInit /\ PaymentsInit
PaymentsSpec == PaymentsInitAll /\ [][PaymentsAlone]_<<payVars, cashVars, bonusVars>>

\* A goroutine that can run does run, and PostgreSQL hands a lock to its
\* waiters in the order they asked: strong fairness of every request.  Nothing
\* is assumed about users, webhooks or failures.
PaymentsFairness ==
  \A t \in PayTx : SF_<<payVars, cashVars, bonusVars>>(PayStep(t) /\ UNCHANGED bonusVars)

PaymentsFairSpec == PaymentsSpec /\ PaymentsFairness
=============================================================================
