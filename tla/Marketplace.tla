----------------------------- MODULE Marketplace -----------------------------
(***************************************************************************)
(* Orders and payments together.  They share the accounts rows: a top-up   *)
(* and a purchase of the same user meet on the row lock of the cash        *)
(* account, and each writes back an absolute balance.                      *)
(***************************************************************************)
EXTENDS Orders, Payments

\* One request is served by one session.
ASSUME SessionsAssumption == OrderTx \cap PayTx = {}

marketVars == <<orderVars, payVars, cashVars, bonusVars>>

MarketInit == OrdersInitAll /\ PaymentsInit

MarketNext ==
  \/ OrdersNext /\ UNCHANGED payVars
  \/ PaymentsNext /\ UNCHANGED <<orderVars, bonusVars>>

MarketSpec == MarketInit /\ [][MarketNext]_marketVars

MarketTypeOK == AccountsTypeOK /\ OrdersTypeOK /\ PaymentsTypeOK

Credited == {p \in PaymentIds : payStatus[p] = "succeeded"}
CreditedTo(u) == {p \in Credited : Payer[p] = u}

\* Where the money of a buyer is, while top-ups and purchases race for one
\* row: the opening balance, every payment that succeeded counted once, less
\* the price of the orders, each given back once for every refund
\* (processSuccessfulPaymentTx, CreateOrder, RefundOrder).
MarketAccounted ==
  \A u \in Users :
    /\ cash[u] = OpeningCash[u] + SumFunctionOnSet(Amount, CreditedTo(u))
                   - SumFunctionOnSet(MoneyPaid, OrdersOf(u))
    /\ bonus[u] = OpeningBonus[u] - SumFunctionOnSet(PointsPaid, OrdersOf(u))

\* The session that a transaction of a payment, or any transaction, waits for.
PayWaitsFor(t) ==
  CASE payPc[t] = "lockPayment" -> payLock[payReq[t].id]
    [] payPc[t] = "lockCash" -> cashLock[Payer[payReq[t].id]]
    [] OTHER -> Free

MarketWaitsFor(t) == IF t \in OrderTx THEN WaitsFor(t) ELSE PayWaitsFor(t)

\* No transactions of orders and payments wait only for one another, although
\* both come to the wallet of a buyer with other rows locked or yet to lock: a
\* payment locks its own row before the wallet and nothing after it
\* (withLockedPendingPayment, CreateOrder, RefundOrder).
NobodyWaitsInCircle ==
  \A T \in (SUBSET (OrderTx \cup PayTx)) \ {{}} : \E t \in T : MarketWaitsFor(t) \notin T

\* Transactions that interleave and roll back look like top-ups, purchases and
\* refunds that happen one at a time and completely, at their COMMIT.  A
\* partner is followed if its account existed from the start; one opened by
\* the first order can lose an earning (OpeningNeverOverpays).
Atomic == INSTANCE AtomicMarket WITH
  Partners <- OpenedAtStart,
  earned <- [c \in OpenedAtStart |-> merchant[c]],
  sold <- {o \in OrderIds : status[o] # "none"},
  sale <- info,
  back <- refunds,
  credited <- Credited

\* The marketplace implements its abstract specification (CreateOrder,
\* RefundOrder and withLockedPendingPayment as single steps).
MovesMoneyAtomically == Atomic!Spec
=============================================================================
