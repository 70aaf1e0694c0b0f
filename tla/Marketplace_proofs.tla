-------------------------- MODULE Marketplace_proofs --------------------------
(***************************************************************************)
(* Orders and payments composed.  Each component keeps its own invariant   *)
(* and respects the row locks the other one holds, so both invariants hold *)
(* of the composition; with them every step is a top-up, a purchase or a   *)
(* refund of AtomicMarket, or changes nothing AtomicMarket sees.           *)
(***************************************************************************)
EXTENDS Marketplace, OrdersMoney_proofs, Payments_proofs

MarketInv == OrdersInv /\ PaymentsInv

\* What a step of Payments does to the accounts: it credits, and touches no
\* row another component holds.
LEMMA PaymentsGuarantee ==
  ASSUME PaymentsInv, CashTypeOK, PaymentsNext
  PROVE  /\ \A u \in Users : cash'[u] >= cash[u]
         /\ \A u \in Users : cashLock[u] \notin PayTx \cup {Free} =>
              cashLock'[u] = cashLock[u] /\ cash'[u] = cash[u]
<1> USE PayTxAssumption, PayerAssumption, AmountAssumption DEF CashTypeOK
<1>1. PaymentsTypeOK /\ HoldsPayerCash
  BY DEF PaymentsInv
<1>2. CASE UNCHANGED cashVars
  BY <1>2 DEF cashVars
<1>3. ASSUME NEW t \in PayTx, PayLockCash(t)
      PROVE  /\ cash' = cash
             /\ \A u \in Users : cashLock[u] \notin PayTx \cup {Free} => cashLock'[u] = cashLock[u]
  BY <1>3 DEF PayLockCash, Acquire
<1>4. ASSUME NEW t \in PayTx, CommitCredit(t)
      PROVE  /\ \A u \in Users : cash'[u] >= cash[u]
             /\ \A u \in Users : cashLock[u] \notin PayTx \cup {Free} =>
                  cashLock'[u] = cashLock[u] /\ cash'[u] = cash[u]
  <2> DEFINE p == payReq[t].id
             u == Payer[p]
  <2>1. /\ p \in PaymentIds /\ u \in Users /\ Amount[p] \in Nat
        /\ cashLock[u] = t /\ paySeen[t] = cash[u]
    BY <1>1, <1>4 DEF CommitCredit, PaymentsTypeOK, HoldsPayerCash
  <2>2. cash' = [cash EXCEPT ![u] = paySeen[t] + Amount[p]] /\ cashLock' = Released(cashLock, t)
    BY <1>4 DEF CommitCredit, PostCash
  <2> QED BY <2>1, <2>2 DEF Released
<1>5. ASSUME NEW t \in PayTx, PayRollback(t)
      PROVE  /\ cash' = cash
             /\ \A u \in Users : cashLock[u] \notin PayTx \cup {Free} => cashLock'[u] = cashLock[u]
  BY <1>5 DEF PayRollback, Released
<1>6. CASE \/ \E p \in PaymentIds : Deposit(p)
           \/ \E t \in PayTx, p \in PaymentIds : ConfirmPayment(t, p)
           \/ \E t \in PayTx, p \in PaymentIds, outcome \in Outcomes : ProcessWebhook(t, p, outcome)
           \/ \E t \in PayTx : LockPayment(t) \/ CommitFailure(t)
  BY <1>2, <1>6
  DEF Deposit, ConfirmPayment, ProcessWebhook, BeginSettle, LockPayment, CommitFailure
<1>7. CASE \E t \in PayTx : PayLockCash(t) \/ CommitCredit(t) \/ PayRollback(t)
  BY <1>3, <1>4, <1>5, <1>7
<1> QED BY <1>6, <1>7 DEF PaymentsNext, PayStep

LEMMA MarketInitInv == MarketInit => MarketInv
  BY OrdersInitInv, PaymentsInitInv DEF MarketInit, OrdersInitAll, MarketInv

LEMMA MarketNextInv ==
  ASSUME MarketInv, [MarketNext]_marketVars
  PROVE  MarketInv'
<1> USE SessionsAssumption, PayTxAssumption, OrderTxAssumption, FreeIsNoTx
<1>1. OrdersInv /\ PaymentsInv /\ AccountsTypeOK /\ CashTypeOK /\ BalanceMatchesLedger
  BY DEF MarketInv, OrdersInv, BooksAgree, AccountsTypeOK, CashTypeOK
<1>2. CASE OrdersNext /\ UNCHANGED payVars
  <2>1. OrdersInv' /\ CashRely(PayTx)
    BY <1>1, <1>2, OrdersNextKeeps DEF CashRely
  <2> QED BY <1>1, <1>2, <2>1, PaymentsEnvironment DEF MarketInv
<1>3. CASE PaymentsNext /\ UNCHANGED <<orderVars, bonusVars>>
  <2>1. PaymentsInv' /\ CashTypeOK' /\ BalanceMatchesLedger'
    BY <1>1, <1>3, PaymentsStepInv
  <2>2. AccountsTypeOK'
    BY <1>1, <1>3, <2>1 DEF AccountsTypeOK, CashTypeOK, bonusVars
  <2>3. /\ \A u \in Users : cash'[u] >= cash[u]
        /\ \A u \in Users : cashLock[u] \in OrderTx =>
             cashLock'[u] = cashLock[u] /\ cash'[u] = cash[u]
    BY <1>1, <1>3, PaymentsGuarantee
  <2>4. NoOverdraft'
    <3>1. NoOverdraft
      BY <1>1 DEF OrdersInv, BooksAgree
    <3> QED BY <1>1, <1>3, <2>2, <2>3, <3>1 DEF NoOverdraft, AccountsTypeOK, bonusVars
  <2>5. OrdersInv'
    BY <1>1, <1>3, <2>1, <2>2, <2>3, <2>4, OrdersEnvironment DEF bonusVars
  <2> QED BY <2>1, <2>5 DEF MarketInv
<1>4. CASE UNCHANGED marketVars
  <2>1. PaymentsInv'
    BY <1>1, <1>4, PaymentsEnvironment DEF marketVars, cashVars, CashRely
  <2>2. AccountsTypeOK' /\ BalanceMatchesLedger' /\ NoOverdraft'
    BY <1>1, <1>4
    DEF marketVars, cashVars, bonusVars, OrdersInv, BooksAgree, AccountsTypeOK,
        BalanceMatchesLedger, NoOverdraft
  <2>3. OrdersInv'
    BY <1>1, <1>4, <2>2, OrdersEnvironment DEF marketVars, cashVars, bonusVars
  <2> QED BY <2>1, <2>3 DEF MarketInv
<1> QED BY <1>2, <1>3, <1>4 DEF MarketNext

LEMMA MarketInvariant == MarketSpec => []MarketInv
  BY MarketInitInv, MarketNextInv, PTL DEF MarketSpec

\* With top-ups, purchases and refunds of any number of users running at the
\* same time, no wallet loses an entry and none is overdrawn.
THEOREM MarketBooksAgree == MarketSpec => [](BalanceMatchesLedger /\ NoOverdraft)
<1>1. MarketInv => BalanceMatchesLedger /\ NoOverdraft
  BY DEF MarketInv, OrdersInv, BooksAgree
<1> QED BY <1>1, MarketInvariant, PTL

\* The wallets stay solvent while top-ups run beside purchases (CreateOrder and
\* the payment transaction lock the same row).
THEOREM MarketOverdrawsNobody == MarketSpec => []NoOverdraft
<1> QED BY MarketBooksAgree, PTL

\* A payment is credited once, a partner's order given back once and a
\* partner's balance is its journal, in whatever order the requests of both
\* components come to the rows they share.
THEOREM MarketMovesMoneyOnce ==
  MarketSpec => [](CreditedOnce /\ PartnerRefundedOnce /\ MerchantMatchesJournal)
<1>1. MarketInv => CreditedOnce /\ PartnerRefundedOnce /\ MerchantMatchesJournal
  BY RefundedOnce DEF MarketInv, PaymentsInv, OrdersInv, BooksAgree
<1> QED BY <1>1, MarketInvariant, PTL

\* No step of an order revises a payment, and no step of a payment revises a
\* settled one (withLockedPendingPayment).
THEOREM MarketSettledIsFinal == MarketSpec => SettledIsFinal
<1>1. ASSUME MarketInv, [MarketNext]_marketVars
      PROVE  [\A p \in PaymentIds :
                payStatus[p] \in {"succeeded", "failed"} => payStatus'[p] = payStatus[p]]_payStatus
  BY <1>1, SettledKept DEF MarketInv, MarketNext, marketVars, payVars
<1> QED BY <1>1, MarketInvariant, PTL DEF MarketSpec, SettledIsFinal

\* All columns, locks and requests of both components keep their types.
THEOREM MarketTypesCorrect == MarketSpec => []MarketTypeOK
<1>1. MarketInv => MarketTypeOK
  BY DEF MarketInv, OrdersInv, PaymentsInv, MarketTypeOK
<1> QED BY <1>1, MarketInvariant, PTL

-----------------------------------------------------------------------------
(* Where the money is.  A step of an order keeps what a buyer would have   *)
(* had every order been free, and a step of a payment keeps what orders    *)
(* cost; a credit moves the wallet by the payment that joins the set.      *)

\* The COMMIT of a success adds one payment to those credited.
LEMMA CreditFacts ==
  ASSUME PaymentsInv, NEW t \in PayTx, CommitCredit(t)
  PROVE  \E p \in PaymentIds :
           /\ p \notin Credited /\ Credited' = Credited \cup {p}
           /\ cash' = [cash EXCEPT ![Payer[p]] = @ + Amount[p]]
<1>0. PICK p \in PaymentIds : p = payReq[t].id
  BY DEF CommitCredit, PaymentsInv, PaymentsTypeOK
<1> DEFINE u == Payer[p]
<1>1. payStatus[p] = "pending" /\ paySeen[t] = cash[u]
  BY <1>0 DEF CommitCredit, PaymentsInv, PaymentsTypeOK, HoldsPayment, HoldsPayerCash
<1>2. /\ payStatus' = [payStatus EXCEPT ![p] = "succeeded"]
      /\ cash' = [cash EXCEPT ![u] = @ + Amount[p]]
  BY <1>0, <1>1 DEF CommitCredit, PostCash
<1>3. p \notin Credited /\ Credited' = Credited \cup {p}
  BY <1>1, <1>2 DEF Credited, PaymentsInv, PaymentsTypeOK
<1> QED BY <1>2, <1>3

\* No other step of a payment moves money or settles it as a success.
LEMMA OnlyCreditsPay ==
  ASSUME PaymentsInv, PaymentsNext
  PROVE  (\E t \in PayTx : CommitCredit(t)) \/ UNCHANGED <<cash, Credited>>
<1>1. ASSUME NEW p \in PaymentIds, Deposit(p)
      PROVE  UNCHANGED <<cash, Credited>>
  BY <1>1 DEF Deposit, cashVars, Credited, PaymentsInv, PaymentsTypeOK
<1>2. ASSUME NEW t \in PayTx, CommitFailure(t)
      PROVE  UNCHANGED <<cash, Credited>>
  BY <1>2
  DEF CommitFailure, cashVars, Credited, PaymentsInv, PaymentsTypeOK, HoldsPayment
<1>3. CASE \/ \E t \in PayTx, p \in PaymentIds : ConfirmPayment(t, p)
           \/ \E t \in PayTx, p \in PaymentIds, outcome \in Outcomes : ProcessWebhook(t, p, outcome)
           \/ \E t \in PayTx : LockPayment(t) \/ PayLockCash(t) \/ PayRollback(t)
  <2>1. UNCHANGED <<cash, payStatus>>
    BY <1>3
    DEF ConfirmPayment, ProcessWebhook, BeginSettle, LockPayment, PayLockCash, PayRollback, cashVars
  <2> QED BY <2>1 DEF Credited
<1> QED BY <1>1, <1>2, <1>3 DEF PaymentsNext, PayStep

ToppedUp(u) == SumFunctionOnSet(Amount, CreditedTo(u))

TopUpsAccounted ==
  /\ IsFiniteSet(Credited)
  /\ \A u \in Users : /\ CashWorth(u) = OpeningCash[u] + ToppedUp(u)
                      /\ PointsWorth(u) = OpeningBonus[u]

\* A payment leaves what orders cost, and the points.
LEMMA PaymentsKeepSpending ==
  ASSUME MoneyInv, UNCHANGED <<orderVars, bonusVars>>
  PROVE  /\ MoneyInv'
         /\ \A u \in Users :
              /\ SumFunctionOnSet(MoneyPaid', OrdersOf(u)') = SumFunctionOnSet(MoneyPaid, OrdersOf(u))
              /\ PointsWorth(u)' = PointsWorth(u)
BY MoneyOutside DEF PointsWorth, bonusVars

LEMMA CreditAccounted ==
  ASSUME MarketInv, MoneyInv, TopUpsAccounted, NEW t \in PayTx, CommitCredit(t),
         UNCHANGED <<orderVars, bonusVars>>
  PROVE  TopUpsAccounted'
<1>1. PICK p \in PaymentIds :
        /\ p \notin Credited /\ Credited' = Credited \cup {p}
        /\ cash' = [cash EXCEPT ![Payer[p]] = @ + Amount[p]]
  BY CreditFacts DEF MarketInv
<1>2. Payer[p] \in Users /\ \A q \in PaymentIds : Amount[q] \in Int
  BY PayerAssumption, AmountAssumption
<1>3. IsFiniteSet(Credited')
  BY <1>1, FS_AddElement DEF TopUpsAccounted
<1>4. ASSUME NEW u \in Users
      PROVE  /\ CashWorth(u)' = OpeningCash[u] + ToppedUp(u)'
             /\ PointsWorth(u)' = OpeningBonus[u]
  <2> DEFINE S == CreditedTo(u)
             spent == SumFunctionOnSet(MoneyPaid, OrdersOf(u))
  <2>1. /\ S \subseteq Credited /\ IsFiniteSet(S) /\ p \notin S
        /\ CreditedTo(u)' = IF Payer[p] = u THEN S \cup {p} ELSE S
    <3>1. S \subseteq Credited
      BY DEF CreditedTo
    <3>2. IsFiniteSet(S)
      BY <3>1, FS_Subset DEF TopUpsAccounted
    <3>3. CreditedTo(u)' = IF Payer[p] = u THEN S \cup {p} ELSE S
      BY <1>1 DEF CreditedTo
    <3> QED BY <1>1, <3>1, <3>2, <3>3
  <2>2. \A q \in S : Amount[q] \in Int
    BY <1>2, <2>1 DEF Credited
  <2>3. SumFunctionOnSet(Amount, S) \in Int
    <3> HIDE DEF S
    <3> QED BY <2>1, <2>2, SumInt
  <2>4. ToppedUp(u)' = SumFunctionOnSet(Amount, S) + IF Payer[p] = u THEN Amount[p] ELSE 0
    <3>1. Payer[p] = u =>
            SumFunctionOnSet(Amount, S \cup {p}) = SumFunctionOnSet(Amount, S) + Amount[p]
      <4> HIDE DEF S
      <4> QED BY <1>2, <2>1, <2>2, SumAppended
    <3> QED BY <2>1, <2>3, <3>1 DEF ToppedUp
  <2>5. /\ SumFunctionOnSet(MoneyPaid', OrdersOf(u)') = spent
        /\ PointsWorth(u)' = PointsWorth(u)
    BY PaymentsKeepSpending
  <2>6. spent \in Int /\ cash[u] \in Int /\ OpeningCash[u] \in Int
    BY SpendingIsTyped, OpeningAssumption DEF MarketInv
  <2>7. cash'[u] = cash[u] + IF Payer[p] = u THEN Amount[p] ELSE 0
    BY <1>1, <1>2, <2>6 DEF MarketInv, OrdersInv, AccountsTypeOK
  <2>8. /\ cash[u] + spent = OpeningCash[u] + SumFunctionOnSet(Amount, S)
        /\ PointsWorth(u) = OpeningBonus[u]
    BY DEF TopUpsAccounted, CashWorth, ToppedUp
  <2>9. cash'[u] + spent = OpeningCash[u] + ToppedUp(u)'
    <3> HIDE DEF S, spent
    <3> QED BY <1>2, <2>3, <2>4, <2>6, <2>7, <2>8
  <2> QED BY <2>5, <2>8, <2>9 DEF CashWorth
<1> QED BY <1>3, <1>4 DEF TopUpsAccounted

LEMMA TopUpsInitially == MarketInit => MoneyInv /\ TopUpsAccounted
<1> SUFFICES ASSUME MarketInit
             PROVE  MoneyInv /\ TopUpsAccounted
  OBVIOUS
<1>1. OrdersInitAll /\ PaymentsInit
  BY DEF MarketInit
<1>2. Credited = {} /\ \A u \in Users : CreditedTo(u) = {}
  BY <1>1 DEF PaymentsInit, Credited, CreditedTo
<1>3. \A u \in Users : ToppedUp(u) = 0 /\ OpeningCash[u] \in Int
  <2>1. \A u \in Users : ToppedUp(u) = SumFunctionOnSet(Amount, {})
    BY <1>2 DEF ToppedUp
  <2>2. SumFunctionOnSet(Amount, {}) = 0
    BY SumEmpty
  <2>3. \A u \in Users : OpeningCash[u] \in Int
    BY OpeningAssumption
  <2> QED BY <2>1, <2>2, <2>3
<1>4. \A u \in Users : CashWorth(u) = OpeningCash[u] /\ PointsWorth(u) = OpeningBonus[u]
  BY <1>1, WorthInitially
<1>5. TopUpsAccounted
  BY <1>2, <1>3, <1>4, FS_EmptySet DEF TopUpsAccounted
<1> QED BY <1>1, <1>5, MoneyInitially

LEMMA TopUpsKept ==
  ASSUME MarketInv, MoneyInv, TopUpsAccounted, [MarketNext]_marketVars
  PROVE  MoneyInv' /\ TopUpsAccounted'
<1>1. ASSUME UNCHANGED payVars, MoneyInv', WorthKept
      PROVE  MoneyInv' /\ TopUpsAccounted'
  <2>1. Credited' = Credited /\ \A u \in Users : ToppedUp(u)' = ToppedUp(u)
    BY <1>1 DEF payVars, Credited, CreditedTo, ToppedUp
  <2> QED BY <1>1, <2>1 DEF TopUpsAccounted, WorthKept
<1>2. CASE OrdersNext /\ UNCHANGED payVars
  BY <1>1, <1>2, OrdersNextMoney DEF MarketInv
<1>3. CASE PaymentsNext /\ UNCHANGED <<orderVars, bonusVars>>
  <2>1. CASE \E t \in PayTx : CommitCredit(t)
    BY <1>3, <2>1, CreditAccounted, PaymentsKeepSpending
  <2>2. CASE UNCHANGED <<cash, Credited>>
    <3>1. \A u \in Users : ToppedUp(u)' = ToppedUp(u)
      BY <2>2 DEF CreditedTo, ToppedUp
    <3>2. MoneyInv' /\ \A u \in Users : CashWorth(u)' = CashWorth(u)
                                        /\ PointsWorth(u)' = PointsWorth(u)
      BY <1>3, <2>2, PaymentsKeepSpending DEF CashWorth
    <3> QED BY <2>2, <3>1, <3>2 DEF TopUpsAccounted
  <2> QED BY <1>3, <2>1, <2>2, OnlyCreditsPay DEF MarketInv
<1>4. CASE UNCHANGED marketVars
  BY <1>1, <1>4, OrdersMoneyNext DEF MarketInv, marketVars
<1> QED BY <1>2, <1>3, <1>4 DEF MarketNext

LEMMA MarketMoney == MarketSpec => [](MoneyInv /\ TopUpsAccounted)
  BY TopUpsInitially, TopUpsKept, MarketInvariant, PTL DEF MarketSpec

\* Whatever orders, top-ups, webhooks and refunds race for it, a wallet holds
\* the opening balance, every payment that succeeded once, less the price of
\* the orders not refunded; and a bonus account the same without payments.
THEOREM MarketAccountsForMoney == MarketSpec => []MarketAccounted
<1>1. MarketInv /\ MoneyInv /\ TopUpsAccounted => MarketAccounted
  <2> SUFFICES ASSUME MarketInv, MoneyInv, TopUpsAccounted, NEW u \in Users
               PROVE  /\ cash[u] = OpeningCash[u] + SumFunctionOnSet(Amount, CreditedTo(u))
                                     - SumFunctionOnSet(MoneyPaid, OrdersOf(u))
                      /\ bonus[u] = OpeningBonus[u] - SumFunctionOnSet(PointsPaid, OrdersOf(u))
    BY DEF MarketAccounted
  <2>1. /\ cash[u] + SumFunctionOnSet(MoneyPaid, OrdersOf(u))
             = OpeningCash[u] + SumFunctionOnSet(Amount, CreditedTo(u))
        /\ bonus[u] + SumFunctionOnSet(PointsPaid, OrdersOf(u)) = OpeningBonus[u]
    BY DEF TopUpsAccounted, CashWorth, PointsWorth, ToppedUp
  <2>2. SumFunctionOnSet(Amount, CreditedTo(u)) \in Int
    <3>1. CreditedTo(u) \subseteq Credited
      BY DEF CreditedTo
    <3>2. IsFiniteSet(CreditedTo(u))
      BY <3>1, FS_Subset DEF TopUpsAccounted
    <3>3. \A p \in CreditedTo(u) : Amount[p] \in Int
      BY <3>1, AmountAssumption DEF Credited
    <3> QED BY <3>2, <3>3, SumInt
  <2>3. OpeningCash[u] \in Int /\ OpeningBonus[u] \in Int
    BY OpeningAssumption
  <2>4. /\ SumFunctionOnSet(MoneyPaid, OrdersOf(u)) \in Int
        /\ SumFunctionOnSet(PointsPaid, OrdersOf(u)) \in Int
        /\ cash[u] \in Int /\ bonus[u] \in Int
    BY SpendingIsTyped DEF MarketInv
  <2> DEFINE paid == SumFunctionOnSet(MoneyPaid, OrdersOf(u))
             points == SumFunctionOnSet(PointsPaid, OrdersOf(u))
             topUps == SumFunctionOnSet(Amount, CreditedTo(u))
  <2>5. cash[u] + paid = OpeningCash[u] + topUps /\ bonus[u] + points = OpeningBonus[u]
    BY <2>1
  <2>6. /\ paid \in Int /\ points \in Int /\ topUps \in Int
        /\ cash[u] \in Int /\ bonus[u] \in Int /\ OpeningCash[u] \in Int /\ OpeningBonus[u] \in Int
    BY <2>2, <2>3, <2>4
  <2>7. cash[u] = OpeningCash[u] + topUps - paid /\ bonus[u] = OpeningBonus[u] - points
    <3>1. \A a, b, c, d \in Int : a + b = c + d => a = c + d - b
      OBVIOUS
    <3>2. \A a, b, c \in Int : a + b = c => a = c - b
      OBVIOUS
    <3> HIDE DEF paid, points, topUps
    <3>3. cash[u] = OpeningCash[u] + topUps - paid
      BY <2>5, <2>6, <3>1
    <3>4. bonus[u] = OpeningBonus[u] - points
      BY <2>5, <2>6, <3>2
    <3> QED BY <3>3, <3>4
  <2> QED BY <2>7
<1> QED BY <1>1, MarketInvariant, MarketMoney, PTL

\* A partner holds the earnings of exactly the orders not refunded, also while
\* top-ups race with the orders for the wallets of the buyers.
THEOREM MarketAccountsForPartners == MarketSpec => [](PartnerAccounted /\ OpeningNeverOverpays)
<1>1. MarketInv /\ MoneyInv => PartnerAccounted /\ OpeningNeverOverpays
  BY PartnersAccounted DEF MarketInv, MoneyInv
<1> QED BY <1>1, MarketInvariant, MarketMoney, PTL

-----------------------------------------------------------------------------
(* That transactions never wait only for one another.  To the order of the *)
(* locks of Orders (LocksHeld) payments add a row in front, their own: who *)
(* holds a wallet for a payment is about to commit a credit, and nobody    *)
(* but payments ever locks the row of one.                                 *)

\* Who may hold the rows of a table.
HeldBy(lock, Rows, holders) == \A r \in Rows : lock[r] \in holders \cup {Free}

PayLocksHeld ==
  /\ \A t \in PayTx : payPc[t] = "lockCash" => payReq[t].outcome = "succeeded"
  /\ \A u \in Users : cashLock[u] \in PayTx =>
       payPc[cashLock[u]] = "commit" /\ payReq[cashLock[u]].outcome = "succeeded"
  /\ \A p \in PaymentIds : payLock[p] \in PayTx => payPc[payLock[p]] \in {"lockCash", "commit"}

HoldersKnown ==
  /\ HeldBy(cashLock, Users, OrderTx \cup PayTx)
  /\ HeldBy(bonusLock, Users, OrderTx)
  /\ HeldBy(offerLock, Offers, OrderTx)
  /\ HeldBy(merchLock, Companies, OrderTx)
  /\ HeldBy(payLock, PaymentIds, PayTx)

MarketLocks == LocksHeld /\ PayLocksHeld /\ HoldersKnown

LEMMA MarketLocksInitially == MarketInit => MarketLocks
BY SessionsAssumption, OrderTxAssumption, PayTxAssumption, FreeIsNoTx
DEF MarketInit, OrdersInitAll, AccountsInit, OrdersInit, PaymentsInit, MarketLocks, LocksHeld,
    HeldAt, PayLocksHeld, HoldersKnown, HeldBy

\* A step of an order leaves every lock, takes it or gives it back.
LEMMA OrdersKeepLocks ==
  ASSUME MarketInv, MarketLocks, OrdersNext, UNCHANGED payVars
  PROVE  MarketLocks'
<1> USE SessionsAssumption, OrderTxAssumption, PayTxAssumption, FreeIsNoTx
<1>1. OrdersInv /\ LocksHeld /\ PayLocksHeld /\ HoldersKnown
  BY DEF MarketInv, MarketLocks
<1>2. LocksHeld'
  BY <1>1, LocksHeldKept
<1>3. UNCHANGED <<payPc, payReq, payLock>>
  BY DEF payVars
<1>4. CASE \E o \in OrderIds : MarkRedeemed(o)
  <2>1. UNCHANGED <<cashLock, bonusLock, offerLock, merchLock>>
    BY <1>4 DEF MarkRedeemed, offerVars, merchVars, cashVars, bonusVars
  <2> QED
    BY <1>1, <1>2, <1>3, <2>1 DEF MarketLocks, PayLocksHeld, HoldersKnown, HeldBy
<1>5. ASSUME NEW t \in OrderTx, OrderRequest(t) \/ OrderStep(t) \/ Rollback(t)
      PROVE  MarketLocks'
  <2>1. KeepsOrder(t)
    BY <1>1, <1>5, RequestKeepsOrder, StepKeepsOrder
  <2>2. /\ \A u \in Users : cashLock'[u] \in {cashLock[u], t, Free}
        /\ \A u \in Users : bonusLock'[u] \in {bonusLock[u], t, Free}
        /\ \A f \in Offers : offerLock'[f] \in {offerLock[f], t, Free}
        /\ \A c \in Companies : merchLock'[c] \in {merchLock[c], t, Free}
    BY <2>1 DEF KeepsOrder, StepsWith
  <2>3. PayLocksHeld'
    BY <1>1, <1>3, <2>2 DEF PayLocksHeld
  <2>4. HoldersKnown'
    BY <1>1, <1>3, <2>2 DEF HoldersKnown, HeldBy
  <2> QED
    BY <1>2, <2>3, <2>4 DEF MarketLocks
<1> QED
  BY <1>4, <1>5 DEF OrdersNext

\* So does a step of a payment, which touches no row but its own and a wallet.
PaysInOrder(t) ==
  /\ payPc'[t] = "lockCash" => payReq'[t].outcome = "succeeded"
  /\ \A s \in PayTx \ {t} : payPc'[s] = payPc[s] /\ payReq'[s] = payReq[s]
  /\ \A u \in Users : /\ cashLock'[u] \in {cashLock[u], t, Free}
                      /\ cashLock'[u] = t =>
                           payPc'[t] = "commit" /\ payReq'[t].outcome = "succeeded"
  /\ \A p \in PaymentIds : /\ payLock'[p] \in {payLock[p], t, Free}
                           /\ payLock'[p] = t => payPc'[t] \in {"lockCash", "commit"}

LEMMA PaymentPaysInOrder ==
  ASSUME PaymentsInv, CashTypeOK, PayLocksHeld, NEW t \in PayTx,
         PayStep(t) \/ PayRollback(t)
         \/ \E p \in PaymentIds, outcome \in Outcomes : BeginSettle(t, p, outcome)
  PROVE  PaysInOrder(t)
<1> USE PayTxAssumption, FreeIsNoTx
        DEF PaymentsInv, PaymentsTypeOK, CashTypeOK, PayLocksHeld, PaysInOrder
<1>1. CASE \E p \in PaymentIds, outcome \in Outcomes : BeginSettle(t, p, outcome)
  BY <1>1 DEF BeginSettle, PayGoto, cashVars
<1>2. CASE LockPayment(t)
  <2>1. CASE PayForget(t) /\ UNCHANGED <<payLock, cashVars>>
    BY <1>2, <2>1 DEF LockPayment, PayForget, cashVars
  <2>2. CASE /\ payLock' = [payLock EXCEPT ![payReq[t].id] = t]
             /\ PayGoto(t, IF payReq[t].outcome = "succeeded" THEN "lockCash" ELSE "commit")
             /\ UNCHANGED cashVars
    BY <1>2, <2>2 DEF LockPayment, PayGoto, cashVars
  <2> QED
    BY <1>2, <2>1, <2>2 DEF LockPayment
<1>3. CASE PayLockCash(t)
  <2>1. payReq[t].outcome = "succeeded"
    BY <1>3 DEF PayLockCash, PayLocksHeld
  <2> QED
    BY <1>3, <2>1 DEF PayLockCash, PayGoto, Acquire
<1>4. CASE CommitCredit(t) \/ CommitFailure(t) \/ PayRollback(t)
  <2>1. /\ payPc' = [payPc EXCEPT ![t] = "idle"] /\ payLock' = Released(payLock, t)
        /\ \A s \in PayTx \ {t} : payReq'[s] = payReq[s]
    BY <1>4 DEF CommitCredit, CommitFailure, PayRollback, PayForget
  <2>2. \A u \in Users : cashLock'[u] \in {cashLock[u], Free} /\ cashLock'[u] # t
    BY <1>4 DEF CommitCredit, CommitFailure, PayRollback, cashVars, Released
  <2> QED
    BY <2>1, <2>2 DEF Released
<1> QED
  BY <1>1, <1>2, <1>3, <1>4 DEF PayStep

LEMMA PaymentsKeepLocks ==
  ASSUME MarketInv, MarketLocks, PaymentsNext, UNCHANGED <<orderVars, bonusVars>>
  PROVE  MarketLocks'
<1> USE SessionsAssumption, OrderTxAssumption, PayTxAssumption, FreeIsNoTx
<1>1. PaymentsInv /\ CashTypeOK /\ LocksHeld /\ PayLocksHeld /\ HoldersKnown
  BY DEF MarketInv, MarketLocks, OrdersInv, AccountsTypeOK, CashTypeOK
<1>2. UNCHANGED <<pc, bonusLock, offerLock, merchLock>>
  BY DEF orderVars, offerVars, merchVars, bonusVars
<1>3. CASE \E p \in PaymentIds : Deposit(p)
  <2>1. UNCHANGED <<cashLock, payLock, payPc, payReq>>
    BY <1>3 DEF Deposit, cashVars
  <2> QED
    BY <1>1, <1>2, <2>1 DEF MarketLocks, LocksHeld, HeldAt, PayLocksHeld, HoldersKnown, HeldBy
<1>4. ASSUME NEW t \in PayTx, PaysInOrder(t)
      PROVE  MarketLocks'
  <2>1. LocksHeld'
    BY <1>1, <1>2, <1>4 DEF LocksHeld, HeldAt, PaysInOrder
  <2>2. PayLocksHeld'
    BY <1>1, <1>4 DEF PayLocksHeld, PaysInOrder
  <2>3. HoldersKnown'
    BY <1>1, <1>2, <1>4 DEF HoldersKnown, HeldBy, PaysInOrder
  <2> QED
    BY <2>1, <2>2, <2>3 DEF MarketLocks
<1>5. ASSUME NEW t \in PayTx, NEW p \in PaymentIds, ConfirmPayment(t, p)
      PROVE  MarketLocks'
  BY <1>1, <1>4, <1>5, PaymentPaysInOrder DEF ConfirmPayment, Outcomes
<1>6. ASSUME NEW t \in PayTx, NEW p \in PaymentIds, NEW outcome \in Outcomes,
             ProcessWebhook(t, p, outcome)
      PROVE  MarketLocks'
  BY <1>1, <1>4, <1>6, PaymentPaysInOrder DEF ProcessWebhook
<1>7. ASSUME NEW t \in PayTx, PayStep(t) \/ PayRollback(t)
      PROVE  MarketLocks'
  BY <1>1, <1>4, <1>7, PaymentPaysInOrder
<1> QED
  BY <1>3, <1>5, <1>6, <1>7 DEF PaymentsNext

\* Among transactions that wait only for one another nobody could wait for a
\* partner's account, an offer or a bonus account, hence nobody who holds a
\* wallet waits, hence nobody waits for one, and so on to the payments.
LEMMA MarketNobodyWaits ==
  ASSUME MarketInv, MarketLocks
  PROVE  NobodyWaitsInCircle
<1> SUFFICES ASSUME NEW T \in (SUBSET (OrderTx \cup PayTx)) \ {{}},
                    \A t \in T : MarketWaitsFor(t) \in T
             PROVE  FALSE
  BY DEF NobodyWaitsInCircle
<1>0. T # {} /\ OrdersInv /\ PaymentsInv /\ LocksHeld /\ PayLocksHeld /\ HoldersKnown
  BY DEF MarketInv, MarketLocks
<1> DEFINE O == T \cap OrderTx
<1> USE SessionsAssumption, OrderTxAssumption, PayTxAssumption, FreeIsNoTx, CatalogueAssumption
        DEF CashPcs, PricedPcs, BonusPcs, OfferPcs, PartnerPcs, CreatePcs, RefundPcs
<1>1. /\ \A t \in O : WaitsFor(t) \in T
      /\ \A t \in T \ O : t \in PayTx /\ PayWaitsFor(t) \in T
  BY DEF MarketWaitsFor
<1>2. ASSUME NEW t \in O
      PROVE  /\ pc[t] \in CreatePcs \cup RefundPcs => req[t].user \in Users /\ req[t].offer \in Offers
             /\ pc[t] \in {"createMerchant", "touchMerchant", "refundMerchant"} =>
                  OfferCompany[req[t].offer] \in Companies
  BY <1>0 DEF OrdersInv, SessionOK, Addressed, OwnsPartner
<1>3. Free \notin T
  OBVIOUS
<1>4. \A t \in O : pc[t] \in (CreatePcs \cup RefundPcs) \ {"openMerchant", "commitCreate", "commitRefund"}
  BY <1>1, <1>3 DEF WaitsFor
<1>5. \A t \in O : pc[t] \notin {"createMerchant", "touchMerchant", "refundMerchant"}
  BY <1>0, <1>1, <1>2, <1>3, <1>4 DEF WaitsFor, LocksHeld, HeldAt, HoldersKnown, HeldBy
<1>6. \A t \in O : pc[t] # "createOffer"
  BY <1>0, <1>1, <1>2, <1>3, <1>4, <1>5 DEF WaitsFor, LocksHeld, HeldAt, HoldersKnown, HeldBy
<1>7. \A t \in O : pc[t] \notin {"createBonus", "refundBonus"}
  BY <1>0, <1>1, <1>2, <1>3, <1>4, <1>5, <1>6
  DEF WaitsFor, LocksHeld, HeldAt, HoldersKnown, HeldBy
<1>8. \A t \in T \ O : payPc[t] \in {"lockPayment", "lockCash"} /\ payReq[t].id \in PaymentIds
  BY <1>0, <1>1, <1>3 DEF PayWaitsFor, PaymentsInv, PaymentsTypeOK, PayPcs
\* A wallet that is waited for is held by somebody who goes on.
<1>9. \A u \in Users : cashLock[u] \notin T
  <2> SUFFICES ASSUME NEW u \in Users, cashLock[u] \in T
               PROVE  FALSE
    OBVIOUS
  <2>1. CASE cashLock[u] \in O
    BY <1>0, <1>4, <1>5, <1>6, <1>7, <2>1 DEF LocksHeld, HeldAt
  <2>2. CASE cashLock[u] \in T \ O
    BY <1>0, <1>1, <1>8, <2>2 DEF PayLocksHeld
  <2> QED
    BY <2>1, <2>2
<1>10. O = {}
  BY <1>1, <1>2, <1>4, <1>5, <1>6, <1>7, <1>9 DEF WaitsFor
<1>11. \A t \in T : payPc[t] # "lockCash"
  BY <1>1, <1>8, <1>9, <1>10, PayerAssumption DEF PayWaitsFor
<1>12. \A t \in T : payPc[t] = "lockPayment" /\ payLock[payReq[t].id] \in T
  BY <1>1, <1>8, <1>10, <1>11 DEF PayWaitsFor
<1> QED
  BY <1>0, <1>8, <1>10, <1>12 DEF PayLocksHeld

\* Transactions of orders and payments never wait only for one another, for
\* any number of sessions, users and payments: PostgreSQL never has to abort
\* one of them as a deadlock (the order in which the handlers lock rows).
THEOREM MarketNeverDeadlocks == MarketSpec => []NobodyWaitsInCircle
<1>1. ASSUME MarketInv, MarketLocks, [MarketNext]_marketVars
      PROVE  MarketLocks'
  <2>1. CASE UNCHANGED marketVars
    BY <1>1, <2>1
    DEF marketVars, orderVars, offerVars, merchVars, payVars, cashVars, bonusVars, MarketLocks,
        LocksHeld, HeldAt, PayLocksHeld, HoldersKnown, HeldBy
  <2> QED
    BY <1>1, <2>1, OrdersKeepLocks, PaymentsKeepLocks DEF MarketNext
<1> QED
  BY <1>1, MarketLocksInitially, MarketNobodyWaits, MarketInvariant, PTL DEF MarketSpec

-----------------------------------------------------------------------------
(* The marketplace implements AtomicMarket.                                *)

Sold == {o \in OrderIds : status[o] # "none"}
Earned == [c \in OpenedAtStart |-> merchant[c]]
moneyVars == <<cash, bonus, Earned, Sold, info, refunds, Credited>>

LEMMA EarningsAgree == \A x : Atomic!Earning(x) = Earning(x)
  BY DEF Atomic!Earning, Earning, Commission

LEMMA AtomicInit == MarketInit => Atomic!Init
<1> SUFFICES ASSUME MarketInit
             PROVE  Atomic!Init
  OBVIOUS
<1>1. /\ cash = OpeningCash /\ bonus = OpeningBonus
      /\ \A o \in OrderIds : status[o] = "none"
      /\ \A p \in PaymentIds : payStatus[p] # "succeeded"
      /\ \A c \in OpenedAtStart : merchant[c] = 0
      /\ refunds = [o \in OrderIds |-> 0]
  BY CatalogueAssumption DEF MarketInit, OrdersInitAll, AccountsInit, OrdersInit, PaymentsInit
<1> QED BY <1>1 DEF Atomic!Init, Credited

\* A step that writes neither balances nor sales nor refunds is a stutter.
LEMMA QuietIsStutter ==
  ASSUME NEW t \in OrderTx, Quiet(t), UNCHANGED payVars
  PROVE  UNCHANGED moneyVars
  BY DEF Quiet, rowVars, payVars, moneyVars, Sold, Credited, Earned

\* So is a status handler: an order that exists goes on existing.
LEMMA StatusWriteIsStutter ==
  ASSUME OrdersTypeOK, NEW o \in OrderIds, status[o] # "none", NEW new \in Statuses,
         status' = [status EXCEPT ![o] = new],
         UNCHANGED <<info, refunds, merchVars, cashVars, bonusVars, payVars>>
  PROVE  UNCHANGED moneyVars
<1>1. \A p \in OrderIds : status'[p] # "none" <=> status[p] # "none"
  BY DEF OrdersTypeOK, Statuses
<1>2. Sold' = Sold
  BY <1>1 DEF Sold
<1> QED BY <1>2 DEF payVars, cashVars, bonusVars, merchVars, moneyVars, Credited, Earned

LEMMA CreateIsPurchase ==
  ASSUME OrdersInv, NEW t \in OrderTx, CommitCreate(t), UNCHANGED payVars
  PROVE  \E o \in OrderIds : Atomic!Purchase(o)
<1>0. PICK o \in OrderIds : o = req[t].order
  BY CommitCreateFacts
<1> DEFINE u == req[t].user
           f == req[t].offer
           c == OfferCompany[f]
           total == seen[t].total
           used == seen[t].used
<1>1. OrdersTypeOK
  BY DEF OrdersInv
<1>2. /\ o \in OrderIds /\ u \in Users /\ f \in Offers
      /\ total \in Nat /\ used \in Nat
      /\ status[o] = "none" /\ status' = [status EXCEPT ![o] = "created"]
      /\ info' = [info EXCEPT ![o] = [user |-> u, offer |-> f, total |-> total, bonus |-> used]]
      /\ used =< BonusCap[f] /\ total = Price[f] - used
      /\ total =< cash[u] /\ (used > 0 => used =< bonus[u])
      /\ cash' = [cash EXCEPT ![u] = @ - total]
      /\ bonus' = [bonus EXCEPT ![u] = @ - used]
      /\ \A d \in OpenedAtStart : merchant'[d] = merchant[d] + IF d = c THEN Earning(total) ELSE 0
  BY <1>0, CommitCreateFacts
<1>3. refunds' = refunds /\ Credited' = Credited
  BY DEF CommitCreate, payVars, Credited
<1> HIDE DEF u, f, c, total, used
<1>4. info'[o] = [user |-> u, offer |-> f, total |-> total, bonus |-> used]
  BY <1>1, <1>2 DEF OrdersTypeOK
<1>5. /\ info'[o].user = u /\ info'[o].offer = f
      /\ info'[o].total = total /\ info'[o].bonus = used
  BY <1>4
<1>6. /\ o \notin Sold /\ Sold' = Sold \cup {o}
      /\ \A other \in Sold : info'[other] = info[other]
  BY <1>1, <1>2 DEF OrdersTypeOK, Sold
<1>7. used \in 0 .. BonusCap[f] /\ (used =< bonus[u] \/ used = 0)
  BY <1>2, CatalogueAssumption
<1>8. Earned' = [d \in OpenedAtStart |-> Earned[d] + IF d = OfferCompany[f] THEN Earning(total) ELSE 0]
  BY <1>2 DEF Earned, c
<1>9. Atomic!Pay(info'[o].offer, Atomic!Earning(info'[o].total))
  BY <1>5, <1>8, EarningsAgree DEF Atomic!Pay, Earned
<1>10. /\ info'[o].bonus \in 0 .. BonusCap[info'[o].offer]
       /\ info'[o].total = Price[info'[o].offer] - info'[o].bonus
       /\ info'[o].bonus =< bonus[info'[o].user] \/ info'[o].bonus = 0
       /\ info'[o].total =< cash[info'[o].user]
       /\ cash' = [cash EXCEPT ![info'[o].user] = @ - info'[o].total]
       /\ bonus' = [bonus EXCEPT ![info'[o].user] = @ - info'[o].bonus]
  BY <1>2, <1>5, <1>7
<1>11. Atomic!Purchase(o)
  BY <1>3, <1>6, <1>9, <1>10 DEF Atomic!Purchase, Sold, Credited
<1> QED BY <1>11

LEMMA RefundIsGiveBack ==
  ASSUME OrdersInv, NEW t \in OrderTx, CommitRefund(t), UNCHANGED payVars
  PROVE  \E o \in OrderIds : Atomic!GiveBack(o)
<1>0. PICK o \in OrderIds : o = req[t].order
  BY CommitRefundFacts
<1> DEFINE u == info[o].user
           f == info[o].offer
           c == OfferCompany[f]
           total == info[o].total
           used == info[o].bonus
<1>1. OrdersTypeOK
  BY DEF OrdersInv
<1>2. /\ o \in OrderIds /\ u \in Users /\ f \in Offers
      /\ status[o] # "none" /\ status' = [status EXCEPT ![o] = "refunded"]
      /\ info' = info
      /\ refunds' = [refunds EXCEPT ![o] = @ + 1]
      /\ c # NoCompany => refunds[o] = 0
      /\ cash' = [cash EXCEPT ![u] = @ + total]
      /\ bonus' = [bonus EXCEPT ![u] = @ + used]
      /\ \A d \in OpenedAtStart : merchant'[d] = merchant[d] + IF d = c THEN -Earning(total) ELSE 0
  <2>1. /\ u \in Users /\ f \in Offers
        /\ status[o] # "none" /\ status' = [status EXCEPT ![o] = "refunded"]
        /\ info' = info
        /\ refunds' = [refunds EXCEPT ![o] = @ + 1]
        /\ c # NoCompany => refunds[o] = 0
    BY <1>0, CommitRefundFacts
  <2>2. cash' = [cash EXCEPT ![u] = @ + total] /\ bonus' = [bonus EXCEPT ![u] = @ + used]
    <3> DEFINE i == info[req[t].order]
    <3>1. /\ cash' = [cash EXCEPT ![i.user] = @ + i.total]
          /\ bonus' = [bonus EXCEPT ![i.user] = @ + i.bonus]
      BY CommitRefundFacts
    <3> QED BY <1>0, <3>1
  <2>3. \A d \in OpenedAtStart : merchant'[d] = merchant[d] + IF d = c THEN -Earning(total) ELSE 0
    BY <1>0, CommitRefundFacts
  <2> QED BY <2>1, <2>2, <2>3
<1>3. Credited' = Credited
  BY DEF payVars, Credited
<1>4. Sold' = Sold /\ o \in Sold
  BY <1>1, <1>2 DEF OrdersTypeOK, Sold
<1>5. c \in Companies => refunds[o] = 0
  BY <1>2, NullAssumption
<1>6. Earned' = [d \in OpenedAtStart |-> Earned[d] + IF d = c THEN -Earning(total) ELSE 0]
  BY <1>2 DEF Earned
<1>7. Atomic!GiveBack(o)
  BY <1>2, <1>3, <1>4, <1>5, <1>6, EarningsAgree
  DEF Atomic!GiveBack, Atomic!Pay, Sold, Credited, Earned
<1> QED BY <1>7

LEMMA CreditIsTopUp ==
  ASSUME PaymentsInv, NEW t \in PayTx, CommitCredit(t), UNCHANGED <<orderVars, bonusVars>>
  PROVE  \E p \in PaymentIds : Atomic!TopUp(p)
<1>1. PICK p \in PaymentIds :
        /\ p \notin Credited /\ Credited' = Credited \cup {p}
        /\ cash' = [cash EXCEPT ![Payer[p]] = @ + Amount[p]]
  BY CreditFacts
<1>2. UNCHANGED <<bonus, Earned, Sold, info, refunds>>
  BY DEF orderVars, rowVars, merchVars, bonusVars, Earned, Sold
<1>3. Atomic!TopUp(p)
  BY <1>1, <1>2 DEF Atomic!TopUp, Credited, Earned, Sold
<1> QED BY <1>3

LEMMA OrdersStepAtomic ==
  ASSUME OrdersInv, OrdersNext, UNCHANGED payVars
  PROVE  Atomic!Next \/ UNCHANGED moneyVars
<1>1. OrdersTypeOK
  BY DEF OrdersInv
<1>2. ASSUME NEW t \in OrderTx, OrderRequest(t) \/ QuietAction(t)
      PROVE  UNCHANGED moneyVars
  BY <1>2, OrderRequestKeeps, QuietActionKeeps, QuietIsStutter
<1>3. ASSUME NEW t \in OrderTx, CommitCreate(t) \/ CommitRefund(t)
      PROVE  Atomic!Next
  BY <1>3, CreateIsPurchase, RefundIsGiveBack DEF Atomic!Next
<1>4. ASSUME NEW t \in OrderTx, OpenMerchant(t)
      PROVE  UNCHANGED moneyVars
  <2> DEFINE c == OfferCompany[req[t].offer]
  <2>1. c \notin OpenedAtStart
    BY <1>4 DEF OpenMerchant, OrdersInv, SessionOK, OwnsPartner
  <2>2. \A d \in OpenedAtStart : merchant'[d] = merchant[d]
    BY <1>1, <1>4, <2>1, CatalogueAssumption DEF OpenMerchant, OrdersTypeOK
  <2>3. Earned' = Earned
    BY <2>2 DEF Earned
  <2> QED BY <1>4, <2>3 DEF OpenMerchant, rowVars, payVars, moneyVars, Sold, Credited
<1>5. ASSUME NEW t \in OrderTx, WriteStatus(t) \/ WriteConfirm(t) \/ UpsertAttendee(t)
      PROVE  UNCHANGED moneyVars
  <2> DEFINE o == req[t].order
  <2>1. /\ o \in OrderIds /\ status[o] # "none" /\ req[t].target \in Statuses
        /\ "paid" \in Statuses /\ status[o] \in Statuses
    <3>1. pc[t] \in StatusPcs
      BY <1>5 DEF WriteStatus, WriteConfirm, UpsertAttendee, StatusPcs
    <3>2. o \in OrderIds /\ status[o] # "none"
      BY <3>1 DEF OrdersInv, SessionOK, Addressed, OrderSeen, StatusPcs
    <3>3. req[t].target \in Statuses /\ status[o] \in Statuses
      BY <1>1, <3>2 DEF OrdersTypeOK, Requests
    <3> QED BY <3>2, <3>3 DEF Statuses
  <2>2. CASE WriteStatus(t)
    BY <1>1, <2>1, <2>2, StatusWriteIsStutter DEF WriteStatus
  <2>3. CASE WriteConfirm(t)
    BY <1>1, <2>1, <2>3, StatusWriteIsStutter DEF WriteConfirm
  <2>4. CASE UpsertAttendee(t)
    BY <2>4
    DEF UpsertAttendee, merchVars, cashVars, bonusVars, payVars, moneyVars, Sold, Credited, Earned
  <2> QED BY <1>5, <2>2, <2>3, <2>4
<1>6. ASSUME NEW o \in OrderIds, MarkRedeemed(o)
      PROVE  UNCHANGED moneyVars
  <2>1. status[o] # "none" /\ "completed" \in Statuses
    BY <1>6 DEF MarkRedeemed, Statuses
  <2> QED BY <1>1, <1>6, <2>1, StatusWriteIsStutter DEF MarkRedeemed
<1> QED BY <1>2, <1>3, <1>4, <1>5, <1>6 DEF OrdersNext, OrderStep, QuietAction

LEMMA PaymentsStepAtomic ==
  ASSUME PaymentsInv, PaymentsNext, UNCHANGED <<orderVars, bonusVars>>
  PROVE  Atomic!Next \/ UNCHANGED moneyVars
<1>1. ASSUME NEW t \in PayTx, CommitCredit(t)
      PROVE  Atomic!Next
  BY <1>1, CreditIsTopUp DEF Atomic!Next
<1>2. UNCHANGED <<bonus, Earned, Sold, info, refunds>>
  BY DEF orderVars, rowVars, merchVars, bonusVars, Earned, Sold
<1> QED BY <1>1, <1>2, OnlyCreditsPay DEF moneyVars

\* Every behaviour of the code's transactions is, seen through the balances,
\* a sequence of top-ups, purchases and refunds each done in one step; in
\* particular a purchase is never made with money the buyer does not have at
\* that moment, and a partner's order is given back at most once.
THEOREM MarketImplementsAtomic == MarketSpec => MovesMoneyAtomically
<1>1. ASSUME MarketInv, [MarketNext]_marketVars
      PROVE  Atomic!Next \/ UNCHANGED moneyVars
  <2>1. CASE UNCHANGED marketVars
    BY <2>1
    DEF marketVars, orderVars, rowVars, merchVars, payVars, cashVars, bonusVars, moneyVars, Sold,
        Credited, Earned
  <2> QED BY <1>1, <2>1, OrdersStepAtomic, PaymentsStepAtomic DEF MarketNext, MarketInv
<1>2. MarketInv /\ [MarketNext]_marketVars =>
        [Atomic!Next]_<<cash, bonus, [c \in OpenedAtStart |-> merchant[c]],
                        {o \in OrderIds : status[o] # "none"}, info, refunds,
                        Credited>>
  BY <1>1 DEF moneyVars, Sold, Credited, Earned
<1> QED
  BY <1>2, AtomicInit, MarketInvariant, PTL DEF MarketSpec, MovesMoneyAtomically, Atomic!Spec
=============================================================================
