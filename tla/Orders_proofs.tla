---------------------------- MODULE Orders_proofs ----------------------------
(***************************************************************************)
(* What a session knows while it works on an order, as an inductive        *)
(* invariant (OrdersInv), and the proof that every step of Orders keeps    *)
(* it, for any number of sessions, buyers, offers, partners and orders.    *)
(*                                                                         *)
(* The argument is the one of two-phase locking.  SessionOK(t) says that a *)
(* session past the lock of a row still holds it and that the balance it   *)
(* read is still the balance.  Undisturbed(t) is what a step of anybody    *)
(* else leaves alone; OwnStateKept shows that it is enough to keep         *)
(* SessionOK(t), so that a step has to be followed for its own session     *)
(* only.                                                                   *)
(***************************************************************************)
EXTENDS Orders, TLAPS

Pcs == {"idle"} \cup CreatePcs \cup RefundPcs \cup StatusPcs
SeenValues == [cash : Int, bonus : Int, merchant : Int, total : Nat, used : Nat]

\* The steps after the cash account is locked, and after the price is settled.
PricedPcs == CreatePcs \ {"createCash", "createBonus"}
CashPcs == PricedPcs \cup {"createBonus", "refundBonus", "refundMerchant", "commitRefund"}

\* A request names an order; a purchase and a refund also a buyer and an offer.
Addressed(t) ==
  /\ pc[t] # "idle" => req[t].order \in OrderIds
  /\ pc[t] \in CreatePcs \cup RefundPcs => req[t].user \in Users /\ req[t].offer \in Offers

\* A purchase is for an order that is not there yet, everything else for one
\* that is; a refund has read the columns that never change.
OrderSeen(t) ==
  LET o == req[t].order
  IN  /\ pc[t] \in CreatePcs => status[o] = "none"
      /\ pc[t] \in RefundPcs \cup StatusPcs => status[o] # "none"
      /\ pc[t] \in RefundPcs =>
           /\ req[t].user = info[o].user /\ req[t].offer = info[o].offer
           /\ seen[t].total = info[o].total /\ seen[t].used = info[o].bonus

OwnsCash(t) ==
  LET u == req[t].user
  IN  pc[t] \in CashPcs => cashLock[u] = t /\ seen[t].cash = cash[u]

OwnsBonus(t) ==
  LET u == req[t].user
  IN  pc[t] \in PricedPcs \/ (pc[t] \in {"refundMerchant", "commitRefund"} /\ seen[t].used > 0)
        => bonusLock[u] = t /\ seen[t].bonus = bonus[u]

\* The price CreateOrder settled can be paid.
Priced(t) ==
  pc[t] \in PricedPcs =>
    /\ seen[t].used =< BonusCap[req[t].offer]
    /\ seen[t].total = Price[req[t].offer] - seen[t].used
    /\ seen[t].total =< seen[t].cash
    /\ seen[t].used > 0 => seen[t].used =< seen[t].bonus

\* A session about to commit holds the row of the partner; only a partner
\* that had none at the start may be paid on a stale balance.
OwnsPartner(t) ==
  LET c == OfferCompany[req[t].offer]
  IN  /\ pc[t] \in {"createMerchant", "refundMerchant", "openMerchant", "touchMerchant"} =>
           c # NoCompany
      /\ pc[t] \in {"openMerchant", "touchMerchant"} => c \notin OpenedAtStart
      /\ pc[t] = "touchMerchant" => c \in opened
      /\ pc[t] \in {"commitCreate", "commitRefund"} /\ c # NoCompany =>
           /\ c \in opened
           /\ merchLock[c] = t
           /\ c \in OpenedAtStart => seen[t].merchant = merchant[c]

SessionOK(t) ==
  /\ Addressed(t)
  /\ OrderSeen(t)
  /\ OwnsCash(t)
  /\ OwnsBonus(t)
  /\ Priced(t)
  /\ OwnsPartner(t)

\* The id of an order being created belongs to one session.
Reserved ==
  \A s, t \in OrderTx : s # t /\ pc[t] \in CreatePcs => req[s].order # req[t].order

\* A partner that sold something has an account.
SoldOpened ==
  /\ OpenedAtStart \subseteq opened
  /\ \A o \in OrderIds : status[o] # "none" /\ CompanyOf(o) # NoCompany => CompanyOf(o) \in opened

\* The refunds of a partner's order are those the unique index knows of.
RefundsRecorded ==
  \A o \in OrderIds :
    /\ status[o] = "none" => refunds[o] = 0 /\ <<o, "refund">> \notin merchTx
    /\ status[o] # "none" /\ CompanyOf(o) # NoCompany =>
         refunds[o] = IF <<o, "refund">> \in merchTx THEN 1 ELSE 0

BooksAgree ==
  /\ NoOverdraft
  /\ BalanceMatchesLedger
  /\ MerchantMatchesJournal

OrdersInv ==
  /\ AccountsTypeOK
  /\ OrdersTypeOK
  /\ \A t \in OrderTx : SessionOK(t)
  /\ Reserved
  /\ SoldOpened
  /\ RefundsRecorded
  /\ BooksAgree

\* What a step of anybody else leaves alone of what session t relies on.
Undisturbed(t) ==
  /\ pc'[t] = pc[t] /\ req'[t] = req[t] /\ seen'[t] = seen[t]
  /\ \A u \in Users : cashLock[u] = t => cashLock'[u] = t /\ cash'[u] = cash[u]
  /\ \A u \in Users : bonusLock[u] = t => bonusLock'[u] = t /\ bonus'[u] = bonus[u]
  /\ \A c \in Companies : merchLock[c] = t =>
       merchLock'[c] = t /\ (c \in OpenedAtStart => merchant'[c] = merchant[c])
  /\ opened \subseteq opened'
  /\ \A o \in OrderIds : status[o] # "none" => status'[o] # "none" /\ info'[o] = info[o]
  /\ pc[t] \in CreatePcs => status'[req[t].order] = "none"
-----------------------------------------------------------------------------
LEMMA OwnStateKept ==
  ASSUME NEW t \in OrderTx, OrdersTypeOK, SessionOK(t), Undisturbed(t)
  PROVE  SessionOK(t)'
<1> USE CatalogueAssumption, NullAssumption DEF Undisturbed, CreatePcs, RefundPcs
<1>1. Addressed(t)'
  BY DEF SessionOK, Addressed
<1>2. OrderSeen(t)'
  BY DEF SessionOK, Addressed, OrderSeen, StatusPcs
<1>3. OwnsCash(t)'
  BY DEF SessionOK, Addressed, OwnsCash, CashPcs, PricedPcs
<1>4. OwnsBonus(t)'
  BY DEF SessionOK, Addressed, OwnsBonus, PricedPcs
<1>5. Priced(t)'
  BY DEF SessionOK, Priced, PricedPcs
<1>6. OwnsPartner(t)'
  BY DEF SessionOK, Addressed, OwnsPartner
<1> QED BY <1>1, <1>2, <1>3, <1>4, <1>5, <1>6 DEF SessionOK

\* Locks only t itself may have taken or given back.
LocksOf(t, lock, newLock, Rows) ==
  /\ newLock \in [Rows -> Tx \cup {Free}]
  /\ \A r \in Rows : newLock[r] = lock[r] \/ lock[r] \in {Free, t}

\* The private part of a session, nobody else's being touched.
OnlySession(t) ==
  /\ pc' \in [OrderTx -> Pcs]
  /\ req' \in [OrderTx -> Requests]
  /\ seen' \in [OrderTx -> SeenValues]
  /\ \A s \in OrderTx \ {t} : pc'[s] = pc[s] /\ req'[s] = req[s] /\ seen'[s] = seen[s]

AllLocksOf(t) ==
  /\ LocksOf(t, cashLock, cashLock', Users)
  /\ LocksOf(t, bonusLock, bonusLock', Users)
  /\ LocksOf(t, offerLock, offerLock', Offers)
  /\ LocksOf(t, merchLock, merchLock', Companies)

\* A step that only locks, reads, or gives up: no row is written.
Quiet(t) ==
  /\ OnlySession(t)
  /\ AllLocksOf(t)
  /\ UNCHANGED <<rowVars, uses, opened, merchant, merchLog, merchTx,
                 cash, cashLog, bonus, bonusLog>>

LEMMA QuietKeepsOthers ==
  ASSUME OrdersInv, NEW t \in OrderTx, NEW s \in OrderTx \ {t}, Quiet(t)
  PROVE  Undisturbed(s)
  BY OrderTxAssumption, FreeIsNoTx
  DEF Quiet, OnlySession, AllLocksOf, LocksOf, Undisturbed, OrdersInv, OrdersTypeOK,
      AccountsTypeOK, rowVars, SessionOK, OrderSeen

LEMMA QuietKeeps ==
  ASSUME OrdersInv, NEW t \in OrderTx, Quiet(t), SessionOK(t)', Reserved'
  PROVE  OrdersInv'
<1>1. \A s \in OrderTx \ {t} : SessionOK(s)'
  BY QuietKeepsOthers, OwnStateKept DEF OrdersInv
<1>2. AccountsTypeOK'
  BY DEF OrdersInv, AccountsTypeOK, Quiet, AllLocksOf, LocksOf
<1>3. OrdersTypeOK'
  BY DEF OrdersInv, OrdersTypeOK, Quiet, OnlySession, AllLocksOf, LocksOf, rowVars, Pcs, SeenValues
<1>4. SoldOpened' /\ RefundsRecorded'
  BY DEF OrdersInv, SoldOpened, RefundsRecorded, Quiet, rowVars, CompanyOf
<1>5. BooksAgree'
  BY DEF OrdersInv, BooksAgree, NoOverdraft, BalanceMatchesLedger, MerchantMatchesJournal, Quiet
<1> QED BY <1>1, <1>2, <1>3, <1>4, <1>5 DEF OrdersInv

\* A table of locks after Acquire and after Released.
LEMMA AcquireLocks ==
  ASSUME NEW t \in Tx, NEW Rows, NEW r \in Rows,
         NEW lock \in [Rows -> Tx \cup {Free}], NEW newLock,
         lock[r] = Free, newLock = [lock EXCEPT ![r] = t]
  PROVE  LocksOf(t, lock, newLock, Rows) /\ newLock[r] = t
  BY DEF LocksOf

LEMMA ReleasedLocks ==
  ASSUME NEW t \in Tx, NEW Rows, NEW lock \in [Rows -> Tx \cup {Free}]
  PROVE  LocksOf(t, lock, Released(lock, t), Rows) /\ LocksOf(t, lock, lock, Rows)
  BY DEF LocksOf, Released

LEMMA ReleaseAllLocks ==
  ASSUME OrdersInv, NEW t \in OrderTx, ReleaseAll(t)
  PROVE  AllLocksOf(t)
  BY ReleasedLocks, OrderTxAssumption
  DEF ReleaseAll, AllLocksOf, OrdersInv, OrdersTypeOK, AccountsTypeOK

\* A table of amounts after one of them was changed.
LEMMA AmountSet ==
  ASSUME NEW Rows, NEW amounts \in [Rows -> Int], NEW r \in Rows, NEW x \in Int, NEW newAmounts,
         newAmounts = [amounts EXCEPT ![r] = x]
  PROVE  /\ newAmounts \in [Rows -> Int] /\ newAmounts[r] = x
         /\ \A q \in Rows \ {r} : newAmounts[q] = amounts[q]
  OBVIOUS

\* A request that has ended relies on nothing.
LEMMA Forgotten ==
  ASSUME OrdersInv, NEW t \in OrderTx, Forget(t)
  PROVE  OnlySession(t) /\ SessionOK(t)' /\ Reserved'
<1> USE DEF Forget, OrdersInv, OrdersTypeOK
<1>1. OnlySession(t) /\ pc'[t] = "idle" /\ req'[t] = Idle
  BY DEF OnlySession, Pcs, Requests, SeenValues, Idle, About, Nothing, Statuses
<1>2. SessionOK(t)'
  BY <1>1 DEF SessionOK, Addressed, OrderSeen, OwnsCash, OwnsBonus, Priced, OwnsPartner,
              CashPcs, PricedPcs, CreatePcs, RefundPcs, StatusPcs
<1>3. Reserved'
  <2> SUFFICES ASSUME NEW a \in OrderTx, NEW b \in OrderTx, a # b, pc'[b] \in CreatePcs
               PROVE  req'[a].order # req'[b].order
    BY DEF Reserved
  <2>1. b # t /\ pc[b] \in CreatePcs /\ req'[b] = req[b] /\ req[b].order \in OrderIds
    BY <1>1 DEF OnlySession, CreatePcs, SessionOK, Addressed
  <2>2. CASE a = t
    BY <1>1, <2>1, <2>2, NullAssumption DEF Idle, About
  <2>3. CASE a # t
    BY <1>1, <2>1, <2>3 DEF OnlySession, Reserved
  <2> QED BY <2>2, <2>3
<1> QED BY <1>1, <1>2, <1>3

\* A session that goes on with the order it has keeps its id to itself.
LEMMA StillReserved ==
  ASSUME OrdersInv, NEW t \in OrderTx, OnlySession(t), req'[t].order = req[t].order,
         pc'[t] \in CreatePcs => pc[t] \in CreatePcs
  PROVE  Reserved'
<1>1. \A s \in OrderTx : req'[s].order = req[s].order /\ (pc'[s] \in CreatePcs => pc[s] \in CreatePcs)
  BY DEF OnlySession
<1>2. Reserved
  BY DEF OrdersInv
<1> QED BY <1>1, <1>2 DEF Reserved

-----------------------------------------------------------------------------
(* The steps that write no row.                                            *)

LEMMA BeginCreateKeeps ==
  ASSUME OrdersInv, NEW t \in OrderTx, NEW o \in OrderIds, NEW u \in Users, NEW f \in Offers,
         NEW points \in Points, BeginCreate(t, o, u, f, points)
  PROVE  Quiet(t) /\ OrdersInv'
<1> USE CatalogueAssumption, OrderTxAssumption
<1>1. /\ pc' = [pc EXCEPT ![t] = "createCash"]
      /\ req' = [req EXCEPT ![t] = [order |-> o, user |-> u, offer |-> f,
                                    points |-> points, target |-> "created"]]
      /\ status[o] = "none" /\ \A s \in OrderTx : req[s].order # o
      /\ UNCHANGED <<rowVars, offerVars, merchVars, seen, cashVars, bonusVars>>
  BY DEF BeginCreate, Goto
<1>2. OrdersTypeOK /\ AccountsTypeOK /\ Reserved
  BY DEF OrdersInv
<1>3. OnlySession(t)
  BY <1>1, <1>2 DEF OrdersTypeOK, OnlySession, Pcs, CreatePcs, Requests, Statuses, SeenValues
<1>4. Quiet(t)
  BY <1>1, <1>2, <1>3
  DEF Quiet, AllLocksOf, LocksOf, OrdersTypeOK, AccountsTypeOK, offerVars, merchVars, cashVars, bonusVars
<1>5. SessionOK(t)'
  BY <1>1, <1>2
  DEF OrdersTypeOK, SessionOK, Addressed, OrderSeen, OwnsCash, OwnsBonus, Priced, OwnsPartner,
      CashPcs, PricedPcs, CreatePcs, RefundPcs, StatusPcs, rowVars
<1>6. Reserved'
  BY <1>1, <1>2 DEF OrdersTypeOK, Reserved, CreatePcs
<1> QED BY <1>4, <1>5, <1>6, QuietKeeps

\* Quiet steps within a request: the id stays reserved.
LEMMA QuietStepKeeps ==
  ASSUME OrdersInv, NEW t \in OrderTx, Quiet(t), SessionOK(t)', req'[t].order = req[t].order,
         pc'[t] \in CreatePcs => pc[t] \in CreatePcs
  PROVE  OrdersInv'
  BY StillReserved, QuietKeeps DEF Quiet

LEMMA CreateLockCashKeeps ==
  ASSUME OrdersInv, NEW t \in OrderTx, CreateLockCash(t)
  PROVE  Quiet(t) /\ OrdersInv'
<1> USE OrderTxAssumption, FreeIsNoTx
<1> DEFINE u == req[t].user
<1>1. /\ pc[t] = "createCash" /\ pc' = [pc EXCEPT ![t] = "createBonus"]
      /\ cashLock[u] = Free /\ cashLock' = [cashLock EXCEPT ![u] = t]
      /\ seen' = [seen EXCEPT ![t].cash = cash[u]]
      /\ UNCHANGED <<rowVars, offerVars, merchVars, req, cash, cashLog, bonusVars>>
  BY DEF CreateLockCash, Goto, Acquire
<1>2. OrdersTypeOK /\ AccountsTypeOK /\ SessionOK(t)
  BY DEF OrdersInv
<1>3. u \in Users /\ req[t].offer \in Offers
  BY <1>1, <1>2 DEF SessionOK, Addressed, CreatePcs
<1>8. cash[u] \in Int
  BY <1>2, <1>3 DEF AccountsTypeOK
<1>4. OnlySession(t)
  <2>1. seen \in [OrderTx -> SeenValues] /\ req \in [OrderTx -> Requests]
    BY <1>2 DEF OrdersTypeOK, SeenValues
  <2>2. [seen[t] EXCEPT !.cash = cash[u]] \in SeenValues
    BY <1>8, <2>1 DEF SeenValues
  <2>3. seen' \in [OrderTx -> SeenValues]
    BY <1>1, <2>1, <2>2
  <2>4. pc' \in [OrderTx -> Pcs] /\ DOMAIN pc = OrderTx
    BY <1>1, <1>2 DEF OrdersTypeOK, Pcs, CreatePcs
  <2>5. \A s \in OrderTx \ {t} : pc'[s] = pc[s] /\ req'[s] = req[s] /\ seen'[s] = seen[s]
    BY <1>1, <2>1, <2>4
  <2> QED BY <1>1, <2>1, <2>3, <2>4, <2>5 DEF OnlySession
<1>5. Quiet(t)
  BY <1>1, <1>2, <1>3, <1>4
  DEF Quiet, AllLocksOf, LocksOf, OrdersTypeOK, AccountsTypeOK, offerVars, merchVars, bonusVars
<1>6. SessionOK(t)'
  BY <1>1, <1>2, <1>3
  DEF OrdersTypeOK, AccountsTypeOK, SessionOK, Addressed, OrderSeen, OwnsCash, OwnsBonus, Priced,
      OwnsPartner, CashPcs, PricedPcs, CreatePcs, RefundPcs, StatusPcs, rowVars
<1> QED BY <1>1, <1>5, <1>6, QuietStepKeeps DEF CreatePcs

LEMMA CreateLockOfferKeeps ==
  ASSUME OrdersInv, NEW t \in OrderTx, CreateLockOffer(t)
  PROVE  Quiet(t) /\ OrdersInv'
<1> USE OrderTxAssumption, FreeIsNoTx, CatalogueAssumption, NullAssumption
<1> DEFINE f == req[t].offer
<1>1. /\ pc[t] = "createOffer"
      /\ pc' = [pc EXCEPT ![t] = IF OfferCompany[f] = NoCompany THEN "commitCreate"
                                                               ELSE "createMerchant"]
      /\ offerLock[f] = Free /\ offerLock' = [offerLock EXCEPT ![f] = t]
      /\ UNCHANGED <<rowVars, uses, merchVars, req, seen, cashVars, bonusVars>>
  BY DEF CreateLockOffer, Goto, Acquire
<1>2. OrdersTypeOK /\ AccountsTypeOK /\ SessionOK(t)
  BY DEF OrdersInv
<1>3. req[t].user \in Users /\ f \in Offers
  BY <1>1, <1>2 DEF SessionOK, Addressed, OwnsPartner, OrderSeen, CreatePcs, RefundPcs
<1>4. OnlySession(t)
  BY <1>1, <1>2, <1>3
  DEF OrdersTypeOK, AccountsTypeOK, OnlySession, Pcs, CreatePcs, RefundPcs, StatusPcs, SeenValues,
      Requests
<1>5. Quiet(t)
  BY <1>1, <1>2, <1>3, <1>4
  DEF Quiet, AllLocksOf, LocksOf, OrdersTypeOK, AccountsTypeOK, offerVars, merchVars,
      cashVars, bonusVars
<1>6. /\ pc'[t] = (IF OfferCompany[f] = NoCompany THEN "commitCreate" ELSE "createMerchant") /\ req'[t] = req[t]
      /\ seen'[t] = seen[t]
  BY <1>1, <1>2, <1>3 DEF OrdersTypeOK, AccountsTypeOK
<1>7. SessionOK(t)'
  <2>1. Addressed(t)' /\ OrderSeen(t)'
    BY <1>1, <1>2, <1>6
    DEF SessionOK, Addressed, OrderSeen, CreatePcs, RefundPcs, StatusPcs, rowVars
  <2>2. OwnsCash(t)'
    BY <1>1, <1>2, <1>3, <1>6 DEF SessionOK, OwnsCash, CashPcs, PricedPcs, CreatePcs, cashVars
  <2>3. OwnsBonus(t)'
    BY <1>1, <1>2, <1>3, <1>6 DEF SessionOK, OwnsBonus, PricedPcs, CreatePcs, bonusVars
  <2>4. Priced(t)'
    BY <1>1, <1>2, <1>6 DEF SessionOK, Priced, PricedPcs, CreatePcs
  <2>5. OwnsPartner(t)'
    BY <1>1, <1>2, <1>3, <1>6 DEF SessionOK, OwnsPartner, merchVars
  <2> QED BY <2>1, <2>2, <2>3, <2>4, <2>5 DEF SessionOK
<1> QED BY <1>1, <1>5, <1>6, <1>7, QuietStepKeeps DEF CreatePcs

LEMMA CreateLockMerchantKeeps ==
  ASSUME OrdersInv, NEW t \in OrderTx, CreateLockMerchant(t)
  PROVE  Quiet(t) /\ OrdersInv'
<1> USE OrderTxAssumption, FreeIsNoTx, CatalogueAssumption, NullAssumption
<1> DEFINE c == OfferCompany[req[t].offer]
<1>1. /\ pc[t] = "createMerchant" /\ pc' = [pc EXCEPT ![t] = "commitCreate"]
      /\ c \in opened
      /\ merchLock[c] = Free /\ merchLock' = [merchLock EXCEPT ![c] = t]
      /\ seen' = [seen EXCEPT ![t].merchant = merchant[c]]
      /\ UNCHANGED <<rowVars, offerVars, opened, merchant, merchLog, merchTx, req, cashVars, bonusVars>>
  BY DEF CreateLockMerchant, Goto, Acquire
<1>2. OrdersTypeOK /\ AccountsTypeOK /\ SessionOK(t)
  BY DEF OrdersInv
<1>3. req[t].user \in Users /\ req[t].offer \in Offers /\ c \in Companies
  BY <1>1, <1>2 DEF SessionOK, Addressed, OwnsPartner, OrderSeen, CreatePcs, RefundPcs
<1>8. merchant[c] \in Int
  BY <1>2, <1>3 DEF OrdersTypeOK, AccountsTypeOK
<1>4. OnlySession(t)
  <2>1. pc' \in [OrderTx -> Pcs]
    BY <1>1, <1>2, <1>3 DEF OrdersTypeOK, Pcs, CreatePcs, RefundPcs, StatusPcs
  <2>2. seen' \in [OrderTx -> SeenValues]
    <3>1. seen \in [OrderTx -> SeenValues]
      BY <1>2 DEF OrdersTypeOK, SeenValues
    <3>2. [seen[t] EXCEPT !.merchant = merchant[c]] \in SeenValues
      BY <1>8, <3>1 DEF SeenValues
    <3> QED BY <1>1, <3>1, <3>2
  <2>3. DOMAIN pc = OrderTx /\ DOMAIN req = OrderTx /\ DOMAIN seen = OrderTx
    BY <1>2 DEF OrdersTypeOK
  <2>4. \A s \in OrderTx \ {t} : pc'[s] = pc[s] /\ req'[s] = req[s] /\ seen'[s] = seen[s]
    BY <1>1, <2>3
  <2> QED BY <1>1, <1>2, <2>1, <2>2, <2>4 DEF OnlySession, OrdersTypeOK
<1>5. Quiet(t)
  BY <1>1, <1>2, <1>3, <1>4
  DEF Quiet, AllLocksOf, LocksOf, OrdersTypeOK, AccountsTypeOK, offerVars, merchVars,
      cashVars, bonusVars
<1>6. /\ pc'[t] = "commitCreate" /\ req'[t] = req[t]
      /\ seen'[t].merchant = merchant[c]
      /\ seen'[t].cash = seen[t].cash
      /\ seen'[t].bonus = seen[t].bonus
      /\ seen'[t].total = seen[t].total
      /\ seen'[t].used = seen[t].used
      /\ merchLock'[c] = t
  BY <1>1, <1>2, <1>3 DEF OrdersTypeOK, AccountsTypeOK
<1>7. SessionOK(t)'
  <2>1. Addressed(t)' /\ OrderSeen(t)'
    BY <1>1, <1>2, <1>6
    DEF SessionOK, Addressed, OrderSeen, CreatePcs, RefundPcs, StatusPcs, rowVars
  <2>2. OwnsCash(t)'
    BY <1>1, <1>2, <1>3, <1>6 DEF SessionOK, OwnsCash, CashPcs, PricedPcs, CreatePcs, cashVars
  <2>3. OwnsBonus(t)'
    BY <1>1, <1>2, <1>3, <1>6 DEF SessionOK, OwnsBonus, PricedPcs, CreatePcs, bonusVars
  <2>4. Priced(t)'
    BY <1>1, <1>2, <1>6 DEF SessionOK, Priced, PricedPcs, CreatePcs
  <2>5. OwnsPartner(t)'
    BY <1>1, <1>2, <1>3, <1>6 DEF SessionOK, OwnsPartner, merchVars
  <2> QED BY <2>1, <2>2, <2>3, <2>4, <2>5 DEF SessionOK
<1> QED BY <1>1, <1>5, <1>6, <1>7, QuietStepKeeps DEF CreatePcs

LEMMA CreateMissMerchantKeeps ==
  ASSUME OrdersInv, NEW t \in OrderTx, CreateMissMerchant(t)
  PROVE  Quiet(t) /\ OrdersInv'
<1> USE OrderTxAssumption, FreeIsNoTx, CatalogueAssumption, NullAssumption
<1> DEFINE c == OfferCompany[req[t].offer]
<1>1. /\ pc[t] = "createMerchant" /\ pc' = [pc EXCEPT ![t] = "openMerchant"]
      /\ c \notin opened
      /\ UNCHANGED <<rowVars, offerVars, merchVars, req, seen, cashVars, bonusVars>>
  BY DEF CreateMissMerchant, Goto
<1>2. OrdersTypeOK /\ AccountsTypeOK /\ SessionOK(t) /\ SoldOpened
  BY DEF OrdersInv
<1>3. req[t].user \in Users /\ req[t].offer \in Offers /\ c \notin OpenedAtStart
  BY <1>1, <1>2 DEF SessionOK, Addressed, OwnsPartner, OrderSeen, CreatePcs, RefundPcs, SoldOpened
<1>4. OnlySession(t)
  BY <1>1, <1>2, <1>3
  DEF OrdersTypeOK, AccountsTypeOK, OnlySession, Pcs, CreatePcs, RefundPcs, StatusPcs, SeenValues,
      Requests
<1>5. Quiet(t)
  BY <1>1, <1>2, <1>3, <1>4
  DEF Quiet, AllLocksOf, LocksOf, OrdersTypeOK, AccountsTypeOK, offerVars, merchVars,
      cashVars, bonusVars
<1>6. /\ pc'[t] = "openMerchant" /\ req'[t] = req[t]
      /\ seen'[t] = seen[t]
  BY <1>1, <1>2, <1>3 DEF OrdersTypeOK, AccountsTypeOK
<1>7. SessionOK(t)'
  <2>1. Addressed(t)' /\ OrderSeen(t)'
    BY <1>1, <1>2, <1>6
    DEF SessionOK, Addressed, OrderSeen, CreatePcs, RefundPcs, StatusPcs, rowVars
  <2>2. OwnsCash(t)'
    BY <1>1, <1>2, <1>3, <1>6 DEF SessionOK, OwnsCash, CashPcs, PricedPcs, CreatePcs, cashVars
  <2>3. OwnsBonus(t)'
    BY <1>1, <1>2, <1>3, <1>6 DEF SessionOK, OwnsBonus, PricedPcs, CreatePcs, bonusVars
  <2>4. Priced(t)'
    BY <1>1, <1>2, <1>6 DEF SessionOK, Priced, PricedPcs, CreatePcs
  <2>5. OwnsPartner(t)'
    BY <1>1, <1>2, <1>3, <1>6 DEF SessionOK, OwnsPartner, merchVars
  <2> QED BY <2>1, <2>2, <2>3, <2>4, <2>5 DEF SessionOK
<1> QED BY <1>1, <1>5, <1>6, <1>7, QuietStepKeeps DEF CreatePcs

LEMMA TouchMerchantKeeps ==
  ASSUME OrdersInv, NEW t \in OrderTx, TouchMerchant(t)
  PROVE  Quiet(t) /\ OrdersInv'
<1> USE OrderTxAssumption, FreeIsNoTx, CatalogueAssumption, NullAssumption
<1> DEFINE c == OfferCompany[req[t].offer]
<1>1. /\ pc[t] = "touchMerchant" /\ pc' = [pc EXCEPT ![t] = "commitCreate"]
      /\ merchLock[c] = Free /\ merchLock' = [merchLock EXCEPT ![c] = t]
      /\ UNCHANGED <<rowVars, offerVars, opened, merchant, merchLog, merchTx, req, seen,
                     cashVars, bonusVars>>
  BY DEF TouchMerchant, Goto, Acquire
<1>2. OrdersTypeOK /\ AccountsTypeOK /\ SessionOK(t)
  BY DEF OrdersInv
<1>3. req[t].user \in Users /\ req[t].offer \in Offers /\ c \in Companies
  BY <1>1, <1>2 DEF SessionOK, Addressed, OwnsPartner, OrderSeen, CreatePcs, RefundPcs
<1>4. OnlySession(t)
  BY <1>1, <1>2, <1>3
  DEF OrdersTypeOK, AccountsTypeOK, OnlySession, Pcs, CreatePcs, RefundPcs, StatusPcs, SeenValues,
      Requests
<1>5. Quiet(t)
  BY <1>1, <1>2, <1>3, <1>4
  DEF Quiet, AllLocksOf, LocksOf, OrdersTypeOK, AccountsTypeOK, offerVars, merchVars,
      cashVars, bonusVars
<1>6. /\ pc'[t] = "commitCreate" /\ req'[t] = req[t]
      /\ seen'[t] = seen[t]
      /\ merchLock'[c] = t
  BY <1>1, <1>2, <1>3 DEF OrdersTypeOK, AccountsTypeOK
<1>7. SessionOK(t)'
  <2>1. Addressed(t)' /\ OrderSeen(t)'
    BY <1>1, <1>2, <1>6
    DEF SessionOK, Addressed, OrderSeen, CreatePcs, RefundPcs, StatusPcs, rowVars
  <2>2. OwnsCash(t)'
    BY <1>1, <1>2, <1>3, <1>6 DEF SessionOK, OwnsCash, CashPcs, PricedPcs, CreatePcs, cashVars
  <2>3. OwnsBonus(t)'
    BY <1>1, <1>2, <1>3, <1>6 DEF SessionOK, OwnsBonus, PricedPcs, CreatePcs, bonusVars
  <2>4. Priced(t)'
    BY <1>1, <1>2, <1>6 DEF SessionOK, Priced, PricedPcs, CreatePcs
  <2>5. OwnsPartner(t)'
    BY <1>1, <1>2, <1>3, <1>6 DEF SessionOK, OwnsPartner, merchVars
  <2> QED BY <2>1, <2>2, <2>3, <2>4, <2>5 DEF SessionOK
<1> QED BY <1>1, <1>5, <1>6, <1>7, QuietStepKeeps DEF CreatePcs

LEMMA RefundLockBonusKeeps ==
  ASSUME OrdersInv, NEW t \in OrderTx, RefundLockBonus(t)
  PROVE  Quiet(t) /\ OrdersInv'
<1> USE OrderTxAssumption, FreeIsNoTx, CatalogueAssumption, NullAssumption
<1> DEFINE u == req[t].user
             c == OfferCompany[req[t].offer]
<1>1. /\ pc[t] = "refundBonus" /\ pc' = [pc EXCEPT ![t] = AfterRefundBonus(t)]
      /\ bonusLock[u] = Free /\ bonusLock' = [bonusLock EXCEPT ![u] = t]
      /\ seen' = [seen EXCEPT ![t].bonus = bonus[u]]
      /\ UNCHANGED <<rowVars, offerVars, merchVars, req, cashVars, bonus, bonusLog>>
  BY DEF RefundLockBonus, Goto, Acquire
<1>2. OrdersTypeOK /\ AccountsTypeOK /\ SessionOK(t) /\ SoldOpened
  BY DEF OrdersInv
<1>3. /\ u \in Users /\ c \in Companies \cup {NoCompany}
      /\ AfterRefundBonus(t) = IF c # NoCompany THEN "refundMerchant" ELSE "commitRefund"
  BY <1>1, <1>2 DEF SessionOK, Addressed, OwnsPartner, OrderSeen, CreatePcs, RefundPcs,
                    SoldOpened, AfterRefundBonus, CompanyOf, OrdersTypeOK
<1>8. bonus[u] \in Int
  BY <1>2, <1>3 DEF OrdersTypeOK, AccountsTypeOK
<1>4. OnlySession(t)
  <2>1. pc' \in [OrderTx -> Pcs]
    BY <1>1, <1>2, <1>3 DEF OrdersTypeOK, Pcs, CreatePcs, RefundPcs, StatusPcs
  <2>2. seen' \in [OrderTx -> SeenValues]
    <3>1. seen \in [OrderTx -> SeenValues]
      BY <1>2 DEF OrdersTypeOK, SeenValues
    <3>2. [seen[t] EXCEPT !.bonus = bonus[u]] \in SeenValues
      BY <1>8, <3>1 DEF SeenValues
    <3> QED BY <1>1, <3>1, <3>2
  <2>3. DOMAIN pc = OrderTx /\ DOMAIN req = OrderTx /\ DOMAIN seen = OrderTx
    BY <1>2 DEF OrdersTypeOK
  <2>4. \A s \in OrderTx \ {t} : pc'[s] = pc[s] /\ req'[s] = req[s] /\ seen'[s] = seen[s]
    BY <1>1, <2>3
  <2> QED BY <1>1, <1>2, <2>1, <2>2, <2>4 DEF OnlySession, OrdersTypeOK
<1>5. Quiet(t)
  BY <1>1, <1>2, <1>3, <1>4
  DEF Quiet, AllLocksOf, LocksOf, OrdersTypeOK, AccountsTypeOK, offerVars, merchVars,
      cashVars, bonusVars
<1>6. /\ pc'[t] = (IF c # NoCompany THEN "refundMerchant" ELSE "commitRefund") /\ req'[t] = req[t]
      /\ seen'[t].bonus = bonus[u]
      /\ seen'[t].cash = seen[t].cash
      /\ seen'[t].merchant = seen[t].merchant
      /\ seen'[t].total = seen[t].total
      /\ seen'[t].used = seen[t].used
      /\ bonusLock'[u] = t
  BY <1>1, <1>2, <1>3 DEF OrdersTypeOK, AccountsTypeOK
<1>7. SessionOK(t)'
  <2>1. Addressed(t)' /\ OrderSeen(t)'
    BY <1>1, <1>2, <1>6
    DEF SessionOK, Addressed, OrderSeen, CreatePcs, RefundPcs, StatusPcs, rowVars
  <2>2. OwnsCash(t)'
    BY <1>1, <1>2, <1>3, <1>6 DEF SessionOK, OwnsCash, CashPcs, PricedPcs, CreatePcs, cashVars
  <2>3. OwnsBonus(t)'
    BY <1>1, <1>2, <1>3, <1>6 DEF SessionOK, OwnsBonus, PricedPcs, CreatePcs, bonusVars
  <2>4. Priced(t)'
    BY <1>1, <1>2, <1>6 DEF SessionOK, Priced, PricedPcs, CreatePcs
  <2>5. OwnsPartner(t)'
    BY <1>1, <1>2, <1>3, <1>6 DEF SessionOK, OwnsPartner, merchVars
  <2> QED BY <2>1, <2>2, <2>3, <2>4, <2>5 DEF SessionOK
<1> QED BY <1>1, <1>5, <1>6, <1>7, QuietStepKeeps DEF CreatePcs

LEMMA RefundLockCashKeeps ==
  ASSUME OrdersInv, NEW t \in OrderTx, RefundLockCash(t)
  PROVE  Quiet(t) /\ OrdersInv'
<1> USE OrderTxAssumption, FreeIsNoTx, CatalogueAssumption, NullAssumption
<1> DEFINE u == req[t].user
             c == OfferCompany[req[t].offer]
<1>1. /\ pc[t] = "refundCash"
      /\ pc' = [pc EXCEPT ![t] = IF seen[t].used > 0 THEN "refundBonus" ELSE AfterRefundBonus(t)]
      /\ cashLock[u] = Free /\ cashLock' = [cashLock EXCEPT ![u] = t]
      /\ seen' = [seen EXCEPT ![t].cash = cash[u]]
      /\ UNCHANGED <<rowVars, offerVars, merchVars, req, cash, cashLog, bonusVars>>
  BY DEF RefundLockCash, Goto, Acquire
<1>2. OrdersTypeOK /\ AccountsTypeOK /\ SessionOK(t) /\ SoldOpened
  BY DEF OrdersInv
<1>3. /\ u \in Users /\ c \in Companies \cup {NoCompany}
      /\ AfterRefundBonus(t) = IF c # NoCompany THEN "refundMerchant" ELSE "commitRefund"
  BY <1>1, <1>2 DEF SessionOK, Addressed, OwnsPartner, OrderSeen, CreatePcs, RefundPcs,
                    SoldOpened, AfterRefundBonus, CompanyOf, OrdersTypeOK
<1>8. cash[u] \in Int
  BY <1>2, <1>3 DEF OrdersTypeOK, AccountsTypeOK
<1>4. OnlySession(t)
  <2>1. pc' \in [OrderTx -> Pcs]
    BY <1>1, <1>2, <1>3 DEF OrdersTypeOK, Pcs, CreatePcs, RefundPcs, StatusPcs
  <2>2. seen' \in [OrderTx -> SeenValues]
    <3>1. seen \in [OrderTx -> SeenValues]
      BY <1>2 DEF OrdersTypeOK, SeenValues
    <3>2. [seen[t] EXCEPT !.cash = cash[u]] \in SeenValues
      BY <1>8, <3>1 DEF SeenValues
    <3> QED BY <1>1, <3>1, <3>2
  <2>3. DOMAIN pc = OrderTx /\ DOMAIN req = OrderTx /\ DOMAIN seen = OrderTx
    BY <1>2 DEF OrdersTypeOK
  <2>4. \A s \in OrderTx \ {t} : pc'[s] = pc[s] /\ req'[s] = req[s] /\ seen'[s] = seen[s]
    BY <1>1, <2>3
  <2> QED BY <1>1, <1>2, <2>1, <2>2, <2>4 DEF OnlySession, OrdersTypeOK
<1>5. Quiet(t)
  BY <1>1, <1>2, <1>3, <1>4
  DEF Quiet, AllLocksOf, LocksOf, OrdersTypeOK, AccountsTypeOK, offerVars, merchVars,
      cashVars, bonusVars
<1>6. /\ pc'[t] = (IF seen[t].used > 0 THEN "refundBonus"
                   ELSE IF c # NoCompany THEN "refundMerchant" ELSE "commitRefund") /\ req'[t] = req[t]
      /\ seen'[t].cash = cash[u]
      /\ seen'[t].bonus = seen[t].bonus
      /\ seen'[t].merchant = seen[t].merchant
      /\ seen'[t].total = seen[t].total
      /\ seen'[t].used = seen[t].used
      /\ cashLock'[u] = t
  BY <1>1, <1>2, <1>3 DEF OrdersTypeOK, AccountsTypeOK
<1>7. SessionOK(t)'
  <2>1. Addressed(t)' /\ OrderSeen(t)'
    BY <1>1, <1>2, <1>6
    DEF SessionOK, Addressed, OrderSeen, CreatePcs, RefundPcs, StatusPcs, rowVars
  <2>2. OwnsCash(t)'
    BY <1>1, <1>2, <1>3, <1>6 DEF SessionOK, OwnsCash, CashPcs, PricedPcs, CreatePcs, cashVars
  <2>3. OwnsBonus(t)'
    BY <1>1, <1>2, <1>3, <1>6 DEF SessionOK, OwnsBonus, PricedPcs, CreatePcs, bonusVars
  <2>4. Priced(t)'
    BY <1>1, <1>2, <1>6 DEF SessionOK, Priced, PricedPcs, CreatePcs
  <2>5. OwnsPartner(t)'
    BY <1>1, <1>2, <1>3, <1>6 DEF SessionOK, OwnsPartner, merchVars
  <2> QED BY <2>1, <2>2, <2>3, <2>4, <2>5 DEF SessionOK
<1> QED BY <1>1, <1>5, <1>6, <1>7, QuietStepKeeps DEF CreatePcs

LEMMA RefundLockMerchantKeeps ==
  ASSUME OrdersInv, NEW t \in OrderTx, RefundLockMerchant(t)
  PROVE  Quiet(t) /\ OrdersInv'
<1> USE OrderTxAssumption, FreeIsNoTx, CatalogueAssumption, NullAssumption
<1> DEFINE c == OfferCompany[req[t].offer]
<1>1. /\ pc[t] = "refundMerchant" /\ pc' = [pc EXCEPT ![t] = "commitRefund"]
      /\ merchLock[c] = Free /\ merchLock' = [merchLock EXCEPT ![c] = t]
      /\ seen' = [seen EXCEPT ![t].merchant = merchant[c]]
      /\ UNCHANGED <<rowVars, offerVars, opened, merchant, merchLog, merchTx, req,
                     cashVars, bonusVars>>
  BY DEF RefundLockMerchant, Goto, Acquire
<1>2. OrdersTypeOK /\ AccountsTypeOK /\ SessionOK(t) /\ SoldOpened
  BY DEF OrdersInv
<1>3. req[t].user \in Users /\ c \in Companies /\ c \in opened
  BY <1>1, <1>2 DEF SessionOK, Addressed, OwnsPartner, OrderSeen, CreatePcs, RefundPcs,
                    SoldOpened, CompanyOf
<1>8. merchant[c] \in Int
  BY <1>2, <1>3 DEF OrdersTypeOK, AccountsTypeOK
<1>4. OnlySession(t)
  <2>1. pc' \in [OrderTx -> Pcs]
    BY <1>1, <1>2, <1>3 DEF OrdersTypeOK, Pcs, CreatePcs, RefundPcs, StatusPcs
  <2>2. seen' \in [OrderTx -> SeenValues]
    <3>1. seen \in [OrderTx -> SeenValues]
      BY <1>2 DEF OrdersTypeOK, SeenValues
    <3>2. [seen[t] EXCEPT !.merchant = merchant[c]] \in SeenValues
      BY <1>8, <3>1 DEF SeenValues
    <3> QED BY <1>1, <3>1, <3>2
  <2>3. DOMAIN pc = OrderTx /\ DOMAIN req = OrderTx /\ DOMAIN seen = OrderTx
    BY <1>2 DEF OrdersTypeOK
  <2>4. \A s \in OrderTx \ {t} : pc'[s] = pc[s] /\ req'[s] = req[s] /\ seen'[s] = seen[s]
    BY <1>1, <2>3
  <2> QED BY <1>1, <1>2, <2>1, <2>2, <2>4 DEF OnlySession, OrdersTypeOK
<1>5. Quiet(t)
  BY <1>1, <1>2, <1>3, <1>4
  DEF Quiet, AllLocksOf, LocksOf, OrdersTypeOK, AccountsTypeOK, offerVars, merchVars,
      cashVars, bonusVars
<1>6. /\ pc'[t] = "commitRefund" /\ req'[t] = req[t]
      /\ seen'[t].merchant = merchant[c]
      /\ seen'[t].cash = seen[t].cash
      /\ seen'[t].bonus = seen[t].bonus
      /\ seen'[t].total = seen[t].total
      /\ seen'[t].used = seen[t].used
      /\ merchLock'[c] = t
  BY <1>1, <1>2, <1>3 DEF OrdersTypeOK, AccountsTypeOK
<1>7. SessionOK(t)'
  <2>1. Addressed(t)' /\ OrderSeen(t)'
    BY <1>1, <1>2, <1>6
    DEF SessionOK, Addressed, OrderSeen, CreatePcs, RefundPcs, StatusPcs, rowVars
  <2>2. OwnsCash(t)'
    BY <1>1, <1>2, <1>3, <1>6 DEF SessionOK, OwnsCash, CashPcs, PricedPcs, CreatePcs, cashVars
  <2>3. OwnsBonus(t)'
    BY <1>1, <1>2, <1>3, <1>6 DEF SessionOK, OwnsBonus, PricedPcs, CreatePcs, bonusVars
  <2>4. Priced(t)'
    BY <1>1, <1>2, <1>6 DEF SessionOK, Priced, PricedPcs, CreatePcs
  <2>5. OwnsPartner(t)'
    BY <1>1, <1>2, <1>3, <1>6 DEF SessionOK, OwnsPartner, merchVars
  <2> QED BY <2>1, <2>2, <2>3, <2>4, <2>5 DEF SessionOK
<1> QED BY <1>1, <1>5, <1>6, <1>7, QuietStepKeeps DEF CreatePcs

\* A request that ends without a COMMIT.
LEMMA GivingUpKeeps ==
  ASSUME OrdersInv, NEW t \in OrderTx, Forget(t), AllLocksOf(t),
         UNCHANGED <<rowVars, uses, opened, merchant, merchLog, merchTx,
                     cash, cashLog, bonus, bonusLog>>
  PROVE  Quiet(t) /\ OrdersInv'
  BY Forgotten, QuietKeeps DEF Quiet

LEMMA LocksUntouched ==
  ASSUME OrdersInv, NEW t \in OrderTx, UNCHANGED <<cashLock, bonusLock, offerLock, merchLock>>
  PROVE  AllLocksOf(t)
  BY DEF OrdersInv, OrdersTypeOK, AccountsTypeOK, AllLocksOf, LocksOf

LEMMA RollbackKeeps ==
  ASSUME OrdersInv, NEW t \in OrderTx, Rollback(t)
  PROVE  Quiet(t) /\ OrdersInv'
  BY ReleaseAllLocks, GivingUpKeeps DEF Rollback

LEMMA CreateLockBonusKeeps ==
  ASSUME OrdersInv, NEW t \in OrderTx, CreateLockBonus(t)
  PROVE  Quiet(t) /\ OrdersInv'
<1> USE OrderTxAssumption, FreeIsNoTx, CatalogueAssumption, NullAssumption
<1> DEFINE u == req[t].user
           f == req[t].offer
           used == BonusUsed(f, req[t].points, bonus[u])
           total == Price[f] - used
<1>1. /\ pc[t] = "createBonus" /\ bonusLock[u] = Free
      /\ UNCHANGED <<rowVars, uses, opened, merchant, merchLog, merchTx,
                     cash, cashLog, bonus, bonusLog>>
  BY DEF CreateLockBonus
<1>2. OrdersTypeOK /\ AccountsTypeOK /\ SessionOK(t)
  BY DEF OrdersInv
<1>3. u \in Users /\ f \in Offers /\ req[t].points \in Int /\ bonus[u] \in Int
  BY <1>1, <1>2 DEF OrdersTypeOK, AccountsTypeOK, SessionOK, Addressed, CreatePcs, Requests
<1>4. used \in Nat /\ used =< BonusCap[f] /\ (used > 0 => used =< bonus[u]) /\ total \in Nat
  BY <1>3 DEF BonusUsed
<1>5. CASE total > seen[t].cash
  BY <1>1, <1>2, <1>4, <1>5, ReleaseAllLocks, GivingUpKeeps
  DEF CreateLockBonus, OrdersTypeOK
<1>6. CASE ~(total > seen[t].cash)
  <2>1. /\ total =< seen[t].cash
        /\ pc' = [pc EXCEPT ![t] = "createOffer"]
        /\ bonusLock' = [bonusLock EXCEPT ![u] = t]
        /\ seen' = [seen EXCEPT ![t].bonus = bonus[u], ![t].total = total, ![t].used = used]
        /\ UNCHANGED <<req, cashLock, offerLock, merchLock>>
    BY <1>1, <1>6 DEF CreateLockBonus
  <2> HIDE DEF used, total
  <2>2. /\ pc'[t] = "createOffer" /\ req'[t] = req[t]
        /\ seen'[t].cash = seen[t].cash /\ seen'[t].bonus = bonus[u]
        /\ seen'[t].total = total /\ seen'[t].used = used
        /\ bonusLock'[u] = t
    BY <1>2, <1>3, <1>4, <2>1 DEF OrdersTypeOK, AccountsTypeOK
  <2>3. seen' \in [OrderTx -> SeenValues]
    <3>1. seen \in [OrderTx -> SeenValues]
      BY <1>2 DEF OrdersTypeOK, SeenValues
    <3>2. [seen[t] EXCEPT !.bonus = bonus[u], !.total = total, !.used = used] \in SeenValues
      BY <1>3, <1>4, <3>1 DEF SeenValues
    <3>3. seen' = [seen EXCEPT ![t] = [seen[t] EXCEPT !.bonus = bonus[u], !.total = total,
                                                      !.used = used]]
      BY <2>1, <3>1
    <3> QED BY <3>1, <3>2, <3>3
  <2>4. OnlySession(t)
    BY <1>2, <2>1, <2>3 DEF OnlySession, OrdersTypeOK, Pcs, CreatePcs
  <2>5. Quiet(t)
    BY <1>1, <1>2, <1>3, <2>1, <2>4
    DEF Quiet, AllLocksOf, LocksOf, OrdersTypeOK, AccountsTypeOK
  <2>6. Addressed(t)' /\ OrderSeen(t)'
    BY <1>1, <1>2, <1>3, <2>2
    DEF SessionOK, Addressed, OrderSeen, CreatePcs, RefundPcs, StatusPcs, rowVars
  <2>7. OwnsCash(t)' /\ OwnsBonus(t)'
    BY <1>1, <1>2, <2>1, <2>2
    DEF SessionOK, OwnsCash, OwnsBonus, CashPcs, PricedPcs, CreatePcs
  <2>8. Priced(t)'
    <3>1. total = Price[f] - used
      BY DEF total
    <3> QED BY <1>4, <2>1, <2>2, <3>1 DEF Priced
  <2>9. OwnsPartner(t)'
    BY <2>2 DEF OwnsPartner
  <2>10. SessionOK(t)'
    BY <2>6, <2>7, <2>8, <2>9 DEF SessionOK
  <2> QED BY <1>1, <2>2, <2>5, <2>10, QuietStepKeeps DEF CreatePcs
<1> QED BY <1>5, <1>6

LEMMA ReadRefundKeeps ==
  ASSUME OrdersInv, NEW t \in OrderTx, ReadRefund(t)
  PROVE  Quiet(t) /\ OrdersInv'
<1> USE OrderTxAssumption
<1> DEFINE o == req[t].order
<1>1. /\ pc[t] = "readRefund"
      /\ UNCHANGED <<rowVars, offerVars, merchVars, cashVars, bonusVars>>
  BY DEF ReadRefund
<1>2. OrdersTypeOK /\ AccountsTypeOK /\ SessionOK(t)
  BY DEF OrdersInv
<1>3. o \in OrderIds /\ status[o] # "none" /\ info[o] \in OrderInfo
  BY <1>1, <1>2 DEF OrdersTypeOK, SessionOK, Addressed, OrderSeen, StatusPcs
<1>4. CASE status[o] \notin {"paid", "completed"}
  BY <1>1, <1>4, LocksUntouched, GivingUpKeeps
  DEF ReadRefund, offerVars, merchVars, cashVars, bonusVars
<1>5. CASE status[o] \in {"paid", "completed"}
  <2>1. /\ pc' = [pc EXCEPT ![t] = "refundCash"]
        /\ req' = [req EXCEPT ![t].user = info[o].user, ![t].offer = info[o].offer]
        /\ seen' = [seen EXCEPT ![t].total = info[o].total, ![t].used = info[o].bonus]
    BY <1>5 DEF ReadRefund
  <2>2. /\ info[o].user \in Users /\ info[o].offer \in Offers
        /\ info[o].total \in Nat /\ info[o].bonus \in Nat
    BY <1>3 DEF OrderInfo
  <2>3. /\ pc'[t] = "refundCash" /\ req'[t].order = o
        /\ req'[t].user = info[o].user /\ req'[t].offer = info[o].offer
        /\ seen'[t].total = info[o].total /\ seen'[t].used = info[o].bonus
    BY <1>2, <2>1 DEF OrdersTypeOK, Requests
  <2>4. seen' \in [OrderTx -> SeenValues]
    <3>1. seen \in [OrderTx -> SeenValues]
      BY <1>2 DEF OrdersTypeOK, SeenValues
    <3>2. [seen[t] EXCEPT !.total = info[o].total, !.used = info[o].bonus] \in SeenValues
      BY <2>2, <3>1 DEF SeenValues
    <3> QED BY <2>1, <3>1, <3>2
  <2>5. req' \in [OrderTx -> Requests]
    <3>1. req \in [OrderTx -> Requests]
      BY <1>2 DEF OrdersTypeOK
    <3>2. [req[t] EXCEPT !.user = info[o].user, !.offer = info[o].offer] \in Requests
      BY <3>1, <2>2 DEF Requests
    <3> QED BY <2>1, <3>1, <3>2
  <2>6. OnlySession(t)
    BY <1>2, <2>1, <2>4, <2>5 DEF OnlySession, OrdersTypeOK, Pcs, RefundPcs
  <2>7. Quiet(t)
    BY <1>1, <1>2, <2>6
    DEF Quiet, AllLocksOf, LocksOf, OrdersTypeOK, AccountsTypeOK, offerVars, merchVars,
        cashVars, bonusVars
  <2>8. Addressed(t)' /\ OrderSeen(t)'
    BY <1>1, <1>3, <2>2, <2>3
    DEF Addressed, OrderSeen, CreatePcs, RefundPcs, StatusPcs, rowVars
  <2>9. OwnsCash(t)' /\ OwnsBonus(t)' /\ Priced(t)' /\ OwnsPartner(t)'
    BY <2>3 DEF OwnsCash, OwnsBonus, Priced, OwnsPartner, CashPcs, PricedPcs, CreatePcs
  <2>10. SessionOK(t)'
    BY <2>8, <2>9 DEF SessionOK
  <2> QED BY <2>3, <2>7, <2>10, QuietStepKeeps DEF CreatePcs
<1> QED BY <1>4, <1>5

\* A request about an existing order begins.
LEMMA BeginKeeps ==
  ASSUME OrdersInv, NEW t \in OrderTx, NEW o \in OrderIds, NEW target \in Statuses,
         NEW label \in StatusPcs, status[o] # "none",
         pc' = [pc EXCEPT ![t] = label],
         req' = [req EXCEPT ![t] = About(o, target)],
         UNCHANGED <<rowVars, offerVars, merchVars, seen, cashVars, bonusVars>>
  PROVE  Quiet(t) /\ OrdersInv'
<1>1. OrdersTypeOK /\ AccountsTypeOK /\ Reserved
  BY DEF OrdersInv
<1>2. OnlySession(t)
  <2>1. About(o, target) \in Requests
    BY DEF About, Requests
  <2>2. seen' \in [OrderTx -> SeenValues] /\ pc' \in [OrderTx -> Pcs]
    BY <1>1 DEF OrdersTypeOK, SeenValues, Pcs
  <2> QED BY <1>1, <2>1, <2>2 DEF OrdersTypeOK, OnlySession
<1>3. Quiet(t)
  BY <1>1, <1>2
  DEF Quiet, AllLocksOf, LocksOf, OrdersTypeOK, AccountsTypeOK, offerVars, merchVars, cashVars, bonusVars
<1>4. pc'[t] = label /\ req'[t].order = o
  BY <1>1 DEF OrdersTypeOK, About
<1>5. SessionOK(t)'
  BY <1>4
  DEF SessionOK, Addressed, OrderSeen, OwnsCash, OwnsBonus, Priced, OwnsPartner,
      CashPcs, PricedPcs, CreatePcs, RefundPcs, StatusPcs, rowVars
<1>6. Reserved'
  <2> SUFFICES ASSUME NEW a \in OrderTx, NEW b \in OrderTx, a # b, pc'[b] \in CreatePcs
               PROVE  req'[a].order # req'[b].order
    BY DEF Reserved
  <2>1. b # t /\ pc[b] \in CreatePcs /\ req'[b] = req[b]
    BY <1>2, <1>4 DEF OnlySession, CreatePcs, StatusPcs
  <2>2. status[req[b].order] = "none"
    BY <2>1 DEF OrdersInv, SessionOK, OrderSeen
  <2>3. CASE a = t
    BY <1>4, <2>1, <2>2, <2>3
  <2>4. CASE a # t
    BY <1>1, <1>2, <2>1, <2>4 DEF OnlySession, Reserved
  <2> QED BY <2>3, <2>4
<1> QED BY <1>3, <1>5, <1>6, QuietKeeps

-----------------------------------------------------------------------------
(* The steps that write rows.                                              *)

\* The accounts rows somebody else holds stay as they are.
RespectsCash(t) ==
  \A u \in Users :
    cashLock[u] \notin {Free, t} => cashLock'[u] = cashLock[u] /\ cash'[u] = cash[u]

LEMMA QuietRespectsCash ==
  ASSUME NEW t \in OrderTx, Quiet(t)
  PROVE  RespectsCash(t)
  BY DEF Quiet, AllLocksOf, LocksOf, RespectsCash

LEMMA WriteKeeps ==
  ASSUME OrdersInv, NEW t \in OrderTx, SessionOK(t)',
         \A s \in OrderTx \ {t} : Undisturbed(s),
         AccountsTypeOK', OrdersTypeOK', Reserved', SoldOpened', RefundsRecorded', BooksAgree'
  PROVE  OrdersInv'
<1>1. \A s \in OrderTx \ {t} : SessionOK(s)'
  BY OwnStateKept DEF OrdersInv
<1> QED BY <1>1 DEF OrdersInv

LEMMA EarningIsInt == \A x \in Nat : Earning(x) \in Int
  BY DEF Earning, Commission

\* UPDATE orders SET status: another order, or a status that exists already.
LEMMA StatusWriteKeeps ==
  ASSUME OrdersInv, NEW t \in OrderTx, NEW o \in OrderIds, NEW new \in Statuses,
         status[o] # "none", status' = [status EXCEPT ![o] = new],
         redeemed' \subseteq OrderIds,
         attendee' \in [Users -> [Offers -> OrderIds \cup {NoOrder}]],
         OnlySession(t), SessionOK(t)', Reserved',
         UNCHANGED <<info, refunds, offerVars, merchVars, cashVars, bonusVars>>
  PROVE  OrdersInv' /\ RespectsCash(t)
<1> USE OrderTxAssumption, FreeIsNoTx
<1>1. OrdersTypeOK /\ AccountsTypeOK /\ SoldOpened /\ RefundsRecorded /\ BooksAgree
  BY DEF OrdersInv
<1>2. "none" \notin Statuses
  BY DEF Statuses
<1>3. OrdersTypeOK' /\ AccountsTypeOK'
  BY <1>1, <1>2
  DEF OrdersTypeOK, AccountsTypeOK, OnlySession, Pcs, SeenValues, offerVars, merchVars, cashVars,
      bonusVars
<1>4. SoldOpened' /\ RefundsRecorded'
  BY <1>1, <1>2 DEF OrdersTypeOK, SoldOpened, RefundsRecorded, CompanyOf, merchVars
<1>5. BooksAgree'
  BY <1>1
  DEF BooksAgree, NoOverdraft, BalanceMatchesLedger, MerchantMatchesJournal,
      merchVars, cashVars, bonusVars
<1>6. ASSUME NEW s \in OrderTx \ {t}
      PROVE  Undisturbed(s)
  <2>1. SessionOK(s)
    BY DEF OrdersInv
  <2> QED
    BY <1>1, <1>2, <2>1
    DEF Undisturbed, OnlySession, OrdersTypeOK, SessionOK, OrderSeen, Addressed, CreatePcs,
        merchVars, cashVars, bonusVars
<1> QED BY <1>3, <1>4, <1>5, <1>6, WriteKeeps DEF RespectsCash, cashVars

LEMMA WriteStatusKeeps ==
  ASSUME OrdersInv, NEW t \in OrderTx, WriteStatus(t)
  PROVE  OrdersInv' /\ RespectsCash(t)
<1>1. /\ req[t].order \in OrderIds /\ status[req[t].order] # "none"
      /\ req[t].target \in Statuses /\ redeemed \subseteq OrderIds
      /\ attendee \in [Users -> [Offers -> OrderIds \cup {NoOrder}]]
  BY DEF OrdersInv, SessionOK, Addressed, OrderSeen, StatusPcs, WriteStatus, OrdersTypeOK, Requests
<1> QED BY <1>1, Forgotten, StatusWriteKeeps DEF WriteStatus

LEMMA WriteConfirmKeeps ==
  ASSUME OrdersInv, NEW t \in OrderTx, WriteConfirm(t)
  PROVE  OrdersInv' /\ RespectsCash(t)
<1> DEFINE o == req[t].order
<1>1. OrdersTypeOK /\ SessionOK(t)
  BY DEF OrdersInv
<1>2. /\ pc[t] = "confirm" /\ o \in OrderIds /\ status[o] # "none"
      /\ "paid" \in Statuses /\ redeemed \subseteq OrderIds
      /\ attendee \in [Users -> [Offers -> OrderIds \cup {NoOrder}]]
  BY <1>1 DEF SessionOK, Addressed, OrderSeen, StatusPcs, WriteConfirm, OrdersTypeOK, Statuses
<1>3. CASE ~IsEvent[info[o].offer]
  BY <1>2, <1>3, Forgotten, StatusWriteKeeps DEF WriteConfirm
<1>4. CASE IsEvent[info[o].offer]
  <2>1. /\ pc' = [pc EXCEPT ![t] = "attend"] /\ UNCHANGED <<req, seen>>
        /\ status' = [status EXCEPT ![o] = "paid"]
    BY <1>4 DEF WriteConfirm
  <2>2. OnlySession(t) /\ pc'[t] = "attend"
    BY <1>1, <2>1 DEF OrdersTypeOK, OnlySession, Pcs, StatusPcs, SeenValues
  <2>3. status'[o] # "none"
    BY <1>1, <1>2, <2>1 DEF OrdersTypeOK
  <2>4. SessionOK(t)'
    BY <1>2, <2>1, <2>2, <2>3
    DEF SessionOK, Addressed, OrderSeen, OwnsCash, OwnsBonus, Priced, OwnsPartner,
        CashPcs, PricedPcs, CreatePcs, RefundPcs, StatusPcs
  <2>5. Reserved'
    BY <2>1, <2>2, StillReserved DEF CreatePcs
  <2> QED BY <1>2, <2>2, <2>4, <2>5, StatusWriteKeeps DEF WriteConfirm
<1> QED BY <1>3, <1>4

LEMMA UpsertAttendeeKeeps ==
  ASSUME OrdersInv, NEW t \in OrderTx, UpsertAttendee(t)
  PROVE  OrdersInv' /\ RespectsCash(t)
<1> DEFINE o == req[t].order
<1>1. OrdersTypeOK
  BY DEF OrdersInv
<1>2. o \in OrderIds /\ status[o] # "none" /\ redeemed \subseteq OrderIds
  BY DEF OrdersInv, SessionOK, Addressed, OrderSeen, StatusPcs, UpsertAttendee, OrdersTypeOK
<1>3. info[o].user \in Users /\ info[o].offer \in Offers
  BY <1>1, <1>2 DEF OrdersTypeOK, OrderInfo
<1>4. attendee' \in [Users -> [Offers -> OrderIds \cup {NoOrder}]]
  BY <1>1, <1>2, <1>3 DEF OrdersTypeOK, UpsertAttendee
<1>5. status[o] \in Statuses /\ status' = [status EXCEPT ![o] = status[o]]
  BY <1>1, <1>2 DEF OrdersTypeOK, UpsertAttendee
<1> QED BY <1>2, <1>4, <1>5, Forgotten, StatusWriteKeeps DEF UpsertAttendee

LEMMA MarkRedeemedKeeps ==
  ASSUME OrdersInv, NEW o \in OrderIds, MarkRedeemed(o)
  PROVE  OrdersInv'
<1>1. OrdersTypeOK /\ AccountsTypeOK /\ SoldOpened /\ RefundsRecorded /\ BooksAgree /\ Reserved
  BY DEF OrdersInv
<1>2. /\ status[o] = "paid" /\ status' = [status EXCEPT ![o] = "completed"]
      /\ redeemed' = redeemed \cup {o}
      /\ UNCHANGED <<info, refunds, attendee, offerVars, merchVars, pc, req, seen, cashVars, bonusVars>>
  BY DEF MarkRedeemed
<1>3. OrdersTypeOK' /\ AccountsTypeOK'
  BY <1>1, <1>2
  DEF OrdersTypeOK, AccountsTypeOK, Statuses, offerVars, merchVars, cashVars, bonusVars
<1>4. SoldOpened' /\ RefundsRecorded' /\ Reserved'
  BY <1>1, <1>2 DEF OrdersTypeOK, SoldOpened, RefundsRecorded, Reserved, CompanyOf, merchVars
<1>5. BooksAgree'
  BY <1>1, <1>2
  DEF BooksAgree, NoOverdraft, BalanceMatchesLedger, MerchantMatchesJournal,
      merchVars, cashVars, bonusVars
<1>6. ASSUME NEW s \in OrderTx
      PROVE  SessionOK(s)'
  <2>1. SessionOK(s)
    BY DEF OrdersInv
  <2>2. Undisturbed(s)
    BY <1>1, <1>2, <2>1
    DEF Undisturbed, OrdersTypeOK, SessionOK, OrderSeen, Addressed, CreatePcs,
        merchVars, cashVars, bonusVars
  <2> QED BY <1>1, <2>1, <2>2, OwnStateKept
<1> QED BY <1>3, <1>4, <1>5, <1>6 DEF OrdersInv

LEMMA OpenMerchantKeeps ==
  ASSUME OrdersInv, NEW t \in OrderTx, OpenMerchant(t)
  PROVE  OrdersInv' /\ RespectsCash(t)
<1> USE OrderTxAssumption, FreeIsNoTx, CatalogueAssumption, NullAssumption
<1> DEFINE c == OfferCompany[req[t].offer]
<1>1. OrdersTypeOK /\ AccountsTypeOK /\ SessionOK(t) /\ SoldOpened /\ RefundsRecorded /\ BooksAgree
  BY DEF OrdersInv
<1>2. /\ pc[t] = "openMerchant"
      /\ UNCHANGED <<rowVars, uses, merchLog, merchTx, cash, cashLog, bonus, bonusLog>>
  BY DEF OpenMerchant
<1>3. req[t].user \in Users /\ req[t].offer \in Offers /\ c \in Companies \ OpenedAtStart
  BY <1>1, <1>2 DEF SessionOK, Addressed, OwnsPartner, CreatePcs
<1>4. CASE c \in opened
  BY <1>2, <1>4, ReleaseAllLocks, GivingUpKeeps, QuietRespectsCash DEF OpenMerchant
<1>5. CASE c \notin opened
  <2>1. /\ opened' = opened \cup {c}
        /\ merchant' = [merchant EXCEPT ![c] = 0]
        /\ pc' = [pc EXCEPT ![t] = "touchMerchant"]
        /\ seen' = [seen EXCEPT ![t].merchant = 0]
        /\ UNCHANGED <<req, cashLock, bonusLock, offerLock, merchLock>>
    BY <1>5 DEF OpenMerchant
  <2>2. /\ pc'[t] = "touchMerchant" /\ req'[t] = req[t]
        /\ seen'[t].cash = seen[t].cash /\ seen'[t].bonus = seen[t].bonus
        /\ seen'[t].total = seen[t].total /\ seen'[t].used = seen[t].used
    BY <1>1, <2>1 DEF OrdersTypeOK
  <2>3. seen' \in [OrderTx -> SeenValues]
    <3>1. seen \in [OrderTx -> SeenValues]
      BY <1>1 DEF OrdersTypeOK, SeenValues
    <3>2. [seen[t] EXCEPT !.merchant = 0] \in SeenValues
      BY <3>1 DEF SeenValues
    <3> QED BY <2>1, <3>1, <3>2
  <2>4. OnlySession(t)
    BY <1>1, <2>1, <2>3 DEF OnlySession, OrdersTypeOK, Pcs, CreatePcs
  <2>5. Addressed(t)' /\ OrderSeen(t)'
    BY <1>1, <1>2, <1>3, <2>2
    DEF SessionOK, Addressed, OrderSeen, CreatePcs, RefundPcs, StatusPcs, rowVars
  <2>6. OwnsCash(t)' /\ OwnsBonus(t)' /\ Priced(t)'
    BY <1>1, <1>2, <2>1, <2>2
    DEF SessionOK, OwnsCash, OwnsBonus, Priced, CashPcs, PricedPcs, CreatePcs
  <2>7. OwnsPartner(t)'
    BY <1>3, <2>1, <2>2 DEF OwnsPartner
  <2>8. SessionOK(t)'
    BY <2>5, <2>6, <2>7 DEF SessionOK
  <2>9. OrdersTypeOK' /\ AccountsTypeOK'
    BY <1>1, <1>2, <1>3, <2>1, <2>4
    DEF OrdersTypeOK, AccountsTypeOK, OnlySession, Pcs, SeenValues, rowVars
  <2>10. SoldOpened' /\ RefundsRecorded'
    BY <1>1, <1>2, <2>1 DEF SoldOpened, RefundsRecorded, CompanyOf, rowVars
  <2>11. BooksAgree'
    BY <1>1, <1>2, <1>3, <2>1
    DEF BooksAgree, NoOverdraft, BalanceMatchesLedger, MerchantMatchesJournal,
        OrdersTypeOK
  <2>12. Reserved'
    BY <1>2, <2>2, <2>4, StillReserved DEF CreatePcs
  <2>13. ASSUME NEW s \in OrderTx \ {t}
         PROVE  Undisturbed(s)
    <3>1. SessionOK(s)
      BY DEF OrdersInv
    <3> QED
      BY <1>1, <1>2, <1>3, <2>1, <2>4, <3>1
      DEF Undisturbed, OnlySession, OrdersTypeOK, SessionOK, OrderSeen, rowVars
  <2> QED
    BY <1>2, <2>1, <2>8, <2>9, <2>10, <2>11, <2>12, <2>13, WriteKeeps DEF RespectsCash
<1> QED BY <1>4, <1>5

\* What COMMIT of a purchase does, the locks being what they are: it works on
\* the current balances.
LEMMA CommitCreateFacts ==
  ASSUME OrdersInv, NEW t \in OrderTx, CommitCreate(t)
  PROVE  LET o == req[t].order
             u == req[t].user
             f == req[t].offer
             c == OfferCompany[f]
             total == seen[t].total
             used == seen[t].used
         IN  /\ o \in OrderIds /\ u \in Users /\ f \in Offers
             /\ total \in Nat /\ used \in Nat /\ Earning(total) \in Int
             /\ status[o] = "none" /\ status' = [status EXCEPT ![o] = "created"]
             /\ info' = [info EXCEPT ![o] = [user |-> u, offer |-> f, total |-> total,
                                             bonus |-> used]]
             /\ used =< BonusCap[f] /\ total = Price[f] - used
             /\ total =< cash[u] /\ (used > 0 => used =< bonus[u])
             /\ cashLock[u] = t /\ bonusLock[u] = t
             /\ cash' = [cash EXCEPT ![u] = @ - total]
             /\ bonus' = [bonus EXCEPT ![u] = @ - used]
             /\ c # NoCompany => c \in Companies /\ c \in opened /\ merchLock[c] = t
             /\ \A d \in OpenedAtStart :
                  merchant'[d] = merchant[d] + IF d = c THEN Earning(total) ELSE 0
<1> USE CatalogueAssumption, NullAssumption
<1> DEFINE o == req[t].order
           u == req[t].user
           f == req[t].offer
           c == OfferCompany[f]
           total == seen[t].total
           used == seen[t].used
<1>1. OrdersTypeOK /\ AccountsTypeOK /\ SessionOK(t)
  BY DEF OrdersInv
<1>2. pc[t] = "commitCreate"
  BY DEF CommitCreate
<1>3. /\ o \in OrderIds /\ u \in Users /\ f \in Offers
      /\ total \in Nat /\ used \in Nat /\ status[o] = "none"
  BY <1>1, <1>2 DEF SessionOK, Addressed, OrderSeen, CreatePcs, OrdersTypeOK
<1>4. /\ cashLock[u] = t /\ seen[t].cash = cash[u]
      /\ bonusLock[u] = t /\ seen[t].bonus = bonus[u]
      /\ used =< BonusCap[f] /\ total = Price[f] - used
      /\ total =< cash[u] /\ (used > 0 => used =< bonus[u])
  BY <1>1, <1>2 DEF SessionOK, OwnsCash, OwnsBonus, Priced, CashPcs, PricedPcs, CreatePcs
<1>5. /\ c # NoCompany => c \in Companies /\ c \in opened /\ merchLock[c] = t
      /\ c \in OpenedAtStart => c # NoCompany /\ seen[t].merchant = merchant[c]
  BY <1>1, <1>2, <1>3 DEF SessionOK, OwnsPartner
<1>6. Earning(total) \in Int
  BY <1>3, EarningIsInt
<1>7. cash' = [cash EXCEPT ![u] = @ - total]
  BY <1>4 DEF CommitCreate, PostCash
<1>8. bonus' = [bonus EXCEPT ![u] = @ - used]
  <2>1. CASE used > 0
    BY <1>4, <2>1 DEF CommitCreate, PostBonus
  <2>2. CASE ~(used > 0)
    <3>1. used = 0 /\ bonus' = bonus
      BY <1>3, <2>2 DEF CommitCreate
    <3> HIDE DEF used
    <3> QED BY <1>1, <1>3, <3>1 DEF AccountsTypeOK
  <2> QED BY <2>1, <2>2
<1>9. \A d \in OpenedAtStart : merchant'[d] = merchant[d] + IF d = c THEN Earning(total) ELSE 0
  <2>1. CASE c # NoCompany
    <3>1. merchant' = [merchant EXCEPT ![c] = seen[t].merchant + Earning(total)]
      BY <2>1 DEF CommitCreate
    <3> QED BY <1>1, <1>5, <1>6, <2>1, <3>1 DEF OrdersTypeOK
  <2>2. CASE c = NoCompany
    <3>1. merchant' = merchant
      BY <2>2 DEF CommitCreate
    <3> QED BY <1>1, <2>2, <3>1 DEF OrdersTypeOK
  <2> QED BY <2>1, <2>2
<1>10. /\ status' = [status EXCEPT ![o] = "created"]
       /\ info' = [info EXCEPT ![o] = [user |-> u, offer |-> f, total |-> total, bonus |-> used]]
  BY DEF CommitCreate
<1> QED BY <1>3, <1>4, <1>5, <1>6, <1>7, <1>8, <1>9, <1>10

\* The journals a purchase writes, in the same COMMIT.
LEMMA CommitCreateJournals ==
  ASSUME OrdersInv, NEW t \in OrderTx, CommitCreate(t)
  PROVE  LET o == req[t].order
             u == req[t].user
             f == req[t].offer
             c == OfferCompany[f]
             total == seen[t].total
             used == seen[t].used
         IN  /\ uses' = [uses EXCEPT ![f] = @ + 1]
             /\ cashLog' = [cashLog EXCEPT ![u] = @ - total]
             /\ bonusLog' = [bonusLog EXCEPT ![u] = @ - used]
             /\ merchant' \in [Companies -> Int] /\ merchLog' \in [Companies -> Int]
             /\ \A d \in OpenedAtStart :
                  merchLog'[d] = merchLog[d] + IF d = c THEN Earning(total) ELSE 0
             /\ merchTx' \subseteq merchTx \cup {<<o, "order_earning">>}
             /\ \A d \in Companies : merchLock[d] # t /\ d \in OpenedAtStart =>
                  merchant'[d] = merchant[d]
             /\ UNCHANGED <<redeemed, refunds, attendee, opened>>
             /\ ReleaseAll(t) /\ Forget(t)
<1> USE CatalogueAssumption, NullAssumption
<1> DEFINE o == req[t].order
           u == req[t].user
           f == req[t].offer
           c == OfferCompany[f]
           total == seen[t].total
           used == seen[t].used
<1>1. OrdersTypeOK /\ AccountsTypeOK
  BY DEF OrdersInv
<1>2. /\ u \in Users /\ f \in Offers /\ total \in Nat /\ used \in Nat /\ Earning(total) \in Int
      /\ c # NoCompany => c \in Companies /\ merchLock[c] = t
      /\ seen[t].merchant \in Int
  BY <1>1, CommitCreateFacts DEF OrdersTypeOK
<1>3. cashLog' = [cashLog EXCEPT ![u] = @ - total]
  <2>1. cashLog' = [cashLog EXCEPT ![u] = @ + (-total)]
    BY DEF CommitCreate, PostCash
  <2> QED BY <1>1, <1>2, <2>1 DEF AccountsTypeOK
<1>4. bonusLog' = [bonusLog EXCEPT ![u] = @ - used]
  <2>1. CASE used > 0
    <3>1. bonusLog' = [bonusLog EXCEPT ![u] = @ + (-used)]
      BY <2>1 DEF CommitCreate, PostBonus
    <3> QED BY <1>1, <1>2, <3>1 DEF AccountsTypeOK
  <2>2. CASE ~(used > 0)
    <3>1. used = 0 /\ bonusLog' = bonusLog
      BY <1>2, <2>2 DEF CommitCreate
    <3> HIDE DEF used
    <3> QED BY <1>1, <1>2, <3>1 DEF AccountsTypeOK
  <2> QED BY <2>1, <2>2
<1>5. CASE c # NoCompany
  <2>1. /\ merchant' = [merchant EXCEPT ![c] = seen[t].merchant + Earning(total)]
        /\ merchLog' = [merchLog EXCEPT ![c] = @ + Earning(total)]
        /\ merchTx' = merchTx \cup {<<o, "order_earning">>}
    BY <1>5 DEF CommitCreate
  <2>2. /\ merchant' \in [Companies -> Int] /\ merchLog' \in [Companies -> Int]
        /\ \A d \in OpenedAtStart :
             merchLog'[d] = merchLog[d] + IF d = c THEN Earning(total) ELSE 0
    <3>1. /\ merchant \in [Companies -> Int] /\ merchLog \in [Companies -> Int]
          /\ OpenedAtStart \subseteq Companies
      BY DEF OrdersInv, OrdersTypeOK, SoldOpened
    <3>2. c \in Companies /\ seen[t].merchant \in Int /\ Earning(total) \in Int
      BY <1>2, <1>5
    <3> HIDE DEF c, total
    <3>3. merchLog[c] + Earning(total) \in Int /\ seen[t].merchant + Earning(total) \in Int
      BY <3>1, <3>2
    <3>4. merchant' \in [Companies -> Int]
      BY <2>1, <3>1, <3>2, <3>3, AmountSet
    <3>5. /\ merchLog' \in [Companies -> Int] /\ merchLog'[c] = merchLog[c] + Earning(total)
          /\ \A d \in Companies \ {c} : merchLog'[d] = merchLog[d]
      BY <2>1, <3>1, <3>2, <3>3, AmountSet
    <3>6. ASSUME NEW d \in OpenedAtStart
          PROVE  merchLog'[d] = merchLog[d] + IF d = c THEN Earning(total) ELSE 0
      BY <3>1, <3>2, <3>5
    <3> QED BY <3>4, <3>5, <3>6
  <2>3. \A d \in Companies : merchLock[d] # t /\ d \in OpenedAtStart => merchant'[d] = merchant[d]
    BY <1>1, <1>2, <1>5, <2>1 DEF OrdersTypeOK
  <2> QED BY <1>3, <1>4, <2>1, <2>2, <2>3 DEF CommitCreate
<1>6. CASE c = NoCompany
  <2>1. UNCHANGED <<merchant, merchLog, merchTx>>
    BY <1>6 DEF CommitCreate
  <2>2. \A d \in OpenedAtStart : merchLog'[d] = merchLog[d] + IF d = c THEN Earning(total) ELSE 0
    BY <1>1, <1>6, <2>1 DEF OrdersTypeOK
  <2> QED BY <1>1, <1>3, <1>4, <2>1, <2>2 DEF CommitCreate, OrdersTypeOK
<1> QED BY <1>5, <1>6

LEMMA CommitCreateKeeps ==
  ASSUME OrdersInv, NEW t \in OrderTx, CommitCreate(t)
  PROVE  OrdersInv' /\ RespectsCash(t)
<1> USE OrderTxAssumption, FreeIsNoTx, CatalogueAssumption, NullAssumption
<1> DEFINE o == req[t].order
           u == req[t].user
           f == req[t].offer
           c == OfferCompany[f]
           total == seen[t].total
           used == seen[t].used
<1>1. OrdersTypeOK /\ AccountsTypeOK /\ SoldOpened /\ RefundsRecorded /\ BooksAgree /\ Reserved
  BY DEF OrdersInv
<1>2. /\ o \in OrderIds /\ u \in Users /\ f \in Offers
      /\ total \in Nat /\ used \in Nat /\ Earning(total) \in Int
      /\ status[o] = "none" /\ status' = [status EXCEPT ![o] = "created"]
      /\ info' = [info EXCEPT ![o] = [user |-> u, offer |-> f, total |-> total, bonus |-> used]]
      /\ total =< cash[u] /\ (used > 0 => used =< bonus[u])
      /\ cashLock[u] = t /\ bonusLock[u] = t
      /\ cash' = [cash EXCEPT ![u] = @ - total]
      /\ bonus' = [bonus EXCEPT ![u] = @ - used]
      /\ c # NoCompany => c \in Companies /\ c \in opened /\ merchLock[c] = t
      /\ \A d \in OpenedAtStart : merchant'[d] = merchant[d] + IF d = c THEN Earning(total) ELSE 0
  BY CommitCreateFacts
<1>3. /\ uses' = [uses EXCEPT ![f] = @ + 1]
      /\ cashLog' = [cashLog EXCEPT ![u] = @ - total]
      /\ bonusLog' = [bonusLog EXCEPT ![u] = @ - used]
      /\ merchant' \in [Companies -> Int] /\ merchLog' \in [Companies -> Int]
      /\ \A d \in OpenedAtStart : merchLog'[d] = merchLog[d] + IF d = c THEN Earning(total) ELSE 0
      /\ merchTx' \subseteq merchTx \cup {<<o, "order_earning">>}
      /\ \A d \in Companies : merchLock[d] # t /\ d \in OpenedAtStart => merchant'[d] = merchant[d]
      /\ UNCHANGED <<redeemed, refunds, attendee, opened>>
      /\ merchTx \subseteq merchTx'
  <2>1. merchTx \subseteq merchTx'
    BY DEF CommitCreate
  <2> QED BY <2>1, CommitCreateJournals
<1>4. OnlySession(t) /\ SessionOK(t)' /\ Reserved' /\ AllLocksOf(t)
  BY Forgotten, ReleaseAllLocks DEF CommitCreate
<1> HIDE DEF total, used, c, f, u, o
<1>5. AccountsTypeOK'
  <2>1. cash' \in [Users -> Int] /\ cashLog' \in [Users -> Int]
    BY <1>1, <1>2, <1>3 DEF AccountsTypeOK
  <2>2. bonus' \in [Users -> Int] /\ bonusLog' \in [Users -> Int]
    BY <1>1, <1>2, <1>3 DEF AccountsTypeOK
  <2> QED BY <1>4, <2>1, <2>2 DEF AccountsTypeOK, AllLocksOf, LocksOf
<1>6. OrdersTypeOK'
  <2>1. status' \in [OrderIds -> Statuses \cup {"none"}]
    BY <1>1, <1>2 DEF OrdersTypeOK, Statuses
  <2>2. [user |-> u, offer |-> f, total |-> total, bonus |-> used] \in OrderInfo
    BY <1>2 DEF OrderInfo
  <2>3. /\ info' \in [OrderIds -> OrderInfo \cup {Idle}]
        /\ \A p \in OrderIds : status'[p] # "none" => info'[p] \in OrderInfo
    BY <1>1, <1>2, <2>2 DEF OrdersTypeOK
  <2>4. uses' \in [Offers -> Nat] /\ merchTx' \subseteq OrderIds \X {"order_earning", "refund"}
    BY <1>1, <1>2, <1>3 DEF OrdersTypeOK
  <2>5. /\ offerLock' \in [Offers -> Tx \cup {Free}]
        /\ merchLock' \in [Companies -> Tx \cup {Free}]
    BY <1>4 DEF AllLocksOf, LocksOf
  <2> QED
    BY <1>1, <1>3, <1>4, <2>1, <2>3, <2>4, <2>5 DEF OrdersTypeOK, OnlySession, Pcs, SeenValues
<1>7. SoldOpened'
  <2>1. info'[o].offer = f
    BY <1>1, <1>2 DEF OrdersTypeOK
  <2> QED BY <1>1, <1>2, <1>3, <2>1 DEF SoldOpened, CompanyOf, OrdersTypeOK, c
<1>8. RefundsRecorded'
  <2>1. \A p \in OrderIds : <<p, "refund">> \in merchTx' <=> <<p, "refund">> \in merchTx
    BY <1>3
  <2> QED BY <1>1, <1>2, <1>3, <2>1 DEF RefundsRecorded, CompanyOf, OrdersTypeOK
<1>9. BooksAgree'
  <2>1. NoOverdraft' /\ BalanceMatchesLedger'
    BY <1>1, <1>2, <1>3
    DEF BooksAgree, NoOverdraft, BalanceMatchesLedger, AccountsTypeOK
  <2>2. MerchantMatchesJournal'
    BY <1>1, <1>2, <1>3 DEF BooksAgree, MerchantMatchesJournal, OrdersTypeOK
  <2> QED BY <2>1, <2>2 DEF BooksAgree
<1>10. ASSUME NEW s \in OrderTx \ {t}
       PROVE  Undisturbed(s)
  <2>1. SessionOK(s) /\ s # Free
    BY DEF OrdersInv
  <2>2. \A v \in Users : cashLock[v] = s => cashLock'[v] = s /\ cash'[v] = cash[v]
    BY <1>1, <1>2, <1>4, <2>1 DEF AllLocksOf, LocksOf, AccountsTypeOK
  <2>3. \A v \in Users : bonusLock[v] = s => bonusLock'[v] = s /\ bonus'[v] = bonus[v]
    BY <1>1, <1>2, <1>4, <2>1 DEF AllLocksOf, LocksOf, AccountsTypeOK
  <2>4. \A d \in Companies : merchLock[d] = s =>
          merchLock'[d] = s /\ (d \in OpenedAtStart => merchant'[d] = merchant[d])
    BY <1>3, <1>4, <2>1 DEF AllLocksOf, LocksOf
  <2>5. \A p \in OrderIds : status[p] # "none" => status'[p] # "none" /\ info'[p] = info[p]
    BY <1>1, <1>2 DEF OrdersTypeOK
  <2>6. pc[s] \in CreatePcs => status'[req[s].order] = "none"
    <3>1. pc[t] \in CreatePcs
      BY DEF CommitCreate, CreatePcs
    <3>2. req[s].order # o
      BY <1>1, <3>1 DEF Reserved, o
    <3> QED
      BY <1>1, <1>2, <2>1, <3>2
      DEF SessionOK, OrderSeen, Addressed, OrdersTypeOK, CreatePcs
  <2> QED BY <1>3, <1>4, <2>2, <2>3, <2>4, <2>5, <2>6 DEF Undisturbed, OnlySession
<1>11. RespectsCash(t)
  BY <1>1, <1>2, <1>4 DEF RespectsCash, AllLocksOf, LocksOf, AccountsTypeOK
<1> QED BY <1>4, <1>5, <1>6, <1>7, <1>8, <1>9, <1>10, <1>11, WriteKeeps

\* What COMMIT of a refund does: it, too, works on the current balances, and
\* a partner's order was not refunded before.
LEMMA CommitRefundFacts ==
  ASSUME OrdersInv, NEW t \in OrderTx, CommitRefund(t)
  PROVE  LET o == req[t].order
             u == info[o].user
             f == info[o].offer
             c == OfferCompany[f]
             total == info[o].total
             used == info[o].bonus
         IN  /\ o \in OrderIds /\ u \in Users /\ f \in Offers
             /\ total \in Nat /\ used \in Nat /\ Earning(total) \in Int
             /\ status[o] # "none" /\ status' = [status EXCEPT ![o] = "refunded"]
             /\ info' = info
             /\ refunds' = [refunds EXCEPT ![o] = @ + 1]
             /\ c # NoCompany => refunds[o] = 0
             /\ cashLock[u] = t /\ (used > 0 => bonusLock[u] = t)
             /\ cash' = [cash EXCEPT ![u] = @ + total]
             /\ bonus' = [bonus EXCEPT ![u] = @ + used]
             /\ c # NoCompany => c \in Companies /\ c \in opened /\ merchLock[c] = t
             /\ \A d \in OpenedAtStart :
                  merchant'[d] = merchant[d] + IF d = c THEN -Earning(total) ELSE 0
<1> USE CatalogueAssumption, NullAssumption
<1> DEFINE o == req[t].order
           u == info[o].user
           f == info[o].offer
           c == OfferCompany[f]
           total == info[o].total
           used == info[o].bonus
<1>1. OrdersTypeOK /\ AccountsTypeOK /\ SessionOK(t) /\ RefundsRecorded
  BY DEF OrdersInv
<1>2. pc[t] = "commitRefund" /\ <<o, "refund">> \notin merchTx
  BY DEF CommitRefund
<1>3. /\ o \in OrderIds /\ status[o] # "none"
      /\ req[t].user = u /\ req[t].offer = f /\ seen[t].total = total /\ seen[t].used = used
  BY <1>1, <1>2 DEF SessionOK, Addressed, OrderSeen, RefundPcs
<1>4. u \in Users /\ f \in Offers /\ total \in Nat /\ used \in Nat
  BY <1>1, <1>3 DEF OrdersTypeOK, OrderInfo
<1>5. /\ cashLock[u] = t /\ seen[t].cash = cash[u]
      /\ used > 0 => bonusLock[u] = t /\ seen[t].bonus = bonus[u]
  BY <1>1, <1>2, <1>3 DEF SessionOK, OwnsCash, OwnsBonus, CashPcs
<1>6. /\ c # NoCompany => c \in Companies /\ c \in opened /\ merchLock[c] = t
      /\ c \in OpenedAtStart => c # NoCompany /\ seen[t].merchant = merchant[c]
  BY <1>1, <1>2, <1>3, <1>4 DEF SessionOK, OwnsPartner
<1>7. Earning(total) \in Int
  BY <1>4, EarningIsInt
<1>8. cash' = [cash EXCEPT ![u] = @ + total]
  BY <1>3, <1>5 DEF CommitRefund, PostCash
<1>9. bonus' = [bonus EXCEPT ![u] = @ + used]
  <2>1. CASE used > 0
    BY <1>3, <1>5, <2>1 DEF CommitRefund, PostBonus
  <2>2. CASE ~(used > 0)
    <3>1. used = 0 /\ bonus' = bonus
      <4>1. used = 0 /\ ~(seen[t].used > 0)
        BY <1>3, <1>4, <2>2
      <4>2. bonus' = bonus
        BY <4>1 DEF CommitRefund
      <4> QED BY <4>1, <4>2
    <3> HIDE DEF used
    <3> QED BY <1>1, <1>4, <3>1 DEF AccountsTypeOK
  <2> QED BY <2>1, <2>2
<1>10. \A d \in OpenedAtStart : merchant'[d] = merchant[d] + IF d = c THEN -Earning(total) ELSE 0
  <2>1. CASE c # NoCompany
    <3>1. merchant' = [merchant EXCEPT ![c] = seen[t].merchant - Earning(total)]
      BY <1>3, <1>6, <2>1 DEF CommitRefund
    <3>2. /\ merchant \in [Companies -> Int] /\ OpenedAtStart \subseteq Companies
      BY DEF OrdersInv, OrdersTypeOK, SoldOpened
    <3>3. /\ c \in Companies /\ seen[t].merchant \in Int
          /\ c \in OpenedAtStart => seen[t].merchant = merchant[c]
      BY <1>1, <1>6, <2>1 DEF OrdersTypeOK
    <3>4. seen[t].merchant - Earning(total) \in Int
      BY <1>7, <3>3
    <3> HIDE DEF c, total
    <3>5. /\ merchant'[c] = seen[t].merchant - Earning(total)
          /\ \A d \in Companies \ {c} : merchant'[d] = merchant[d]
      BY <3>1, <3>2, <3>3, <3>4, AmountSet
    <3>6. ASSUME NEW d \in OpenedAtStart
          PROVE  merchant'[d] = merchant[d] + IF d = c THEN -Earning(total) ELSE 0
      BY <1>7, <3>2, <3>3, <3>5, <3>6
    <3> QED BY <3>6
  <2>2. CASE c = NoCompany
    <3>1. merchant' = merchant
      BY <1>3, <2>2 DEF CommitRefund
    <3> QED BY <1>1, <2>2, <3>1 DEF OrdersTypeOK
  <2> QED BY <2>1, <2>2
<1>11. c # NoCompany => refunds[o] = 0
  BY <1>1, <1>2, <1>3 DEF RefundsRecorded, CompanyOf
<1>12. /\ status' = [status EXCEPT ![o] = "refunded"] /\ info' = info
       /\ refunds' = [refunds EXCEPT ![o] = @ + 1]
  BY DEF CommitRefund
<1> QED BY <1>3, <1>4, <1>5, <1>6, <1>7, <1>8, <1>9, <1>10, <1>11, <1>12

LEMMA CommitRefundJournals ==
  ASSUME OrdersInv, NEW t \in OrderTx, CommitRefund(t)
  PROVE  LET o == req[t].order
             u == info[o].user
             f == info[o].offer
             c == OfferCompany[f]
             total == info[o].total
             used == info[o].bonus
         IN  /\ cashLog' = [cashLog EXCEPT ![u] = @ + total]
             /\ bonusLog' = [bonusLog EXCEPT ![u] = @ + used]
             /\ merchant' \in [Companies -> Int] /\ merchLog' \in [Companies -> Int]
             /\ \A d \in OpenedAtStart :
                  merchLog'[d] = merchLog[d] + IF d = c THEN -Earning(total) ELSE 0
             /\ merchTx' = IF c # NoCompany THEN merchTx \cup {<<o, "refund">>} ELSE merchTx
             /\ \A d \in Companies : merchLock[d] # t /\ d \in OpenedAtStart =>
                  merchant'[d] = merchant[d]
             /\ UNCHANGED <<redeemed, attendee, uses, opened>>
             /\ ReleaseAll(t) /\ Forget(t)
<1> USE CatalogueAssumption, NullAssumption
<1> DEFINE o == req[t].order
           u == info[o].user
           f == info[o].offer
           c == OfferCompany[f]
           total == info[o].total
           used == info[o].bonus
<1>1. OrdersTypeOK /\ AccountsTypeOK /\ SessionOK(t)
  BY DEF OrdersInv
<1>2. /\ o \in OrderIds /\ u \in Users /\ f \in Offers
      /\ total \in Nat /\ used \in Nat /\ Earning(total) \in Int
      /\ c # NoCompany => c \in Companies /\ merchLock[c] = t
  BY CommitRefundFacts
<1>3. /\ req[t].user = u /\ req[t].offer = f /\ seen[t].total = total /\ seen[t].used = used
      /\ seen[t].merchant \in Int
  BY <1>1 DEF SessionOK, OrderSeen, RefundPcs, CommitRefund, OrdersTypeOK
<1>4. cashLog' = [cashLog EXCEPT ![u] = @ + total]
  BY <1>3 DEF CommitRefund, PostCash
<1>5. bonusLog' = [bonusLog EXCEPT ![u] = @ + used]
  <2>1. CASE used > 0
    BY <1>3, <2>1 DEF CommitRefund, PostBonus
  <2>2. CASE ~(used > 0)
    <3>1. used = 0 /\ bonusLog' = bonusLog
      <4>1. used = 0 /\ ~(seen[t].used > 0)
        BY <1>2, <1>3, <2>2
      <4>2. bonusLog' = bonusLog
        BY <4>1 DEF CommitRefund
      <4> QED BY <4>1, <4>2
    <3> HIDE DEF used
    <3> QED BY <1>1, <1>2, <3>1 DEF AccountsTypeOK
  <2> QED BY <2>1, <2>2
<1>6. CASE c # NoCompany
  <2>1. /\ merchant' = [merchant EXCEPT ![c] = seen[t].merchant - Earning(total)]
        /\ merchLog' = [merchLog EXCEPT ![c] = @ - Earning(total)]
        /\ merchTx' = merchTx \cup {<<o, "refund">>}
    BY <1>2, <1>3, <1>6 DEF CommitRefund
  <2>2. /\ merchant' \in [Companies -> Int] /\ merchLog' \in [Companies -> Int]
        /\ \A d \in OpenedAtStart :
             merchLog'[d] = merchLog[d] + IF d = c THEN -Earning(total) ELSE 0
    <3>1. /\ merchant \in [Companies -> Int] /\ merchLog \in [Companies -> Int]
          /\ OpenedAtStart \subseteq Companies
      BY DEF OrdersInv, OrdersTypeOK, SoldOpened
    <3>2. c \in Companies /\ seen[t].merchant \in Int /\ Earning(total) \in Int
      BY <1>2, <1>3, <1>6
    <3> HIDE DEF c, total
    <3>3. merchLog[c] - Earning(total) \in Int /\ seen[t].merchant - Earning(total) \in Int
      BY <3>1, <3>2
    <3>4. merchant' \in [Companies -> Int]
      BY <2>1, <3>1, <3>2, <3>3, AmountSet
    <3>5. /\ merchLog' \in [Companies -> Int] /\ merchLog'[c] = merchLog[c] - Earning(total)
          /\ \A d \in Companies \ {c} : merchLog'[d] = merchLog[d]
      BY <2>1, <3>1, <3>2, <3>3, AmountSet
    <3>6. ASSUME NEW d \in OpenedAtStart
          PROVE  merchLog'[d] = merchLog[d] + IF d = c THEN -Earning(total) ELSE 0
      BY <3>1, <3>2, <3>5
    <3> QED BY <3>4, <3>5, <3>6
  <2>3. \A d \in Companies : merchLock[d] # t /\ d \in OpenedAtStart => merchant'[d] = merchant[d]
    BY <1>1, <1>2, <1>6, <2>1 DEF OrdersTypeOK
  <2> QED BY <1>4, <1>5, <1>6, <2>1, <2>2, <2>3 DEF CommitRefund
<1>7. CASE c = NoCompany
  <2>1. UNCHANGED <<merchant, merchLog, merchTx>>
    BY <1>3, <1>7 DEF CommitRefund
  <2>2. \A d \in OpenedAtStart : merchLog'[d] = merchLog[d] + IF d = c THEN -Earning(total) ELSE 0
    BY <1>1, <1>7, <2>1 DEF OrdersTypeOK
  <2> QED BY <1>1, <1>4, <1>5, <1>7, <2>1, <2>2 DEF CommitRefund, OrdersTypeOK
<1> QED BY <1>6, <1>7

LEMMA CommitRefundKeeps ==
  ASSUME OrdersInv, NEW t \in OrderTx, CommitRefund(t)
  PROVE  OrdersInv' /\ RespectsCash(t)
<1> USE OrderTxAssumption, FreeIsNoTx, CatalogueAssumption, NullAssumption
<1> DEFINE o == req[t].order
           u == info[o].user
           f == info[o].offer
           c == OfferCompany[f]
           total == info[o].total
           used == info[o].bonus
<1>1. OrdersTypeOK /\ AccountsTypeOK /\ SoldOpened /\ RefundsRecorded /\ BooksAgree /\ Reserved
  BY DEF OrdersInv
<1>2. /\ o \in OrderIds /\ u \in Users /\ f \in Offers
      /\ total \in Nat /\ used \in Nat /\ Earning(total) \in Int
      /\ status[o] # "none" /\ status' = [status EXCEPT ![o] = "refunded"]
      /\ info' = info
      /\ refunds' = [refunds EXCEPT ![o] = @ + 1]
      /\ c # NoCompany => refunds[o] = 0
      /\ cashLock[u] = t /\ (used > 0 => bonusLock[u] = t)
      /\ cash' = [cash EXCEPT ![u] = @ + total]
      /\ bonus' = [bonus EXCEPT ![u] = @ + used]
      /\ \A d \in OpenedAtStart : merchant'[d] = merchant[d] + IF d = c THEN -Earning(total) ELSE 0
  BY CommitRefundFacts
<1>3. /\ cashLog' = [cashLog EXCEPT ![u] = @ + total]
      /\ bonusLog' = [bonusLog EXCEPT ![u] = @ + used]
      /\ merchant' \in [Companies -> Int] /\ merchLog' \in [Companies -> Int]
      /\ \A d \in OpenedAtStart : merchLog'[d] = merchLog[d] + IF d = c THEN -Earning(total) ELSE 0
      /\ merchTx' = IF c # NoCompany THEN merchTx \cup {<<o, "refund">>} ELSE merchTx
      /\ \A d \in Companies : merchLock[d] # t /\ d \in OpenedAtStart => merchant'[d] = merchant[d]
      /\ UNCHANGED <<redeemed, attendee, uses, opened>>
  BY CommitRefundJournals
<1>4. OnlySession(t) /\ SessionOK(t)' /\ Reserved' /\ AllLocksOf(t)
  BY Forgotten, ReleaseAllLocks DEF CommitRefund
<1>5. "refunded" \in Statuses /\ "none" \notin Statuses
  BY DEF Statuses
<1> HIDE DEF total, used, c, f, u, o
<1>6. AccountsTypeOK'
  <2>1. cash' \in [Users -> Int] /\ cashLog' \in [Users -> Int]
    BY <1>1, <1>2, <1>3 DEF AccountsTypeOK
  <2>2. bonus' \in [Users -> Int] /\ bonusLog' \in [Users -> Int]
    BY <1>1, <1>2, <1>3 DEF AccountsTypeOK
  <2> QED BY <1>4, <2>1, <2>2 DEF AccountsTypeOK, AllLocksOf, LocksOf
<1>7. OrdersTypeOK'
  <2>1. /\ status' \in [OrderIds -> Statuses \cup {"none"}]
        /\ \A p \in OrderIds : status'[p] # "none" => info'[p] \in OrderInfo
    BY <1>1, <1>2, <1>5 DEF OrdersTypeOK
  <2>2. refunds' \in [OrderIds -> Nat]
    BY <1>1, <1>2 DEF OrdersTypeOK
  <2>3. merchTx' \subseteq OrderIds \X {"order_earning", "refund"}
    BY <1>1, <1>2, <1>3 DEF OrdersTypeOK
  <2>4. /\ offerLock' \in [Offers -> Tx \cup {Free}]
        /\ merchLock' \in [Companies -> Tx \cup {Free}]
    BY <1>4 DEF AllLocksOf, LocksOf
  <2> QED
    BY <1>1, <1>2, <1>3, <1>4, <2>1, <2>2, <2>3, <2>4 DEF OrdersTypeOK, OnlySession, Pcs, SeenValues
<1>8. SoldOpened'
  BY <1>1, <1>2, <1>3 DEF SoldOpened, CompanyOf, OrdersTypeOK
<1>9. RefundsRecorded'
  <2> SUFFICES ASSUME NEW p \in OrderIds
               PROVE  /\ status'[p] = "none" => refunds'[p] = 0 /\ <<p, "refund">> \notin merchTx'
                      /\ status'[p] # "none" /\ OfferCompany[info'[p].offer] # NoCompany =>
                           refunds'[p] = IF <<p, "refund">> \in merchTx' THEN 1 ELSE 0
    BY DEF RefundsRecorded, CompanyOf
  <2>1. CASE p = o
    <3>1. status'[p] # "none" /\ refunds'[p] = refunds[p] + 1
      BY <1>1, <1>2, <1>5, <2>1 DEF OrdersTypeOK
    <3>2. OfferCompany[info'[p].offer] = c
      BY <1>2, <2>1 DEF c, f
    <3> QED BY <1>2, <1>3, <2>1, <3>1, <3>2
  <2>2. CASE p # o
    <3>1. /\ status'[p] = status[p] /\ refunds'[p] = refunds[p] /\ info'[p] = info[p]
          /\ <<p, "refund">> \in merchTx' <=> <<p, "refund">> \in merchTx
      BY <1>1, <1>2, <1>3, <2>2 DEF OrdersTypeOK
    <3> QED BY <1>1, <3>1 DEF RefundsRecorded, CompanyOf
  <2> QED BY <2>1, <2>2
<1>10. BooksAgree'
  <2>1. NoOverdraft' /\ BalanceMatchesLedger'
    BY <1>1, <1>2, <1>3
    DEF BooksAgree, NoOverdraft, BalanceMatchesLedger, AccountsTypeOK
  <2>2. MerchantMatchesJournal'
    BY <1>1, <1>2, <1>3 DEF BooksAgree, MerchantMatchesJournal, OrdersTypeOK
  <2> QED BY <2>1, <2>2 DEF BooksAgree
<1>11. ASSUME NEW s \in OrderTx \ {t}
       PROVE  Undisturbed(s)
  <2>1. SessionOK(s) /\ s # Free
    BY DEF OrdersInv
  <2>2. \A v \in Users : cashLock[v] = s => cashLock'[v] = s /\ cash'[v] = cash[v]
    BY <1>1, <1>2, <1>4, <2>1 DEF AllLocksOf, LocksOf, AccountsTypeOK
  <2>3. \A v \in Users : bonusLock[v] = s => bonusLock'[v] = s /\ bonus'[v] = bonus[v]
    <3>1. \A v \in Users : bonusLock[v] = s => bonusLock'[v] = s
      BY <1>4, <2>1 DEF AllLocksOf, LocksOf
    <3>2. \A v \in Users : bonusLock[v] = s => bonus'[v] = bonus[v]
      BY <1>1, <1>2 DEF AccountsTypeOK
    <3> QED BY <3>1, <3>2
  <2>4. \A d \in Companies : merchLock[d] = s =>
          merchLock'[d] = s /\ (d \in OpenedAtStart => merchant'[d] = merchant[d])
    BY <1>3, <1>4, <2>1 DEF AllLocksOf, LocksOf
  <2>5. \A p \in OrderIds : status[p] # "none" => status'[p] # "none" /\ info'[p] = info[p]
    BY <1>1, <1>2, <1>5 DEF OrdersTypeOK
  <2>6. pc[s] \in CreatePcs => status'[req[s].order] = "none"
    BY <1>1, <1>2, <2>1 DEF SessionOK, OrderSeen, Addressed, OrdersTypeOK, CreatePcs
  <2> QED BY <1>3, <1>4, <2>2, <2>3, <2>4, <2>5, <2>6 DEF Undisturbed, OnlySession
<1>12. RespectsCash(t)
  BY <1>1, <1>2, <1>4 DEF RespectsCash, AllLocksOf, LocksOf, AccountsTypeOK
<1> QED BY <1>4, <1>6, <1>7, <1>8, <1>9, <1>10, <1>11, <1>12, WriteKeeps

-----------------------------------------------------------------------------
(* The invariant of the component.                                         *)

LEMMA OrdersInitInv == OrdersInitAll => OrdersInv
<1> SUFFICES ASSUME OrdersInitAll
             PROVE  OrdersInv
  OBVIOUS
<1> USE OpeningAssumption, CatalogueAssumption, OrderTxAssumption
        DEF OrdersInitAll, AccountsInit, OrdersInit
<1>1. AccountsTypeOK
  BY DEF AccountsTypeOK
<1>2. OrdersTypeOK
  <2>1. "none" \notin Statuses /\ "failed" \in Statuses
    BY DEF Statuses
  <2>2. Idle \in Requests
    BY <2>1 DEF Idle, About, Requests
  <2>3. Nothing \in SeenValues
    BY DEF Nothing, SeenValues
  <2> HIDE DEF Idle, Nothing
  <2> QED BY <2>1, <2>2, <2>3 DEF OrdersTypeOK, SeenValues
<1>3. \A t \in OrderTx : SessionOK(t)
  BY DEF SessionOK, Addressed, OrderSeen, OwnsCash, OwnsBonus, Priced, OwnsPartner,
         CashPcs, PricedPcs, CreatePcs, RefundPcs, StatusPcs
<1>4. Reserved /\ SoldOpened /\ RefundsRecorded
  BY DEF Reserved, SoldOpened, RefundsRecorded, CreatePcs
<1>5. BooksAgree
  BY DEF BooksAgree, NoOverdraft, BalanceMatchesLedger, MerchantMatchesJournal
<1> QED BY <1>1, <1>2, <1>3, <1>4, <1>5 DEF OrdersInv

LEMMA OrderRequestKeeps ==
  ASSUME OrdersInv, NEW t \in OrderTx, OrderRequest(t)
  PROVE  Quiet(t) /\ OrdersInv'
<1>1. ASSUME NEW o \in OrderIds, NEW u \in Users, NEW f \in Offers, NEW points \in Points,
             BeginCreate(t, o, u, f, points)
      PROVE  Quiet(t) /\ OrdersInv'
  BY <1>1, BeginCreateKeeps
<1>2. ASSUME NEW o \in OrderIds, BeginRefund(t, o)
      PROVE  Quiet(t) /\ OrdersInv'
  <2>1. "refunded" \in Statuses /\ "readRefund" \in StatusPcs
    BY DEF Statuses, StatusPcs
  <2> QED BY <1>2, <2>1, BeginKeeps DEF BeginRefund, Goto
<1>3. ASSUME NEW o \in OrderIds, NEW target \in Statuses, NEW label \in {"confirm", "setStatus"},
             status[o] # "none", BeginStatus(t, o, label, target)
      PROVE  Quiet(t) /\ OrdersInv'
  <2>1. label \in StatusPcs
    BY <1>3 DEF StatusPcs
  <2> QED BY <1>3, <2>1, BeginKeeps DEF BeginStatus, Goto
<1>4. ASSUME NEW o \in OrderIds, AdminRefund(t, o) \/ RedeemReject(t, o)
      PROVE  Quiet(t) /\ OrdersInv'
  BY <1>2, <1>4 DEF AdminRefund, RedeemReject
<1>5. ASSUME NEW o \in OrderIds, ConfirmOrderPayment(t, o) \/ CancelOrder(t, o)
      PROVE  Quiet(t) /\ OrdersInv'
  <2>1. "paid" \in Statuses /\ "cancelled" \in Statuses
    BY DEF Statuses
  <2> QED BY <1>3, <1>5, <2>1 DEF ConfirmOrderPayment, CancelOrder
<1>6. ASSUME NEW o \in OrderIds, NEW target \in Statuses, UpdateOrderStatus(t, o, target)
      PROVE  Quiet(t) /\ OrdersInv'
  BY <1>3, <1>6 DEF UpdateOrderStatus
<1> QED BY <1>1, <1>4, <1>5, <1>6 DEF OrderRequest

\* The steps of a request that only lock and read, or give up.
QuietAction(t) ==
  \/ CreateLockCash(t) \/ CreateLockBonus(t) \/ CreateLockOffer(t)
  \/ CreateLockMerchant(t) \/ CreateMissMerchant(t) \/ TouchMerchant(t)
  \/ ReadRefund(t) \/ RefundLockCash(t) \/ RefundLockBonus(t)
  \/ RefundLockMerchant(t) \/ RefundDuplicate(t) \/ Rollback(t)

LEMMA QuietActionKeeps ==
  ASSUME OrdersInv, NEW t \in OrderTx, QuietAction(t)
  PROVE  Quiet(t) /\ OrdersInv'
<1>1. CASE \/ CreateLockCash(t) \/ CreateLockBonus(t) \/ CreateLockOffer(t)
           \/ CreateLockMerchant(t) \/ CreateMissMerchant(t) \/ TouchMerchant(t)
  BY <1>1, CreateLockCashKeeps, CreateLockBonusKeeps, CreateLockOfferKeeps,
     CreateLockMerchantKeeps, CreateMissMerchantKeeps, TouchMerchantKeeps
<1>2. CASE \/ ReadRefund(t) \/ RefundLockCash(t) \/ RefundLockBonus(t)
           \/ RefundLockMerchant(t) \/ RefundDuplicate(t) \/ Rollback(t)
  BY <1>2, ReadRefundKeeps, RefundLockCashKeeps, RefundLockBonusKeeps,
     RefundLockMerchantKeeps, RollbackKeeps DEF RefundDuplicate
<1> QED BY <1>1, <1>2 DEF QuietAction

LEMMA OrderStepKeeps ==
  ASSUME OrdersInv, NEW t \in OrderTx, OrderStep(t)
  PROVE  OrdersInv' /\ RespectsCash(t)
<1>1. CASE QuietAction(t)
  BY <1>1, QuietRespectsCash, QuietActionKeeps
<1>2. CASE OpenMerchant(t) \/ CommitCreate(t) \/ CommitRefund(t)
  BY <1>2, OpenMerchantKeeps, CommitCreateKeeps, CommitRefundKeeps
<1>3. CASE WriteStatus(t) \/ WriteConfirm(t) \/ UpsertAttendee(t)
  BY <1>3, WriteStatusKeeps, WriteConfirmKeeps, UpsertAttendeeKeeps
<1> QED BY <1>1, <1>2, <1>3 DEF OrderStep, QuietAction

LEMMA OrdersNextKeeps ==
  ASSUME OrdersInv, OrdersNext
  PROVE  /\ OrdersInv'
         /\ \A u \in Users : cashLock[u] \notin OrderTx \cup {Free} =>
              cashLock'[u] = cashLock[u] /\ cash'[u] = cash[u]
<1>1. ASSUME NEW t \in OrderTx, OrderRequest(t) \/ OrderStep(t) \/ Rollback(t)
      PROVE  OrdersInv' /\ RespectsCash(t)
  BY <1>1, OrderRequestKeeps, OrderStepKeeps, RollbackKeeps, QuietRespectsCash
<1>2. ASSUME NEW o \in OrderIds, MarkRedeemed(o)
      PROVE  OrdersInv' /\ UNCHANGED <<cash, cashLock>>
  BY <1>2, MarkRedeemedKeeps DEF MarkRedeemed, cashVars
<1> QED BY <1>1, <1>2 DEF OrdersNext, RespectsCash

\* What a step adds to a bonus account it also adds to its journal.
LEMMA BonusMovesWithLog ==
  ASSUME OrdersInv, OrdersNext
  PROVE  \A u \in Users : bonus'[u] - bonusLog'[u] = bonus[u] - bonusLog[u]
<1>1. bonus \in [Users -> Int] /\ bonusLog \in [Users -> Int]
  BY DEF OrdersInv, AccountsTypeOK
<1>2. ASSUME NEW v \in Users, NEW x \in Int,
             bonus' = [bonus EXCEPT ![v] = @ + x], bonusLog' = [bonusLog EXCEPT ![v] = @ + x]
      PROVE  \A u \in Users : bonus'[u] - bonusLog'[u] = bonus[u] - bonusLog[u]
  BY <1>1, <1>2
<1>3. ASSUME NEW t \in OrderTx, CommitCreate(t)
      PROVE  \A u \in Users : bonus'[u] - bonusLog'[u] = bonus[u] - bonusLog[u]
  <2> DEFINE v == req[t].user
             x == seen[t].used
             y == -x
  <2>1. v \in Users /\ x \in Nat /\ bonus' = [bonus EXCEPT ![v] = @ - x]
    BY <1>3, CommitCreateFacts
  <2>2. bonusLog' = [bonusLog EXCEPT ![v] = @ - x]
    BY <1>3, CommitCreateJournals
  <2> HIDE DEF v, x
  <2>3. y \in Int /\ bonus[v] - x = bonus[v] + y /\ bonusLog[v] - x = bonusLog[v] + y
    BY <1>1, <2>1
  <2> HIDE DEF y
  <2>4. bonus' = [bonus EXCEPT ![v] = @ + y] /\ bonusLog' = [bonusLog EXCEPT ![v] = @ + y]
    BY <2>1, <2>2, <2>3
  <2> QED BY <1>2, <2>1, <2>3, <2>4
<1>4. ASSUME NEW t \in OrderTx, CommitRefund(t)
      PROVE  \A u \in Users : bonus'[u] - bonusLog'[u] = bonus[u] - bonusLog[u]
  <2> DEFINE v == info[req[t].order].user
             x == info[req[t].order].bonus
  <2>1. v \in Users /\ x \in Nat /\ bonus' = [bonus EXCEPT ![v] = @ + x]
    BY <1>4, CommitRefundFacts
  <2>2. bonusLog' = [bonusLog EXCEPT ![v] = @ + x]
    BY <1>4, CommitRefundJournals
  <2> HIDE DEF v, x
  <2>3. x \in Int
    BY <2>1
  <2> QED BY <1>2, <2>1, <2>2, <2>3
<1>5. ASSUME NEW t \in OrderTx, OrderRequest(t) \/ QuietAction(t)
      PROVE  UNCHANGED <<bonus, bonusLog>>
  BY <1>5, OrderRequestKeeps, QuietActionKeeps DEF Quiet
<1>6. ASSUME NEW t \in OrderTx,
             OpenMerchant(t) \/ WriteStatus(t) \/ WriteConfirm(t) \/ UpsertAttendee(t)
      PROVE  UNCHANGED <<bonus, bonusLog>>
  BY <1>6 DEF OpenMerchant, WriteStatus, WriteConfirm, UpsertAttendee, bonusVars
<1>7. ASSUME NEW o \in OrderIds, MarkRedeemed(o)
      PROVE  UNCHANGED <<bonus, bonusLog>>
  BY <1>7 DEF MarkRedeemed, bonusVars
<1> QED BY <1>3, <1>4, <1>5, <1>6, <1>7 DEF OrdersNext, OrderStep, QuietAction

\* Steps of another component: they respect the locks of the accounts, keep
\* the ledger and the balance together, and overdraw nothing.
LEMMA OrdersEnvironment ==
  ASSUME OrdersInv, UNCHANGED orderVars,
         AccountsTypeOK', BalanceMatchesLedger', NoOverdraft',
         \A u \in Users : cashLock[u] \in OrderTx =>
           cashLock'[u] = cashLock[u] /\ cash'[u] = cash[u],
         \A u \in Users : bonusLock[u] \in OrderTx =>
           bonusLock'[u] = bonusLock[u] /\ bonus'[u] = bonus[u]
  PROVE  OrdersInv'
<1> USE DEF orderVars, rowVars, offerVars, merchVars
<1>1. OrdersTypeOK /\ AccountsTypeOK /\ SoldOpened /\ RefundsRecorded /\ BooksAgree /\ Reserved
  BY DEF OrdersInv
<1>2. OrdersTypeOK' /\ SoldOpened' /\ RefundsRecorded' /\ Reserved'
  BY <1>1 DEF OrdersTypeOK, SoldOpened, RefundsRecorded, Reserved, CompanyOf
<1>3. BooksAgree'
  BY <1>1 DEF BooksAgree, MerchantMatchesJournal
<1>4. ASSUME NEW t \in OrderTx
      PROVE  SessionOK(t)'
  <2>1. SessionOK(t)
    BY DEF OrdersInv
  <2>2. Undisturbed(t)
    BY <2>1 DEF Undisturbed, SessionOK, OrderSeen
  <2> QED BY <1>1, <2>1, <2>2, OwnStateKept
<1> QED BY <1>2, <1>3, <1>4 DEF OrdersInv

LEMMA OrdersInvariant == OrdersSpec => []OrdersInv
<1>1. OrdersInv /\ [OrdersNext]_<<orderVars, cashVars, bonusVars>> => OrdersInv'
  <2>1. ASSUME OrdersInv, OrdersNext
        PROVE  OrdersInv'
    BY <2>1, OrdersNextKeeps
  <2>2. ASSUME OrdersInv, UNCHANGED <<orderVars, cashVars, bonusVars>>
        PROVE  OrdersInv'
    <3>1. AccountsTypeOK' /\ BalanceMatchesLedger' /\ NoOverdraft'
      BY <2>2
      DEF OrdersInv, BooksAgree, cashVars, bonusVars, AccountsTypeOK, BalanceMatchesLedger,
          NoOverdraft
    <3> QED BY <2>2, <3>1, OrdersEnvironment DEF cashVars, bonusVars
  <2> QED BY <2>1, <2>2
<1> QED BY <1>1, OrdersInitInv, PTL DEF OrdersSpec

\* The books of the wallet, the bonus account and the partner agree with their
\* journals and nobody is overdrawn, for every number of concurrent purchases
\* and refunds (row locks taken by CreateOrder and RefundOrder).
THEOREM OrdersBooksAgree ==
  OrdersSpec => [](BalanceMatchesLedger /\ BonusMatchesLog /\ MerchantMatchesJournal /\ NoOverdraft)
<1>1. OrdersInv => BalanceMatchesLedger /\ MerchantMatchesJournal /\ NoOverdraft
  BY DEF OrdersInv, BooksAgree
<1>2. OrdersInitAll => BonusMatchesLog
  BY OpeningAssumption DEF OrdersInitAll, AccountsInit, BonusMatchesLog
<1>3. OrdersInv /\ OrdersInv' /\ BonusMatchesLog
        /\ [OrdersNext]_<<orderVars, cashVars, bonusVars>> => BonusMatchesLog'
  <2>1. ASSUME OrdersInv, OrdersInv', BonusMatchesLog, OrdersNext
        PROVE  BonusMatchesLog'
    <3>1. \A u \in Users : bonus'[u] - bonusLog'[u] = bonus[u] - bonusLog[u]
      BY <2>1, BonusMovesWithLog
    <3> QED BY <2>1, <3>1 DEF OrdersInv, AccountsTypeOK, BonusMatchesLog
  <2> QED BY <2>1 DEF bonusVars, BonusMatchesLog
<1> QED BY <1>1, <1>2, <1>3, OrdersInvariant, PTL DEF OrdersSpec

\* Every column, lock and session keeps its type, however the requests
\* interleave and wherever they roll back.
THEOREM OrdersTypesCorrect == OrdersSpec => []OrdersTypeOK
<1>1. OrdersInv => OrdersTypeOK
  BY DEF OrdersInv
<1> QED BY <1>1, OrdersInvariant, PTL

\* No purchase is made with money that another purchase of the same buyer has
\* spent (CreateOrder compares the price with the balance of the locked row).
THEOREM OrdersOverdrawNobody == OrdersSpec => []NoOverdraft
<1> QED BY OrdersBooksAgree, PTL

\* The bonus balance is the sum of its journal, although purchases and refunds
\* write it as a number read before (GetByUserIDForUpdate of the bonus account).
THEOREM OrdersBonusMatchesLog == OrdersSpec => []BonusMatchesLog
<1> QED BY OrdersBooksAgree, PTL

\* The balance of a partner whose account was there from the start is the sum
\* of its merchant_transactions (the locked row of CreateOrder, RefundOrder).
THEOREM OrdersMerchantMatchesJournal == OrdersSpec => []MerchantMatchesJournal
<1> QED BY OrdersBooksAgree, PTL

\* A refund of a partner's order is there when its entry is, and not twice.
LEMMA RefundedOnce ==
  ASSUME OrdersInv
  PROVE  PartnerRefundedOnce
<1>1. ASSUME NEW o \in OrderIds, status[o] # "none", CompanyOf(o) # NoCompany
      PROVE  refunds[o] =< 1
  <2>1. refunds[o] = IF <<o, "refund">> \in merchTx THEN 1 ELSE 0
    BY <1>1 DEF OrdersInv, RefundsRecorded
  <2> QED BY <2>1
<1> QED BY <1>1 DEF PartnerRefundedOnce, Exists

\* The money of a partner's order goes back at most once, however many refunds
\* race and whatever the status handlers wrote meanwhile (unique index over
\* order_id and type).
THEOREM OrdersPartnerRefundedOnce == OrdersSpec => []PartnerRefundedOnce
<1> QED BY RefundedOnce, OrdersInvariant, PTL
-----------------------------------------------------------------------------
(***************************************************************************)
(* That sessions never wait only for one another.  Rows are locked in one  *)
(* order: cash account, bonus account, offer, partner's account.           *)
(* LocksHeld says how far the session has come that holds a lock; so       *)
(* whoever waits at a row waits for a session that is past it, and the     *)
(* sessions furthest on wait for nobody.                                   *)
(***************************************************************************)

\* The steps of a session that may hold a bonus account, an offer, a partner's
\* account.
BonusPcs == PricedPcs \cup {"refundMerchant", "commitRefund"}
OfferPcs == {"createMerchant", "openMerchant", "touchMerchant", "commitCreate"}
PartnerPcs == {"commitCreate", "commitRefund"}

\* Whoever holds a row of the table is at one of the steps.
HeldAt(lock, Rows, steps) ==
  \A r \in Rows : lock[r] \in OrderTx => pc[lock[r]] \in steps

LocksHeld ==
  /\ HeldAt(cashLock, Users, CashPcs)
  /\ HeldAt(bonusLock, Users, BonusPcs)
  /\ HeldAt(offerLock, Offers, OfferPcs)
  /\ HeldAt(merchLock, Companies, PartnerPcs)

\* A step of session t keeps this if t takes a lock only on its way to one of
\* the steps, and leaves them only without a lock.
StepsWith(t, lock, newLock, Rows, steps) ==
  \A r \in Rows :
    /\ newLock[r] \in {lock[r], t, Free}
    /\ newLock[r] = t => pc'[t] \in steps

LEMMA HeldAtKept ==
  ASSUME NEW t \in OrderTx, NEW lock, NEW newLock, NEW Rows, NEW steps,
         \A r \in Rows : lock[r] \in OrderTx => pc[lock[r]] \in steps,
         \A s \in OrderTx \ {t} : pc'[s] = pc[s],
         StepsWith(t, lock, newLock, Rows, steps)
  PROVE  \A r \in Rows : newLock[r] \in OrderTx => pc'[newLock[r]] \in steps
BY OrderTxAssumption, FreeIsNoTx DEF StepsWith

\* What is to be shown of each step of a session.
KeepsOrder(t) ==
  /\ \A s \in OrderTx \ {t} : pc'[s] = pc[s]
  /\ StepsWith(t, cashLock, cashLock', Users, CashPcs)
  /\ StepsWith(t, bonusLock, bonusLock', Users, BonusPcs)
  /\ StepsWith(t, offerLock, offerLock', Offers, OfferPcs)
  /\ StepsWith(t, merchLock, merchLock', Companies, PartnerPcs)

LEMMA OrderKept ==
  ASSUME NEW t \in OrderTx, LocksHeld, KeepsOrder(t)
  PROVE  LocksHeld'
BY HeldAtKept DEF LocksHeld, HeldAt, KeepsOrder

\* A session that ends gives all its locks back.
LEMMA ReleasedKeepsOrder ==
  ASSUME OrdersInv, NEW t \in OrderTx, ReleaseAll(t), pc' = [pc EXCEPT ![t] = "idle"]
  PROVE  KeepsOrder(t)
BY OrderTxAssumption, FreeIsNoTx
DEF OrdersInv, OrdersTypeOK, AccountsTypeOK, ReleaseAll, Released, KeepsOrder, StepsWith

\* A session that locks nothing goes on only where its locks allow.
LEMMA UnlockedKeepsOrder ==
  ASSUME OrdersInv, LocksHeld, NEW t \in OrderTx, NEW to, pc' = [pc EXCEPT ![t] = to],
         UNCHANGED <<cashLock, bonusLock, offerLock, merchLock>>,
         pc[t] \in CashPcs => to \in CashPcs,
         pc[t] \in BonusPcs => to \in BonusPcs,
         pc[t] \in OfferPcs => to \in OfferPcs,
         pc[t] \in PartnerPcs => to \in PartnerPcs
  PROVE  KeepsOrder(t)
BY DEF OrdersInv, OrdersTypeOK, AccountsTypeOK, LocksHeld, HeldAt, KeepsOrder, StepsWith

LEMMA RequestKeepsOrder ==
  ASSUME OrdersInv, LocksHeld, NEW t \in OrderTx, OrderRequest(t)
  PROVE  KeepsOrder(t)
<1>1. /\ pc[t] = "idle"
      /\ UNCHANGED <<cashLock, bonusLock, offerLock, merchLock>>
      /\ \E to : pc' = [pc EXCEPT ![t] = to]
  BY DEF OrderRequest, BeginCreate, AdminRefund, RedeemReject, BeginRefund, ConfirmOrderPayment,
         CancelOrder, UpdateOrderStatus, BeginStatus, Goto, offerVars, merchVars, cashVars,
         bonusVars
<1> QED
  BY <1>1, UnlockedKeepsOrder
  DEF CashPcs, PricedPcs, BonusPcs, OfferPcs, PartnerPcs, CreatePcs

\* A table in which the session takes a row, on its way to one of the steps.
LEMMA TakenSteps ==
  ASSUME NEW t, NEW Rows, NEW lock \in [Rows -> Tx \cup {Free}], NEW newLock, NEW u, NEW steps,
         newLock = [lock EXCEPT ![u] = t], pc'[t] \in steps
  PROVE  StepsWith(t, lock, newLock, Rows, steps)
BY DEF StepsWith

\* A table the session does not touch.
LEMMA SameSteps ==
  ASSUME NEW t \in OrderTx, NEW lock, NEW newLock, NEW Rows, NEW steps,
         HeldAt(lock, Rows, steps), newLock = lock, pc[t] \in steps => pc'[t] \in steps
  PROVE  StepsWith(t, lock, newLock, Rows, steps)
BY DEF StepsWith, HeldAt

\* The steps at which a session waits for a row.
LEMMA LockKeepsOrder ==
  ASSUME OrdersInv, LocksHeld, NEW t \in OrderTx,
         \/ CreateLockCash(t) \/ CreateLockOffer(t) \/ CreateLockMerchant(t)
         \/ TouchMerchant(t) \/ RefundLockCash(t) \/ RefundLockBonus(t)
         \/ RefundLockMerchant(t)
  PROVE  KeepsOrder(t)
<1> USE DEF Goto, Acquire, offerVars, merchVars, cashVars, bonusVars
<1>1. /\ cashLock \in [Users -> Tx \cup {Free}] /\ bonusLock \in [Users -> Tx \cup {Free}]
      /\ offerLock \in [Offers -> Tx \cup {Free}] /\ merchLock \in [Companies -> Tx \cup {Free}]
      /\ DOMAIN pc = OrderTx
  BY DEF OrdersInv, OrdersTypeOK, AccountsTypeOK
<1>2. ASSUME NEW from, NEW to, pc[t] = from, pc' = [pc EXCEPT ![t] = to]
      PROVE  pc'[t] = to /\ \A s \in OrderTx \ {t} : pc'[s] = pc[s]
  BY <1>1, <1>2
<1>3. ASSUME NEW u, pc'[t] \in CashPcs, pc[t] \notin BonusPcs, pc[t] \notin OfferPcs,
             pc[t] \notin PartnerPcs, \A s \in OrderTx \ {t} : pc'[s] = pc[s],
             cashLock' = [cashLock EXCEPT ![u] = t],
             UNCHANGED <<bonusLock, offerLock, merchLock>>
      PROVE  KeepsOrder(t)
  BY <1>1, <1>3, TakenSteps, SameSteps DEF KeepsOrder, LocksHeld
<1>4. ASSUME NEW u, pc'[t] \in CashPcs, pc'[t] \in BonusPcs, pc[t] \notin OfferPcs,
             pc[t] \notin PartnerPcs, \A s \in OrderTx \ {t} : pc'[s] = pc[s],
             bonusLock' = [bonusLock EXCEPT ![u] = t],
             UNCHANGED <<cashLock, offerLock, merchLock>>
      PROVE  KeepsOrder(t)
  BY <1>1, <1>4, TakenSteps, SameSteps DEF KeepsOrder, LocksHeld
<1>5. ASSUME NEW f, pc'[t] \in CashPcs, pc'[t] \in BonusPcs, pc'[t] \in OfferPcs,
             pc[t] \notin PartnerPcs, \A s \in OrderTx \ {t} : pc'[s] = pc[s],
             offerLock' = [offerLock EXCEPT ![f] = t],
             UNCHANGED <<cashLock, bonusLock, merchLock>>
      PROVE  KeepsOrder(t)
  BY <1>1, <1>5, TakenSteps, SameSteps DEF KeepsOrder, LocksHeld
<1>6. ASSUME NEW c, pc'[t] \in CashPcs, pc'[t] \in BonusPcs, pc[t] \in OfferPcs => pc'[t] \in OfferPcs,
             pc'[t] \in PartnerPcs, \A s \in OrderTx \ {t} : pc'[s] = pc[s],
             merchLock' = [merchLock EXCEPT ![c] = t],
             UNCHANGED <<cashLock, bonusLock, offerLock>>
      PROVE  KeepsOrder(t)
  BY <1>1, <1>6, TakenSteps, SameSteps DEF KeepsOrder, LocksHeld
<1> USE DEF CashPcs, PricedPcs, BonusPcs, OfferPcs, PartnerPcs, CreatePcs
<1>7. CASE CreateLockCash(t) \/ RefundLockCash(t)
  <2>1. /\ pc[t] \in {"createCash", "refundCash"}
        /\ cashLock' = [cashLock EXCEPT ![req[t].user] = t]
        /\ UNCHANGED <<bonusLock, offerLock, merchLock>>
    BY <1>7 DEF CreateLockCash, RefundLockCash
  <2>2. \E to \in {"createBonus", "refundBonus", "refundMerchant", "commitRefund"} :
           pc' = [pc EXCEPT ![t] = to]
    BY <1>7 DEF CreateLockCash, RefundLockCash, AfterRefundBonus
  <2>3. /\ pc'[t] \in {"createBonus", "refundBonus", "refundMerchant", "commitRefund"}
        /\ \A s \in OrderTx \ {t} : pc'[s] = pc[s]
    BY <1>2, <2>2
  <2> QED
    BY <1>3, <2>1, <2>3
<1>8. CASE RefundLockBonus(t)
  <2>1. /\ pc[t] = "refundBonus"
        /\ bonusLock' = [bonusLock EXCEPT ![req[t].user] = t]
        /\ UNCHANGED <<cashLock, offerLock, merchLock>>
    BY <1>8 DEF RefundLockBonus
  <2>2. \E to \in {"refundMerchant", "commitRefund"} : pc' = [pc EXCEPT ![t] = to]
    BY <1>8 DEF RefundLockBonus, AfterRefundBonus
  <2>3. /\ pc'[t] \in {"refundMerchant", "commitRefund"}
        /\ \A s \in OrderTx \ {t} : pc'[s] = pc[s]
    BY <1>2, <2>2
  <2> QED
    BY <1>4, <2>1, <2>3
<1>9. CASE CreateLockOffer(t)
  <2>1. /\ pc[t] = "createOffer"
        /\ offerLock' = [offerLock EXCEPT ![req[t].offer] = t]
        /\ UNCHANGED <<cashLock, bonusLock, merchLock>>
    BY <1>9 DEF CreateLockOffer
  <2>2. \E to \in {"createMerchant", "commitCreate"} : pc' = [pc EXCEPT ![t] = to]
    BY <1>9 DEF CreateLockOffer
  <2>3. /\ pc'[t] \in {"createMerchant", "commitCreate"}
        /\ \A s \in OrderTx \ {t} : pc'[s] = pc[s]
    BY <1>2, <2>2
  <2> QED
    BY <1>5, <2>1, <2>3
<1>10. CASE CreateLockMerchant(t) \/ TouchMerchant(t) \/ RefundLockMerchant(t)
  <2>1. /\ merchLock' = [merchLock EXCEPT ![OfferCompany[req[t].offer]] = t]
        /\ UNCHANGED <<cashLock, bonusLock, offerLock>>
    BY <1>10 DEF CreateLockMerchant, TouchMerchant, RefundLockMerchant
  <2>2. \/ /\ pc[t] \in {"createMerchant", "touchMerchant"}
           /\ pc' = [pc EXCEPT ![t] = "commitCreate"]
        \/ /\ pc[t] = "refundMerchant"
           /\ pc' = [pc EXCEPT ![t] = "commitRefund"]
    BY <1>10 DEF CreateLockMerchant, TouchMerchant, RefundLockMerchant
  <2>3. /\ \/ pc[t] \in {"createMerchant", "touchMerchant"} /\ pc'[t] = "commitCreate"
           \/ pc[t] = "refundMerchant" /\ pc'[t] = "commitRefund"
        /\ \A s \in OrderTx \ {t} : pc'[s] = pc[s]
    BY <1>2, <2>2
  <2> QED
    BY <1>6, <2>1, <2>3
<1> QED
  BY <1>7, <1>8, <1>9, <1>10

LEMMA CreateLockBonusKeepsOrder ==
  ASSUME OrdersInv, LocksHeld, NEW t \in OrderTx, CreateLockBonus(t)
  PROVE  KeepsOrder(t)
<1>1. CASE ReleaseAll(t) /\ Forget(t)
  BY <1>1, ReleasedKeepsOrder DEF Forget
<1>2. CASE /\ pc' = [pc EXCEPT ![t] = "createOffer"]
           /\ bonusLock' = [bonusLock EXCEPT ![req[t].user] = t]
           /\ UNCHANGED <<cashLock, offerLock, merchLock>>
  <2>1. bonusLock \in [Users -> Tx \cup {Free}] /\ DOMAIN pc = OrderTx /\ pc[t] = "createBonus"
    BY DEF CreateLockBonus, OrdersInv, OrdersTypeOK, AccountsTypeOK
  <2>2. pc'[t] = "createOffer" /\ \A s \in OrderTx \ {t} : pc'[s] = pc[s]
    BY <1>2, <2>1
  <2>3. /\ pc'[t] \in CashPcs /\ pc'[t] \in BonusPcs
        /\ pc[t] \notin OfferPcs /\ pc[t] \notin PartnerPcs
    BY <2>1, <2>2 DEF CashPcs, PricedPcs, BonusPcs, OfferPcs, PartnerPcs, CreatePcs
  <2> QED
    BY <1>2, <2>1, <2>2, <2>3, TakenSteps, SameSteps DEF KeepsOrder, LocksHeld
<1> QED
  BY <1>1, <1>2 DEF CreateLockBonus

LEMMA StepKeepsOrder ==
  ASSUME OrdersInv, LocksHeld, NEW t \in OrderTx, OrderStep(t) \/ Rollback(t)
  PROVE  KeepsOrder(t)
<1> USE DEF CashPcs, PricedPcs, BonusPcs, OfferPcs, PartnerPcs, CreatePcs
<1>1. CASE CreateMissMerchant(t)
  BY <1>1, UnlockedKeepsOrder
  DEF CreateMissMerchant, Goto, offerVars, merchVars, cashVars, bonusVars
<1>2. CASE OpenMerchant(t)
  <2>1. CASE ReleaseAll(t) /\ Forget(t)
    BY <2>1, ReleasedKeepsOrder DEF Forget
  <2>2. CASE /\ pc' = [pc EXCEPT ![t] = "touchMerchant"]
             /\ UNCHANGED <<cashLock, bonusLock, offerLock, merchLock>>
    BY <1>2, <2>2, UnlockedKeepsOrder DEF OpenMerchant
  <2> QED
    BY <1>2, <2>1, <2>2 DEF OpenMerchant
<1>3. CASE ReadRefund(t) \/ WriteStatus(t) \/ WriteConfirm(t) \/ UpsertAttendee(t)
  <2>1. /\ pc[t] \in {"readRefund", "setStatus", "confirm", "attend"}
        /\ UNCHANGED <<cashLock, bonusLock, offerLock, merchLock>>
        /\ \E to : pc' = [pc EXCEPT ![t] = to]
    BY <1>3 DEF ReadRefund, WriteStatus, WriteConfirm, UpsertAttendee, Forget, offerVars,
                merchVars, cashVars, bonusVars
  <2> QED
    BY <2>1, UnlockedKeepsOrder
<1>4. CASE CommitCreate(t) \/ CommitRefund(t) \/ RefundDuplicate(t) \/ Rollback(t)
  BY <1>4, ReleasedKeepsOrder DEF CommitCreate, CommitRefund, RefundDuplicate, Rollback, Forget
<1> QED
  BY <1>1, <1>2, <1>3, <1>4, LockKeepsOrder, CreateLockBonusKeepsOrder DEF OrderStep

LEMMA LocksHeldKept ==
  ASSUME OrdersInv, LocksHeld, [OrdersNext]_<<orderVars, cashVars, bonusVars>>
  PROVE  LocksHeld'
<1>1. CASE UNCHANGED <<pc, cashLock, bonusLock, offerLock, merchLock>>
  BY <1>1 DEF LocksHeld, HeldAt
<1>2. ASSUME NEW o \in OrderIds, MarkRedeemed(o) PROVE LocksHeld'
  BY <1>1, <1>2 DEF MarkRedeemed, offerVars, merchVars, cashVars, bonusVars
<1>3. CASE UNCHANGED <<orderVars, cashVars, bonusVars>>
  BY <1>1, <1>3 DEF orderVars, offerVars, merchVars, cashVars, bonusVars
<1>4. ASSUME NEW t \in OrderTx, OrderRequest(t) \/ OrderStep(t) \/ Rollback(t) PROVE LocksHeld'
  BY <1>4, RequestKeepsOrder, StepKeepsOrder, OrderKept
<1> QED
  BY <1>2, <1>3, <1>4 DEF OrdersNext
-----------------------------------------------------------------------------
\* Among sessions that wait only for one another nobody could wait for a
\* partner's account, hence nobody for an offer, a bonus or a cash account.
LEMMA NobodyWaits ==
  ASSUME OrdersInv, LocksHeld
  PROVE  NoCircularWait
<1> SUFFICES ASSUME NEW T \in (SUBSET OrderTx) \ {{}}, \A t \in T : WaitsFor(t) \in T
             PROVE  FALSE
  BY DEF NoCircularWait
<1>0. T # {}
  OBVIOUS
<1> USE OrderTxAssumption, FreeIsNoTx, CatalogueAssumption
        DEF CashPcs, PricedPcs, BonusPcs, OfferPcs, PartnerPcs, CreatePcs, RefundPcs
<1>1. ASSUME NEW t \in T
      PROVE  /\ pc[t] \in CreatePcs \cup RefundPcs => req[t].user \in Users /\ req[t].offer \in Offers
             /\ pc[t] \in {"createMerchant", "touchMerchant", "refundMerchant"} =>
                  OfferCompany[req[t].offer] \in Companies
  BY DEF OrdersInv, SessionOK, Addressed, OwnsPartner
<1>2. \A t \in T : pc[t] \in (CreatePcs \cup RefundPcs) \ {"openMerchant", "commitCreate", "commitRefund"}
  BY DEF WaitsFor
<1>3. \A t \in T : pc[t] \notin {"createMerchant", "touchMerchant", "refundMerchant"}
  BY <1>1, <1>2 DEF WaitsFor, LocksHeld, HeldAt
<1>4. \A t \in T : pc[t] # "createOffer"
  BY <1>1, <1>2, <1>3 DEF WaitsFor, LocksHeld, HeldAt
<1>5. \A t \in T : pc[t] \notin {"createBonus", "refundBonus"}
  BY <1>1, <1>2, <1>3, <1>4 DEF WaitsFor, LocksHeld, HeldAt
<1>6. \A t \in T : pc[t] \notin {"createCash", "refundCash"}
  BY <1>1, <1>2, <1>3, <1>4, <1>5 DEF WaitsFor, LocksHeld, HeldAt
<1>7. T = {}
  <2> SUFFICES ASSUME NEW t \in T PROVE FALSE
    OBVIOUS
  <2> QED
    BY <1>2, <1>3, <1>4, <1>5, <1>6
<1> QED
  BY <1>0, <1>7

\* Sessions of CreateOrder, RefundOrder and the status handlers never wait
\* only for one another, however many there are (the order in which they lock
\* rows).
THEOREM OrdersNeverDeadlock == OrdersSpec => []NoCircularWait
<1>1. OrdersInitAll => LocksHeld
  BY OrderTxAssumption, FreeIsNoTx
  DEF OrdersInitAll, AccountsInit, OrdersInit, LocksHeld, HeldAt
<1>2. OrdersInv /\ LocksHeld /\ [OrdersNext]_<<orderVars, cashVars, bonusVars>> => LocksHeld'
  BY LocksHeldKept
<1>3. OrdersInv /\ LocksHeld => NoCircularWait
  BY NobodyWaits
<1> QED
  BY <1>1, <1>2, <1>3, OrdersInvariant, PTL DEF OrdersSpec
=============================================================================
