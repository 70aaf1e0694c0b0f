------------------------------- MODULE Orders -------------------------------
(***************************************************************************)
(* Orders of offers and tickets (usecase/order.go and the till of the      *)
(* partner's cabinet).  CreateOrder takes the money at once, in a          *)
(* transaction that locks the buyer's cash account, the bonus account, the *)
(* offer and the partner's account, in that order; RefundOrder gives it    *)
(* back in another.  Between them the status of the order is moved by      *)
(* handlers that read it without a lock and overwrite it in a second       *)
(* statement: confirmation, cancellation and the admin's status change.    *)
(* Only the till (MarkRedeemed) moves it by a conditional UPDATE.          *)
(* Offers stay published and in their term here: nothing of this module    *)
(* reads an offer after CreateOrder has checked that.                      *)
(*                                                                         *)
(* Amounts are kopecks and every amount that enters is a multiple of       *)
(* fifty, so that the commission of 2 % is a whole number of kopecks; how  *)
(* other amounts are rounded to DECIMAL(12,2) is not modelled here.        *)
(***************************************************************************)
EXTENDS Accounts, FiniteSetsExt

CONSTANTS
  OrderTx,          \* the sessions that serve requests about orders
  OrderIds,         \* ids of the orders table
  Offers, Companies,
  NoCompany,        \* the company of an event held by a student
  NoOrder,          \* a session that serves no order, a guest without a ticket
  OfferCompany,     \* offers.company_id
  IsEvent,          \* offers.is_event
  Price,            \* price after the discount (special price of an event)
  BonusCap,         \* the part of it that may be paid with bonus points
  Points,           \* what buyers may ask to pay with points
  OpenedAtStart,    \* companies that have a merchant_accounts row at the start
  MaxRefunds        \* bound: a paid order refunded this often is not refunded again

ASSUME OrderTxAssumption == OrderTx \subseteq Tx
ASSUME NullAssumption == NoCompany \notin Companies /\ NoOrder \notin OrderIds
ASSUME CatalogueAssumption ==
  /\ OfferCompany \in [Offers -> Companies \cup {NoCompany}]
  /\ IsEvent \in [Offers -> BOOLEAN]
  /\ Price \in [Offers -> Nat]
  /\ BonusCap \in [Offers -> Nat]
  /\ \A f \in Offers : BonusCap[f] =< Price[f]
  /\ Points \subseteq Int
  /\ OpenedAtStart \subseteq Companies
  /\ MaxRefunds \in Nat

VARIABLES
  status,     \* orders.status, "none" for a row not yet inserted
  info,       \* the columns of an order CreateOrder fills in for good
  redeemed,   \* orders whose redeemed_at is set
  refunds,    \* number of ledger transactions of type refund for the order
  attendee,   \* event_attendees: the order by which a user is going, if any
  uses,       \* offers.current_uses
  offerLock,  \* the session whose transaction holds the offers row
  opened,     \* companies that have a merchant_accounts row
  merchant,   \* merchant_accounts.balance
  merchLog,   \* sum of the merchant_transactions of the company
  merchTx,    \* the (order_id, type) pairs of merchant_transactions
  merchLock,  \* the session whose transaction holds the merchant_accounts row
  pc,         \* where the request served by a session stands
  req,        \* its parameters
  seen        \* what it read under its locks

rowVars == <<status, info, redeemed, refunds, attendee>>
offerVars == <<uses, offerLock>>
merchVars == <<opened, merchant, merchLog, merchTx, merchLock>>
orderVars == <<rowVars, offerVars, merchVars, pc, req, seen>>

Statuses == {"created", "paid", "completed", "cancelled", "refunded", "failed"}

\* ValidOrderTransitions.
NextStatuses ==
  [s \in Statuses |->
     CASE s = "created"   -> {"paid", "cancelled", "failed"}
       [] s = "paid"      -> {"completed", "refunded"}
       [] s = "completed" -> {"refunded"}
       [] OTHER           -> {}]

Commission(total) == total \div 50
Earning(total) == total - Commission(total)

OrderInfo == [user : Users, offer : Offers, total : Nat, bonus : Nat]
CompanyOf(o) == OfferCompany[info[o].offer]

\* Bonus points CreateOrder lets the buyer use: the wish, capped by the share
\* of the price and by the bonus balance, and never negative.
BonusUsed(f, wish, balance) ==
  LET capped == IF wish > BonusCap[f] THEN BonusCap[f] ELSE wish
      used == IF capped > balance THEN balance ELSE capped
  IN  IF used < 0 THEN 0 ELSE used

\* A request that names an order and a status, and one that names nothing.
About(o, target) ==
  [order |-> o, user |-> Free, offer |-> Free, points |-> 0, target |-> target]
Idle == About(NoOrder, "failed")
Nothing == [cash |-> 0, bonus |-> 0, merchant |-> 0, total |-> 0, used |-> 0]

OrdersInit ==
  /\ status = [o \in OrderIds |-> "none"]
  /\ info = [o \in OrderIds |-> Idle]
  /\ redeemed = {}
  /\ refunds = [o \in OrderIds |-> 0]
  /\ attendee = [u \in Users |-> [f \in Offers |-> NoOrder]]
  /\ uses = [f \in Offers |-> 0]
  /\ offerLock = [f \in Offers |-> Free]
  /\ opened = OpenedAtStart
  /\ merchant = [c \in Companies |-> 0]
  /\ merchLog = [c \in Companies |-> 0]
  /\ merchTx = {}
  /\ merchLock = [c \in Companies |-> Free]
  /\ pc = [t \in OrderTx |-> "idle"]
  /\ req = [t \in OrderTx |-> Idle]
  /\ seen = [t \in OrderTx |-> Nothing]

Goto(t, from, to) == pc[t] = from /\ pc' = [pc EXCEPT ![t] = to]

\* The handler returns and forgets what it knew.
Forget(t) ==
  /\ pc' = [pc EXCEPT ![t] = "idle"]
  /\ req' = [req EXCEPT ![t] = Idle]
  /\ seen' = [seen EXCEPT ![t] = Nothing]

\* Variant for mutation: a transaction ends and the bonus account stays locked.
ReleaseAllButBonus(t) ==
  /\ cashLock' = Released(cashLock, t)
  /\ offerLock' = Released(offerLock, t)
  /\ merchLock' = Released(merchLock, t)
  /\ UNCHANGED bonusLock

\* The transaction of session t ends, by COMMIT or by ROLLBACK.
ReleaseAll(t) ==
  /\ cashLock' = Released(cashLock, t)
  /\ bonusLock' = Released(bonusLock, t)
  /\ offerLock' = Released(offerLock, t)
  /\ merchLock' = Released(merchLock, t)

\* The deferred Rollback after an error, a cancelled request, a lost connection
\* or a crash: nothing of the transaction remains.  What was written outside
\* it (an opened merchant account, a status) does.
Rollback(t) ==
  /\ pc[t] # "idle"
  /\ ReleaseAll(t)
  /\ Forget(t)
  /\ UNCHANGED <<rowVars, uses, opened, merchant, merchLog, merchTx,
                 cash, cashLog, bonus, bonusLog>>
-----------------------------------------------------------------------------
(* CreateOrder                                                             *)

\* The offer has been found published and in its term; the id the INSERT will
\* draw from the sequence is fixed here.
BeginCreate(t, o, u, f, points) ==
  /\ Goto(t, "idle", "createCash")
  /\ status[o] = "none" /\ \A s \in OrderTx : req[s].order # o
  /\ req' = [req EXCEPT ![t] = [order |-> o, user |-> u, offer |-> f,
                                points |-> points, target |-> "created"]]
  /\ UNCHANGED <<rowVars, offerVars, merchVars, seen, cashVars, bonusVars>>

\* Variant for mutation: the cash account is read without FOR UPDATE.
CreateReadCash(t) ==
  /\ Goto(t, "createCash", "createBonus")
  /\ seen' = [seen EXCEPT ![t].cash = cash[req[t].user]]
  /\ UNCHANGED <<rowVars, offerVars, merchVars, req, cashVars, bonusVars>>

CreateLockCash(t) ==
  /\ Goto(t, "createCash", "createBonus")
  /\ Acquire(cashLock, req[t].user, t)
  /\ seen' = [seen EXCEPT ![t].cash = cash[req[t].user]]
  /\ UNCHANGED <<rowVars, offerVars, merchVars, req, cash, cashLog, bonusVars>>

\* Variant for mutation: the balance is not compared with the price.
CreateLockBonusOnCredit(t) ==
  LET u == req[t].user
      used == BonusUsed(req[t].offer, req[t].points, bonus[u])
  IN  /\ Goto(t, "createBonus", "createOffer")
      /\ Acquire(bonusLock, u, t)
      /\ seen' = [seen EXCEPT ![t].bonus = bonus[u], ![t].used = used,
                              ![t].total = Price[req[t].offer] - used]
      /\ UNCHANGED <<rowVars, offerVars, merchVars, req, cashVars, bonus, bonusLog>>

\* With both balances locked the price is settled; ErrInsufficientBalance
\* rolls back.
CreateLockBonus(t) ==
  LET u == req[t].user
      used == BonusUsed(req[t].offer, req[t].points, bonus[u])
      total == Price[req[t].offer] - used
  IN  /\ pc[t] = "createBonus"
      /\ bonusLock[u] = Free
      /\ \/ /\ total =< seen[t].cash
            /\ pc' = [pc EXCEPT ![t] = "createOffer"]
            /\ bonusLock' = [bonusLock EXCEPT ![u] = t]
            /\ seen' = [seen EXCEPT ![t].bonus = bonus[u],
                                    ![t].total = total, ![t].used = used]
            /\ UNCHANGED <<req, cashLock, offerLock, merchLock>>
         \/ /\ total > seen[t].cash
            /\ ReleaseAll(t)
            /\ Forget(t)
      /\ UNCHANGED <<rowVars, uses, opened, merchant, merchLog, merchTx,
                     cash, cashLog, bonus, bonusLog>>

\* IncrementUsesTx: the UPDATE locks the offers row until COMMIT.
CreateLockOffer(t) ==
  LET f == req[t].offer
  IN  /\ Goto(t, "createOffer",
              IF OfferCompany[f] = NoCompany THEN "commitCreate" ELSE "createMerchant")
      /\ Acquire(offerLock, f, t)
      /\ UNCHANGED <<rowVars, uses, merchVars, req, seen, cashVars, bonusVars>>

\* GetByCompanyIDTx finds the partner's account and locks it ...
CreateLockMerchant(t) ==
  LET c == OfferCompany[req[t].offer]
  IN  /\ Goto(t, "createMerchant", "commitCreate")
      /\ c \in opened
      /\ Acquire(merchLock, c, t)
      /\ seen' = [seen EXCEPT ![t].merchant = merchant[c]]
      /\ UNCHANGED <<rowVars, offerVars, opened, merchant, merchLog, merchTx, req,
                     cashVars, bonusVars>>

\* ... or finds none.
CreateMissMerchant(t) ==
  /\ Goto(t, "createMerchant", "openMerchant")
  /\ OfferCompany[req[t].offer] \notin opened
  /\ UNCHANGED <<rowVars, offerVars, merchVars, req, seen, cashVars, bonusVars>>

\* merchantAccountRepo.Create runs on the pool, outside the transaction: the
\* row is there for everybody at once and is not locked.  company_id is
\* UNIQUE, so if someone else opened the account first the order fails.
OpenMerchant(t) ==
  LET c == OfferCompany[req[t].offer]
  IN  /\ pc[t] = "openMerchant"
      /\ \/ /\ c \notin opened
            /\ opened' = opened \cup {c}
            /\ merchant' = [merchant EXCEPT ![c] = 0]
            /\ pc' = [pc EXCEPT ![t] = "touchMerchant"]
            /\ seen' = [seen EXCEPT ![t].merchant = 0]
            /\ UNCHANGED <<req, cashLock, bonusLock, offerLock, merchLock>>
         \/ /\ c \in opened
            /\ ReleaseAll(t)
            /\ Forget(t)
            /\ UNCHANGED <<opened, merchant>>
      /\ UNCHANGED <<rowVars, uses, merchLog, merchTx, cash, cashLog, bonus, bonusLog>>

\* UpdateBalanceTx of an account that was just opened is what locks it.
TouchMerchant(t) ==
  /\ Goto(t, "touchMerchant", "commitCreate")
  /\ Acquire(merchLock, OfferCompany[req[t].offer], t)
  /\ UNCHANGED <<rowVars, offerVars, opened, merchant, merchLog, merchTx, req, seen,
                 cashVars, bonusVars>>

CommitCreate(t) ==
  LET o == req[t].order
      u == req[t].user
      f == req[t].offer
      c == OfferCompany[f]
      total == seen[t].total
      used == seen[t].used
  IN  /\ pc[t] = "commitCreate"
      /\ status' = [status EXCEPT ![o] = "created"]
      /\ info' = [info EXCEPT ![o] = [user |-> u, offer |-> f, total |-> total, bonus |-> used]]
      /\ uses' = [uses EXCEPT ![f] = @ + 1]
      /\ PostCash(u, seen[t].cash - total, -total)
      /\ IF used > 0 THEN PostBonus(u, seen[t].bonus - used, -used)
                     ELSE UNCHANGED <<bonus, bonusLog>>
      /\ IF c # NoCompany
         THEN /\ merchant' = [merchant EXCEPT ![c] = seen[t].merchant + Earning(total)]
              /\ merchLog' = [merchLog EXCEPT ![c] = @ + Earning(total)]
              /\ merchTx' = merchTx \cup {<<o, "order_earning">>}
         ELSE UNCHANGED <<merchant, merchLog, merchTx>>
      /\ ReleaseAll(t)
      /\ Forget(t)
      /\ UNCHANGED <<redeemed, refunds, attendee, opened>>
-----------------------------------------------------------------------------
(* RefundOrder                                                             *)

BeginRefund(t, o) ==
  /\ Goto(t, "idle", "readRefund")
  /\ status[o] # "none"
  /\ status[o] \in {"paid", "completed"} => refunds[o] < MaxRefunds
  /\ req' = [req EXCEPT ![t] = About(o, "refunded")]
  /\ UNCHANGED <<rowVars, offerVars, merchVars, seen, cashVars, bonusVars>>

\* POST /orders/{id}/refund of the admin.
AdminRefund(t, o) == BeginRefund(t, o)

\* RedeemReject of the till: a look at the order, then the same refund.
RedeemReject(t, o) ==
  /\ status[o] = "paid" /\ CompanyOf(o) # NoCompany
  /\ BeginRefund(t, o)

\* Variants for mutation: the status is not checked; what is given back is the
\* price of the offer and not what the student paid.
ReadRefundUnchecked(t) ==
  LET o == req[t].order
  IN  /\ Goto(t, "readRefund", "refundCash")
      /\ req' = [req EXCEPT ![t].user = info[o].user, ![t].offer = info[o].offer]
      /\ seen' = [seen EXCEPT ![t].total = info[o].total, ![t].used = info[o].bonus]
      /\ UNCHANGED <<rowVars, offerVars, merchVars, cashVars, bonusVars>>

ReadRefundByPrice(t) ==
  LET o == req[t].order
  IN  /\ Goto(t, "readRefund", "refundCash")
      /\ status[o] \in {"paid", "completed"}
      /\ req' = [req EXCEPT ![t].user = info[o].user, ![t].offer = info[o].offer]
      /\ seen' = [seen EXCEPT ![t].total = Price[info[o].offer], ![t].used = info[o].bonus]
      /\ UNCHANGED <<rowVars, offerVars, merchVars, cashVars, bonusVars>>

\* Inside the transaction but on the pool and without a lock: GetByID and the
\* check that the order is paid or completed.
ReadRefund(t) ==
  LET o == req[t].order
  IN  /\ pc[t] = "readRefund"
      /\ \/ /\ status[o] \in {"paid", "completed"}
            /\ pc' = [pc EXCEPT ![t] = "refundCash"]
            /\ req' = [req EXCEPT ![t].user = info[o].user, ![t].offer = info[o].offer]
            /\ seen' = [seen EXCEPT ![t].total = info[o].total, ![t].used = info[o].bonus]
         \/ /\ status[o] \notin {"paid", "completed"}
            /\ Forget(t)
      /\ UNCHANGED <<rowVars, offerVars, merchVars, cashVars, bonusVars>>

\* Variant for mutation: the partner keeps the earning of a refunded order.
AfterRefundBonusNoDebit(t) == "commitRefund"

\* After the student's accounts comes the partner's, if there is one.
AfterRefundBonus(t) ==
  IF OfferCompany[req[t].offer] \in opened THEN "refundMerchant" ELSE "commitRefund"

\* Variant for mutation: the partner's account is locked before the wallet (for
\* the orders that have a partner).
RefundLockPartnerFirst(t) ==
  LET u == req[t].user
      c == OfferCompany[req[t].offer]
  IN  /\ pc[t] = "refundCash"
      /\ c # NoCompany
      /\ \/ /\ merchLock[c] # t
            /\ Acquire(merchLock, c, t)
            /\ UNCHANGED <<pc, seen, cashLock>>
         \/ /\ merchLock[c] = t
            /\ Acquire(cashLock, u, t)
            /\ pc' = [pc EXCEPT ![t] = "commitRefund"]
            /\ seen' = [seen EXCEPT ![t].cash = cash[u], ![t].merchant = merchant[c]]
            /\ UNCHANGED merchLock
      /\ UNCHANGED <<rowVars, offerVars, opened, merchant, merchLog, merchTx, req,
                     cash, cashLog, bonusVars>>

\* The student's wallet, then the bonus account if points were spent.
RefundLockCash(t) ==
  /\ Goto(t, "refundCash", IF seen[t].used > 0 THEN "refundBonus" ELSE AfterRefundBonus(t))
  /\ Acquire(cashLock, req[t].user, t)
  /\ seen' = [seen EXCEPT ![t].cash = cash[req[t].user]]
  /\ UNCHANGED <<rowVars, offerVars, merchVars, req, cash, cashLog, bonusVars>>

RefundLockBonus(t) ==
  /\ Goto(t, "refundBonus", AfterRefundBonus(t))
  /\ Acquire(bonusLock, req[t].user, t)
  /\ seen' = [seen EXCEPT ![t].bonus = bonus[req[t].user]]
  /\ UNCHANGED <<rowVars, offerVars, merchVars, req, cashVars, bonus, bonusLog>>

\* Variant for mutation: the partner's account is read without FOR UPDATE.
RefundReadMerchant(t) ==
  /\ Goto(t, "refundMerchant", "commitRefund")
  /\ merchLock' = [merchLock EXCEPT ![OfferCompany[req[t].offer]] = t]
  /\ seen' = [seen EXCEPT ![t].merchant = merchant[OfferCompany[req[t].offer]]]
  /\ UNCHANGED <<rowVars, offerVars, opened, merchant, merchLog, merchTx, req,
                 cashVars, bonusVars>>

\* The partner's account is debited only if it exists: an order of an event
\* held by a student has none.
RefundLockMerchant(t) ==
  LET c == OfferCompany[req[t].offer]
  IN  /\ Goto(t, "refundMerchant", "commitRefund")
      /\ Acquire(merchLock, c, t)
      /\ seen' = [seen EXCEPT ![t].merchant = merchant[c]]
      /\ UNCHANGED <<rowVars, offerVars, opened, merchant, merchLog, merchTx, req,
                     cashVars, bonusVars>>

\* The status is overwritten whatever it has become.  UNIQUE (order_id, type)
\* lets the refund of a partner's order be committed once.
CommitRefund(t) ==
  LET o == req[t].order
      u == req[t].user
      c == OfferCompany[req[t].offer]
      total == seen[t].total
      used == seen[t].used
  IN  /\ pc[t] = "commitRefund"
      /\ <<o, "refund">> \notin merchTx
      /\ status' = [status EXCEPT ![o] = "refunded"]
      /\ refunds' = [refunds EXCEPT ![o] = @ + 1]
      /\ PostCash(u, seen[t].cash + total, total)
      /\ IF used > 0 THEN PostBonus(u, seen[t].bonus + used, used)
                     ELSE UNCHANGED <<bonus, bonusLog>>
      /\ IF c # NoCompany /\ merchLock[c] = t
         THEN /\ merchant' = [merchant EXCEPT ![c] = seen[t].merchant - Earning(total)]
              /\ merchLog' = [merchLog EXCEPT ![c] = @ - Earning(total)]
              /\ merchTx' = merchTx \cup {<<o, "refund">>}
         ELSE UNCHANGED <<merchant, merchLog, merchTx>>
      /\ ReleaseAll(t)
      /\ Forget(t)
      /\ UNCHANGED <<info, redeemed, attendee, uses, opened>>

\* The INSERT of the second refund of a partner's order violates the index.
RefundDuplicate(t) ==
  /\ pc[t] = "commitRefund"
  /\ <<req[t].order, "refund">> \in merchTx
  /\ Rollback(t)
-----------------------------------------------------------------------------
(* Status changes by read, check and unconditional UPDATE                  *)

\* The order is read without a lock and found fit to become `target`.
BeginStatus(t, o, label, target) ==
  /\ Goto(t, "idle", label)
  /\ req' = [req EXCEPT ![t] = About(o, target)]
  /\ UNCHANGED <<rowVars, offerVars, merchVars, seen, cashVars, bonusVars>>

ConfirmOrderPayment(t, o) ==
  status[o] = "created" /\ BeginStatus(t, o, "confirm", "paid")

\* Variant for mutation: a paid order can be cancelled like an unpaid one.
CancelOrderPaid(t, o) ==
  status[o] \in {"created", "paid"} /\ BeginStatus(t, o, "setStatus", "cancelled")

CancelOrder(t, o) ==
  status[o] = "created" /\ BeginStatus(t, o, "setStatus", "cancelled")

\* PUT /orders/{id}/status of the admin, by the table of transitions.
UpdateOrderStatus(t, o, target) ==
  /\ status[o] # "none" /\ target \in NextStatuses[status[o]]
  /\ BeginStatus(t, o, "setStatus", target)

\* Variant for mutation: the handler's spelling of a status gets into the table.
WriteStatusMisspelt(t) ==
  /\ pc[t] = "setStatus"
  /\ status' = [status EXCEPT ![req[t].order] =
                   IF req[t].target = "cancelled" THEN "canceled" ELSE req[t].target]
  /\ Forget(t)
  /\ UNCHANGED <<info, redeemed, refunds, attendee, offerVars, merchVars, cashVars, bonusVars>>

\* UPDATE orders SET status = ... WHERE id = ...
WriteStatus(t) ==
  /\ pc[t] = "setStatus"
  /\ status' = [status EXCEPT ![req[t].order] = req[t].target]
  /\ Forget(t)
  /\ UNCHANGED <<info, redeemed, refunds, attendee, offerVars, merchVars, cashVars, bonusVars>>

\* The same UPDATE of a confirmation; a ticket then has the guest written down.
WriteConfirm(t) ==
  LET o == req[t].order
  IN  /\ pc[t] = "confirm"
      /\ status' = [status EXCEPT ![o] = "paid"]
      /\ IF IsEvent[info[o].offer]
         THEN pc' = [pc EXCEPT ![t] = "attend"] /\ UNCHANGED <<req, seen>>
         ELSE Forget(t)
      /\ UNCHANGED <<info, redeemed, refunds, attendee, offerVars, merchVars, cashVars, bonusVars>>

\* attendeeRepo.Upsert(going, order_id); its error is ignored.
UpsertAttendee(t) ==
  LET o == req[t].order
  IN  /\ pc[t] = "attend"
      /\ attendee' = [attendee EXCEPT ![info[o].user][info[o].offer] = o]
      /\ Forget(t)
      /\ UNCHANGED <<status, info, redeemed, refunds, offerVars, merchVars, cashVars, bonusVars>>

\* Variant for mutation: the UPDATE of the till is not conditional.
MarkRedeemedAnyway(o) ==
  /\ status[o] # "none" /\ CompanyOf(o) # NoCompany
  /\ status' = [status EXCEPT ![o] = "completed"]
  /\ redeemed' = redeemed \cup {o}
  /\ UNCHANGED <<info, refunds, attendee, offerVars, merchVars, pc, req, seen, cashVars, bonusVars>>

\* The till: Redeem looks at the order first and MarkRedeemed updates it WHERE
\* status = 'paid', so that only the state at the UPDATE counts.
MarkRedeemed(o) ==
  /\ status[o] = "paid" /\ CompanyOf(o) # NoCompany
  /\ status' = [status EXCEPT ![o] = "completed"]
  /\ redeemed' = redeemed \cup {o}
  /\ UNCHANGED <<info, refunds, attendee, offerVars, merchVars, pc, req, seen, cashVars, bonusVars>>
-----------------------------------------------------------------------------
\* What a request does by itself once it has begun.
OrderStep(t) ==
  \/ CreateLockCash(t) \/ CreateLockBonus(t) \/ CreateLockOffer(t)
  \/ CreateLockMerchant(t) \/ CreateMissMerchant(t) \/ OpenMerchant(t)
  \/ TouchMerchant(t) \/ CommitCreate(t)
  \/ ReadRefund(t) \/ RefundLockCash(t) \/ RefundLockBonus(t)
  \/ RefundLockMerchant(t) \/ CommitRefund(t) \/ RefundDuplicate(t)
  \/ WriteStatus(t) \/ WriteConfirm(t) \/ UpsertAttendee(t)

OrderRequest(t) ==
  \/ \E o \in OrderIds, u \in Users, f \in Offers, points \in Points :
        BeginCreate(t, o, u, f, points)
  \/ \E o \in OrderIds :
        \/ AdminRefund(t, o) \/ RedeemReject(t, o)
        \/ ConfirmOrderPayment(t, o) \/ CancelOrder(t, o)
        \/ \E target \in Statuses : UpdateOrderStatus(t, o, target)

OrdersNext ==
  \/ \E t \in OrderTx : OrderRequest(t) \/ OrderStep(t) \/ Rollback(t)
  \/ \E o \in OrderIds : MarkRedeemed(o)

OrdersInitAll == AccountsInit /\ OrdersInit
OrdersSpec == OrdersInitAll /\ [][OrdersNext]_<<orderVars, cashVars, bonusVars>>
-----------------------------------------------------------------------------
Requests ==
  [order : OrderIds \cup {NoOrder}, user : Users \cup {Free}, offer : Offers \cup {Free},
   points : Int, target : Statuses]

CreatePcs == {"createCash", "createBonus", "createOffer", "createMerchant",
              "openMerchant", "touchMerchant", "commitCreate"}
RefundPcs == {"refundCash", "refundBonus", "refundMerchant", "commitRefund"}
StatusPcs == {"readRefund", "confirm", "attend", "setStatus"}

OrdersTypeOK ==
  /\ status \in [OrderIds -> Statuses \cup {"none"}]
  /\ info \in [OrderIds -> OrderInfo \cup {Idle}]
  /\ \A o \in OrderIds : status[o] # "none" => info[o] \in OrderInfo
  /\ redeemed \subseteq OrderIds
  /\ refunds \in [OrderIds -> Nat]
  /\ attendee \in [Users -> [Offers -> OrderIds \cup {NoOrder}]]
  /\ uses \in [Offers -> Nat]
  /\ offerLock \in [Offers -> Tx \cup {Free}]
  /\ opened \subseteq Companies
  /\ merchant \in [Companies -> Int]
  /\ merchLog \in [Companies -> Int]
  /\ merchTx \subseteq OrderIds \X {"order_earning", "refund"}
  /\ merchLock \in [Companies -> Tx \cup {Free}]
  /\ pc \in [OrderTx -> {"idle"} \cup CreatePcs \cup RefundPcs \cup StatusPcs]
  /\ req \in [OrderTx -> Requests]
  /\ seen \in [OrderTx -> [cash : Int, bonus : Int, merchant : Int, total : Nat, used : Nat]]
-----------------------------------------------------------------------------
Exists(o) == status[o] # "none"
Existing == {o \in OrderIds : Exists(o)}
OrdersOf(u) == {o \in Existing : info[o].user = u}
OrdersAt(c) == {o \in Existing : CompanyOf(o) = c}

\* What every order has cost its buyer and earned its partner so far.
MoneyPaid == [o \in Existing |-> (1 - refunds[o]) * info[o].total]
PointsPaid == [o \in Existing |-> (1 - refunds[o]) * info[o].bonus]
Earnings == [o \in Existing |-> (1 - refunds[o]) * Earning(info[o].total)]

\* Where the money of a buyer went: what the opening balance lacks is the
\* price of the orders, each counted once when it was created and given back
\* once for every refund recorded in the ledger (CreateOrder, RefundOrder).
WalletAccounted ==
  \A u \in Users :
    /\ cash[u] = OpeningCash[u] - SumFunctionOnSet(MoneyPaid, OrdersOf(u))
    /\ bonus[u] = OpeningBonus[u] - SumFunctionOnSet(PointsPaid, OrdersOf(u))

\* A partner whose account existed from the start holds the earnings of
\* exactly those orders that were not refunded: the student's refund and the
\* partner's debit happen together or not at all, and once.
PartnerAccounted ==
  \A c \in OpenedAtStart : merchant[c] = SumFunctionOnSet(Earnings, OrdersAt(c))

\* The balance of such a partner is the sum of its merchant_transactions.
MerchantMatchesJournal == \A c \in OpenedAtStart : merchant[c] = merchLog[c]

\* A student gets the money of a partner's order back at most once, however
\* many refunds race and whatever the status became meanwhile (the unique
\* index over order_id and type).
PartnerRefundedOnce ==
  \A o \in OrderIds : Exists(o) /\ CompanyOf(o) # NoCompany => refunds[o] =< 1

\* Opening an account outside the transaction can lose an earning of the
\* partner, but never pays the partner more than the journal shows.
OpeningNeverOverpays == \A c \in Companies : merchant[c] =< merchLog[c]

\* A multi-step operation runs in one transaction, so every earning and every
\* debit in merchant_transactions reached the partner's balance, whenever the
\* account was opened (CreateOrder and docs/ARCHITECTURE.md).
EveryEarningArrives == \A c \in Companies : merchant[c] = merchLog[c]

\* Money is given back only for an order that is paid or completed at that
\* moment (the comment over RefundOrder).
RefundOnlyPaidOrCompleted ==
  [][\A o \in OrderIds : refunds'[o] > refunds[o] => status[o] \in {"paid", "completed"}]_<<refunds, status>>

\* The status of an order moves only along ValidOrderTransitions.
OnlyValidTransitions ==
  [][\A o \in OrderIds :
       status[o] # status'[o] =>
         \/ status[o] = "none" /\ status'[o] = "created"
         \/ status'[o] \in NextStatuses[status[o]]]_status

\* A code is redeemed once: an order whose redeemed_at is set is never
\* redeemed again at the till.
RedeemedOnce ==
  [][\A o \in OrderIds :
       o \in redeemed /\ status'[o] = "completed" => status[o] = "completed"]_status

\* No order whose money went back is redeemed afterwards.
RefundedNotRedeemed ==
  [][\A o \in OrderIds : o \in redeemed' \ redeemed => refunds[o] = 0]_<<redeemed, refunds>>

\* The session a transaction has to wait for before its next statement.
WaitsFor(t) ==
  CASE pc[t] \in {"createCash", "refundCash"} -> cashLock[req[t].user]
    [] pc[t] \in {"createBonus", "refundBonus"} -> bonusLock[req[t].user]
    [] pc[t] = "createOffer" -> offerLock[req[t].offer]
    [] pc[t] \in {"createMerchant", "touchMerchant", "refundMerchant"} ->
         merchLock[OfferCompany[req[t].offer]]
    [] OTHER -> Free

\* No transactions wait only for one another: all of them lock the cash
\* account, the bonus account, the offer and the partner's account in this
\* order, and CreateOrder opens a missing account without waiting for it.
NoCircularWait ==
  \A T \in (SUBSET OrderTx) \ {{}} : \E t \in T : WaitsFor(t) \notin T

\* Every request ends: no two transactions wait for each other's rows, since
\* all of them lock the cash account, the bonus account, the offer and the
\* partner's account in this order.
RequestsEnd == \A t \in OrderTx : pc[t] # "idle" ~> pc[t] = "idle"

\* A goroutine that can run does run, and PostgreSQL hands a row to those who
\* wait for it in turn.  Users are under no obligation to ask for anything.
OrdersFairness == \A t \in OrderTx : SF_<<orderVars, cashVars, bonusVars>>(OrderStep(t))
OrdersFairSpec == OrdersSpec /\ OrdersFairness
=============================================================================
