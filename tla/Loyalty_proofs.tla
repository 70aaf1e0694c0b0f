---------------------------- MODULE Loyalty_proofs ----------------------------
(***************************************************************************)
(* Orders and bonuses on shared points, for any number of users, sessions, *)
(* orders, verifications and failures.                                     *)
(*                                                                         *)
(* The statuses: as long as no two requests work on one order at a time,   *)
(* what a handler read of the status is still true when it overwrites it,  *)
(* but for the till, which only completes a paid order (StatusSeen).       *)
(*                                                                         *)
(* The points: as long as no bonus was written over a changed balance or   *)
(* cut short, everybody who is about to overwrite the balance of a user    *)
(* has seen it as it is (Straight).  Whatever an approval or the credit    *)
(* worker does to the points of a user is one of four things: it reads     *)
(* them, records a bonus, writes it, or gives up.                          *)
(***************************************************************************)
EXTENDS Loyalty, OrdersMoney_proofs, Membership_proofs

\* No two requests about one order overlap; the till may come in between.
InTurn ==
  \A s, t \in OrderTx :
    s # t /\ pc[s] # "idle" /\ pc[t] # "idle" => req[s].order # req[t].order

\* What a handler found when it looked at the order.
StatusSeen(t) ==
  LET o == req[t].order
  IN  /\ pc[t] = "confirm" => status[o] = "created"
      /\ pc[t] = "setStatus" =>
           \/ status[o] # "none" /\ req[t].target \in NextStatuses[status[o]]
           \/ req[t].target = "completed" /\ status[o] = "completed"
      /\ pc[t] \in RefundPcs => status[o] \in {"paid", "completed"}

\* What has happened to an order shows in its status.
StatusTells ==
  \A o \in OrderIds :
    /\ o \in redeemed => status[o] \in {"completed", "refunded"}
    /\ refunds[o] > 0 => status[o] = "refunded"

InTurnInv == StatusTells /\ \A t \in OrderTx : StatusSeen(t)

\* What a step of session t, or of the till, may do to the status of an order.
Fits(before, after) ==
  \/ after = before
  \/ before = "none" /\ after = "created"
  \/ before # "none" /\ after \in NextStatuses[before]

StatusMoves ==
  \A o \in OrderIds :
    /\ Fits(status[o], status'[o])
    /\ refunds'[o] # refunds[o] => status[o] \in {"paid", "completed"} /\ status'[o] = "refunded"
    /\ o \in redeemed' \ redeemed => status[o] = "paid" /\ status'[o] = "completed"
    /\ o \in redeemed => o \in redeemed'
-----------------------------------------------------------------------------
(* Statuses                                                                *)

\* The statuses a row can have, and where each may lead.
LEMMA Transitions ==
  /\ NextStatuses["created"] = {"paid", "cancelled", "failed"}
  /\ NextStatuses["paid"] = {"completed", "refunded"}
  /\ NextStatuses["completed"] = {"refunded"}
  /\ \A s \in {"cancelled", "refunded", "failed"} : NextStatuses[s] = {}
  /\ "none" \notin Statuses
BY DEF NextStatuses, Statuses

\* Sessions other than t are about other orders than o, and t itself knows
\* afterwards what the order has become.
LEMMA StatusSeenKept ==
  ASSUME OrdersInv, InTurnInv, InTurn, NEW t \in OrderTx, NEW o \in OrderIds, OnlySession(t),
         \A p \in OrderIds \ {o} : status'[p] = status[p],
         status'[o] = status[o] \/ (pc[t] # "idle" /\ req[t].order = o),
         StatusSeen(t)'
  PROVE  \A s \in OrderTx : StatusSeen(s)'
<1> SUFFICES ASSUME NEW s \in OrderTx \ {t}
             PROVE  StatusSeen(s)'
  OBVIOUS
<1>1. pc'[s] = pc[s] /\ req'[s] = req[s] /\ StatusSeen(s)
  BY DEF OnlySession, InTurnInv
<1>2. CASE pc[s] = "idle"
  BY <1>1, <1>2 DEF StatusSeen, RefundPcs
<1>3. CASE pc[s] # "idle"
  <2>1. req[s].order \in OrderIds
    BY <1>3 DEF OrdersInv, SessionOK, Addressed
  <2>2. status'[req[s].order] = status[req[s].order]
    BY <1>3, <2>1 DEF InTurn
  <2> QED BY <1>1, <2>2 DEF StatusSeen
<1> QED BY <1>2, <1>3

\* The step of a session that writes no status.
LEMMA LooksKeep ==
  ASSUME OrdersInv, InTurnInv, InTurn, NEW t \in OrderTx, OnlySession(t), StatusSeen(t)',
         UNCHANGED <<status, refunds, redeemed>>
  PROVE  InTurnInv' /\ StatusMoves
<1>1. StatusTells' /\ StatusMoves
  BY DEF InTurnInv, StatusTells, StatusMoves, Fits
<1>2. \A s \in OrderTx : StatusSeen(s)'
  <2>1. ASSUME NEW s \in OrderTx \ {t}
        PROVE  StatusSeen(s)'
    BY DEF OnlySession, InTurnInv, StatusSeen
  <2> QED BY <2>1
<1> QED BY <1>1, <1>2 DEF InTurnInv

\* A session that has nothing to do any more has seen nothing.
LEMMA ForgottenSeen ==
  ASSUME OrdersInv, NEW t \in OrderTx, Forget(t)
  PROVE  StatusSeen(t)' /\ OnlySession(t)
<1>1. pc'[t] = "idle"
  BY DEF OrdersInv, OrdersTypeOK, Forget
<1> QED BY <1>1, Forgotten DEF StatusSeen, RefundPcs

\* UPDATE orders by session t, which is done with it afterwards.
LEMMA StatusWrites ==
  ASSUME OrdersInv, InTurnInv, InTurn, NEW t \in OrderTx, NEW o \in OrderIds,
         pc[t] # "idle", req[t].order = o, OnlySession(t), StatusSeen(t)',
         NEW new, status' = [status EXCEPT ![o] = new],
         Fits(status[o], new), UNCHANGED <<refunds, redeemed>>
  PROVE  InTurnInv' /\ StatusMoves
<1>1. /\ status'[o] = new /\ \A p \in OrderIds \ {o} : status'[p] = status[p]
      /\ status[o] \in Statuses \cup {"none"}
  BY DEF OrdersInv, OrdersTypeOK
<1>2. \A s \in OrderTx : StatusSeen(s)'
  BY <1>1, StatusSeenKept
<1>3. /\ status[o] = "refunded" => new = "refunded"
      /\ status[o] = "completed" => new \in {"completed", "refunded"}
  BY Transitions DEF Fits
<1>4. StatusTells'
  BY <1>1, <1>3 DEF InTurnInv, StatusTells
<1>5. StatusMoves
  BY <1>1 DEF StatusMoves, Fits
<1> QED BY <1>2, <1>4, <1>5 DEF InTurnInv

LEMMA RequestsLook ==
  ASSUME OrdersInv, InTurnInv, InTurn, NEW t \in OrderTx, OrderRequest(t)
  PROVE  InTurnInv' /\ StatusMoves
<1>1. Quiet(t) /\ OrdersTypeOK
  BY OrderRequestKeeps DEF OrdersInv
<1>2. OnlySession(t) /\ UNCHANGED <<status, refunds, redeemed>>
  BY <1>1 DEF Quiet, rowVars
<1>3. ASSUME NEW o \in OrderIds, NEW u \in Users, NEW f \in Offers, NEW points \in Points,
             BeginCreate(t, o, u, f, points)
      PROVE  StatusSeen(t)'
  <2>1. pc'[t] = "createCash"
    BY <1>1, <1>3 DEF BeginCreate, Goto, OrdersTypeOK
  <2> QED BY <2>1 DEF StatusSeen, RefundPcs
<1>4. ASSUME NEW o \in OrderIds, BeginRefund(t, o)
      PROVE  StatusSeen(t)'
  <2>1. pc'[t] = "readRefund"
    BY <1>1, <1>4 DEF BeginRefund, Goto, OrdersTypeOK
  <2> QED BY <2>1 DEF StatusSeen, RefundPcs
<1>5. ASSUME NEW o \in OrderIds, ConfirmOrderPayment(t, o)
      PROVE  StatusSeen(t)'
  <2>1. /\ pc'[t] = "confirm" /\ req'[t].order = o /\ status[o] = "created"
    BY <1>1, <1>5 DEF ConfirmOrderPayment, BeginStatus, Goto, OrdersTypeOK, About
  <2> QED BY <1>2, <2>1 DEF StatusSeen, RefundPcs
<1>6. ASSUME NEW o \in OrderIds, NEW target,
             (CancelOrder(t, o) /\ target = "cancelled") \/ UpdateOrderStatus(t, o, target)
      PROVE  StatusSeen(t)'
  <2>1. status[o] # "none" /\ target \in NextStatuses[status[o]]
    BY <1>6, Transitions DEF CancelOrder, UpdateOrderStatus
  <2>2. BeginStatus(t, o, "setStatus", target)
    BY <1>6 DEF CancelOrder, UpdateOrderStatus
  <2>3. pc'[t] = "setStatus" /\ req'[t].order = o /\ req'[t].target = target
    BY <1>1, <2>2 DEF BeginStatus, Goto, OrdersTypeOK, About
  <2> QED BY <1>2, <2>1, <2>3 DEF StatusSeen, RefundPcs
<1>7. StatusSeen(t)'
  BY <1>3, <1>4, <1>5, <1>6 DEF OrderRequest, AdminRefund, RedeemReject
<1> QED BY <1>2, <1>7, LooksKeep

LEMMA QuietActionsLook ==
  ASSUME OrdersInv, InTurnInv, InTurn, NEW t \in OrderTx, QuietAction(t)
  PROVE  InTurnInv' /\ StatusMoves
<1>1. Quiet(t) /\ OrdersTypeOK /\ StatusSeen(t)
  BY QuietActionKeeps DEF OrdersInv, InTurnInv
<1>2. OnlySession(t) /\ UNCHANGED <<status, refunds, redeemed>>
  BY <1>1 DEF Quiet, rowVars
<1>3. ASSUME Forget(t)
      PROVE  StatusSeen(t)'
  BY <1>3, ForgottenSeen
<1>4. CASE \/ CreateLockCash(t) \/ CreateLockOffer(t) \/ CreateLockMerchant(t)
           \/ CreateMissMerchant(t) \/ TouchMerchant(t)
  <2>1. pc'[t] \in CreatePcs
    BY <1>1, <1>4
    DEF CreateLockCash, CreateLockOffer, CreateLockMerchant, CreateMissMerchant, TouchMerchant,
        Goto, OrdersTypeOK, CreatePcs
  <2>2. StatusSeen(t)'
    BY <2>1 DEF StatusSeen, RefundPcs, CreatePcs
  <2> QED BY <1>2, <2>2, LooksKeep
<1>5. CASE CreateLockBonus(t)
  <2>1. pc'[t] = "createOffer" \/ Forget(t)
    BY <1>1, <1>5 DEF CreateLockBonus, OrdersTypeOK
  <2>2. StatusSeen(t)'
    BY <1>3, <2>1 DEF StatusSeen, RefundPcs
  <2> QED BY <1>2, <2>2, LooksKeep
<1>6. CASE ReadRefund(t)
  <2>1. CASE status[req[t].order] \in {"paid", "completed"}
    <3>1. pc'[t] = "refundCash" /\ req'[t].order = req[t].order
      <4> DEFINE o == req[t].order
      <4>1. /\ pc' = [pc EXCEPT ![t] = "refundCash"]
            /\ req' = [req EXCEPT ![t].user = info[o].user, ![t].offer = info[o].offer]
        BY <1>6, <2>1 DEF ReadRefund
      <4> QED BY <1>1, <4>1 DEF OrdersTypeOK
    <3>2. StatusSeen(t)'
      BY <1>2, <2>1, <3>1 DEF StatusSeen
    <3> QED BY <1>2, <3>2, LooksKeep
  <2>2. CASE status[req[t].order] \notin {"paid", "completed"}
    BY <1>2, <1>3, <1>6, <2>2, LooksKeep DEF ReadRefund
  <2> QED BY <2>1, <2>2
<1>7. CASE RefundLockCash(t) \/ RefundLockBonus(t) \/ RefundLockMerchant(t)
  <2>1. pc[t] \in RefundPcs /\ pc'[t] \in RefundPcs /\ UNCHANGED req
    BY <1>1, <1>7
    DEF RefundLockCash, RefundLockBonus, RefundLockMerchant, AfterRefundBonus, Goto, OrdersTypeOK,
        RefundPcs
  <2>2. StatusSeen(t)'
    BY <1>1, <1>2, <2>1 DEF StatusSeen, RefundPcs
  <2> QED BY <1>2, <2>2, LooksKeep
<1>8. CASE RefundDuplicate(t) \/ Rollback(t)
  BY <1>2, <1>3, <1>8, LooksKeep DEF RefundDuplicate, Rollback
<1> QED BY <1>4, <1>5, <1>6, <1>7, <1>8 DEF QuietAction

LEMMA OpenMerchantLooks ==
  ASSUME OrdersInv, InTurnInv, InTurn, NEW t \in OrderTx, OpenMerchant(t)
  PROVE  InTurnInv' /\ StatusMoves
<1>1. OrdersTypeOK /\ UNCHANGED <<status, refunds, redeemed>>
  BY DEF OrdersInv, OpenMerchant, rowVars
<1>2. CASE Forget(t)
  BY <1>1, <1>2, ForgottenSeen, LooksKeep
<1>3. CASE ~ Forget(t)
  <2>1. /\ pc' = [pc EXCEPT ![t] = "touchMerchant"]
        /\ seen' = [seen EXCEPT ![t].merchant = 0] /\ req' = req
    BY <1>3 DEF OpenMerchant
  <2>2. StatusSeen(t)'
    <3>1. pc'[t] = "touchMerchant"
      BY <1>1, <2>1 DEF OrdersTypeOK
    <3> QED BY <3>1 DEF StatusSeen, RefundPcs
  <2>3. OnlySession(t)
    <3>1. seen \in [OrderTx -> SeenValues]
      BY <1>1 DEF OrdersTypeOK, SeenValues
    <3>2. [seen[t] EXCEPT !.merchant = 0] \in SeenValues
      BY <3>1 DEF SeenValues
    <3> QED BY <1>1, <2>1, <3>1, <3>2 DEF OnlySession, OrdersTypeOK, Pcs, CreatePcs
  <2> QED BY <1>1, <2>2, <2>3, LooksKeep
<1> QED BY <1>2, <1>3

LEMMA CommitsWrite ==
  ASSUME OrdersInv, InTurnInv, InTurn, NEW t \in OrderTx, CommitCreate(t) \/ CommitRefund(t)
  PROVE  InTurnInv' /\ StatusMoves
<1>1. /\ OrdersTypeOK /\ StatusSeen(t) /\ StatusTells /\ OnlySession(t) /\ StatusSeen(t)'
      /\ pc[t] # "idle"
  BY ForgottenSeen DEF OrdersInv, InTurnInv, CommitCreate, CommitRefund
<1>2. CASE CommitCreate(t)
  <2>1. PICK o \in OrderIds : o = req[t].order
    BY <1>2, CommitCreateFacts
  <2>2. /\ status[o] = "none" /\ status' = [status EXCEPT ![o] = "created"]
        /\ UNCHANGED <<refunds, redeemed>>
    BY <1>2, <2>1, CommitCreateFacts DEF CommitCreate
  <2>3. Fits(status[o], "created")
    BY <2>2 DEF Fits
  <2> QED BY <1>1, <2>1, <2>2, <2>3, StatusWrites
<1>3. CASE CommitRefund(t)
  <2>1. PICK o \in OrderIds : o = req[t].order
    BY <1>3, CommitRefundFacts
  <2>2. /\ status' = [status EXCEPT ![o] = "refunded"]
        /\ refunds' = [refunds EXCEPT ![o] = @ + 1]
        /\ UNCHANGED redeemed
    BY <1>3, <2>1 DEF CommitRefund
  <2>3. status[o] \in {"paid", "completed"}
    BY <1>1, <1>3, <2>1 DEF StatusSeen, CommitRefund, RefundPcs
  <2>4. /\ status'[o] = "refunded" /\ \A p \in OrderIds \ {o} : status'[p] = status[p]
        /\ \A p \in OrderIds \ {o} : refunds'[p] = refunds[p]
    BY <1>1, <2>2 DEF OrdersTypeOK
  <2>5. \A s \in OrderTx : StatusSeen(s)'
    BY <1>1, <2>1, <2>4, StatusSeenKept
  <2>6. StatusTells'
    BY <1>1, <2>2, <2>4 DEF StatusTells
  <2>7. Fits(status[o], status'[o])
    BY <2>3, <2>4, Transitions DEF Fits
  <2>8. StatusMoves
    BY <2>2, <2>3, <2>4, <2>7 DEF StatusMoves, Fits
  <2> QED BY <2>5, <2>6, <2>8 DEF InTurnInv
<1> QED BY <1>2, <1>3

LEMMA StatusHandlersWrite ==
  ASSUME OrdersInv, InTurnInv, InTurn, NEW t \in OrderTx,
         WriteStatus(t) \/ WriteConfirm(t) \/ UpsertAttendee(t)
  PROVE  InTurnInv' /\ StatusMoves
<1>1. /\ OrdersTypeOK /\ StatusSeen(t) /\ StatusTells /\ pc[t] # "idle"
      /\ UNCHANGED <<refunds, redeemed>>
  BY DEF OrdersInv, InTurnInv, WriteStatus, WriteConfirm, UpsertAttendee
<1>2. PICK o \in OrderIds : o = req[t].order
  BY <1>1 DEF OrdersInv, SessionOK, Addressed
<1>3. CASE WriteStatus(t)
  <2>1. Fits(status[o], req[t].target)
    BY <1>1, <1>2, <1>3 DEF StatusSeen, WriteStatus, Fits
  <2>2. status' = [status EXCEPT ![o] = req[t].target] /\ Forget(t)
    BY <1>2, <1>3 DEF WriteStatus
  <2> QED BY <1>1, <1>2, <2>1, <2>2, ForgottenSeen, StatusWrites
<1>4. CASE WriteConfirm(t)
  <2>1. status[o] = "created" /\ status' = [status EXCEPT ![o] = "paid"]
    BY <1>1, <1>2, <1>4 DEF StatusSeen, WriteConfirm
  <2>2. Fits(status[o], "paid")
    BY <2>1, Transitions DEF Fits
  <2>3. CASE Forget(t)
    BY <1>1, <1>2, <2>1, <2>2, <2>3, ForgottenSeen, StatusWrites
  <2>4. CASE ~ Forget(t)
    <3>1. pc' = [pc EXCEPT ![t] = "attend"] /\ UNCHANGED <<req, seen>>
      BY <1>4, <2>4 DEF WriteConfirm
    <3>2. OnlySession(t) /\ StatusSeen(t)'
      BY <1>1, <3>1 DEF OrdersTypeOK, OnlySession, Pcs, StatusPcs, SeenValues, StatusSeen, RefundPcs
    <3> QED BY <1>1, <1>2, <2>1, <2>2, <3>2, StatusWrites
  <2> QED BY <2>3, <2>4
<1>5. CASE UpsertAttendee(t)
  BY <1>1, <1>5, ForgottenSeen, LooksKeep DEF UpsertAttendee
<1> QED BY <1>3, <1>4, <1>5

\* The till needs no turn: only a paid order is completed, and whoever found it
\* paid may still write what it meant to.
LEMMA TillWrites ==
  ASSUME OrdersInv, InTurnInv, NEW o \in OrderIds, MarkRedeemed(o)
  PROVE  InTurnInv' /\ StatusMoves
<1>1. OrdersTypeOK /\ StatusTells /\ \A t \in OrderTx : StatusSeen(t)
  BY DEF OrdersInv, InTurnInv
<1>2. /\ status[o] = "paid" /\ status'[o] = "completed"
      /\ \A p \in OrderIds \ {o} : status'[p] = status[p]
      /\ redeemed' = redeemed \cup {o} /\ UNCHANGED <<refunds, pc, req>>
  BY <1>1 DEF MarkRedeemed, OrdersTypeOK
<1>3. ASSUME NEW t \in OrderTx
      PROVE  StatusSeen(t)'
  <2>1. CASE req[t].order = o
    BY <1>1, <1>2, <2>1, Transitions DEF StatusSeen
  <2>2. CASE req[t].order # o
    <3>1. pc[t] # "idle" => status'[req[t].order] = status[req[t].order]
      BY <1>2, <2>2 DEF OrdersInv, SessionOK, Addressed
    <3> QED BY <1>1, <1>2, <3>1 DEF StatusSeen, RefundPcs
  <2> QED BY <2>1, <2>2
<1>4. StatusTells'
  BY <1>1, <1>2 DEF StatusTells
<1>5. StatusMoves
  BY <1>2, Transitions DEF StatusMoves, Fits
<1> QED BY <1>3, <1>4, <1>5 DEF InTurnInv

LEMMA OrdersTakeTurns ==
  ASSUME OrdersInv, InTurnInv, InTurn, OrdersNext
  PROVE  InTurnInv' /\ StatusMoves
<1>1. ASSUME NEW t \in OrderTx, OrderRequest(t) \/ OrderStep(t) \/ Rollback(t)
      PROVE  InTurnInv' /\ StatusMoves
  <2>1. CASE QuietAction(t)
    BY <2>1, QuietActionsLook
  <2>2. CASE OpenMerchant(t) \/ CommitCreate(t) \/ CommitRefund(t)
    BY <2>2, OpenMerchantLooks, CommitsWrite
  <2>3. CASE WriteStatus(t) \/ WriteConfirm(t) \/ UpsertAttendee(t)
    BY <2>3, StatusHandlersWrite
  <2> QED BY <1>1, <2>1, <2>2, <2>3, RequestsLook DEF OrderStep, QuietAction
<1> QED BY <1>1, TillWrites DEF OrdersNext

\* What the documentation says of statuses follows.
LEMMA MovesAreValid ==
  ASSUME OrdersTypeOK, InTurnInv, StatusMoves
  PROVE  /\ \A o \in OrderIds : refunds'[o] > refunds[o] => status[o] \in {"paid", "completed"}
         /\ \A o \in OrderIds :
              status[o] # status'[o] =>
                \/ status[o] = "none" /\ status'[o] = "created"
                \/ status'[o] \in NextStatuses[status[o]]
         /\ \A o \in OrderIds :
              o \in redeemed /\ status'[o] = "completed" => status[o] = "completed"
         /\ \A o \in OrderIds : o \in redeemed' \ redeemed => refunds[o] = 0
<1>1. \A o \in OrderIds : refunds'[o] > refunds[o] => status[o] \in {"paid", "completed"}
  BY DEF StatusMoves, OrdersTypeOK
<1>2. \A o \in OrderIds : status[o] # status'[o] =>
        \/ status[o] = "none" /\ status'[o] = "created"
        \/ status'[o] \in NextStatuses[status[o]]
  BY DEF StatusMoves, Fits
<1>3. ASSUME NEW o \in OrderIds, o \in redeemed, status'[o] = "completed", status[o] # "completed"
      PROVE  FALSE
  <2>1. status[o] = "refunded"
    BY <1>3 DEF InTurnInv, StatusTells
  <2> QED BY <1>3, <2>1, Transitions DEF StatusMoves, Fits
<1>4. ASSUME NEW o \in OrderIds, o \in redeemed' \ redeemed
      PROVE  refunds[o] = 0
  <2>1. status[o] = "paid" /\ refunds[o] \in Nat
    BY <1>4 DEF StatusMoves, OrdersTypeOK
  <2> QED BY <2>1 DEF InTurnInv, StatusTells
<1> QED BY <1>1, <1>2, <1>3, <1>4
-----------------------------------------------------------------------------
(* Points                                                                  *)

\* Who can be about to overwrite a bonus balance without a lock, and the
\* balance it has seen.
Hands == MemberTx \cup {Nobody}
SeenBy(w) == IF w = Nobody THEN creditSeen ELSE mseen[w]

\* Nobody is about to write a balance that is not the balance, and what is
\* missing from it is what is recorded.
Straight(u) ==
  /\ \A w \in Writers(u) : SeenBy(w) = bonus[u]
  /\ IsFiniteSet(Recorded(u))
  /\ bonusLog[u] = bonus[u] + RewardAmount * Cardinality(Recorded(u))

PointsInv ==
  /\ \A u \in Users : \A w \in Writers(u) : SeenBy(w) \in Nat
  /\ \A u \in Users \ overrun : Straight(u)

OverrunNoted == overrun' = overrun \cup {u \in Users : Overrun(u)}

LEMMA RecordedWrite ==
  ASSUME NEW u \in Users
  PROVE  Recorded(u) \subseteq Writers(u) /\ Writers(u) \subseteq Hands
BY DEF Recorded, Writers, Hands

\* A user not known to have been overrun was not overrun by this step either.
LEMMA NotOverrun ==
  ASSUME NEW u \in Users, OverrunNoted, u \notin overrun'
  PROVE  /\ u \notin overrun
         /\ bonus'[u] = bonus[u] \/ Writers(u)' = {}
         /\ bonus'[u] # bonus[u] \/ Recorded(u) \subseteq Recorded(u)'
BY DEF OverrunNoted, Overrun

\* Nobody reads, records, writes or gives up.
LEMMA PointsAside ==
  ASSUME PointsInv, AccountsTypeOK, AccountsTypeOK', OverrunNoted,
         \A u \in Users : Writers(u)' = Writers(u) /\ Recorded(u)' = Recorded(u),
         \A u \in Users : \A w \in Writers(u) : SeenBy(w)' = SeenBy(w),
         \A u \in Users : bonus'[u] - bonusLog'[u] = bonus[u] - bonusLog[u]
  PROVE  PointsInv'
<1> USE ReferralAssumption
<1>1. \A u \in Users : \A w \in Writers(u)' : SeenBy(w)' \in Nat
  BY DEF PointsInv
<1>2. ASSUME NEW u \in Users, u \notin overrun'
      PROVE  Straight(u)'
  <2>1. Straight(u) /\ (bonus'[u] = bonus[u] \/ Writers(u)' = {})
    BY <1>2, NotOverrun DEF PointsInv
  <2>2. \A w \in Writers(u)' : SeenBy(w)' = bonus'[u]
    BY <2>1 DEF Straight
  <2>3. IsFiniteSet(Recorded(u)')
    BY <2>1 DEF Straight
  <2> DEFINE R == RewardAmount * Cardinality(Recorded(u))
             RR == RewardAmount * Cardinality(Recorded(u)')
  <2>4. RR = R /\ bonusLog[u] = bonus[u] + R
    BY <2>1 DEF Straight
  <2>5. R \in Int
    BY <2>1, FS_CardinalityType DEF Straight
  <2>6. /\ bonus[u] \in Int /\ bonusLog[u] \in Int /\ bonus'[u] \in Int /\ bonusLog'[u] \in Int
        /\ bonus'[u] - bonusLog'[u] = bonus[u] - bonusLog[u]
    BY DEF AccountsTypeOK
  <2> HIDE DEF R, RR
  <2>7. bonusLog'[u] = bonus'[u] + RR
    BY <2>4, <2>5, <2>6
  <2> QED BY <2>2, <2>3, <2>7 DEF Straight, RR
<1> QED BY <1>1, <1>2 DEF PointsInv

\* Only w comes or goes, and only where the points of u are concerned.
Only(w, u) ==
  /\ \A v \in Users \ {u} :
       /\ Writers(v)' = Writers(v) /\ Recorded(v)' = Recorded(v) /\ w \notin Writers(v)
       /\ bonus'[v] = bonus[v] /\ bonusLog'[v] = bonusLog[v]
  /\ Writers(u)' \ {w} = Writers(u) \ {w}
  /\ \A v \in Users : \A x \in Writers(v) \ {w} : SeenBy(x)' = SeenBy(x)

\* It is enough to follow the points of u.
LEMMA OnlyMatters ==
  ASSUME PointsInv, NEW u \in Users, NEW w, Only(w, u), OverrunNoted,
         w \in Writers(u)' => SeenBy(w)' \in Nat,
         u \notin overrun' => Straight(u)'
  PROVE  PointsInv'
<1>1. \A v \in Users : \A x \in Writers(v)' : SeenBy(x)' \in Nat
  BY DEF PointsInv, Only
<1>2. ASSUME NEW v \in Users \ {u}, v \notin overrun'
      PROVE  Straight(v)'
  <2>1. Straight(v)
    BY <1>2, NotOverrun DEF PointsInv
  <2>2. /\ Writers(v)' = Writers(v) /\ Recorded(v)' = Recorded(v)
        /\ bonus'[v] = bonus[v] /\ bonusLog'[v] = bonusLog[v]
        /\ \A x \in Writers(v) : SeenBy(x)' = SeenBy(x)
    BY DEF Only
  <2> QED BY <2>1, <2>2 DEF Straight
<1> QED BY <1>1, <1>2 DEF PointsInv

LEMMA PointsRead ==
  ASSUME PointsInv, NEW u \in Users, NEW w, Only(w, u), OverrunNoted,
         Recorded(u)' = Recorded(u), SeenBy(w)' = bonus[u], bonus[u] \in Nat,
         bonus'[u] = bonus[u], bonusLog'[u] = bonusLog[u]
  PROVE  PointsInv'
<1>1. ASSUME u \notin overrun'
      PROVE  Straight(u)'
  <2>1. Straight(u)
    BY <1>1, NotOverrun DEF PointsInv
  <2>2. \A x \in Writers(u)' : SeenBy(x)' = bonus'[u]
    BY <2>1 DEF Straight, Only
  <2> QED BY <2>1, <2>2 DEF Straight
<1> QED BY <1>1, OnlyMatters

LEMMA PointsRecorded ==
  ASSUME PointsInv, AccountsTypeOK, NEW u \in Users, NEW w, Only(w, u), OverrunNoted,
         w \in Writers(u) \ Recorded(u), Recorded(u)' = Recorded(u) \cup {w},
         SeenBy(w)' = SeenBy(w),
         bonus'[u] = bonus[u], bonusLog'[u] = bonusLog[u] + RewardAmount
  PROVE  PointsInv'
<1> USE ReferralAssumption
<1>1. ASSUME u \notin overrun'
      PROVE  Straight(u)'
  <2>1. Straight(u)
    BY <1>1, NotOverrun DEF PointsInv
  <2>2. \A x \in Writers(u)' : SeenBy(x)' = bonus'[u]
    BY <2>1 DEF Straight, Only
  <2> DEFINE n == Cardinality(Recorded(u))
  <2>3. /\ IsFiniteSet(Recorded(u)') /\ Cardinality(Recorded(u)') = n + 1 /\ n \in Nat
    BY <2>1, FS_AddElement, FS_CardinalityType DEF Straight
  <2>4. bonusLog[u] = bonus[u] + RewardAmount * n /\ bonus[u] \in Int /\ bonusLog[u] \in Int
    BY <2>1 DEF Straight, AccountsTypeOK
  <2> HIDE DEF n
  <2>5. bonusLog'[u] = bonus'[u] + RewardAmount * (n + 1)
    BY <2>3, <2>4
  <2> QED BY <2>2, <2>3, <2>5 DEF Straight
<1>2. SeenBy(w)' \in Nat
  BY DEF PointsInv
<1> QED BY <1>1, <1>2, OnlyMatters

\* If someone else is about to write, or the reward is nothing, the user is
\* overrun; else only w had recorded anything.
LEMMA PointsWritten ==
  ASSUME PointsInv, AccountsTypeOK, NEW u \in Users, NEW w, Only(w, u), OverrunNoted,
         w \in Recorded(u), Writers(u)' = Writers(u) \ {w}, Recorded(u)' = Recorded(u) \ {w},
         bonus'[u] = SeenBy(w) + RewardAmount, bonusLog'[u] = bonusLog[u]
  PROVE  PointsInv'
<1> USE ReferralAssumption
<1>1. ASSUME u \notin overrun'
      PROVE  Straight(u)'
  <2>1. Straight(u) /\ w \in Writers(u)
    BY <1>1, NotOverrun, RecordedWrite DEF PointsInv
  <2>2. bonus'[u] # bonus[u] /\ Writers(u)' = {}
    BY <1>1, NotOverrun
  <2>3. Recorded(u) = {w} /\ Recorded(u)' = {}
    BY <2>2, RecordedWrite
  <2>4. Cardinality(Recorded(u)) = 1 /\ Cardinality(Recorded(u)') = 0 /\ IsFiniteSet(Recorded(u)')
    BY <2>3, FS_Singleton, FS_EmptySet
  <2>5. bonusLog[u] = bonus[u] + RewardAmount * 1 /\ SeenBy(w) = bonus[u]
    BY <2>1, <2>4 DEF Straight
  <2>6. bonus[u] \in Int
    BY DEF AccountsTypeOK
  <2>7. bonusLog'[u] = bonus'[u] + RewardAmount * 0
    BY <2>5, <2>6
  <2> QED BY <2>2, <2>4, <2>7 DEF Straight
<1> QED BY <1>1, OnlyMatters

LEMMA PointsGivenUp ==
  ASSUME PointsInv, NEW u \in Users, NEW w, Only(w, u), OverrunNoted,
         Writers(u)' = Writers(u) \ {w}, Recorded(u)' = Recorded(u) \ {w},
         bonus'[u] = bonus[u], bonusLog'[u] = bonusLog[u]
  PROVE  PointsInv'
<1>1. ASSUME u \notin overrun'
      PROVE  Straight(u)'
  <2>1. Straight(u) /\ Recorded(u)' = Recorded(u)
    BY <1>1, NotOverrun DEF PointsInv
  <2>2. \A x \in Writers(u)' : SeenBy(x)' = bonus'[u]
    BY <2>1 DEF Straight, Only
  <2> QED BY <2>1, <2>2 DEF Straight
<1> QED BY <1>1, OnlyMatters
-----------------------------------------------------------------------------
(* The bonuses of Membership                                               *)

WelcomePcs == {"recordWelcome", "writeWelcome"}
RecordPcs == {"record", "write"}

LEMMA SameWithout ==
  ASSUME NEW A, NEW B, NEW x, A \ {x} = B \ {x}, x \notin A, x \notin B
  PROVE  A = B
OBVIOUS

\* A session of Membership does something with the points of u.
LEMMA SessionOnly ==
  ASSUME NEW t \in MemberTx, NEW u \in Users,
         \A s \in MemberTx \ {t} : mpc'[s] = mpc[s] /\ mreq'[s] = mreq[s] /\ mseen'[s] = mseen[s],
         UNCHANGED creditVars,
         mpc[t] \in WelcomePcs => mreq[t].user = u,
         mpc'[t] \in WelcomePcs => mreq'[t].user = u,
         \A v \in Users \ {u} : bonus'[v] = bonus[v] /\ bonusLog'[v] = bonusLog[v]
  PROVE  Only(t, u) /\ Recorded(u)' \ {t} = Recorded(u) \ {t}
<1> USE SessionsAssumption
<1>1. \A v \in Users : /\ Writers(v)' \ {t} = Writers(v) \ {t}
                       /\ Recorded(v)' \ {t} = Recorded(v) \ {t}
  BY DEF Writers, Recorded, creditVars
<1>2. \A v \in Users \ {u} : /\ t \notin Writers(v) /\ t \notin Writers(v)'
                             /\ t \notin Recorded(v) /\ t \notin Recorded(v)'
  BY DEF Writers, Recorded, WelcomePcs
<1>3. \A v \in Users \ {u} : Writers(v)' = Writers(v) /\ Recorded(v)' = Recorded(v)
  BY <1>1, <1>2, SameWithout
<1>4. \A v \in Users : \A x \in Writers(v) \ {t} : SeenBy(x)' = SeenBy(x)
  BY RecordedWrite DEF SeenBy, Hands, creditVars
<1> QED BY <1>1, <1>2, <1>3, <1>4 DEF Only

\* The credit worker does.
LEMMA WorkerOnly ==
  ASSUME NEW u \in Users, UNCHANGED requestVars,
         creditPc \in RecordPcs => ReferredBy[creditFor] = u,
         creditPc' \in RecordPcs => ReferredBy[creditFor'] = u,
         \A v \in Users \ {u} : bonus'[v] = bonus[v] /\ bonusLog'[v] = bonusLog[v]
  PROVE  Only(Nobody, u) /\ Recorded(u)' \ {Nobody} = Recorded(u) \ {Nobody}
<1> USE SessionsAssumption
<1>1. \A v \in Users : /\ Writers(v)' \ {Nobody} = Writers(v) \ {Nobody}
                       /\ Recorded(v)' \ {Nobody} = Recorded(v) \ {Nobody}
  BY DEF Writers, Recorded, requestVars
<1>2. \A v \in Users \ {u} : /\ Nobody \notin Writers(v) /\ Nobody \notin Writers(v)'
                             /\ Nobody \notin Recorded(v) /\ Nobody \notin Recorded(v)'
  BY DEF Writers, Recorded, RecordPcs
<1>3. \A v \in Users \ {u} : Writers(v)' = Writers(v) /\ Recorded(v)' = Recorded(v)
  BY <1>1, <1>2, SameWithout
<1>4. \A v \in Users : \A x \in Writers(v) \ {Nobody} : SeenBy(x)' = SeenBy(x)
  BY RecordedWrite DEF SeenBy, Hands, requestVars
<1> QED BY <1>1, <1>2, <1>3, <1>4 DEF Only

\* Steps that are not about points: nobody comes to the lines between reading
\* and writing a balance, or leaves them.
Unconcerned ==
  /\ \A t \in MemberTx : mpc[t] \in WelcomePcs \/ mpc'[t] \in WelcomePcs =>
       mpc'[t] = mpc[t] /\ mreq'[t] = mreq[t] /\ mseen'[t] = mseen[t]
  /\ creditPc \in RecordPcs \/ creditPc' \in RecordPcs =>
       UNCHANGED <<creditPc, creditFor, creditSeen>>
  /\ UNCHANGED <<bonus, bonusLog>>

LEMMA UnconcernedKeeps ==
  ASSUME PointsInv, AccountsTypeOK, AccountsTypeOK', OverrunNoted, Unconcerned
  PROVE  PointsInv'
<1> USE SessionsAssumption
<1>1. \A u \in Users : Writers(u)' = Writers(u) /\ Recorded(u)' = Recorded(u)
  BY DEF Writers, Recorded, Unconcerned, WelcomePcs, RecordPcs
<1>2. ASSUME NEW u \in Users, NEW w \in Writers(u)
      PROVE  SeenBy(w)' = SeenBy(w)
  BY <1>1 DEF Writers, SeenBy, Unconcerned, WelcomePcs, RecordPcs
<1> QED BY <1>1, <1>2, PointsAside DEF Unconcerned

LEMMA RequestsUnconcerned ==
  ASSUME MembershipTypeOK, NEW t \in MemberTx,
         \/ MemberRequest(t)
         \/ InsertVerification(t) \/ CloseOthers(t) \/ SetStudent(t) \/ SetExpiry(t)
         \/ FindReferrer(t) \/ CheckReward(t) \/ CreateReward(t) \/ ResetStudent(t)
         \/ RequestFails(t) /\ mpc[t] \notin WelcomePcs
  PROVE  Unconcerned
<1>1. /\ UNCHANGED <<creditVars, bonusVars>>
      /\ mpc[t] \notin WelcomePcs
  BY DEF MemberRequest, RequestVerification, ResetVerification, UpdateVerification,
         InsertVerification, CloseOthers, SetStudent, SetExpiry, FindReferrer, CheckReward,
         CreateReward, ResetStudent, RequestFails, Step, WelcomePcs
<1>2. /\ \A s \in MemberTx \ {t} : mpc'[s] = mpc[s] /\ mreq'[s] = mreq[s] /\ mseen'[s] = mseen[s]
      /\ mpc'[t] \notin WelcomePcs
  <2>1. CASE \/ InsertVerification(t) \/ CloseOthers(t) \/ SetStudent(t) \/ SetExpiry(t)
             \/ FindReferrer(t) \/ CheckReward(t) \/ CreateReward(t) \/ ResetStudent(t)
             \/ RequestFails(t) /\ mpc[t] \notin WelcomePcs
    <3>1. \/ EndRequest(t)
          \/ /\ UNCHANGED <<mreq, mseen>>
             /\ \E to \in MemberPcs \ WelcomePcs : mpc' = [mpc EXCEPT ![t] = to]
      BY <2>1
      DEF InsertVerification, CloseOthers, SetStudent, SetExpiry, FindReferrer, CheckReward,
          CreateReward, ResetStudent, RequestFails, Step, MemberPcs, WelcomePcs
    <3> QED BY <3>1 DEF EndRequest, MembershipTypeOK, WelcomePcs
  <2>2. ASSUME NEW u \in Users, RequestVerification(t, u) \/ ResetVerification(t, u)
        PROVE  /\ \A s \in MemberTx \ {t} : mpc'[s] = mpc[s] /\ mreq'[s] = mreq[s]
                                              /\ mseen'[s] = mseen[s]
               /\ mpc'[t] \notin WelcomePcs
    BY <2>2 DEF RequestVerification, ResetVerification, Step, MembershipTypeOK, WelcomePcs
  <2>3. ASSUME NEW v \in VerifIds, NEW decision \in Decisions, UpdateVerification(t, v, decision)
        PROVE  /\ \A s \in MemberTx \ {t} : mpc'[s] = mpc[s] /\ mreq'[s] = mreq[s]
                                              /\ mseen'[s] = mseen[s]
               /\ mpc'[t] \notin WelcomePcs
    BY <2>3 DEF UpdateVerification, Step, MembershipTypeOK, WelcomePcs
  <2> QED BY <2>1, <2>2, <2>3 DEF MemberRequest
<1> QED BY <1>1, <1>2 DEF Unconcerned, creditVars, bonusVars

LEMMA WorkersUnconcerned ==
  ASSUME \/ ExpiryStep \/ ListRewards \/ CreditMark
         \/ CreditFails /\ creditPc \notin RecordPcs
         \/ (\E v \in VerifIds : Lapse(v)) \/ (\E u \in Users : RewardFallsDue(u))
  PROVE  Unconcerned
BY DEF ExpiryStep, ExpireRows, ExpireUser, ExpireUserFails, ListRewards, CreditMark, CreditFails,
       Lapse, RewardFallsDue, Unconcerned, RecordPcs, requestVars, creditVars, bonusVars

\* The welcome bonus.
LEMMA WelcomesKeep ==
  ASSUME PointsInv, MembershipTypeOK, AccountsTypeOK, NoOverdraft, OverrunNoted,
         NEW t \in MemberTx,
         \/ ReadWelcome(t) \/ RecordWelcome(t) \/ WriteWelcome(t)
         \/ RequestFails(t) /\ mpc[t] \in WelcomePcs
  PROVE  PointsInv'
<1> USE SessionsAssumption
<1>1. mpc[t] # "idle" /\ UNCHANGED creditVars
  BY DEF ReadWelcome, RecordWelcome, WriteWelcome, RequestFails, Step
<1>2. PICK u \in Users : u = mreq[t].user
  BY <1>1 DEF MembershipTypeOK
<1>3. bonus[u] \in Nat
  BY DEF NoOverdraft, AccountsTypeOK
<1>4. CASE ReadWelcome(t)
  <2>1. /\ \A s \in MemberTx \ {t} : mpc'[s] = mpc[s] /\ mreq'[s] = mreq[s] /\ mseen'[s] = mseen[s]
        /\ mpc[t] = "readWelcome" /\ mpc'[t] = "recordWelcome" /\ mseen'[t] = bonus[u]
        /\ UNCHANGED <<mreq, bonus, bonusLog>>
    BY <1>2, <1>4 DEF ReadWelcome, Step, MembershipTypeOK, bonusVars
  <2>2. Only(t, u) /\ Recorded(u)' \ {t} = Recorded(u) \ {t}
    BY <1>1, <1>2, <2>1, SessionOnly
  <2>3. t \notin Recorded(u) /\ t \notin Recorded(u)'
    BY <2>1 DEF Recorded
  <2> QED BY <1>3, <2>1, <2>2, <2>3, PointsRead DEF SeenBy
<1>5. CASE RecordWelcome(t)
  <2>1. /\ \A s \in MemberTx \ {t} : mpc'[s] = mpc[s] /\ mreq'[s] = mreq[s] /\ mseen'[s] = mseen[s]
        /\ mpc[t] = "recordWelcome" /\ mpc'[t] = "writeWelcome"
        /\ bonusLog' = [bonusLog EXCEPT ![u] = @ + RewardAmount]
        /\ UNCHANGED <<mreq, mseen, bonus>>
    BY <1>2, <1>5 DEF RecordWelcome, Step, MembershipTypeOK
  <2>2. /\ \A v \in Users \ {u} : bonusLog'[v] = bonusLog[v]
        /\ bonusLog'[u] = bonusLog[u] + RewardAmount
    BY <2>1 DEF AccountsTypeOK
  <2>3. Only(t, u) /\ Recorded(u)' \ {t} = Recorded(u) \ {t}
    BY <1>1, <1>2, <2>1, <2>2, SessionOnly
  <2>4. t \in Writers(u) /\ t \notin Recorded(u) /\ t \in Recorded(u)'
    BY <1>2, <2>1 DEF Recorded, Writers
  <2> QED BY <2>1, <2>2, <2>3, <2>4, PointsRecorded DEF SeenBy
<1>6. CASE WriteWelcome(t)
  <2>1. /\ \A s \in MemberTx \ {t} : mpc'[s] = mpc[s] /\ mreq'[s] = mreq[s] /\ mseen'[s] = mseen[s]
        /\ mpc[t] = "writeWelcome" /\ mpc'[t] = "idle"
        /\ bonus' = [bonus EXCEPT ![u] = mseen[t] + RewardAmount] /\ UNCHANGED bonusLog
    BY <1>2, <1>6 DEF WriteWelcome, EndRequest, MembershipTypeOK
  <2>2. /\ \A v \in Users \ {u} : bonus'[v] = bonus[v]
        /\ bonus'[u] = SeenBy(t) + RewardAmount
    BY <2>1 DEF AccountsTypeOK, SeenBy
  <2>3. Only(t, u) /\ Recorded(u)' \ {t} = Recorded(u) \ {t}
    BY <1>1, <1>2, <2>1, <2>2, SessionOnly DEF WelcomePcs
  <2>4. t \in Recorded(u) /\ t \notin Recorded(u)' /\ t \notin Writers(u)'
    BY <1>2, <2>1 DEF Recorded, Writers
  <2>5. Writers(u)' = Writers(u) \ {t} /\ Recorded(u)' = Recorded(u) \ {t}
    BY <2>3, <2>4 DEF Only
  <2> QED BY <2>1, <2>2, <2>3, <2>4, <2>5, PointsWritten
<1>7. CASE RequestFails(t) /\ mpc[t] \in WelcomePcs
  <2>1. /\ \A s \in MemberTx \ {t} : mpc'[s] = mpc[s] /\ mreq'[s] = mreq[s] /\ mseen'[s] = mseen[s]
        /\ mpc'[t] = "idle" /\ UNCHANGED <<bonus, bonusLog>>
    BY <1>7 DEF RequestFails, EndRequest, MembershipTypeOK, bonusVars
  <2>2. Only(t, u) /\ Recorded(u)' \ {t} = Recorded(u) \ {t}
    BY <1>1, <1>2, <2>1, SessionOnly DEF WelcomePcs
  <2>3. t \notin Recorded(u)' /\ t \notin Writers(u)'
    BY <2>1 DEF Recorded, Writers
  <2>4. Writers(u)' = Writers(u) \ {t} /\ Recorded(u)' = Recorded(u) \ {t}
    BY <2>2, <2>3 DEF Only
  <2> QED BY <2>1, <2>2, <2>4, PointsGivenUp
<1> QED BY <1>4, <1>5, <1>6, <1>7

\* The reward of the referrer.
LEMMA CreditsKeep ==
  ASSUME PointsInv, MembershipInv, NoOverdraft, OverrunNoted,
         \/ \E v \in Users : CreditRead(v)
         \/ CreditRecord \/ CreditWrite
         \/ CreditFails /\ creditPc \in RecordPcs
  PROVE  PointsInv'
<1> USE SessionsAssumption
<1>1. /\ MembershipTypeOK /\ AccountsTypeOK /\ UNCHANGED requestVars
      /\ \A u \in Users : bonus[u] \in Nat
  BY DEF MembershipInv, CreditRead, CreditRecord, CreditWrite, CreditFails, NoOverdraft,
         AccountsTypeOK
<1>2. ASSUME creditPc # "idle"
      PROVE  ReferredBy[creditFor] \in Users
  BY <1>2 DEF MembershipInv, MembershipTypeOK, CreditInv, RewardsReferred
<1>3. ASSUME NEW v \in Users, CreditRead(v)
      PROVE  PointsInv'
  <2>1. PICK u \in Users : u = ReferredBy[v]
    BY <1>3 DEF CreditRead, MembershipInv, CreditInv, RewardsReferred
  <2>2. /\ creditPc = "idle" /\ creditPc' = "record" /\ creditFor' = v /\ creditSeen' = bonus[u]
        /\ UNCHANGED <<bonus, bonusLog>>
    BY <1>3, <2>1 DEF CreditRead, bonusVars
  <2>3. Only(Nobody, u) /\ Recorded(u)' \ {Nobody} = Recorded(u) \ {Nobody}
    BY <1>1, <2>1, <2>2, WorkerOnly DEF RecordPcs
  <2>4. Nobody \notin Recorded(u) /\ Nobody \notin Recorded(u)'
    BY <2>2 DEF Recorded
  <2> QED BY <1>1, <2>2, <2>3, <2>4, PointsRead DEF SeenBy
<1>4. CASE CreditRecord
  <2>1. PICK u \in Users : u = ReferredBy[creditFor]
    BY <1>2, <1>4 DEF CreditRecord
  <2>2. /\ creditPc = "record" /\ creditPc' = "write" /\ UNCHANGED <<creditFor, creditSeen, bonus>>
        /\ bonusLog' = [bonusLog EXCEPT ![u] = @ + RewardAmount]
    BY <1>4, <2>1 DEF CreditRecord
  <2>3. /\ \A v \in Users \ {u} : bonusLog'[v] = bonusLog[v]
        /\ bonusLog'[u] = bonusLog[u] + RewardAmount
    BY <1>1, <2>2 DEF AccountsTypeOK
  <2>4. Only(Nobody, u) /\ Recorded(u)' \ {Nobody} = Recorded(u) \ {Nobody}
    BY <1>1, <2>1, <2>2, <2>3, WorkerOnly
  <2>5. Nobody \in Writers(u) /\ Nobody \notin Recorded(u) /\ Nobody \in Recorded(u)'
    BY <2>1, <2>2 DEF Recorded, Writers
  <2> QED BY <1>1, <2>2, <2>3, <2>4, <2>5, PointsRecorded DEF SeenBy
<1>5. CASE CreditWrite
  <2>1. PICK u \in Users : u = ReferredBy[creditFor]
    BY <1>2, <1>5 DEF CreditWrite
  <2>2. /\ creditPc = "write" /\ creditPc' = "mark" /\ UNCHANGED bonusLog
        /\ bonus' = [bonus EXCEPT ![u] = creditSeen + RewardAmount]
    BY <1>5, <2>1 DEF CreditWrite
  <2>3. /\ \A v \in Users \ {u} : bonus'[v] = bonus[v]
        /\ bonus'[u] = SeenBy(Nobody) + RewardAmount
    BY <1>1, <2>2 DEF AccountsTypeOK, SeenBy
  <2>4. Only(Nobody, u) /\ Recorded(u)' \ {Nobody} = Recorded(u) \ {Nobody}
    BY <1>1, <2>1, <2>2, <2>3, WorkerOnly DEF RecordPcs
  <2>5. Nobody \in Recorded(u) /\ Nobody \notin Recorded(u)' /\ Nobody \notin Writers(u)'
    BY <2>1, <2>2 DEF Recorded, Writers
  <2>6. Writers(u)' = Writers(u) \ {Nobody} /\ Recorded(u)' = Recorded(u) \ {Nobody}
    BY <2>4, <2>5 DEF Only
  <2> QED BY <1>1, <2>2, <2>3, <2>4, <2>5, <2>6, PointsWritten
<1>6. CASE CreditFails /\ creditPc \in RecordPcs
  <2>1. PICK u \in Users : u = ReferredBy[creditFor]
    BY <1>2, <1>6 DEF CreditFails
  <2>2. creditPc' = "idle" /\ UNCHANGED <<bonus, bonusLog>>
    BY <1>6 DEF CreditFails, bonusVars
  <2>3. Only(Nobody, u) /\ Recorded(u)' \ {Nobody} = Recorded(u) \ {Nobody}
    BY <1>1, <2>1, <2>2, WorkerOnly DEF RecordPcs
  <2>4. Nobody \notin Recorded(u)' /\ Nobody \notin Writers(u)'
    BY <2>2 DEF Recorded, Writers
  <2>5. Writers(u)' = Writers(u) \ {Nobody} /\ Recorded(u)' = Recorded(u) \ {Nobody}
    BY <2>3, <2>4 DEF Only
  <2> QED BY <2>2, <2>3, <2>5, PointsGivenUp
<1> QED BY <1>3, <1>4, <1>5, <1>6
-----------------------------------------------------------------------------
(* The invariant of both together                                          *)

LoyaltyInv == OrdersInv /\ MembershipInv /\ PointsInv

LEMMA LoyaltyInitInv == LoyaltyInit => LoyaltyInv
<1> SUFFICES ASSUME LoyaltyInit PROVE LoyaltyInv
  OBVIOUS
<1>1. OrdersInv /\ MembershipInv
  BY OrdersInitInv, MembershipInitInv DEF LoyaltyInit, OrdersInitAll, MembershipInitAll
<1>2. \A u \in Users : Writers(u) = {} /\ Recorded(u) = {}
  BY DEF LoyaltyInit, MembershipInit, Writers, Recorded
<1>3. /\ Cardinality({}) = 0 /\ IsFiniteSet({})
  BY FS_EmptySet
<1>4. \A u \in Users : bonusLog[u] = bonus[u] + RewardAmount * 0
  <2>1. \A x \in Nat : x + RewardAmount * 0 = x
    BY ReferralAssumption
  <2>2. \A u \in Users : bonusLog[u] = bonus[u] /\ bonus[u] \in Nat
    BY OpeningAssumption DEF LoyaltyInit, AccountsInit
  <2> QED BY <2>1, <2>2
<1> QED BY <1>1, <1>2, <1>3, <1>4 DEF LoyaltyInv, PointsInv, Straight

\* Bonuses keep their hands off what orders have locked, and take nothing.
LEMMA BonusesGive ==
  ASSUME MembershipInv, PointsInv, NoOverdraft, MembershipNext
  PROVE  /\ UNCHANGED <<cashVars, bonusLock>>
         /\ \A u \in Users : bonus'[u] = bonus[u] \/ (bonusLock[u] = Free /\ bonus'[u] \in Nat)
<1> USE ReferralAssumption
<1>1. MembershipTypeOK /\ AccountsTypeOK
  BY DEF MembershipInv
<1>2. ASSUME NEW t \in MemberTx, WriteWelcome(t)
      PROVE  /\ UNCHANGED <<cashVars, bonusLock>>
             /\ \A u \in Users : bonus'[u] = bonus[u] \/ (bonusLock[u] = Free /\ bonus'[u] \in Nat)
  <2>1. PICK v \in Users : v = mreq[t].user
    BY <1>1, <1>2 DEF WriteWelcome, MembershipTypeOK
  <2>2. mseen[t] \in Nat
    <3>1. t \in Writers(v) /\ t # Nobody
      BY <1>2, <2>1, SessionsAssumption DEF WriteWelcome, Writers
    <3> QED BY <3>1 DEF PointsInv, SeenBy
  <2> QED BY <1>1, <1>2, <2>1, <2>2 DEF WriteWelcome, AccountsTypeOK
<1>3. ASSUME CreditWrite
      PROVE  /\ UNCHANGED <<cashVars, bonusLock>>
             /\ \A u \in Users : bonus'[u] = bonus[u] \/ (bonusLock[u] = Free /\ bonus'[u] \in Nat)
  <2>1. PICK v \in Users : v = ReferredBy[creditFor]
    BY <1>3 DEF CreditWrite, MembershipInv, MembershipTypeOK, CreditInv, RewardsReferred
  <2>2. creditSeen \in Nat
    <3>1. Nobody \in Writers(v)
      BY <1>3, <2>1 DEF CreditWrite, Writers
    <3> QED BY <3>1 DEF PointsInv, SeenBy
  <2> QED BY <1>1, <1>3, <2>1, <2>2 DEF CreditWrite, AccountsTypeOK
<1>4. ASSUME NEW t \in MemberTx,
             MemberRequest(t) \/ RequestFails(t) \/ (MemberStep(t) /\ ~ WriteWelcome(t))
      PROVE  UNCHANGED <<cashVars, bonus, bonusLock>>
  BY <1>4 DEF MemberRequest, MemberStep, RequestVerification, ResetVerification, UpdateVerification,
              InsertVerification, CloseOthers, SetStudent, SetExpiry, FindReferrer, CheckReward,
              CreateReward, ReadWelcome, RecordWelcome, ResetStudent, RequestFails, bonusVars
<1>5. ASSUME \/ ExpiryStep \/ CreditFails \/ (CreditStep /\ ~ CreditWrite)
             \/ (\E v \in VerifIds : Lapse(v)) \/ (\E u \in Users : RewardFallsDue(u))
      PROVE  UNCHANGED <<cashVars, bonus, bonusLock>>
  BY <1>5 DEF ExpiryStep, ExpireRows, ExpireUser, ExpireUserFails, CreditFails, CreditStep,
              ListRewards, CreditRecord, CreditMark, CreditRead, Lapse, RewardFallsDue, bonusVars
<1> QED BY <1>2, <1>3, <1>4, <1>5 DEF MembershipNext, MemberStep, CreditStep

LEMMA LoyaltyNextKeeps ==
  ASSUME LoyaltyInv, LoyaltyNext
  PROVE  LoyaltyInv'
<1>1. /\ OrdersInv /\ MembershipInv /\ PointsInv /\ AccountsTypeOK /\ MembershipTypeOK
      /\ NoOverdraft /\ BalanceMatchesLedger /\ OverrunNoted
  BY DEF LoyaltyInv, LoyaltyNext, OrdersInv, BooksAgree, MembershipInv, OverrunNoted
<1>2. CASE OrdersNext /\ UNCHANGED memberVars
  <2>1. OrdersInv' /\ AccountsTypeOK'
    BY <1>1, <1>2, OrdersNextKeeps DEF OrdersInv
  <2>2. MembershipInv'
    BY <1>1, <1>2, <2>1, MembershipEnvironment
  <2>3. \A u \in Users : bonus'[u] - bonusLog'[u] = bonus[u] - bonusLog[u]
    BY <1>1, <1>2, BonusMovesWithLog
  <2>4. /\ \A u \in Users : Writers(u)' = Writers(u) /\ Recorded(u)' = Recorded(u)
        /\ \A u \in Users : \A w \in Writers(u) : SeenBy(w)' = SeenBy(w)
    BY <1>2 DEF memberVars, creditVars, requestVars, Writers, Recorded, SeenBy
  <2>5. PointsInv'
    BY <1>1, <2>1, <2>3, <2>4, PointsAside
  <2> QED BY <2>1, <2>2, <2>5 DEF LoyaltyInv
<1>3. CASE MembershipNext /\ UNCHANGED orderVars
  <2>1. MembershipInv' /\ AccountsTypeOK'
    BY <1>1, <1>3, MembershipNextKeeps DEF MembershipInv
  <2>2. /\ UNCHANGED <<cashVars, bonusLock>>
        /\ \A u \in Users : bonus'[u] = bonus[u] \/ (bonusLock[u] = Free /\ bonus'[u] \in Nat)
    BY <1>1, <1>3, BonusesGive
  <2>3. BalanceMatchesLedger' /\ NoOverdraft'
    BY <1>1, <2>2 DEF BalanceMatchesLedger, NoOverdraft, cashVars
  <2>4. OrdersInv'
    <3>1. \A u \in Users : bonusLock[u] \in OrderTx =>
            bonusLock'[u] = bonusLock[u] /\ bonus'[u] = bonus[u]
      BY <2>2, OrderTxAssumption, FreeIsNoTx
    <3>2. \A u \in Users : cashLock[u] \in OrderTx =>
            cashLock'[u] = cashLock[u] /\ cash'[u] = cash[u]
      BY <2>2 DEF cashVars
    <3> QED BY <1>1, <1>3, <2>1, <2>3, <3>1, <3>2, OrdersEnvironment
  <2>5. PointsInv'
    <3>1. ASSUME Unconcerned
          PROVE  PointsInv'
      BY <1>1, <2>1, <3>1, UnconcernedKeeps
    <3>2. ASSUME NEW t \in MemberTx, MemberRequest(t) \/ MemberStep(t) \/ RequestFails(t)
          PROVE  PointsInv'
      BY <1>1, <3>1, <3>2, RequestsUnconcerned, WelcomesKeep DEF MemberStep
    <3>3. CASE \/ ExpiryStep \/ CreditStep \/ CreditFails
               \/ (\E v \in VerifIds : Lapse(v)) \/ (\E u \in Users : RewardFallsDue(u))
      BY <1>1, <3>1, <3>3, WorkersUnconcerned, CreditsKeep DEF CreditStep
    <3> QED BY <1>3, <3>2, <3>3 DEF MembershipNext
  <2> QED BY <2>1, <2>4, <2>5 DEF LoyaltyInv
<1> QED BY <1>2, <1>3 DEF LoyaltyNext

LEMMA LoyaltyStutters ==
  ASSUME LoyaltyInv, UNCHANGED loyaltyVars
  PROVE  LoyaltyInv'
<1> USE DEF loyaltyVars, cashVars, bonusVars
<1>1. /\ OrdersInv /\ MembershipInv /\ AccountsTypeOK /\ NoOverdraft /\ BalanceMatchesLedger
  BY DEF LoyaltyInv, OrdersInv, BooksAgree
<1>2. AccountsTypeOK' /\ NoOverdraft' /\ BalanceMatchesLedger'
  BY <1>1 DEF AccountsTypeOK, NoOverdraft, BalanceMatchesLedger
<1>3. OrdersInv' /\ MembershipInv'
  BY <1>1, <1>2, OrdersEnvironment, MembershipEnvironment
<1>4. PointsInv'
  BY DEF LoyaltyInv, PointsInv, Straight, Writers, Recorded, SeenBy, memberVars, creditVars,
         requestVars
<1> QED BY <1>3, <1>4 DEF LoyaltyInv

LEMMA LoyaltyInvariant == LoyaltySpec => []LoyaltyInv
<1>1. LoyaltyInv /\ [LoyaltyNext]_loyaltyVars => LoyaltyInv'
  BY LoyaltyNextKeeps, LoyaltyStutters
<1> QED BY <1>1, LoyaltyInitInv, PTL DEF LoyaltySpec

\* Points are lost or made only where a bonus overwrote a balance that had
\* changed since it was read, or was cut short between its record and the
\* balance; for any number of buyers, approvals, workers' rounds and failures
\* (creditReward, UpdateVerification, CreateOrder, RefundOrder).
THEOREM PointsAstrayOnlyIfOverrun == LoyaltySpec => []AstrayOnlyIfOverrun
<1>1. LoyaltyInv => AstrayOnlyIfOverrun
  BY DEF LoyaltyInv, PointsInv, Straight, AstrayOnlyIfOverrun
<1> QED BY <1>1, LoyaltyInvariant, PTL

\* Even then nobody's wallet and nobody's points fall below zero: a bonus is
\* written only while no order holds the account, and what it writes is a
\* balance somebody once had and the bonus (CreateOrder, WriteWelcome of an
\* approval, creditReward).
THEOREM LoyaltyOverdrawsNobody == LoyaltySpec => []NoOverdraft
<1>1. LoyaltyInv => NoOverdraft
  BY DEF LoyaltyInv, OrdersInv, BooksAgree
<1> QED BY <1>1, LoyaltyInvariant, PTL

\* Whatever happens to the points, the partner's order is given back once, the
\* wallet is its ledger and each bonus is given once: the unlocked writes of
\* one component do not reach the books of the other.
THEOREM LoyaltyKeepsBooks ==
  LoyaltySpec => []( /\ BalanceMatchesLedger /\ MerchantMatchesJournal /\ PartnerRefundedOnce
                     /\ WelcomedOnce /\ CreditedAgainOnlyAfterFault /\ MarkedWasCredited)
<1>1. LoyaltyInv => BalanceMatchesLedger /\ MerchantMatchesJournal
  BY DEF LoyaltyInv, OrdersInv, BooksAgree
<1>2. LoyaltyInv => PartnerRefundedOnce
  BY RefundedOnce DEF LoyaltyInv
<1>3. LoyaltyInv => WelcomedOnce /\ CreditedAgainOnlyAfterFault /\ MarkedWasCredited
  BY DEF LoyaltyInv, MembershipInv, MembershipTypeOK, WelcomeInv, CreditInv,
         CreditedAgainOnlyAfterFault, MarkedWasCredited
<1> QED BY <1>1, <1>2, <1>3, LoyaltyInvariant, PTL
-----------------------------------------------------------------------------
(* What approvals and the worker leave alone: the money, and the locks.    *)

CashAccounted ==
  \A u \in Users : cash[u] = OpeningCash[u] - SumFunctionOnSet(MoneyPaid, OrdersOf(u))

CashKept == \A u \in Users : CashWorth(u) = OpeningCash[u]

LEMMA LoyaltyMoney == LoyaltySpec => [](MoneyInv /\ CashKept)
<1>1. LoyaltyInit => MoneyInv /\ CashKept
  BY MoneyInitially, WorthInitially DEF LoyaltyInit, OrdersInitAll, CashKept
<1>2. ASSUME LoyaltyInv, MoneyInv, CashKept, [LoyaltyNext]_loyaltyVars
      PROVE  MoneyInv' /\ CashKept'
  <2>1. CASE OrdersNext
    BY <1>2, <2>1, OrdersNextMoney DEF LoyaltyInv, CashKept, WorthKept
  <2>2. CASE UNCHANGED orderVars /\ UNCHANGED cash
    BY <1>2, <2>2, MoneyOutside DEF CashKept, CashWorth
  <2>3. CASE MembershipNext /\ UNCHANGED orderVars
    BY <1>2, <2>2, <2>3, BonusesGive DEF LoyaltyInv, MembershipInv, OrdersInv, BooksAgree, cashVars
  <2> QED BY <1>2, <2>1, <2>2, <2>3 DEF LoyaltyNext, loyaltyVars, cashVars
<1> QED BY <1>1, <1>2, LoyaltyInvariant, PTL DEF LoyaltySpec

\* While bonuses are written past the lock of the points, the wallets still
\* lack exactly the price of the orders not refunded and partners hold exactly
\* their earnings (CreateOrder, RefundOrder beside creditReward).
THEOREM LoyaltyAccountsForMoney ==
  LoyaltySpec => [](CashAccounted /\ PartnerAccounted /\ OpeningNeverOverpays)
<1>1. ASSUME LoyaltyInv, MoneyInv, CashKept, NEW u \in Users
      PROVE  cash[u] = OpeningCash[u] - SumFunctionOnSet(MoneyPaid, OrdersOf(u))
  <2>1. CashWorth(u) = OpeningCash[u]
    BY <1>1 DEF CashKept
  <2> QED BY <1>1, <2>1, SpendingIsTyped DEF LoyaltyInv, CashWorth
<1>2. LoyaltyInv /\ MoneyInv => PartnerAccounted /\ OpeningNeverOverpays
  BY PartnersAccounted DEF LoyaltyInv, MoneyInv
<1>3. LoyaltyInv /\ MoneyInv /\ CashKept => CashAccounted
  BY <1>1 DEF CashAccounted
<1> QED BY <1>2, <1>3, LoyaltyInvariant, LoyaltyMoney, PTL

-----------------------------------------------------------------------------
(* Where the points came from and went.                                    *)

\* What a user ever got in points is what bonus_transactions show, had no
\* order cost any.
LogAccounted ==
  \A u \in Users :
    bonusLog[u] + SumFunctionOnSet(PointsPaid, OrdersOf(u))
      = OpeningBonus[u] + RewardAmount * BonusesOf(u)

\* A bonus is recorded together with its points, for one user at a time.
WelcomeRecorded(u) ==
  /\ welcomes' = [welcomes EXCEPT ![u] = @ + 1]
  /\ bonusLog' = [bonusLog EXCEPT ![u] = @ + RewardAmount]
  /\ UNCHANGED credits

RewardRecorded(v) ==
  /\ credits' = [credits EXCEPT ![v] = @ + 1]
  /\ bonusLog' = [bonusLog EXCEPT ![ReferredBy[v]] = @ + RewardAmount]
  /\ UNCHANGED welcomes

LEMMA BonusesRecorded ==
  ASSUME MembershipInv, MembershipNext
  PROVE  \/ UNCHANGED <<bonusLog, welcomes, credits>>
         \/ \E u \in Users : WelcomeRecorded(u)
         \/ \E v \in Users : ReferredBy[v] \in Users /\ RewardRecorded(v)
<1>1. ASSUME NEW t \in MemberTx,
             MemberRequest(t) \/ RequestFails(t) \/ (MemberStep(t) /\ ~ RecordWelcome(t))
      PROVE  UNCHANGED <<bonusLog, welcomes, credits>>
  BY <1>1 DEF MemberRequest, MemberStep, RequestVerification, ResetVerification, UpdateVerification,
              InsertVerification, CloseOthers, SetStudent, SetExpiry, FindReferrer, CheckReward,
              CreateReward, ReadWelcome, WriteWelcome, ResetStudent, RequestFails, bonusVars,
              rewardVars
<1>2. ASSUME NEW t \in MemberTx, RecordWelcome(t)
      PROVE  \E u \in Users : WelcomeRecorded(u)
  <2>1. mreq[t].user \in Users
    BY <1>2 DEF RecordWelcome, Step, MembershipInv, MembershipTypeOK
  <2> QED BY <1>2, <2>1 DEF RecordWelcome, WelcomeRecorded
<1>3. ASSUME CreditRecord
      PROVE  \E v \in Users : ReferredBy[v] \in Users /\ RewardRecorded(v)
  <2>1. creditFor \in Users /\ ReferredBy[creditFor] \in Users
    BY <1>3 DEF CreditRecord, MembershipInv, MembershipTypeOK, CreditInv, RewardsReferred
  <2> QED BY <1>3, <2>1 DEF CreditRecord, RewardRecorded
<1>4. ASSUME \/ ExpiryStep \/ CreditFails \/ (CreditStep /\ ~ CreditRecord)
             \/ (\E v \in VerifIds : Lapse(v)) \/ (\E u \in Users : RewardFallsDue(u))
      PROVE  UNCHANGED <<bonusLog, welcomes, credits>>
  BY <1>4 DEF ExpiryStep, ExpireRows, ExpireUser, ExpireUserFails, CreditFails, CreditStep,
              ListRewards, CreditWrite, CreditMark, CreditRead, Lapse, RewardFallsDue, bonusVars,
              rewardVars
<1> QED BY <1>1, <1>2, <1>3, <1>4 DEF MembershipNext, MemberStep, CreditStep

\* The rewards credited to a user are counted by a number.
LEMMA BonusesCounted ==
  ASSUME IsFiniteSet(Users), MembershipTypeOK, NEW u \in Users
  PROVE  /\ IsFiniteSet({v \in Users : ReferredBy[v] = u})
         /\ SumFunctionOnSet(credits, {v \in Users : ReferredBy[v] = u}) \in Nat
         /\ BonusesOf(u) \in Nat
<1> DEFINE R == {v \in Users : ReferredBy[v] = u}
<1>1. R \subseteq Users /\ IsFiniteSet(R)
  BY FS_Subset
<1>2. \A v \in R : credits[v] \in Nat
  BY DEF MembershipTypeOK
<1>3. SumFunctionOnSet(credits, R) \in Nat
  <2> HIDE DEF R
  <2> QED BY <1>1, <1>2, SumNonNegative
<1>4. welcomes[u] \in Nat
  BY DEF MembershipTypeOK
<1> QED BY <1>1, <1>3, <1>4 DEF BonusesOf

\* Points recorded and bonuses counted grow together.
LEMMA BonusesGrow ==
  ASSUME IsFiniteSet(Users), MembershipInv, MembershipInv', MembershipNext, NEW u \in Users
  PROVE  \/ bonusLog'[u] = bonusLog[u] /\ BonusesOf(u)' = BonusesOf(u)
         \/ bonusLog'[u] = bonusLog[u] + RewardAmount /\ BonusesOf(u)' = BonusesOf(u) + 1
<1> DEFINE R == {v \in Users : ReferredBy[v] = u}
<1>1. MembershipTypeOK /\ AccountsTypeOK /\ MembershipTypeOK'
  BY DEF MembershipInv
<1>2. welcomes[u] \in Nat /\ SumFunctionOnSet(credits, R) \in Nat /\ IsFiniteSet(R)
  BY <1>1, BonusesCounted DEF MembershipTypeOK
<1>3. CASE UNCHANGED <<bonusLog, welcomes, credits>>
  BY <1>3 DEF BonusesOf
<1>4. ASSUME NEW w \in Users, WelcomeRecorded(w)
      PROVE  \/ bonusLog'[u] = bonusLog[u] /\ BonusesOf(u)' = BonusesOf(u)
             \/ bonusLog'[u] = bonusLog[u] + RewardAmount /\ BonusesOf(u)' = BonusesOf(u) + 1
  <2>1. CASE u = w
    <3>1. bonusLog'[u] = bonusLog[u] + RewardAmount /\ welcomes'[u] = welcomes[u] + 1
      BY <1>1, <1>4, <2>1 DEF WelcomeRecorded, MembershipTypeOK, AccountsTypeOK
    <3>2. credits' = credits
      BY <1>4 DEF WelcomeRecorded
    <3> HIDE DEF R
    <3>3. welcomes[u] + 1 + SumFunctionOnSet(credits, R)
            = welcomes[u] + SumFunctionOnSet(credits, R) + 1
      BY <1>2
    <3> QED BY <3>1, <3>2, <3>3 DEF BonusesOf, R
  <2>2. CASE u # w
    BY <1>1, <1>4, <2>2 DEF WelcomeRecorded, BonusesOf, MembershipTypeOK, AccountsTypeOK
  <2> QED BY <2>1, <2>2
<1>5. ASSUME NEW w \in Users, ReferredBy[w] \in Users, RewardRecorded(w)
      PROVE  \/ bonusLog'[u] = bonusLog[u] /\ BonusesOf(u)' = BonusesOf(u)
             \/ bonusLog'[u] = bonusLog[u] + RewardAmount /\ BonusesOf(u)' = BonusesOf(u) + 1
  <2>1. \A v \in Users : /\ credits[v] \in Int /\ credits'[v] \in Int
                         /\ credits'[v] = IF v = w THEN credits[v] + 1 ELSE credits[v]
    BY <1>1, <1>5 DEF RewardRecorded, MembershipTypeOK
  <2>2. welcomes' = welcomes
    BY <1>5 DEF RewardRecorded
  <2>3. CASE ReferredBy[w] = u
    <3>1. bonusLog'[u] = bonusLog[u] + RewardAmount
      BY <1>1, <1>5, <2>3 DEF RewardRecorded, AccountsTypeOK
    <3>2. w \in R /\ R \subseteq Users
      BY <2>3
    <3>3. \A v \in R : credits[v] \in Int /\ credits'[v] \in Int
      BY <2>1, <3>2
    <3>4. \A v \in R \ {w} : credits'[v] = credits[v]
      BY <2>1, <3>2
    <3> HIDE DEF R
    <3>5. SumFunctionOnSet(credits', R) = SumFunctionOnSet(credits, R) + (credits'[w] - credits[w])
      BY <1>2, <3>2, <3>3, <3>4, SumChanged
    <3>6. credits'[w] - credits[w] = 1
      BY <2>1
    <3>7. welcomes[u] + SumFunctionOnSet(credits', R)
            = welcomes[u] + SumFunctionOnSet(credits, R) + 1
      BY <1>2, <3>5, <3>6
    <3> QED BY <2>2, <3>1, <3>7 DEF BonusesOf, R
  <2>4. CASE ReferredBy[w] # u
    <3>1. bonusLog'[u] = bonusLog[u]
      BY <1>1, <1>5, <2>4 DEF RewardRecorded, AccountsTypeOK
    <3>2. \A v \in R : credits[v] = credits'[v]
      BY <2>1, <2>4
    <3> HIDE DEF R
    <3>3. SumFunctionOnSet(credits, R) = SumFunctionOnSet(credits', R)
      BY <1>2, <3>2, SumSame
    <3> QED BY <2>2, <3>1, <3>3 DEF BonusesOf, R
  <2> QED BY <2>3, <2>4
<1> QED BY <1>3, <1>4, <1>5, BonusesRecorded

\* Arithmetic of one bonus: left to itself, the product disappears in R and RR.
LEMMA OneBonusMore ==
  ASSUME NEW b \in Nat
  PROVE  RewardAmount * (b + 1) = RewardAmount * b + RewardAmount /\ RewardAmount * b \in Nat
BY ReferralAssumption

PointsSpent == \A u \in Users : SumFunctionOnSet(PointsPaid, OrdersOf(u)) \in Int

LEMMA LogKept ==
  ASSUME IsFiniteSet(Users), LoyaltyInv, LoyaltyInv', MoneyInv, PointsSpent', LogAccounted,
         LoyaltyNext
  PROVE  LogAccounted'
<1>1. SUFFICES ASSUME NEW u \in Users
               PROVE  bonusLog'[u] + SumFunctionOnSet(PointsPaid', OrdersOf(u)')
                        = OpeningBonus[u] + RewardAmount * BonusesOf(u)'
  BY DEF LogAccounted
<1>2. /\ OrdersInv /\ MembershipInv /\ MembershipInv' /\ MembershipTypeOK
      /\ AccountsTypeOK /\ AccountsTypeOK'
  BY DEF LoyaltyInv, MembershipInv
<1> DEFINE spent == SumFunctionOnSet(PointsPaid, OrdersOf(u))
           after == SumFunctionOnSet(PointsPaid', OrdersOf(u)')
           b == BonusesOf(u)
<1>3. /\ spent \in Int /\ b \in Nat /\ OpeningBonus[u] \in Int /\ RewardAmount \in Nat
      /\ bonusLog[u] \in Int /\ bonus[u] \in Int /\ bonusLog'[u] \in Int /\ bonus'[u] \in Int
  <2>1. spent \in Int
    BY <1>2, SpendingIsTyped DEF LoyaltyInv
  <2>2. b \in Nat
    BY <1>2, BonusesCounted
  <2> HIDE DEF spent, b
  <2> QED BY <1>2, <2>1, <2>2, OpeningAssumption, ReferralAssumption DEF AccountsTypeOK
<1>4. bonusLog[u] + spent = OpeningBonus[u] + RewardAmount * b
  BY DEF LogAccounted
<1>5. CASE OrdersNext /\ UNCHANGED memberVars
  <2>1. bonus'[u] - bonusLog'[u] = bonus[u] - bonusLog[u]
    BY <1>2, <1>5, BonusMovesWithLog
  <2>2. bonus'[u] + after = bonus[u] + spent
    BY <1>2, <1>5, OrdersNextMoney DEF WorthKept, PointsWorth
  <2>3. after \in Int
    BY DEF PointsSpent
  <2>4. BonusesOf(u)' = b
    BY <1>5 DEF BonusesOf, memberVars, rewardVars
  <2> HIDE DEF spent, after
  <2>5. bonusLog'[u] + after = bonusLog[u] + spent
    BY <1>3, <2>1, <2>2, <2>3
  <2> QED BY <1>4, <2>4, <2>5 DEF after
<1>6. CASE MembershipNext /\ UNCHANGED orderVars
  <2>1. after = spent
    BY <1>6, MoneyOutside
  <2>2. \/ bonusLog'[u] = bonusLog[u] /\ BonusesOf(u)' = b
        \/ bonusLog'[u] = bonusLog[u] + RewardAmount /\ BonusesOf(u)' = b + 1
    BY <1>2, <1>6, BonusesGrow
  <2>3. /\ RewardAmount * (b + 1) = RewardAmount * b + RewardAmount
        /\ RewardAmount * b \in Nat
    BY <1>3, OneBonusMore
  <2> DEFINE B == RewardAmount * b
             BB == RewardAmount * BonusesOf(u)'
  <2>4. \/ bonusLog'[u] = bonusLog[u] /\ BB = B
        \/ bonusLog'[u] = bonusLog[u] + RewardAmount /\ BB = B + RewardAmount
    BY <2>2, <2>3
  <2>5. B \in Nat /\ bonusLog[u] + spent = OpeningBonus[u] + B
    BY <1>4, <2>3
  <2> HIDE DEF spent, B, BB
  <2>6. bonusLog'[u] + spent = OpeningBonus[u] + BB
    BY <1>3, <2>4, <2>5
  <2> QED BY <2>1, <2>6 DEF BB
<1> QED BY <1>5, <1>6 DEF LoyaltyNext

LEMMA LogInitially ==
  ASSUME IsFiniteSet(Users), LoyaltyInit
  PROVE  LogAccounted
<1> SUFFICES ASSUME NEW u \in Users
             PROVE  bonusLog[u] + SumFunctionOnSet(PointsPaid, OrdersOf(u))
                      = OpeningBonus[u] + RewardAmount * BonusesOf(u)
  BY DEF LogAccounted
<1> DEFINE R == {v \in Users : ReferredBy[v] = u}
<1>1. OrdersOf(u) = {}
  BY DEF LoyaltyInit, OrdersInit, OrdersOf, Existing, Exists
<1>2. SumFunctionOnSet(PointsPaid, OrdersOf(u)) = 0
  BY <1>1, SumEmpty
<1>3. BonusesOf(u) = 0
  <2>1. IsFiniteSet(R) /\ \A v \in R : credits[v] = 0
    BY FS_Subset DEF LoyaltyInit, MembershipInit
  <2>2. SumFunctionOnSet(credits, R) = 0
    <3> HIDE DEF R
    <3> QED BY <2>1, SumZero
  <2>3. welcomes[u] = 0
    BY DEF LoyaltyInit, MembershipInit
  <2> QED BY <2>2, <2>3 DEF BonusesOf
<1>4. bonusLog[u] = OpeningBonus[u] /\ OpeningBonus[u] \in Int /\ RewardAmount \in Nat
  BY OpeningAssumption, ReferralAssumption DEF LoyaltyInit, AccountsInit
<1> QED BY <1>2, <1>3, <1>4

\* Whatever the balances have lost or made, bonus_transactions account for
\* every point of every user: opening balance, the welcome, each reward as
\* often as it was credited, less the orders that were not refunded; and the
\* balance of a user who was not overrun is accounted for with them
\* (creditReward, UpdateVerification, CreateOrder, RefundOrder).
THEOREM LoyaltyAccountsForPoints ==
  ASSUME IsFiniteSet(Users)
  PROVE  LoyaltySpec => []PointsAccounted
<1>1. LoyaltyInit => LogAccounted
  BY LogInitially
<1>2. ASSUME LoyaltyInv, LoyaltyInv', MoneyInv, PointsSpent', LogAccounted,
             [LoyaltyNext]_loyaltyVars
      PROVE  LogAccounted'
  <2>1. CASE LoyaltyNext
    BY <1>2, <2>1, LogKept
  <2>2. CASE UNCHANGED loyaltyVars
    <3>1. UNCHANGED orderVars /\ bonusLog' = bonusLog
          /\ \A u \in Users : BonusesOf(u)' = BonusesOf(u)
      BY <2>2 DEF loyaltyVars, memberVars, rewardVars, bonusVars, BonusesOf
    <3> QED BY <1>2, <3>1, MoneyOutside DEF LogAccounted
  <2> QED BY <1>2, <2>1, <2>2
<1>3. ASSUME LoyaltyInv, MoneyInv, LogAccounted
      PROVE  PointsAccounted
  <2>1. AstrayOnlyIfOverrun
    BY <1>3 DEF LoyaltyInv, PointsInv, Straight, AstrayOnlyIfOverrun
  <2>2. ASSUME NEW u \in Users
        PROVE  bonusLog[u] = OpeningBonus[u] + RewardAmount * BonusesOf(u)
                               - SumFunctionOnSet(PointsPaid, OrdersOf(u))
    <3> DEFINE spent == SumFunctionOnSet(PointsPaid, OrdersOf(u))
               B == RewardAmount * BonusesOf(u)
    <3>1. bonusLog[u] + spent = OpeningBonus[u] + B
      BY <1>3 DEF LogAccounted
    <3>2. spent \in Int /\ bonusLog[u] \in Int /\ OpeningBonus[u] \in Int
      BY <1>3, SpendingIsTyped, OpeningAssumption DEF LoyaltyInv, OrdersInv, AccountsTypeOK
    <3>3. B \in Nat
      BY <1>3, BonusesCounted, OneBonusMore DEF LoyaltyInv, MembershipInv
    <3> HIDE DEF spent, B
    <3>4. bonusLog[u] = OpeningBonus[u] + B - spent
      BY <3>1, <3>2, <3>3
    <3> QED BY <3>4 DEF spent, B
  <2> QED BY <2>1, <2>2 DEF PointsAccounted
<1>4. LoyaltyInv /\ MoneyInv => PointsSpent
  BY SpendingIsTyped DEF LoyaltyInv, PointsSpent
<1> QED BY <1>1, <1>2, <1>3, <1>4, LoyaltyInvariant, LoyaltyMoney, PTL DEF LoyaltySpec
-----------------------------------------------------------------------------
(* Locks                                                                   *)

\* Orders do not deadlock beside bonuses either: approvals and the worker
\* take no lock that outlives their statement.
THEOREM LoyaltyNeverDeadlocks == LoyaltySpec => []NoCircularWait
<1>1. LoyaltyInit => LocksHeld
  BY OrderTxAssumption, FreeIsNoTx
  DEF LoyaltyInit, AccountsInit, OrdersInit, LocksHeld, HeldAt
<1>2. ASSUME LoyaltyInv, LocksHeld, [LoyaltyNext]_loyaltyVars
      PROVE  LocksHeld'
  <2>1. CASE OrdersNext
    BY <1>2, <2>1, LocksHeldKept DEF LoyaltyInv
  <2>2. CASE UNCHANGED orderVars /\ UNCHANGED <<cashLock, bonusLock>>
    BY <1>2, <2>2 DEF LocksHeld, HeldAt, orderVars, offerVars, merchVars
  <2>3. CASE MembershipNext /\ UNCHANGED orderVars
    BY <1>2, <2>2, <2>3, BonusesGive DEF LoyaltyInv, MembershipInv, OrdersInv, BooksAgree, cashVars
  <2> QED BY <1>2, <2>1, <2>2, <2>3 DEF LoyaltyNext, loyaltyVars, cashVars, bonusVars
<1>3. LoyaltyInv /\ LocksHeld => NoCircularWait
  BY NobodyWaits DEF LoyaltyInv
<1> QED BY <1>1, <1>2, <1>3, LoyaltyInvariant, PTL DEF LoyaltySpec
-----------------------------------------------------------------------------
(* Statuses, when requests about one order take turns                      *)

LEMMA InTurnInitInv == LoyaltyInit => InTurnInv
BY DEF LoyaltyInit, OrdersInit, InTurnInv, StatusTells, StatusSeen, RefundPcs

LEMMA TurnsTaken ==
  ASSUME LoyaltyInv, InTurnInv, InTurn, [LoyaltyNext]_loyaltyVars
  PROVE  InTurnInv' /\ StatusMoves
<1>1. CASE OrdersNext
  BY <1>1, OrdersTakeTurns DEF LoyaltyInv
<1>2. CASE UNCHANGED orderVars
  BY <1>2 DEF orderVars, rowVars, InTurnInv, StatusTells, StatusSeen, StatusMoves, Fits
<1> QED BY <1>1, <1>2 DEF LoyaltyNext, loyaltyVars

\* The four rules hold together: each is about a step that writes the status.
LEMMA StatusRulesInTurn ==
  LoyaltySpec /\ []InTurn =>
    /\ OnlyValidTransitions /\ RefundOnlyPaidOrCompleted /\ RedeemedOnce /\ RefundedNotRedeemed
<1>1. ASSUME LoyaltyInv, InTurnInv, InTurn, [LoyaltyNext]_loyaltyVars
      PROVE  /\ [\A o \in OrderIds :
                    refunds'[o] > refunds[o] =>
                      status[o] \in {"paid", "completed"}]_<<refunds, status>>
             /\ [\A o \in OrderIds :
                    status[o] # status'[o] =>
                      \/ status[o] = "none" /\ status'[o] = "created"
                      \/ status'[o] \in NextStatuses[status[o]]]_status
             /\ [\A o \in OrderIds :
                    o \in redeemed /\ status'[o] = "completed" => status[o] = "completed"]_status
             /\ [\A o \in OrderIds :
                    o \in redeemed' \ redeemed => refunds[o] = 0]_<<redeemed, refunds>>
  BY <1>1, TurnsTaken, MovesAreValid DEF LoyaltyInv, OrdersInv
<1>2. LoyaltyInv /\ InTurnInv /\ InTurn /\ [LoyaltyNext]_loyaltyVars => InTurnInv'
  BY TurnsTaken
<1> QED
  BY <1>1, <1>2, LoyaltyInvariant, InTurnInitInv, PTL
  DEF LoyaltySpec, OnlyValidTransitions, RefundOnlyPaidOrCompleted, RedeemedOnce,
      RefundedNotRedeemed

\* As long as at any moment at most one request works on an order, whatever
\* the till, approvals and workers do meanwhile and however many orders are
\* worked on side by side, the status of an order moves only along
\* ValidOrderTransitions (UpdateStatus behind every handler).
THEOREM TransitionsValidInTurn == LoyaltySpec /\ []InTurn => OnlyValidTransitions
BY StatusRulesInTurn, PTL

\* In turn, money goes back only for an order that is paid or completed, as
\* the check at the head of RefundOrder intends.
THEOREM RefundsValidInTurn == LoyaltySpec /\ []InTurn => RefundOnlyPaidOrCompleted
BY StatusRulesInTurn, PTL

\* In turn, a code that was redeemed is not brought back to be redeemed again
\* (MarkRedeemed beside UpdateOrderStatus).
THEOREM RedeemedOnceInTurn == LoyaltySpec /\ []InTurn => RedeemedOnce
BY StatusRulesInTurn, PTL

\* In turn, no order is redeemed at the till after its money went back: a
\* refund under way leaves nothing the till could still redeem once it is
\* committed (RefundOrder beside Redeem).
THEOREM NotRedeemedAfterRefundInTurn == LoyaltySpec /\ []InTurn => RefundedNotRedeemed
BY StatusRulesInTurn, PTL
=============================================================================
