CONSTANTS
  u1 = u1  p1 = p1  p2 = p2  t1 = t1  t2 = t2  t3 = t3
  Users = {u1}
  PaymentIds = {p1, p2}
  PayTx = {t1, t2, t3}
  Tx = {t1, t2, t3}
  Free = Free
  NoPayment = NoPayment
  Payer <- MCPayer
  Amount <- MCAmount
  OpeningCash <- MCOpening
  OpeningBonus <- MCOpening
SPECIFICATION PaymentsFairSpec
INVARIANTS PaymentsTypeOK CreditedOnce BalanceMatchesLedger
PROPERTIES SettledIsFinal SettleEnds
