CONSTANTS
  u1 = u1  u2 = u2  o1 = o1  o2 = o2  t1 = t1  t2 = t2  deal = deal  ticket = ticket  late1 = late1  late2 = late2  c1 = c1  c2 = c2
  Users = {u1}
  Tx = {t1, t2}
  OrderTx = {t1, t2}
  OrderIds = {o1}
  Offers = {ticket}
  Companies = {c1}
  Free = Free
  NoCompany = NoCompany
  NoOrder = NoOrder
  OfferCompany <- MCOfferCompany
  IsEvent <- MCIsEvent
  Price <- MCPrice
  BonusCap <- MCBonusCap
  Points = {0}
  OpenedAtStart = {c1}
  MaxRefunds = 2
  OpeningCash <- MCOpeningCash
  OpeningBonus <- MCOpeningBonus
SPECIFICATION OrdersSpec
PROPERTIES RefundOnlyPaidOrCompleted
