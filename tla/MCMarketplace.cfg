\* Two order sessions, one payment session, two orders, one payment.
CONSTANTS
  u1 = u1  o1 = o1  o2 = o2  t1 = t1  t2 = t2  t3 = t3  p1 = p1
  deal = deal  ticket = ticket  c1 = c1
  Users = {u1}
  Tx = {t1, t2, t3}
  OrderTx = {t1, t2}
  PayTx = {t3}
  PaymentIds = {p1}
  NoPayment = NoPayment
  Payer <- MCPayer
  Amount <- MCAmount
  OrderIds = {o1, o2}
  Offers = {deal, ticket}
  Companies = {c1}
  Free = Free
  NoCompany = NoCompany
  NoOrder = NoOrder
  OfferCompany <- MCOfferCompany
  IsEvent <- MCIsEvent
  Price <- MCPrice
  BonusCap <- MCBonusCap
  Points = {50}
  OpenedAtStart = {c1}
  MaxRefunds = 1
  OpeningCash <- MCOpeningCash
  OpeningBonus <- MCOpeningBonus
SPECIFICATION MarketSpec
INVARIANTS MarketAccounted NobodyWaitsInCircle
PROPERTIES MovesMoneyAtomically
