\* One order, one request of each kind at a time, one failure of a credit.
CONSTANTS
  host = host  friend = friend  o1 = o1  t1 = t1  t2 = t2
  deal = deal  c1 = c1
  Users = {host, friend}
  Tx = {t1, t2}
  OrderTx = {t1}
  MemberTx = {t2}
  Nobody = Nobody
  ReferredBy <- MCReferredBy
  RewardAmount = 50
  MaxVerifs = 1
  MaxFaults = 1
  OrderIds = {o1}
  Offers = {deal}
  Companies = {c1}
  Free = Free
  NoCompany = NoCompany
  NoOrder = NoOrder
  OfferCompany <- MCOfferCompany
  IsEvent <- MCIsEvent
  Price <- MCPrice
  BonusCap <- MCBonusCap
  Points = {50}
  OpenedAtStart = {c1}
  MaxRefunds = 1
  OpeningCash <- MCOpeningCash
  OpeningBonus <- MCOpeningBonus
SPECIFICATION LoyaltySpec
INVARIANTS PointsAccounted 
PROPERTIES OnlyValidTransitions RedeemedOnce RefundOnlyPaidOrCompleted RefundedNotRedeemed
