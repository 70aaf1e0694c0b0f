\* Two administrators, two requests, one failure of the credit worker.
CONSTANTS
  host = host  friend = friend  t1 = t1  t2 = t2
  Users = {host, friend}
  Tx = {t1, t2}
  MemberTx = {t1, t2}
  Free = Free
  Nobody = Nobody
  ReferredBy <- MCReferredBy
  RewardAmount = 1
  MaxVerifs = 1
  MaxFaults = 1
  OpeningCash <- MCOpening
  OpeningBonus <- MCOpening
SPECIFICATION MembershipFairSpec
INVARIANTS MembershipTypeOK WelcomedOnce CreditedAgainOnlyAfterFault MarkedWasCredited
PROPERTIES RewardsArrive
