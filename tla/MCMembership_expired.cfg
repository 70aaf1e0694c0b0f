\* One administrator or student at a time, and the expiry worker.
CONSTANTS
  host = host  friend = friend  t1 = t1  t2 = t2
  Users = {host}
  Tx = {t1}
  MemberTx = {t1}
  Free = Free
  Nobody = Nobody
  ReferredBy <- MCReferredBy
  RewardAmount = 1
  MaxVerifs = 2
  MaxFaults = 1
  OpeningCash <- MCOpening
  OpeningBonus <- MCOpening
SPECIFICATION MembershipSpec
INVARIANTS ExpiryReachesUser
