-------------------------- MODULE Membership_proofs --------------------------
(***************************************************************************)
(* That bonuses for referrals are given once, for any number of users,     *)
(* administrators, requests and failures.                                  *)
(***************************************************************************)
EXTENDS Membership, TLAPS

\* A decision names a row that exists.
RowsNamed == \A t \in MemberTx : mreq[t].verif \in VerifIds => verif[mreq[t].verif] # NoRow

\* Only a user with a referrer gets as far as a reward.
RewardsReferred ==
  /\ \A u \in Users : reward[u] # "none" => ReferredBy[u] \in Users
  /\ \A t \in MemberTx :
       mpc[t] \in {"checkReward", "createReward"} => ReferredBy[mreq[t].user] \in Users

\* The step of an approval between the INSERT of the reward and the INSERT of
\* the welcome bonus.
Welcoming(t) == mpc[t] \in {"readWelcome", "recordWelcome"}

\* Whoever is about to welcome a user created the reward of that user, alone.
WelcomeInv ==
  /\ \A t \in MemberTx : Welcoming(t) =>
       reward[mreq[t].user] # "none" /\ welcomes[mreq[t].user] = 0
  /\ \A s, t \in MemberTx : Welcoming(s) /\ Welcoming(t) /\ mreq[s].user = mreq[t].user => s = t
  /\ WelcomedOnce

\* The reward whose credit is recorded and not yet marked.
BeingCredited(u) == creditPc \in {"write", "mark"} /\ creditFor = u

\* A reward is listed or being credited only while it is pending, and a record
\* of it beyond the first is paid for by a failure.
CreditInv ==
  /\ \A u \in creditTodo : reward[u] = "pending"
  /\ creditPc # "idle" => reward[creditFor] = "pending" /\ creditFor \notin creditTodo
  /\ \A u \in Users : BeingCredited(u) \/ reward[u] = "credited" => credits[u] >= 1
  /\ \A u \in Users :
       credits[u] =< faults[u] + (IF BeingCredited(u) \/ reward[u] = "credited" THEN 1 ELSE 0)

MembershipInv == AccountsTypeOK /\ MembershipTypeOK /\ RowsNamed /\ RewardsReferred
                   /\ WelcomeInv /\ CreditInv
-----------------------------------------------------------------------------
(* Types                                                                   *)

LEMMA EndRequestTypes ==
  ASSUME MembershipTypeOK, NEW t \in MemberTx, EndRequest(t)
  PROVE  /\ mpc' \in [MemberTx -> MemberPcs]
         /\ mreq' \in [MemberTx -> [verif : VerifIds \cup {0}, user : Users \cup {Nobody},
                                    decision : Decisions]]
         /\ mseen' \in [MemberTx -> Int]
         /\ \A s \in MemberTx : mpc'[s] # "idle" => mreq'[s].user \in Users
BY DEF MembershipTypeOK, EndRequest, NoRequest, MemberPcs, Decisions

\* A request that goes on and keeps its parameters.
LEMMA StepTypes ==
  ASSUME MembershipTypeOK, NEW t \in MemberTx, mpc[t] # "idle",
         NEW to \in MemberPcs, mpc' = [mpc EXCEPT ![t] = to], UNCHANGED mreq
  PROVE  /\ mpc' \in [MemberTx -> MemberPcs]
         /\ mreq' \in [MemberTx -> [verif : VerifIds \cup {0}, user : Users \cup {Nobody},
                                    decision : Decisions]]
         /\ \A s \in MemberTx : mpc'[s] # "idle" => mreq'[s].user \in Users
BY DEF MembershipTypeOK

\* A row that exists is a verification of some user.
LEMMA RowTyped ==
  ASSUME MembershipTypeOK, NEW v \in VerifIds, verif[v] # NoRow \/ verif[v].status # "none"
  PROVE  verif[v] \in Verifications /\ verif[v].user \in Users
<1>1. verif[v] \in Verifications
  BY DEF MembershipTypeOK, NoRow
<1> QED BY <1>1 DEF Verifications

\* Every step but those of a request about a bonus leaves the accounts alone.
LEMMA RequestTypes ==
  ASSUME MembershipTypeOK, AccountsTypeOK, NEW t \in MemberTx,
         MemberRequest(t) \/ RequestFails(t)
  PROVE  MembershipTypeOK' /\ AccountsTypeOK'
<1>1. AccountsTypeOK' /\ UNCHANGED <<rewardVars, creditVars>>
  BY DEF MemberRequest, RequestFails, RequestVerification, ResetVerification, UpdateVerification,
         AccountsTypeOK, cashVars, bonusVars
<1>2. ASSUME NEW u \in Users, RequestVerification(t, u)
      PROVE  MembershipTypeOK'
  <2>1. /\ mpc' = [mpc EXCEPT ![t] = "insert"]
        /\ mreq' = [mreq EXCEPT ![t].user = u]
        /\ UNCHANGED <<mseen, verif, studentStatus, expiring>>
    BY <1>2 DEF RequestVerification, Step, verifVars
  <2> QED BY <1>1, <2>1 DEF MembershipTypeOK, MemberPcs, rewardVars, creditVars
<1>3. ASSUME NEW u \in Users, ResetVerification(t, u)
      PROVE  MembershipTypeOK'
  <2>1. /\ mpc' = [mpc EXCEPT ![t] = "resetStudent"]
        /\ mreq' = [mreq EXCEPT ![t].user = u]
        /\ verif' = [v \in VerifIds |->
             IF verif[v].user = u /\ verif[v].status = "verified"
             THEN [verif[v] EXCEPT !.expires = "past"] ELSE verif[v]]
        /\ UNCHANGED <<mseen, studentStatus, expiring>>
    BY <1>3 DEF ResetVerification, Step
  <2>2. ASSUME NEW v \in VerifIds, verif[v].status = "verified"
        PROVE  [verif[v] EXCEPT !.expires = "past"] \in Verifications
    <3>1. verif[v] \in Verifications
      BY <2>2, RowTyped
    <3> QED BY <3>1 DEF Verifications
  <2>3. verif' \in [VerifIds -> Verifications \cup {NoRow}]
    BY <2>1, <2>2 DEF MembershipTypeOK
  <2>4. /\ mpc' \in [MemberTx -> MemberPcs]
        /\ mreq' \in [MemberTx -> [verif : VerifIds \cup {0}, user : Users \cup {Nobody},
                                   decision : Decisions]]
        /\ \A s \in MemberTx : mpc'[s] # "idle" => mreq'[s].user \in Users
    BY <2>1 DEF MembershipTypeOK, MemberPcs
  <2> QED BY <1>1, <2>1, <2>3, <2>4 DEF MembershipTypeOK, rewardVars, creditVars
<1>4. ASSUME NEW v \in VerifIds, NEW decision \in Decisions, UpdateVerification(t, v, decision)
      PROVE  MembershipTypeOK'
  <2>1. /\ mpc' = [mpc EXCEPT ![t] = "closeOthers"]
        /\ verif[v] # NoRow
        /\ mreq' = [mreq EXCEPT ![t] =
                      [verif |-> v, user |-> verif[v].user, decision |-> decision]]
        /\ verif' = [verif EXCEPT ![v].status = decision, ![v].decided = TRUE]
        /\ UNCHANGED <<mseen, studentStatus, expiring>>
    BY <1>4 DEF UpdateVerification, Step
  <2>2. /\ verif[v].user \in Users
        /\ [verif[v] EXCEPT !.status = decision, !.decided = TRUE] \in Verifications
    <3>1. verif[v] \in Verifications /\ verif[v].user \in Users
      BY <2>1, RowTyped
    <3> QED BY <3>1 DEF Verifications, Decisions, VerifStatuses
  <2>3. verif' \in [VerifIds -> Verifications \cup {NoRow}]
    BY <2>1, <2>2 DEF MembershipTypeOK
  <2> QED BY <1>1, <2>1, <2>2, <2>3 DEF MembershipTypeOK, MemberPcs, rewardVars, creditVars
<1>5. ASSUME RequestFails(t)
      PROVE  MembershipTypeOK'
  BY <1>1, <1>5, EndRequestTypes
  DEF RequestFails, MembershipTypeOK, verifVars, rewardVars, creditVars
<1> QED BY <1>1, <1>2, <1>3, <1>4, <1>5 DEF MemberRequest

\* The steps of a request that write verifications or the status of the user.
LEMMA VerificationTypes ==
  ASSUME MembershipTypeOK, AccountsTypeOK, RowsNamed, NEW t \in MemberTx,
         \/ InsertVerification(t) \/ CloseOthers(t) \/ SetStudent(t) \/ SetExpiry(t)
         \/ ResetStudent(t)
  PROVE  MembershipTypeOK' /\ AccountsTypeOK'
<1>1. AccountsTypeOK' /\ UNCHANGED <<rewardVars, creditVars, expiring>> /\ mpc[t] # "idle"
  BY DEF InsertVerification, CloseOthers, SetStudent, SetExpiry, ResetStudent, Step,
         AccountsTypeOK, cashVars, bonusVars
<1>2. mreq[t].user \in Users /\ mreq[t].decision \in Decisions
  BY <1>1 DEF MembershipTypeOK
<1>3. CASE InsertVerification(t)
  <2>1. PICK v \in VerifIds :
          verif' = [verif EXCEPT ![v] = [user |-> mreq[t].user, status |-> "pending",
                                         decided |-> FALSE, expires |-> "null"]]
    BY <1>3 DEF InsertVerification
  <2>2. verif' \in [VerifIds -> Verifications \cup {NoRow}]
    BY <1>2, <2>1 DEF MembershipTypeOK, Verifications, VerifStatuses
  <2> QED BY <1>1, <1>3, <2>2, EndRequestTypes
          DEF InsertVerification, MembershipTypeOK, rewardVars, creditVars
<1>4. CASE CloseOthers(t)
  <2>1. /\ verif' = [v \in VerifIds |->
             IF verif[v].user = mreq[t].user /\ verif[v].status = "pending" /\ v # mreq[t].verif
             THEN [verif[v] EXCEPT !.status = mreq[t].decision] ELSE verif[v]]
        /\ mpc' = [mpc EXCEPT ![t] = "setStudent"] /\ UNCHANGED <<mreq, mseen, studentStatus>>
    BY <1>4 DEF CloseOthers, Step
  <2>2. ASSUME NEW v \in VerifIds, verif[v].status = "pending"
        PROVE  [verif[v] EXCEPT !.status = mreq[t].decision] \in Verifications
    <3>1. verif[v] \in Verifications
      BY <2>2, RowTyped
    <3> QED BY <1>2, <3>1 DEF Verifications, Decisions, VerifStatuses
  <2>3. verif' \in [VerifIds -> Verifications \cup {NoRow}]
    BY <2>1, <2>2 DEF MembershipTypeOK
  <2> QED BY <1>1, <2>1, <2>3, StepTypes DEF MembershipTypeOK, MemberPcs, rewardVars, creditVars
<1>5. CASE SetStudent(t)
  <2>1. studentStatus' \in [Users -> VerifStatuses]
    BY <1>2, <1>5 DEF SetStudent, MembershipTypeOK, Decisions, VerifStatuses
  <2> QED BY <1>1, <1>5, <2>1, EndRequestTypes, StepTypes
          DEF SetStudent, MembershipTypeOK, MemberPcs, rewardVars, creditVars
<1>6. CASE SetExpiry(t)
  <2>1. /\ verif' = [verif EXCEPT ![mreq[t].verif].expires = "ahead"] \/ UNCHANGED verif
        /\ mpc' = [mpc EXCEPT ![t] = "findReferrer"] /\ UNCHANGED <<mreq, mseen, studentStatus>>
    BY <1>6 DEF SetExpiry, Step
  <2>2. verif' \in [VerifIds -> Verifications \cup {NoRow}]
    <3>1. CASE UNCHANGED verif
      BY <3>1 DEF MembershipTypeOK
    <3>2. CASE verif' = [verif EXCEPT ![mreq[t].verif].expires = "ahead"]
      <4>1. ASSUME mreq[t].verif \in VerifIds
            PROVE  [verif[mreq[t].verif] EXCEPT !.expires = "ahead"] \in Verifications
        <5>1. verif[mreq[t].verif] \in Verifications
          BY <4>1, RowTyped DEF RowsNamed
        <5> QED BY <5>1 DEF Verifications
      <4> QED BY <3>2, <4>1 DEF MembershipTypeOK
    <3> QED BY <2>1, <3>1, <3>2
  <2> QED BY <1>1, <2>1, <2>2, StepTypes DEF MembershipTypeOK, MemberPcs, rewardVars, creditVars
<1>7. CASE ResetStudent(t)
  BY <1>1, <1>2, <1>7, EndRequestTypes
  DEF ResetStudent, MembershipTypeOK, VerifStatuses, rewardVars, creditVars
<1> QED BY <1>3, <1>4, <1>5, <1>6, <1>7

\* The steps of an approval that concern the bonuses.
LEMMA BonusTypes ==
  ASSUME MembershipTypeOK, AccountsTypeOK, NEW t \in MemberTx,
         \/ FindReferrer(t) \/ CheckReward(t) \/ CreateReward(t)
         \/ ReadWelcome(t) \/ RecordWelcome(t) \/ WriteWelcome(t)
  PROVE  MembershipTypeOK' /\ AccountsTypeOK'
<1> USE ReferralAssumption
<1>1. UNCHANGED <<verifVars, creditVars, due, credits>> /\ mpc[t] # "idle"
  BY DEF FindReferrer, CheckReward, CreateReward, ReadWelcome, RecordWelcome, WriteWelcome, Step,
         rewardVars
<1>2. mreq[t].user \in Users /\ bonus[mreq[t].user] \in Int
  BY <1>1 DEF MembershipTypeOK, AccountsTypeOK
<1>3. CASE FindReferrer(t)
  BY <1>1, <1>2, <1>3, EndRequestTypes, StepTypes
  DEF FindReferrer, MembershipTypeOK, AccountsTypeOK, MemberPcs, verifVars, creditVars, rewardVars,
      cashVars, bonusVars
<1>4. CASE CheckReward(t)
  BY <1>1, <1>4, EndRequestTypes, StepTypes
  DEF CheckReward, MembershipTypeOK, AccountsTypeOK, MemberPcs, verifVars, creditVars, rewardVars,
      cashVars, bonusVars
<1>5. CASE CreateReward(t)
  <2>1. reward' \in [Users -> {"none", "pending", "credited"}]
    BY <1>2, <1>5 DEF CreateReward, MembershipTypeOK
  <2> QED BY <1>1, <1>5, <2>1, EndRequestTypes, StepTypes
    DEF CreateReward, MembershipTypeOK, AccountsTypeOK, MemberPcs, verifVars, creditVars,
        cashVars, bonusVars
<1>6. CASE ReadWelcome(t)
  BY <1>1, <1>2, <1>6, StepTypes
  DEF ReadWelcome, Step, MembershipTypeOK, AccountsTypeOK, MemberPcs, verifVars, creditVars,
      rewardVars, cashVars, bonusVars
<1>7. CASE RecordWelcome(t)
  <2>1. welcomes' \in [Users -> Nat] /\ bonusLog' \in [Users -> Int]
    BY <1>2, <1>7 DEF RecordWelcome, MembershipTypeOK, AccountsTypeOK
  <2> QED BY <1>1, <1>7, <2>1, StepTypes
    DEF RecordWelcome, Step, MembershipTypeOK, AccountsTypeOK, MemberPcs, verifVars, creditVars,
        cashVars
<1>8. CASE WriteWelcome(t)
  <2>1. bonus' \in [Users -> Int]
    BY <1>2, <1>8 DEF WriteWelcome, MembershipTypeOK, AccountsTypeOK
  <2> QED BY <1>1, <1>8, <2>1, EndRequestTypes
    DEF WriteWelcome, MembershipTypeOK, AccountsTypeOK, verifVars, creditVars, rewardVars, cashVars
<1> QED BY <1>3, <1>4, <1>5, <1>6, <1>7, <1>8

\* The workers and the passing of time.
LEMMA WorkerTypes ==
  ASSUME MembershipTypeOK, AccountsTypeOK, RewardsReferred, CreditInv,
         \/ ExpiryStep \/ CreditStep \/ CreditFails
         \/ \E v \in VerifIds : Lapse(v)
         \/ \E u \in Users : RewardFallsDue(u)
  PROVE  MembershipTypeOK' /\ AccountsTypeOK'
<1> USE ReferralAssumption
<1>1. UNCHANGED <<mpc, mreq, mseen, welcomes>>
  BY DEF ExpiryStep, CreditStep, CreditFails, Lapse, RewardFallsDue, ExpireRows, ExpireUser,
         ExpireUserFails, ListRewards, CreditRead, CreditRecord, CreditWrite, CreditMark,
         requestVars, rewardVars
<1>2. ASSUME NEW v \in VerifIds, Lapse(v)
      PROVE  MembershipTypeOK' /\ AccountsTypeOK'
  <2>1. [verif[v] EXCEPT !.expires = "past"] \in Verifications
    <3>1. verif[v] \in Verifications
      BY <1>2, RowTyped DEF Lapse, NoRow
    <3> QED BY <3>1 DEF Verifications
  <2>2. verif' \in [VerifIds -> Verifications \cup {NoRow}]
    BY <1>2, <2>1 DEF Lapse, MembershipTypeOK
  <2> QED BY <1>1, <1>2, <2>2
    DEF Lapse, MembershipTypeOK, AccountsTypeOK, rewardVars, creditVars, cashVars, bonusVars
<1>3. CASE ExpireRows
  <2>1. ASSUME NEW v \in VerifIds, verif[v].status = "verified"
        PROVE  /\ [verif[v] EXCEPT !.status = "expired"] \in Verifications
               /\ verif[v].user \in Users
    <3>1. verif[v] \in Verifications /\ verif[v].user \in Users
      BY <2>1, RowTyped
    <3> QED BY <3>1 DEF Verifications, VerifStatuses
  <2>2. verif' \in [VerifIds -> Verifications \cup {NoRow}] /\ expiring' \subseteq Users
    BY <1>3, <2>1 DEF ExpireRows, Overdue, MembershipTypeOK
  <2> QED BY <1>1, <1>3, <2>2
    DEF ExpireRows, MembershipTypeOK, AccountsTypeOK, rewardVars, creditVars, cashVars, bonusVars
<1>4. ASSUME NEW u \in Users, ExpireUser(u) \/ ExpireUserFails(u)
      PROVE  MembershipTypeOK' /\ AccountsTypeOK'
  BY <1>1, <1>4
  DEF ExpireUser, ExpireUserFails, MembershipTypeOK, AccountsTypeOK, VerifStatuses, rewardVars,
      creditVars, cashVars, bonusVars
<1>5. ASSUME NEW u \in Users, RewardFallsDue(u)
      PROVE  MembershipTypeOK' /\ AccountsTypeOK'
  BY <1>1, <1>5
  DEF RewardFallsDue, MembershipTypeOK, AccountsTypeOK, verifVars, creditVars, cashVars, bonusVars
<1>6. CASE ListRewards
  BY <1>1, <1>6
  DEF ListRewards, Creditable, MembershipTypeOK, AccountsTypeOK, verifVars, rewardVars,
      cashVars, bonusVars
<1>7. ASSUME NEW u \in Users, CreditRead(u)
      PROVE  MembershipTypeOK' /\ AccountsTypeOK'
  <2>1. bonus[ReferredBy[u]] \in Int
    BY <1>7 DEF RewardsReferred, CreditInv, AccountsTypeOK, CreditRead
  <2> QED BY <1>1, <1>7, <2>1
    DEF CreditRead, MembershipTypeOK, AccountsTypeOK, verifVars, rewardVars, cashVars, bonusVars
<1>8. CASE CreditRecord
  <2>1. creditFor \in Users /\ ReferredBy[creditFor] \in Users
    BY <1>8 DEF CreditRecord, MembershipTypeOK, CreditInv, RewardsReferred
  <2>2. credits' \in [Users -> Nat]
    BY <1>8, <2>1 DEF CreditRecord, MembershipTypeOK
  <2>3. bonusLog' \in [Users -> Int]
    BY <1>8, <2>1 DEF CreditRecord, AccountsTypeOK
  <2> QED BY <1>1, <1>8, <2>2, <2>3
    DEF CreditRecord, MembershipTypeOK, AccountsTypeOK, verifVars, cashVars
<1>9. CASE CreditWrite
  <2>1. creditSeen + RewardAmount \in Int
    BY DEF MembershipTypeOK
  <2>2. bonus' \in [Users -> Int]
    BY <1>9, <2>1 DEF CreditWrite, AccountsTypeOK
  <2> QED BY <1>1, <1>9, <2>2
    DEF CreditWrite, MembershipTypeOK, AccountsTypeOK, verifVars, rewardVars, cashVars
<1>10. CASE CreditMark
  <2>1. reward' \in [Users -> {"none", "pending", "credited"}]
    BY <1>10 DEF CreditMark, MembershipTypeOK
  <2> QED BY <1>1, <1>10, <2>1
    DEF CreditMark, MembershipTypeOK, AccountsTypeOK, verifVars, cashVars, bonusVars
<1>11. CASE CreditFails
  BY <1>1, <1>11
  DEF CreditFails, MembershipTypeOK, AccountsTypeOK, verifVars, rewardVars, cashVars, bonusVars
<1> QED BY <1>2, <1>3, <1>4, <1>5, <1>6, <1>7, <1>8, <1>9, <1>10, <1>11 DEF ExpiryStep, CreditStep
-----------------------------------------------------------------------------
(* Rows and referrers                                                      *)

\* The actions that write student_verifications.
LEMMA VerifWriters ==
  ASSUME MembershipNext
  PROVE  \/ UNCHANGED verif
         \/ \E t \in MemberTx :
              \/ InsertVerification(t) \/ SetExpiry(t) \/ CloseOthers(t)
              \/ \E w \in VerifIds, d \in Decisions : UpdateVerification(t, w, d)
              \/ \E u \in Users : ResetVerification(t, u)
         \/ \E w \in VerifIds : Lapse(w)
         \/ ExpireRows
<1>1. ASSUME NEW t \in MemberTx,
             \/ \E u \in Users : RequestVerification(t, u)
             \/ RequestFails(t) \/ SetStudent(t) \/ FindReferrer(t) \/ CheckReward(t)
             \/ CreateReward(t) \/ ReadWelcome(t) \/ RecordWelcome(t) \/ WriteWelcome(t)
             \/ ResetStudent(t)
      PROVE  UNCHANGED verif
  BY <1>1 DEF RequestVerification, RequestFails, SetStudent, FindReferrer, CheckReward,
              CreateReward, ReadWelcome, RecordWelcome, WriteWelcome, ResetStudent, verifVars
<1>2. ASSUME \/ CreditStep \/ CreditFails
             \/ \E u \in Users : ExpireUser(u) \/ ExpireUserFails(u) \/ RewardFallsDue(u)
      PROVE  UNCHANGED verif
  BY <1>2 DEF CreditStep, CreditFails, ExpireUser, ExpireUserFails, RewardFallsDue, ListRewards,
              CreditRead, CreditRecord, CreditWrite, CreditMark, verifVars
<1> QED BY <1>1, <1>2 DEF MembershipNext, MemberRequest, MemberStep, ExpiryStep

\* The actions that change what a session is about: a request that begins, and
\* one that ends.
LEMMA RequestWriters ==
  ASSUME MembershipNext
  PROVE  \/ UNCHANGED <<mreq, mpc>>
         \/ \E t \in MemberTx : MemberRequest(t) \/ MemberStep(t) \/ RequestFails(t)
<1>1. ASSUME \/ CreditStep \/ CreditFails \/ ExpiryStep
             \/ \E u \in Users : RewardFallsDue(u)
             \/ \E v \in VerifIds : Lapse(v)
      PROVE  UNCHANGED <<mreq, mpc>>
  BY <1>1 DEF CreditStep, CreditFails, ExpiryStep, ExpireRows, ExpireUser, ExpireUserFails,
              RewardFallsDue, Lapse, ListRewards, CreditRead, CreditRecord, CreditWrite,
              CreditMark, requestVars
<1> QED BY <1>1 DEF MembershipNext

\* No row of student_verifications is ever deleted.
LEMMA RowsStay ==
  ASSUME MembershipTypeOK, MembershipNext, NEW v \in VerifIds, verif[v] # NoRow
  PROVE  verif'[v] # NoRow
<1>1. verif[v] \in Verifications
  BY DEF MembershipTypeOK
<1>2. verif[v].user \in Users
  BY <1>1 DEF Verifications
<1>3. verif'[v].user = verif[v].user
  <2>1. CASE UNCHANGED verif
    BY <2>1
  <2>2. ASSUME NEW t \in MemberTx, InsertVerification(t)
        PROVE  verif'[v].user = verif[v].user
    BY <2>2 DEF InsertVerification, MembershipTypeOK
  <2>3. ASSUME NEW w \in VerifIds, Lapse(w)
        PROVE  verif'[v].user = verif[v].user
    BY <1>1, <2>3 DEF Lapse, MembershipTypeOK, Verifications
  <2>4. ASSUME NEW t \in MemberTx, NEW w \in VerifIds, NEW d \in Decisions,
               UpdateVerification(t, w, d)
        PROVE  verif'[v].user = verif[v].user
    BY <1>1, <2>4 DEF UpdateVerification, MembershipTypeOK, Verifications
  <2>5. ASSUME NEW t \in MemberTx, SetExpiry(t)
        PROVE  verif'[v].user = verif[v].user
    BY <1>1, <2>5 DEF SetExpiry, MembershipTypeOK, Verifications
  <2>6. ASSUME NEW t \in MemberTx, CloseOthers(t)
        PROVE  verif'[v].user = verif[v].user
    BY <1>1, <2>6 DEF CloseOthers, Verifications
  <2>7. ASSUME NEW t \in MemberTx, NEW u \in Users, ResetVerification(t, u)
        PROVE  verif'[v].user = verif[v].user
    BY <1>1, <2>7 DEF ResetVerification, Verifications
  <2>8. CASE ExpireRows
    BY <1>1, <2>8 DEF ExpireRows, Verifications
  <2> QED BY <2>1, <2>2, <2>3, <2>4, <2>5, <2>6, <2>7, <2>8, VerifWriters
<1> QED BY <1>2, <1>3, NobodyAssumption DEF NoRow

LEMMA RowsNamedKept ==
  ASSUME MembershipTypeOK, RowsNamed, MembershipNext
  PROVE  RowsNamed'
<1> SUFFICES ASSUME NEW t \in MemberTx, mreq'[t].verif \in VerifIds
             PROVE  verif'[mreq'[t].verif] # NoRow
  BY DEF RowsNamed
<1>1. mreq'[t].verif = mreq[t].verif \/ mreq'[t].verif = 0 \/ verif[mreq'[t].verif] # NoRow
  <2>1. CASE UNCHANGED mreq
    BY <2>1
  <2>2. ASSUME NEW s \in MemberTx, EndRequest(s)
        PROVE  mreq'[t].verif = mreq[t].verif \/ mreq'[t].verif = 0
    BY <2>2 DEF EndRequest, NoRequest, MembershipTypeOK
  <2>3. ASSUME NEW s \in MemberTx, MemberStep(s)
        PROVE  UNCHANGED mreq \/ EndRequest(s)
    <3>1. CASE InsertVerification(s) \/ WriteWelcome(s) \/ ResetStudent(s)
      BY <3>1 DEF InsertVerification, WriteWelcome, ResetStudent
    <3>2. CASE CloseOthers(s) \/ SetExpiry(s) \/ ReadWelcome(s) \/ RecordWelcome(s)
      BY <3>2 DEF CloseOthers, SetExpiry, ReadWelcome, RecordWelcome
    <3>3. CASE SetStudent(s) \/ FindReferrer(s) \/ CheckReward(s) \/ CreateReward(s)
      BY <3>3 DEF SetStudent, FindReferrer, CheckReward, CreateReward
    <3> QED BY <2>3, <3>1, <3>2, <3>3 DEF MemberStep
  <2>4. ASSUME NEW s \in MemberTx, NEW u \in Users,
               RequestVerification(s, u) \/ ResetVerification(s, u)
        PROVE  mreq'[t].verif = mreq[t].verif
    <3>1. mreq' = [mreq EXCEPT ![s].user = u]
      BY <2>4 DEF RequestVerification, ResetVerification
    <3>2. mreq[s] \in [verif : VerifIds \cup {0}, user : Users \cup {Nobody},
                       decision : Decisions]
      BY DEF MembershipTypeOK
    <3>3. [mreq[s] EXCEPT !.user = u].verif = mreq[s].verif
      BY <3>2
    <3> QED BY <3>1, <3>3 DEF MembershipTypeOK
  <2>5. ASSUME NEW s \in MemberTx, NEW v \in VerifIds, NEW d \in Decisions,
               UpdateVerification(s, v, d)
        PROVE  mreq'[t].verif = mreq[t].verif \/ verif[mreq'[t].verif] # NoRow
    BY <2>5 DEF UpdateVerification, MembershipTypeOK
  <2>6. ASSUME NEW s \in MemberTx, RequestFails(s)
        PROVE  EndRequest(s)
    BY <2>6 DEF RequestFails
  <2> QED BY <2>1, <2>2, <2>3, <2>4, <2>5, <2>6, RequestWriters DEF MemberRequest
<1>2. verif[mreq'[t].verif] # NoRow
  BY <1>1 DEF RowsNamed, VerifIds
<1> QED BY <1>2, RowsStay
-----------------------------------------------------------------------------
(* Welcomes                                                                *)

\* The steps from the search for the referrer to the welcome bonus.
TowardsWelcome == {"checkReward", "createReward", "readWelcome", "recordWelcome"}

\* Every other step leaves rewards and welcomes alone and brings no session
\* nearer to a welcome.
LEMMA QuietSteps ==
  ASSUME MembershipTypeOK, MembershipNext
  PROVE  \/ /\ UNCHANGED <<reward, welcomes>>
            /\ \A t \in MemberTx : mpc'[t] \in TowardsWelcome =>
                 mpc'[t] = mpc[t] /\ mreq'[t] = mreq[t]
         \/ \E t \in MemberTx :
              FindReferrer(t) \/ CheckReward(t) \/ CreateReward(t) \/ ReadWelcome(t) \/ RecordWelcome(t)
         \/ CreditMark
<1> DEFINE Quiet == /\ UNCHANGED <<reward, welcomes>>
                    /\ \A t \in MemberTx : mpc'[t] \in TowardsWelcome =>
                         mpc'[t] = mpc[t] /\ mreq'[t] = mreq[t]
<1>1. ASSUME NEW s \in MemberTx, EndRequest(s), UNCHANGED <<reward, welcomes>>
      PROVE  Quiet
  BY <1>1 DEF EndRequest, MembershipTypeOK, TowardsWelcome
<1>2. ASSUME NEW s \in MemberTx, UNCHANGED <<reward, welcomes>>,
             NEW to \in MemberPcs \ TowardsWelcome, mpc' = [mpc EXCEPT ![s] = to],
             \A t \in MemberTx \ {s} : mreq'[t] = mreq[t]
      PROVE  Quiet
  BY <1>2 DEF MembershipTypeOK
<1>3. ASSUME NEW s \in MemberTx, NEW u \in Users, RequestVerification(s, u) \/ ResetVerification(s, u)
      PROVE  Quiet
  <2>1. /\ mpc' = [mpc EXCEPT ![s] = "insert"] \/ mpc' = [mpc EXCEPT ![s] = "resetStudent"]
        /\ mreq' = [mreq EXCEPT ![s].user = u] /\ UNCHANGED <<reward, welcomes>>
    BY <1>3 DEF RequestVerification, ResetVerification, Step, rewardVars
  <2>2. \A t \in MemberTx \ {s} : mreq'[t] = mreq[t]
    BY <2>1 DEF MembershipTypeOK
  <2>3. "insert" \in MemberPcs \ TowardsWelcome /\ "resetStudent" \in MemberPcs \ TowardsWelcome
    BY DEF MemberPcs, TowardsWelcome
  <2> QED BY <1>2, <2>1, <2>2, <2>3
<1>4. ASSUME NEW s \in MemberTx, NEW v \in VerifIds, NEW d \in Decisions,
             UpdateVerification(s, v, d)
      PROVE  Quiet
  <2>1. /\ mpc' = [mpc EXCEPT ![s] = "closeOthers"] /\ UNCHANGED <<reward, welcomes>>
        /\ \A t \in MemberTx \ {s} : mreq'[t] = mreq[t]
    BY <1>4 DEF UpdateVerification, Step, rewardVars, MembershipTypeOK
  <2>2. "closeOthers" \in MemberPcs \ TowardsWelcome
    BY DEF MemberPcs, TowardsWelcome
  <2> QED BY <1>2, <2>1, <2>2
<1>5. ASSUME NEW s \in MemberTx,
             RequestFails(s) \/ InsertVerification(s) \/ WriteWelcome(s) \/ ResetStudent(s)
      PROVE  Quiet
  <2>1. EndRequest(s) /\ UNCHANGED <<reward, welcomes>>
    BY <1>5 DEF RequestFails, InsertVerification, WriteWelcome, ResetStudent, rewardVars
  <2> QED BY <1>1, <2>1
<1>6. ASSUME NEW s \in MemberTx, CloseOthers(s) \/ SetExpiry(s) \/ SetStudent(s)
      PROVE  Quiet
  <2>1. \/ EndRequest(s)
        \/ /\ UNCHANGED mreq
           /\ \E to \in {"setStudent", "setExpiry", "findReferrer"} : mpc' = [mpc EXCEPT ![s] = to]
    BY <1>6 DEF CloseOthers, SetExpiry, SetStudent, Step
  <2>2. UNCHANGED <<reward, welcomes>>
    BY <1>6 DEF CloseOthers, SetExpiry, SetStudent, rewardVars
  <2>3. {"setStudent", "setExpiry", "findReferrer"} \subseteq MemberPcs \ TowardsWelcome
    BY DEF MemberPcs, TowardsWelcome
  <2> QED BY <1>1, <1>2, <2>1, <2>2, <2>3
<1>7. ASSUME \/ ExpiryStep \/ CreditFails
             \/ ListRewards \/ CreditRecord \/ CreditWrite
             \/ \E u \in Users : RewardFallsDue(u) \/ CreditRead(u)
             \/ \E v \in VerifIds : Lapse(v)
      PROVE  Quiet
  BY <1>7 DEF ExpiryStep, ExpireRows, ExpireUser, ExpireUserFails, CreditFails, ListRewards,
              CreditRecord, CreditWrite, RewardFallsDue, CreditRead, Lapse, rewardVars, requestVars
<1> QED BY <1>3, <1>4, <1>5, <1>6, <1>7 DEF MembershipNext, MemberRequest, MemberStep, CreditStep

\* A step of session t towards the welcome of the user it is about.
LEMMA BonusSteps ==
  ASSUME MembershipTypeOK, NEW t \in MemberTx,
         FindReferrer(t) \/ CheckReward(t) \/ CreateReward(t) \/ ReadWelcome(t) \/ RecordWelcome(t)
  PROVE  /\ \A s \in MemberTx \ {t} : mpc'[s] = mpc[s] /\ mreq'[s] = mreq[s]
         /\ mpc'[t] # "idle" => mreq'[t] = mreq[t]
         /\ mpc[t] # "idle" /\ mreq[t].user \in Users
<1>1. mpc[t] # "idle" /\ mreq[t].user \in Users
  BY DEF FindReferrer, CheckReward, CreateReward, ReadWelcome, RecordWelcome, Step, MembershipTypeOK
<1>2. \/ EndRequest(t)
      \/ UNCHANGED mreq /\ \E to \in MemberPcs : mpc' = [mpc EXCEPT ![t] = to]
  BY DEF FindReferrer, CheckReward, CreateReward, ReadWelcome, RecordWelcome, Step, MemberPcs
<1> QED BY <1>1, <1>2 DEF EndRequest, MembershipTypeOK

LEMMA RewardsReferredKept ==
  ASSUME MembershipTypeOK, RewardsReferred, MembershipNext
  PROVE  RewardsReferred'
<1> USE ReferralAssumption
<1>1. CASE /\ UNCHANGED <<reward, welcomes>>
           /\ \A t \in MemberTx : mpc'[t] \in TowardsWelcome =>
                mpc'[t] = mpc[t] /\ mreq'[t] = mreq[t]
  BY <1>1 DEF RewardsReferred, TowardsWelcome
<1>2. ASSUME NEW t \in MemberTx, FindReferrer(t)
      PROVE  RewardsReferred'
  <2>1. mpc'[t] # "idle" => ReferredBy[mreq[t].user] \in Users
    BY <1>2, BonusSteps DEF FindReferrer, EndRequest, MembershipTypeOK
  <2>2. UNCHANGED reward
    BY <1>2 DEF FindReferrer, rewardVars
  <2> QED BY <1>2, <2>1, <2>2, BonusSteps DEF RewardsReferred
<1>3. ASSUME NEW t \in MemberTx, CheckReward(t)
      PROVE  RewardsReferred'
  <2>1. ReferredBy[mreq[t].user] \in Users /\ UNCHANGED reward
    BY <1>3 DEF CheckReward, RewardsReferred, rewardVars
  <2> QED BY <1>3, <2>1, BonusSteps DEF RewardsReferred
<1>4. ASSUME NEW t \in MemberTx, CreateReward(t)
      PROVE  RewardsReferred'
  <2>1. ReferredBy[mreq[t].user] \in Users
    BY <1>4 DEF CreateReward, RewardsReferred
  <2>2. \A u \in Users : reward'[u] # "none" => reward[u] # "none" \/ u = mreq[t].user
    BY <1>4 DEF CreateReward, MembershipTypeOK
  <2> QED BY <1>4, <2>1, <2>2, BonusSteps DEF RewardsReferred
<1>5. ASSUME NEW t \in MemberTx, ReadWelcome(t) \/ RecordWelcome(t)
      PROVE  RewardsReferred'
  <2>1. mpc'[t] \notin {"checkReward", "createReward"} /\ UNCHANGED reward
    BY <1>5 DEF ReadWelcome, RecordWelcome, Step, MembershipTypeOK, rewardVars
  <2> QED BY <1>5, <2>1, BonusSteps DEF RewardsReferred
<1>6. CASE CreditMark
  <2>1. \A u \in Users : reward'[u] # "none" => reward[u] # "none"
    BY <1>6 DEF CreditMark, MembershipTypeOK
  <2> QED BY <1>6, <2>1 DEF CreditMark, RewardsReferred, requestVars
<1> QED BY <1>1, <1>2, <1>3, <1>4, <1>5, <1>6, QuietSteps

\* Whoever inserts the reward of a user is the only one to do so, and finds the
\* user not yet welcomed, since a welcome never comes without a reward.
LEMMA WelcomeInvKept ==
  ASSUME MembershipTypeOK, WelcomeInv, MembershipNext
  PROVE  WelcomeInv'
<1>1. CASE /\ UNCHANGED <<reward, welcomes>>
           /\ \A t \in MemberTx : mpc'[t] \in TowardsWelcome =>
                mpc'[t] = mpc[t] /\ mreq'[t] = mreq[t]
  BY <1>1 DEF WelcomeInv, Welcoming, WelcomedOnce, TowardsWelcome
<1>2. ASSUME NEW t \in MemberTx, FindReferrer(t) \/ CheckReward(t)
      PROVE  WelcomeInv'
  <2>1. ~ Welcoming(t)' /\ UNCHANGED <<reward, welcomes>>
    BY <1>2 DEF FindReferrer, CheckReward, EndRequest, Welcoming, MembershipTypeOK, rewardVars
  <2> QED BY <1>2, <2>1, BonusSteps DEF WelcomeInv, Welcoming, WelcomedOnce
<1>3. ASSUME NEW t \in MemberTx, CreateReward(t)
      PROVE  WelcomeInv'
  <2>1. UNCHANGED welcomes
    BY <1>3 DEF CreateReward
  <2>2. CASE reward[mreq[t].user] = "none"
    <3>1. /\ reward' = [reward EXCEPT ![mreq[t].user] = "pending"]
          /\ welcomes[mreq[t].user] = 0
      <4>1. mreq[t].user \in Users
        BY <1>3, BonusSteps
      <4>2. welcomes[mreq[t].user] \in Nat
        BY <4>1 DEF MembershipTypeOK
      <4>3. welcomes[mreq[t].user] =< 1 /\ welcomes[mreq[t].user] # 1
        BY <2>2, <4>1 DEF WelcomeInv, WelcomedOnce
      <4> QED BY <1>3, <2>2, <4>2, <4>3 DEF CreateReward
    <3>2. \A s \in MemberTx : Welcoming(s) => mreq[s].user # mreq[t].user
      BY <2>2 DEF WelcomeInv
    <3>3. \A u \in Users : reward[u] # "none" => reward'[u] # "none"
      BY <3>1 DEF MembershipTypeOK
    <3>4. reward'[mreq[t].user] # "none"
      BY <1>3, <3>1, BonusSteps DEF MembershipTypeOK
    <3>5. \A s \in MemberTx : Welcoming(s) => mreq[s].user \in Users
      BY DEF Welcoming, MembershipTypeOK
    <3> QED BY <1>3, <2>1, <3>1, <3>2, <3>3, <3>4, <3>5, BonusSteps DEF WelcomeInv, Welcoming, WelcomedOnce
  <2>3. CASE reward[mreq[t].user] # "none"
    <3>1. ~ Welcoming(t)' /\ UNCHANGED reward
      BY <1>3, <2>3 DEF CreateReward, EndRequest, Welcoming, MembershipTypeOK
    <3> QED BY <1>3, <2>1, <3>1, BonusSteps DEF WelcomeInv, Welcoming, WelcomedOnce
  <2> QED BY <2>2, <2>3
<1>4. ASSUME NEW t \in MemberTx, ReadWelcome(t)
      PROVE  WelcomeInv'
  <2>1. Welcoming(t) /\ UNCHANGED <<reward, welcomes, mreq>>
    BY <1>4 DEF ReadWelcome, Step, Welcoming, rewardVars
  <2> QED BY <1>4, <2>1, BonusSteps DEF WelcomeInv, Welcoming, WelcomedOnce
<1>5. ASSUME NEW t \in MemberTx, RecordWelcome(t)
      PROVE  WelcomeInv'
  <2>1. Welcoming(t) /\ ~ Welcoming(t)' /\ UNCHANGED <<reward, mreq>>
    BY <1>5 DEF RecordWelcome, Step, Welcoming, MembershipTypeOK
  <2>2. \A u \in Users : welcomes'[u] = IF u = mreq[t].user THEN 1 ELSE welcomes[u]
    BY <1>5, <2>1, BonusSteps DEF RecordWelcome, WelcomeInv, MembershipTypeOK
  <2>3. \A s \in MemberTx : Welcoming(s)' =>
          s # t /\ Welcoming(s) /\ mreq[s].user \in Users /\ mreq[s].user # mreq[t].user
    BY <1>5, <2>1, BonusSteps DEF WelcomeInv, Welcoming, MembershipTypeOK
  <2>4. \A s \in MemberTx : Welcoming(s)' =>
          reward'[mreq'[s].user] # "none" /\ welcomes'[mreq'[s].user] = 0
    BY <2>1, <2>2, <2>3 DEF WelcomeInv
  <2>5. \A r, s \in MemberTx : Welcoming(r)' /\ Welcoming(s)' /\ mreq'[r].user = mreq'[s].user => r = s
    BY <2>1, <2>3 DEF WelcomeInv
  <2>6. WelcomedOnce'
    BY <2>1, <2>2 DEF WelcomeInv, WelcomedOnce
  <2> QED BY <2>4, <2>5, <2>6 DEF WelcomeInv
<1>6. CASE CreditMark
  <2>1. \A u \in Users : reward'[u] = "none" <=> reward[u] = "none"
    BY <1>6 DEF CreditMark, MembershipTypeOK
  <2>2. \A t \in MemberTx : Welcoming(t) => mreq[t].user \in Users
    BY DEF Welcoming, MembershipTypeOK
  <2> QED BY <1>6, <2>1, <2>2 DEF CreditMark, WelcomeInv, Welcoming, WelcomedOnce, requestVars
<1> QED BY <1>1, <1>2, <1>3, <1>4, <1>5, <1>6, QuietSteps
-----------------------------------------------------------------------------
(* Credits                                                                 *)

\* No other step disturbs what the credit worker knows of a reward.
LEMMA CreditSteps ==
  ASSUME MembershipNext
  PROVE  \/ UNCHANGED <<reward, credits, creditPc, creditTodo, creditFor, faults>>
         \/ \E t \in MemberTx : CreateReward(t)
         \/ CreditStep \/ CreditFails
<1>1. ASSUME NEW t \in MemberTx, MemberRequest(t) \/ RequestFails(t) \/ (MemberStep(t) /\ ~ CreateReward(t))
      PROVE  UNCHANGED <<reward, credits, creditPc, creditTodo, creditFor, faults>>
  BY <1>1 DEF MemberRequest, RequestFails, MemberStep, RequestVerification, ResetVerification,
              UpdateVerification, InsertVerification, CloseOthers, SetStudent, SetExpiry,
              FindReferrer, CheckReward, ReadWelcome, RecordWelcome, WriteWelcome, ResetStudent,
              rewardVars, creditVars
<1>2. ASSUME ExpiryStep \/ (\E v \in VerifIds : Lapse(v)) \/ (\E u \in Users : RewardFallsDue(u))
      PROVE  UNCHANGED <<reward, credits, creditPc, creditTodo, creditFor, faults>>
  BY <1>2 DEF ExpiryStep, ExpireRows, ExpireUser, ExpireUserFails, Lapse, RewardFallsDue,
              rewardVars, creditVars
<1> QED BY <1>1, <1>2 DEF MembershipNext, MemberStep

LEMMA CreditInvKept ==
  ASSUME MembershipTypeOK, CreditInv, MembershipNext
  PROVE  CreditInv'
<1> USE NobodyAssumption
<1>1. CASE UNCHANGED <<reward, credits, creditPc, creditTodo, creditFor, faults>>
  BY <1>1 DEF CreditInv, BeingCredited
<1>2. ASSUME NEW t \in MemberTx, CreateReward(t)
      PROVE  CreditInv'
  <2>1. UNCHANGED <<credits, creditPc, creditTodo, creditFor, faults>>
    BY <1>2 DEF CreateReward, creditVars
  <2>2. /\ \A u \in Users : reward[u] = "pending" => reward'[u] = "pending"
        /\ \A u \in Users : reward'[u] = "credited" <=> reward[u] = "credited"
    BY <1>2 DEF CreateReward, MembershipTypeOK
  <2> QED BY <2>1, <2>2 DEF CreditInv, BeingCredited, MembershipTypeOK
<1>3. CASE ListRewards
  BY <1>3 DEF ListRewards, Creditable, CreditInv, BeingCredited, rewardVars
<1>4. ASSUME NEW u \in Users, CreditRead(u)
      PROVE  CreditInv'
  BY <1>4 DEF CreditRead, CreditInv, BeingCredited, rewardVars
<1>5. CASE CreditRecord
  <2>1. creditFor \in Users /\ ~ BeingCredited(creditFor) /\ reward[creditFor] = "pending"
    BY <1>5 DEF CreditRecord, CreditInv, BeingCredited, MembershipTypeOK
  <2>2. \A u \in Users : credits'[u] = IF u = creditFor THEN credits[u] + 1 ELSE credits[u]
    BY <1>5 DEF CreditRecord, MembershipTypeOK
  <2>3. /\ creditPc' = "write" /\ creditPc = "record"
        /\ UNCHANGED <<reward, creditTodo, creditFor, faults>>
    BY <1>5 DEF CreditRecord
  <2>4. \A u \in Users : BeingCredited(u)' <=> u = creditFor
    BY <2>3 DEF BeingCredited
  <2>5. \A u \in Users : ~ BeingCredited(u)
    BY <2>3 DEF BeingCredited
  <2>6. credits \in [Users -> Nat] /\ faults \in [Users -> Nat]
    BY DEF MembershipTypeOK
  <2> QED BY <2>1, <2>2, <2>3, <2>4, <2>5, <2>6 DEF CreditInv
<1>6. CASE CreditWrite
  BY <1>6 DEF CreditWrite, CreditInv, BeingCredited, rewardVars
<1>7. CASE CreditMark
  <2>1. creditFor \in Users /\ reward[creditFor] = "pending" /\ creditFor \notin creditTodo
    BY <1>7 DEF CreditMark, CreditInv, MembershipTypeOK
  <2>2. \A u \in Users : reward'[u] = IF u = creditFor THEN "credited" ELSE reward[u]
    BY <1>7, <2>1 DEF CreditMark, MembershipTypeOK
  <2>3. /\ creditPc = "mark" /\ creditPc' = "idle"
        /\ UNCHANGED <<credits, creditTodo, faults>>
    BY <1>7 DEF CreditMark
  <2>4. \A u \in Users : BeingCredited(u)' \/ reward'[u] = "credited"
                         <=> BeingCredited(u) \/ reward[u] = "credited"
    BY <2>2, <2>3 DEF BeingCredited
  <2>5. creditTodo \subseteq Users
    BY DEF MembershipTypeOK
  <2> QED BY <2>1, <2>2, <2>3, <2>4, <2>5 DEF CreditInv
<1>8. CASE CreditFails
  <2>1. /\ creditPc' = "idle" /\ creditTodo' \subseteq creditTodo
        /\ UNCHANGED <<reward, credits>>
    BY <1>8 DEF CreditFails, rewardVars
  <2>4. creditFor \in Users
    BY <1>8 DEF CreditFails, MembershipTypeOK
  <2>5. \A u \in Users : faults'[u] = IF u = creditFor THEN faults[u] + 1 ELSE faults[u]
    BY <1>8, <2>4 DEF CreditFails, MembershipTypeOK
  <2>6. \A u \in Users : BeingCredited(u) => u = creditFor
    BY DEF BeingCredited
  <2>2. \A u \in Users : ~ BeingCredited(u)'
    BY <2>1 DEF BeingCredited
  <2>3. credits \in [Users -> Nat] /\ faults \in [Users -> Nat]
    BY DEF MembershipTypeOK
  <2> QED BY <2>1, <2>2, <2>3, <2>5, <2>6 DEF CreditInv
<1> QED BY <1>1, <1>2, <1>3, <1>4, <1>5, <1>6, <1>7, <1>8, CreditSteps DEF CreditStep
-----------------------------------------------------------------------------
(* The theorems                                                            *)

LEMMA MembershipInitInv == MembershipInitAll => MembershipInv
<1> SUFFICES ASSUME MembershipInitAll PROVE MembershipInv
  OBVIOUS
<1>1. AccountsTypeOK
  BY OpeningAssumption DEF MembershipInitAll, AccountsInit, AccountsTypeOK
<1>2. MembershipTypeOK
  BY DEF MembershipInitAll, MembershipInit, MembershipTypeOK, VerifStatuses, MemberPcs,
         NoRequest, Decisions
<1>3. RowsNamed /\ RewardsReferred /\ WelcomeInv /\ CreditInv
  BY DEF MembershipInitAll, MembershipInit, RowsNamed, RewardsReferred, WelcomeInv, Welcoming,
         WelcomedOnce, CreditInv, BeingCredited, NoRequest, VerifIds
<1> QED BY <1>1, <1>2, <1>3 DEF MembershipInv

LEMMA MembershipNextKeeps ==
  ASSUME MembershipInv, MembershipNext
  PROVE  MembershipInv'
<1>1. ASSUME NEW t \in MemberTx, MemberStep(t)
      PROVE  MembershipTypeOK' /\ AccountsTypeOK'
  BY <1>1, VerificationTypes, BonusTypes DEF MembershipInv, MemberStep
<1>2. MembershipTypeOK' /\ AccountsTypeOK'
  BY <1>1, RequestTypes, WorkerTypes DEF MembershipInv, MembershipNext
<1> QED BY <1>2, RowsNamedKept, RewardsReferredKept, WelcomeInvKept, CreditInvKept
        DEF MembershipInv

\* Of the accounts the rest of the system writes, only the types matter here.
LEMMA MembershipEnvironment ==
  ASSUME MembershipInv, UNCHANGED memberVars, AccountsTypeOK'
  PROVE  MembershipInv'
BY DEF MembershipInv, MembershipTypeOK, RowsNamed, RewardsReferred, WelcomeInv, Welcoming,
       WelcomedOnce, CreditInv, BeingCredited, memberVars, verifVars, rewardVars, creditVars,
       requestVars

LEMMA MembershipInvariant == MembershipSpec => []MembershipInv
<1>1. MembershipInv /\ [MembershipNext]_<<memberVars, cashVars, bonusVars>> => MembershipInv'
  <2>1. ASSUME MembershipInv, UNCHANGED <<memberVars, cashVars, bonusVars>>
        PROVE  MembershipInv'
    BY <2>1, MembershipEnvironment DEF MembershipInv, AccountsTypeOK, cashVars, bonusVars
  <2> QED BY <2>1, MembershipNextKeeps
<1> QED BY <1>1, MembershipInitInv, PTL DEF MembershipSpec

\* Bonuses for a referred student are given once: for any number of sessions,
\* users and verifications the student is welcomed at most once and never
\* without the referrer's reward, the referrer is credited again only after a
\* failure cut a credit short, and a reward marked as credited was credited
\* (UpdateVerification of usecase/admin.go, creditReward).
THEOREM BonusesGivenOnce ==
  MembershipSpec => [](WelcomedOnce /\ CreditedAgainOnlyAfterFault /\ MarkedWasCredited)
<1>1. MembershipInv => WelcomedOnce /\ CreditedAgainOnlyAfterFault /\ MarkedWasCredited
  BY DEF MembershipInv, MembershipTypeOK, WelcomeInv, CreditInv, CreditedAgainOnlyAfterFault,
         MarkedWasCredited
<1> QED BY <1>1, MembershipInvariant, PTL

\* A reward is credited twice only if an error or a crash came between the
\* credit and the mark (processReferrals, creditReward).
THEOREM CreditedAgainNeedsFault == MembershipSpec => []CreditedAgainOnlyAfterFault
<1> QED BY BonusesGivenOnce, PTL

\* What the worker marked as credited did reach the referrer (creditReward).
THEOREM MarkedRewardsWereCredited == MembershipSpec => []MarkedWasCredited
<1> QED BY BonusesGivenOnce, PTL

\* Verifications, users, rewards and the requests at work keep their types.
THEOREM MembershipTypesCorrect == MembershipSpec => []MembershipTypeOK
<1>1. MembershipInv => MembershipTypeOK
  BY DEF MembershipInv
<1> QED BY <1>1, MembershipInvariant, PTL
=============================================================================
