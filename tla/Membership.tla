----------------------------- MODULE Membership -----------------------------
(***************************************************************************)
(* Student verification and what follows from it: the status of the user,  *)
(* its expiry by a daily worker, the bonus for a referred student and the  *)
(* reward of the referrer, credited by a worker that wakes every half      *)
(* hour.  None of this opens a transaction: every statement is committed   *)
(* by itself, and a request or a worker that stops between two of them     *)
(* leaves what it has written.                                             *)
(*                                                                         *)
(* A reward is known by the referred user: users.referred_by never changes *)
(* and referral_rewards is UNIQUE (referrer_id, referred_user_id).  Two    *)
(* workers run, one of each kind, in the one process of the server.        *)
(***************************************************************************)
EXTENDS Accounts, FiniteSets

CONSTANTS
  MemberTx,      \* the sessions that serve requests about verifications
  MaxVerifs,     \* bound: verifications ever requested
  Nobody,        \* the referrer of a user who came alone
  ReferredBy,    \* users.referred_by
  RewardAmount,  \* bonusAmount
  MaxFaults      \* bound: times the crediting of one reward is cut short

ASSUME NobodyAssumption == Nobody \notin Users
ASSUME ReferralAssumption ==
  /\ ReferredBy \in [Users -> Users \cup {Nobody}]
  /\ RewardAmount \in Nat
  /\ MaxVerifs \in Nat /\ MaxFaults \in Nat

VARIABLES
  verif,          \* student_verifications by id; ids grow
  studentStatus,  \* users.student_status
  reward,         \* referral_rewards.status by referred user
  due,            \* rewards whose available_at has passed
  welcomes,       \* number of bonus_transactions "referral_welcome" of a user
  credits,        \* number of bonus_transactions that refer to a reward
  mpc,            \* where the request served by a session stands
  mreq,           \* the verification, user and decision it is about
  mseen,          \* the bonus balance it read
  expiring,       \* users the expiry worker still has to update
  creditPc,       \* where the credit worker stands
  creditTodo,     \* the rewards it has listed and not begun
  creditFor,      \* the reward it is crediting
  creditSeen,     \* the bonus balance it read
  faults          \* how often the crediting of each reward was cut short

verifVars == <<verif, studentStatus, expiring>>
rewardVars == <<reward, due, welcomes, credits>>
creditVars == <<creditPc, creditTodo, creditFor, creditSeen, faults>>
requestVars == <<mpc, mreq, mseen>>
memberVars == <<verifVars, rewardVars, creditVars, requestVars>>

VerifIds == 1 .. MaxVerifs
VerifStatuses == {"pending", "verified", "rejected", "expired"}
Decisions == {"verified", "rejected"}

\* `decided` says that rejection_reason is set; expires_at is null, ahead or past.
Verifications ==
  [user : Users, status : VerifStatuses, decided : BOOLEAN, expires : {"null", "ahead", "past"}]
NoRow == [user |-> Nobody, status |-> "none", decided |-> FALSE, expires |-> "null"]
NoRequest == [verif |-> 0, user |-> Nobody, decision |-> "rejected"]

MembershipInit ==
  /\ verif = [v \in VerifIds |-> NoRow]
  /\ studentStatus = [u \in Users |-> "pending"]
  /\ due = {} /\ expiring = {}
  /\ reward = [u \in Users |-> "none"]
  /\ welcomes = [u \in Users |-> 0]
  /\ credits = [u \in Users |-> 0]
  /\ mpc = [t \in MemberTx |-> "idle"]
  /\ mreq = [t \in MemberTx |-> NoRequest]
  /\ mseen = [t \in MemberTx |-> 0]
  /\ creditPc = "idle" /\ creditTodo = {} /\ creditFor = Nobody /\ creditSeen = 0
  /\ faults = [u \in Users |-> 0]

Step(t, from, to) == mpc[t] = from /\ mpc' = [mpc EXCEPT ![t] = to]

EndRequest(t) ==
  /\ mpc' = [mpc EXCEPT ![t] = "idle"]
  /\ mreq' = [mreq EXCEPT ![t] = NoRequest]
  /\ mseen' = [mseen EXCEPT ![t] = 0]

\* An error that is returned, or a client or server that goes away.
RequestFails(t) ==
  /\ mpc[t] # "idle"
  /\ EndRequest(t)
  /\ UNCHANGED <<verifVars, rewardVars, creditVars, cashVars, bonusVars>>
-----------------------------------------------------------------------------
(* RequestVerification                                                     *)

RowsOf(u) == {v \in VerifIds : verif[v].user = u}

\* The row GetByUserID picks.  The scan of a row whose rejection_reason is NULL
\* into a Go string fails, and the caller takes an error for "no row".
Latest(u) == CHOOSE v \in RowsOf(u) : \A w \in RowsOf(u) : w =< v
Refused(u) ==
  /\ RowsOf(u) # {}
  /\ verif[Latest(u)].decided
  /\ verif[Latest(u)].status \in {"pending", "verified"}

RequestVerification(t, u) ==
  /\ Step(t, "idle", "insert")
  /\ ~ Refused(u)
  /\ mreq' = [mreq EXCEPT ![t].user = u]
  /\ UNCHANGED <<mseen, verifVars, rewardVars, creditVars, cashVars, bonusVars>>

\* INSERT with the next id of the sequence.
InsertVerification(t) ==
  /\ mpc[t] = "insert"
  /\ \E v \in VerifIds :
       /\ verif[v] = NoRow /\ \A w \in VerifIds : w < v => verif[w] # NoRow
       /\ verif' = [verif EXCEPT ![v] = [user |-> mreq[t].user, status |-> "pending",
                                         decided |-> FALSE, expires |-> "null"]]
  /\ EndRequest(t)
  /\ UNCHANGED <<studentStatus, expiring, rewardVars, creditVars, cashVars, bonusVars>>
-----------------------------------------------------------------------------
(* UpdateVerification: the decision of an administrator                    *)

\* The first statement of UpdateStatus; what the row was is not looked at.
UpdateVerification(t, v, decision) ==
  /\ Step(t, "idle", "closeOthers")
  /\ verif[v] # NoRow
  /\ mreq' = [mreq EXCEPT ![t] = [verif |-> v, user |-> verif[v].user, decision |-> decision]]
  /\ verif' = [verif EXCEPT ![v].status = decision, ![v].decided = TRUE]
  /\ UNCHANGED <<mseen, studentStatus, expiring, rewardVars, creditVars, cashVars, bonusVars>>

\* The other pending rows of the user share the decision, without a date.
CloseOthers(t) ==
  /\ Step(t, "closeOthers", "setStudent")
  /\ verif' = [v \in VerifIds |->
       IF verif[v].user = mreq[t].user /\ verif[v].status = "pending" /\ v # mreq[t].verif
       THEN [verif[v] EXCEPT !.status = mreq[t].decision] ELSE verif[v]]
  /\ UNCHANGED <<mreq, mseen, studentStatus, expiring, rewardVars, creditVars,
                 cashVars, bonusVars>>

SetStudent(t) ==
  /\ mpc[t] = "setStudent"
  /\ studentStatus' = [studentStatus EXCEPT ![mreq[t].user] = mreq[t].decision]
  /\ IF mreq[t].decision = "verified"
     THEN mpc' = [mpc EXCEPT ![t] = "setExpiry"] /\ UNCHANGED <<mreq, mseen>>
     ELSE EndRequest(t)
  /\ UNCHANGED <<verif, expiring, rewardVars, creditVars, cashVars, bonusVars>>

\* SetExpiresAt, or its failure, which is only logged.
SetExpiry(t) ==
  /\ Step(t, "setExpiry", "findReferrer")
  /\ \/ verif' = [verif EXCEPT ![mreq[t].verif].expires = "ahead"]
     \/ UNCHANGED verif
  /\ UNCHANGED <<mreq, mseen, studentStatus, expiring, rewardVars, creditVars,
                 cashVars, bonusVars>>

\* A user who came alone earns nobody a bonus.  The invite of another is accepted,
\* or that is only logged; referral_invites.status is read by statistics alone.
FindReferrer(t) ==
  /\ mpc[t] = "findReferrer"
  /\ IF ReferredBy[mreq[t].user] # Nobody
     THEN mpc' = [mpc EXCEPT ![t] = "checkReward"] /\ UNCHANGED <<mreq, mseen>>
     ELSE EndRequest(t)
  /\ UNCHANGED <<verifVars, rewardVars, creditVars, cashVars, bonusVars>>

\* GetRewardsByReferrer: alreadyExists.
CheckReward(t) ==
  /\ mpc[t] = "checkReward"
  /\ IF reward[mreq[t].user] = "none"
     THEN mpc' = [mpc EXCEPT ![t] = "createReward"] /\ UNCHANGED <<mreq, mseen>>
     ELSE EndRequest(t)
  /\ UNCHANGED <<verifVars, rewardVars, creditVars, cashVars, bonusVars>>

\* Variant for mutation: referral_rewards has no UNIQUE constraint.
CreateRewardAgain(t) ==
  /\ Step(t, "createReward", "readWelcome")
  /\ reward' = [reward EXCEPT ![mreq[t].user] = "pending"]
  /\ UNCHANGED <<mreq, mseen, due, welcomes, credits, verifVars, creditVars,
                 cashVars, bonusVars>>

\* The INSERT fails if another approval came first, and then the request ends.
CreateReward(t) ==
  LET u == mreq[t].user
  IN  /\ mpc[t] = "createReward"
      /\ \/ /\ reward[u] = "none"
            /\ reward' = [reward EXCEPT ![u] = "pending"]
            /\ mpc' = [mpc EXCEPT ![t] = "readWelcome"]
            /\ UNCHANGED <<mreq, mseen>>
         \/ /\ reward[u] # "none"
            /\ EndRequest(t)
            /\ UNCHANGED reward
      /\ UNCHANGED <<due, welcomes, credits, verifVars, creditVars, cashVars, bonusVars>>

\* The welcome bonus of the student: read, record and overwrite, without a lock.
ReadWelcome(t) ==
  /\ Step(t, "readWelcome", "recordWelcome")
  /\ mseen' = [mseen EXCEPT ![t] = bonus[mreq[t].user]]
  /\ UNCHANGED <<mreq, verifVars, rewardVars, creditVars, cashVars, bonusVars>>

RecordWelcome(t) ==
  LET u == mreq[t].user
  IN  /\ Step(t, "recordWelcome", "writeWelcome")
      /\ welcomes' = [welcomes EXCEPT ![u] = @ + 1]
      /\ bonusLog' = [bonusLog EXCEPT ![u] = @ + RewardAmount]
      /\ UNCHANGED <<mreq, mseen, reward, due, credits, verifVars, creditVars,
                     cashVars, bonus, bonusLock>>

WriteWelcome(t) ==
  /\ mpc[t] = "writeWelcome" /\ bonusLock[mreq[t].user] = Free
  /\ bonus' = [bonus EXCEPT ![mreq[t].user] = mseen[t] + RewardAmount]
  /\ EndRequest(t)
  /\ UNCHANGED <<verifVars, rewardVars, creditVars, cashVars, bonusLog, bonusLock>>
-----------------------------------------------------------------------------
(* ResetVerification                                                       *)

\* The dates of the user's verifications are moved to now ...
ResetVerification(t, u) ==
  /\ Step(t, "idle", "resetStudent")
  /\ mreq' = [mreq EXCEPT ![t].user = u]
  /\ verif' = [v \in VerifIds |->
       IF verif[v].user = u /\ verif[v].status = "verified"
       THEN [verif[v] EXCEPT !.expires = "past"] ELSE verif[v]]
  /\ UNCHANGED <<mseen, studentStatus, expiring, rewardVars, creditVars, cashVars, bonusVars>>

\* ... and the status is taken away; the rows are left to the expiry worker.
ResetStudent(t) ==
  /\ mpc[t] = "resetStudent"
  /\ studentStatus' = [studentStatus EXCEPT ![mreq[t].user] = "pending"]
  /\ EndRequest(t)
  /\ UNCHANGED <<verif, expiring, rewardVars, creditVars, cashVars, bonusVars>>
-----------------------------------------------------------------------------
(* ExpireOldVerifications                                                  *)

\* The validity of verification v ends (30 September of the next year).
Lapse(v) ==
  /\ verif[v].expires = "ahead"
  /\ verif' = [verif EXCEPT ![v].expires = "past"]
  /\ UNCHANGED <<studentStatus, expiring, rewardVars, creditVars, requestVars,
                 cashVars, bonusVars>>

Overdue == {v \in VerifIds : verif[v].status = "verified" /\ verif[v].expires = "past"}

\* One UPDATE ... RETURNING user_id for all of them.
ExpireRows ==
  /\ expiring = {} /\ Overdue # {}
  /\ verif' = [v \in VerifIds |->
                 IF v \in Overdue THEN [verif[v] EXCEPT !.status = "expired"] ELSE verif[v]]
  /\ expiring' = {verif[v].user : v \in Overdue}
  /\ UNCHANGED <<studentStatus, rewardVars, creditVars, requestVars, cashVars, bonusVars>>

\* Variant for mutation: the user gets a status the table does not know.
ExpireUserMisspelt(u) ==
  /\ u \in expiring
  /\ expiring' = expiring \ {u}
  /\ studentStatus' = [studentStatus EXCEPT ![u] = "lapsed"]
  /\ UNCHANGED <<verif, rewardVars, creditVars, requestVars, cashVars, bonusVars>>

\* Then a statement per user; a failure is logged and never tried again.
ExpireUser(u) ==
  /\ u \in expiring
  /\ expiring' = expiring \ {u}
  /\ studentStatus' = [studentStatus EXCEPT ![u] = "expired"]
  /\ UNCHANGED <<verif, rewardVars, creditVars, requestVars, cashVars, bonusVars>>

ExpireUserFails(u) ==
  /\ u \in expiring
  /\ expiring' = expiring \ {u}
  /\ UNCHANGED <<verif, studentStatus, rewardVars, creditVars, requestVars, cashVars, bonusVars>>
-----------------------------------------------------------------------------
(* runBonusCredit                                                          *)

\* A day has passed since the reward was created.
RewardFallsDue(u) ==
  /\ reward[u] = "pending" /\ u \notin due
  /\ due' = due \cup {u}
  /\ UNCHANGED <<reward, welcomes, credits, verifVars, creditVars, requestVars,
                 cashVars, bonusVars>>

\* Variant for mutation: rewards that have a transaction are passed over.
CreditableFresh == {u \in due : reward[u] = "pending" /\ credits[u] = 0}

Creditable == {u \in due : reward[u] = "pending"}

ListRewards ==
  /\ creditPc = "idle" /\ creditTodo = {} /\ Creditable # {}
  /\ creditTodo' = Creditable
  /\ UNCHANGED <<creditPc, creditFor, creditSeen, faults, verifVars, rewardVars, requestVars,
                 cashVars, bonusVars>>

\* Variant for mutation: the reward is marked before it is credited.
CreditReadMarking(u) ==
  /\ creditPc = "idle" /\ u \in creditTodo
  /\ creditPc' = "record"
  /\ creditTodo' = creditTodo \ {u}
  /\ creditFor' = u
  /\ creditSeen' = bonus[ReferredBy[u]]
  /\ reward' = [reward EXCEPT ![u] = "credited"]
  /\ UNCHANGED <<faults, verifVars, due, welcomes, credits, requestVars,
                 cashVars, bonusVars>>

\* creditReward: GetByUserID of the referrer, without a lock.
CreditRead(u) ==
  /\ creditPc = "idle" /\ u \in creditTodo
  /\ creditPc' = "record"
  /\ creditTodo' = creditTodo \ {u}
  /\ creditFor' = u
  /\ creditSeen' = bonus[ReferredBy[u]]
  /\ UNCHANGED <<faults, verifVars, rewardVars, requestVars, cashVars, bonusVars>>

CreditRecord ==
  /\ creditPc = "record" /\ creditPc' = "write"
  /\ credits' = [credits EXCEPT ![creditFor] = @ + 1]
  /\ bonusLog' = [bonusLog EXCEPT ![ReferredBy[creditFor]] = @ + RewardAmount]
  /\ UNCHANGED <<reward, due, welcomes, verifVars, creditTodo, creditFor, creditSeen,
                 faults, requestVars, cashVars, bonus, bonusLock>>

\* Variant for mutation: the UPDATE does not wait for the row.
CreditWriteThrough ==
  /\ creditPc = "write" /\ creditPc' = "mark"
  /\ bonus' = [bonus EXCEPT ![ReferredBy[creditFor]] = creditSeen + RewardAmount]
  /\ UNCHANGED <<creditTodo, creditFor, creditSeen, faults, verifVars, rewardVars, requestVars,
                 cashVars, bonusLog, bonusLock>>

\* The UPDATE waits for an order that holds the row, and overwrites its result.
CreditWrite ==
  /\ creditPc = "write" /\ creditPc' = "mark"
  /\ bonusLock[ReferredBy[creditFor]] = Free
  /\ bonus' = [bonus EXCEPT ![ReferredBy[creditFor]] = creditSeen + RewardAmount]
  /\ UNCHANGED <<creditTodo, creditFor, creditSeen, faults, verifVars, rewardVars, requestVars,
                 cashVars, bonusLog, bonusLock>>

\* Variant for mutation: the reward is never marked.
CreditMarkForgotten ==
  /\ creditPc = "mark" /\ creditPc' = "idle"
  /\ creditFor' = Nobody /\ creditSeen' = 0
  /\ UNCHANGED <<creditTodo, faults, rewardVars, verifVars, requestVars, cashVars, bonusVars>>

CreditMark ==
  /\ creditPc = "mark" /\ creditPc' = "idle"
  /\ reward' = [reward EXCEPT ![creditFor] = IF @ = "pending" THEN "credited" ELSE @]
  /\ creditFor' = Nobody /\ creditSeen' = 0
  /\ UNCHANGED <<creditTodo, faults, due, welcomes, credits, verifVars, requestVars,
                 cashVars, bonusVars>>

\* A statement of creditReward fails and the worker goes on with the next
\* reward, or the server dies and the list is lost.
CreditFails ==
  /\ creditPc # "idle" /\ creditPc' = "idle"
  /\ faults[creditFor] < MaxFaults /\ faults' = [faults EXCEPT ![creditFor] = @ + 1]
  /\ creditFor' = Nobody /\ creditSeen' = 0
  /\ creditTodo' \in {creditTodo, {}}
  /\ UNCHANGED <<verifVars, rewardVars, requestVars, cashVars, bonusVars>>
-----------------------------------------------------------------------------
MemberRequest(t) ==
  \/ \E u \in Users : RequestVerification(t, u) \/ ResetVerification(t, u)
  \/ \E v \in VerifIds, decision \in Decisions : UpdateVerification(t, v, decision)

MemberStep(t) ==
  \/ InsertVerification(t) \/ CloseOthers(t) \/ SetStudent(t) \/ SetExpiry(t)
  \/ FindReferrer(t) \/ CheckReward(t) \/ CreateReward(t)
  \/ ReadWelcome(t) \/ RecordWelcome(t) \/ WriteWelcome(t) \/ ResetStudent(t)

ExpiryStep == ExpireRows \/ \E u \in Users : ExpireUser(u) \/ ExpireUserFails(u)

CreditStep ==
  \/ ListRewards \/ CreditRecord \/ CreditWrite \/ CreditMark
  \/ \E u \in Users : CreditRead(u)

MembershipNext ==
  \/ \E t \in MemberTx : MemberRequest(t) \/ MemberStep(t) \/ RequestFails(t)
  \/ \E v \in VerifIds : Lapse(v)
  \/ \E u \in Users : RewardFallsDue(u)
  \/ ExpiryStep \/ CreditStep \/ CreditFails

MembershipInitAll == AccountsInit /\ MembershipInit
MembershipSpec == MembershipInitAll /\ [][MembershipNext]_<<memberVars, cashVars, bonusVars>>

\* The worker is a loop that nothing in the program blocks.
CreditFairness == WF_<<memberVars, cashVars, bonusVars>>(CreditStep)
MembershipFairSpec == MembershipSpec /\ CreditFairness
-----------------------------------------------------------------------------
MemberPcs == {"idle", "insert", "closeOthers", "setStudent", "setExpiry", "findReferrer",
              "checkReward", "createReward", "readWelcome", "recordWelcome", "writeWelcome",
              "resetStudent"}

MembershipTypeOK ==
  /\ verif \in [VerifIds -> Verifications \cup {NoRow}]
  /\ studentStatus \in [Users -> VerifStatuses]
  /\ due \subseteq Users /\ expiring \subseteq Users
  /\ reward \in [Users -> {"none", "pending", "credited"}]
  /\ welcomes \in [Users -> Nat] /\ credits \in [Users -> Nat]
  /\ mpc \in [MemberTx -> MemberPcs]
  /\ mreq \in [MemberTx -> [verif : VerifIds \cup {0}, user : Users \cup {Nobody},
                            decision : Decisions]]
  /\ \A t \in MemberTx : mpc[t] # "idle" => mreq[t].user \in Users
  /\ mseen \in [MemberTx -> Int]
  /\ creditPc \in {"idle", "record", "write", "mark"}
  /\ creditTodo \subseteq Users /\ creditFor \in Users \cup {Nobody}
  /\ creditPc # "idle" => creditFor \in Users
  /\ creditSeen \in Int /\ faults \in [Users -> Nat]

\* A referred student is welcomed once, however many administrators approve
\* however many of the student's requests, and never without the reward of the
\* referrer (UpdateVerification and the UNIQUE constraint of referral_rewards).
WelcomedOnce ==
  \A u \in Users : welcomes[u] =< 1 /\ (welcomes[u] = 1 => reward[u] # "none")

\* A reward is credited a second time only if crediting that very reward was cut
\* short before it was marked (creditReward).
CreditedAgainOnlyAfterFault == \A u \in Users : credits[u] =< 1 + faults[u]

\* A reward that counts as credited was credited: the statistics of the referrer
\* and the worker, which passes over it from now on, do not lie (MarkCredited).
MarkedWasCredited == \A u \in Users : reward[u] = "credited" => credits[u] >= 1

\* Every reward that falls due is credited, also when crediting it has failed
\* before (StartBonusCreditWorker).
RewardsArrive == \A u \in Users : u \in due ~> reward[u] = "credited"

\* When the worker has gone over the expired verifications, nobody is a student
\* on the strength of an expired one (comment over ExpireOldVerifications).
Unattended(u) == u \notin expiring /\ \A t \in MemberTx : mreq[t].user # u
ExpiryReachesUser ==
  \A u \in Users : Unattended(u) /\ studentStatus[u] = "verified" =>
    \E v \in RowsOf(u) : verif[v].status # "expired"
=============================================================================
