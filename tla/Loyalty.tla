------------------------------- MODULE Loyalty -------------------------------
(***************************************************************************)
(* Bonus points: spent and given back by orders, which lock the            *)
(* bonus_accounts row, and handed out by the credit worker and by the      *)
(* approval of a referred student, which read the balance, record a        *)
(* transaction and overwrite the balance in three statements without a     *)
(* lock.  The UPDATE of the last one waits for an order that holds the     *)
(* row, and nothing else keeps the two apart.                              *)
(***************************************************************************)
EXTENDS Orders, Membership

\* One request is served by one session; the credit worker goes by another name.
ASSUME SessionsAssumption == OrderTx \cap MemberTx = {} /\ Nobody \notin MemberTx

VARIABLES
  overrun   \* users whose points went astray in a way that can be named

loyaltyVars == <<orderVars, memberVars, cashVars, bonusVars, overrun>>

\* Who has read the balance of user u and not yet written it, without a lock:
\* approvals, and the credit worker under the name of Nobody.
Writers(u) ==
  {t \in MemberTx : mpc[t] \in {"recordWelcome", "writeWelcome"} /\ mreq[t].user = u}
    \cup {w \in {Nobody} : creditPc \in {"record", "write"} /\ ReferredBy[creditFor] = u}

\* Those of them whose bonus_transactions row is there already.
Recorded(u) ==
  {t \in MemberTx : mpc[t] = "writeWelcome" /\ mreq[t].user = u}
    \cup {w \in {Nobody} : creditPc = "write" /\ ReferredBy[creditFor] = u}

\* The balance changes between the reading and the writing of another, or a
\* recorded bonus is given up before its balance was written.
Overrun(u) ==
  \/ bonus'[u] # bonus[u] /\ Writers(u)' # {}
  \/ bonus'[u] = bonus[u] /\ Recorded(u) \ Recorded(u)' # {}

LoyaltyInit ==
  /\ AccountsInit /\ OrdersInit /\ MembershipInit
  /\ overrun = {}

LoyaltyNext ==
  /\ \/ OrdersNext /\ UNCHANGED memberVars
     \/ MembershipNext /\ UNCHANGED orderVars
  /\ overrun' = overrun \cup {u \in Users : Overrun(u)}

LoyaltySpec == LoyaltyInit /\ [][LoyaltyNext]_loyaltyVars
-----------------------------------------------------------------------------
\* The points of a user are the sum of bonus_transactions, but for a bonus that
\* is recorded and about to be written, unless a bonus was written over a
\* balance that had changed meanwhile or was cut short: that is the only way in
\* which orders and bonuses can lose points or make them (creditReward,
\* UpdateVerification, CreateOrder, RefundOrder).
AstrayOnlyIfOverrun ==
  \A u \in Users \ overrun :
    bonusLog[u] = bonus[u] + RewardAmount * Cardinality(Recorded(u))

\* The bonuses recorded for user u: the own welcome, and the rewards for those
\* u has referred, each as often as it was credited.
BonusesOf(u) == welcomes[u] + SumFunctionOnSet(credits, {v \in Users : ReferredBy[v] = u})

\* bonus_transactions tell where the points of every user came from and went:
\* bonuses that approvals and the worker recorded, and orders not refunded.  The
\* balance tells the same, but for what AstrayOnlyIfOverrun allows (creditReward,
\* UpdateVerification, CreateOrder, RefundOrder).
PointsAccounted ==
  /\ AstrayOnlyIfOverrun
  /\ \A u \in Users :
       bonusLog[u] = OpeningBonus[u] + RewardAmount * BonusesOf(u)
                       - SumFunctionOnSet(PointsPaid, OrdersOf(u))
=============================================================================
