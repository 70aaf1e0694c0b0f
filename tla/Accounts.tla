------------------------------ MODULE Accounts ------------------------------
(***************************************************************************)
(* The rows of PostgreSQL that hold a user's money, and the row locks that *)
(* protect them: accounts (cash), bonus_accounts, and the sums of          *)
(* ledger_entries and bonus_transactions posted against them.              *)
(*                                                                         *)
(* The code works at READ COMMITTED: a transaction sees only committed     *)
(* values, its own writes become visible at COMMIT, and a row read with    *)
(* SELECT ... FOR UPDATE stays locked until COMMIT or ROLLBACK.  A         *)
(* transaction is therefore modelled as a series of lock-and-read steps    *)
(* followed by one commit step that applies every write and releases every *)
(* lock.  Balances are written as absolute numbers computed in Go from the *)
(* value that was read, never as "balance = balance + x".                  *)
(*                                                                         *)
(* Amounts are integers (kopecks).  The journals are append only and the   *)
(* handlers modelled here never read them back, so a journal is kept as    *)
(* the sum of its entries per account.                                     *)
(***************************************************************************)
EXTENDS Integers

CONSTANTS
  Users,   \* owners of a cash and a bonus account
  Tx,      \* database sessions that can run a transaction
  Free,    \* the holder of a row lock nobody holds
  OpeningCash, OpeningBonus  \* what earlier entries left on each account

ASSUME FreeIsNoTx == Free \notin Tx
ASSUME OpeningAssumption ==
  OpeningCash \in [Users -> Nat] /\ OpeningBonus \in [Users -> Nat]

VARIABLES
  cash,      \* accounts.balance of the account of type cash
  cashLog,   \* sum of the ledger_entries of that account
  cashLock,  \* the session whose transaction holds the accounts row
  bonus,     \* bonus_accounts.balance
  bonusLog,  \* sum of the bonus_transactions of the user
  bonusLock  \* the session whose transaction holds the bonus_accounts row

cashVars == <<cash, cashLog, cashLock>>
bonusVars == <<bonus, bonusLog, bonusLock>>

\* Variant for mutation: the row is read without FOR UPDATE.
AcquireUnlocked(lock, r, t) == lock' = [lock EXCEPT ![r] = t]

\* Session t obtains the lock of row r: SELECT ... FOR UPDATE returns.
Acquire(lock, r, t) == lock[r] = Free /\ lock' = [lock EXCEPT ![r] = t]

\* The table of locks once the transaction of session t has ended.
Released(lock, t) == [r \in DOMAIN lock |-> IF lock[r] = t THEN Free ELSE lock[r]]

\* UPDATE ... SET balance = new together with the INSERT of an entry.
PostCash(u, new, entry) ==
  /\ cash' = [cash EXCEPT ![u] = new]
  /\ cashLog' = [cashLog EXCEPT ![u] = @ + entry]

PostBonus(u, new, entry) ==
  /\ bonus' = [bonus EXCEPT ![u] = new]
  /\ bonusLog' = [bonusLog EXCEPT ![u] = @ + entry]

AccountsInit ==
  /\ cash = OpeningCash /\ cashLog = OpeningCash
  /\ bonus = OpeningBonus /\ bonusLog = OpeningBonus
  /\ cashLock = [u \in Users |-> Free]
  /\ bonusLock = [u \in Users |-> Free]

AccountsTypeOK ==
  /\ cash \in [Users -> Int]
  /\ cashLog \in [Users -> Int]
  /\ cashLock \in [Users -> Tx \cup {Free}]
  /\ bonus \in [Users -> Int]
  /\ bonusLog \in [Users -> Int]
  /\ bonusLock \in [Users -> Tx \cup {Free}]

\* The balance of a wallet is what its ledger says: no deposit, purchase or
\* refund is lost to a concurrent one, although each writes back an absolute
\* balance (accounts.balance against the sum of ledger_entries).
BalanceMatchesLedger == \A u \in Users : cash[u] = cashLog[u]

\* The same for the bonus account and bonus_transactions.
BonusMatchesLog == \A u \in Users : bonus[u] = bonusLog[u]

\* Nobody spends more than the account holds, however many purchases race.
NoOverdraft == \A u \in Users : cash[u] >= 0 /\ bonus[u] >= 0
=============================================================================
