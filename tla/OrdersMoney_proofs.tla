-------------------------- MODULE OrdersMoney_proofs --------------------------
(***************************************************************************)
(* Where the money is: the wallets, the bonus accounts and the partners'   *)
(* accounts of Orders follow from the orders themselves, for any number of *)
(* sessions, buyers, offers, partners and orders.                          *)
(*                                                                         *)
(* The first part is about SumFunctionOnSet alone.  The provers cannot use *)
(* the induction theorems of the library, which take a predicate as a      *)
(* parameter; a set on which a claim fails has a smallest such subset      *)
(* instead (SmallestSet), and the sums of the two smaller sets at hand     *)
(* refute it there.  The second part is the invariant MoneyInv: a sum per  *)
(* account, each changed in one place by the COMMIT of a purchase or of a  *)
(* refund and by nothing else.                                             *)
(***************************************************************************)
EXTENDS Orders_proofs, FiniteSetTheorems

-----------------------------------------------------------------------------
(* Sums over finite sets.                                                  *)

\* The element a sum takes next, and the recursion it is defined by.
NextOf(T) == CHOOSE x \in T : TRUE
SumUpTo(f, T, g) == IF T = {} THEN 0 ELSE f[NextOf(T)] + g[T \ {NextOf(T)}]
Iterates(f, S, g) == g = [T \in SUBSET S |-> SumUpTo(f, T, g)]
Iterate(f, S) == CHOOSE g : Iterates(f, S, g)

\* The definition of the sum, unfolded once.
LEMMA SumIs ==
  ASSUME NEW f, NEW S
  PROVE  SumFunctionOnSet(f, S) = Iterate(f, S)[S]
BY DEF SumFunctionOnSet, FoldFunctionOnSet, MapThenFoldSet, Iterate, Iterates, SumUpTo, NextOf

\* Among finitely many sets there is a smallest one: what stands here for
\* induction over finite sets.
LEMMA SmallestSet ==
  ASSUME NEW S, IsFiniteSet(S), NEW B, B \subseteq SUBSET S, B # {}
  PROVE  \E T \in B : \A U \in B : U \subseteq T => U = T
<1> DEFINE R == StrictSubsetOrdering(S)
<1>1. IsWellFoundedOn(R, SUBSET S)
  BY FS_FiniteSubsetsOfFinite, FS_StrictSubsetOrderingWellFounded, Zenon
<1>2. PICK T \in B : \A U \in B : <<U, T>> \notin R
  <2> HIDE DEF R
  <2> QED BY <1>1, WFMin, Zenon
<1>3. ASSUME NEW U \in B, U \subseteq T PROVE U = T
  <2>1. U \in SUBSET S /\ T \in SUBSET S
    BY <1>2, <1>3
  <2> QED
    BY <1>2, <1>3, <2>1 DEF StrictSubsetOrdering
<1> QED
  BY <1>2, <1>3

\* A set that is not empty has a next element.
LEMMA NextIn ==
  ASSUME NEW T, T # {}
  PROVE  NextOf(T) \in T
BY DEF NextOf

\* The recursion has at most one solution ...
LEMMA IterationUnique ==
  ASSUME NEW f, NEW S, IsFiniteSet(S), NEW g, NEW h, Iterates(f, S, g), Iterates(f, S, h)
  PROVE  g = h
<1> DEFINE B == {T \in SUBSET S : g[T] # h[T]}
<1>1. B = {}
  <2> SUFFICES ASSUME B # {} PROVE FALSE
    OBVIOUS
  <2>1. PICK T \in B : \A U \in B : U \subseteq T => U = T
    <3>1. B \subseteq SUBSET S
      OBVIOUS
    <3> HIDE DEF B
    <3> QED BY <3>1, SmallestSet
  <2>2. g[T] = SumUpTo(f, T, g) /\ h[T] = SumUpTo(f, T, h)
    BY <2>1 DEF Iterates
  <2>3. T # {}
    BY <2>1, <2>2 DEF SumUpTo
  <2> DEFINE x == NextOf(T)
  <2>4. x \in T
    BY <2>3, NextIn
  <2>5. g[T \ {x}] = h[T \ {x}]
    BY <2>1, <2>4
  <2> QED
    BY <2>1, <2>2, <2>3, <2>5 DEF SumUpTo
<1>2. g = [T \in SUBSET S |-> g[T]] /\ h = [T \in SUBSET S |-> h[T]]
  BY DEF Iterates
<1> QED
  BY <1>1, <1>2

\* ... which also solves it for every smaller set ...
LEMMA IterationRestricts ==
  ASSUME NEW f, NEW S, NEW g, Iterates(f, S, g), NEW U \in SUBSET S
  PROVE  Iterates(f, U, [T \in SUBSET U |-> g[T]])
<1> DEFINE h == [T \in SUBSET U |-> g[T]]
<1>1. ASSUME NEW T \in SUBSET U PROVE h[T] = SumUpTo(f, T, h)
  <2>1. g[T] = SumUpTo(f, T, g)
    BY DEF Iterates
  <2>2. T # {} => h[T \ {NextOf(T)}] = g[T \ {NextOf(T)}]
    OBVIOUS
  <2> QED
    BY <2>1, <2>2 DEF SumUpTo
<1>2. h = [T \in SUBSET U |-> h[T]]
  OBVIOUS
<1> HIDE DEF h
<1>3. h = [T \in SUBSET U |-> SumUpTo(f, T, h)]
  BY <1>1, <1>2
<1> QED
  BY <1>3 DEF Iterates, h

\* ... and it has one.
LEMMA IterationExists ==
  ASSUME NEW f, NEW S, IsFiniteSet(S)
  PROVE  Iterates(f, S, Iterate(f, S))
<1> DEFINE B == {T \in SUBSET S : ~ \E g : Iterates(f, T, g)}
<1>1. B = {}
  <2> SUFFICES ASSUME B # {} PROVE FALSE
    OBVIOUS
  <2>1. PICK T \in B : \A U \in B : U \subseteq T => U = T
    <3>1. B \subseteq SUBSET S
      OBVIOUS
    <3> HIDE DEF B
    <3> QED BY <3>1, SmallestSet
  <2>2. \A U \in SUBSET T : U # T => Iterates(f, U, Iterate(f, U))
    BY <2>1 DEF Iterate
  <2>3. \A U \in SUBSET T : IsFiniteSet(U)
    BY FS_Subset, <2>1, Zenon
  <2> DEFINE s == [U \in SUBSET T |-> Iterate(f, U)[U]]
             g == [U \in SUBSET T |-> IF U = T THEN SumUpTo(f, T, s) ELSE s[U]]
  <2>4. ASSUME NEW U \in SUBSET T, U # T, NEW V \in SUBSET U
        PROVE  Iterate(f, U)[V] = Iterate(f, V)[V]
    <3> DEFINE i == Iterate(f, U)
               r == [W \in SUBSET V |-> i[W]]
    <3>1. Iterates(f, U, i) /\ Iterates(f, V, Iterate(f, V))
      BY <2>2, <2>4
    <3>2. Iterates(f, V, r)
      BY <3>1, IterationRestricts, Zenon
    <3>3. r = Iterate(f, V)
      <4> HIDE DEF r
      <4> QED BY <2>3, <3>1, <3>2, IterationUnique, Zenon
    <3>4. r[V] = i[V]
      OBVIOUS
    <3> QED
      BY <3>3, <3>4
  <2>5. ASSUME NEW U \in SUBSET T PROVE g[U] = SumUpTo(f, U, g)
    <3> DEFINE x == NextOf(U)
    <3>1. U # {} => x \in U
      BY NextIn
    <3>2. U # {} => g[U \ {x}] = s[U \ {x}]
      BY <3>1
    <3>3. g[U] = SumUpTo(f, U, s)
      <4>1. CASE U = T
        BY <4>1
      <4>2. CASE U # T
        <5>1. Iterate(f, U)[U] = SumUpTo(f, U, Iterate(f, U))
          BY <2>2, <4>2 DEF Iterates
        <5>2. U # {} => Iterate(f, U)[U \ {x}] = s[U \ {x}]
          BY <2>4, <4>2
        <5> QED
          BY <4>2, <5>1, <5>2 DEF SumUpTo
      <4> QED BY <4>1, <4>2
    <3> QED
      BY <3>2, <3>3 DEF SumUpTo
  <2>6. Iterates(f, T, g)
    <3>1. g = [U \in SUBSET T |-> g[U]]
      OBVIOUS
    <3> HIDE DEF g
    <3> QED BY <2>5, <3>1 DEF Iterates
  <2> HIDE DEF g
  <2> QED BY <2>1, <2>6
<1>2. \E g : Iterates(f, S, g)
  BY <1>1
<1> QED
  BY <1>2 DEF Iterate

\* The sum takes one element and goes on with the rest.
LEMMA SumStep ==
  ASSUME NEW f, NEW S, IsFiniteSet(S)
  PROVE  SumFunctionOnSet(f, S) =
           IF S = {} THEN 0 ELSE f[NextOf(S)] + SumFunctionOnSet(f, S \ {NextOf(S)})
<1> DEFINE x == NextOf(S)
           i == Iterate(f, S)
<1>1. SumFunctionOnSet(f, S) = SumUpTo(f, S, i)
  <2>1. Iterates(f, S, i)
    BY IterationExists
  <2>2. i[S] = SumUpTo(f, S, i)
    <3> HIDE DEF i
    <3> QED BY <2>1 DEF Iterates
  <2> QED
    BY <2>2, SumIs
<1>2. ASSUME S # {} PROVE i[S \ {x}] = SumFunctionOnSet(f, S \ {x})
  <2> DEFINE U == S \ {x}
             r == [W \in SUBSET U |-> i[W]]
  <2>1. IsFiniteSet(U)
    BY FS_Subset
  <2>2. Iterates(f, U, r)
    BY IterationExists, IterationRestricts
  <2>3. r = Iterate(f, U)
    <3> HIDE DEF r, U
    <3> QED BY <2>1, <2>2, IterationExists, IterationUnique, Zenon
  <2>4. r[U] = i[U]
    OBVIOUS
  <2> QED
    BY <2>3, <2>4, SumIs
<1> QED
  BY <1>1, <1>2 DEF SumUpTo

\* Nothing sums up to nothing.
LEMMA SumEmpty == ASSUME NEW f PROVE SumFunctionOnSet(f, {}) = 0
BY SumStep, FS_EmptySet

\* A sum of integers is an integer.
LEMMA SumInt ==
  ASSUME NEW S, IsFiniteSet(S), NEW f, \A x \in S : f[x] \in Int
  PROVE  SumFunctionOnSet(f, S) \in Int
<1> DEFINE B == {T \in SUBSET S : SumFunctionOnSet(f, T) \notin Int}
<1>1. B = {}
  <2> SUFFICES ASSUME B # {} PROVE FALSE
    OBVIOUS
  <2>1. PICK T \in B : \A U \in B : U \subseteq T => U = T
    <3>1. B \subseteq SUBSET S
      OBVIOUS
    <3> HIDE DEF B
    <3> QED BY <3>1, SmallestSet
  <2>2. IsFiniteSet(T)
    BY FS_Subset, <2>1
  <2> DEFINE y == NextOf(T)
  <2>3. T # {}
    <3>1. SumFunctionOnSet(f, {}) \in Int
      BY SumEmpty
    <3> QED BY <2>1, <3>1
  <2>4. y \in T
    BY <2>3, NextIn
  <2>5. SumFunctionOnSet(f, T \ {y}) \in Int
    BY <2>1, <2>4
  <2>6. SumFunctionOnSet(f, T) = f[y] + SumFunctionOnSet(f, T \ {y})
    BY <2>2, <2>3, SumStep
  <2> QED
    BY <2>1, <2>4, <2>5, <2>6
<1> QED
  BY <1>1

\* Only the values on the set count.
LEMMA SumSame ==
  ASSUME NEW S, IsFiniteSet(S), NEW f, NEW g, \A x \in S : f[x] = g[x]
  PROVE  SumFunctionOnSet(f, S) = SumFunctionOnSet(g, S)
<1> DEFINE B == {T \in SUBSET S : SumFunctionOnSet(f, T) # SumFunctionOnSet(g, T)}
<1>1. B = {}
  <2> SUFFICES ASSUME B # {} PROVE FALSE
    OBVIOUS
  <2>1. PICK T \in B : \A U \in B : U \subseteq T => U = T
    <3>1. B \subseteq SUBSET S
      OBVIOUS
    <3> HIDE DEF B
    <3> QED BY <3>1, SmallestSet
  <2>2. IsFiniteSet(T)
    BY FS_Subset, <2>1
  <2> DEFINE y == NextOf(T)
  <2>3. T # {}
    <3>1. SumFunctionOnSet(f, {}) = SumFunctionOnSet(g, {})
      BY SumEmpty
    <3> QED BY <2>1, <3>1
  <2>4. y \in T
    BY <2>3, NextIn
  <2>5. SumFunctionOnSet(f, T \ {y}) = SumFunctionOnSet(g, T \ {y})
    BY <2>1, <2>4
  <2>6. /\ SumFunctionOnSet(f, T) = f[y] + SumFunctionOnSet(f, T \ {y})
        /\ SumFunctionOnSet(g, T) = g[y] + SumFunctionOnSet(g, T \ {y})
    BY <2>2, <2>3, SumStep
  <2> QED
    BY <2>1, <2>4, <2>5, <2>6
<1> QED
  BY <1>1

\* Any element may be taken first.
LEMMA SumWithout ==
  ASSUME NEW S, IsFiniteSet(S), NEW f, \A y \in S : f[y] \in Int, NEW x \in S
  PROVE  SumFunctionOnSet(f, S) = f[x] + SumFunctionOnSet(f, S \ {x})
<1> DEFINE B == {T \in SUBSET S :
                   \E w \in T : SumFunctionOnSet(f, T) # f[w] + SumFunctionOnSet(f, T \ {w})}
<1>1. B = {}
  <2> SUFFICES ASSUME B # {} PROVE FALSE
    OBVIOUS
  <2>1. PICK T \in B : \A U \in B : U \subseteq T => U = T
    <3>1. B \subseteq SUBSET S
      OBVIOUS
    <3> HIDE DEF B
    <3> QED BY <3>1, SmallestSet
  <2>2. PICK w \in T : SumFunctionOnSet(f, T) # f[w] + SumFunctionOnSet(f, T \ {w})
    BY <2>1
  <2> DEFINE y == NextOf(T)
  <2>3. IsFiniteSet(T) /\ IsFiniteSet(T \ {w}) /\ IsFiniteSet(T \ {y})
    BY FS_Subset, <2>1
  <2>4. y \in T /\ SumFunctionOnSet(f, T) = f[y] + SumFunctionOnSet(f, T \ {y})
    BY <2>2, <2>3, NextIn, SumStep
  <2>5. w # y
    BY <2>2, <2>4
  <2>6. SumFunctionOnSet(f, T \ {y}) = f[w] + SumFunctionOnSet(f, (T \ {y}) \ {w})
    BY <2>1, <2>4, <2>5
  <2>7. SumFunctionOnSet(f, T \ {w}) = f[y] + SumFunctionOnSet(f, (T \ {w}) \ {y})
    BY <2>1, <2>4, <2>5
  <2>8. (T \ {w}) \ {y} = (T \ {y}) \ {w}
    OBVIOUS
  <2>9. SumFunctionOnSet(f, (T \ {y}) \ {w}) \in Int
    <3>1. IsFiniteSet((T \ {y}) \ {w})
      BY <2>3, FS_Subset
    <3> HIDE DEF y
    <3> QED BY <2>1, <3>1, SumInt
  <2>10. f[w] \in Int /\ f[y] \in Int
    BY <2>1, <2>4
  <2>11. SumFunctionOnSet(f, T) = f[y] + (f[w] + SumFunctionOnSet(f, (T \ {y}) \ {w}))
    BY <2>4, <2>6
  <2>12. SumFunctionOnSet(f, T \ {w}) = f[y] + SumFunctionOnSet(f, (T \ {y}) \ {w})
    BY <2>7, <2>8
  <2> DEFINE rest == SumFunctionOnSet(f, (T \ {y}) \ {w})
  <2>13. f[y] + (f[w] + rest) = f[w] + (f[y] + rest)
    <3> HIDE DEF y, rest
    <3> QED BY <2>9, <2>10 DEF rest
  <2> QED
    BY <2>2, <2>11, <2>12, <2>13
<1> QED
  BY <1>1

\* A sum of natural numbers is a natural number.
LEMMA SumNonNegative ==
  ASSUME NEW S, IsFiniteSet(S), NEW f, \A x \in S : f[x] \in Nat
  PROVE  SumFunctionOnSet(f, S) \in Nat
<1> DEFINE B == {T \in SUBSET S : SumFunctionOnSet(f, T) \notin Nat}
<1>1. B = {}
  <2> SUFFICES ASSUME B # {} PROVE FALSE
    OBVIOUS
  <2>1. PICK T \in B : \A U \in B : U \subseteq T => U = T
    <3>1. B \subseteq SUBSET S
      OBVIOUS
    <3> HIDE DEF B
    <3> QED BY <3>1, SmallestSet
  <2>2. IsFiniteSet(T)
    BY FS_Subset, <2>1
  <2> DEFINE y == NextOf(T)
  <2>3. T # {}
    <3>1. SumFunctionOnSet(f, {}) \in Nat
      BY SumEmpty
    <3> QED BY <2>1, <3>1
  <2>4. y \in T
    BY <2>3, NextIn
  <2>5. SumFunctionOnSet(f, T \ {y}) \in Nat
    BY <2>1, <2>4
  <2>6. SumFunctionOnSet(f, T) = f[y] + SumFunctionOnSet(f, T \ {y})
    BY <2>2, <2>3, SumStep
  <2>7. f[y] \in Nat
    BY <2>1, <2>4
  <2> HIDE DEF y
  <2> QED
    BY <2>1, <2>5, <2>6, <2>7
<1> QED
  BY <1>1

\* Zeros sum up to zero.
LEMMA SumZero ==
  ASSUME NEW S, IsFiniteSet(S), NEW f, \A x \in S : f[x] = 0
  PROVE  SumFunctionOnSet(f, S) = 0
<1> DEFINE B == {T \in SUBSET S : SumFunctionOnSet(f, T) # 0}
<1>1. B = {}
  <2> SUFFICES ASSUME B # {} PROVE FALSE
    OBVIOUS
  <2>1. PICK T \in B : \A U \in B : U \subseteq T => U = T
    <3>1. B \subseteq SUBSET S
      OBVIOUS
    <3> HIDE DEF B
    <3> QED BY <3>1, SmallestSet
  <2>2. IsFiniteSet(T)
    BY FS_Subset, <2>1
  <2> DEFINE y == NextOf(T)
  <2>3. T # {}
    BY <2>1, SumEmpty
  <2>4. y \in T
    BY <2>3, NextIn
  <2>5. SumFunctionOnSet(f, T \ {y}) = 0
    BY <2>1, <2>4
  <2>6. SumFunctionOnSet(f, T) = f[y] + SumFunctionOnSet(f, T \ {y})
    BY <2>2, <2>3, SumStep
  <2>7. f[y] = 0
    BY <2>1, <2>4
  <2> HIDE DEF y
  <2> QED
    BY <2>1, <2>5, <2>6, <2>7
<1> QED
  BY <1>1

\* The sum after one more element joined the set ...
LEMMA SumAppended ==
  ASSUME NEW S, IsFiniteSet(S), NEW x, x \notin S, NEW f, NEW g,
         \A y \in S : f[y] \in Int /\ g[y] = f[y], g[x] \in Int
  PROVE  SumFunctionOnSet(g, S \cup {x}) = SumFunctionOnSet(f, S) + g[x]
<1>1. IsFiniteSet(S \cup {x}) /\ (S \cup {x}) \ {x} = S
  BY FS_AddElement
<1>2. SumFunctionOnSet(g, S \cup {x}) = g[x] + SumFunctionOnSet(g, S)
  <2>1. \A y \in S \cup {x} : g[y] \in Int
    OBVIOUS
  <2>2. SumFunctionOnSet(g, S \cup {x}) = g[x] + SumFunctionOnSet(g, (S \cup {x}) \ {x})
    BY <1>1, <2>1, SumWithout
  <2> QED BY <1>1, <2>2
<1>3. SumFunctionOnSet(g, S) = SumFunctionOnSet(f, S)
  BY SumSame
<1>4. SumFunctionOnSet(f, S) \in Int
  BY SumInt
<1> QED BY <1>2, <1>3, <1>4

\* ... and after the value of one element changed.
LEMMA SumChanged ==
  ASSUME NEW S, IsFiniteSet(S), NEW x \in S, NEW f, NEW g,
         \A y \in S : f[y] \in Int /\ g[y] \in Int, \A y \in S \ {x} : g[y] = f[y]
  PROVE  SumFunctionOnSet(g, S) = SumFunctionOnSet(f, S) + (g[x] - f[x])
<1>1. IsFiniteSet(S \ {x})
  BY FS_RemoveElement
<1>2. SumFunctionOnSet(f, S) = f[x] + SumFunctionOnSet(f, S \ {x})
  BY SumWithout
<1>3. SumFunctionOnSet(g, S) = g[x] + SumFunctionOnSet(g, S \ {x})
  BY SumWithout
<1>4. SumFunctionOnSet(g, S \ {x}) = SumFunctionOnSet(f, S \ {x})
  BY <1>1, SumSame
<1>5. SumFunctionOnSet(f, S \ {x}) \in Int
  BY <1>1, SumInt
<1> QED BY <1>2, <1>3, <1>4, <1>5
-----------------------------------------------------------------------------
(* The books of Orders.                                                    *)

\* The journal of a partner shows the earnings of the orders not refunded,
\* those included that a late opening of the account lost from its balance.
JournalAccounted ==
  \A c \in Companies : merchLog[c] = SumFunctionOnSet(Earnings, OrdersAt(c))

\* The balance a session is about to pay a partner on is never more than the
\* journal shows: it is current, or it is the 0 of the account just opened.
SeenMerchant(t) ==
  LET c == OfferCompany[req[t].offer]
  IN  /\ pc[t] = "touchMerchant" => seen[t].merchant = 0
      /\ pc[t] \in {"commitCreate", "commitRefund"} /\ c # NoCompany =>
           seen[t].merchant =< merchLog[c]

BooksAccounted == IsFiniteSet(Existing) /\ JournalAccounted

\* What a buyer would have, had every order been free: no step of an order
\* changes that, whatever else is paid into the accounts meanwhile.
CashWorth(u) == cash[u] + SumFunctionOnSet(MoneyPaid, OrdersOf(u))
PointsWorth(u) == bonus[u] + SumFunctionOnSet(PointsPaid, OrdersOf(u))

WorthKept ==
  \A u \in Users : CashWorth(u)' = CashWorth(u) /\ PointsWorth(u)' = PointsWorth(u)

MoneyInv ==
  /\ BooksAccounted
  /\ OpeningNeverOverpays
  /\ \A t \in OrderTx : SeenMerchant(t)

LEMMA Products ==
  /\ \A r \in Int, x \in Int : (1 - r) * x \in Int
  /\ \A r \in Int, x \in Int : (1 - (r + 1)) * x = (1 - r) * x - x
  /\ \A x \in Int : (1 - 0) * x = x /\ (1 - 1) * x = 0
  OBVIOUS

\* The columns the sums are made of.
LEMMA OrderColumns ==
  ASSUME OrdersInv, NEW o \in Existing
  PROVE  /\ o \in OrderIds /\ refunds[o] \in Nat
         /\ info[o].total \in Nat /\ info[o].bonus \in Nat /\ info[o].offer \in Offers
         /\ Earning(info[o].total) \in Nat
<1>1. o \in OrderIds /\ info[o] \in OrderInfo /\ refunds[o] \in Nat
  BY DEF Existing, Exists, OrdersInv, OrdersTypeOK
<1>2. \A x \in Nat : Earning(x) \in Nat
  BY DEF Earning, Commission
<1> QED BY <1>1, <1>2 DEF OrderInfo

LEMMA SumsAreTyped ==
  ASSUME OrdersInv
  PROVE  \A o \in Existing : MoneyPaid[o] \in Int /\ PointsPaid[o] \in Int /\ Earnings[o] \in Int
<1> SUFFICES ASSUME NEW o \in Existing
             PROVE  MoneyPaid[o] \in Int /\ PointsPaid[o] \in Int /\ Earnings[o] \in Int
  OBVIOUS
<1>1. /\ refunds[o] \in Int /\ info[o].total \in Int /\ info[o].bonus \in Int
      /\ Earning(info[o].total) \in Int
  BY OrderColumns
<1>2. /\ MoneyPaid[o] = (1 - refunds[o]) * info[o].total
      /\ PointsPaid[o] = (1 - refunds[o]) * info[o].bonus
      /\ Earnings[o] = (1 - refunds[o]) * Earning(info[o].total)
  BY DEF MoneyPaid, PointsPaid, Earnings
<1> QED BY <1>1, <1>2, Products

\* A partner's order is refunded at most once, so that no journal is negative.
LEMMA JournalIsNatural ==
  ASSUME OrdersInv, BooksAccounted, NEW c \in Companies
  PROVE  merchLog[c] \in Nat
<1>1. IsFiniteSet(OrdersAt(c))
  BY FS_Subset DEF BooksAccounted, OrdersAt
<1>2. ASSUME NEW o \in OrdersAt(c)
      PROVE  Earnings[o] \in Nat
  <2>1. o \in Existing /\ CompanyOf(o) # NoCompany /\ o \in OrderIds /\ status[o] # "none"
    BY NullAssumption DEF OrdersAt, Existing, Exists
  <2>2. refunds[o] = 0 \/ refunds[o] = 1
    BY <2>1 DEF OrdersInv, RefundsRecorded
  <2>3. Earning(info[o].total) \in Nat
    BY <2>1, OrderColumns
  <2>4. Earnings[o] = (1 - refunds[o]) * Earning(info[o].total)
    BY <2>1 DEF Earnings
  <2> QED BY <2>2, <2>3, <2>4, Products
<1>3. SumFunctionOnSet(Earnings, OrdersAt(c)) \in Nat
  BY <1>1, <1>2, SumNonNegative
<1> QED BY <1>3 DEF BooksAccounted, JournalAccounted

\* Steps that neither create nor refund leave every sum as it is.
SameBooks ==
  /\ Existing' = Existing
  /\ UNCHANGED <<info, refunds, cash, bonus, merchLog>>

LEMMA SameBooksAccounted ==
  ASSUME BooksAccounted, SameBooks
  PROVE  BooksAccounted' /\ WorthKept
<1>1. /\ MoneyPaid' = MoneyPaid /\ PointsPaid' = PointsPaid /\ Earnings' = Earnings
      /\ \A u \in Users : OrdersOf(u)' = OrdersOf(u)
      /\ \A c \in Companies : OrdersAt(c)' = OrdersAt(c)
  BY DEF SameBooks, MoneyPaid, PointsPaid, Earnings, OrdersOf, OrdersAt, CompanyOf
<1>2. WorthKept
  BY <1>1 DEF WorthKept, CashWorth, PointsWorth, SameBooks
<1>3. JournalAccounted'
  BY <1>1 DEF BooksAccounted, JournalAccounted, SameBooks
<1> QED BY <1>2, <1>3 DEF BooksAccounted, SameBooks

LEMMA QuietMoney ==
  ASSUME OrdersInv, MoneyInv, NEW t \in OrderTx, Quiet(t), SeenMerchant(t)'
  PROVE  MoneyInv' /\ WorthKept
<1>1. SameBooks
  BY DEF Quiet, SameBooks, Existing, Exists, rowVars
<1>2. \A s \in OrderTx \ {t} : SeenMerchant(s)'
  BY DEF MoneyInv, SeenMerchant, Quiet, OnlySession
<1> QED
  BY <1>1, <1>2, SameBooksAccounted DEF MoneyInv, OpeningNeverOverpays, Quiet

\* A request that begins or ends, or a step away from the partner's account,
\* has seen no balance of a partner.
LEMMA NothingSeen ==
  ASSUME NEW t \in OrderTx, pc'[t] \notin {"touchMerchant", "commitCreate", "commitRefund"}
  PROVE  SeenMerchant(t)'
  BY DEF SeenMerchant

LEMMA ForgetsPartner ==
  ASSUME OrdersInv, NEW t \in OrderTx, Forget(t)
  PROVE  SeenMerchant(t)'
<1>1. pc'[t] = "idle"
  BY DEF OrdersInv, OrdersTypeOK, Forget
<1> QED BY <1>1, NothingSeen

\* The two steps that read a partner's balance.
LEMMA ReadsPartner ==
  ASSUME OrdersInv, MoneyInv, NEW t \in OrderTx, CreateLockMerchant(t) \/ RefundLockMerchant(t)
  PROVE  SeenMerchant(t)'
<1> DEFINE c == OfferCompany[req[t].offer]
<1>1. /\ pc[t] \in {"createMerchant", "refundMerchant"}
      /\ pc' = [pc EXCEPT ![t] = IF pc[t] = "createMerchant" THEN "commitCreate"
                                                             ELSE "commitRefund"]
      /\ seen' = [seen EXCEPT ![t].merchant = merchant[c]]
      /\ UNCHANGED <<req, merchLog>>
  BY DEF CreateLockMerchant, RefundLockMerchant, Goto
<1>2. OrdersTypeOK /\ SessionOK(t)
  BY DEF OrdersInv
<1>3. c \in Companies
  BY <1>1, <1>2, CatalogueAssumption
  DEF SessionOK, Addressed, OwnsPartner, CreatePcs, RefundPcs
<1>4. merchant[c] =< merchLog[c]
  BY <1>3 DEF MoneyInv, OpeningNeverOverpays
<1>5. pc'[t] # "touchMerchant" /\ seen'[t].merchant = merchant[c]
  BY <1>1, <1>2 DEF OrdersTypeOK
<1> QED BY <1>1, <1>4, <1>5 DEF SeenMerchant

\* The account this session opened: nobody's journal is below its balance.
LEMMA TouchesPartner ==
  ASSUME OrdersInv, MoneyInv, NEW t \in OrderTx, TouchMerchant(t)
  PROVE  SeenMerchant(t)'
<1> DEFINE c == OfferCompany[req[t].offer]
<1>1. /\ pc[t] = "touchMerchant" /\ pc' = [pc EXCEPT ![t] = "commitCreate"]
      /\ UNCHANGED <<req, seen, merchLog>>
  BY DEF TouchMerchant, Goto
<1>2. OrdersTypeOK /\ SessionOK(t)
  BY DEF OrdersInv
<1>3. c \in Companies
  BY <1>1, <1>2, CatalogueAssumption
  DEF SessionOK, Addressed, OwnsPartner, CreatePcs, RefundPcs
<1>4. seen[t].merchant = 0 /\ merchLog[c] \in Nat
  BY <1>1, <1>3, JournalIsNatural DEF MoneyInv, SeenMerchant
<1>5. pc'[t] = "commitCreate"
  BY <1>1, <1>2 DEF OrdersTypeOK
<1> QED BY <1>1, <1>4, <1>5 DEF SeenMerchant

\* The steps of a refund that go on to the COMMIT past the partner's account
\* do so only for an order without a partner: one that sold has an account.
LEMMA PassesPartner ==
  ASSUME OrdersInv, NEW t \in OrderTx,
         CreateLockOffer(t) \/ RefundLockCash(t) \/ RefundLockBonus(t)
  PROVE  SeenMerchant(t)'
<1> DEFINE f == req[t].offer
           c == OfferCompany[f]
<1>1. OrdersTypeOK /\ SessionOK(t) /\ SoldOpened /\ req' = req
  BY DEF OrdersInv, CreateLockOffer, RefundLockCash, RefundLockBonus
<1>2. /\ pc'[t] # "touchMerchant"
      /\ pc'[t] = "commitCreate" => c = NoCompany
      /\ pc'[t] = "commitRefund" => c \notin opened /\ pc[t] \in {"refundCash", "refundBonus"}
  BY <1>1 DEF OrdersTypeOK, CreateLockOffer, RefundLockCash, RefundLockBonus, AfterRefundBonus, Goto
<1>3. pc[t] \in {"refundCash", "refundBonus"} => c = NoCompany \/ c \in opened
  BY <1>1 DEF SessionOK, Addressed, OrderSeen, SoldOpened, RefundPcs, CompanyOf
<1> QED BY <1>1, <1>2, <1>3 DEF SeenMerchant

LEMMA QuietActionMoney ==
  ASSUME OrdersInv, MoneyInv, NEW t \in OrderTx, QuietAction(t)
  PROVE  MoneyInv' /\ WorthKept
<1>1. OrdersTypeOK /\ Quiet(t)
  BY QuietActionKeeps DEF OrdersInv
<1>2. CASE CreateLockCash(t) \/ CreateMissMerchant(t)
  <2>1. pc'[t] \in {"createBonus", "openMerchant"}
    BY <1>1, <1>2 DEF CreateLockCash, CreateMissMerchant, Goto, OrdersTypeOK
  <2> QED BY <1>1, <2>1, NothingSeen, QuietMoney
<1>3. CASE CreateLockBonus(t) \/ ReadRefund(t) \/ RefundDuplicate(t) \/ Rollback(t)
  <2>1. Forget(t) \/ pc' = [pc EXCEPT ![t] = "createOffer"] \/ pc' = [pc EXCEPT ![t] = "refundCash"]
    BY <1>3 DEF CreateLockBonus, ReadRefund, RefundDuplicate, Rollback
  <2>2. Forget(t) \/ pc'[t] \in {"createOffer", "refundCash"}
    BY <1>1, <2>1 DEF OrdersTypeOK
  <2> QED BY <1>1, <2>2, NothingSeen, ForgetsPartner, QuietMoney
<1>4. CASE CreateLockMerchant(t) \/ RefundLockMerchant(t)
  BY <1>1, <1>4, ReadsPartner, QuietMoney
<1>5. CASE TouchMerchant(t)
  BY <1>1, <1>5, TouchesPartner, QuietMoney
<1>6. CASE CreateLockOffer(t) \/ RefundLockCash(t) \/ RefundLockBonus(t)
  BY <1>1, <1>6, PassesPartner, QuietMoney
<1> QED BY <1>2, <1>3, <1>4, <1>5, <1>6 DEF QuietAction

LEMMA RequestMoney ==
  ASSUME OrdersInv, MoneyInv, NEW t \in OrderTx, OrderRequest(t)
  PROVE  MoneyInv' /\ WorthKept
<1>1. Quiet(t)
  BY OrderRequestKeeps
<1>2. \E label \in {"createCash", "readRefund", "confirm", "setStatus"} :
        pc' = [pc EXCEPT ![t] = label]
  BY DEF OrderRequest, BeginCreate, AdminRefund, RedeemReject, BeginRefund, ConfirmOrderPayment,
         CancelOrder, UpdateOrderStatus, BeginStatus, Goto
<1>3. pc'[t] \notin {"touchMerchant", "commitCreate", "commitRefund"}
  BY <1>2 DEF OrdersInv, OrdersTypeOK
<1> QED BY <1>1, <1>3, NothingSeen, QuietMoney

\* A status is written: an order stays one.
LEMMA StatusMoney ==
  ASSUME OrdersInv, MoneyInv,
         \/ \E t \in OrderTx : WriteStatus(t) \/ WriteConfirm(t) \/ UpsertAttendee(t)
         \/ \E o \in OrderIds : MarkRedeemed(o)
  PROVE  MoneyInv' /\ WorthKept
<1>1. OrdersTypeOK
  BY DEF OrdersInv
<1>2. UNCHANGED <<info, refunds, merchVars, cashVars, bonusVars>>
  BY DEF WriteStatus, WriteConfirm, UpsertAttendee, MarkRedeemed
<1>3. Existing' = Existing
  <2>1. ASSUME NEW t \in OrderTx, WriteStatus(t) \/ WriteConfirm(t)
        PROVE  Existing' = Existing
    <3>1. /\ req[t].order \in OrderIds /\ status[req[t].order] # "none"
          /\ req[t].target \in Statuses
      BY <1>1, <2>1
      DEF OrdersInv, SessionOK, Addressed, OrderSeen, StatusPcs, WriteStatus, WriteConfirm,
          OrdersTypeOK, Requests
    <3>2. \E new \in Statuses : status' = [status EXCEPT ![req[t].order] = new]
      BY <2>1, <3>1 DEF WriteStatus, WriteConfirm, Statuses
    <3> QED BY <1>1, <3>1, <3>2 DEF Existing, Exists, OrdersTypeOK, Statuses
  <2>2. ASSUME NEW t \in OrderTx, UpsertAttendee(t)
        PROVE  Existing' = Existing
    BY <2>2 DEF UpsertAttendee, Existing, Exists
  <2>3. ASSUME NEW o \in OrderIds, MarkRedeemed(o)
        PROVE  Existing' = Existing
    BY <1>1, <2>3 DEF MarkRedeemed, Existing, Exists, OrdersTypeOK
  <2> QED BY <2>1, <2>2, <2>3
<1>4. ASSUME NEW s \in OrderTx
      PROVE  SeenMerchant(s)'
  <2>1. \/ pc'[s] = pc[s] /\ req'[s] = req[s] /\ seen'[s] = seen[s]
        \/ pc'[s] \in {"idle", "attend"}
    <3>1. ASSUME NEW t \in OrderTx, WriteStatus(t) \/ WriteConfirm(t) \/ UpsertAttendee(t)
          PROVE  Forget(t) \/ (pc' = [pc EXCEPT ![t] = "attend"] /\ UNCHANGED <<req, seen>>)
      BY <3>1 DEF WriteStatus, WriteConfirm, UpsertAttendee
    <3>2. ASSUME NEW t \in OrderTx, Forget(t)
          PROVE  \/ pc'[s] = pc[s] /\ req'[s] = req[s] /\ seen'[s] = seen[s]
                 \/ pc'[s] = "idle"
      BY <1>1, <3>2 DEF Forget, OrdersTypeOK
    <3>3. ASSUME NEW t \in OrderTx, pc' = [pc EXCEPT ![t] = "attend"], UNCHANGED <<req, seen>>
          PROVE  \/ pc'[s] = pc[s] /\ req'[s] = req[s] /\ seen'[s] = seen[s]
                 \/ pc'[s] = "attend"
      BY <1>1, <3>3 DEF OrdersTypeOK
    <3>4. (\E o \in OrderIds : MarkRedeemed(o)) => UNCHANGED <<pc, req, seen>>
      BY DEF MarkRedeemed
    <3> QED BY <3>1, <3>2, <3>3, <3>4
  <2> QED BY <1>2, <2>1, NothingSeen DEF MoneyInv, SeenMerchant, merchVars
<1>5. SameBooks
  BY <1>2, <1>3 DEF SameBooks, merchVars, cashVars, bonusVars
<1> QED
  BY <1>2, <1>4, <1>5, SameBooksAccounted DEF MoneyInv, OpeningNeverOverpays, merchVars

\* An account is opened with nothing on it: the journal shows no less.
LEMMA OpenMoney ==
  ASSUME OrdersInv, MoneyInv, NEW t \in OrderTx, OpenMerchant(t)
  PROVE  MoneyInv' /\ WorthKept
<1> DEFINE c == OfferCompany[req[t].offer]
<1>1. OrdersTypeOK /\ SessionOK(t)
  BY DEF OrdersInv
<1>2. /\ pc[t] = "openMerchant"
      /\ UNCHANGED <<rowVars, uses, merchLog, merchTx, cash, cashLog, bonus, bonusLog>>
  BY DEF OpenMerchant
<1>3. c \in Companies
  BY <1>1, <1>2, CatalogueAssumption DEF SessionOK, Addressed, OwnsPartner, CreatePcs
<1>4. SameBooks
  BY <1>2 DEF SameBooks, Existing, Exists, rowVars
<1>5. CASE c \in opened
  <2>1. Forget(t) /\ merchant' = merchant
    BY <1>5 DEF OpenMerchant
  <2>2. OnlySession(t) /\ SeenMerchant(t)'
    BY <2>1, Forgotten, ForgetsPartner
  <2>3. \A s \in OrderTx : SeenMerchant(s)'
    BY <1>2, <2>2 DEF MoneyInv, SeenMerchant, OnlySession
  <2> QED BY <1>2, <1>4, <2>1, <2>3, SameBooksAccounted DEF MoneyInv, OpeningNeverOverpays
<1>6. CASE c \notin opened
  <2>1. /\ merchant' = [merchant EXCEPT ![c] = 0]
        /\ pc' = [pc EXCEPT ![t] = "touchMerchant"]
        /\ seen' = [seen EXCEPT ![t].merchant = 0]
        /\ req' = req
    BY <1>6 DEF OpenMerchant
  <2>2. OpeningNeverOverpays'
    BY <1>1, <1>2, <1>3, <2>1, JournalIsNatural DEF MoneyInv, OpeningNeverOverpays, OrdersTypeOK
  <2>3. pc'[t] = "touchMerchant" /\ seen'[t].merchant = 0
    BY <1>1, <2>1 DEF OrdersTypeOK
  <2>4. \A s \in OrderTx \ {t} : pc'[s] = pc[s] /\ req'[s] = req[s] /\ seen'[s] = seen[s]
    BY <1>1, <2>1 DEF OrdersTypeOK
  <2>5. \A s \in OrderTx : SeenMerchant(s)'
    BY <1>2, <2>3, <2>4 DEF MoneyInv, SeenMerchant
  <2> QED BY <1>4, <2>2, <2>5, SameBooksAccounted DEF MoneyInv
<1> QED BY <1>5, <1>6

\* The partner's side of a COMMIT, whenever its account was opened.
LEMMA CommitPays ==
  ASSUME OrdersInv, MoneyInv, NEW t \in OrderTx, NEW x \in Int, NEW c,
         c = OfferCompany[req[t].offer], pc[t] \in {"commitCreate", "commitRefund"},
         c # NoCompany =>
           /\ c \in Companies /\ merchLock[c] = t
           /\ merchant' = [merchant EXCEPT ![c] = seen[t].merchant + x]
           /\ merchLog' = [merchLog EXCEPT ![c] = @ + x],
         c = NoCompany => UNCHANGED <<merchant, merchLog>>,
         Forget(t)
  PROVE  /\ \A d \in Companies : merchLog'[d] = merchLog[d] + IF d = c THEN x ELSE 0
         /\ OpeningNeverOverpays'
         /\ \A s \in OrderTx : SeenMerchant(s)'
<1>1. /\ merchant \in [Companies -> Int] /\ merchLog \in [Companies -> Int]
      /\ seen[t].merchant \in Int
  BY DEF OrdersInv, OrdersTypeOK
<1>2. OpeningNeverOverpays /\ SeenMerchant(t)
  BY DEF MoneyInv
<1>3. CASE c = NoCompany
  <2>1. \A s \in OrderTx \ {t} : SeenMerchant(s)'
    BY <1>3, Forgotten DEF MoneyInv, SeenMerchant, OnlySession
  <2> QED
    BY <1>1, <1>2, <1>3, <2>1, ForgetsPartner, NullAssumption DEF OpeningNeverOverpays
<1>4. CASE c # NoCompany
  <2>1. /\ merchant'[c] = seen[t].merchant + x /\ merchLog'[c] = merchLog[c] + x
        /\ \A d \in Companies \ {c} : merchant'[d] = merchant[d] /\ merchLog'[d] = merchLog[d]
    BY <1>1, <1>4
  <2>2. seen[t].merchant =< merchLog[c]
    BY <1>2, <1>4 DEF SeenMerchant
  <2>3. OpeningNeverOverpays'
    <3>1. merchant'[c] =< merchLog'[c]
      BY <1>1, <1>4, <2>1, <2>2
    <3> QED BY <1>2, <2>1, <3>1 DEF OpeningNeverOverpays
  <2>4. ASSUME NEW s \in OrderTx \ {t}
        PROVE  SeenMerchant(s)'
    <3> DEFINE d == OfferCompany[req[s].offer]
    <3>1. pc'[s] = pc[s] /\ req'[s] = req[s] /\ seen'[s] = seen[s]
      BY Forgotten DEF OnlySession
    <3>2. SeenMerchant(s) /\ SessionOK(s)
      BY DEF MoneyInv, OrdersInv
    <3>3. pc[s] \in {"commitCreate", "commitRefund"} /\ d # NoCompany =>
            d \in Companies /\ merchLock[d] = s
      BY <3>2, CatalogueAssumption
      DEF SessionOK, OwnsPartner, Addressed, CreatePcs, RefundPcs
    <3>4. pc[s] \in {"commitCreate", "commitRefund"} /\ d # NoCompany =>
            merchLog'[d] = merchLog[d]
      BY <1>4, <2>1, <3>3
    <3> QED BY <3>1, <3>2, <3>4 DEF SeenMerchant
  <2> QED BY <1>1, <1>4, <2>1, <2>3, <2>4, ForgetsPartner
<1> QED BY <1>3, <1>4

LEMMA CreateMoney ==
  ASSUME OrdersInv, MoneyInv, NEW t \in OrderTx, CommitCreate(t)
  PROVE  MoneyInv' /\ WorthKept
<1> DEFINE o == req[t].order
           u == req[t].user
           f == req[t].offer
           c == OfferCompany[f]
           total == seen[t].total
           used == seen[t].used
<1>1. OrdersTypeOK /\ AccountsTypeOK /\ RefundsRecorded
  BY DEF OrdersInv
<1>2. /\ o \in OrderIds /\ u \in Users /\ f \in Offers
      /\ total \in Nat /\ used \in Nat /\ Earning(total) \in Int
      /\ status[o] = "none" /\ status' = [status EXCEPT ![o] = "created"]
      /\ info' = [info EXCEPT ![o] = [user |-> u, offer |-> f, total |-> total, bonus |-> used]]
      /\ cash' = [cash EXCEPT ![u] = @ - total]
      /\ bonus' = [bonus EXCEPT ![u] = @ - used]
      /\ c # NoCompany => c \in Companies /\ merchLock[c] = t
  BY CommitCreateFacts
<1>3. refunds' = refunds /\ Forget(t)
  BY CommitCreateJournals
<1>4. /\ \A d \in Companies : merchLog'[d] = merchLog[d] + IF d = c THEN Earning(total) ELSE 0
      /\ OpeningNeverOverpays' /\ \A s \in OrderTx : SeenMerchant(s)'
  <2>1. /\ pc[t] = "commitCreate"
        /\ c # NoCompany =>
             /\ merchant' = [merchant EXCEPT ![c] = seen[t].merchant + Earning(total)]
             /\ merchLog' = [merchLog EXCEPT ![c] = @ + Earning(total)]
        /\ c = NoCompany => UNCHANGED <<merchant, merchLog>>
    BY DEF CommitCreate
  <2> HIDE DEF total, c
  <2>2. c = OfferCompany[req[t].offer]
    BY DEF c
  <2> QED BY <1>2, <1>3, <2>1, <2>2, CommitPays
<1> HIDE DEF o, u, f, c, total, used
<1>5. Existing' = Existing \cup {o} /\ o \notin Existing
  BY <1>1, <1>2 DEF Existing, Exists, OrdersTypeOK
<1>6. info'[o] = [user |-> u, offer |-> f, total |-> total, bonus |-> used] /\ refunds'[o] = 0
  BY <1>1, <1>2, <1>3 DEF OrdersTypeOK, RefundsRecorded
<1>7. \A p \in Existing : p # o /\ p \in OrderIds /\ info'[p] = info[p] /\ refunds'[p] = refunds[p]
  BY <1>1, <1>2, <1>3, <1>5 DEF OrdersTypeOK, Existing
<1>8. \A v \in Users : OrdersOf(v)' = IF v = u THEN OrdersOf(v) \cup {o} ELSE OrdersOf(v)
  BY <1>5, <1>6, <1>7 DEF OrdersOf
<1>9. \A d \in Companies : OrdersAt(d)' = IF d = c THEN OrdersAt(d) \cup {o} ELSE OrdersAt(d)
  BY <1>5, <1>6, <1>7 DEF OrdersAt, CompanyOf, c
<1>10. \A p \in Existing : MoneyPaid'[p] = MoneyPaid[p] /\ PointsPaid'[p] = PointsPaid[p]
                           /\ Earnings'[p] = Earnings[p]
  BY <1>5, <1>7 DEF MoneyPaid, PointsPaid, Earnings
<1>11. MoneyPaid'[o] = total /\ PointsPaid'[o] = used /\ Earnings'[o] = Earning(total)
  <2>1. /\ MoneyPaid'[o] = (1 - 0) * total /\ PointsPaid'[o] = (1 - 0) * used
        /\ Earnings'[o] = (1 - 0) * Earning(total)
    BY <1>5, <1>6 DEF MoneyPaid, PointsPaid, Earnings
  <2>2. total \in Int /\ used \in Int
    BY <1>2
  <2> QED BY <1>2, <2>1, <2>2, Products
<1>12. /\ IsFiniteSet(Existing) /\ IsFiniteSet(Existing')
       /\ \A S \in SUBSET Existing : IsFiniteSet(S)
  BY <1>5, FS_AddElement, FS_Subset DEF MoneyInv, BooksAccounted
<1>13. WorthKept
  <2> SUFFICES ASSUME NEW v \in Users
               PROVE  /\ cash'[v] + SumFunctionOnSet(MoneyPaid', OrdersOf(v)')
                           = cash[v] + SumFunctionOnSet(MoneyPaid, OrdersOf(v))
                      /\ bonus'[v] + SumFunctionOnSet(PointsPaid', OrdersOf(v)')
                           = bonus[v] + SumFunctionOnSet(PointsPaid, OrdersOf(v))
    BY DEF WorthKept, CashWorth, PointsWorth
  <2> DEFINE S == OrdersOf(v)
  <2>1. S \subseteq Existing /\ IsFiniteSet(S) /\ o \notin S
    BY <1>5, <1>12 DEF OrdersOf
  <2>3. cash[v] \in Int /\ bonus[v] \in Int
    BY <1>1 DEF AccountsTypeOK
  <2> HIDE DEF S
  <2>4. \A p \in S : MoneyPaid[p] \in Int /\ PointsPaid[p] \in Int
    BY <2>1, SumsAreTyped
  <2>5. SumFunctionOnSet(MoneyPaid, S) \in Int /\ SumFunctionOnSet(PointsPaid, S) \in Int
    BY <2>1, <2>4, SumInt
  <2>6. CASE v = u
    <3>1. OrdersOf(v)' = S \cup {o}
      BY <1>8, <2>6 DEF S
    <3>2. SumFunctionOnSet(MoneyPaid', S \cup {o}) = SumFunctionOnSet(MoneyPaid, S) + total
      <4>1. \A p \in S : MoneyPaid[p] \in Int /\ MoneyPaid'[p] = MoneyPaid[p]
        BY <1>10, <2>1, <2>4
      <4>2. MoneyPaid'[o] \in Int /\ MoneyPaid'[o] = total
        BY <1>2, <1>11
      <4> QED BY <2>1, <4>1, <4>2, SumAppended
    <3>3. SumFunctionOnSet(PointsPaid', S \cup {o}) = SumFunctionOnSet(PointsPaid, S) + used
      <4>1. \A p \in S : PointsPaid[p] \in Int /\ PointsPaid'[p] = PointsPaid[p]
        BY <1>10, <2>1, <2>4
      <4>2. PointsPaid'[o] \in Int /\ PointsPaid'[o] = used
        BY <1>2, <1>11
      <4> QED BY <2>1, <4>1, <4>2, SumAppended
    <3>4. cash'[v] = cash[v] - total /\ bonus'[v] = bonus[v] - used
      BY <1>1, <1>2, <2>6 DEF AccountsTypeOK
    <3> QED BY <1>2, <2>3, <2>5, <3>1, <3>2, <3>3, <3>4 DEF S
  <2>7. CASE v # u
    <3>1. OrdersOf(v)' = S
      BY <1>8, <2>7 DEF S
    <3>2. /\ SumFunctionOnSet(MoneyPaid', S) = SumFunctionOnSet(MoneyPaid, S)
          /\ SumFunctionOnSet(PointsPaid', S) = SumFunctionOnSet(PointsPaid, S)
      BY <1>10, <2>1, SumSame
    <3>3. cash'[v] = cash[v] /\ bonus'[v] = bonus[v]
      BY <1>1, <1>2, <2>7 DEF AccountsTypeOK
    <3> QED BY <3>1, <3>2, <3>3 DEF S
  <2> QED BY <2>6, <2>7
<1>14. JournalAccounted'
  <2> SUFFICES ASSUME NEW d \in Companies
               PROVE  merchLog'[d] = SumFunctionOnSet(Earnings', OrdersAt(d)')
    BY DEF JournalAccounted
  <2> DEFINE S == OrdersAt(d)
  <2>1. S \subseteq Existing /\ IsFiniteSet(S) /\ o \notin S
    BY <1>5, <1>12 DEF OrdersAt
  <2>2. merchLog[d] = SumFunctionOnSet(Earnings, S) /\ merchLog[d] \in Int
    BY <1>1 DEF MoneyInv, BooksAccounted, JournalAccounted, OrdersTypeOK
  <2> HIDE DEF S
  <2>3. \A p \in S : Earnings[p] \in Int
    BY <2>1, SumsAreTyped
  <2>4. CASE d = c
    <3>1. OrdersAt(d)' = S \cup {o}
      BY <1>9, <2>4 DEF S
    <3>2. SumFunctionOnSet(Earnings', S \cup {o}) = SumFunctionOnSet(Earnings, S) + Earning(total)
      <4>1. \A p \in S : Earnings[p] \in Int /\ Earnings'[p] = Earnings[p]
        BY <1>10, <2>1, <2>3
      <4>2. Earnings'[o] \in Int /\ Earnings'[o] = Earning(total)
        BY <1>2, <1>11
      <4> QED BY <2>1, <4>1, <4>2, SumAppended
    <3> QED BY <1>4, <2>2, <2>4, <3>1, <3>2
  <2>5. CASE d # c
    <3>1. OrdersAt(d)' = S
      BY <1>9, <2>5 DEF S
    <3>2. SumFunctionOnSet(Earnings', S) = SumFunctionOnSet(Earnings, S)
      BY <1>10, <2>1, SumSame
    <3> QED BY <1>4, <2>2, <2>5, <3>1, <3>2
  <2> QED BY <2>4, <2>5
<1> QED BY <1>4, <1>12, <1>13, <1>14 DEF MoneyInv, BooksAccounted

LEMMA RefundMoney ==
  ASSUME OrdersInv, MoneyInv, NEW t \in OrderTx, CommitRefund(t)
  PROVE  MoneyInv' /\ WorthKept
<1> DEFINE o == req[t].order
           u == info[o].user
           f == info[o].offer
           c == OfferCompany[f]
           total == info[o].total
           used == info[o].bonus
           x == Earning(total)
<1>1. OrdersTypeOK /\ AccountsTypeOK /\ SessionOK(t)
  BY DEF OrdersInv
<1>2. /\ o \in OrderIds /\ u \in Users /\ f \in Offers
      /\ total \in Nat /\ used \in Nat /\ x \in Int
      /\ status[o] # "none" /\ status' = [status EXCEPT ![o] = "refunded"]
      /\ info' = info
      /\ refunds' = [refunds EXCEPT ![o] = @ + 1]
      /\ cash' = [cash EXCEPT ![u] = @ + total]
      /\ bonus' = [bonus EXCEPT ![u] = @ + used]
      /\ c # NoCompany => c \in Companies /\ merchLock[c] = t
  BY CommitRefundFacts
<1>3. Forget(t)
  BY CommitRefundJournals
<1>4. /\ \A d \in Companies : merchLog'[d] = merchLog[d] + IF d = c THEN -x ELSE 0
      /\ OpeningNeverOverpays' /\ \A s \in OrderTx : SeenMerchant(s)'
  <2>1. /\ pc[t] = "commitRefund" /\ seen[t].total = total /\ req[t].offer = f
    BY <1>1 DEF CommitRefund, SessionOK, OrderSeen, RefundPcs
  <2>2. c # NoCompany => /\ merchant' = [merchant EXCEPT ![c] = seen[t].merchant - x]
                         /\ merchLog' = [merchLog EXCEPT ![c] = @ - x]
    BY <1>2, <2>1 DEF CommitRefund
  <2>3. c = NoCompany => UNCHANGED <<merchant, merchLog>>
    BY <2>1 DEF CommitRefund
  <2>4. c = OfferCompany[req[t].offer]
    BY <2>1
  <2>5. seen[t].merchant \in Int /\ \A d \in Companies : merchLog[d] \in Int
    BY <1>1 DEF OrdersTypeOK
  <2> DEFINE y == -x
  <2> HIDE DEF x, c
  <2>6. y \in Int /\ \A z \in Int : z - x = z + y
    BY <1>2
  <2> HIDE DEF y
  <2>7. c # NoCompany => /\ merchant' = [merchant EXCEPT ![c] = seen[t].merchant + y]
                         /\ merchLog' = [merchLog EXCEPT ![c] = @ + y]
    BY <1>2, <2>2, <2>5, <2>6
  <2>8. /\ \A d \in Companies : merchLog'[d] = merchLog[d] + IF d = c THEN y ELSE 0
        /\ OpeningNeverOverpays' /\ \A s \in OrderTx : SeenMerchant(s)'
    <3>1. c # NoCompany => c \in Companies /\ merchLock[c] = t
      BY <1>2
    <3>2. y \in Int /\ pc[t] \in {"commitCreate", "commitRefund"}
      BY <2>1, <2>6
    <3> HIDE DEF o, u, f, total, used
    <3> QED BY <1>3, <2>3, <2>4, <2>7, <3>1, <3>2, CommitPays
  <2> QED BY <2>8 DEF y
<1> HIDE DEF o, u, f, c, total, used, x
<1>5. Existing' = Existing /\ o \in Existing
  BY <1>1, <1>2 DEF Existing, Exists, OrdersTypeOK
<1>6. /\ refunds'[o] = refunds[o] + 1 /\ refunds[o] \in Nat
      /\ \A p \in Existing \ {o} : refunds'[p] = refunds[p]
  BY <1>1, <1>2, <1>5 DEF OrdersTypeOK, Existing
<1>7. /\ \A v \in Users : OrdersOf(v)' = OrdersOf(v) /\ (o \in OrdersOf(v) <=> v = u)
      /\ \A d \in Companies : OrdersAt(d)' = OrdersAt(d) /\ (o \in OrdersAt(d) <=> d = c)
  BY <1>2, <1>5 DEF OrdersOf, OrdersAt, CompanyOf, u, c, f
<1>8. \A p \in Existing \ {o} : /\ MoneyPaid'[p] = MoneyPaid[p] /\ PointsPaid'[p] = PointsPaid[p]
                                /\ Earnings'[p] = Earnings[p]
  BY <1>2, <1>5, <1>6 DEF MoneyPaid, PointsPaid, Earnings
<1>9. /\ MoneyPaid'[o] = MoneyPaid[o] - total /\ PointsPaid'[o] = PointsPaid[o] - used
      /\ Earnings'[o] = Earnings[o] - x
  <2>1. /\ MoneyPaid'[o] = (1 - (refunds[o] + 1)) * total
        /\ PointsPaid'[o] = (1 - (refunds[o] + 1)) * used
        /\ Earnings'[o] = (1 - (refunds[o] + 1)) * x
    BY <1>2, <1>5, <1>6 DEF MoneyPaid, PointsPaid, Earnings, total, used, x
  <2>2. /\ MoneyPaid[o] = (1 - refunds[o]) * total
        /\ PointsPaid[o] = (1 - refunds[o]) * used
        /\ Earnings[o] = (1 - refunds[o]) * x
    BY <1>5 DEF MoneyPaid, PointsPaid, Earnings, total, used, x
  <2>3. refunds[o] \in Int /\ total \in Int /\ used \in Int /\ x \in Int
    BY <1>2, <1>6
  <2> QED BY <2>1, <2>2, <2>3, Products
<1>10. /\ \A p \in Existing : MoneyPaid[p] \in Int /\ PointsPaid[p] \in Int /\ Earnings[p] \in Int
       /\ \A p \in Existing :
            MoneyPaid'[p] \in Int /\ PointsPaid'[p] \in Int /\ Earnings'[p] \in Int
  <2>1. \A p \in Existing : MoneyPaid[p] \in Int /\ PointsPaid[p] \in Int /\ Earnings[p] \in Int
    BY SumsAreTyped
  <2>2. MoneyPaid'[o] \in Int /\ PointsPaid'[o] \in Int /\ Earnings'[o] \in Int
    BY <1>2, <1>5, <1>9, <2>1
  <2> QED BY <1>8, <2>1, <2>2
<1>11. IsFiniteSet(Existing) /\ \A S \in SUBSET Existing : IsFiniteSet(S)
  BY FS_Subset DEF MoneyInv, BooksAccounted
<1>12. WorthKept
  <2> SUFFICES ASSUME NEW v \in Users
               PROVE  /\ cash'[v] + SumFunctionOnSet(MoneyPaid', OrdersOf(v)')
                           = cash[v] + SumFunctionOnSet(MoneyPaid, OrdersOf(v))
                      /\ bonus'[v] + SumFunctionOnSet(PointsPaid', OrdersOf(v)')
                           = bonus[v] + SumFunctionOnSet(PointsPaid, OrdersOf(v))
    BY DEF WorthKept, CashWorth, PointsWorth
  <2> DEFINE S == OrdersOf(v)
  <2>1. S \subseteq Existing /\ IsFiniteSet(S) /\ OrdersOf(v)' = S /\ (o \in S <=> v = u)
    BY <1>7, <1>11 DEF OrdersOf
  <2>3. cash[v] \in Int /\ bonus[v] \in Int
    BY <1>1 DEF AccountsTypeOK
  <2> HIDE DEF S
  <2>4. /\ \A p \in S : MoneyPaid[p] \in Int /\ MoneyPaid'[p] \in Int
        /\ \A p \in S : PointsPaid[p] \in Int /\ PointsPaid'[p] \in Int
    BY <1>10, <2>1
  <2>5. SumFunctionOnSet(MoneyPaid, S) \in Int /\ SumFunctionOnSet(PointsPaid, S) \in Int
    BY <2>1, <2>4, SumInt
  <2>6. CASE v = u
    <3>1. o \in S /\ MoneyPaid[o] \in Int /\ PointsPaid[o] \in Int
      BY <2>1, <2>4, <2>6
    <3>2. SumFunctionOnSet(MoneyPaid', S) =
            SumFunctionOnSet(MoneyPaid, S) + (MoneyPaid'[o] - MoneyPaid[o])
      <4>1. \A p \in S \ {o} : MoneyPaid'[p] = MoneyPaid[p]
        BY <1>8, <2>1
      <4> QED BY <2>1, <2>4, <3>1, <4>1, SumChanged
    <3>3. SumFunctionOnSet(PointsPaid', S) =
            SumFunctionOnSet(PointsPaid, S) + (PointsPaid'[o] - PointsPaid[o])
      <4>1. \A p \in S \ {o} : PointsPaid'[p] = PointsPaid[p]
        BY <1>8, <2>1
      <4> QED BY <2>1, <2>4, <3>1, <4>1, SumChanged
    <3>4. /\ SumFunctionOnSet(MoneyPaid', S) = SumFunctionOnSet(MoneyPaid, S) - total
          /\ SumFunctionOnSet(PointsPaid', S) = SumFunctionOnSet(PointsPaid, S) - used
      BY <1>2, <1>9, <2>5, <3>1, <3>2, <3>3
    <3>5. cash'[v] = cash[v] + total /\ bonus'[v] = bonus[v] + used
      BY <1>1, <1>2, <2>6 DEF AccountsTypeOK
    <3> QED BY <1>2, <2>1, <2>3, <2>5, <3>4, <3>5 DEF S
  <2>7. CASE v # u
    <3>1. \A p \in S : MoneyPaid'[p] = MoneyPaid[p] /\ PointsPaid'[p] = PointsPaid[p]
      BY <1>8, <2>1, <2>7
    <3>2. /\ SumFunctionOnSet(MoneyPaid', S) = SumFunctionOnSet(MoneyPaid, S)
          /\ SumFunctionOnSet(PointsPaid', S) = SumFunctionOnSet(PointsPaid, S)
      BY <2>1, <3>1, SumSame
    <3>3. cash'[v] = cash[v] /\ bonus'[v] = bonus[v]
      BY <1>1, <1>2, <2>7 DEF AccountsTypeOK
    <3> QED BY <2>1, <3>2, <3>3 DEF S
  <2> QED BY <2>6, <2>7
<1>13. JournalAccounted'
  <2> SUFFICES ASSUME NEW d \in Companies
               PROVE  merchLog'[d] = SumFunctionOnSet(Earnings', OrdersAt(d)')
    BY DEF JournalAccounted
  <2> DEFINE S == OrdersAt(d)
  <2>1. S \subseteq Existing /\ IsFiniteSet(S) /\ OrdersAt(d)' = S /\ (o \in S <=> d = c)
    BY <1>7, <1>11 DEF OrdersAt
  <2>2. merchLog[d] = SumFunctionOnSet(Earnings, S) /\ merchLog[d] \in Int
    BY <1>1 DEF MoneyInv, BooksAccounted, JournalAccounted, OrdersTypeOK
  <2> HIDE DEF S
  <2>3. \A p \in S : Earnings[p] \in Int /\ Earnings'[p] \in Int
    BY <1>10, <2>1
  <2>4. CASE d = c
    <3>1. o \in S /\ Earnings[o] \in Int
      BY <2>1, <2>3, <2>4
    <3>2. SumFunctionOnSet(Earnings', S) =
            SumFunctionOnSet(Earnings, S) + (Earnings'[o] - Earnings[o])
      <4>1. \A p \in S \ {o} : Earnings'[p] = Earnings[p]
        BY <1>8, <2>1
      <4> QED BY <2>1, <2>3, <3>1, <4>1, SumChanged
    <3>3. merchLog'[d] = merchLog[d] + (-x)
      BY <1>4, <2>4
    <3> QED BY <1>2, <1>9, <2>1, <2>2, <3>1, <3>2, <3>3
  <2>5. CASE d # c
    <3>1. \A p \in S : Earnings'[p] = Earnings[p]
      BY <1>8, <2>1, <2>5
    <3>2. SumFunctionOnSet(Earnings', S) = SumFunctionOnSet(Earnings, S)
      BY <2>1, <3>1, SumSame
    <3> QED BY <1>4, <2>1, <2>2, <2>5, <3>2
  <2> QED BY <2>4, <2>5
<1> QED BY <1>4, <1>5, <1>11, <1>12, <1>13 DEF MoneyInv, BooksAccounted
-----------------------------------------------------------------------------
LEMMA MoneyInitially == OrdersInitAll => MoneyInv
<1> SUFFICES ASSUME OrdersInitAll
             PROVE  MoneyInv
  OBVIOUS
<1>1. Existing = {}
  BY DEF OrdersInitAll, OrdersInit, Existing, Exists
<1>2. /\ \A u \in Users : OrdersOf(u) = {}
      /\ \A c \in Companies : OrdersAt(c) = {}
  BY <1>1 DEF OrdersOf, OrdersAt
<1>4. JournalAccounted
  BY <1>2, SumEmpty DEF JournalAccounted, OrdersInitAll, OrdersInit
<1>5. OpeningNeverOverpays /\ \A t \in OrderTx : SeenMerchant(t)
  BY DEF OpeningNeverOverpays, SeenMerchant, OrdersInitAll, OrdersInit
<1> QED BY <1>1, <1>4, <1>5, FS_EmptySet DEF MoneyInv, BooksAccounted

LEMMA OrdersNextMoney ==
  ASSUME OrdersInv, MoneyInv, OrdersNext
  PROVE  MoneyInv' /\ WorthKept
<1>1. ASSUME NEW t \in OrderTx, OrderRequest(t) \/ Rollback(t)
      PROVE  MoneyInv' /\ WorthKept
  BY <1>1, RequestMoney, QuietActionMoney DEF QuietAction
<1>2. ASSUME NEW t \in OrderTx, OrderStep(t)
      PROVE  MoneyInv' /\ WorthKept
  <2>1. CASE QuietAction(t)
    BY <2>1, QuietActionMoney
  <2>2. CASE OpenMerchant(t) \/ CommitCreate(t) \/ CommitRefund(t)
    BY <2>2, OpenMoney, CreateMoney, RefundMoney
  <2>3. CASE WriteStatus(t) \/ WriteConfirm(t) \/ UpsertAttendee(t)
    BY <2>3, StatusMoney
  <2> QED BY <1>2, <2>1, <2>2, <2>3 DEF OrderStep, QuietAction
<1>3. ASSUME NEW o \in OrderIds, MarkRedeemed(o)
      PROVE  MoneyInv' /\ WorthKept
  BY <1>3, StatusMoney
<1> QED BY <1>1, <1>2, <1>3 DEF OrdersNext

LEMMA OrdersMoneyNext ==
  OrdersInv /\ MoneyInv /\ [OrdersNext]_<<orderVars, cashVars, bonusVars>> =>
    MoneyInv' /\ WorthKept
<1>1. ASSUME MoneyInv, UNCHANGED <<orderVars, cashVars, bonusVars>>
      PROVE  MoneyInv' /\ WorthKept
  <2> USE DEF orderVars, rowVars, merchVars, cashVars, bonusVars
  <2>1. SameBooks
    BY <1>1 DEF SameBooks, Existing, Exists
  <2>2. OpeningNeverOverpays' /\ \A t \in OrderTx : SeenMerchant(t)'
    BY <1>1 DEF MoneyInv, OpeningNeverOverpays, SeenMerchant
  <2> QED BY <1>1, <2>1, <2>2, SameBooksAccounted DEF MoneyInv
<1> QED BY <1>1, OrdersNextMoney

LEMMA OrdersMoney == OrdersSpec => []MoneyInv
  BY OrdersMoneyNext, MoneyInitially, OrdersInvariant, PTL DEF OrdersSpec

\* The sums that WalletAccounted speaks of are numbers.
LEMMA SpendingIsTyped ==
  ASSUME OrdersInv, MoneyInv, NEW u \in Users
  PROVE  /\ SumFunctionOnSet(MoneyPaid, OrdersOf(u)) \in Int
         /\ SumFunctionOnSet(PointsPaid, OrdersOf(u)) \in Int
         /\ cash[u] \in Int /\ bonus[u] \in Int
<1> DEFINE S == OrdersOf(u)
<1>1. S \subseteq Existing /\ IsFiniteSet(S)
  BY FS_Subset DEF OrdersOf, MoneyInv, BooksAccounted
<1>2. cash[u] \in Int /\ bonus[u] \in Int
  BY DEF OrdersInv, AccountsTypeOK
<1> HIDE DEF S
<1>3. \A o \in S : MoneyPaid[o] \in Int /\ PointsPaid[o] \in Int
  BY <1>1, SumsAreTyped
<1>4. SumFunctionOnSet(MoneyPaid, S) \in Int /\ SumFunctionOnSet(PointsPaid, S) \in Int
  BY <1>1, <1>3, SumInt
<1> QED BY <1>2, <1>4 DEF S

\* At the start nobody has paid for anything.
LEMMA WorthInitially ==
  ASSUME OrdersInitAll, NEW u \in Users
  PROVE  CashWorth(u) = OpeningCash[u] /\ PointsWorth(u) = OpeningBonus[u]
<1>1. OrdersOf(u) = {}
  BY DEF OrdersInitAll, OrdersInit, OrdersOf, Existing, Exists
<1>2. /\ SumFunctionOnSet(MoneyPaid, OrdersOf(u)) = 0
      /\ SumFunctionOnSet(PointsPaid, OrdersOf(u)) = 0
  BY <1>1, SumEmpty
<1>3. OpeningCash[u] \in Int /\ OpeningBonus[u] \in Int
  BY OpeningAssumption
<1>4. cash[u] = OpeningCash[u] /\ bonus[u] = OpeningBonus[u]
  BY DEF OrdersInitAll, AccountsInit
<1> QED BY <1>2, <1>3, <1>4 DEF CashWorth, PointsWorth

\* What orders cost and earn is nobody else's business.
LEMMA MoneyOutside ==
  ASSUME MoneyInv, UNCHANGED orderVars
  PROVE  /\ MoneyInv'
         /\ \A u \in Users :
              /\ SumFunctionOnSet(MoneyPaid', OrdersOf(u)') = SumFunctionOnSet(MoneyPaid, OrdersOf(u))
              /\ SumFunctionOnSet(PointsPaid', OrdersOf(u)') = SumFunctionOnSet(PointsPaid, OrdersOf(u))
<1> USE DEF orderVars, rowVars, merchVars
<1>1. Existing' = Existing
  BY DEF Existing, Exists
<1>2. /\ MoneyPaid' = MoneyPaid /\ PointsPaid' = PointsPaid /\ Earnings' = Earnings
      /\ \A u \in Users : OrdersOf(u)' = OrdersOf(u)
      /\ \A c \in Companies : OrdersAt(c)' = OrdersAt(c)
  BY <1>1 DEF MoneyPaid, PointsPaid, Earnings, OrdersOf, OrdersAt, CompanyOf
<1>3. BooksAccounted'
  BY <1>1, <1>2 DEF MoneyInv, BooksAccounted, JournalAccounted
<1>4. OpeningNeverOverpays' /\ \A t \in OrderTx : SeenMerchant(t)'
  BY DEF MoneyInv, OpeningNeverOverpays, SeenMerchant
<1> QED BY <1>2, <1>3, <1>4 DEF MoneyInv

OpeningsKept ==
  \A u \in Users : CashWorth(u) = OpeningCash[u] /\ PointsWorth(u) = OpeningBonus[u]

\* What every buyer's wallet and bonus account lack is the price of the orders
\* that were not refunded, each counted once, for every number of buyers,
\* orders and concurrent requests (CreateOrder, RefundOrder).
THEOREM OrdersAccountForWallets == OrdersSpec => []WalletAccounted
<1>1. OrdersInitAll => OpeningsKept
  BY WorthInitially DEF OpeningsKept
<1>2. OpeningsKept /\ WorthKept => OpeningsKept'
  BY DEF OpeningsKept, WorthKept
<1>3. OrdersSpec => []OpeningsKept
  BY <1>1, <1>2, OrdersMoneyNext, OrdersInvariant, OrdersMoney, PTL DEF OrdersSpec
<1>4. OrdersInv /\ MoneyInv /\ OpeningsKept => WalletAccounted
  <2> SUFFICES ASSUME OrdersInv, MoneyInv, OpeningsKept, NEW u \in Users
               PROVE  /\ cash[u] = OpeningCash[u] - SumFunctionOnSet(MoneyPaid, OrdersOf(u))
                      /\ bonus[u] = OpeningBonus[u] - SumFunctionOnSet(PointsPaid, OrdersOf(u))
    BY DEF WalletAccounted
  <2>1. CashWorth(u) = OpeningCash[u] /\ PointsWorth(u) = OpeningBonus[u]
    BY DEF OpeningsKept
  <2> QED BY <2>1, SpendingIsTyped DEF CashWorth, PointsWorth
<1> QED BY <1>3, <1>4, OrdersInvariant, OrdersMoney, PTL

LEMMA PartnersAccounted ==
  ASSUME OrdersInv, MoneyInv
  PROVE  PartnerAccounted
BY CatalogueAssumption
DEF OrdersInv, BooksAgree, MerchantMatchesJournal, MoneyInv, BooksAccounted, JournalAccounted,
    PartnerAccounted

\* A partner with an account from the start holds the earnings of exactly the
\* orders that were not refunded (the student's money and the partner's move
\* in one transaction).
THEOREM OrdersAccountForPartners == OrdersSpec => []PartnerAccounted
<1> QED BY PartnersAccounted, OrdersInvariant, OrdersMoney, PTL

\* Whenever a partner's account was opened, it never holds more than its
\* journal shows: the account opened outside the transaction can only lose
\* (merchantAccountRepo.Create in CreateOrder).
THEOREM OrdersNeverOverpay == OrdersSpec => []OpeningNeverOverpays
<1>1. MoneyInv => OpeningNeverOverpays
  BY DEF MoneyInv
<1> QED BY <1>1, OrdersMoney, PTL
=============================================================================
