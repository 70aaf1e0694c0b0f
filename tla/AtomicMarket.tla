----------------------------- MODULE AtomicMarket -----------------------------
(***************************************************************************)
(* What the marketplace promises about money, without sessions, locks or   *)
(* status handlers: a top-up, a purchase and a refund each happen in one   *)
(* step that moves all the money they move, on the balances of that very   *)
(* moment.  Module Marketplace is shown to implement this.                 *)
(***************************************************************************)
EXTENDS Integers

CONSTANTS
  Users, OrderIds, Offers, PaymentIds,
  Companies,
  Partners,          \* the companies whose account is followed
  OfferCompany, Price, BonusCap, Payer, Amount,
  OpeningCash, OpeningBonus

VARIABLES
  cash, bonus,       \* balance of every user
  earned,            \* balance of every partner
  sold,              \* the orders that exist
  sale,              \* what each of them was sold for
  back,              \* how often its money went back
  credited           \* the payments that reached the wallet

Earning(total) == total - total \div 50

Init ==
  /\ cash = OpeningCash /\ bonus = OpeningBonus
  /\ earned = [c \in Partners |-> 0]
  /\ sold = {} /\ credited = {}
  /\ back = [o \in OrderIds |-> 0]

\* The partner of offer f, if its account is followed, gets x more.
Pay(f, x) == earned' = [c \in Partners |-> earned[c] + IF c = OfferCompany[f] THEN x ELSE 0]

TopUp(p) ==
  /\ p \notin credited
  /\ credited' = credited \cup {p}
  /\ cash' = [cash EXCEPT ![Payer[p]] = @ + Amount[p]]
  /\ UNCHANGED <<bonus, earned, sold, sale, back>>

\* The buyer can afford the order and keeps a balance that is not negative.
Purchase(o) ==
  LET u == sale'[o].user
      f == sale'[o].offer
      total == sale'[o].total
      used == sale'[o].bonus
  IN  /\ o \notin sold
      /\ sold' = sold \cup {o}
      /\ \A other \in sold : sale'[other] = sale[other]
      /\ used \in 0 .. BonusCap[f] /\ total = Price[f] - used
      /\ used =< bonus[u] \/ used = 0
      /\ total =< cash[u]
      /\ cash' = [cash EXCEPT ![u] = @ - total]
      /\ bonus' = [bonus EXCEPT ![u] = @ - used]
      /\ Pay(f, Earning(total))
      /\ UNCHANGED <<back, credited>>

\* A refund reverses the whole purchase; the order of a partner has only one.
GiveBack(o) ==
  LET u == sale[o].user
      f == sale[o].offer
  IN  /\ o \in sold
      /\ OfferCompany[f] \in Companies => back[o] = 0
      /\ back' = [back EXCEPT ![o] = @ + 1]
      /\ cash' = [cash EXCEPT ![u] = @ + sale[o].total]
      /\ bonus' = [bonus EXCEPT ![u] = @ + sale[o].bonus]
      /\ Pay(f, -Earning(sale[o].total))
      /\ UNCHANGED <<sold, sale, credited>>

Next ==
  \/ \E p \in PaymentIds : TopUp(p)
  \/ \E o \in OrderIds : Purchase(o) \/ GiveBack(o)

Spec == Init /\ [][Next]_<<cash, bonus, earned, sold, sale, back, credited>>
=============================================================================
