----------------------------- MODULE OrderScreens -----------------------------
(* Buying, the orders of a student, and the till of the partner.             *)
EXTENDS Controls

OrderStatuses == {"created", "paid", "completed", "refunded", "cancelled"}

(* The operations of the student (confirm, cancel), of the till (redeem,     *)
(* turnDown) and of the administrator (refund) on an order.                  *)
OrderMoves ==
    {<<"confirm", "created", "paid">>, <<"cancel", "created", "cancelled">>,
     <<"redeem", "paid", "completed">>, <<"turnDown", "paid", "refunded">>,
     <<"refund", "paid", "refunded">>, <<"refund", "completed", "refunded">>}

-----------------------------------------------------------------------------
\* Checkout.jsx.

(* The page knows the offer and the purse, and no order: what became of the  *)
(* last one bought here does not show.                                       *)
Purses == {"enough", "short"}
Purchase(last, purse) == [last |-> last, purse |-> purse]
PurchaseStatuses ==
    {Purchase(last, purse) : last \in {"none", "created", "paid"}, purse \in Purses}
FirstPurchases == {Purchase("none", purse) : purse \in Purses}

(* An order is created, and charged, as often as it is asked for and the     *)
(* purse allows; whatever else the server may say against it (the offer is   *)
(* no longer sold) the page does not ask.                                    *)
PurchaseMoves ==
    {<<"buy", Purchase(last, "enough"), Purchase("created", purse)>>
        : last \in {"none", "created", "paid"}, purse \in Purses} \cup
    (UNION {{<<"confirm", Purchase("created", purse), Purchase("paid", purse)>>,
             <<"deposited", Purchase("none", "short"), Purchase("none", "enough")>>,
             <<"spent", Purchase("none", "enough"), Purchase("none", "short")>>}
            : purse \in Purses}) \cup
    {<<"topUp", s, s>> : s \in PurchaseStatuses}

(* A purse that cannot be read is taken for an empty one. *)
CheckoutLoad == Load("blank", FALSE, FALSE)

CheckoutOffers ==
    [s \in PurchaseStatuses |-> IF s.purse = "enough" THEN {"buy", "topUp"} ELSE {"topUp"}]

(* An order is created and then confirmed; after an error in either the copy *)
(* is read again, and the next press creates another order.                  *)
CheckoutActs ==
    LET pay == Act("screen", "leave", "again")
    IN [buy |-> [pay EXCEPT !.then = "confirm"], confirm |-> pay,
        topUp |-> Act("screen", "leave", "stay")]

CheckoutScreen ==
    [Screen("Checkout", "one", PurchaseStatuses, FirstPurchases, {},
            PurchaseMoves, CheckoutOffers, CheckoutActs, CheckoutLoad)
     EXCEPT !.blank = {Purchase("none", "short")}]

-----------------------------------------------------------------------------
\* Order.jsx and OrderReceipt.jsx.

(* All orders of the user; the tabs sort the copy. *)
OrdersLoad == Load("empty", FALSE, FALSE)
OrdersOffers ==
    [s \in OrderStatuses |-> IF s = "created" THEN {"confirm"} ELSE {}]

(* The id of one order that is being paid, which another press replaces. *)
OrdersActs == [confirm |-> Act("row", "leave", "again")]
OrdersScreen ==
    Screen("Order", "list", OrderStatuses, {"created", "paid"}, {OrderStatuses},
           OrderMoves, OrdersOffers, OrdersActs, OrdersLoad)

ReceiptLoad == Load("empty", FALSE, FALSE)
ReceiptScreen ==
    Screen("OrderReceipt", "one", OrderStatuses, {"created", "paid"}, {},
           OrderMoves, [s \in OrderStatuses |-> {}], <<>>, ReceiptLoad)

-----------------------------------------------------------------------------
\* MerchantCashier.jsx.

(* Checking a code locks the till; the camera checks the next code without   *)
(* asking whether it is locked.                                              *)
TillLoad == [Load("keep", FALSE, FALSE) EXCEPT !.locks = TRUE]

TillOffers ==
    [s \in OrderStatuses |-> IF s = "paid" THEN {"redeem", "turnDown"} ELSE {}]

(* Both show what they were answered; a redemption that is refused shows why. *)
TillActs ==
    [redeem   |-> Act("screen", "show", "show"),
     turnDown |-> Act("screen", "show", "stay")]

TillScreen ==
    Screen("MerchantCashier", "one", OrderStatuses, {"created", "paid"}, {},
           OrderMoves, TillOffers, TillActs, TillLoad)

-----------------------------------------------------------------------------
\* OfferDetail.jsx: the subscription to the company of the offer shown.

FollowStatuses == {"on", "off"}
FollowMoves ==
    {<<"subscribe", s, "on">> : s \in FollowStatuses} \cup
    {<<"unsubscribe", s, "off">> : s \in FollowStatuses}

(* Not known is not subscribed; what was known of the company before is      *)
(* dropped for this one's only when the answer comes.                        *)
FollowLoad == Load("blank", FALSE, FALSE)
FollowOffers == [on |-> {"unsubscribe"}, off |-> {"subscribe"}]
FollowActs ==
    [o \in {"subscribe", "unsubscribe"} |-> [Act("screen", "show", "stay") EXCEPT !.on = "page"]]
FollowScreen ==
    [Screen("OfferDetail", "one", FollowStatuses, FollowStatuses, {},
            FollowMoves, FollowOffers, FollowActs, FollowLoad)
     EXCEPT !.blank = {"off"}]

OrderCatalog == <<CheckoutScreen, OrdersScreen, ReceiptScreen, TillScreen, FollowScreen>>
=============================================================================
