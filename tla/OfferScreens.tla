----------------------------- MODULE OfferScreens -----------------------------
(* Offers on their way through moderation: the partner's cabinet and the     *)
(* administrator's desk.                                                     *)
EXTENDS Controls

(* An offer not created yet is the form for it. *)
Offers == {"draft", "pending_review", "pending_partner_approval", "published",
           "rejected", "archived"}
OfferStatuses == Offers \cup {"none"}

(* A changed offer goes to moderation again when it had been decided on.     *)
AfterUpdate(s) ==
    IF s \in {"published", "rejected", "archived"} THEN "pending_review" ELSE s

(* The partner: only a draft is submitted, only edits of the administrator   *)
(* that wait for an answer are accepted or declined.  The administrator      *)
(* decides on an offer in any status; "recall" is the edit of one that is    *)
(* published.  "compose" and "revise" are the first requests of the two that *)
(* create or save an offer and submit it.                                    *)
OfferMoves ==
    {<<o, "none", "draft">> : o \in {"create", "compose"}} \cup
    {<<o, s, s>> : o \in {"create", "compose"}, s \in Offers} \cup
    {<<o, s, AfterUpdate(s)>> : o \in {"save", "revise"}, s \in Offers} \cup
    {<<"submit", "draft", "pending_review">>,
     <<"accept", "pending_partner_approval", "published">>,
     <<"decline", "pending_partner_approval", "pending_review">>} \cup
    UNION {{<<"publish", s, "published">>, <<"reject", s, "rejected">>,
            <<"archive", s, "archived">>, <<"amend", s, "pending_partner_approval">>,
            <<"recall", s, "pending_partner_approval">>}
           : s \in Offers}

-----------------------------------------------------------------------------
\* The partner.

(* MerchantOffers.jsx: all offers of the companies chosen above; the tabs    *)
(* sort the copy, and every row is a link.                                   *)
MerchantOffersLoad == Load("dead", TRUE, FALSE)
MerchantOffersScreen ==
    Screen("MerchantOffers", "list", OfferStatuses, {"draft", "published"}, {Offers},
           OfferMoves, [s \in OfferStatuses |-> {}], <<>>, MerchantOffersLoad)

(* MerchantOfferEditor.jsx: the form of a new offer or of one that exists,   *)
(* which cannot be read and is then taken for an empty draft.                *)
EditorLoad == Load("blank", FALSE, FALSE)

(* Mutant: the button of the drafts offered for every offer there is. *)
EditorOffersAlways ==
    [s \in OfferStatuses |-> IF s = "none" THEN {"create", "compose"} ELSE {"save", "revise"}]

(* A new offer and a draft can be saved as they are or submitted with it;    *)
(* any other is saved.                                                       *)
EditorOffers ==
    [s \in OfferStatuses |->
        CASE s = "none"  -> {"create", "compose"}
          [] s = "draft" -> {"save", "revise"}
          [] OTHER       -> {"save"}]

(* When the second request fails the offer of the first one stays, and the   *)
(* form does not know it.                                                    *)
EditorActs ==
    LET button == Act("screen", "leave", "stay")
    IN [create |-> button, save |-> button, submit |-> button,
        compose |-> [button EXCEPT !.then = "submit"],
        revise  |-> [button EXCEPT !.then = "submit"]]

EditorScreen ==
    [Screen("MerchantOfferEditor", "one", OfferStatuses, {"none", "draft", "published"}, {},
            OfferMoves, EditorOffers, EditorActs, EditorLoad)
     EXCEPT !.blank = {"draft"}, !.roams = FALSE]

(* MerchantOfferEdits.jsx: what the administrator changed. *)
EditsLoad == Load("keep", FALSE, FALSE)
EditsOffers ==
    [s \in OfferStatuses |->
        IF s = "pending_partner_approval" THEN {"accept", "decline"} ELSE {}]
EditsActs ==
    [o \in {"accept", "decline"} |-> [Act("screen", "leave", "stay") EXCEPT !.on = "page"]]
EditsScreen ==
    Screen("MerchantOfferEdits", "one", OfferStatuses,
           {"pending_partner_approval", "published"}, {},
           OfferMoves, EditsOffers, EditsActs, EditsLoad)

-----------------------------------------------------------------------------
\* The administrator.

(* AdminModeration.jsx: the queue by tabs, dropped when a tab is chosen. *)
ModerationLoad == Load("empty", TRUE, FALSE)
ModerationTabs == {{s} : s \in Offers} \cup {Offers}
ModerationScreen ==
    Screen("AdminModeration", "list", OfferStatuses, {"draft", "pending_review"},
           ModerationTabs, OfferMoves, [s \in OfferStatuses |-> {}], <<>>,
           ModerationLoad)

(* AdminModerationReview.jsx: a decision on one that waits for it, and what  *)
(* remains to be done about a published one.                                 *)
DeskLoad == Load("keep", FALSE, FALSE)
DeskOffers ==
    [s \in OfferStatuses |->
        CASE s = "pending_review" -> {"publish", "amend", "reject"}
          [] s = "published"      -> {"recall", "archive"}
          [] OTHER                -> {}]

(* All of them leave the page.  The form of the edits keeps a busy flag of   *)
(* its own, gone when the form is closed, and takes the id of the offer it   *)
(* was opened on; the others take the id of the page.                        *)
DeskActs ==
    LET decide == [Act("screen", "leave", "stay") EXCEPT !.on = "page"]
    IN [publish |-> decide, reject |-> decide, archive |-> decide,
        amend   |-> Act("waits", "leave", "stay"),
        recall  |-> Act("free", "leave", "stay")]

DeskScreen ==
    Screen("AdminModerationReview", "one", OfferStatuses, {"pending_review", "published"}, {},
           OfferMoves, DeskOffers, DeskActs, DeskLoad)

OfferCatalog ==
    <<MerchantOffersScreen, EditorScreen, EditsScreen, ModerationScreen, DeskScreen>>
=============================================================================
