-------------------------- MODULE VerificationScreens --------------------------
(* The verification of a student: his own page and the administrator's.      *)
EXTENDS Controls

(* Two columns decide what is shown: the status of the user, which a new     *)
(* request leaves alone, and the status of his last request.                 *)
Standing(user, last) == [user |-> user, last |-> last]
VerificationStatuses ==
    {Standing("pending", last) : last \in {"none", "pending", "verified", "rejected", "expired"}}
    \cup {Standing(user, last) : user \in {"rejected", "expired"}, last \in {"pending", "rejected", "expired"}}
    \cup {Standing("verified", "verified")}

FirstStandings ==
    {Standing("pending", "none"), Standing("pending", "pending"),
     Standing("verified", "verified"), Standing("expired", "expired")}

(* A row that was never decided has no reason for a refusal, cannot be read  *)
(* back for that, and does not stop the next request; a decided one is       *)
(* refused while it is verified.  A decision has no guard.                   *)
VerificationMoves ==
    {<<"request", s, Standing(s.user, "pending")>>
        : s \in {t \in VerificationStatuses : t.last # "verified"}} \cup
    {<<"verify", s, Standing("verified", "verified")>>
        : s \in {t \in VerificationStatuses : t.last # "none"}} \cup
    {<<"reject", s, Standing("rejected", "rejected")>>
        : s \in {t \in VerificationStatuses : t.last # "none"}} \cup
    {<<"reset", Standing("verified", "verified"), Standing("pending", "verified")>>} \cup
    {<<"expire", s, Standing("expired", "expired")>>
        : s \in {t \in VerificationStatuses : t.last = "verified"}}

-----------------------------------------------------------------------------
\* Verification.jsx, the student.

(* A request that cannot be read is taken for none. *)
VerificationLoad == Load("blank", FALSE, FALSE)

(* The form, or the page of the status, which has no control. *)
ShowForm(s) ==
    /\ s.last \in {"none", "rejected", "expired"} \/ s.user = "expired"
    /\ s.user # "verified"

VerificationOffers ==
    [s \in VerificationStatuses |-> IF ShowForm(s) THEN {"request"} ELSE {}]

(* What was sent is read again, and the user with it, but nobody waits. *)
VerificationActs == [request |-> Act("screen", "aside", "stay")]

VerificationScreen ==
    [Screen("Verification", "one", VerificationStatuses, FirstStandings, {},
            VerificationMoves, VerificationOffers, VerificationActs, VerificationLoad)
     EXCEPT !.blank = {Standing("pending", "none")}, !.roams = FALSE]

-----------------------------------------------------------------------------
\* The administrator.

(* AdminVerifications.jsx: the queue by tabs, dropped when a tab is chosen;  *)
(* the tab of those that expire soon lists some of the verified.             *)
VerificationQueueLoad == Load("empty", TRUE, FALSE)
VerificationQueueTabs ==
    LET In(states) == {s \in VerificationStatuses : s.last \in states}
    IN {In({"pending"}), In({"verified"}), In({"rejected"}), In({"verified", "pending", "rejected", "expired"})}

VerificationQueueScreen ==
    Screen("AdminVerifications", "list", VerificationStatuses, FirstStandings,
           VerificationQueueTabs, VerificationMoves,
           [s \in VerificationStatuses |-> {}], <<>>, VerificationQueueLoad)

(* AdminVerificationReview.jsx: one request and the decision on it. *)
ReviewLoad == Load("keep", FALSE, FALSE)
ReviewOffers ==
    [s \in VerificationStatuses |-> IF s.last = "pending" THEN {"verify", "reject"} ELSE {}]

(* The decision names the request of the page, and leaves the page. *)
ReviewActs ==
    [o \in {"verify", "reject"} |-> [Act("screen", "leave", "stay") EXCEPT !.on = "page"]]

ReviewScreen ==
    Screen("AdminVerificationReview", "one", VerificationStatuses,
           {s \in FirstStandings : s.last # "none"}, {},
           VerificationMoves, ReviewOffers, ReviewActs, ReviewLoad)

(* AdminLayout.jsx: the badges of the menu count what waits for a decision,  *)
(* every minute, at live events, and when a page asks for it.                *)
BadgesLoad == Load("keep", FALSE, TRUE)
BadgesScreen ==
    Screen("AdminLayout", "list", VerificationStatuses, FirstStandings,
           {{s \in VerificationStatuses : s.last = "pending"}}, VerificationMoves,
           [s \in VerificationStatuses |-> {}], <<>>, BadgesLoad)

VerificationCatalog ==
    <<VerificationScreen, VerificationQueueScreen, ReviewScreen, BadgesScreen>>
=============================================================================
