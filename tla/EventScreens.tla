----------------------------- MODULE EventScreens -----------------------------
(* Events: where a student goes, and what an organizer proposed.             *)
EXTENDS Controls

-----------------------------------------------------------------------------
\* A visitor of an event.

(* What the server keeps of the visitor, and what the ticket costs; an event *)
(* that is not published is open to nobody.                                  *)
Prices == {"free", "paid"}
Visit(is, price) == [is |-> is, price |-> price]
Visits == {Visit(is, price) : is \in {"none", "interested", "going"}, price \in Prices}
Shut == Visit("shut", "free")
VisitStatuses == Visits \cup {Shut}
FirstVisits == {Visit("none", "free"), Visit("going", "free"), Visit("interested", "paid")}

(* Going is an order and its confirmation, as often as it is asked for.      *)
(* "Perhaps" overwrites going; taking it back is refused to one who goes;    *)
(* staying away is accepted from everybody, published or not.                *)
VisitMoves ==
    (UNION {{<<"schedule", v, v>>, <<"confirm", v, Visit("going", v.price)>>,
             <<"perhaps", v, Visit("interested", v.price)>>,
             <<"leave", v, Visit("none", v.price)>>, <<"withdrawn", v, Shut>>}
            : v \in Visits}) \cup
    {<<"perhapsNot", v, Visit("none", v.price)>> : v \in {u \in Visits : u.is # "going"}}

(* EventDetail.jsx: the event, then its labels; a failure shows no event.    *)
EventLoad == Load("empty", FALSE, FALSE)

(* A ticket that was paid for is given back elsewhere. *)
EventOffers ==
    [v \in VisitStatuses |->
        CASE v.is = "none"           -> {"schedule", "perhaps"}
          [] v.is = "interested"     -> {"schedule", "perhapsNot"}
          [] v = Visit("going", "free") -> {"leave"}
          [] OTHER                   -> {}]

(* All through run: busy until the event is read again.  Going sends the     *)
(* confirmation of the order it created.                                     *)
EventActs ==
    LET run == Act("screen", "reload", "stay")
    IN [schedule |-> [run EXCEPT !.then = "confirm"], confirm |-> run,
        perhaps |-> run, perhapsNot |-> run, leave |-> run]

EventScreen ==
    Screen("EventDetail", "one", VisitStatuses, FirstVisits, {},
           VisitMoves, EventOffers, EventActs, EventLoad)

(* Events.jsx: the bill of all events; a free one can be gone to from there. *)
EventsLoad == Load("empty", FALSE, FALSE)
EventsOffers ==
    [v \in VisitStatuses |->
        IF v.is \in {"none", "interested"} /\ v.price = "free" THEN {"schedule"} ELSE {}]

(* The id of one event that is being booked. *)
EventsActs ==
    LET go == Act("row", "reload", "stay")
    IN [schedule |-> [go EXCEPT !.then = "confirm"], confirm |-> go]

EventsScreen ==
    Screen("Events", "list", VisitStatuses, FirstVisits, {Visits},
           VisitMoves, EventsOffers, EventsActs, EventsLoad)

-----------------------------------------------------------------------------
\* The organizer.

Proposals == {"draft", "pending_review", "published", "rejected"}
ProposalStatuses == Proposals \cup {"none"}

(* Only a draft is submitted; a moderator decides at any time.               *)
ProposalMoves ==
    {<<o, "none", "draft">> : o \in {"create", "compose"}} \cup
    {<<o, s, s>> : o \in {"create", "compose"}, s \in Proposals} \cup
    {<<"submit", "draft", "pending_review">>} \cup
    UNION {{<<"publish", s, "published">>, <<"reject", s, "rejected">>} : s \in Proposals}

(* EventForm.jsx: nothing is read, the form is that of a new event. *)
EventFormLoad == Load("keep", FALSE, FALSE)
EventFormOffers ==
    [s \in ProposalStatuses |-> IF s = "none" THEN {"create", "compose"} ELSE {}]

(* An event whose submission fails stays a draft, which the form does not    *)
(* know of.                                                                  *)
EventFormActs ==
    LET button == Act("screen", "leave", "stay")
    IN [create |-> button, submit |-> button, compose |-> [button EXCEPT !.then = "submit"]]

EventFormScreen ==
    [Screen("EventForm", "one", ProposalStatuses, {"none"}, {},
            ProposalMoves, EventFormOffers, EventFormActs, EventFormLoad)
     EXCEPT !.roams = FALSE]

(* The organizer's lists: MerchantEvents.jsx of a partner, and the panel of  *)
(* one's own events; their tabs sort the copy.                               *)
MerchantEventsLoad == Load("dead", FALSE, FALSE)
MyEventsLoad == Load("empty", FALSE, FALSE)
ProposalList(name, load) ==
    Screen(name, "list", ProposalStatuses, {"draft", "pending_review"}, {Proposals},
           ProposalMoves, [s \in ProposalStatuses |-> {}], <<>>, load)
MerchantEventsScreen == ProposalList("MerchantEvents", MerchantEventsLoad)
MyEventsScreen       == ProposalList("MyEventsPanel", MyEventsLoad)

EventCatalog ==
    <<EventScreen, EventsScreen, EventFormScreen, MerchantEventsScreen, MyEventsScreen>>
=============================================================================
