---------------------------- MODULE SupportScreens ----------------------------
(* Tickets of support: the pages of their owner and of the administrator.    *)
EXTENDS Controls

(* A ticket not written yet is the form for it.  Of the thread only its      *)
(* length is kept, as far as it tells something said from nothing.           *)
TicketStates == {"open", "in_progress", "resolved", "closed"}
MaxSaid == 1
Ticket(is, said) == [is |-> is, said |-> said]
NoTicket == Ticket("none", 0)
Tickets == {Ticket(is, said) : is \in TicketStates, said \in 0..MaxSaid}
TicketStatuses == Tickets \cup {NoTicket}
FreshTickets == {NoTicket, Ticket("open", 0)}
AddedTo(t) == IF t.said < MaxSaid THEN t.said + 1 ELSE t.said

(* Nobody asks whether a ticket is open before writing to it; the first      *)
(* answer takes an open one into work; the owner's close is refused when     *)
(* somebody closed it before; the administrator sets any status at any time. *)
TicketMoves ==
    {<<"create", NoTicket, Ticket("open", 1)>>} \cup
    (UNION {{<<"create", t, t>>,
             <<"message", t, Ticket(t.is, AddedTo(t))>>,
             <<"note", t, Ticket(t.is, AddedTo(t))>>,
             <<"reply", t, Ticket(IF t.is = "open" THEN "in_progress" ELSE t.is, AddedTo(t))>>}
            : t \in Tickets}) \cup
    {<<is, t, Ticket(is, t.said)>> : is \in TicketStates, t \in Tickets} \cup
    {<<"close", t, Ticket("closed", t.said)>> : t \in {u \in Tickets : u.is # "closed"}}

-----------------------------------------------------------------------------
\* Support.jsx, the owner.

(* The list: when the page opens, every ten seconds of an open ticket, when  *)
(* the page becomes visible again and at every live message.                 *)
TicketsLoad == Load("empty", FALSE, TRUE)

TicketsOffers ==
    [t \in TicketStatuses |->
        CASE t = NoTicket                     -> {"create"}
          [] t.is \in {"open", "in_progress"} -> {"message", "close"}
          [] OTHER                            -> {}]

(* Sending waits for the thread and only asks for the list. *)
TicketsActs ==
    [message |-> Act("screen", "aside", "stay"),
     close   |-> Act("screen", "reload", "stay"),
     create  |-> Act("screen", "reload", "stay")]

TicketsScreen ==
    Screen("Support", "list", TicketStatuses, FreshTickets, {TicketStatuses},
           TicketMoves, TicketsOffers, TicketsActs, TicketsLoad)

(* The thread beside the list: the one of the ticket chosen before stays     *)
(* until the answer for this one.                                            *)
ThreadLoad == Load("empty", FALSE, TRUE)

ThreadScreen ==
    Screen("Support thread", "one", TicketStatuses, FreshTickets, {},
           TicketMoves, [t \in TicketStatuses |-> {}], <<>>, ThreadLoad)

-----------------------------------------------------------------------------
\* AdminSupport.jsx.

(* The queue, by tabs; a resolved ticket and a closed one are listed alike.  *)
QueueLoad == Load("empty", FALSE, TRUE)
QueueTabs ==
    LET In(states) == {t \in Tickets : t.is \in states}
    IN {In({"open"}), In({"in_progress"}), In({"resolved", "closed"}), In(TicketStates)}

QueueScreen ==
    Screen("AdminSupport queue", "list", TicketStatuses, FreshTickets, QueueTabs,
           TicketMoves, [t \in TicketStatuses |-> {}], <<>>, QueueLoad)

(* One ticket with its thread, dropped when another is opened. *)
AdminThreadLoad == Load("keep", TRUE, TRUE)

(* The answer box and the switch of the status, which leaves out the present *)
(* one.                                                                      *)
AdminThreadOffers ==
    [t \in TicketStatuses |->
        IF t = NoTicket THEN {} ELSE {"reply", "note"} \cup (TicketStates \ {t.is})]

(* The button waits for busy but Ctrl+Enter does not; the switch waits for   *)
(* nothing and swallows the error.                                           *)
AdminThreadActs ==
    [o \in {"reply", "note"} \cup TicketStates |->
        IF o \in TicketStates THEN Act("free", "reload", "again")
        ELSE Act("takes", "reload", "stay")]

AdminThreadScreen ==
    Screen("AdminSupport thread", "one", TicketStatuses, FreshTickets \ {NoTicket}, {},
           TicketMoves, AdminThreadOffers, AdminThreadActs, AdminThreadLoad)

SupportCatalog == <<TicketsScreen, ThreadScreen, QueueScreen, AdminThreadScreen>>
=============================================================================
