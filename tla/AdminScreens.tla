----------------------------- MODULE AdminScreens -----------------------------
(* The administrator: users, their orders, companies and tags.               *)
EXTENDS OrderScreens

-----------------------------------------------------------------------------
\* Users.

User(role, vip, active, student) ==
    [role |-> role, vip |-> vip, active |-> active, student |-> student]
Roles == {"student", "merchant"}
UserStatuses ==
    {User(role, vip, active, student) :
        role \in Roles, vip \in BOOLEAN, active \in BOOLEAN, student \in {"verified", "expired"}}
FirstUsers ==
    {User("student", FALSE, TRUE, "verified"), User("merchant", TRUE, FALSE, "expired")}

(* Every operation sets a column to the value it carries, whatever stood     *)
(* there; a reset ends a verification that is valid.                         *)
UserMoves ==
    UNION {{<<"student", u, [u EXCEPT !.role = "student"]>>,
            <<"merchant", u, [u EXCEPT !.role = "merchant"]>>,
            <<"vipOn", u, [u EXCEPT !.vip = TRUE]>>,
            <<"vipOff", u, [u EXCEPT !.vip = FALSE]>>,
            <<"block", u, [u EXCEPT !.active = FALSE]>>,
            <<"unblock", u, [u EXCEPT !.active = TRUE]>>,
            <<"resetVerif", u, [u EXCEPT !.student = "expired"]>>,
            <<"pickUni", u, u>>}
           : u \in UserStatuses}

(* AdminUsers.jsx: one page of one filter, dropped when another is chosen.   *)
UsersLoad == Load("empty", TRUE, FALSE)
UsersTabs ==
    {UserStatuses, {u \in UserStatuses : u.role = "student"},
     {u \in UserStatuses : u.role = "student" /\ u.student # "verified"},
     {u \in UserStatuses : u.role = "merchant"},
     {u \in UserStatuses : u.vip}, {u \in UserStatuses : ~u.active}}
UsersScreen ==
    Screen("AdminUsers", "list", UserStatuses, FirstUsers, UsersTabs, UserMoves,
           [u \in UserStatuses |-> {}], <<>>, UsersLoad)

(* AdminUserCard.jsx: a card that cannot be read again stays. *)
CardLoad == Load("keep", FALSE, FALSE)
CardOffers ==
    [u \in UserStatuses |->
        (Roles \ {u.role}) \cup {"pickUni"}
        \cup (IF u.vip THEN {"vipOff"} ELSE {"vipOn"})
        \cup (IF u.active THEN {"block"} ELSE {"unblock"})
        \cup (IF u.student = "verified" THEN {"resetVerif"} ELSE {})]

(* All of them through run; the list of universities does not wait for it.   *)
CardActs ==
    [o \in {"student", "merchant", "vipOn", "vipOff", "block", "unblock", "resetVerif", "pickUni"}
        |-> Act(IF o = "pickUni" THEN "takes" ELSE "screen", "reload", "stay")]
CardScreen ==
    Screen("AdminUserCard", "one", UserStatuses, FirstUsers, {},
           UserMoves, CardOffers, CardActs, CardLoad)

(* The orders on the card; the form of a refund keeps the order it was       *)
(* opened on.                                                                *)
CardOrdersOffers ==
    [s \in OrderStatuses |-> IF s \in {"paid", "completed"} THEN {"refund"} ELSE {}]
CardOrdersActs == [refund |-> Act("screen", "reload", "stay")]
CardOrdersScreen ==
    Screen("AdminUserCard orders", "list", OrderStatuses, {"created", "paid"}, {OrderStatuses},
           OrderMoves, CardOrdersOffers, CardOrdersActs, CardLoad)

-----------------------------------------------------------------------------
\* AdminCompanies.jsx: companies and tags, read together, under one lock.

CompaniesAndTagsLoad == Load("empty", FALSE, FALSE)

(* A row turned over sends the state it is to have. *)
CompanyStatuses == {"active", "inactive"}
CompanyMoves ==
    {<<"switchOn", s, "active">> : s \in CompanyStatuses} \cup
    {<<"switchOff", s, "inactive">> : s \in CompanyStatuses}
CompanyOffers == [active |-> {"switchOff"}, inactive |-> {"switchOn"}]
CompanyActs == [o \in {"switchOn", "switchOff"} |-> Act("screen", "reload", "stay")]
AllCompaniesScreen ==
    Screen("AdminCompanies", "list", CompanyStatuses, CompanyStatuses, {CompanyStatuses},
           CompanyMoves, CompanyOffers, CompanyActs, CompaniesAndTagsLoad)

(* A tag that does not exist is what can be typed into the field.  Approving *)
(* has no guard but that the tag exists; only a pending one is rejected.     *)
TagStatuses == {"none", "pending", "active"}
TagMoves ==
    {<<"addTag", s, "active">> : s \in TagStatuses} \cup
    {<<"approve", s, "active">> : s \in {"pending", "active"}} \cup
    {<<"reject", "pending", "none">>, <<"propose", "none", "pending">>}
TagOffers == [none |-> {"addTag"}, pending |-> {"approve", "reject"}, active |-> {}]
TagActs == [o \in {"addTag", "approve", "reject"} |-> Act("screen", "reload", "stay")]
TagsScreen ==
    Screen("AdminCompanies tags", "list", TagStatuses, TagStatuses, {TagStatuses},
           TagMoves, TagOffers, TagActs, CompaniesAndTagsLoad)

AdminCatalog ==
    <<UsersScreen, CardScreen, CardOrdersScreen, AllCompaniesScreen, TagsScreen>>
=============================================================================
