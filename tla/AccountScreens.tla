---------------------------- MODULE AccountScreens ----------------------------
(* What a user sees of his own: notifications, sessions, money.              *)
EXTENDS Controls

-----------------------------------------------------------------------------
\* Notifications.jsx, the marks: every notification is new until it is opened.

Marks == {"new", "read"}
MarkMoves == {<<"read", s, "read">> : s \in Marks}

(* A first page that cannot be read is an empty one. *)
NotificationsLoad == Load("empty", FALSE, FALSE)
MarkOffers == [new |-> {"read"}, read |-> {}]

(* Opening one, or answering the request it carries, marks it on the spot;   *)
(* whether the server heard of it nobody asks.                               *)
MarkActs == [read |-> [Act("free", "stay", "stay") EXCEPT !.early = TRUE]]
MarksScreen ==
    Screen("Notifications", "list", Marks, Marks, {Marks},
           MarkMoves, MarkOffers, MarkActs, NotificationsLoad)

-----------------------------------------------------------------------------
\* Notifications.jsx, the requests for friendship some of them carry.

(* The notification does not say what became of the request: the buttons     *)
(* stand there until one was pressed, and whatever the answer they go.       *)
Requests == {"asks", "settled"}
RequestMoves == {<<o, "asks", "settled">> : o \in {"accept", "reject"}}
RequestOffers ==
    [asks |-> {"accept", "reject"}, settled |-> {"accept", "reject"}, done |-> {}]

(* Every notification has a busy flag of its own. *)
RequestActs == [o \in {"accept", "reject"} |-> Act("own", "flip", "flip")]
RequestsScreen ==
    [Screen("Notifications requests", "list", Requests \cup {"done"}, Requests, {Requests},
            RequestMoves, RequestOffers, RequestActs, NotificationsLoad)
     EXCEPT !.flips = [s \in Requests \cup {"done"} |-> "done"],
            !.blind = {"accept", "reject"}]

-----------------------------------------------------------------------------
\* SettingsSecurity.jsx: the sessions of the user.

(* The session of this device has no button.  A session that is revoked is   *)
(* not listed, and can be revoked again.                                     *)
SessionStatuses == {"here", "other", "gone"}
SessionMoves ==
    {<<"revoke", s, "gone">> : s \in {"other", "gone"}} \cup {<<"login", "gone", "other">>}
SessionsLoad  == Load("empty", FALSE, FALSE)
SessionOffers == [here |-> {}, other |-> {"revoke"}, gone |-> {}]
SessionActs   == [revoke |-> Act("screen", "reload", "stay")]
SessionsScreen ==
    Screen("SettingsSecurity", "list", SessionStatuses, {"here", "other"},
           {{"here", "other"}}, SessionMoves, SessionOffers, SessionActs, SessionsLoad)

-----------------------------------------------------------------------------
\* Lists of money, which have no controls but those that choose a page.

(* An operation belongs to a month, to a kind or to a company, and does not  *)
(* change.                                                                   *)
Booked == {"this", "before"}
BookMoves == {<<"book", "none", "this">>}
Apart == {{"this"}, {"before"}}
Ledger(name, tabs, load) ==
    Screen(name, "list", Booked \cup {"none"}, Booked \cup {"none"}, tabs,
           BookMoves, [s \in Booked \cup {"none"} |-> {}], <<>>, load)

(* Wallet.jsx drops the month it shows for the one that was chosen;          *)
(* MerchantTransactions.jsx keeps it, and after one failed read shows        *)
(* nothing but the error; AdminAudit.jsx is read like the wallet.            *)
WalletLoad       == Load("empty", TRUE, FALSE)
TransactionsLoad == Load("dead", FALSE, FALSE)
AuditLoad        == Load("empty", TRUE, FALSE)
WalletScreen       == Ledger("Wallet", Apart, WalletLoad)
TransactionsScreen == Ledger("MerchantTransactions", Apart, TransactionsLoad)
AuditScreen        == Ledger("AdminAudit", Apart, AuditLoad)

(* Sums over a period, which contains the shorter ones.  MerchantDashboard   *)
(* gets rid of an error when another company is chosen, MerchantStatistics   *)
(* never; AdminDashboard shows the old period until the new one is there.    *)
Nested == {{"this"}, {"this", "before"}}
OverviewLoad   == Load("empty", TRUE, FALSE)
StatisticsLoad == Load("dead", TRUE, FALSE)
SummaryLoad    == Load("keep", FALSE, FALSE)
OverviewScreen   == Ledger("MerchantDashboard", Nested, OverviewLoad)
StatisticsScreen == Ledger("MerchantStatistics", Nested, StatisticsLoad)
SummaryScreen    == Ledger("AdminDashboard", Nested, SummaryLoad)

-----------------------------------------------------------------------------
\* SettingsProfile.jsx: the username, looked up while it is typed.

(* The page is the name in the field.  Typing another shows that it is being *)
(* looked up; only the timer is cleared, not a request that has left, so     *)
(* that the answer shown may be about the name before.  A lookup that fails  *)
(* says nothing, and lets the name be sent.  A name the user gave up again   *)
(* stays "mine": the server takes it back like a free one.                   *)
Names == {"free", "taken", "mine"}
NameStatuses == Names \cup {"unknown"}
NameMoves == {<<"save", "free", "mine">>, <<"save", "mine", "mine">>, <<"take", "free", "taken">>}
NamesLoad == Load("blank", TRUE, FALSE)
NameOffers ==
    [free |-> {"save"}, taken |-> {}, mine |-> {"save"}, unknown |-> {"save"}]

(* What is sent is the name in the field, whatever the answer was about. *)
NameActs == [save |-> [Act("screen", "patch", "stay") EXCEPT !.on = "page"]]
NamesScreen ==
    [Screen("SettingsProfile", "one", NameStatuses, {"free", "taken"}, {},
            NameMoves, NameOffers, NameActs, NamesLoad)
     EXCEPT !.blank = {"unknown"}]

AccountCatalog ==
    <<MarksScreen, RequestsScreen, SessionsScreen, WalletScreen, TransactionsScreen, AuditScreen,
      OverviewScreen, StatisticsScreen, SummaryScreen, NamesScreen>>
=============================================================================
