----------------------------- MODULE FriendScreens -----------------------------
(* Friends, public profiles and subscriptions to companies.                  *)
EXTENDS Controls

-----------------------------------------------------------------------------
\* Friendship of the user with another person.

FriendStatuses == {"none", "out", "in", "friends"}

(* The first four lines are the user's operations and the server's guards    *)
(* for them, the others the same operations of the other person.             *)
FriendMoves ==
    {<<"add", "none", "out">>, <<"cancel", "out", "none">>,
     <<"accept", "in", "friends">>, <<"reject", "in", "none">>,
     <<"remove", "friends", "none">>,
     <<"asked", "none", "in">>, <<"recalled", "in", "none">>,
     <<"agreed", "out", "friends">>, <<"declined", "out", "none">>,
     <<"removed", "friends", "none">>}

(* Friends.jsx: one read for all four lists; a failed one empties them.      *)
FriendsLoad == Load("empty", FALSE, FALSE)

(* A person of the list of friends is a link, an incoming request can be     *)
(* accepted or rejected, an outgoing one cancelled, anybody else added.      *)
FriendsOffers ==
    [none |-> {"add"}, out |-> {"cancel"}, in |-> {"accept", "reject"}, friends |-> {}]

(* Every operation goes through run: busy until the overview is read again.  *)
FriendsActs ==
    [o \in {"add", "accept", "reject", "cancel"} |-> Act("screen", "reload", "stay")]

FriendsScreen ==
    Screen("Friends", "list", FriendStatuses, FriendStatuses, {FriendStatuses},
           FriendMoves, FriendsOffers, FriendsActs, FriendsLoad)

-----------------------------------------------------------------------------
\* The status line of a public profile (PublicProfile.jsx).

(* The status belongs to the page and is read after the profile; the one of  *)
(* the profile visited before stays until the answer, or for ever when the   *)
(* read fails.                                                               *)
ProfileLoad == Load("keep", FALSE, FALSE)

ProfileOffers ==
    [none |-> {"add"}, out |-> {"cancel"}, in |-> {"accept", "reject"},
     friends |-> {"remove"}]

(* The two big buttons wait for busy, the entries of the menu do not; "add"  *)
(* and "remove" name the person of the page, the others the request that was *)
(* read.  The handler does not wait for the status to be read again.         *)
ProfileActs ==
    LET button == Act("screen", "aside", "stay")
        entry  == Act("takes", "aside", "stay")
    IN [add    |-> [button EXCEPT !.on = "page"], accept |-> button,
        remove |-> [entry EXCEPT !.on = "page"],
        reject |-> entry, cancel |-> entry]

ProfileScreen ==
    Screen("PublicProfile", "one", FriendStatuses, FriendStatuses, {},
           FriendMoves, ProfileOffers, ProfileActs, ProfileLoad)

-----------------------------------------------------------------------------
\* Subscription to a company: both operations are accepted again and again.

SubscriptionStatuses == {"on", "off"}

SubscriptionMoves ==
    {<<"subscribe", s, "on">> : s \in SubscriptionStatuses} \cup
    {<<"unsubscribe", s, "off">> : s \in SubscriptionStatuses}

SubscriptionOffers == [on |-> {"unsubscribe"}, off |-> {"subscribe"}]

(* Subscriptions.jsx lists what the user was subscribed to when it was read; *)
(* the toggle keeps the id of one busy card, and what was switched off.      *)
SubscriptionsLoad == Load("empty", FALSE, FALSE)
SubscriptionsActs ==
    [o \in {"subscribe", "unsubscribe"} |-> Act("row", "patch", "stay")]

SubscriptionsScreen ==
    Screen("Subscriptions", "list", SubscriptionStatuses, {"on"}, {{"on"}},
           SubscriptionMoves, SubscriptionOffers, SubscriptionsActs, SubscriptionsLoad)

(* The companies of a public profile: the handler turns over whatever the    *)
(* row shows by then, and no button waits for it.                            *)
CompaniesLoad == Load("empty", FALSE, FALSE)
CompaniesActs ==
    [o \in {"subscribe", "unsubscribe"} |-> Act("takes", "flip", "stay")]

CompaniesScreen ==
    [Screen("PublicProfile companies", "list", SubscriptionStatuses,
            SubscriptionStatuses, {SubscriptionStatuses}, SubscriptionMoves,
            SubscriptionOffers, CompaniesActs, CompaniesLoad)
     EXCEPT !.flips = [on |-> "off", off |-> "on"]]

FriendCatalog == <<FriendsScreen, ProfileScreen, SubscriptionsScreen, CompaniesScreen>>
=============================================================================
