-------------------------------- MODULE Client --------------------------------
(* The tabs of a browser in which a user is signed in: the tokens they share *)
(* (api/client.js), who is signed in (AuthContext.jsx), and the live stream  *)
(* of notifications with the badge that counts them (NotificationContext.jsx)*)
(*                                                                           *)
(* The store is one for all tabs, everything else of the client is a tab's   *)
(* own and is lost when the page is loaded again.  All sessions are of one   *)
(* user.  A token is judged by the age it had when a request took it: a      *)
(* request is short beside the life of a token.                              *)
EXTENDS Integers

CONSTANTS
    Tabs,
    Sessions,      \* what a login makes at the server
    None,
    MaxCalls,      \* bound: requests of each tab under way at once
    Inboxes,       \* bound: the tabs whose stream and badge are followed
    MaxTroubles    \* bound: whatever nobody has to do, all together: to log in
                   \* or out, to ask, to revoke, to load a page again, time that
                   \* passes, requests that fail, notifications

ASSUME SessionsAssumption == Sessions # {} /\ None \notin Sessions
ASSUME BoundsAssumption ==
    /\ MaxCalls \in [Tabs -> Nat] /\ Inboxes \subseteq Tabs /\ MaxTroubles \in Nat

VARIABLES
    store,         \* localStorage: the access token, and the session of the refresh token
    server,        \* what the server thinks of each session
    unread,        \* notifications of the user the server holds unread
    tab,           \* what each tab keeps
    given,         \* history: what gave a session up, but for logging out
    troubles

vars == <<store, server, unread, tab, given, troubles>>

(* How long an access token has to live: over a minute, over half of one,    *)
(* less, nothing.                                                            *)
Ages == 0..3
Token(s, age) == [of |-> s, age |-> age]
NoToken == Token(None, 0)
Tokens == [of: Sessions, age: Ages] \cup {NoToken}
Empty == [access |-> NoToken, refresh |-> None]

Live(s) == s \in Sessions /\ server[s] = "live"

(* The middleware: a token that has not expired, of a session not revoked.   *)
(* That a session is alive it remembers for a while, also when it was        *)
(* revoked meanwhile, and believes when it cannot ask.                       *)
Verdicts(tok) ==
    {v \in {"ok", "refused"} :
        CASE tok.age = 0 \/ tok.of = None -> v = "refused"
          [] Live(tok.of) -> v = "ok"
          [] OTHER -> TRUE}

Kinds == {"me", "api", "count", "stream"}
Slots(t) == 1..MaxCalls[t]
FreeCall == [kind |-> "api", pc |-> "free", tok |-> NoToken, retried |-> FALSE, got |-> 0]
Call(kind, pc, tok, retried) ==
    [FreeCall EXCEPT !.kind = kind, !.pc = pc, !.tok = tok, !.retried = retried]

Renewal(s) == [of |-> s, pc |-> "out"]
Idle == [of |-> None, pc |-> "idle"]

NoStream == [tok |-> NoToken, pc |-> "none", pushed |-> 0]

(* A tab whose page was just loaded: it asks who is signed in if there is a  *)
(* token to ask with.                                                        *)
Loaded(t, st) ==
    [user |-> None, calls |-> [n \in Slots(t) |-> FreeCall], renewing |-> Idle,
     wants |-> IF st.access = NoToken THEN {} ELSE {"me"},
     es |-> NoStream, open |-> 0, up |-> FALSE, timer |-> FALSE, badge |-> 0]

(* A tab in which the user has been signed in for a while. *)
Opened(t, st) == [Loaded(t, st) EXCEPT !.user = st.refresh, !.wants = {}]

Trouble == troubles < MaxTroubles /\ troubles' = troubles + 1

ClientInit ==
    /\ LET s == CHOOSE s \in Sessions : TRUE
       IN store \in {Empty} \cup {[access |-> Token(s, age), refresh |-> s] : age \in Ages}
    /\ server = [s \in Sessions |-> IF s = store.refresh THEN "live" ELSE "none"]
    /\ unread = 0
    /\ tab = [t \in Tabs |-> IF t \in Inboxes THEN Loaded(t, store) ELSE Opened(t, store)]
    /\ given = {}
    /\ troubles = 0

First(t, n) ==
    /\ tab[t].calls[n].pc = "free"
    /\ \A m \in Slots(t) : m < n => tab[t].calls[m].pc # "free"
Freed(b, n) == [b EXCEPT !.calls[n] = FreeCall]

-----------------------------------------------------------------------------
\* Signing in and out, as the tab sees it.

(* The clean-up of the effect that holds the stream. *)
Unmounted(b) ==
    [b EXCEPT !.open = IF b.es = NoStream THEN @ ELSE @ - 1,
              !.es = NoStream, !.timer = FALSE]

SignedIn(t, b, s) ==
    [Unmounted(b) EXCEPT !.user = s,
                         !.wants = @ \cup IF t \in Inboxes THEN {"stream", "count"} ELSE {}]
SignedOut(b) ==
    IF b.user = None THEN b
    ELSE [Unmounted(b) EXCEPT !.user = None, !.badge = 0, !.up = FALSE,
                              !.wants = @ \ {"stream", "count"}]

-----------------------------------------------------------------------------
\* Requests and the token they carry.

(* One refresh for the whole tab: who needs a token waits for the same one. *)
Joined(b) == IF b.renewing = Idle THEN [b EXCEPT !.renewing = Renewal(store.refresh)] ELSE b

(* freshAccessToken: a token that has less than a minute is renewed first;   *)
(* the badge and the stream do without when there is none.                   *)
Aged(tok) == tok # NoToken /\ tok.age < 3 /\ store.refresh # None
Start(b, n, kind) ==
    LET tok == store.access
    IN CASE tok = NoToken /\ kind \in {"count", "stream"} -> b
         [] Aged(tok) -> Joined([b EXCEPT !.calls[n] = Call(kind, "renew", tok, FALSE)])
         [] OTHER -> [b EXCEPT !.calls[n] =
                        Call(kind, IF kind = "stream" THEN "ready" ELSE "out", tok, FALSE)]

(* What the code has decided to ask for: after the page was loaded, after    *)
(* the user signed in, after the stream was connected.                       *)
Ask(t, n, kind) ==
    /\ kind \in tab[t].wants /\ First(t, n)
    /\ tab' = [tab EXCEPT ![t] = Start([tab[t] EXCEPT !.wants = @ \ {kind}], n, kind)]
    /\ UNCHANGED <<store, server, unread, given, troubles>>

(* A page asks for something, or for the user again. *)
Press(t, n, kind) ==
    /\ Trouble
    /\ tab[t].user # None /\ First(t, n) /\ kind \in {"api", "me"}
    /\ tab' = [tab EXCEPT ![t] = Start(@, n, kind)]
    /\ UNCHANGED <<store, server, unread, given>>

Judged(c, verdict) ==
    [c EXCEPT !.pc = verdict, !.got = IF c.kind = "count" THEN unread ELSE 0]
Serve(t, n) ==
    /\ tab[t].calls[n].pc = "out"
    /\ \E verdict \in Verdicts(tab[t].calls[n].tok) :
         tab' = [tab EXCEPT ![t].calls[n] = Judged(tab[t].calls[n], verdict)]
    /\ UNCHANGED <<store, server, unread, given, troubles>>

Lose(t, n) ==
    /\ Trouble
    /\ tab[t].calls[n].pc = "out"
    /\ tab' = [tab EXCEPT ![t].calls[n].pc = "lost"]
    /\ UNCHANGED <<store, server, unread, given>>

Answered(t, n) ==
    LET c == tab[t].calls[n] b == Freed(tab[t], n)
    IN /\ c.pc = "ok"
       /\ tab' = [tab EXCEPT ![t] =
                    CASE c.kind = "me"    -> SignedIn(t, b, c.tok.of)
                      [] c.kind = "count" -> [b EXCEPT !.badge = c.got]
                      [] OTHER            -> b]
       /\ UNCHANGED <<store, server, unread, given, troubles>>

(* goLogin: the tokens go, and the page with everything in it. *)
GoLogin(t) ==
    /\ store' = Empty
    /\ given' = IF store.refresh = None THEN given
                ELSE given \cup {[by |-> "interceptor", session |-> store.refresh]}
    /\ tab' = [tab EXCEPT ![t] = Loaded(t, Empty)]

(* A request that was refused is sent once more, with a renewed token. *)
Refused(t, n) ==
    LET c == tab[t].calls[n]
    IN /\ c.pc = "refused"
       /\ \/ /\ c.kind = "count"
             /\ tab' = [tab EXCEPT ![t] = Freed(@, n)]
             /\ UNCHANGED <<store, given>>
          \/ /\ c.kind # "count" /\ ~c.retried /\ store.refresh # None
             /\ tab' = [tab EXCEPT ![t] = Joined([@ EXCEPT !.calls[n].pc = "again"])]
             /\ UNCHANGED <<store, given>>
          \/ /\ c.kind # "count" /\ (c.retried \/ store.refresh = None)
             /\ GoLogin(t)
       /\ UNCHANGED <<server, unread, troubles>>

(* No answer: of the question who is signed in it makes nobody, but keeps    *)
(* the tokens.                                                               *)
Failed(t, n) ==
    LET c == tab[t].calls[n] b == Freed(tab[t], n)
    IN /\ c.pc = "lost"
       /\ tab' = [tab EXCEPT ![t] = IF c.kind = "me" THEN SignedOut(b) ELSE b]
       /\ UNCHANGED <<store, server, unread, given, troubles>>

-----------------------------------------------------------------------------
\* The refresh.

ServeRenewal(t) ==
    /\ tab[t].renewing.pc = "out"
    /\ tab' = [tab EXCEPT ![t].renewing.pc = IF Live(tab[t].renewing.of) THEN "ok" ELSE "no"]
    /\ UNCHANGED <<store, server, unread, given, troubles>>

(* A server that cannot look a session up says that there is none. *)
MisjudgeRenewal(t) ==
    /\ Trouble
    /\ tab[t].renewing.pc = "out"
    /\ tab' = [tab EXCEPT ![t].renewing.pc = "no"]
    /\ given' = given \cup {[by |-> "server", session |-> tab[t].renewing.of]}
    /\ UNCHANGED <<store, server, unread>>

LoseRenewal(t) ==
    /\ Trouble
    /\ tab[t].renewing.pc = "out"
    /\ tab' = [tab EXCEPT ![t].renewing.pc = "lost"]
    /\ UNCHANGED <<store, server, unread, given>>

(* The token everybody who waited gets: the new one; or the one another tab  *)
(* has renewed meanwhile; or none, because the server said so; or none,      *)
(* because the server did not say anything.                                  *)
Renewed(r) ==
    CASE r.pc = "ok" -> Token(r.of, 3)
      [] r.pc # "ok" /\ store.access # NoToken /\ store.access.age >= 2 -> store.access
      [] OTHER -> NoToken

(* Mutant: a server that could not be asked has said no. *)
SilenceIsNo(r) == FALSE
Thrown(r) == r.pc = "lost" /\ Renewed(r) = NoToken

(* Mutant: who waited for a refresh is told only when there is a token. *)
ResumedWithToken(c, new) ==
    IF new = NoToken \/ c.pc \notin {"renew", "again"} THEN c
    ELSE Call(c.kind, IF c.kind = "stream" THEN "ready" ELSE "out", new, c.retried \/ c.pc = "again")

Resumed(c, new) ==
    CASE c.pc = "renew" ->
            [c EXCEPT !.pc = IF c.kind = "stream" THEN "ready" ELSE "out",
                      !.tok = IF new = NoToken THEN @ ELSE new]
      [] c.pc = "again" /\ new # NoToken ->
            Call(c.kind, IF Aged(new) THEN "renew" ELSE "out", new, TRUE)
      [] c.pc = "again" /\ new = NoToken -> FreeCall
      [] OTHER -> c

(* Those who would have sent a refused request again go to the login when    *)
(* there is no session any more; when the server could not be asked they     *)
(* hand on the refusal, and whoever asked for the user then signs him out.   *)
Settle(t) ==
    LET b == tab[t]
        new == Renewed(b.renewing)
        again == {n \in Slots(t) : b.calls[n].pc = "again"}
        calls == [n \in Slots(t) |-> Resumed(b.calls[n], new)]
        next == [b EXCEPT !.calls = calls,
                          !.renewing = IF \E n \in again : calls[n].pc = "renew"
                                       THEN Renewal(store.refresh) ELSE Idle]
    IN /\ b.renewing.pc \in {"ok", "no", "lost"}
       /\ \/ /\ new # NoToken \/ again = {}
             /\ store' = IF b.renewing.pc = "ok" THEN [store EXCEPT !.access = new] ELSE store
             /\ tab' = [tab EXCEPT ![t] = next]
             /\ UNCHANGED given
          \/ /\ new = NoToken /\ again # {} /\ ~Thrown(b.renewing)
             /\ GoLogin(t)
          \/ /\ Thrown(b.renewing) /\ again # {}
             /\ IF \E n \in again : b.calls[n].kind = "me"
                THEN /\ store' = Empty
                     /\ tab' = [tab EXCEPT ![t] = SignedOut(next)]
                     /\ given' = IF store.refresh = None THEN given
                                 ELSE given \cup {[by |-> "fetchUser", session |-> store.refresh]}
                ELSE /\ tab' = [tab EXCEPT ![t] = next]
                     /\ UNCHANGED <<store, given>>
       /\ UNCHANGED <<server, unread, troubles>>

-----------------------------------------------------------------------------
\* The live stream and the badge.

(* Mutant: whoever asked for the token gets the stream. *)
OpenedUnseen(t, n) ==
    LET c == tab[t].calls[n] b == Freed(tab[t], n)
    IN /\ c.pc = "ready"
       /\ tab' = [tab EXCEPT ![t] =
                    [b EXCEPT !.open = IF b.es = NoStream THEN @ + 1 ELSE @,
                              !.es = [tok |-> c.tok, pc |-> "opening", pushed |-> 0]]]
       /\ UNCHANGED <<store, server, unread, given, troubles>>

(* The stream is opened with a token in its address; whatever stream there   *)
(* was is closed.  Who signed out while the token was renewed gets none.     *)
Open(t, n) ==
    LET c == tab[t].calls[n] b == Freed(tab[t], n)
    IN /\ c.pc = "ready"
       /\ tab' = [tab EXCEPT ![t] =
                    IF b.user = None THEN b
                    ELSE [b EXCEPT !.open = IF b.es = NoStream THEN @ + 1 ELSE @,
                                   !.es = [tok |-> c.tok, pc |-> "opening", pushed |-> 0]]]
       /\ UNCHANGED <<store, server, unread, given, troubles>>

(* The server subscribes the stream before it says so. *)
Subscribe(t) ==
    /\ tab[t].es.pc = "opening" /\ "ok" \in Verdicts(tab[t].es.tok)
    /\ tab' = [tab EXCEPT ![t].es.pc = "joined"]
    /\ UNCHANGED <<store, server, unread, given, troubles>>

Connected(t) ==
    /\ tab[t].es.pc = "joined"
    /\ tab' = [tab EXCEPT ![t].es.pc = "up", ![t].up = TRUE, ![t].wants = @ \cup {"count"}]
    /\ UNCHANGED <<store, server, unread, given, troubles>>

Deliver(t) ==
    /\ tab[t].es.pc = "up" /\ tab[t].es.pushed > 0
    /\ tab' = [tab EXCEPT ![t].badge = @ + 1, ![t].es.pushed = @ - 1]
    /\ UNCHANGED <<store, server, unread, given, troubles>>

(* Refused, or broken off: it is tried again after a while. *)
Broken(t) ==
    /\ tab[t].es # NoStream
    /\ \/ /\ tab[t].es.pc = "opening" /\ "refused" \in Verdicts(tab[t].es.tok)
          /\ UNCHANGED troubles
       \/ Trouble
    /\ tab' = [tab EXCEPT ![t] = [Unmounted(@) EXCEPT !.up = FALSE, !.timer = TRUE]]
    /\ UNCHANGED <<store, server, unread, given>>

Reconnect(t, n) ==
    /\ tab[t].timer /\ First(t, n)
    /\ tab' = [tab EXCEPT ![t] = Start([@ EXCEPT !.timer = FALSE], n, "stream")]
    /\ UNCHANGED <<store, server, unread, given, troubles>>

(* Mutant: the badge is asked for again only beside a stream. *)
PolledBesideStream(t, n) ==
    /\ t \in Inboxes /\ tab[t].user # None /\ ~tab[t].up /\ First(t, n)
    /\ tab[t].es # NoStream
    /\ \A m \in Slots(t) : tab[t].calls[m].kind # "count"
    /\ tab' = [tab EXCEPT ![t] = Start(@, n, "count")]
    /\ UNCHANGED <<store, server, unread, given, troubles>>

(* Every fifteen seconds, while the stream is down.  Bound: the answer to    *)
(* the question before is waited for.                                        *)
Poll(t, n) ==
    /\ t \in Inboxes /\ tab[t].user # None /\ ~tab[t].up /\ First(t, n)
    /\ \A m \in Slots(t) : tab[t].calls[m].kind # "count"
    /\ tab' = [tab EXCEPT ![t] = Start(@, n, "count")]
    /\ UNCHANGED <<store, server, unread, given, troubles>>

(* The hub does not wait for a subscriber that is slow. *)
Notify(heard) ==
    /\ Trouble
    /\ unread' = unread + 1
    /\ \A t \in heard : tab[t].es.pc \in {"joined", "up"}
    /\ tab' = [t \in Tabs |-> IF t \in heard THEN [tab[t] EXCEPT !.es.pushed = @ + 1] ELSE tab[t]]
    /\ UNCHANGED <<store, server, given>>

(* Mutant: one that was read already is counted again. *)
MarkedAgain(t) ==
    /\ Trouble
    /\ t \in Inboxes /\ tab[t].user # None
    /\ unread' = unread - 1
    /\ tab' = [tab EXCEPT ![t].wants = @ \cup {"count"}]
    /\ UNCHANGED <<store, server, given>>

MarkRead(t) ==
    /\ Trouble
    /\ t \in Inboxes /\ tab[t].user # None /\ unread > 0
    /\ unread' = unread - 1
    /\ tab' = [tab EXCEPT ![t].wants = @ \cup {"count"}]
    /\ UNCHANGED <<store, server, given>>

-----------------------------------------------------------------------------
\* The user, the server and the clock.

(* Any session that was never used will do. *)
Unused == {s \in Sessions : server[s] = "none"}
Login(t) == \E s \in Sessions :
    /\ Trouble
    /\ tab[t].user = None /\ Unused # {} /\ s = CHOOSE u \in Unused : TRUE
    /\ server' = [server EXCEPT ![s] = "live"]
    /\ store' = [access |-> Token(s, 3), refresh |-> s]
    /\ tab' = [tab EXCEPT ![t].wants = @ \cup {"me"}]
    /\ UNCHANGED <<unread, given>>

(* The server is not told. *)
Logout(t) ==
    /\ Trouble
    /\ tab[t].user # None
    /\ store' = Empty
    /\ tab' = [tab EXCEPT ![t] = SignedOut(@)]
    /\ UNCHANGED <<server, unread, given>>

Reload(t) ==
    /\ Trouble
    /\ tab' = [tab EXCEPT ![t] = Loaded(t, store)]
    /\ UNCHANGED <<store, server, unread, given>>

Revoke(s) ==
    /\ Trouble
    /\ server[s] = "live"
    /\ server' = [server EXCEPT ![s] = "revoked"]
    /\ UNCHANGED <<store, unread, tab, given>>

GrowOld(age) ==
    /\ Trouble
    /\ age < store.access.age
    /\ store' = [store EXCEPT !.access.age = age]
    /\ UNCHANGED <<server, unread, tab, given>>

ClientNext ==
    \/ \E t \in Tabs :
         \/ \E n \in Slots(t) :
              \/ \E kind \in Kinds : Ask(t, n, kind) \/ Press(t, n, kind)
              \/ Serve(t, n) \/ Lose(t, n)
              \/ Answered(t, n) \/ Refused(t, n) \/ Failed(t, n)
              \/ Open(t, n) \/ Reconnect(t, n) \/ Poll(t, n)
         \/ ServeRenewal(t) \/ MisjudgeRenewal(t) \/ LoseRenewal(t) \/ Settle(t)
         \/ Subscribe(t) \/ Connected(t) \/ Deliver(t) \/ Broken(t)
         \/ MarkRead(t) \/ Login(t) \/ Logout(t) \/ Reload(t)
    \/ \E heard \in SUBSET Inboxes : Notify(heard)
    \/ \E s \in Sessions : Revoke(s)
    \/ \E age \in Ages : GrowOld(age)

(* Requests are answered or fail, handlers run on, timers fire.  The timer   *)
(* of the badge needs no place among the requests, so that it waits for one  *)
(* here must not keep it from firing.                                        *)
ClientFairness ==
    \A t \in Tabs :
        /\ WF_vars(ServeRenewal(t)) /\ WF_vars(Settle(t))
        /\ \A n \in Slots(t) :
             /\ WF_vars(Serve(t, n)) /\ WF_vars(Answered(t, n))
             /\ WF_vars(Refused(t, n)) /\ WF_vars(Failed(t, n)) /\ WF_vars(Open(t, n))
        /\ SF_vars(\E n \in Slots(t) : Poll(t, n))

ClientSpec == ClientInit /\ [][ClientNext]_vars /\ ClientFairness

-----------------------------------------------------------------------------
\* Properties.

ClientTypeOK ==
    /\ store \in [access: Tokens, refresh: Sessions \cup {None}]
    /\ server \in [Sessions -> {"none", "live", "revoked"}]
    /\ unread \in Nat
    /\ \A t \in Tabs :
         /\ tab[t].user \in Sessions \cup {None}
         /\ tab[t].wants \subseteq Kinds
         /\ tab[t].es.tok \in Tokens
         /\ tab[t].badge \in Nat /\ tab[t].es.pushed \in Nat /\ tab[t].open \in Nat
         /\ \A n \in Slots(t) : tab[t].calls[n].tok \in Tokens

(* The interceptors take a session from the store only when the server has   *)
(* ended one, or has said so: neither a token that grew old, nor two tabs    *)
(* that renew it at once, nor a network that fails, signs anybody out.       *)
LiveSessionKept ==
    (\E g \in given : g.by = "interceptor")
        => \/ \E s \in Sessions : server[s] = "revoked"
           \/ \E g \in given : g.by = "server"

(* Every request ends, also the ones that wait for a refresh somebody else   *)
(* has sent.                                                                 *)
EveryRequestEnds ==
    \A t \in Tabs : \A n \in Slots(t) :
        []<>(tab[t].calls[n].pc = "free")

(* A tab never holds a stream but the one it knows of, and none when nobody  *)
(* is signed in, whenever the token for it arrives.                          *)
StreamsAccounted ==
    \A t \in Tabs :
        /\ tab[t].open = IF tab[t].es = NoStream THEN 0 ELSE 1
        /\ tab[t].user = None => tab[t].es = NoStream

(* While the stream stays down the badge comes to the truth all the same, as *)
(* long as there is a session to ask with.                                   *)
Askable == store.access.of = store.refresh /\ Live(store.refresh)
PollingCatchesUp ==
    \A t \in Inboxes :
        <>[](tab[t].user # None /\ ~tab[t].up /\ Askable) => []<>(tab[t].badge = unread)
=============================================================================
