---------------------------- MODULE Client_proofs ----------------------------
(***************************************************************************)
(* That no tab is left with a stream nobody knows of, and that the         *)
(* interceptors sign nobody out whose session lives, for any number of     *)
(* tabs, sessions and requests.                                            *)
(*                                                                         *)
(* The argument for the second: every token anybody holds is of a session  *)
(* that was once live, and one a request is sent again with has at least   *)
(* half a minute left; so if the server refuses it, the session is         *)
(* revoked.  And a refresh that was answered with "no" was answered so     *)
(* because the session is revoked, or because the server could not tell.   *)
(***************************************************************************)
EXTENDS Client, TLAPS

Statuses == {"none", "live", "revoked"}
CallPcs == {"free", "out", "ok", "refused", "lost", "renew", "again", "ready"}
CallType == [kind: Kinds, pc: CallPcs, tok: Tokens, retried: BOOLEAN, got: Nat]
RenewalType == [of: Sessions \cup {None}, pc: {"idle", "out", "ok", "no", "lost"}]
StreamType == [tok: Tokens, pc: {"none", "opening", "joined", "up"}, pushed: Nat]
TabType(t) ==
  [user: Sessions \cup {None}, calls: [Slots(t) -> CallType], renewing: RenewalType,
   wants: SUBSET Kinds, es: StreamType, open: Nat, up: BOOLEAN, timer: BOOLEAN, badge: Nat]
StoreType == [access: Tokens, refresh: Sessions \cup {None}]

\* What is known of sessions and tokens when the server thinks srv of the
\* sessions; mis says that it has once answered "no" without knowing.
Used(s, srv) == s \in Sessions /\ srv[s] # "none"
Known(tok, srv) == tok = NoToken \/ Used(tok.of, srv)
StoreKnown(st, srv) == Known(st.access, srv) /\ (st.refresh = None \/ Used(st.refresh, srv))
CallKnown(c, srv) ==
  /\ Known(c.tok, srv)
  /\ c.retried => c.tok # NoToken /\ c.tok.age >= 2
  /\ c.retried /\ c.pc = "refused" => srv[c.tok.of] = "revoked"
RenewalKnown(r, srv, mis) ==
  r = Idle \/ (Used(r.of, srv) /\ (r.pc = "no" => srv[r.of] = "revoked" \/ mis))

OneStream(b) ==
  /\ b.open = IF b.es = NoStream THEN 0 ELSE 1
  /\ b.user = None => b.es = NoStream

Good(b, t, srv, mis) ==
  /\ b \in TabType(t)
  /\ OneStream(b)
  /\ \A n \in Slots(t) : CallKnown(b.calls[n], srv)
  /\ RenewalKnown(b.renewing, srv, mis)

Misjudged == \E g \in given : g.by = "server"
Excused == (\E s \in Sessions : server[s] = "revoked") \/ Misjudged

ClientInv ==
  /\ store \in StoreType
  /\ StoreKnown(store, server)
  /\ server \in [Sessions -> Statuses]
  /\ unread \in Nat
  /\ tab = [t \in Tabs |-> tab[t]]
  /\ \A t \in Tabs : Good(tab[t], t, server, Misjudged)
  /\ LiveSessionKept
-----------------------------------------------------------------------------
(* What the steps of a tab make of it.                                     *)

LEMMA TokenFacts ==
  /\ NoToken \in Tokens /\ NoToken.age = 0 /\ NoToken.of = None
  /\ \A s \in Sessions, age \in Ages : Token(s, age) \in Tokens /\ Token(s, age) # NoToken
  /\ \A tok \in Tokens : tok.age \in Ages /\ (tok = NoToken \/ tok.of \in Sessions)
  /\ \A tok \in Tokens : tok.of \in Sessions \cup {None}
<1>1. NoToken = [of |-> None, age |-> 0] /\ 0 \in Ages
  BY DEF NoToken, Token, Ages
<1>2. ASSUME NEW s \in Sessions, NEW age \in Ages
      PROVE  Token(s, age) \in Tokens /\ Token(s, age) # NoToken
  <2>1. Token(s, age).of # None /\ NoToken.of = None
    BY <1>1, SessionsAssumption DEF Token
  <2> QED
    BY <2>1 DEF Token, Tokens
<1>3. ASSUME NEW tok \in Tokens
      PROVE  tok.age \in Ages /\ (tok = NoToken \/ tok.of \in Sessions)
  BY <1>1 DEF Tokens
<1>4. NoToken \in Tokens
  BY DEF Tokens
<1> QED
  BY <1>1, <1>2, <1>3, <1>4

LEMMA CallFacts ==
  /\ FreeCall \in CallType
  /\ \A srv : CallKnown(FreeCall, srv)
  /\ \A kind \in Kinds, p \in CallPcs, tok \in Tokens, retried \in BOOLEAN :
       /\ Call(kind, p, tok, retried) \in CallType
       /\ Call(kind, p, tok, retried).tok = tok
       /\ Call(kind, p, tok, retried).pc = p
       /\ Call(kind, p, tok, retried).retried = retried
<1>1. FreeCall \in CallType
  BY TokenFacts DEF FreeCall, CallType, CallPcs, Kinds
<1>2. ASSUME NEW srv PROVE CallKnown(FreeCall, srv)
  BY DEF FreeCall, CallKnown, Known
<1>3. ASSUME NEW kind \in Kinds, NEW p \in CallPcs, NEW tok \in Tokens, NEW retried \in BOOLEAN
      PROVE  Call(kind, p, tok, retried) \in CallType
  BY <1>1, <1>3 DEF Call, CallType
<1>4. ASSUME NEW kind \in Kinds, NEW p \in CallPcs, NEW tok \in Tokens, NEW retried \in BOOLEAN
      PROVE  /\ Call(kind, p, tok, retried).tok = tok
             /\ Call(kind, p, tok, retried).pc = p
             /\ Call(kind, p, tok, retried).retried = retried
  BY <1>1, <1>4 DEF Call, CallType
<1> QED
  BY <1>1, <1>2, <1>3, <1>4

LEMMA NothingFacts ==
  Idle \in RenewalType /\ NoStream \in StreamType
<1>1. NoToken \in Tokens
  BY TokenFacts
<1> QED
  BY <1>1 DEF Idle, RenewalType, NoStream, StreamType

\* A request that changes, and nothing else of the tab.
LEMMA CallGood ==
  ASSUME NEW t \in Tabs, NEW srv, NEW mis, NEW b, Good(b, t, srv, mis), NEW n \in Slots(t),
         NEW c \in CallType, CallKnown(c, srv)
  PROVE  Good([b EXCEPT !.calls[n] = c], t, srv, mis)
BY DEF Good, TabType, OneStream

LEMMA FreedGood ==
  ASSUME NEW t \in Tabs, NEW srv, NEW mis, NEW b, Good(b, t, srv, mis), NEW n \in Slots(t)
  PROVE  Good(Freed(b, n), t, srv, mis)
BY CallGood, CallFacts DEF Freed

\* A step that leaves the requests and the refresh alone.
LEMMA ViewGood ==
  ASSUME NEW t \in Tabs, NEW srv, NEW mis, NEW b, Good(b, t, srv, mis),
         NEW b2 \in TabType(t), OneStream(b2), b2.calls = b.calls, b2.renewing = b.renewing
  PROVE  Good(b2, t, srv, mis)
BY DEF Good

LEMMA UnmountedGood ==
  ASSUME NEW t \in Tabs, NEW srv, NEW mis, NEW b, Good(b, t, srv, mis)
  PROVE  /\ Good(Unmounted(b), t, srv, mis)
         /\ Unmounted(b).es = NoStream /\ Unmounted(b).open = 0
<1>1. b \in TabType(t) /\ OneStream(b)
  BY DEF Good
<1>2. (IF b.es = NoStream THEN b.open ELSE b.open - 1) = 0
  BY <1>1 DEF TabType, OneStream
<1> DEFINE u == [b EXCEPT !.open = 0, !.es = NoStream, !.timer = FALSE]
<1>3. Unmounted(b) = u
  BY <1>1, <1>2 DEF TabType, Unmounted
<1>4. u \in TabType(t)
  BY <1>1, NothingFacts DEF TabType
<1>5. u.es = NoStream /\ u.open = 0 /\ u.calls = b.calls /\ u.renewing = b.renewing
  BY <1>1 DEF TabType
<1>6. Good(u, t, srv, mis)
  BY <1>4, <1>5, ViewGood DEF OneStream
<1> QED
  BY <1>3, <1>5, <1>6

LEMMA SignedInGood ==
  ASSUME NEW t \in Tabs, NEW srv, NEW mis, NEW b, Good(b, t, srv, mis),
         NEW s \in Sessions \cup {None}
  PROVE  Good(SignedIn(t, b, s), t, srv, mis)
<1> DEFINE m == Unmounted(b)
           wants == m.wants \cup IF t \in Inboxes THEN {"stream", "count"} ELSE {}
<1>1. /\ m \in TabType(t) /\ Good(m, t, srv, mis)
      /\ m.es = NoStream /\ m.open = 0
  BY UnmountedGood DEF Good
<1>2. wants \in SUBSET Kinds
  BY <1>1 DEF TabType, Kinds
<1>3. SignedIn(t, b, s) = [m EXCEPT !.user = s, !.wants = wants]
  BY <1>1 DEF SignedIn, TabType
<1> HIDE DEF m, wants
<1>4. SignedIn(t, b, s) \in TabType(t)
  BY <1>1, <1>2, <1>3 DEF TabType
<1>5. /\ SignedIn(t, b, s).es = NoStream /\ SignedIn(t, b, s).open = 0
      /\ SignedIn(t, b, s).calls = m.calls /\ SignedIn(t, b, s).renewing = m.renewing
  BY <1>1, <1>3 DEF TabType
<1> QED
  BY <1>1, <1>4, <1>5, ViewGood DEF OneStream

LEMMA SignedOutGood ==
  ASSUME NEW t \in Tabs, NEW srv, NEW mis, NEW b, Good(b, t, srv, mis)
  PROVE  Good(SignedOut(b), t, srv, mis)
<1> DEFINE m == Unmounted(b)
           wants == m.wants \ {"stream", "count"}
           out == [m EXCEPT !.user = None, !.badge = 0, !.up = FALSE, !.wants = wants]
<1>1. /\ m \in TabType(t) /\ Good(m, t, srv, mis)
      /\ m.es = NoStream /\ m.open = 0
  BY UnmountedGood DEF Good
<1>2. wants \in SUBSET Kinds
  BY <1>1 DEF TabType
<1>3. b.user # None => SignedOut(b) = out
  BY <1>1 DEF SignedOut, TabType
<1> HIDE DEF m, wants
<1>4. out \in TabType(t)
  BY <1>1, <1>2 DEF TabType
<1>5. out.es = NoStream /\ out.open = 0 /\ out.calls = m.calls /\ out.renewing = m.renewing
  BY <1>1 DEF TabType
<1>6. Good(out, t, srv, mis)
  BY <1>1, <1>4, <1>5, ViewGood DEF OneStream
<1> QED
  BY <1>3, <1>6 DEF SignedOut

LEMMA WantsGood ==
  ASSUME NEW t \in Tabs, NEW srv, NEW mis, NEW b, Good(b, t, srv, mis), NEW wants \in SUBSET Kinds
  PROVE  Good([b EXCEPT !.wants = wants], t, srv, mis)
BY DEF Good, TabType, OneStream

LEMMA RenewalGood ==
  ASSUME NEW t \in Tabs, NEW srv, NEW mis, NEW b, Good(b, t, srv, mis),
         NEW r \in RenewalType, RenewalKnown(r, srv, mis)
  PROVE  Good([b EXCEPT !.renewing = r], t, srv, mis)
BY DEF Good, TabType, OneStream

LEMMA JoinedGood ==
  ASSUME NEW t \in Tabs, NEW srv, NEW mis, NEW b, Good(b, t, srv, mis),
         store \in StoreType, StoreKnown(store, srv), store.refresh # None
  PROVE  Good(Joined(b), t, srv, mis)
<1>1. Renewal(store.refresh) \in RenewalType /\ RenewalKnown(Renewal(store.refresh), srv, mis)
  BY DEF StoreKnown, StoreType, Renewal, RenewalType, RenewalKnown, Used
<1> QED
  BY <1>1, RenewalGood DEF Joined

LEMMA StartGood ==
  ASSUME NEW t \in Tabs, NEW srv, NEW mis, NEW b, Good(b, t, srv, mis), NEW n \in Slots(t),
         NEW kind \in Kinds, store \in StoreType, StoreKnown(store, srv)
  PROVE  Good(Start(b, n, kind), t, srv, mis)
<1>1. ASSUME NEW p \in CallPcs
      PROVE  Good([b EXCEPT !.calls[n] = Call(kind, p, store.access, FALSE)], t, srv, mis)
  <2> DEFINE c == Call(kind, p, store.access, FALSE)
  <2>1. store.access \in Tokens /\ Known(store.access, srv)
    BY DEF StoreType, StoreKnown
  <2>2. FreeCall \in CallType
    BY CallFacts
  <2>3. c \in CallType /\ c.tok = store.access /\ c.retried = FALSE
    BY <1>1, <2>1, <2>2 DEF Call, CallType
  <2> HIDE DEF c
  <2>4. CallKnown(c, srv)
    BY <2>1, <2>3 DEF CallKnown
  <2>5. Good([b EXCEPT !.calls[n] = c], t, srv, mis)
    BY <2>3, <2>4, CallGood
  <2> QED
    BY <2>5 DEF c
<1>2. Aged(store.access) => store.refresh # None
  BY DEF Aged
<1>3. "renew" \in CallPcs /\ "ready" \in CallPcs /\ "out" \in CallPcs
  BY DEF CallPcs
<1> QED
  BY <1>1, <1>2, <1>3, JoinedGood DEF Start

LEMMA LoadedGood ==
  ASSUME NEW t \in Tabs, NEW srv, NEW mis, NEW st
  PROVE  Good(Loaded(t, st), t, srv, mis)
<1>1. RenewalKnown(Idle, srv, mis) /\ {} \in SUBSET Kinds /\ {"me"} \in SUBSET Kinds
  BY DEF RenewalKnown, Kinds
<1> QED
  BY <1>1, CallFacts, NothingFacts DEF Loaded, Good, TabType, OneStream

LEMMA ResumedGood ==
  ASSUME NEW srv, NEW c \in CallType, CallKnown(c, srv), NEW new \in Tokens, Known(new, srv),
         new # NoToken => new.age >= 2
  PROVE  Resumed(c, new) \in CallType /\ CallKnown(Resumed(c, new), srv)
<1>1. /\ c.kind \in Kinds /\ TRUE \in BOOLEAN
      /\ "renew" \in CallPcs /\ "ready" \in CallPcs /\ "out" \in CallPcs
  BY DEF CallType, CallPcs
<1>2. CASE c.pc = "renew"
  <2> DEFINE p == IF c.kind = "stream" THEN "ready" ELSE "out"
             tok == IF new = NoToken THEN c.tok ELSE new
             d == [c EXCEPT !.pc = p, !.tok = tok]
  <2>1. Resumed(c, new) = d
    BY <1>2 DEF Resumed, CallType
  <2>2. p \in CallPcs /\ p # "refused" /\ tok \in Tokens
    BY <1>1 DEF CallType
  <2>3. Known(tok, srv) /\ (c.retried => tok # NoToken /\ tok.age >= 2)
    BY DEF CallKnown
  <2> HIDE DEF p, tok
  <2>4. d \in CallType /\ d.tok = tok /\ d.pc = p /\ d.retried = c.retried
    BY <2>2 DEF CallType
  <2> QED
    BY <2>1, <2>2, <2>3, <2>4 DEF CallKnown
<1>3. CASE c.pc = "again" /\ new # NoToken
  <2>1. ASSUME NEW p \in CallPcs, p # "refused"
        PROVE  Call(c.kind, p, new, TRUE) \in CallType /\ CallKnown(Call(c.kind, p, new, TRUE), srv)
    <3> DEFINE d == Call(c.kind, p, new, TRUE)
    <3>1. FreeCall \in CallType
      BY CallFacts
    <3>2. d \in CallType /\ d.tok = new /\ d.pc = p
      BY <1>1, <2>1, <3>1 DEF Call, CallType
    <3> HIDE DEF d
    <3>3. CallKnown(d, srv)
      BY <1>3, <2>1, <3>2 DEF CallKnown
    <3> QED
      BY <3>2, <3>3 DEF d
  <2> QED
    BY <1>1, <1>3, <2>1 DEF Resumed
<1>4. CASE c.pc = "again" /\ new = NoToken
  BY <1>4, CallFacts DEF Resumed
<1>5. CASE c.pc \notin {"renew", "again"}
  BY <1>5 DEF Resumed
<1> QED
  BY <1>2, <1>3, <1>4, <1>5
-----------------------------------------------------------------------------
(* What a step makes of the invariant.                                     *)

\* Sessions only come to life and are revoked.
Later(srv, srv2) ==
  \A s \in Sessions :
    /\ srv[s] # "none" => srv2[s] # "none"
    /\ srv[s] = "revoked" => srv2[s] = "revoked"

LEMMA GoodLater ==
  ASSUME NEW t \in Tabs, NEW srv, NEW mis, NEW b, Good(b, t, srv, mis),
         NEW srv2, NEW mis2, Later(srv, srv2), mis => mis2
  PROVE  Good(b, t, srv2, mis2)
<1>1. \A n \in Slots(t) : b.calls[n] \in CallType
  BY DEF Good, TabType
<1>2. ASSUME NEW c \in CallType, CallKnown(c, srv)
      PROVE  CallKnown(c, srv2)
  <2>1. c.tok \in Tokens /\ (c.tok = NoToken \/ c.tok.of \in Sessions)
    BY TokenFacts DEF CallType
  <2> QED
    BY <1>2, <2>1 DEF CallKnown, Known, Used, Later
<1>3. RenewalKnown(b.renewing, srv2, mis2)
  BY DEF Good, RenewalKnown, Used, Later
<1> QED
  BY <1>1, <1>2, <1>3 DEF Good

\* A step of one tab.
LEMMA TabKept ==
  ASSUME ClientInv, NEW t \in Tabs, NEW b, tab' = [tab EXCEPT ![t] = b],
         Good(b, t, server', Misjudged'),
         store' \in StoreType, StoreKnown(store', server'),
         server' \in [Sessions -> Statuses], Later(server, server'),
         unread' \in Nat, given \subseteq given',
         \A g \in given' \ given : g.by = "interceptor" => Excused
  PROVE  ClientInv'
<1>1. Misjudged => Misjudged'
  BY DEF Misjudged
<1>2. \A s \in Tabs : Good(tab[s], s, server, Misjudged)
  BY DEF ClientInv
<1>3. tab = [s \in Tabs |-> tab[s]]
  BY DEF ClientInv
<1>4. \A s \in Tabs : Good(tab[s], s, server', Misjudged')
  BY <1>1, <1>2, GoodLater
<1>5. \A s \in Tabs : tab'[s] = IF s = t THEN b ELSE tab[s]
  BY <1>3
<1>6. \A s \in Tabs : Good(tab'[s], s, server', Misjudged')
  BY <1>4, <1>5
<1>7. tab' = [s \in Tabs |-> tab'[s]]
  BY <1>3
<1>8. LiveSessionKept'
  <2>1. Excused => Excused'
    BY <1>1 DEF Excused, Later
  <2>2. (\E g \in given : g.by = "interceptor") => Excused
    BY DEF ClientInv, LiveSessionKept, Excused, Misjudged
  <2>3. (\E g \in given' : g.by = "interceptor") => Excused'
    BY <2>1, <2>2
  <2> QED
    BY <2>3 DEF LiveSessionKept, Excused, Misjudged
<1> QED
  BY <1>6, <1>7, <1>8 DEF ClientInv

\* A step of one tab that touches nothing else.
LEMMA OwnKept ==
  ASSUME ClientInv, NEW t \in Tabs, NEW b, tab' = [tab EXCEPT ![t] = b],
         Good(b, t, server, Misjudged), UNCHANGED <<store, server, given>>, unread' \in Nat
  PROVE  ClientInv'
<1>1. Misjudged' = Misjudged
  BY DEF Misjudged
<1> QED
  BY <1>1, TabKept DEF ClientInv, Later
-----------------------------------------------------------------------------
(* Every step keeps the invariant.                                         *)

LEMMA InvFacts ==
  ASSUME ClientInv, NEW t \in Tabs
  PROVE  /\ Good(tab[t], t, server, Misjudged)
         /\ tab[t] \in TabType(t)
         /\ \A n \in Slots(t) : tab[t].calls[n] \in CallType /\ CallKnown(tab[t].calls[n], server)
         /\ store \in StoreType /\ StoreKnown(store, server)
BY DEF ClientInv, Good, TabType

\* Requests that are made, served, lost and answered.
LEMMA RequestKept ==
  ASSUME ClientInv, NEW t \in Tabs, NEW n \in Slots(t),
         \/ \E kind \in Kinds : Ask(t, n, kind) \/ Press(t, n, kind)
         \/ Serve(t, n) \/ Lose(t, n) \/ Answered(t, n) \/ Failed(t, n)
         \/ Reconnect(t, n) \/ Poll(t, n)
  PROVE  ClientInv'
<1> DEFINE b == tab[t]
           c == tab[t].calls[n]
           new(d) == [b EXCEPT !.calls[n] = d]
<1>1. /\ Good(b, t, server, Misjudged) /\ b \in TabType(t)
      /\ c \in CallType /\ CallKnown(c, server)
      /\ store \in StoreType /\ StoreKnown(store, server) /\ unread \in Nat
  BY InvFacts DEF ClientInv
<1>2. Good(Freed(b, n), t, server, Misjudged)
  BY <1>1, FreedGood
<1>3. ASSUME NEW kind \in Kinds, Ask(t, n, kind)
      PROVE  ClientInv'
  <2> DEFINE a == [b EXCEPT !.wants = b.wants \ {kind}]
  <2>1. Good(a, t, server, Misjudged)
    BY <1>1, WantsGood DEF TabType
  <2>2. tab' = [tab EXCEPT ![t] = Start(a, n, kind)]
    BY <1>3 DEF Ask
  <2> HIDE DEF a
  <2>3. Good(Start(a, n, kind), t, server, Misjudged)
    BY <1>1, <2>1, StartGood
  <2> QED
    BY <1>1, <1>3, <2>2, <2>3, OwnKept DEF Ask
<1>4. ASSUME NEW kind \in Kinds, Press(t, n, kind)
      PROVE  ClientInv'
  BY <1>1, <1>4, StartGood, OwnKept DEF Press
<1>5. ASSUME Serve(t, n)
      PROVE  ClientInv'
  <2>0. PICK p \in Verdicts(c.tok) :
           tab' = [tab EXCEPT ![t].calls[n] = Judged(tab[t].calls[n], p)]
    BY <1>5 DEF Serve
  <2> DEFINE got == IF c.kind = "count" THEN unread ELSE 0
             d == [c EXCEPT !.pc = p, !.got = got]
  <2>1. p \in CallPcs /\ got \in Nat
    BY <1>1 DEF CallPcs, Verdicts
  <2>2. c.retried /\ p = "refused" => server[c.tok.of] = "revoked"
    <3>1. SUFFICES ASSUME c.retried, p = "refused" PROVE server[c.tok.of] = "revoked"
      OBVIOUS
    <3>2. /\ c.tok # NoToken /\ c.tok.age >= 2
          /\ c.tok.of \in Sessions /\ server[c.tok.of] # "none"
      BY <1>1, <3>1 DEF CallKnown, Known, Used
    <3>3. server[c.tok.of] \in Statuses /\ c.tok.age \in Ages /\ c.tok.of # None
      BY <1>1, <3>2, TokenFacts, SessionsAssumption DEF ClientInv, CallType
    <3>4. ~Live(c.tok.of)
      BY <3>1, <3>2, <3>3 DEF Verdicts, Ages
    <3> QED
      BY <3>2, <3>3, <3>4 DEF Live, Statuses
  <2>3. tab' = [tab EXCEPT ![t] = new(d)]
    BY <1>1, <2>0 DEF Judged, TabType, CallType
  <2> HIDE DEF got
  <2>4. d \in CallType /\ d.pc = p /\ d.tok = c.tok /\ d.retried = c.retried
    BY <1>1, <2>1 DEF CallType
  <2>5. CallKnown(d, server)
    BY <1>1, <2>2, <2>4 DEF CallKnown
  <2>6. Good(new(d), t, server, Misjudged)
    BY <1>1, <2>4, <2>5, CallGood
  <2> QED
    BY <1>1, <1>5, <2>3, <2>6, OwnKept DEF Serve
<1>6. ASSUME Lose(t, n)
      PROVE  ClientInv'
  <2> DEFINE d == [c EXCEPT !.pc = "lost"]
  <2>1. tab' = [tab EXCEPT ![t] = new(d)]
    BY <1>1, <1>6 DEF Lose, TabType, CallType
  <2>2. d \in CallType /\ d.pc = "lost" /\ d.tok = c.tok /\ d.retried = c.retried
    BY <1>1 DEF CallType, CallPcs
  <2>3. CallKnown(d, server)
    BY <1>1, <2>2 DEF CallKnown
  <2>4. Good(new(d), t, server, Misjudged)
    BY <1>1, <2>2, <2>3, CallGood
  <2> QED
    BY <1>1, <1>6, <2>1, <2>4, OwnKept DEF Lose
<1>7. ASSUME Answered(t, n)
      PROVE  ClientInv'
  <2> DEFINE f == Freed(b, n)
  <2>1. c.tok.of \in Sessions \cup {None} /\ c.got \in Nat
    BY <1>1, TokenFacts DEF CallType
  <2>2. Good(SignedIn(t, f, c.tok.of), t, server, Misjudged)
    BY <1>2, <2>1, SignedInGood
  <2> DEFINE g == [f EXCEPT !.badge = c.got]
  <2>3. f \in TabType(t) /\ OneStream(f)
    BY <1>2 DEF Good
  <2> HIDE DEF f
  <2>4. g \in TabType(t) /\ OneStream(g) /\ g.calls = f.calls /\ g.renewing = f.renewing
    BY <2>1, <2>3 DEF TabType, OneStream
  <2>5. Good(g, t, server, Misjudged)
    BY <1>2, <2>4, ViewGood DEF f
  <2>6. \E x \in {SignedIn(t, f, c.tok.of), g, f} : tab' = [tab EXCEPT ![t] = x]
    BY <1>7 DEF Answered, f
  <2> QED
    BY <1>1, <1>2, <1>7, <2>2, <2>5, <2>6, OwnKept DEF Answered, f
<1>8. ASSUME Failed(t, n)
      PROVE  ClientInv'
  BY <1>1, <1>2, <1>8, SignedOutGood, OwnKept DEF Failed
<1>9. ASSUME Reconnect(t, n)
      PROVE  ClientInv'
  <2> DEFINE a == [b EXCEPT !.timer = FALSE]
  <2>1. a \in TabType(t) /\ OneStream(a) /\ a.calls = b.calls /\ a.renewing = b.renewing
    BY <1>1 DEF TabType, Good, OneStream
  <2>2. Good(a, t, server, Misjudged)
    BY <1>1, <2>1, ViewGood
  <2>3. tab' = [tab EXCEPT ![t] = Start(a, n, "stream")] /\ "stream" \in Kinds
    BY <1>1, <1>9 DEF Reconnect, TabType, Kinds
  <2> HIDE DEF a
  <2>4. Good(Start(a, n, "stream"), t, server, Misjudged)
    BY <1>1, <2>2, <2>3, StartGood
  <2> QED
    BY <1>1, <1>9, <2>3, <2>4, OwnKept DEF Reconnect
<1>10. ASSUME Poll(t, n)
      PROVE  ClientInv'
  <2>1. tab' = [tab EXCEPT ![t] = Start(b, n, "count")] /\ "count" \in Kinds
    BY <1>10 DEF Poll, Kinds
  <2>2. Good(Start(b, n, "count"), t, server, Misjudged)
    BY <1>1, <2>1, StartGood
  <2> QED
    BY <1>1, <1>10, <2>1, <2>2, OwnKept DEF Poll
<1> QED
  BY <1>3, <1>4, <1>5, <1>6, <1>7, <1>8, <1>9, <1>10

\* The tokens go only when a session was revoked, or the server said so.
LEMMA GoLoginKept ==
  ASSUME ClientInv, NEW t \in Tabs, GoLogin(t), Excused, UNCHANGED <<server, unread>>
  PROVE  ClientInv'
<1>1. Empty \in StoreType /\ StoreKnown(Empty, server)
  BY TokenFacts DEF Empty, StoreType, StoreKnown, Known
<1>2. Good(Loaded(t, Empty), t, server, Misjudged')
  BY LoadedGood
<1> QED
  BY <1>1, <1>2, TabKept DEF GoLogin, ClientInv, Later

LEMMA RefusedKept ==
  ASSUME ClientInv, NEW t \in Tabs, NEW n \in Slots(t), Refused(t, n)
  PROVE  ClientInv'
<1> DEFINE b == tab[t]
           c == tab[t].calls[n]
<1>1. /\ Good(b, t, server, Misjudged) /\ b \in TabType(t)
      /\ c \in CallType /\ CallKnown(c, server)
      /\ store \in StoreType /\ StoreKnown(store, server) /\ unread \in Nat
  BY InvFacts DEF ClientInv
<1>2. c.pc = "refused" /\ UNCHANGED <<server, unread>>
  BY DEF Refused
<1>3. CASE tab' = [tab EXCEPT ![t] = Freed(tab[t], n)] /\ UNCHANGED <<store, given>>
  BY <1>1, <1>2, <1>3, FreedGood, OwnKept
<1>4. CASE /\ store.refresh # None
           /\ tab' = [tab EXCEPT ![t] = Joined([tab[t] EXCEPT !.calls[n].pc = "again"])]
           /\ UNCHANGED <<store, given>>
  <2> DEFINE d == [c EXCEPT !.pc = "again"]
             a == [b EXCEPT !.calls[n] = d]
  <2>1. d \in CallType /\ d.pc = "again" /\ d.tok = c.tok /\ d.retried = c.retried
    BY <1>1 DEF CallType, CallPcs
  <2>2. CallKnown(d, server)
    BY <1>1, <2>1 DEF CallKnown
  <2>3. Good(a, t, server, Misjudged)
    BY <1>1, <2>1, <2>2, CallGood
  <2>4. tab' = [tab EXCEPT ![t] = Joined(a)]
    BY <1>1, <1>4 DEF TabType, CallType
  <2> HIDE DEF a
  <2>5. Good(Joined(a), t, server, Misjudged)
    BY <1>1, <1>4, <2>3, JoinedGood
  <2> QED
    BY <1>1, <1>2, <1>4, <2>4, <2>5, OwnKept
<1>5. CASE c.retried /\ GoLogin(t)
  <2>1. Excused
    BY <1>1, <1>2, <1>5, TokenFacts DEF Excused, CallKnown, Known, Used
  <2> QED
    BY <1>2, <1>5, <2>1, GoLoginKept
<1>6. CASE store.refresh = None /\ GoLogin(t)
  <2>1. Empty \in StoreType /\ StoreKnown(Empty, server)
    BY TokenFacts DEF Empty, StoreType, StoreKnown, Known
  <2>2. Good(Loaded(t, Empty), t, server, Misjudged')
    BY LoadedGood
  <2> QED
    BY <1>1, <1>2, <1>6, <2>1, <2>2, TabKept DEF GoLogin, ClientInv, Later
<1> QED
  BY <1>3, <1>4, <1>5, <1>6 DEF Refused

\* A refresh that is answered, lost, or answered wrongly.
LEMMA AnswerKept ==
  ASSUME ClientInv, NEW t \in Tabs, ServeRenewal(t) \/ MisjudgeRenewal(t) \/ LoseRenewal(t)
  PROVE  ClientInv'
<1> DEFINE b == tab[t]
           r == tab[t].renewing
           with(p) == [r EXCEPT !.pc = p]
<1>1. /\ Good(b, t, server, Misjudged) /\ b \in TabType(t) /\ r \in RenewalType
      /\ store \in StoreType /\ StoreKnown(store, server) /\ unread \in Nat
      /\ server \in [Sessions -> Statuses]
  BY InvFacts DEF ClientInv, TabType
<1>2. r.pc = "out" /\ r # Idle /\ Used(r.of, server)
  BY <1>1 DEF ServeRenewal, MisjudgeRenewal, LoseRenewal, Good, RenewalKnown, Idle
<1>3. ASSUME NEW p \in {"ok", "no", "lost"}, NEW mis, p = "no" => server[r.of] = "revoked" \/ mis,
             Misjudged => mis
      PROVE  Good([b EXCEPT !.renewing = with(p)], t, server, mis)
  <2>1. with(p) \in RenewalType /\ with(p).of = r.of /\ with(p).pc = p
    BY <1>1 DEF RenewalType
  <2>2. RenewalKnown(with(p), server, mis)
    BY <1>2, <1>3, <2>1 DEF RenewalKnown
  <2>3. Good(b, t, server, mis)
    BY <1>1, <1>3, GoodLater DEF Later
  <2> HIDE DEF with
  <2> QED
    BY <2>1, <2>2, <2>3, RenewalGood
<1>4. \A p : [tab EXCEPT ![t].renewing.pc = p] = [tab EXCEPT ![t] = [b EXCEPT !.renewing = with(p)]]
  BY <1>1 DEF TabType, RenewalType
<1>5. ASSUME ServeRenewal(t)
      PROVE  ClientInv'
  <2> DEFINE p == IF Live(r.of) THEN "ok" ELSE "no"
  <2>1. p \in {"ok", "no", "lost"} /\ (p = "no" => server[r.of] = "revoked")
    BY <1>1, <1>2 DEF Live, Used, Statuses
  <2>2. tab' = [tab EXCEPT ![t] = [b EXCEPT !.renewing = with(p)]]
    BY <1>4, <1>5 DEF ServeRenewal
  <2> HIDE DEF p, with
  <2> QED
    BY <1>1, <1>3, <1>5, <2>1, <2>2, OwnKept DEF ServeRenewal
<1>6. ASSUME LoseRenewal(t)
      PROVE  ClientInv'
  <2>1. tab' = [tab EXCEPT ![t] = [b EXCEPT !.renewing = with("lost")]]
    BY <1>4, <1>6 DEF LoseRenewal
  <2> HIDE DEF with
  <2> QED
    BY <1>1, <1>3, <1>6, <2>1, OwnKept DEF LoseRenewal
<1>7. ASSUME MisjudgeRenewal(t)
      PROVE  ClientInv'
  <2>1. tab' = [tab EXCEPT ![t] = [b EXCEPT !.renewing = with("no")]]
    BY <1>4, <1>7 DEF MisjudgeRenewal
  <2>2. Misjudged' /\ given \subseteq given' /\ \A g \in given' \ given : g.by = "server"
    <3> DEFINE g == [by |-> "server", session |-> tab[t].renewing.of]
    <3>1. given' = given \cup {g} /\ g.by = "server"
      BY <1>7 DEF MisjudgeRenewal
    <3> HIDE DEF g
    <3> QED
      BY <3>1 DEF Misjudged
  <2> HIDE DEF with
  <2>3. Good([b EXCEPT !.renewing = with("no")], t, server', Misjudged')
    BY <1>3, <1>7, <2>2 DEF MisjudgeRenewal
  <2> QED
    BY <1>1, <1>7, <2>1, <2>2, <2>3, TabKept DEF MisjudgeRenewal, Later
<1> QED
  BY <1>5, <1>6, <1>7

\* Who waited for a refresh is told how it ended.
LEMMA SettleKept ==
  ASSUME ClientInv, NEW t \in Tabs, Settle(t)
  PROVE  ClientInv'
<1> DEFINE b == tab[t]
           r == tab[t].renewing
           new == Renewed(r)
           again == {n \in Slots(t) : b.calls[n].pc = "again"}
           calls == [n \in Slots(t) |-> Resumed(b.calls[n], new)]
           renewing == IF \E n \in again : calls[n].pc = "renew" THEN Renewal(store.refresh) ELSE Idle
           next == [b EXCEPT !.calls = calls, !.renewing = renewing]
<1>1. /\ Good(b, t, server, Misjudged) /\ b \in TabType(t) /\ r \in RenewalType
      /\ \A n \in Slots(t) : b.calls[n] \in CallType /\ CallKnown(b.calls[n], server)
      /\ store \in StoreType /\ StoreKnown(store, server) /\ unread \in Nat
      /\ server \in [Sessions -> Statuses]
  BY InvFacts DEF ClientInv, TabType
<1>2. /\ r.pc \in {"ok", "no", "lost"} /\ UNCHANGED <<server, unread>>
      /\ Used(r.of, server) /\ (r.pc = "no" => Excused)
  <2>1. r.pc \in {"ok", "no", "lost"} /\ UNCHANGED <<server, unread>>
    BY DEF Settle
  <2>2. RenewalKnown(r, server, Misjudged)
    BY <1>1 DEF Good
  <2> HIDE DEF r
  <2>3. r # Idle
    BY <2>1 DEF Idle
  <2>4. Used(r.of, server) /\ (r.pc = "no" => server[r.of] = "revoked" \/ Misjudged)
    BY <2>2, <2>3 DEF RenewalKnown
  <2> QED
    BY <2>1, <2>4 DEF Used, Excused
<1>3. new \in Tokens /\ Known(new, server) /\ (new # NoToken => new.age >= 2)
  <2>1. CASE r.pc = "ok"
    <3>1. new = Token(r.of, 3)
      BY <2>1 DEF Renewed
    <3>2. 3 \in Ages /\ r.of \in Sessions
      BY <1>2 DEF Ages, Used
    <3>3. new.of = r.of /\ new.age = 3
      BY <3>1 DEF Token
    <3> QED
      BY <1>2, <3>1, <3>2, <3>3, TokenFacts DEF Known
  <2>2. CASE r.pc # "ok" /\ store.access # NoToken /\ store.access.age >= 2
    <3>1. new = store.access
      BY <2>2 DEF Renewed
    <3> QED
      BY <1>1, <2>2, <3>1 DEF StoreType, StoreKnown
  <2>3. CASE r.pc # "ok" /\ ~(store.access # NoToken /\ store.access.age >= 2)
    <3>1. new = NoToken
      BY <2>3 DEF Renewed
    <3> QED
      BY <3>1, TokenFacts DEF Known
  <2> QED
    BY <2>1, <2>2, <2>3
<1>4. r.pc = "ok" => new = Token(r.of, 3) /\ new # NoToken
  <2>1. 3 \in Ages /\ r.of \in Sessions
    BY <1>2 DEF Ages, Used
  <2> QED
    BY <2>1, TokenFacts DEF Renewed
<1> HIDE DEF new
<1>5. calls \in [Slots(t) -> CallType] /\ \A n \in Slots(t) : CallKnown(calls[n], server)
  BY <1>1, <1>3, ResumedGood
<1>6. renewing \in RenewalType /\ RenewalKnown(renewing, server, Misjudged)
  <2>1. ASSUME NEW n \in again, calls[n].pc = "renew"
        PROVE  store.refresh # None
    <3>1. b.calls[n] \in CallType /\ b.calls[n].pc = "again" /\ calls[n] = Resumed(b.calls[n], new)
      BY <1>1, <2>1
    <3>2. new # NoToken
      BY <2>1, <3>1 DEF Resumed, FreeCall
    <3>3. calls[n] = Call(b.calls[n].kind, IF Aged(new) THEN "renew" ELSE "out", new, TRUE)
      BY <3>1, <3>2 DEF Resumed
    <3>4. calls[n].pc = IF Aged(new) THEN "renew" ELSE "out"
      <4> DEFINE p == IF Aged(new) THEN "renew" ELSE "out"
      <4>1. p \in CallPcs /\ b.calls[n].kind \in Kinds /\ TRUE \in BOOLEAN
        BY <3>1 DEF CallType, CallPcs
      <4> HIDE DEF p
      <4>2. Call(b.calls[n].kind, p, new, TRUE).pc = p
        BY <1>3, <4>1, CallFacts
      <4> QED
        BY <3>3, <4>2 DEF p
    <3> QED
      BY <2>1, <3>4 DEF Aged
  <2>2. store.refresh # None =>
          Renewal(store.refresh) \in RenewalType /\ RenewalKnown(Renewal(store.refresh), server, Misjudged)
    BY <1>1 DEF StoreKnown, StoreType, Renewal, RenewalType, RenewalKnown, Used
  <2> QED
    BY <2>1, <2>2, NothingFacts DEF RenewalKnown
<1> HIDE DEF calls, renewing
<1>7. Good(next, t, server, Misjudged)
  <2>1. /\ next \in TabType(t) /\ next.calls = calls /\ next.renewing = renewing
        /\ next.es = b.es /\ next.open = b.open /\ next.user = b.user
    BY <1>1, <1>5, <1>6 DEF TabType
  <2> HIDE DEF next
  <2> QED
    BY <1>1, <1>5, <1>6, <2>1 DEF Good, OneStream
<1>8. Empty \in StoreType /\ StoreKnown(Empty, server)
  BY TokenFacts DEF Empty, StoreType, StoreKnown, Known
<1>9. CASE /\ store' = IF r.pc = "ok" THEN [store EXCEPT !.access = new] ELSE store
           /\ tab' = [tab EXCEPT ![t] = next]
           /\ UNCHANGED given
  <2>1. store' \in StoreType /\ StoreKnown(store', server)
    BY <1>1, <1>3, <1>9 DEF StoreType, StoreKnown
  <2>2. Misjudged' = Misjudged
    BY <1>9 DEF Misjudged
  <2> HIDE DEF next
  <2> QED
    BY <1>1, <1>2, <1>7, <1>9, <2>1, <2>2, TabKept DEF Later
<1>10. CASE new = NoToken /\ ~Thrown(r) /\ GoLogin(t)
  <2>1. r.pc = "no"
    BY <1>2, <1>4, <1>10 DEF Thrown, new
  <2> QED
    BY <1>2, <1>10, <2>1, GoLoginKept
<1>11. CASE /\ store' = Empty
            /\ tab' = [tab EXCEPT ![t] = SignedOut(next)]
            /\ given' = IF store.refresh = None THEN given
                        ELSE given \cup {[by |-> "fetchUser", session |-> store.refresh]}
  <2> HIDE DEF next
  <2>1. given \subseteq given' /\ \A g \in given' \ given : g.by # "interceptor"
    BY <1>11
  <2>2. Misjudged => Misjudged'
    BY <2>1 DEF Misjudged
  <2>3. Good(SignedOut(next), t, server, Misjudged')
    BY <1>7, <2>2, SignedOutGood, GoodLater DEF Later
  <2> QED
    BY <1>1, <1>2, <1>8, <1>11, <2>1, <2>3, TabKept DEF Later
<1>12. CASE tab' = [tab EXCEPT ![t] = next] /\ UNCHANGED <<store, given>>
  <2> HIDE DEF next
  <2> QED
    BY <1>1, <1>2, <1>7, <1>12, OwnKept
<1> QED
  BY <1>9, <1>10, <1>11, <1>12 DEF Settle, new, calls, renewing

WithStream(b, es, up, wants, badge) ==
  [b EXCEPT !.es = es, !.up = up, !.wants = wants, !.badge = badge]

\* The stream: opened, subscribed, connected, broken off, and what comes
\* through it.
LEMMA StreamKept ==
  ASSUME ClientInv, NEW t \in Tabs,
         \/ \E n \in Slots(t) : Open(t, n)
         \/ Subscribe(t) \/ Connected(t) \/ Deliver(t) \/ Broken(t) \/ MarkRead(t)
  PROVE  ClientInv'
<1> DEFINE b == tab[t]
<1>1. /\ Good(b, t, server, Misjudged) /\ b \in TabType(t) /\ OneStream(b)
      /\ b.es \in StreamType /\ unread \in Nat
  BY InvFacts DEF ClientInv, TabType, Good
<1>2. ASSUME NEW v \in TabType(t), OneStream(v), v.calls = b.calls, v.renewing = b.renewing,
             tab' = [tab EXCEPT ![t] = v], UNCHANGED <<store, server, given>>, unread' \in Nat
      PROVE  ClientInv'
  BY <1>1, <1>2, ViewGood, OwnKept
<1>3. ASSUME NEW n \in Slots(t), Open(t, n)
      PROVE  ClientInv'
  <2> DEFINE f == Freed(b, n)
             es == [tok |-> b.calls[n].tok, pc |-> "opening", pushed |-> 0]
             open == IF f.es = NoStream THEN f.open + 1 ELSE f.open
             v == [f EXCEPT !.open = open, !.es = es]
  <2>1. Good(f, t, server, Misjudged) /\ f \in TabType(t) /\ OneStream(f)
    BY <1>1, FreedGood DEF Good
  <2>2. es \in StreamType /\ es # NoStream
    <3>1. b.calls[n].tok \in Tokens
      BY <1>1 DEF TabType, CallType
    <3>2. es.pc # NoStream.pc
      BY DEF NoStream
    <3> QED
      BY <3>1, <3>2 DEF StreamType
  <2>3. open = 1
    BY <2>1 DEF TabType, OneStream
  <2>4. f.user = None \/ tab' = [tab EXCEPT ![t] = v]
    BY <1>3 DEF Open
  <2>5. f.user = None => tab' = [tab EXCEPT ![t] = f]
    BY <1>3 DEF Open
  <2> HIDE DEF f, es, open
  <2>6. CASE f.user # None
    <3>1. /\ v \in TabType(t) /\ v.calls = f.calls /\ v.renewing = f.renewing
          /\ v.es = es /\ v.open = open /\ v.user = f.user
      BY <2>1, <2>2, <2>3 DEF TabType
    <3>2. OneStream(v)
      BY <2>2, <2>3, <2>6, <3>1 DEF OneStream
    <3> HIDE DEF v
    <3>3. Good(v, t, server, Misjudged)
      BY <2>1, <3>1, <3>2, ViewGood
    <3> QED
      BY <1>1, <1>3, <2>4, <2>6, <3>3, OwnKept DEF Open
  <2>7. CASE f.user = None
    BY <1>1, <1>3, <2>1, <2>5, <2>7, OwnKept DEF Open
  <2> QED
    BY <2>6, <2>7
<1>4. ASSUME NEW es \in StreamType, es.pc # "none", b.es # NoStream, NEW up \in BOOLEAN,
             NEW wants \in SUBSET Kinds, NEW badge \in Nat,
             tab' = [tab EXCEPT ![t] = WithStream(b, es, up, wants, badge)],
             UNCHANGED <<store, server, given>>, unread' \in Nat
      PROVE  ClientInv'
  <2> DEFINE v == [b EXCEPT !.es = es, !.up = up, !.wants = wants, !.badge = badge]
  <2>1. /\ v \in TabType(t) /\ v.calls = b.calls /\ v.renewing = b.renewing
        /\ v.es = es /\ v.open = b.open /\ v.user = b.user
    BY <1>1, <1>4 DEF TabType
  <2>2. es # NoStream
    BY <1>4 DEF NoStream
  <2>3. OneStream(v)
    BY <1>1, <1>4, <2>1, <2>2 DEF OneStream
  <2>4. tab' = [tab EXCEPT ![t] = v]
    BY <1>4 DEF WithStream
  <2> HIDE DEF v
  <2> QED
    BY <1>2, <1>4, <2>1, <2>3, <2>4
<1>5. b.es.pc # "none" => b.es # NoStream
  BY DEF NoStream
<1>6. ASSUME Subscribe(t)
      PROVE  ClientInv'
  <2> DEFINE es == [b.es EXCEPT !.pc = "joined"]
  <2>1. es \in StreamType /\ es.pc # "none"
    BY <1>1 DEF StreamType
  <2>2. tab' = [tab EXCEPT ![t] = WithStream(b, es, b.up, b.wants, b.badge)]
    BY <1>1, <1>6 DEF Subscribe, WithStream, TabType, StreamType
  <2>3. b.up \in BOOLEAN /\ b.wants \in SUBSET Kinds /\ b.badge \in Nat /\ b.es # NoStream
    BY <1>1, <1>5, <1>6 DEF TabType, Subscribe
  <2> HIDE DEF es
  <2>4. UNCHANGED <<store, server, given>> /\ unread' \in Nat /\ TRUE \in BOOLEAN
    BY <1>1, <1>6 DEF Subscribe
  <2> QED
    BY <1>4, <2>1, <2>2, <2>3, <2>4
<1>7. ASSUME Connected(t)
      PROVE  ClientInv'
  <2> DEFINE es == [b.es EXCEPT !.pc = "up"]
             wants == b.wants \cup {"count"}
  <2>1. es \in StreamType /\ es.pc # "none"
    BY <1>1 DEF StreamType
  <2>2. tab' = [tab EXCEPT ![t] = WithStream(b, es, TRUE, wants, b.badge)]
    BY <1>1, <1>7 DEF Connected, WithStream, TabType, StreamType
  <2>3. wants \in SUBSET Kinds /\ b.badge \in Nat /\ b.es # NoStream
    BY <1>1, <1>5, <1>7 DEF TabType, Connected, Kinds
  <2> HIDE DEF es, wants
  <2>4. UNCHANGED <<store, server, given>> /\ unread' \in Nat /\ TRUE \in BOOLEAN
    BY <1>1, <1>7 DEF Connected
  <2> QED
    BY <1>4, <2>1, <2>2, <2>3, <2>4
<1>8. ASSUME Deliver(t)
      PROVE  ClientInv'
  <2> DEFINE es == [b.es EXCEPT !.pushed = b.es.pushed - 1]
             badge == b.badge + 1
  <2>1. es \in StreamType /\ es.pc # "none"
    BY <1>1, <1>8 DEF StreamType, Deliver
  <2>2. tab' = [tab EXCEPT ![t] = WithStream(b, es, b.up, b.wants, badge)]
    BY <1>1, <1>8 DEF Deliver, WithStream, TabType, StreamType
  <2>3. b.up \in BOOLEAN /\ b.wants \in SUBSET Kinds /\ badge \in Nat /\ b.es # NoStream
    BY <1>1, <1>5, <1>8 DEF TabType, Deliver
  <2> HIDE DEF es, badge
  <2>4. UNCHANGED <<store, server, given>> /\ unread' \in Nat /\ TRUE \in BOOLEAN
    BY <1>1, <1>8 DEF Deliver
  <2> QED
    BY <1>4, <2>1, <2>2, <2>3, <2>4
<1>9. ASSUME Broken(t)
      PROVE  ClientInv'
  <2> DEFINE m == Unmounted(b)
             v == [m EXCEPT !.up = FALSE, !.timer = TRUE]
  <2>1. m \in TabType(t) /\ Good(m, t, server, Misjudged) /\ m.es = NoStream /\ m.open = 0
    <3>1. Good(m, t, server, Misjudged) /\ m.es = NoStream /\ m.open = 0
      BY <1>1, UnmountedGood
    <3> QED
      BY <3>1 DEF Good
  <2>2. tab' = [tab EXCEPT ![t] = v]
    BY <1>9 DEF Broken
  <2> HIDE DEF m
  <2>3. /\ v \in TabType(t) /\ v.calls = m.calls /\ v.renewing = m.renewing
        /\ v.es = NoStream /\ v.open = 0
    BY <2>1 DEF TabType
  <2>4. Good(v, t, server, Misjudged)
    BY <2>1, <2>3, ViewGood DEF OneStream
  <2> HIDE DEF v
  <2> QED
    BY <1>1, <1>9, <2>2, <2>4, OwnKept DEF Broken
<1>10. ASSUME MarkRead(t)
      PROVE  ClientInv'
  <2> DEFINE wants == b.wants \cup {"count"}
  <2>1. wants \in SUBSET Kinds
    BY <1>1 DEF TabType, Kinds
  <2>2. tab' = [tab EXCEPT ![t] = [b EXCEPT !.wants = wants]] /\ unread' \in Nat
    BY <1>1, <1>10 DEF MarkRead, TabType
  <2> HIDE DEF wants
  <2>3. Good([b EXCEPT !.wants = wants], t, server, Misjudged)
    BY <1>1, <2>1, WantsGood
  <2> QED
    BY <1>10, <2>2, <2>3, OwnKept DEF MarkRead
<1> QED
  BY <1>3, <1>6, <1>7, <1>8, <1>9, <1>10

\* The user, the clock and whoever revokes a session.
LEMMA UserKept ==
  ASSUME ClientInv, NEW t \in Tabs, Login(t) \/ Logout(t) \/ Reload(t)
  PROVE  ClientInv'
<1> DEFINE b == tab[t]
<1>1. /\ Good(b, t, server, Misjudged) /\ b \in TabType(t)
      /\ store \in StoreType /\ StoreKnown(store, server) /\ unread \in Nat
      /\ server \in [Sessions -> Statuses]
  BY InvFacts DEF ClientInv
<1>2. ASSUME NEW s \in Sessions, server[s] = "none", server' = [server EXCEPT ![s] = "live"],
             store' = [access |-> Token(s, 3), refresh |-> s],
             tab' = [tab EXCEPT ![t].wants = tab[t].wants \cup {"me"}], UNCHANGED <<unread, given>>
      PROVE  ClientInv'
  <2> DEFINE wants == b.wants \cup {"me"}
  <2>1. wants \in SUBSET Kinds
    BY <1>1 DEF TabType, Kinds
  <2>2. tab' = [tab EXCEPT ![t] = [b EXCEPT !.wants = wants]]
    BY <1>1, <1>2 DEF TabType
  <2>3. server' \in [Sessions -> Statuses] /\ Later(server, server')
    BY <1>1, <1>2 DEF Later, Statuses
  <2>4. store' \in StoreType /\ StoreKnown(store', server')
    <3>1. Token(s, 3) \in Tokens
      BY TokenFacts DEF Ages
    <3>2. Token(s, 3).of = s
      BY DEF Token
    <3>3. Used(s, server')
      BY <1>1, <1>2 DEF Used, Statuses
    <3> QED
      BY <1>2, <3>1, <3>2, <3>3 DEF StoreType, StoreKnown, Known
  <2>5. Misjudged' = Misjudged
    BY <1>2 DEF Misjudged
  <2> HIDE DEF wants
  <2>6. Good([b EXCEPT !.wants = wants], t, server', Misjudged')
    <3>1. Good([b EXCEPT !.wants = wants], t, server, Misjudged)
      BY <1>1, <2>1, WantsGood
    <3> QED
      BY <2>3, <2>5, <3>1, GoodLater
  <2> QED
    BY <1>1, <1>2, <2>2, <2>3, <2>4, <2>6, TabKept
<1>3. ASSUME Logout(t)
      PROVE  ClientInv'
  <2>1. Empty \in StoreType /\ StoreKnown(Empty, server)
    BY TokenFacts DEF Empty, StoreType, StoreKnown, Known
  <2>2. Good(SignedOut(b), t, server, Misjudged)
    BY <1>1, SignedOutGood
  <2>3. Misjudged' = Misjudged
    BY <1>3 DEF Logout, Misjudged
  <2> QED
    BY <1>1, <1>3, <2>1, <2>2, <2>3, TabKept DEF Logout, Later
<1>4. ASSUME Reload(t)
      PROVE  ClientInv'
  <2>1. Good(Loaded(t, store), t, server, Misjudged)
    BY LoadedGood
  <2> QED
    BY <1>1, <1>4, <2>1, OwnKept DEF Reload
<1> QED
  BY <1>2, <1>3, <1>4 DEF Login, Unused

LEMMA OutsideKept ==
  ASSUME ClientInv,
         \/ \E heard \in SUBSET Inboxes : Notify(heard)
         \/ \E s \in Sessions : Revoke(s)
         \/ \E age \in Ages : GrowOld(age)
  PROVE  ClientInv'
<1>1. /\ \A t \in Tabs : Good(tab[t], t, server, Misjudged) /\ tab[t] \in TabType(t)
      /\ store \in StoreType /\ StoreKnown(store, server) /\ unread \in Nat
      /\ server \in [Sessions -> Statuses] /\ tab = [t \in Tabs |-> tab[t]]
  BY InvFacts DEF ClientInv
<1>2. UNCHANGED given
  BY DEF Notify, Revoke, GrowOld
<1>3. ASSUME server' \in [Sessions -> Statuses], Later(server, server'), store' \in StoreType,
             StoreKnown(store', server'), unread' \in Nat, tab' = [t \in Tabs |-> tab'[t]],
             \A t \in Tabs : Good(tab'[t], t, server, Misjudged)
      PROVE  ClientInv'
  <2>1. Misjudged' = Misjudged
    BY <1>2 DEF Misjudged
  <2>2. \A t \in Tabs : Good(tab'[t], t, server', Misjudged')
    BY <1>3, <2>1, GoodLater
  <2>3. LiveSessionKept'
    BY <1>2, <1>3 DEF ClientInv, LiveSessionKept, Later
  <2> QED
    BY <1>3, <2>2, <2>3 DEF ClientInv
<1>4. ASSUME NEW heard \in SUBSET Inboxes, Notify(heard)
      PROVE  ClientInv'
  <2>1. ASSUME NEW t \in Tabs
        PROVE  Good(tab'[t], t, server, Misjudged)
    <3> DEFINE b == tab[t]
               es == [b.es EXCEPT !.pushed = b.es.pushed + 1]
               v == [b EXCEPT !.es = es]
    <3>1. CASE t \in heard
      <4>1. tab'[t] = v /\ b.es.pc \in {"joined", "up"}
        BY <1>1, <1>4, <3>1 DEF Notify, TabType, StreamType
      <4>2. es \in StreamType /\ es.pc # "none"
        BY <1>1, <4>1 DEF TabType, StreamType
      <4>3. es # NoStream /\ b.es # NoStream
        BY <4>1, <4>2 DEF NoStream
      <4> HIDE DEF es
      <4>4. /\ v \in TabType(t) /\ v.calls = b.calls /\ v.renewing = b.renewing
            /\ v.es = es /\ v.open = b.open /\ v.user = b.user
        BY <1>1, <4>2 DEF TabType
      <4>5. OneStream(v)
        BY <1>1, <4>3, <4>4 DEF Good, OneStream
      <4> HIDE DEF v
      <4> QED
        BY <1>1, <4>1, <4>4, <4>5, ViewGood
    <3>2. CASE t \notin heard
      BY <1>1, <1>4, <3>2 DEF Notify
    <3> QED
      BY <3>1, <3>2
  <2>2. tab' = [t \in Tabs |-> tab'[t]]
    BY <1>4 DEF Notify
  <2>3. UNCHANGED <<store, server>> /\ unread' \in Nat
    BY <1>1, <1>4 DEF Notify
  <2> QED
    BY <1>1, <1>3, <2>1, <2>2, <2>3 DEF Later
<1>5. ASSUME NEW s \in Sessions, Revoke(s)
      PROVE  ClientInv'
  <2>1. server' \in [Sessions -> Statuses] /\ Later(server, server')
    BY <1>1, <1>5 DEF Revoke, Later, Statuses
  <2>2. StoreKnown(store, server')
    BY <1>1, <2>1 DEF StoreKnown, Known, Used, Later
  <2> QED
    BY <1>1, <1>3, <1>5, <2>1, <2>2 DEF Revoke
<1>6. ASSUME NEW age \in Ages, GrowOld(age)
      PROVE  ClientInv'
  <2>1. store.access # NoToken /\ store.access \in [of: Sessions, age: Ages]
    BY <1>1, <1>6, TokenFacts DEF GrowOld, StoreType, Tokens, Ages
  <2>2. /\ store'.access \in [of: Sessions, age: Ages] /\ store'.access.of = store.access.of
        /\ store' \in StoreType /\ store'.refresh = store.refresh
    BY <1>1, <1>6, <2>1 DEF GrowOld, StoreType, Tokens
  <2>3. StoreKnown(store', server)
    BY <1>1, <2>1, <2>2 DEF StoreKnown, Known
  <2> QED
    BY <1>1, <1>3, <1>6, <2>2, <2>3 DEF GrowOld, Later
<1> QED
  BY <1>4, <1>5, <1>6

LEMMA ClientInitInv == ClientInit => ClientInv
<1> SUFFICES ASSUME ClientInit PROVE ClientInv
  OBVIOUS
<1>1. /\ store \in StoreType
      /\ store.access = NoToken \/ store.access.of = store.refresh
  <2>1. PICK s \in Sessions :
          store \in {Empty} \cup {[access |-> Token(s, age), refresh |-> s] : age \in Ages}
    BY SessionsAssumption DEF ClientInit
  <2>2. CASE store = Empty
    BY <2>2, TokenFacts DEF Empty, StoreType
  <2>3. ASSUME NEW age \in Ages, store = [access |-> Token(s, age), refresh |-> s]
        PROVE  store \in StoreType /\ store.access.of = store.refresh
    <3>1. Token(s, age) \in Tokens /\ Token(s, age).of = s
      BY TokenFacts DEF Token
    <3> QED
      BY <2>3, <3>1 DEF StoreType
  <2> QED
    BY <2>1, <2>2, <2>3
<1>2. /\ server \in [Sessions -> Statuses]
      /\ \A s \in Sessions : s = store.refresh => server[s] = "live"
  BY DEF ClientInit, Statuses
<1>3. StoreKnown(store, server)
  BY <1>1, <1>2, TokenFacts DEF StoreKnown, StoreType, Known, Used
<1>4. ASSUME NEW t \in Tabs
      PROVE  Good(tab[t], t, server, Misjudged)
  <2> DEFINE b == Loaded(t, store)
             v == [b EXCEPT !.user = store.refresh, !.wants = {}]
  <2>1. Good(b, t, server, Misjudged) /\ b.es = NoStream /\ b.open = 0
    BY LoadedGood DEF Loaded
  <2>2. b \in TabType(t) /\ store.refresh \in Sessions \cup {None}
    BY <1>1, <2>1 DEF Good, StoreType
  <2>3. tab[t] = b \/ tab[t] = v
    BY DEF ClientInit, Opened
  <2> HIDE DEF b
  <2>4. /\ v \in TabType(t) /\ v.es = NoStream /\ v.open = 0
        /\ v.calls = b.calls /\ v.renewing = b.renewing
    BY <2>1, <2>2 DEF TabType
  <2>5. Good(v, t, server, Misjudged)
    BY <2>1, <2>4, ViewGood DEF OneStream
  <2> QED
    BY <2>1, <2>3, <2>5
<1> QED
  BY <1>1, <1>2, <1>3, <1>4 DEF ClientInit, ClientInv, LiveSessionKept

LEMMA ClientInvariant == ClientSpec => []ClientInv
<1>1. ClientInv /\ [ClientNext]_vars => ClientInv'
  <2> SUFFICES ASSUME ClientInv, [ClientNext]_vars
               PROVE  ClientInv'
    OBVIOUS
  <2>1. ASSUME NEW t \in Tabs, NEW n \in Slots(t),
               \/ \E kind \in Kinds : Ask(t, n, kind) \/ Press(t, n, kind)
               \/ Serve(t, n) \/ Lose(t, n) \/ Answered(t, n) \/ Refused(t, n) \/ Failed(t, n)
               \/ Open(t, n) \/ Reconnect(t, n) \/ Poll(t, n)
        PROVE  ClientInv'
    BY <2>1, RequestKept, RefusedKept, StreamKept
  <2>2. ASSUME NEW t \in Tabs,
               \/ ServeRenewal(t) \/ MisjudgeRenewal(t) \/ LoseRenewal(t) \/ Settle(t)
               \/ Subscribe(t) \/ Connected(t) \/ Deliver(t) \/ Broken(t)
               \/ MarkRead(t) \/ Login(t) \/ Logout(t) \/ Reload(t)
        PROVE  ClientInv'
    BY <2>2, AnswerKept, SettleKept, StreamKept, UserKept
  <2>3. CASE UNCHANGED vars
    BY <2>3 DEF vars, ClientInv, Misjudged, LiveSessionKept
  <2> QED
    BY <2>1, <2>2, <2>3, OutsideKept DEF ClientNext
<1> QED
  BY <1>1, ClientInitInv, PTL DEF ClientSpec
-----------------------------------------------------------------------------
\* The tokens, the server's sessions, the requests and the badge keep their
\* types (api/client.js, NotificationContext.jsx).
THEOREM ClientTypesCorrect == ClientSpec => []ClientTypeOK
<1>1. ClientInv => ClientTypeOK
  BY DEF ClientInv, StoreType, Statuses, Good, TabType, CallType, StreamType, ClientTypeOK
<1> QED
  BY <1>1, ClientInvariant, PTL

\* However many tabs share a session and renew its token, whatever is lost on
\* the way: the interceptors sign nobody out unless the server has revoked a
\* session or has answered a refresh wrongly (refreshAccessToken, goLogin).
THEOREM LiveSessionsKept == ClientSpec => []LiveSessionKept
<1>1. ClientInv => LiveSessionKept
  BY DEF ClientInv
<1> QED
  BY <1>1, ClientInvariant, PTL

\* No tab leaves a stream behind: it has one exactly when it knows of one, and
\* none without a user, whenever the token it waited for arrives (connect and
\* the clean-up of the effect in NotificationContext.jsx).
THEOREM NoStreamLeftBehind == ClientSpec => []StreamsAccounted
<1>1. ClientInv => StreamsAccounted
  BY DEF ClientInv, Good, OneStream, StreamsAccounted
<1> QED
  BY <1>1, ClientInvariant, PTL
=============================================================================
