-------------------------------- MODULE Screens --------------------------------
(* One screen of the web client over the objects of the server.              *)
(*                                                                           *)
(* A component of the client keeps a copy of what it last read and offers    *)
(* controls by that copy; the server decides by its own state, which the     *)
(* other side of the same object (a friend, a moderator, another tab) may    *)
(* have changed meanwhile.  Reads and operations are requests of their own,  *)
(* answered late, lost, or in another order.  None of the components cancels *)
(* or numbers its requests, so an answer changes the screen whenever it      *)
(* comes.  Which screens there are is data: the Catalog, one record for each *)
(* pane of a component that keeps a copy of its own.                         *)
EXTENDS Naturals, FiniteSets, Controls

CONSTANTS
    Objs,         \* the objects a screen can show
    MaxNet,       \* bound: requests under way at once
    Catalog,      \* the screens, numbered
    None,
    MaxPresses,   \* bound: controls pressed
    MaxTroubles   \* bound: changes made elsewhere, requests lost or denied,
                  \* pages or tabs chosen after the first, all together

(* What a screen of the Catalog may say. *)
WellFormed(sc) ==
    /\ sc.shape \in {"one", "list"}
    /\ sc.start \subseteq sc.statuses /\ sc.blank \subseteq sc.statuses
    /\ sc.tabs \subseteq SUBSET sc.statuses
    /\ sc.flips \in [sc.statuses -> sc.statuses]
    /\ sc.offers \in [sc.statuses -> SUBSET DOMAIN sc.acts]
    /\ sc.load.locks \in BOOLEAN /\ sc.load.again \in BOOLEAN /\ sc.roams \in BOOLEAN
    /\ sc.load.locks \/ sc.load.fails = "blank" => sc.shape = "one"
    /\ \A o \in DOMAIN sc.acts :
         /\ sc.acts[o].lock \in Locks /\ sc.acts[o].ok \in Oks /\ sc.acts[o].err \in Errs
         /\ sc.acts[o].then \in DOMAIN sc.acts \cup {""}
         /\ sc.acts[o].on = "page" => sc.shape = "one"

ASSUME CatalogAssumption == \A i \in DOMAIN Catalog : WellFormed(Catalog[i])
ASSUME BoundsAssumption  == MaxNet \in Nat \ {0} /\ None \notin Objs

VARIABLES
    here,         \* the place in the Catalog of the screen that is open
    at,           \* the page shown: an object, or the statuses a tab lists
    server,       \* the status of each object at the server
    rows,         \* the copy: the rows on the screen
    busy,         \* the row whose operation locks the screen, or None
    closed,       \* the page was left, or shows nothing but an error
    net,          \* the requests under way
    spent         \* what was used of each bound

vars == <<here, at, server, rows, busy, closed, net, spent>>

screen == Catalog[here]

Row(sc)    == [of: Objs, st: sc.statuses]
FreeSlot   == [kind |-> "free"]
Read(p, h) == [kind |-> "read", at |-> p, holds |-> h, pc |-> "out", got |-> {}]
Order(o, x, s) ==
    [kind |-> "op", op |-> o, of |-> x, st |-> s, pc |-> "out", got |-> {}]

Shown(x, s) == {[of |-> x, st |-> s]}

(* What the server would show at a page: the one object of the page, or the  *)
(* objects whose status the tab lists.                                       *)
View(sc, p, srv) ==
    IF sc.shape = "one" THEN Shown(p, srv[p])
    ELSE {[of |-> x, st |-> srv[x]] : x \in {y \in Objs : srv[y] \in p}}

(* Requests are told apart by the place they take; a new one takes the first *)
(* free place, which is no order of sending.                                 *)
Slots   == 1..MaxNet
Free(n) == net[n].kind = "free"
First(n) == Free(n) /\ \A m \in Slots : m < n => ~Free(m)

Trouble(k) ==
    /\ spent.others + spent.faults + spent.moves < MaxTroubles
    /\ spent' = [spent EXCEPT ![k] = @ + 1]

ScreensInit ==
    /\ here \in DOMAIN Catalog
    /\ at \in (IF screen.shape = "one" THEN Objs ELSE screen.tabs)
    /\ server \in [Objs -> screen.start]
    /\ rows = {}
    /\ busy = IF screen.load.locks THEN at ELSE None
    /\ closed = FALSE
    /\ net = [m \in Slots |-> IF m = 1 THEN Read(at, screen.load.locks) ELSE FreeSlot]
    /\ spent = [presses |-> 0, others |-> 0, faults |-> 0, moves |-> 0]

-----------------------------------------------------------------------------
\* Reading.

(* The answer of a read is made when the server gets to it. *)
ServeRead(n) ==
    /\ net[n].kind = "read" /\ net[n].pc = "out"
    /\ net' = [net EXCEPT ![n].pc = "back", ![n].got = View(screen, net[n].at, server)]
    /\ UNCHANGED <<here, at, server, rows, busy, closed, spent>>

(* What a failed read leaves. *)
Left(p) ==
    CASE screen.load.fails \in {"empty", "dead"} -> {}
      [] screen.load.fails = "blank" -> [of: {p}, st: screen.blank]
      [] OTHER -> rows

(* An answer is shown when it comes, whichever page it was asked for. *)
ShowRead(n) ==
    /\ net[n].kind = "read" /\ net[n].pc # "out"
    /\ rows' = IF closed THEN rows
               ELSE IF net[n].pc = "back" THEN net[n].got ELSE Left(net[n].at)
    /\ busy' = IF net[n].holds THEN None ELSE busy
    /\ closed' = (closed \/ (net[n].pc = "lost" /\ screen.load.fails = "dead"))
    /\ net' = [net EXCEPT ![n] = FreeSlot]
    /\ UNCHANGED <<here, at, server, spent>>

(* Mutant: the timer asks only while nothing is shown. *)
ReadWhenEmpty(n) ==
    /\ screen.load.again /\ ~closed /\ First(n) /\ rows = {}
    /\ net' = [net EXCEPT ![n] = Read(at, FALSE)]
    /\ UNCHANGED <<here, at, server, rows, busy, closed, spent>>

(* The timer, the page becoming visible again, or a live event. *)
ReadAgain(n) ==
    /\ screen.load.again /\ ~closed /\ First(n)
    /\ net' = [net EXCEPT ![n] = Read(at, FALSE)]
    /\ UNCHANGED <<here, at, server, rows, busy, closed, spent>>

(* Another page of the same component, or another tab of it. *)
Move(p, n) ==
    /\ screen.roams
    /\ Trouble("moves")
    /\ ~closed /\ First(n) /\ p # at
    /\ at' = p
    /\ rows' = IF screen.load.clears THEN {} ELSE rows
    /\ net' = [net EXCEPT ![n] = Read(p, screen.load.locks)]
    /\ busy' = IF screen.load.locks THEN p ELSE busy
    /\ UNCHANGED <<here, server, closed>>

-----------------------------------------------------------------------------
\* Operations.

Enabled(lock, x) ==
    CASE lock \in {"screen", "waits"} -> busy = None
      [] lock = "row"    -> busy # x
      [] lock = "own"    -> \A n \in Slots : net[n].kind = "op" => net[n].of # x
      [] OTHER           -> TRUE

(* Mutants: a lock taken by the rows of a list only; a refused operation     *)
(* whose answer is taken for a status; no second reading of what was changed.*)
HoldsRows(act) == act.lock = "row"
OutcomeBlank(o, s) == ""
RereadsAside(act) == act.ok = "aside"

Holds(act) == act.lock \notin {"waits", "free", "own"}

Does(o, s)    == {t \in screen.statuses : <<o, s, t>> \in screen.moves}
Outcome(o, s) == IF Does(o, s) = Refusal THEN s ELSE CHOOSE t \in Does(o, s) : TRUE
Rereads(act) == act.ok \in {"reload", "aside"}
After(o) == [s \in screen.statuses |-> Outcome(o, s)]
Changed(x, new) == {IF r.of = x THEN [r EXCEPT !.st = new[r.st]] ELSE r : r \in rows}

Press(r, o, n) ==
    LET act    == screen.acts[o]
        target == IF act.on = "page" THEN at ELSE r.of
    IN /\ spent.presses < MaxPresses
       /\ spent' = [spent EXCEPT !.presses = @ + 1]
       /\ ~closed /\ First(n)
       /\ o \in screen.offers[r.st]
       /\ Enabled(act.lock, r.of)
       /\ busy' = IF Holds(act) THEN r.of ELSE busy
       /\ net' = [net EXCEPT ![n] = Order(o, target, r.st)]
       /\ rows' = IF act.early THEN Changed(r.of, After(o)) ELSE rows
       /\ UNCHANGED <<here, at, server, closed>>

ServeOrder(n) ==
    LET r == net[n]
    IN /\ r.kind = "op" /\ r.pc = "out"
       /\ \/ \E t \in Does(r.op, server[r.of]) :
               /\ server' = [server EXCEPT ![r.of] = t]
               /\ net' = [net EXCEPT ![n].pc = "back", ![n].got = Shown(r.of, t)]
          \/ /\ Does(r.op, server[r.of]) = Refusal
             /\ net' = [net EXCEPT ![n].pc = "no",
                                   ![n].got = Shown(r.of, server[r.of])]
             /\ UNCHANGED server
       /\ UNCHANGED <<here, at, rows, busy, closed, spent>>

(* The server denies an operation for a reason no screen can see, the request *)
(* never arrives, or the answer is lost after the server has acted.          *)
Fault(n) ==
    /\ Trouble("faults")
    /\ ~Free(n) /\ net[n].pc # "lost"
    /\ net' = [net EXCEPT ![n].pc = "lost"]
    /\ UNCHANGED <<here, at, server, rows, busy, closed>>

(* Mutant: the lock released by a success only, not by "finally". *)
ReleasedIfDone(n) ==
    IF Holds(screen.acts[net[n].op]) /\ net[n].pc = "back" THEN None ELSE busy

Released(n) == IF Holds(screen.acts[net[n].op]) THEN None ELSE busy

(* The handler goes on after the await: the next request of a chain, or what *)
(* the component does when all of it succeeded.                              *)
Succeed(n) ==
    LET r == net[n] act == screen.acts[r.op]
    IN /\ r.kind = "op" /\ r.pc = "back"
       /\ IF act.then # ""
          THEN /\ net' = [net EXCEPT ![n] = Order(act.then, r.of, r.st)]
               /\ UNCHANGED <<rows, busy, closed>>
          ELSE /\ net' = [net EXCEPT ![n] =
                         IF Rereads(act)
                         THEN Read(at, act.ok = "reload" /\ Holds(act))
                         ELSE FreeSlot]
               /\ busy' = IF act.ok = "reload" THEN busy ELSE Released(n)
               /\ closed' = (closed \/ act.ok = "leave")
               /\ rows' = CASE act.ok = "patch" -> Changed(r.of, After(r.op))
                            [] act.ok = "flip"  -> Changed(r.of, screen.flips)
                            [] act.ok = "show"  -> r.got
                            [] act.ok = "leave" -> {}
                            [] OTHER -> rows
       /\ UNCHANGED <<here, at, server, spent>>

(* The handler's catch: a message, and for some a fresh copy. *)
FailOrder(n) ==
    LET r == net[n] act == screen.acts[r.op]
    IN /\ r.kind = "op" /\ r.pc \in {"no", "lost"}
       /\ net' = [net EXCEPT ![n] = IF act.err = "again" THEN Read(at, FALSE) ELSE FreeSlot]
       /\ busy' = Released(n)
       /\ rows' = CASE act.err = "show" /\ r.pc = "no" -> r.got
                    [] act.err = "flip" -> Changed(r.of, screen.flips)
                    [] OTHER -> rows
       /\ UNCHANGED <<here, at, server, closed, spent>>

(* The other side: another person, another tab of the same user, a worker. *)
Others(x, o) ==
    /\ Trouble("others")
    /\ \E t \in Does(o, server[x]) \ {server[x]} :
         server' = [server EXCEPT ![x] = t]
    /\ UNCHANGED <<here, at, rows, busy, closed, net>>

ScreensNext ==
    \/ \E n \in Slots :
         \/ ServeRead(n)
         \/ ShowRead(n)
         \/ ReadAgain(n)
         \/ ServeOrder(n)
         \/ Fault(n)
         \/ Succeed(n)
         \/ FailOrder(n)
         \/ \E p \in (IF screen.shape = "one" THEN Objs ELSE screen.tabs) : Move(p, n)
         \/ \E r \in rows : \E o \in screen.offers[r.st] : Press(r, o, n)
    \/ \E x \in Objs : \E o \in {m[1] : m \in screen.moves} : Others(x, o)

(* The browser and the server go on with what is under way, and a timer      *)
(* fires; nobody has to press, to move, or to change anything.               *)
ScreensFairness ==
    /\ \A n \in Slots :
         /\ WF_vars(ServeRead(n)) /\ WF_vars(ShowRead(n))
         /\ WF_vars(ServeOrder(n)) /\ WF_vars(Succeed(n)) /\ WF_vars(FailOrder(n))
    /\ WF_vars(\E n \in Slots : ReadAgain(n))

ScreensSpec == ScreensInit /\ [][ScreensNext]_vars /\ ScreensFairness

-----------------------------------------------------------------------------
\* Properties.

(* A screen is serial when every control of it waits for every other one and *)
(* the copy is put right before the lock is released; nothing reads it again *)
(* from aside.                                                               *)
Serial(sc) ==
    /\ ~sc.load.again
    /\ \A s \in sc.statuses : \A o \in sc.offers[s] :
         /\ sc.acts[o].lock = "screen"
         /\ sc.acts[o].ok \in {"reload", "leave"}
         /\ sc.acts[o].on = "shown"
         /\ ~sc.acts[o].early
         /\ sc.acts[o].then = ""

(* The server accepts what a serial screen offers, in every state. *)
SerialAgrees ==
    \A i \in DOMAIN Catalog : Serial(Catalog[i]) =>
        \A s \in Catalog[i].statuses : \A o \in Catalog[i].offers[s] :
            \E t \in Catalog[i].statuses : <<o, s, t>> \in Catalog[i].moves

Alone == spent.others = 0 /\ spent.faults = 0 /\ spent.moves = 0
Quiet == \A n \in Slots : Free(n)

(* Every control a component offers for a row it shows is one the server     *)
(* accepts for an object in that state, and so is every further request the  *)
(* same press sends: the conditions of the components agree with the guards  *)
(* of the usecases.                                                          *)
OfferedIsAccepted ==
    \A r \in rows : \A o \in screen.offers[r.st] \ screen.blind :
        r.st = server[r.of] =>
            /\ Does(o, r.st) # Refusal
            /\ screen.acts[o].then # "" =>
                 \A t \in Does(o, r.st) : Does(screen.acts[o].then, t) # Refusal

(* A user who is alone with his objects, whose requests all arrive, is never *)
(* refused on a serial screen: no click, however fast, meets a status other  *)
(* than the one it was offered for.                                          *)
AloneNeverRefused ==
    Serial(screen) /\ Alone =>
        \A n \in Slots : net[n].kind = "op" => net[n].pc # "no"

(* And when nothing is under way such a screen shows what the server holds:  *)
(* what the handlers patch or read again is what the operation did.          *)
QuietIsCurrent ==
    Serial(screen) /\ Alone /\ Quiet /\ ~closed => rows = View(screen, at, server)

(* A screen locked by an operation is unlocked again, or left, whatever      *)
(* becomes of the request.                                                   *)
ControlsComeBack == (busy # None) ~> (busy = None \/ closed)

(* A screen that is read again by itself comes back to the truth of the page *)
(* it stands on, after any race, lost answer or missed event.                *)
PollsCatchUp ==
    screen.load.again => []<>(closed \/ rows = View(screen, at, server))

ScreensTypeOK ==
    /\ here \in DOMAIN Catalog
    /\ server \in [Objs -> screen.statuses]
    /\ rows \subseteq Row(screen)
    /\ busy \in Objs \cup {None}
    /\ closed \in BOOLEAN
    /\ \A n \in Slots : net[n].kind \in {"free", "read", "op"}
=============================================================================
