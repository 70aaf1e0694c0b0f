---------------------------- MODULE Screens_proofs ----------------------------
(***************************************************************************)
(* That a screen which locks itself never has its user refused, for any    *)
(* catalog of screens, any objects, requests, presses and troubles.        *)
(***************************************************************************)
EXTENDS Screens, Catalogs, TLAPS

Pages(sc) == IF sc.shape = "one" THEN Objs ELSE sc.tabs

Reads(sc) == [kind : {"read"}, at : Pages(sc), holds : BOOLEAN,
              pc : {"out", "back", "lost"}, got : SUBSET Row(sc)]
Orders(sc) == [kind : {"op"}, op : DOMAIN sc.acts, of : Objs, st : sc.statuses,
               pc : {"out", "back", "no", "lost"}, got : SUBSET Row(sc)]
UnderWay(sc) == {FreeSlot} \cup Reads(sc) \cup Orders(sc)

Spent == [presses : Nat, others : Nat, faults : Nat, moves : Nat]

ScreenTypes ==
  /\ here \in DOMAIN Catalog
  /\ at \in Pages(screen)
  /\ server \in [Objs -> screen.statuses]
  /\ rows \in SUBSET Row(screen)
  /\ busy \in Objs \cup {None}
  /\ closed \in BOOLEAN
  /\ net \in [Slots -> UnderWay(screen)]
  /\ spent \in Spent

\* Nothing is under way: the page was left, or shows the truth and is unlocked.
AtRest ==
  /\ Quiet
  /\ closed \/ (busy = None /\ rows = View(screen, at, server))

\* The request of the slot is the only one.
Only(n) == n \in Slots /\ ~Free(n) /\ \A m \in Slots \ {n} : Free(m)

\* The page is being read: with nothing shown yet, or after an operation whose
\* lock is still held.
BeingRead(r) ==
  /\ r.kind = "read"
  /\ r.at = at
  /\ r.pc # "lost"
  /\ r.pc = "back" => r.got = View(screen, at, server)
  /\ busy = None => rows = {}
  /\ busy # None => r.holds

\* An operation is under way, offered for what its object still is.
BeingDone(r) ==
  /\ r.kind = "op"
  /\ r.pc \in {"out", "back"}
  /\ r.op \in screen.offers[r.st]
  /\ r.pc = "out" => server[r.of] = r.st
  /\ busy # None

\* One thing at a time.
OneAtATime ==
  \/ AtRest
  \/ \E n \in Slots : Only(n) /\ ~closed /\ (BeingRead(net[n]) \/ BeingDone(net[n]))

SerialInv == ScreenTypes /\ (Serial(screen) /\ Alone => OneAtATime)
-----------------------------------------------------------------------------
(* Types                                                                   *)

LEMMA ScreenWellFormed == ASSUME here \in DOMAIN Catalog PROVE WellFormed(screen)
BY CatalogAssumption DEF screen

LEMMA ViewTypes ==
  ASSUME ScreenTypes, NEW p \in Pages(screen)
  PROVE  View(screen, p, server) \in SUBSET Row(screen)
BY DEF ScreenTypes, View, Shown, Row, Pages

LEMMA OutcomeTypes ==
  ASSUME NEW o PROVE After(o) \in [screen.statuses -> screen.statuses]
BY DEF After, Outcome, Does, Refusal

LEMMA ChangedTypes ==
  ASSUME rows \in SUBSET Row(screen), NEW x,
         NEW new \in [screen.statuses -> screen.statuses]
  PROVE  Changed(x, new) \in SUBSET Row(screen)
BY DEF Changed, Row

LEMMA FlipTypes ==
  ASSUME here \in DOMAIN Catalog
  PROVE  screen.flips \in [screen.statuses -> screen.statuses]
BY ScreenWellFormed DEF WellFormed

LEMMA TroubleSpends ==
  ASSUME spent \in Spent, NEW k \in {"others", "faults", "moves"}, Trouble(k)
  PROVE  spent' \in Spent /\ ~Alone'
BY DEF Spent, Trouble, Alone

LEMMA PressSpends ==
  ASSUME spent \in Spent, spent' = [spent EXCEPT !.presses = @ + 1]
  PROVE  spent' \in Spent /\ (Alone' => Alone)
BY DEF Spent, Alone

LEMMA InitTypes == ASSUME ScreensInit PROVE ScreenTypes
<1> USE DEF ScreensInit
<1>1. WellFormed(screen)
  BY ScreenWellFormed
<1>2. at \in Pages(screen)
  BY DEF Pages
<1>3. server \in [Objs -> screen.statuses]
  BY <1>1 DEF WellFormed
<1>4. screen.load.locks \in BOOLEAN /\ (screen.load.locks => at \in Objs)
  BY <1>1, <1>2 DEF WellFormed, Pages
<1>5. Read(at, screen.load.locks) \in UnderWay(screen)
  BY <1>2, <1>4 DEF Read, UnderWay, Reads
<1>6. net \in [Slots -> UnderWay(screen)]
  BY <1>5 DEF UnderWay
<1> QED
  BY <1>2, <1>3, <1>4, <1>6 DEF ScreenTypes, Spent

LEMMA ReadTypes ==
  ASSUME ScreenTypes, NEW n \in Slots, ServeRead(n) \/ ShowRead(n) \/ ReadAgain(n)
  PROVE  ScreenTypes'
<1>1. CASE ServeRead(n)
  <2>1. net[n] \in Reads(screen)
    BY <1>1 DEF ServeRead, ScreenTypes, UnderWay, FreeSlot, Orders
  <2>2. View(screen, net[n].at, server) \in SUBSET Row(screen)
    BY <2>1, ViewTypes DEF Reads
  <2>3. [net[n] EXCEPT !.pc = "back", !.got = View(screen, net[n].at, server)] \in Reads(screen)
    BY <2>1, <2>2 DEF Reads
  <2>4. net' \in [Slots -> UnderWay(screen)]
    BY <1>1, <2>3 DEF ServeRead, ScreenTypes, UnderWay
  <2> QED
    BY <1>1, <2>4 DEF ServeRead, ScreenTypes, screen
<1>2. CASE ShowRead(n)
  <2>1. net[n] \in Reads(screen)
    BY <1>2 DEF ShowRead, ScreenTypes, UnderWay, FreeSlot, Orders
  <2>2. screen.load.fails = "blank" => [of : {net[n].at}, st : screen.blank] \in SUBSET Row(screen)
    BY <2>1, ScreenWellFormed DEF Reads, ScreenTypes, WellFormed, Pages, Row
  <2>3. rows' \in SUBSET Row(screen)
    BY <1>2, <2>1, <2>2 DEF ShowRead, Left, ScreenTypes, Reads
  <2>4. net' \in [Slots -> UnderWay(screen)]
    BY <1>2 DEF ShowRead, ScreenTypes, UnderWay
  <2>5. closed' \in BOOLEAN /\ busy' \in Objs \cup {None}
    BY <1>2 DEF ShowRead, ScreenTypes
  <2> QED
    BY <1>2, <2>3, <2>4, <2>5 DEF ShowRead, ScreenTypes, screen
<1>3. CASE ReadAgain(n)
  <2>1. Read(at, FALSE) \in Reads(screen)
    BY DEF ScreenTypes, Read, Reads
  <2>2. net' \in [Slots -> UnderWay(screen)]
    BY <1>3, <2>1 DEF ReadAgain, ScreenTypes, UnderWay
  <2> QED
    BY <1>3, <2>2 DEF ReadAgain, ScreenTypes, screen
<1> QED
  BY <1>1, <1>2, <1>3

LEMMA MoveTypes ==
  ASSUME ScreenTypes, NEW n \in Slots, NEW p \in Pages(screen), Move(p, n)
  PROVE  ScreenTypes'
<1>1. screen.load.locks \in BOOLEAN /\ (screen.load.locks => p \in Objs)
  BY ScreenWellFormed DEF ScreenTypes, WellFormed, Pages
<1>2. Read(p, screen.load.locks) \in Reads(screen)
  BY <1>1 DEF Read, Reads
<1>3. net' \in [Slots -> UnderWay(screen)]
  BY <1>2 DEF Move, ScreenTypes, UnderWay
<1>4. spent' \in Spent
  BY TroubleSpends DEF Move, ScreenTypes
<1> QED
  BY <1>1, <1>3, <1>4 DEF Move, ScreenTypes, screen, Row

LEMMA PressTypes ==
  ASSUME ScreenTypes, NEW n \in Slots, NEW r \in rows, NEW o, o \in screen.offers[r.st],
         Press(r, o, n)
  PROVE  ScreenTypes'
<1> DEFINE target == IF screen.acts[o].on = "page" THEN at ELSE r.of
<1>1. r.of \in Objs /\ r.st \in screen.statuses
  BY DEF ScreenTypes, Row
<1>2. o \in DOMAIN screen.acts
  BY <1>1, ScreenWellFormed DEF ScreenTypes, WellFormed
<1>3. target \in Objs
  BY <1>1, <1>2, ScreenWellFormed DEF ScreenTypes, WellFormed, Pages
<1>4. Order(o, target, r.st) \in Orders(screen)
  BY <1>1, <1>2, <1>3 DEF Order, Orders
<1>5. net' \in [Slots -> UnderWay(screen)]
  BY <1>4 DEF Press, ScreenTypes, UnderWay
<1>6. rows' \in SUBSET Row(screen)
  BY ChangedTypes, OutcomeTypes DEF Press, ScreenTypes
<1>7. spent' \in Spent
  BY PressSpends DEF Press, ScreenTypes
<1>8. busy' \in Objs \cup {None}
  BY <1>1 DEF Press, ScreenTypes
<1> QED
  BY <1>5, <1>6, <1>7, <1>8 DEF Press, ScreenTypes, screen

\* An operation that is under way.
LEMMA OrderTyped ==
  ASSUME ScreenTypes, NEW n \in Slots, net[n].kind = "op"
  PROVE  net[n] \in Orders(screen)
BY DEF ScreenTypes, UnderWay, FreeSlot, Reads

LEMMA ServeOrderTypes ==
  ASSUME ScreenTypes, NEW n \in Slots, ServeOrder(n)
  PROVE  ScreenTypes'
<1>1. net[n] \in Orders(screen)
  BY OrderTyped DEF ServeOrder
<1>2. ASSUME NEW t \in screen.statuses, NEW pc \in {"back", "no"}
      PROVE  [net[n] EXCEPT !.pc = pc, !.got = Shown(net[n].of, t)] \in Orders(screen)
  <2>1. Shown(net[n].of, t) \in SUBSET Row(screen)
    BY <1>1 DEF Orders, Shown, Row
  <2> QED
    BY <1>1, <2>1 DEF Orders
<1>3. CASE \E t \in Does(net[n].op, server[net[n].of]) :
             /\ server' = [server EXCEPT ![net[n].of] = t]
             /\ net' = [net EXCEPT ![n].pc = "back", ![n].got = Shown(net[n].of, t)]
  <2>1. PICK t \in screen.statuses :
             /\ server' = [server EXCEPT ![net[n].of] = t]
             /\ net' = [net EXCEPT ![n].pc = "back", ![n].got = Shown(net[n].of, t)]
    BY <1>3 DEF Does
  <2>2. net' \in [Slots -> UnderWay(screen)]
    BY <2>1, <1>2 DEF ScreenTypes, UnderWay
  <2>3. server' \in [Objs -> screen.statuses]
    BY <2>1 DEF ScreenTypes
  <2> QED
    BY <2>2, <2>3 DEF ServeOrder, ScreenTypes, screen
<1>4. CASE /\ net' = [net EXCEPT ![n].pc = "no",
                                 ![n].got = Shown(net[n].of, server[net[n].of])]
           /\ UNCHANGED server
  <2>1. server[net[n].of] \in screen.statuses
    BY <1>1 DEF ScreenTypes, Orders
  <2>2. net' \in [Slots -> UnderWay(screen)]
    BY <1>4, <2>1, <1>2 DEF ScreenTypes, UnderWay
  <2> QED
    BY <1>4, <2>2 DEF ServeOrder, ScreenTypes, screen
<1> QED
  BY <1>3, <1>4 DEF ServeOrder

LEMMA FaultTypes ==
  ASSUME ScreenTypes, NEW n \in Slots, Fault(n)
  PROVE  ScreenTypes'
<1>1. net[n] \in Reads(screen) \cup Orders(screen)
  BY DEF Fault, ScreenTypes, UnderWay, Free, FreeSlot
<1>2. [net[n] EXCEPT !.pc = "lost"] \in Reads(screen) \cup Orders(screen)
  BY <1>1 DEF Reads, Orders
<1>3. net' \in [Slots -> UnderWay(screen)]
  BY <1>2 DEF Fault, ScreenTypes, UnderWay
<1>4. spent' \in Spent
  BY TroubleSpends DEF Fault, ScreenTypes
<1> QED
  BY <1>3, <1>4 DEF Fault, ScreenTypes, screen

LEMMA AnsweredTypes ==
  ASSUME ScreenTypes, NEW n \in Slots, Succeed(n) \/ FailOrder(n)
  PROVE  ScreenTypes'
<1> DEFINE act == screen.acts[net[n].op]
<1>1. net[n] \in Orders(screen)
  BY OrderTyped DEF Succeed, FailOrder
<1>2. ASSUME NEW holds \in BOOLEAN PROVE Read(at, holds) \in UnderWay(screen)
  BY DEF ScreenTypes, Read, Reads, UnderWay
<1>3. FreeSlot \in UnderWay(screen)
  BY DEF UnderWay
<1>4. Released(n) \in Objs \cup {None}
  BY DEF Released, ScreenTypes
<1>5. CASE Succeed(n) /\ act.then # ""
  <2>1. act.then \in DOMAIN screen.acts
    BY <1>1, <1>5, ScreenWellFormed DEF ScreenTypes, WellFormed, Orders
  <2>2. Order(act.then, net[n].of, net[n].st) \in UnderWay(screen)
    BY <1>1, <2>1 DEF Order, Orders, UnderWay
  <2>3. net' \in [Slots -> UnderWay(screen)]
    BY <1>5, <2>2 DEF Succeed, ScreenTypes
  <2> QED
    BY <1>5, <2>3 DEF Succeed, ScreenTypes, screen
<1>6. CASE Succeed(n) /\ ~(act.then # "")
  <2>1. (act.ok = "reload" /\ Holds(act)) \in BOOLEAN
    OBVIOUS
  <2>2. net' \in [Slots -> UnderWay(screen)]
    BY <1>6, <2>1, <1>2, <1>3 DEF Succeed, ScreenTypes
  <2>3. net[n].got \in SUBSET Row(screen)
    BY <1>1 DEF Orders
  <2>4. rows' \in SUBSET Row(screen)
    <3>1. /\ rows \in SUBSET Row(screen) /\ here \in DOMAIN Catalog
      BY DEF ScreenTypes
    <3>2. Changed(net[n].of, After(net[n].op)) \in SUBSET Row(screen)
      BY <3>1, ChangedTypes, OutcomeTypes
    <3>3. Changed(net[n].of, screen.flips) \in SUBSET Row(screen)
      BY <3>1, ChangedTypes, FlipTypes
    <3>4. rows' \in {Changed(net[n].of, After(net[n].op)), Changed(net[n].of, screen.flips),
                     net[n].got, {}, rows}
      BY <1>6 DEF Succeed
    <3> QED
      BY <2>3, <3>1, <3>2, <3>3, <3>4
  <2>5. busy' \in Objs \cup {None} /\ closed' \in BOOLEAN
    BY <1>6, <1>4 DEF Succeed, ScreenTypes
  <2> QED
    BY <1>6, <2>2, <2>4, <2>5 DEF Succeed, ScreenTypes, screen
<1>7. CASE FailOrder(n)
  <2>1. net' \in [Slots -> UnderWay(screen)]
    BY <1>7, <1>2, <1>3 DEF FailOrder, ScreenTypes
  <2>2. rows' \in SUBSET Row(screen)
    BY <1>7, <1>1, ChangedTypes, FlipTypes DEF FailOrder, ScreenTypes, Orders
  <2> QED
    BY <1>7, <1>4, <2>1, <2>2 DEF FailOrder, ScreenTypes, screen
<1> QED
  BY <1>5, <1>6, <1>7

LEMMA OthersTypes ==
  ASSUME ScreenTypes, NEW x \in Objs, NEW o, Others(x, o)
  PROVE  ScreenTypes'
<1>1. server' \in [Objs -> screen.statuses]
  BY DEF Others, ScreenTypes, Does
<1>2. spent' \in Spent
  BY TroubleSpends DEF Others, ScreenTypes
<1> QED
  BY <1>1, <1>2 DEF Others, ScreenTypes, screen

LEMMA StepTypes == ASSUME ScreenTypes, [ScreensNext]_vars PROVE ScreenTypes'
<1>1. CASE UNCHANGED vars
  BY <1>1 DEF vars, ScreenTypes, screen
<1>2. CASE ScreensNext
  BY <1>2, ReadTypes, MoveTypes, PressTypes, ServeOrderTypes, FaultTypes, AnsweredTypes,
     OthersTypes DEF ScreensNext, Pages
<1> QED
  BY <1>1, <1>2

\* For any catalog, the screen keeps rows of its own objects in statuses it
\* knows, and requests of its own kinds, whatever is late, lost or refused.
THEOREM TypesCorrect == ScreensSpec => []ScreensTypeOK
<1>1. ScreenTypes => ScreensTypeOK
  BY DEF ScreenTypes, ScreensTypeOK, UnderWay, FreeSlot, Reads, Orders
<1> QED
  BY <1>1, InitTypes, StepTypes, PTL DEF ScreensSpec
-----------------------------------------------------------------------------
(* One thing at a time                                                     *)

\* What is left when the only request is answered.
LEMMA SlotFreed ==
  ASSUME NEW n \in Slots, Only(n), net \in [Slots -> UnderWay(screen)],
         net' = [net EXCEPT ![n] = FreeSlot]
  PROVE  Quiet'
BY DEF Only, Quiet, Free, FreeSlot

\* What becomes of the only request, or of none.
LEMMA SlotTaken ==
  ASSUME NEW n \in Slots, Only(n) \/ Quiet, net \in [Slots -> UnderWay(screen)],
         NEW request, request.kind # "free", net' = [net EXCEPT ![n] = request]
  PROVE  Only(n)' /\ net'[n] = request
BY DEF Only, Quiet, Free

\* A taken slot of a screen with one thing at a time is the one it has.
LEMMA TheOnly ==
  ASSUME OneAtATime, NEW n \in Slots, ~Free(n)
  PROVE  Only(n) /\ ~closed /\ (BeingRead(net[n]) \/ BeingDone(net[n]))
<1>1. ~AtRest
  BY DEF AtRest, Quiet
<1>2. PICK m \in Slots : Only(m) /\ ~closed /\ (BeingRead(net[m]) \/ BeingDone(net[m]))
  BY <1>1 DEF OneAtATime
<1>3. m = n
  BY <1>2 DEF Only
<1> QED
  BY <1>2, <1>3

\* What a control of a serial screen is like.
LEMMA SerialControls ==
  ASSUME Serial(screen), NEW s \in screen.statuses, NEW o \in screen.offers[s]
  PROVE  /\ screen.acts[o].lock = "screen"
         /\ screen.acts[o].ok \in {"reload", "leave"}
         /\ screen.acts[o].on = "shown"
         /\ ~screen.acts[o].early
         /\ screen.acts[o].then = ""
         /\ Holds(screen.acts[o])
BY DEF Serial, Holds

LEMMA InitSerial == ASSUME ScreensInit PROVE SerialInv
<1>1. ScreenTypes
  BY InitTypes
<1>2. 1 \in Slots
  BY BoundsAssumption DEF Slots
<1>3. Only(1) /\ net[1] = Read(at, screen.load.locks)
  BY <1>2 DEF ScreensInit, Only, Free, FreeSlot, Read
<1>4. busy # None => screen.load.locks
  BY DEF ScreensInit
<1>5. BeingRead(net[1])
  BY <1>3, <1>4 DEF ScreensInit, BeingRead, Read
<1> QED
  BY <1>1, <1>2, <1>3, <1>5 DEF SerialInv, OneAtATime, ScreensInit

LEMMA ReadSerial ==
  ASSUME ScreenTypes, Serial(screen), OneAtATime, NEW n \in Slots,
         ServeRead(n) \/ ShowRead(n) \/ ReadAgain(n)
  PROVE  OneAtATime'
<1>1. CASE ServeRead(n)
  <2>1. Only(n) /\ ~closed /\ BeingRead(net[n])
    BY <1>1, TheOnly DEF ServeRead, Free, BeingDone
  <2>2. net[n] \in Reads(screen)
    BY <1>1 DEF ServeRead, ScreenTypes, UnderWay, FreeSlot, Orders
  <2> DEFINE read == [net[n] EXCEPT !.pc = "back", !.got = View(screen, at, server)]
  <2>3. /\ read.kind = "read" /\ read.at = at /\ read.pc = "back"
        /\ read.got = View(screen, at, server) /\ read.holds = net[n].holds
    BY <2>1, <2>2 DEF BeingRead, Reads
  <2>4. net' = [net EXCEPT ![n] = read]
    BY <1>1, <2>1 DEF ServeRead, BeingRead
  <2>5. Only(n)' /\ net'[n] = read
    BY <2>1, <2>3, <2>4, SlotTaken DEF ScreenTypes
  <2>6. UNCHANGED <<here, at, server, busy, rows, closed>>
    BY <1>1 DEF ServeRead
  <2>7. BeingRead(net[n])'
    BY <2>1, <2>3, <2>5, <2>6 DEF BeingRead, screen
  <2> QED
    BY <2>1, <2>5, <2>6, <2>7 DEF OneAtATime
<1>2. CASE ShowRead(n)
  <2>1. Only(n) /\ ~closed /\ BeingRead(net[n])
    BY <1>2, TheOnly DEF ShowRead, Free, BeingDone
  <2>2. net[n].pc = "back"
    BY <1>2, <2>1 DEF ShowRead, BeingRead, ScreenTypes, UnderWay, FreeSlot, Reads, Orders
  <2>3. Quiet'
    BY <1>2, <2>1, SlotFreed DEF ShowRead, ScreenTypes
  <2>4. busy' = None
    BY <1>2, <2>1 DEF ShowRead, BeingRead
  <2>5. rows' = net[n].got
    BY <1>2, <2>1, <2>2 DEF ShowRead
  <2>6. rows' = View(screen, at, server)
    BY <2>1, <2>2, <2>5 DEF BeingRead
  <2> QED
    BY <1>2, <2>3, <2>4, <2>6 DEF ShowRead, OneAtATime, AtRest, screen
<1>3. CASE ReadAgain(n)
  BY <1>3 DEF ReadAgain, Serial
<1> QED
  BY <1>1, <1>2, <1>3

LEMMA PressSerial ==
  ASSUME ScreenTypes, Serial(screen), OneAtATime, NEW n \in Slots, NEW r \in rows,
         NEW o, o \in screen.offers[r.st], Press(r, o, n)
  PROVE  OneAtATime'
<1>1. r.of \in Objs /\ r.st \in screen.statuses
  BY DEF ScreenTypes, Row
<1>2. /\ screen.acts[o].lock = "screen" /\ screen.acts[o].on = "shown"
      /\ Holds(screen.acts[o])
  BY <1>1, SerialControls
<1>3. busy = None
  BY <1>2 DEF Press, Enabled
<1>4. AtRest
  BY <1>3 DEF OneAtATime, BeingRead, BeingDone
<1>5. r.st = server[r.of]
  BY <1>3, <1>4 DEF AtRest, View, Shown, Press
<1>6. net' = [net EXCEPT ![n] = Order(o, r.of, r.st)]
  BY <1>2 DEF Press
<1>7. Only(n)' /\ net'[n] = Order(o, r.of, r.st)
  BY <1>4, <1>6, SlotTaken DEF ScreenTypes, Order, AtRest
<1>8. busy' # None
  BY <1>1, <1>2, BoundsAssumption DEF Press
<1>9. BeingDone(Order(o, r.of, r.st))'
  BY <1>1, <1>5, <1>8 DEF Press, BeingDone, Order, screen
<1> QED
  BY <1>7, <1>9 DEF Press, OneAtATime

LEMMA ServeOrderSerial ==
  ASSUME ScreenTypes, Serial(screen), SerialAgrees, OneAtATime, NEW n \in Slots, ServeOrder(n)
  PROVE  OneAtATime'
<1>1. Only(n) /\ ~closed /\ BeingDone(net[n])
  BY TheOnly DEF ServeOrder, Free, BeingRead
<1>2. net[n] \in Orders(screen) /\ server[net[n].of] = net[n].st
  BY <1>1, OrderTyped DEF ServeOrder, BeingDone
<1>3. Does(net[n].op, server[net[n].of]) # Refusal
  BY <1>1, <1>2 DEF SerialAgrees, ScreenTypes, screen, BeingDone, Orders, Does, Refusal
<1>4. PICK t : net' = [net EXCEPT ![n].pc = "back", ![n].got = Shown(net[n].of, t)]
  BY <1>3 DEF ServeOrder
<1> DEFINE op == [net[n] EXCEPT !.pc = "back", !.got = Shown(net[n].of, t)]
<1>5. /\ op.kind = "op" /\ op.pc = "back" /\ op.op = net[n].op /\ op.st = net[n].st
  BY <1>2 DEF Orders
<1>6. Only(n)' /\ net'[n] = op
  <2>1. net' = [net EXCEPT ![n] = op]
    BY <1>4
  <2> QED
    BY <1>1, <1>5, <2>1, SlotTaken DEF ScreenTypes
<1>7. UNCHANGED <<here, busy, closed>>
  BY DEF ServeOrder
<1>8. BeingDone(net[n])'
  BY <1>1, <1>5, <1>6, <1>7 DEF BeingDone, screen
<1> QED
  BY <1>1, <1>6, <1>7, <1>8 DEF OneAtATime

LEMMA AnsweredSerial ==
  ASSUME ScreenTypes, Serial(screen), OneAtATime, NEW n \in Slots, Succeed(n) \/ FailOrder(n)
  PROVE  OneAtATime'
<1> DEFINE act == screen.acts[net[n].op]
<1>1. Only(n) /\ ~closed /\ BeingDone(net[n])
  BY TheOnly DEF Succeed, FailOrder, Free, BeingRead
<1>2. Succeed(n)
  BY <1>1 DEF FailOrder, BeingDone
<1>3. net[n] \in Orders(screen)
  BY <1>2, OrderTyped DEF Succeed
<1>4. act.ok \in {"reload", "leave"} /\ act.then = "" /\ Holds(act)
  BY <1>1, <1>3, SerialControls DEF BeingDone, Orders
<1>5. CASE act.ok = "reload"
  <2>1. net' = [net EXCEPT ![n] = Read(at, TRUE)]
    BY <1>2, <1>4, <1>5 DEF Succeed, Rereads
  <2>2. Only(n)' /\ net'[n] = Read(at, TRUE)
    BY <1>1, <2>1, SlotTaken DEF ScreenTypes, Read
  <2>3. busy' = busy /\ ~closed' /\ at' = at
    BY <1>1, <1>2, <1>4, <1>5 DEF Succeed
  <2>4. BeingRead(Read(at, TRUE))'
    BY <1>1, <2>3 DEF BeingRead, BeingDone, Read
  <2> QED
    BY <1>1, <2>2, <2>3, <2>4 DEF OneAtATime
<1>6. CASE act.ok = "leave"
  <2>1. net' = [net EXCEPT ![n] = FreeSlot] /\ closed'
    BY <1>2, <1>4, <1>6 DEF Succeed, Rereads
  <2>2. Quiet'
    BY <1>1, <2>1, SlotFreed DEF ScreenTypes
  <2> QED
    BY <2>1, <2>2 DEF OneAtATime, AtRest
<1> QED
  BY <1>4, <1>5, <1>6

\* Serial screens keep to one thing at a time as long as nobody interferes.
LEMMA StepSerial == ASSUME SerialAgrees, SerialInv, [ScreensNext]_vars PROVE SerialInv'
<1>1. ScreenTypes /\ ScreenTypes'
  BY StepTypes DEF SerialInv
<1>2. SUFFICES ASSUME Serial(screen)', Alone' PROVE OneAtATime'
  BY <1>1 DEF SerialInv
<1>3. CASE UNCHANGED vars
  <2>1. Serial(screen) /\ Alone
    BY <1>2, <1>3 DEF vars, screen, Alone
  <2>2. OneAtATime
    BY <2>1 DEF SerialInv
  <2> QED
    BY <1>3, <2>2 DEF vars, OneAtATime, AtRest, Only, Quiet, Free, BeingRead, BeingDone, screen
<1>4. CASE ScreensNext
  <2>1. here' = here
    <3>1. ASSUME NEW n \in Slots, ServeRead(n) \/ ShowRead(n) \/ ReadAgain(n) \/ ServeOrder(n)
          PROVE  here' = here
      BY <3>1 DEF ServeRead, ShowRead, ReadAgain, ServeOrder
    <3>2. ASSUME NEW n \in Slots, Fault(n) \/ Succeed(n) \/ FailOrder(n)
          PROVE  here' = here
      BY <3>2 DEF Fault, Succeed, FailOrder
    <3>3. ASSUME NEW n \in Slots, NEW p, NEW r, NEW o, Move(p, n) \/ Press(r, o, n)
          PROVE  here' = here
      BY <3>3 DEF Move, Press
    <3>4. ASSUME NEW x, NEW o, Others(x, o)
          PROVE  here' = here
      BY <3>4 DEF Others
    <3> QED
      BY <1>4, <3>1, <3>2, <3>3, <3>4 DEF ScreensNext
  <2>2. Serial(screen)
    BY <1>2, <2>1 DEF screen
  <2>3. ASSUME NEW n \in Slots, \/ ServeRead(n) \/ ShowRead(n) \/ ReadAgain(n)
                                \/ ServeOrder(n) \/ Succeed(n) \/ FailOrder(n)
        PROVE  OneAtATime'
    <3>1. spent' = spent
      BY <2>3 DEF ServeRead, ShowRead, ReadAgain, ServeOrder, Succeed, FailOrder
    <3>2. OneAtATime
      BY <1>2, <2>2, <3>1 DEF SerialInv, Alone
    <3> QED
      BY <1>1, <2>2, <2>3, <3>2, ReadSerial, ServeOrderSerial, AnsweredSerial
  <2>4. ASSUME NEW n \in Slots, NEW r \in rows, NEW o \in screen.offers[r.st], Press(r, o, n)
        PROVE  OneAtATime'
    <3>1. Alone
      BY <1>1, <1>2, <2>4, PressSpends DEF Press, ScreenTypes
    <3>2. OneAtATime
      BY <2>2, <3>1 DEF SerialInv
    <3> QED
      BY <1>1, <2>2, <2>4, <3>2, PressSerial
  <2>5. ASSUME NEW n, NEW p, NEW x, NEW o, Fault(n) \/ Move(p, n) \/ Others(x, o)
        PROVE  FALSE
    BY <1>1, <1>2, <2>5, TroubleSpends DEF Fault, Move, Others, ScreenTypes
  <2> QED
    BY <1>4, <2>3, <2>4, <2>5 DEF ScreensNext
<1> QED
  BY <1>3, <1>4

\* A user who is alone with his objects, whose requests all arrive, is never
\* refused on a serial screen, whichever screens there are, as long as what
\* they offer is what the server accepts.
THEOREM NeverRefused == ASSUME SerialAgrees PROVE ScreensSpec => []AloneNeverRefused
<1>1. SerialInv => AloneNeverRefused
  BY TheOnly DEF SerialInv, AloneNeverRefused, Free, BeingRead, BeingDone
<1>2. SerialInv /\ [ScreensNext]_vars => SerialInv'
  BY StepSerial
<1> QED
  BY <1>1, <1>2, InitSerial, PTL DEF ScreensSpec

\* When nothing is under way such a screen shows what the server holds.
THEOREM QuietShowsTruth == ASSUME SerialAgrees PROVE ScreensSpec => []QuietIsCurrent
<1>1. SerialInv => QuietIsCurrent
  BY DEF SerialInv, QuietIsCurrent, OneAtATime, AtRest, Only, Quiet
<1>2. SerialInv /\ [ScreensNext]_vars => SerialInv'
  BY StepSerial
<1> QED
  BY <1>1, <1>2, InitSerial, PTL DEF ScreensSpec
-----------------------------------------------------------------------------
(* What is offered is accepted                                             *)

\* The server accepts an operation on an object in a status.
Accepts(sc, o, s) == \E t \in sc.statuses : <<o, s, t>> \in sc.moves

\* The statuses an object begins in, and those an operation leaves it in.
Kept(sc) == sc.start \cup {m[3] : m \in sc.moves}

\* The server accepts what a screen offers, and what the same press asks next.
ControlAgrees(sc, o, s) ==
  /\ Accepts(sc, o, s)
  /\ sc.acts[o].then # "" =>
       \A t \in sc.statuses : <<o, s, t>> \in sc.moves => Accepts(sc, sc.acts[o].then, t)

ScreenAgrees(sc) ==
  \A s \in Kept(sc) \cap sc.statuses :
    \A o \in sc.offers[s] \ sc.blind : ControlAgrees(sc, o, s)

AllAgree == \A i \in DOMAIN Catalog : ScreenAgrees(Catalog[i])

KeptInv == ScreenTypes /\ server \in [Objs -> Kept(screen)]

LEMMA MovesKeep ==
  ASSUME NEW o, NEW s, NEW t \in Does(o, s)
  PROVE  t \in Kept(screen)
<1>1. <<o, s, t>> \in screen.moves /\ <<o, s, t>>[3] = t
  BY DEF Does
<1> QED
  BY <1>1 DEF Kept

LEMMA InitKept == ASSUME ScreensInit PROVE KeptInv
BY InitTypes DEF ScreensInit, KeptInv, Kept

\* Only operations change what the server holds.
LEMMA ServerSteps ==
  ASSUME ScreenTypes, ScreensNext
  PROVE  /\ here' = here
         /\ \/ server' = server
            \/ \E x \in Objs : \E o : \E t \in Does(o, server[x]) :
                  server' = [server EXCEPT ![x] = t]
<1>1. ASSUME NEW n \in Slots, \/ ServeRead(n) \/ ShowRead(n) \/ ReadAgain(n)
                              \/ Fault(n) \/ Succeed(n) \/ FailOrder(n)
      PROVE  here' = here /\ server' = server
  BY <1>1 DEF ServeRead, ShowRead, ReadAgain, Fault, Succeed, FailOrder
<1>2. ASSUME NEW n, NEW p, NEW r, NEW o, Move(p, n) \/ Press(r, o, n)
      PROVE  here' = here /\ server' = server
  BY <1>2 DEF Move, Press
<1>3. ASSUME NEW n \in Slots, ServeOrder(n)
      PROVE  /\ here' = here
             /\ \/ server' = server
                \/ \E x \in Objs : \E o : \E t \in Does(o, server[x]) :
                      server' = [server EXCEPT ![x] = t]
  <2>1. net[n].of \in Objs
    BY <1>3, OrderTyped DEF ServeOrder, Orders
  <2> QED
    BY <1>3, <2>1 DEF ServeOrder
<1>4. ASSUME NEW x \in Objs, NEW o, Others(x, o)
      PROVE  /\ here' = here
             /\ \E t \in Does(o, server[x]) : server' = [server EXCEPT ![x] = t]
  BY <1>4 DEF Others
<1> QED
  BY <1>1, <1>2, <1>3, <1>4 DEF ScreensNext

LEMMA StepKept == ASSUME KeptInv, [ScreensNext]_vars PROVE KeptInv'
<1>1. ScreenTypes /\ ScreenTypes'
  BY StepTypes DEF KeptInv
<1>2. CASE UNCHANGED vars
  BY <1>1, <1>2 DEF KeptInv, vars, screen
<1>3. CASE ScreensNext
  <2>1. screen' = screen
    BY <1>1, <1>3, ServerSteps DEF screen
  <2>2. CASE server' = server
    BY <1>1, <2>1, <2>2 DEF KeptInv
  <2>3. ASSUME NEW x \in Objs, NEW o, NEW t \in Does(o, server[x]),
               server' = [server EXCEPT ![x] = t]
        PROVE  server' \in [Objs -> Kept(screen)]
    BY <2>3, MovesKeep DEF KeptInv
  <2> QED
    BY <1>1, <1>3, <2>1, <2>2, <2>3, ServerSteps DEF KeptInv
<1> QED
  BY <1>2, <1>3

LEMMA KeptAccepted == ASSUME AllAgree, KeptInv PROVE OfferedIsAccepted
<1> SUFFICES ASSUME NEW r \in rows, NEW o \in screen.offers[r.st] \ screen.blind,
                    r.st = server[r.of]
             PROVE  /\ Does(o, r.st) # Refusal
                    /\ screen.acts[o].then # "" =>
                         \A t \in Does(o, r.st) : Does(screen.acts[o].then, t) # Refusal
  BY DEF OfferedIsAccepted
<1>1. r.of \in Objs /\ r.st \in screen.statuses
  BY DEF KeptInv, ScreenTypes, Row
<1>2. r.st \in Kept(screen)
  BY <1>1 DEF KeptInv
<1>3. ControlAgrees(screen, o, r.st)
  BY <1>1, <1>2 DEF AllAgree, ScreenAgrees, KeptInv, ScreenTypes, screen
<1>4. ASSUME NEW op, NEW s, Accepts(screen, op, s)
      PROVE  Does(op, s) # Refusal
  BY <1>4 DEF Accepts, Does, Refusal
<1> QED
  BY <1>3, <1>4 DEF ControlAgrees, Does

\* Whatever is late, lost or changed elsewhere: a control offered for what its
\* object still is is accepted, and so is what the press asks next, if the
\* conditions of the components agree with the guards of the server in every
\* status an object can come to.
THEOREM AgreementSuffices == ASSUME AllAgree PROVE ScreensSpec => []OfferedIsAccepted
<1>1. KeptInv => OfferedIsAccepted
  BY KeptAccepted
<1> QED
  BY <1>1, InitKept, StepKept, PTL DEF ScreensSpec
-----------------------------------------------------------------------------
(* The screens of the program                                              *)

ScreenAnswers(sc) == \A s \in sc.statuses : \A o \in sc.offers[s] : ControlAgrees(sc, o, s)

\* What the two hypotheses above ask of one screen.
Agrees(sc) ==
  /\ ScreenAgrees(sc)
  /\ Serial(sc) => \A s \in sc.statuses : \A o \in sc.offers[s] : Accepts(sc, o, s)

LEMMA AnswersAgree == ASSUME NEW sc, ScreenAnswers(sc) PROVE Agrees(sc)
BY DEF Agrees, ScreenAnswers, ScreenAgrees, ControlAgrees

LEMMA NoControls ==
  ASSUME NEW sc, \A s \in sc.statuses : sc.offers[s] = {}
  PROVE  Agrees(sc)
<1>1. ScreenAnswers(sc)
  BY DEF ScreenAnswers
<1> QED
  BY <1>1, AnswersAgree

\* Friends, profiles, subscriptions.

LEMMA FriendsAgrees == Agrees(FriendsScreen)
<1> DEFINE sc == FriendsScreen
<1>1. /\ sc.statuses = FriendStatuses /\ sc.moves = FriendMoves
      /\ sc.offers = FriendsOffers /\ sc.acts = FriendsActs
  BY DEF FriendsScreen, Screen
<1>2. ASSUME NEW s \in FriendStatuses, NEW o \in FriendsOffers[s]
      PROVE  <<s, o>> \in {<<"none", "add">>, <<"out", "cancel">>, <<"in", "accept">>,
                           <<"in", "reject">>}
  BY DEF FriendStatuses, FriendsOffers
<1>3. ASSUME NEW s \in FriendStatuses, NEW o \in FriendsOffers[s]
      PROVE  \E t \in FriendStatuses : <<o, s, t>> \in FriendMoves
  BY <1>2 DEF FriendStatuses, FriendMoves
<1>4. /\ FriendsActs["accept"].then = ""
      /\ FriendsActs["add"].then = ""
      /\ FriendsActs["cancel"].then = ""
      /\ FriendsActs["reject"].then = ""
  BY DEF FriendsActs, Act
<1>5. ASSUME NEW s \in FriendStatuses, NEW o \in FriendsOffers[s]
      PROVE  FriendsActs[o].then = ""
  BY <1>2, <1>4
<1> QED
  BY <1>1, <1>3, <1>5, AnswersAgree DEF ScreenAnswers, ControlAgrees, Accepts

LEMMA ProfileAgrees == Agrees(ProfileScreen)
<1> DEFINE sc == ProfileScreen
<1>1. /\ sc.statuses = FriendStatuses /\ sc.moves = FriendMoves
      /\ sc.offers = ProfileOffers /\ sc.acts = ProfileActs
  BY DEF ProfileScreen, Screen
<1>2. ASSUME NEW s \in FriendStatuses, NEW o \in ProfileOffers[s]
      PROVE  <<s, o>> \in {<<"none", "add">>, <<"out", "cancel">>, <<"in", "accept">>,
                           <<"in", "reject">>, <<"friends", "remove">>}
  BY DEF FriendStatuses, ProfileOffers
<1>3. ASSUME NEW s \in FriendStatuses, NEW o \in ProfileOffers[s]
      PROVE  \E t \in FriendStatuses : <<o, s, t>> \in FriendMoves
  BY <1>2 DEF FriendStatuses, FriendMoves
<1>4. /\ ProfileActs["accept"].then = ""
      /\ ProfileActs["add"].then = ""
      /\ ProfileActs["cancel"].then = ""
      /\ ProfileActs["reject"].then = ""
      /\ ProfileActs["remove"].then = ""
  BY DEF ProfileActs, Act
<1>5. ASSUME NEW s \in FriendStatuses, NEW o \in ProfileOffers[s]
      PROVE  ProfileActs[o].then = ""
  BY <1>2, <1>4
<1> QED
  BY <1>1, <1>3, <1>5, AnswersAgree DEF ScreenAnswers, ControlAgrees, Accepts

LEMMA SubscriptionsAgrees == Agrees(SubscriptionsScreen)
<1> DEFINE sc == SubscriptionsScreen
<1>1. /\ sc.statuses = SubscriptionStatuses /\ sc.moves = SubscriptionMoves
      /\ sc.offers = SubscriptionOffers /\ sc.acts = SubscriptionsActs
  BY DEF SubscriptionsScreen, Screen
<1>2. ASSUME NEW s \in SubscriptionStatuses, NEW o \in SubscriptionOffers[s]
      PROVE  <<s, o>> \in {<<"on", "unsubscribe">>, <<"off", "subscribe">>}
  BY DEF SubscriptionStatuses, SubscriptionOffers
<1>3. ASSUME NEW s \in SubscriptionStatuses, NEW o \in SubscriptionOffers[s]
      PROVE  \E t \in SubscriptionStatuses : <<o, s, t>> \in SubscriptionMoves
  BY <1>2 DEF SubscriptionStatuses, SubscriptionMoves
<1>4. /\ SubscriptionsActs["subscribe"].then = ""
      /\ SubscriptionsActs["unsubscribe"].then = ""
  BY DEF SubscriptionsActs, Act
<1>5. ASSUME NEW s \in SubscriptionStatuses, NEW o \in SubscriptionOffers[s]
      PROVE  SubscriptionsActs[o].then = ""
  BY <1>2, <1>4
<1> QED
  BY <1>1, <1>3, <1>5, AnswersAgree DEF ScreenAnswers, ControlAgrees, Accepts

LEMMA CompaniesAgrees == Agrees(CompaniesScreen)
<1> DEFINE sc == CompaniesScreen
<1>1. /\ sc.statuses = SubscriptionStatuses /\ sc.moves = SubscriptionMoves
      /\ sc.offers = SubscriptionOffers /\ sc.acts = CompaniesActs
  BY DEF CompaniesScreen, Screen
<1>2. ASSUME NEW s \in SubscriptionStatuses, NEW o \in SubscriptionOffers[s]
      PROVE  <<s, o>> \in {<<"on", "unsubscribe">>, <<"off", "subscribe">>}
  BY DEF SubscriptionStatuses, SubscriptionOffers
<1>3. ASSUME NEW s \in SubscriptionStatuses, NEW o \in SubscriptionOffers[s]
      PROVE  \E t \in SubscriptionStatuses : <<o, s, t>> \in SubscriptionMoves
  BY <1>2 DEF SubscriptionStatuses, SubscriptionMoves
<1>4. /\ CompaniesActs["subscribe"].then = ""
      /\ CompaniesActs["unsubscribe"].then = ""
  BY DEF CompaniesActs, Act
<1>5. ASSUME NEW s \in SubscriptionStatuses, NEW o \in SubscriptionOffers[s]
      PROVE  CompaniesActs[o].then = ""
  BY <1>2, <1>4
<1> QED
  BY <1>1, <1>3, <1>5, AnswersAgree DEF ScreenAnswers, ControlAgrees, Accepts

\* Support.

LEMMA TicketsMoved ==
  ASSUME NEW t \in Tickets
  PROVE  /\ \A o \in {"message", "note"} : <<o, t, Ticket(t.is, AddedTo(t))>> \in TicketMoves
         /\ <<"reply", t, Ticket(IF t.is = "open" THEN "in_progress" ELSE t.is, AddedTo(t))>>
              \in TicketMoves
         /\ \A is \in TicketStates : <<is, t, Ticket(is, t.said)>> \in TicketMoves
         /\ t.is # "closed" => <<"close", t, Ticket("closed", t.said)>> \in TicketMoves
         /\ t.is \in TicketStates /\ t.said \in 0..MaxSaid /\ AddedTo(t) \in 0..MaxSaid
<1>1. t.is \in TicketStates /\ t.said \in 0..MaxSaid
  BY DEF Tickets, Ticket
<1>2. AddedTo(t) \in 0..MaxSaid
  BY <1>1 DEF AddedTo, MaxSaid
<1> DEFINE talk(u) == {<<"create", u, u>>,
             <<"message", u, Ticket(u.is, AddedTo(u))>>,
             <<"note", u, Ticket(u.is, AddedTo(u))>>,
             <<"reply", u, Ticket(IF u.is = "open" THEN "in_progress" ELSE u.is, AddedTo(u))>>}
           talks == UNION {talk(u) : u \in Tickets}
           sets == {<<is, u, Ticket(is, u.said)>> : is \in TicketStates, u \in Tickets}
           closes == {<<"close", u, Ticket("closed", u.said)>>
                        : u \in {v \in Tickets : v.is # "closed"}}
<1>3. talks \subseteq TicketMoves /\ sets \subseteq TicketMoves /\ closes \subseteq TicketMoves
  <2>1. TicketMoves = {<<"create", NoTicket, Ticket("open", 1)>>} \cup talks \cup sets \cup closes
    BY DEF TicketMoves
  <2> QED
    BY <2>1
<1>4. talk(t) \subseteq talks
  OBVIOUS
<1>5. \A is \in TicketStates : <<is, t, Ticket(is, t.said)>> \in sets
  OBVIOUS
<1>6. t.is # "closed" => <<"close", t, Ticket("closed", t.said)>> \in closes
  OBVIOUS
<1>7. talk(t) \subseteq TicketMoves
  BY <1>3, <1>4
<1> HIDE DEF talks, sets, closes
<1> QED
  BY <1>1, <1>2, <1>3, <1>5, <1>6, <1>7

LEMMA TicketsKnown ==
  ASSUME NEW is \in TicketStates, NEW said \in 0..MaxSaid
  PROVE  Ticket(is, said) \in TicketStatuses
BY DEF TicketStatuses, Tickets

LEMMA TicketsAgrees == Agrees(TicketsScreen)
<1> DEFINE sc == TicketsScreen
<1>1. /\ sc.statuses = TicketStatuses /\ sc.moves = TicketMoves
      /\ sc.offers = TicketsOffers /\ sc.acts = TicketsActs
  BY DEF TicketsScreen, Screen
<1>2. ASSUME NEW t \in TicketStatuses, NEW o \in TicketsOffers[t]
      PROVE  \/ t = NoTicket /\ o = "create"
             \/ t \in Tickets /\ t.is \in {"open", "in_progress"} /\ o \in {"message", "close"}
  <2>1. CASE t = NoTicket
    BY <2>1 DEF TicketsOffers, TicketStatuses, NoTicket, Ticket
  <2>2. CASE t # NoTicket
    <3>1. t \in Tickets
      BY <2>2 DEF TicketStatuses
    <3>2. TicketsOffers[t] = IF t.is \in {"open", "in_progress"} THEN {"message", "close"}
                             ELSE {}
      BY <2>2 DEF TicketsOffers
    <3> QED
      BY <3>1, <3>2
  <2> QED
    BY <2>1, <2>2
<1>3. Accepts(sc, "create", NoTicket)
  <2>1. <<"create", NoTicket, Ticket("open", 1)>> \in TicketMoves
    BY DEF TicketMoves
  <2>2. Ticket("open", 1) \in TicketStatuses
    BY TicketsKnown DEF TicketStates, MaxSaid
  <2> QED
    BY <1>1, <2>1, <2>2 DEF Accepts
<1>4. ASSUME NEW t \in Tickets, t.is \in {"open", "in_progress"}, NEW o \in {"message", "close"}
      PROVE  Accepts(sc, o, t)
  <2>1. Ticket(t.is, AddedTo(t)) \in TicketStatuses
    BY TicketsMoved, TicketsKnown
  <2>2. Ticket("closed", t.said) \in TicketStatuses
    BY TicketsMoved, TicketsKnown DEF TicketStates
  <2>3. \/ <<o, t, Ticket(t.is, AddedTo(t))>> \in TicketMoves
        \/ <<o, t, Ticket("closed", t.said)>> \in TicketMoves
    BY <1>4, TicketsMoved
  <2> QED
    BY <1>1, <2>1, <2>2, <2>3 DEF Accepts
<1>5. /\ TicketsActs["create"].then = "" /\ TicketsActs["message"].then = ""
      /\ TicketsActs["close"].then = ""
  BY DEF TicketsActs, Act
<1>6. ASSUME NEW t \in TicketStatuses, NEW o \in TicketsOffers[t]
      PROVE  Accepts(sc, o, t) /\ TicketsActs[o].then = ""
  BY <1>2, <1>3, <1>4, <1>5
<1> QED
  BY <1>1, <1>6, AnswersAgree DEF ScreenAnswers, ControlAgrees

LEMMA ThreadAgrees == Agrees(ThreadScreen)
BY NoControls DEF ThreadScreen, Screen

LEMMA QueueAgrees == Agrees(QueueScreen)
BY NoControls DEF QueueScreen, Screen

LEMMA AdminThreadAgrees == Agrees(AdminThreadScreen)
<1> DEFINE sc == AdminThreadScreen
<1>1. /\ sc.statuses = TicketStatuses /\ sc.moves = TicketMoves
      /\ sc.offers = AdminThreadOffers /\ sc.acts = AdminThreadActs
  BY DEF AdminThreadScreen, Screen
<1>2. ASSUME NEW t \in TicketStatuses, NEW o \in AdminThreadOffers[t]
      PROVE  t \in Tickets /\ o \in {"reply", "note"} \cup TicketStates
  BY DEF AdminThreadOffers, TicketStatuses
<1>3. ASSUME NEW t \in Tickets, NEW o \in {"reply", "note"} \cup TicketStates
      PROVE  Accepts(sc, o, t)
  <2>1. CASE o = "note"
    <3>1. Ticket(t.is, AddedTo(t)) \in TicketStatuses
      BY TicketsMoved, TicketsKnown
    <3> QED
      BY <1>1, <2>1, <3>1, TicketsMoved DEF Accepts
  <2>2. CASE o = "reply"
    <3> DEFINE is == IF t.is = "open" THEN "in_progress" ELSE t.is
    <3>1. is \in TicketStates
      BY TicketsMoved DEF TicketStates
    <3>2. <<o, t, Ticket(is, AddedTo(t))>> \in TicketMoves
      BY <2>2, TicketsMoved
    <3> HIDE DEF is
    <3>3. Ticket(is, AddedTo(t)) \in TicketStatuses
      BY <3>1, TicketsMoved, TicketsKnown
    <3> QED
      BY <1>1, <3>2, <3>3 DEF Accepts
  <2>3. CASE o \in TicketStates
    <3>1. Ticket(o, t.said) \in TicketStatuses
      BY <2>3, TicketsMoved, TicketsKnown
    <3> QED
      BY <1>1, <2>3, <3>1, TicketsMoved DEF Accepts
  <2> QED
    BY <2>1, <2>2, <2>3
<1>4. \A o \in {"reply", "note"} \cup TicketStates : AdminThreadActs[o].then = ""
  BY DEF AdminThreadActs, Act
<1> QED
  BY <1>1, <1>2, <1>3, <1>4, AnswersAgree DEF ScreenAnswers, ControlAgrees

\* Verification.

LEMMA VerificationAgrees == Agrees(VerificationScreen)
<1> DEFINE sc == VerificationScreen
<1>1. /\ sc.statuses = VerificationStatuses /\ sc.moves = VerificationMoves
      /\ sc.offers = VerificationOffers /\ sc.acts = VerificationActs
  BY DEF VerificationScreen, Screen
<1>2. ASSUME NEW s \in VerificationStatuses, NEW o \in VerificationOffers[s]
      PROVE  ShowForm(s) /\ o = "request"
  BY DEF VerificationOffers
\* The form is not shown while the last request is a verified one that counts.
<1>3. ASSUME NEW s \in VerificationStatuses, ShowForm(s)
      PROVE  s.last # "verified" /\ Standing(s.user, "pending") \in VerificationStatuses
  <2>1. /\ s.user \in {"pending", "rejected", "expired"}
        /\ s.last # "verified"
    BY <1>3 DEF ShowForm, VerificationStatuses, Standing
  <2> QED
    BY <2>1 DEF VerificationStatuses
<1>4. ASSUME NEW s \in VerificationStatuses, ShowForm(s)
      PROVE  Accepts(sc, "request", s)
  <2>1. <<"request", s, Standing(s.user, "pending")>> \in VerificationMoves
    BY <1>3, <1>4 DEF VerificationMoves
  <2> QED
    BY <1>1, <1>3, <1>4, <2>1 DEF Accepts
<1>5. VerificationActs["request"].then = ""
  BY DEF VerificationActs, Act
<1> QED
  BY <1>1, <1>2, <1>4, <1>5, AnswersAgree DEF ScreenAnswers, ControlAgrees

LEMMA VerificationQueueAgrees == Agrees(VerificationQueueScreen)
BY NoControls DEF VerificationQueueScreen, Screen

LEMMA ReviewAgrees == Agrees(ReviewScreen)
<1> DEFINE sc == ReviewScreen
<1>1. /\ sc.statuses = VerificationStatuses /\ sc.moves = VerificationMoves
      /\ sc.offers = ReviewOffers /\ sc.acts = ReviewActs
  BY DEF ReviewScreen, Screen
<1>2. ASSUME NEW s \in VerificationStatuses, NEW o \in ReviewOffers[s]
      PROVE  s.last = "pending" /\ o \in {"verify", "reject"}
  BY DEF ReviewOffers
<1>3. ASSUME NEW s \in VerificationStatuses, s.last = "pending", NEW o \in {"verify", "reject"}
      PROVE  Accepts(sc, o, s)
  <2>1. \/ <<o, s, Standing("verified", "verified")>> \in VerificationMoves
        \/ <<o, s, Standing("rejected", "rejected")>> \in VerificationMoves
    BY <1>3 DEF VerificationMoves
  <2>2. {Standing("verified", "verified"), Standing("rejected", "rejected")}
           \subseteq VerificationStatuses
    BY DEF VerificationStatuses
  <2> QED
    BY <1>1, <2>1, <2>2 DEF Accepts
<1>4. ReviewActs["verify"].then = "" /\ ReviewActs["reject"].then = ""
  BY DEF ReviewActs, Act
<1> QED
  BY <1>1, <1>2, <1>3, <1>4, AnswersAgree DEF ScreenAnswers, ControlAgrees

LEMMA BadgesAgrees == Agrees(BadgesScreen)
BY NoControls DEF BadgesScreen, Screen

\* Offers.

LEMMA MerchantOffersAgrees == Agrees(MerchantOffersScreen)
BY NoControls DEF MerchantOffersScreen, Screen

LEMMA EditorAgrees == Agrees(EditorScreen)
<1> DEFINE sc == EditorScreen
<1>1. /\ sc.statuses = OfferStatuses /\ sc.moves = OfferMoves
      /\ sc.offers = EditorOffers /\ sc.acts = EditorActs
  BY DEF EditorScreen, Screen
<1>2. ASSUME NEW s \in OfferStatuses, NEW o \in EditorOffers[s]
      PROVE  \/ s = "none" /\ o \in {"create", "compose"}
             \/ s = "draft" /\ o \in {"save", "revise"}
             \/ s \in Offers /\ o = "save"
  BY DEF OfferStatuses, EditorOffers, Offers
<1>3. ASSUME NEW s \in OfferStatuses, NEW o \in EditorOffers[s]
      PROVE  Accepts(sc, o, s)
  <2>1. CASE s = "none"
    <3>1. o \in {"create", "compose"} 
      BY <1>2, <2>1 DEF Offers
    <3>2. <<o, s, "draft">> \in OfferMoves
      BY <3>1, <2>1 DEF OfferMoves
    <3> QED
      BY <1>1, <3>2 DEF Accepts, OfferStatuses, Offers
  <2>2. CASE s \in Offers
    <3>1. o \in {"save", "revise"} 
      BY <1>2, <2>2 DEF Offers
    <3>2. <<o, s, AfterUpdate(s)>> \in OfferMoves
      BY <3>1, <2>2 DEF OfferMoves
    <3>3. AfterUpdate(s) \in OfferStatuses
      BY <2>2 DEF AfterUpdate, OfferStatuses, Offers
    <3> QED
      BY <1>1, <3>2, <3>3 DEF Accepts
  <2> QED
    BY <2>1, <2>2 DEF OfferStatuses
<1>4. /\ EditorActs["create"].then = "" /\ EditorActs["save"].then = ""
      /\ EditorActs["compose"].then = "submit" /\ EditorActs["revise"].then = "submit"
  BY DEF EditorActs, Act
<1>5. Accepts(sc, "submit", "draft")
  BY <1>1 DEF OfferMoves, Accepts, OfferStatuses, Offers
\* What composing and revising leave is a draft.
<1>6. ASSUME NEW t, \/ <<"compose", "none", t>> \in OfferMoves
                    \/ <<"revise", "draft", t>> \in OfferMoves
      PROVE  t = "draft"
  BY <1>6 DEF OfferMoves, Offers, AfterUpdate
<1>7. ASSUME NEW s \in OfferStatuses, NEW o \in EditorOffers[s]
      PROVE  ControlAgrees(sc, o, s)
  <2>1. CASE o \in {"create", "save"}
    BY <1>1, <1>3, <1>4, <2>1 DEF ControlAgrees
  <2>2. CASE \/ s = "none" /\ o = "compose"
             \/ s = "draft" /\ o = "revise"
    BY <1>1, <1>3, <1>4, <1>5, <1>6, <2>2 DEF ControlAgrees
  <2> QED
    BY <1>2, <2>1, <2>2
<1> QED
  BY <1>1, <1>7, AnswersAgree DEF ScreenAnswers

LEMMA EditsAgrees == Agrees(EditsScreen)
<1> DEFINE sc == EditsScreen
<1>1. /\ sc.statuses = OfferStatuses /\ sc.moves = OfferMoves
      /\ sc.offers = EditsOffers /\ sc.acts = EditsActs
  BY DEF EditsScreen, Screen
<1>2. ASSUME NEW s \in OfferStatuses, NEW o \in EditsOffers[s]
      PROVE  <<s, o>> \in {<<"pending_partner_approval", "accept">>,
                           <<"pending_partner_approval", "decline">>}
  BY DEF OfferStatuses, EditsOffers, Offers
<1>3. ASSUME NEW s \in OfferStatuses, NEW o \in EditsOffers[s]
      PROVE  \E t \in OfferStatuses : <<o, s, t>> \in OfferMoves
  BY <1>2 DEF OfferStatuses, OfferMoves, Offers
<1>4. /\ EditsActs["accept"].then = ""
      /\ EditsActs["decline"].then = ""
  BY DEF EditsActs, Act
<1>5. ASSUME NEW s \in OfferStatuses, NEW o \in EditsOffers[s]
      PROVE  EditsActs[o].then = ""
  BY <1>2, <1>4
<1> QED
  BY <1>1, <1>3, <1>5, AnswersAgree DEF ScreenAnswers, ControlAgrees, Accepts

LEMMA ModerationAgrees == Agrees(ModerationScreen)
BY NoControls DEF ModerationScreen, Screen

LEMMA DeskAgrees == Agrees(DeskScreen)
<1> DEFINE sc == DeskScreen
<1>1. /\ sc.statuses = OfferStatuses /\ sc.moves = OfferMoves
      /\ sc.offers = DeskOffers /\ sc.acts = DeskActs
  BY DEF DeskScreen, Screen
<1>2. ASSUME NEW s \in OfferStatuses, NEW o \in DeskOffers[s]
      PROVE  <<s, o>> \in {<<"pending_review", "publish">>, <<"pending_review", "amend">>,
                           <<"pending_review", "reject">>, <<"published", "recall">>,
                           <<"published", "archive">>}
  BY DEF OfferStatuses, DeskOffers, Offers
<1>3. ASSUME NEW s \in OfferStatuses, NEW o \in DeskOffers[s]
      PROVE  \E t \in OfferStatuses : <<o, s, t>> \in OfferMoves
  BY <1>2 DEF OfferStatuses, OfferMoves, Offers
<1>4. /\ DeskActs["amend"].then = ""
      /\ DeskActs["archive"].then = ""
      /\ DeskActs["publish"].then = ""
      /\ DeskActs["recall"].then = ""
      /\ DeskActs["reject"].then = ""
  BY DEF DeskActs, Act
<1>5. ASSUME NEW s \in OfferStatuses, NEW o \in DeskOffers[s]
      PROVE  DeskActs[o].then = ""
  BY <1>2, <1>4
<1> QED
  BY <1>1, <1>3, <1>5, AnswersAgree DEF ScreenAnswers, ControlAgrees, Accepts

\* Buying, orders, the till.

LEMMA CheckoutAgrees == Agrees(CheckoutScreen)
<1> DEFINE sc == CheckoutScreen
<1>1. /\ sc.statuses = PurchaseStatuses /\ sc.moves = PurchaseMoves
      /\ sc.offers = CheckoutOffers /\ sc.acts = CheckoutActs
  BY DEF CheckoutScreen, Screen
<1> DEFINE buys  == {<<"buy", Purchase(last, "enough"), Purchase("created", purse)>>
                        : last \in {"none", "created", "paid"}, purse \in Purses}
           purseMoves(purse) ==
             {<<"confirm", Purchase("created", purse), Purchase("paid", purse)>>,
              <<"deposited", Purchase("none", "short"), Purchase("none", "enough")>>,
              <<"spent", Purchase("none", "enough"), Purchase("none", "short")>>}
           others == UNION {purseMoves(purse) : purse \in Purses}
           topUps == {<<"topUp", s, s>> : s \in PurchaseStatuses}
<1>0. PurchaseMoves = buys \cup others \cup topUps
  BY DEF PurchaseMoves
<1>2. ASSUME NEW s \in PurchaseStatuses, NEW o \in CheckoutOffers[s]
      PROVE  o = "topUp" \/ (o = "buy" /\ s.purse = "enough")
  BY DEF CheckoutOffers
<1>3. ASSUME NEW s \in PurchaseStatuses
      PROVE  Accepts(sc, "topUp", s)
  <2>1. <<"topUp", s, s>> \in topUps
    OBVIOUS
  <2>2. <<"topUp", s, s>> \in PurchaseMoves
    <3> HIDE DEF buys, others, topUps
    <3> QED
      BY <1>0, <2>1
  <2> QED
    BY <1>1, <2>2 DEF Accepts
<1>4. ASSUME NEW s \in PurchaseStatuses, s.purse = "enough"
      PROVE  Accepts(sc, "buy", s)
  <2>1. PICK last \in {"none", "created", "paid"} : s = Purchase(last, "enough")
    BY <1>4 DEF PurchaseStatuses, Purchase
  <2>2. <<"buy", s, Purchase("created", "enough")>> \in buys
    BY <2>1 DEF Purses
  <2>3. Purchase("created", "enough") \in PurchaseStatuses
    BY DEF PurchaseStatuses, Purses
  <2> QED
    BY <1>1, <1>0, <2>2, <2>3 DEF Accepts
<1>5. CheckoutActs["topUp"].then = "" /\ CheckoutActs["buy"].then = "confirm"
  BY DEF CheckoutActs, Act
\* What buying leaves is an order that waits for its confirmation.
<1>6. ASSUME NEW s, NEW t, <<"buy", s, t>> \in PurchaseMoves
      PROVE  Accepts(sc, "confirm", t)
  <2>1. <<"buy", s, t>> \notin topUps
    OBVIOUS
  <2>2. ASSUME NEW purse \in Purses PROVE <<"buy", s, t>> \notin purseMoves(purse)
    OBVIOUS
  <2>3. <<"buy", s, t>> \in buys
    <3> DEFINE move == <<"buy", s, t>>
    <3>1. move \in PurchaseMoves /\ move \notin topUps
      BY <1>6, <2>1
    <3>2. move \notin others
      BY <2>2
    <3> HIDE DEF buys, others, topUps, move
    <3>3. move \in buys
      BY <1>0, <3>1, <3>2
    <3> QED
      BY <3>3 DEF move
  <2>4. PICK purse \in Purses : t = Purchase("created", purse)
    BY <2>3
  <2>5. <<"confirm", t, Purchase("paid", purse)>> \in purseMoves(purse)
    BY <2>4
  <2>6. <<"confirm", t, Purchase("paid", purse)>> \in PurchaseMoves
    <3> DEFINE move == <<"confirm", t, Purchase("paid", purse)>>
    <3>1. move \in others
      BY <2>5
    <3> HIDE DEF buys, others, topUps
    <3> QED
      BY <1>0, <3>1
  <2>7. Purchase("paid", purse) \in PurchaseStatuses
    BY DEF PurchaseStatuses
  <2> QED
    BY <1>1, <2>6, <2>7 DEF Accepts
<1>7. ASSUME NEW s \in PurchaseStatuses, NEW o \in CheckoutOffers[s]
      PROVE  ControlAgrees(sc, o, s)
  BY <1>1, <1>2, <1>3, <1>4, <1>5, <1>6 DEF ControlAgrees
<1> QED
  BY <1>1, <1>7, AnswersAgree DEF ScreenAnswers

LEMMA OrdersAgrees == Agrees(OrdersScreen)
<1> DEFINE sc == OrdersScreen
<1>1. /\ sc.statuses = OrderStatuses /\ sc.moves = OrderMoves
      /\ sc.offers = OrdersOffers /\ sc.acts = OrdersActs
  BY DEF OrdersScreen, Screen
<1>2. ASSUME NEW s \in OrderStatuses, NEW o \in OrdersOffers[s]
      PROVE  <<s, o>> \in {<<"created", "confirm">>}
  BY DEF OrderStatuses, OrdersOffers
<1>3. ASSUME NEW s \in OrderStatuses, NEW o \in OrdersOffers[s]
      PROVE  \E t \in OrderStatuses : <<o, s, t>> \in OrderMoves
  BY <1>2 DEF OrderStatuses, OrderMoves
<1>4. OrdersActs["confirm"].then = ""
  BY DEF OrdersActs, Act
<1>5. ASSUME NEW s \in OrderStatuses, NEW o \in OrdersOffers[s]
      PROVE  OrdersActs[o].then = ""
  BY <1>2, <1>4
<1> QED
  BY <1>1, <1>3, <1>5, AnswersAgree DEF ScreenAnswers, ControlAgrees, Accepts

LEMMA ReceiptAgrees == Agrees(ReceiptScreen)
BY NoControls DEF ReceiptScreen, Screen

LEMMA TillAgrees == Agrees(TillScreen)
<1> DEFINE sc == TillScreen
<1>1. /\ sc.statuses = OrderStatuses /\ sc.moves = OrderMoves
      /\ sc.offers = TillOffers /\ sc.acts = TillActs
  BY DEF TillScreen, Screen
<1>2. ASSUME NEW s \in OrderStatuses, NEW o \in TillOffers[s]
      PROVE  <<s, o>> \in {<<"paid", "redeem">>, <<"paid", "turnDown">>}
  BY DEF OrderStatuses, TillOffers
<1>3. ASSUME NEW s \in OrderStatuses, NEW o \in TillOffers[s]
      PROVE  \E t \in OrderStatuses : <<o, s, t>> \in OrderMoves
  BY <1>2 DEF OrderStatuses, OrderMoves
<1>4. /\ TillActs["redeem"].then = ""
      /\ TillActs["turnDown"].then = ""
  BY DEF TillActs, Act
<1>5. ASSUME NEW s \in OrderStatuses, NEW o \in TillOffers[s]
      PROVE  TillActs[o].then = ""
  BY <1>2, <1>4
<1> QED
  BY <1>1, <1>3, <1>5, AnswersAgree DEF ScreenAnswers, ControlAgrees, Accepts

LEMMA FollowAgrees == Agrees(FollowScreen)
<1> DEFINE sc == FollowScreen
<1>1. /\ sc.statuses = FollowStatuses /\ sc.moves = FollowMoves
      /\ sc.offers = FollowOffers /\ sc.acts = FollowActs
  BY DEF FollowScreen, Screen
<1>2. ASSUME NEW s \in FollowStatuses, NEW o \in FollowOffers[s]
      PROVE  <<s, o>> \in {<<"on", "unsubscribe">>, <<"off", "subscribe">>}
  BY DEF FollowStatuses, FollowOffers
<1>3. ASSUME NEW s \in FollowStatuses, NEW o \in FollowOffers[s]
      PROVE  \E t \in FollowStatuses : <<o, s, t>> \in FollowMoves
  BY <1>2 DEF FollowStatuses, FollowMoves
<1>4. /\ FollowActs["subscribe"].then = ""
      /\ FollowActs["unsubscribe"].then = ""
  BY DEF FollowActs, Act
<1>5. ASSUME NEW s \in FollowStatuses, NEW o \in FollowOffers[s]
      PROVE  FollowActs[o].then = ""
  BY <1>2, <1>4
<1> QED
  BY <1>1, <1>3, <1>5, AnswersAgree DEF ScreenAnswers, ControlAgrees, Accepts

\* Events.

LEMMA VisitsMoved ==
  ASSUME NEW v \in Visits
  PROVE  /\ <<"schedule", v, v>> \in VisitMoves
         /\ <<"confirm", v, Visit("going", v.price)>> \in VisitMoves
         /\ <<"perhaps", v, Visit("interested", v.price)>> \in VisitMoves
         /\ <<"leave", v, Visit("none", v.price)>> \in VisitMoves
         /\ v.is # "going" => <<"perhapsNot", v, Visit("none", v.price)>> \in VisitMoves
         /\ \A t : <<"schedule", v, t>> \in VisitMoves => t = v
         /\ \A is \in {"none", "interested", "going"} : Visit(is, v.price) \in VisitStatuses
         /\ v \in VisitStatuses
<1> DEFINE asked(u) == {<<"schedule", u, u>>, <<"confirm", u, Visit("going", u.price)>>,
             <<"perhaps", u, Visit("interested", u.price)>>,
             <<"leave", u, Visit("none", u.price)>>, <<"withdrawn", u, Shut>>}
           all == UNION {asked(u) : u \in Visits}
           nots == {<<"perhapsNot", u, Visit("none", u.price)>>
                      : u \in {w \in Visits : w.is # "going"}}
<1>1. VisitMoves = all \cup nots
  BY DEF VisitMoves
<1>2. asked(v) \subseteq all
  OBVIOUS
<1>3. asked(v) \subseteq VisitMoves
  BY <1>1, <1>2
<1>4. v.is # "going" => <<"perhapsNot", v, Visit("none", v.price)>> \in nots
  OBVIOUS
<1>5. ASSUME NEW t, <<"schedule", v, t>> \in VisitMoves
      PROVE  t = v
  <2> DEFINE move == <<"schedule", v, t>>
  <2>1. move \notin nots
    OBVIOUS
  <2>2. ASSUME NEW u, move \in asked(u) PROVE t = v
    BY <2>2
  <2>3. move \in all
    <3>1. move \in VisitMoves
      BY <1>5
    <3> HIDE DEF all, nots, move
    <3> QED
      BY <1>1, <2>1, <3>1
  <2> QED
    BY <2>2, <2>3
<1>6. \A is \in {"none", "interested", "going"} : Visit(is, v.price) \in VisitStatuses
  BY DEF Visits, Visit, VisitStatuses
<1> HIDE DEF all, nots
<1> QED
  BY <1>1, <1>3, <1>4, <1>5, <1>6 DEF VisitStatuses

LEMMA EventAgrees == Agrees(EventScreen)
<1> DEFINE sc == EventScreen
<1>1. /\ sc.statuses = VisitStatuses /\ sc.moves = VisitMoves
      /\ sc.offers = EventOffers /\ sc.acts = EventActs
  BY DEF EventScreen, Screen
<1>2. ASSUME NEW v \in VisitStatuses, NEW o \in EventOffers[v]
      PROVE  /\ v \in Visits
             /\ o \in {"schedule", "perhaps", "perhapsNot", "leave"}
             /\ o = "perhapsNot" => v.is # "going"
  <2>1. Shut.is = "shut" /\ Shut # Visit("going", "free")
    BY DEF Shut, Visit
  <2>2. EventOffers[v] # {} => v # Shut
    BY <2>1 DEF EventOffers
  <2> QED
    BY <2>2 DEF EventOffers, VisitStatuses, Visit
<1>3. ASSUME NEW v \in Visits, NEW o \in {"schedule", "perhaps", "perhapsNot", "leave", "confirm"},
             o = "perhapsNot" => v.is # "going"
      PROVE  Accepts(sc, o, v)
  <2>1. PICK t \in VisitStatuses : <<o, v, t>> \in VisitMoves
    BY <1>3, VisitsMoved
  <2> QED
    BY <1>1, <2>1 DEF Accepts
<1>4. /\ EventActs["perhaps"].then = "" /\ EventActs["perhapsNot"].then = ""
      /\ EventActs["leave"].then = "" /\ EventActs["schedule"].then = "confirm"
  BY DEF EventActs, Act
<1>5. ASSUME NEW v \in VisitStatuses, NEW o \in EventOffers[v]
      PROVE  ControlAgrees(sc, o, v)
  <2>1. CASE o = "schedule"
    <3>1. v \in Visits /\ Accepts(sc, "schedule", v) /\ Accepts(sc, "confirm", v)
      BY <1>2, <1>3, <2>1
    <3>2. \A t : <<"schedule", v, t>> \in VisitMoves => t = v
      BY <3>1, VisitsMoved
    <3> QED
      BY <1>1, <1>4, <2>1, <3>1, <3>2 DEF ControlAgrees
  <2>2. CASE o # "schedule"
    BY <1>1, <1>2, <1>3, <1>4, <2>2 DEF ControlAgrees
  <2> QED
    BY <2>1, <2>2
<1> QED
  BY <1>1, <1>5, AnswersAgree DEF ScreenAnswers

LEMMA EventsAgrees == Agrees(EventsScreen)
<1> DEFINE sc == EventsScreen
<1>1. /\ sc.statuses = VisitStatuses /\ sc.moves = VisitMoves
      /\ sc.offers = EventsOffers /\ sc.acts = EventsActs
  BY DEF EventsScreen, Screen
<1>2. ASSUME NEW v \in VisitStatuses, NEW o \in EventsOffers[v]
      PROVE  v \in Visits /\ o = "schedule"
  <2>1. Shut.is = "shut"
    BY DEF Shut, Visit
  <2> QED
    BY <2>1 DEF EventsOffers, VisitStatuses
<1>3. ASSUME NEW v \in Visits, NEW o \in {"schedule", "confirm"}
      PROVE  Accepts(sc, o, v)
  <2>1. PICK t \in VisitStatuses : <<o, v, t>> \in VisitMoves
    BY <1>3, VisitsMoved
  <2> QED
    BY <1>1, <2>1 DEF Accepts
<1>4. EventsActs["schedule"].then = "confirm"
  BY DEF EventsActs, Act
<1>5. ASSUME NEW v \in Visits
      PROVE  ControlAgrees(sc, "schedule", v)
  <2>1. \A t : <<"schedule", v, t>> \in VisitMoves => t = v
    BY VisitsMoved
  <2> QED
    BY <1>1, <1>3, <1>4, <2>1 DEF ControlAgrees
<1> QED
  BY <1>1, <1>2, <1>5, AnswersAgree DEF ScreenAnswers

LEMMA EventFormAgrees == Agrees(EventFormScreen)
<1> DEFINE sc == EventFormScreen
<1>1. /\ sc.statuses = ProposalStatuses /\ sc.moves = ProposalMoves
      /\ sc.offers = EventFormOffers /\ sc.acts = EventFormActs
  BY DEF EventFormScreen, Screen
<1>2. ASSUME NEW s \in ProposalStatuses, NEW o \in EventFormOffers[s]
      PROVE  s = "none" /\ o \in {"create", "compose"}
  BY DEF ProposalStatuses, EventFormOffers
<1>3. ASSUME NEW o \in {"create", "compose"}
      PROVE  Accepts(sc, o, "none")
  <2>1. <<o, "none", "draft">> \in ProposalMoves
    BY DEF ProposalMoves
  <2> QED
    BY <1>1, <2>1 DEF Accepts, ProposalStatuses, Proposals
<1>4. EventFormActs["create"].then = "" /\ EventFormActs["compose"].then = "submit"
  BY DEF EventFormActs, Act
<1>5. Accepts(sc, "submit", "draft")
  BY <1>1 DEF ProposalMoves, Accepts, ProposalStatuses, Proposals
<1>6. ASSUME NEW t, <<"compose", "none", t>> \in ProposalMoves
      PROVE  t = "draft"
  BY <1>6 DEF ProposalMoves, Proposals
<1>7. ASSUME NEW o \in {"create", "compose"}
      PROVE  ControlAgrees(sc, o, "none")
  BY <1>1, <1>3, <1>4, <1>5, <1>6 DEF ControlAgrees
<1> QED
  BY <1>1, <1>2, <1>7, AnswersAgree DEF ScreenAnswers

LEMMA MerchantEventsAgrees == Agrees(MerchantEventsScreen)
BY NoControls DEF MerchantEventsScreen, Screen, ProposalList

LEMMA MyEventsAgrees == Agrees(MyEventsScreen)
BY NoControls DEF MyEventsScreen, Screen, ProposalList

\* The account.

LEMMA MarksAgrees == Agrees(MarksScreen)
<1> DEFINE sc == MarksScreen
<1>1. /\ sc.statuses = Marks /\ sc.moves = MarkMoves
      /\ sc.offers = MarkOffers /\ sc.acts = MarkActs
  BY DEF MarksScreen, Screen
<1>2. ASSUME NEW s \in Marks, NEW o \in MarkOffers[s]
      PROVE  <<s, o>> \in {<<"new", "read">>}
  BY DEF Marks, MarkOffers
<1>3. ASSUME NEW s \in Marks, NEW o \in MarkOffers[s]
      PROVE  \E t \in Marks : <<o, s, t>> \in MarkMoves
  BY <1>2 DEF Marks, MarkMoves
<1>4. MarkActs["read"].then = ""
  BY DEF MarkActs, Act
<1>5. ASSUME NEW s \in Marks, NEW o \in MarkOffers[s]
      PROVE  MarkActs[o].then = ""
  BY <1>2, <1>4
<1> QED
  BY <1>1, <1>3, <1>5, AnswersAgree DEF ScreenAnswers, ControlAgrees, Accepts

LEMMA RequestsAgrees == Agrees(RequestsScreen)
<1> DEFINE sc == RequestsScreen
<1>1. /\ sc.statuses = Requests \cup {"done"} /\ sc.offers = RequestOffers
      /\ sc.acts = RequestActs /\ sc.blind = {"accept", "reject"}
  BY DEF RequestsScreen, Screen
<1>2. \A s \in Requests \cup {"done"} : RequestOffers[s] \subseteq {"accept", "reject"}
  BY DEF Requests, RequestOffers
<1>3. ScreenAgrees(sc)
  BY <1>1, <1>2 DEF ScreenAgrees
<1>4. ~Serial(sc)
  <2>1. "asks" \in Requests /\ "accept" \in RequestOffers["asks"]
    BY DEF Requests, RequestOffers
  <2>2. RequestActs["accept"].lock = "own"
    BY DEF RequestActs, Act
  <2> QED
    BY <1>1, <2>1, <2>2 DEF Serial
<1> QED
  BY <1>3, <1>4 DEF Agrees

LEMMA SessionsAgrees == Agrees(SessionsScreen)
<1> DEFINE sc == SessionsScreen
<1>1. /\ sc.statuses = SessionStatuses /\ sc.moves = SessionMoves
      /\ sc.offers = SessionOffers /\ sc.acts = SessionActs
  BY DEF SessionsScreen, Screen
<1>2. ASSUME NEW s \in SessionStatuses, NEW o \in SessionOffers[s]
      PROVE  <<s, o>> \in {<<"other", "revoke">>}
  BY DEF SessionStatuses, SessionOffers
<1>3. ASSUME NEW s \in SessionStatuses, NEW o \in SessionOffers[s]
      PROVE  \E t \in SessionStatuses : <<o, s, t>> \in SessionMoves
  BY <1>2 DEF SessionStatuses, SessionMoves
<1>4. SessionActs["revoke"].then = ""
  BY DEF SessionActs, Act
<1>5. ASSUME NEW s \in SessionStatuses, NEW o \in SessionOffers[s]
      PROVE  SessionActs[o].then = ""
  BY <1>2, <1>4
<1> QED
  BY <1>1, <1>3, <1>5, AnswersAgree DEF ScreenAnswers, ControlAgrees, Accepts

LEMMA WalletAgrees == Agrees(WalletScreen)
BY NoControls DEF WalletScreen, Screen, Ledger

LEMMA TransactionsAgrees == Agrees(TransactionsScreen)
BY NoControls DEF TransactionsScreen, Screen, Ledger

LEMMA AuditAgrees == Agrees(AuditScreen)
BY NoControls DEF AuditScreen, Screen, Ledger

LEMMA OverviewAgrees == Agrees(OverviewScreen)
BY NoControls DEF OverviewScreen, Screen, Ledger

LEMMA StatisticsAgrees == Agrees(StatisticsScreen)
BY NoControls DEF StatisticsScreen, Screen, Ledger

LEMMA SummaryAgrees == Agrees(SummaryScreen)
BY NoControls DEF SummaryScreen, Screen, Ledger

LEMMA NamesAgrees == Agrees(NamesScreen)
<1> DEFINE sc == NamesScreen
<1>1. /\ sc.statuses = NameStatuses /\ sc.moves = NameMoves /\ sc.offers = NameOffers
      /\ sc.acts = NameActs /\ sc.start = {"free", "taken"}
  BY DEF NamesScreen, Screen
<1>2. Kept(sc) \subseteq Names
  BY <1>1 DEF Kept, NameMoves, Names
<1>3. ASSUME NEW s \in Names, NEW o \in NameOffers[s]
      PROVE  s \in {"free", "mine"} /\ o = "save"
  BY DEF NameOffers, Names
<1>4. ASSUME NEW s \in {"free", "mine"} PROVE Accepts(sc, "save", s)
  BY <1>1 DEF NameMoves, Accepts, NameStatuses, Names
<1>5. NameActs["save"].then = "" /\ NameActs["save"].ok = "patch"
  BY DEF NameActs, Act
<1>6. ScreenAgrees(sc)
  BY <1>1, <1>2, <1>3, <1>4, <1>5 DEF ScreenAgrees, ControlAgrees
<1>7. ~Serial(sc)
  <2>1. "free" \in NameStatuses /\ "save" \in NameOffers["free"]
    BY DEF NameStatuses, Names, NameOffers
  <2> QED
    BY <1>1, <1>5, <2>1 DEF Serial
<1> QED
  BY <1>6, <1>7 DEF Agrees

\* The administrator.

LEMMA UsersAgrees == Agrees(UsersScreen)
BY NoControls DEF UsersScreen, Screen

LEMMA CardAgrees == Agrees(CardScreen)
<1> DEFINE sc == CardScreen
           ops == {"student", "merchant", "vipOn", "vipOff", "block", "unblock",
                   "resetVerif", "pickUni"}
<1>1. /\ sc.statuses = UserStatuses /\ sc.moves = UserMoves
      /\ sc.offers = CardOffers /\ sc.acts = CardActs
  BY DEF CardScreen, Screen
<1>2. ASSUME NEW u \in UserStatuses, NEW o \in CardOffers[u]
      PROVE  o \in ops
  BY DEF CardOffers, Roles
<1>3. ASSUME NEW u \in UserStatuses, NEW o \in ops
      PROVE  Accepts(sc, o, u)
  <2> DEFINE users == [role : Roles, vip : BOOLEAN, active : BOOLEAN,
                       student : {"verified", "expired"}]
  <2>1. UserStatuses = users
    <3>1. \A w \in UserStatuses : w \in users
      BY DEF UserStatuses, User
    <3>2. \A w \in users : w = User(w.role, w.vip, w.active, w.student)
      BY DEF User
    <3>3. \A w \in users : w \in UserStatuses
      BY <3>2 DEF UserStatuses
    <3> QED
      BY <3>1, <3>3
  <2>2. /\ [u EXCEPT !.role = "student"] \in UserStatuses
        /\ [u EXCEPT !.role = "merchant"] \in UserStatuses
        /\ [u EXCEPT !.vip = TRUE] \in UserStatuses
        /\ [u EXCEPT !.vip = FALSE] \in UserStatuses
        /\ [u EXCEPT !.active = FALSE] \in UserStatuses
        /\ [u EXCEPT !.active = TRUE] \in UserStatuses
        /\ [u EXCEPT !.student = "expired"] \in UserStatuses
    BY <2>1 DEF Roles
  <2> DEFINE moves == {<<"student", u, [u EXCEPT !.role = "student"]>>,
            <<"merchant", u, [u EXCEPT !.role = "merchant"]>>,
            <<"vipOn", u, [u EXCEPT !.vip = TRUE]>>,
            <<"vipOff", u, [u EXCEPT !.vip = FALSE]>>,
            <<"block", u, [u EXCEPT !.active = FALSE]>>,
            <<"unblock", u, [u EXCEPT !.active = TRUE]>>,
            <<"resetVerif", u, [u EXCEPT !.student = "expired"]>>,
            <<"pickUni", u, u>>}
  <2>3. moves \subseteq UserMoves
    BY DEF UserMoves
  <2>4. PICK t \in UserStatuses : <<o, u, t>> \in moves
    BY <2>2
  <2> HIDE DEF moves
  <2> QED
    BY <1>1, <2>3, <2>4 DEF Accepts
<1>4. \A o \in ops : CardActs[o].then = ""
  BY DEF CardActs, Act
<1> QED
  BY <1>1, <1>2, <1>3, <1>4, AnswersAgree DEF ScreenAnswers, ControlAgrees

LEMMA CardOrdersAgrees == Agrees(CardOrdersScreen)
<1> DEFINE sc == CardOrdersScreen
<1>1. /\ sc.statuses = OrderStatuses /\ sc.moves = OrderMoves
      /\ sc.offers = CardOrdersOffers /\ sc.acts = CardOrdersActs
  BY DEF CardOrdersScreen, Screen
<1>2. ASSUME NEW s \in OrderStatuses, NEW o \in CardOrdersOffers[s]
      PROVE  <<s, o>> \in {<<"paid", "refund">>, <<"completed", "refund">>}
  BY DEF OrderStatuses, CardOrdersOffers
<1>3. ASSUME NEW s \in OrderStatuses, NEW o \in CardOrdersOffers[s]
      PROVE  \E t \in OrderStatuses : <<o, s, t>> \in OrderMoves
  BY <1>2 DEF OrderStatuses, OrderMoves
<1>4. CardOrdersActs["refund"].then = ""
  BY DEF CardOrdersActs, Act
<1>5. ASSUME NEW s \in OrderStatuses, NEW o \in CardOrdersOffers[s]
      PROVE  CardOrdersActs[o].then = ""
  BY <1>2, <1>4
<1> QED
  BY <1>1, <1>3, <1>5, AnswersAgree DEF ScreenAnswers, ControlAgrees, Accepts

LEMMA AllCompaniesAgrees == Agrees(AllCompaniesScreen)
<1> DEFINE sc == AllCompaniesScreen
<1>1. /\ sc.statuses = CompanyStatuses /\ sc.moves = CompanyMoves
      /\ sc.offers = CompanyOffers /\ sc.acts = CompanyActs
  BY DEF AllCompaniesScreen, Screen
<1>2. ASSUME NEW s \in CompanyStatuses, NEW o \in CompanyOffers[s]
      PROVE  <<s, o>> \in {<<"active", "switchOff">>, <<"inactive", "switchOn">>}
  BY DEF CompanyStatuses, CompanyOffers
<1>3. ASSUME NEW s \in CompanyStatuses, NEW o \in CompanyOffers[s]
      PROVE  \E t \in CompanyStatuses : <<o, s, t>> \in CompanyMoves
  BY <1>2 DEF CompanyStatuses, CompanyMoves
<1>4. /\ CompanyActs["switchOff"].then = ""
      /\ CompanyActs["switchOn"].then = ""
  BY DEF CompanyActs, Act
<1>5. ASSUME NEW s \in CompanyStatuses, NEW o \in CompanyOffers[s]
      PROVE  CompanyActs[o].then = ""
  BY <1>2, <1>4
<1> QED
  BY <1>1, <1>3, <1>5, AnswersAgree DEF ScreenAnswers, ControlAgrees, Accepts

LEMMA TagsAgrees == Agrees(TagsScreen)
<1> DEFINE sc == TagsScreen
<1>1. /\ sc.statuses = TagStatuses /\ sc.moves = TagMoves
      /\ sc.offers = TagOffers /\ sc.acts = TagActs
  BY DEF TagsScreen, Screen
<1>2. ASSUME NEW s \in TagStatuses, NEW o \in TagOffers[s]
      PROVE  <<s, o>> \in {<<"none", "addTag">>, <<"pending", "approve">>,
                           <<"pending", "reject">>}
  BY DEF TagStatuses, TagOffers
<1>3. ASSUME NEW s \in TagStatuses, NEW o \in TagOffers[s]
      PROVE  \E t \in TagStatuses : <<o, s, t>> \in TagMoves
  BY <1>2 DEF TagStatuses, TagMoves
<1>4. /\ TagActs["addTag"].then = ""
      /\ TagActs["approve"].then = ""
      /\ TagActs["reject"].then = ""
  BY DEF TagActs, Act
<1>5. ASSUME NEW s \in TagStatuses, NEW o \in TagOffers[s]
      PROVE  TagActs[o].then = ""
  BY <1>2, <1>4
<1> QED
  BY <1>1, <1>3, <1>5, AnswersAgree DEF ScreenAnswers, ControlAgrees, Accepts

LEMMA AllAgreed == ASSUME NEW i \in DOMAIN AllScreens PROVE Agrees(AllScreens[i])
<1> DEFINE S == {FriendsScreen, ProfileScreen, SubscriptionsScreen, CompaniesScreen,
                 TicketsScreen, ThreadScreen, QueueScreen, AdminThreadScreen,
                 VerificationScreen, VerificationQueueScreen, ReviewScreen, BadgesScreen,
                 MerchantOffersScreen, EditorScreen, EditsScreen, ModerationScreen,
                 DeskScreen, CheckoutScreen, OrdersScreen, ReceiptScreen, TillScreen,
                 FollowScreen, EventScreen, EventsScreen, EventFormScreen,
                 MerchantEventsScreen, MyEventsScreen, MarksScreen, RequestsScreen,
                 SessionsScreen, WalletScreen, TransactionsScreen, AuditScreen,
                 OverviewScreen, StatisticsScreen, SummaryScreen, NamesScreen, UsersScreen,
                 CardScreen, CardOrdersScreen, AllCompaniesScreen, TagsScreen}
<1>1. \A sc \in S : Agrees(sc)
  BY FriendsAgrees, ProfileAgrees, SubscriptionsAgrees, CompaniesAgrees, TicketsAgrees,
     ThreadAgrees, QueueAgrees, AdminThreadAgrees, VerificationAgrees,
     VerificationQueueAgrees, ReviewAgrees, BadgesAgrees, MerchantOffersAgrees,
     EditorAgrees, EditsAgrees, ModerationAgrees, DeskAgrees, CheckoutAgrees, OrdersAgrees,
     ReceiptAgrees, TillAgrees, FollowAgrees, EventAgrees, EventsAgrees, EventFormAgrees,
     MerchantEventsAgrees, MyEventsAgrees, MarksAgrees, RequestsAgrees, SessionsAgrees,
     WalletAgrees, TransactionsAgrees, AuditAgrees, OverviewAgrees, StatisticsAgrees,
     SummaryAgrees, NamesAgrees, UsersAgrees, CardAgrees, CardOrdersAgrees,
     AllCompaniesAgrees, TagsAgrees
<1>2. FriendCatalog \in Seq(S)
  BY DEF FriendCatalog
<1>3. SupportCatalog \in Seq(S)
  BY DEF SupportCatalog
<1>4. VerificationCatalog \in Seq(S)
  BY DEF VerificationCatalog
<1>5. OfferCatalog \in Seq(S)
  BY DEF OfferCatalog
<1>6. OrderCatalog \in Seq(S)
  BY DEF OrderCatalog
<1>7. EventCatalog \in Seq(S)
  BY DEF EventCatalog
<1>8. AccountCatalog \in Seq(S)
  BY DEF AccountCatalog
<1>9. AdminCatalog \in Seq(S)
  BY DEF AdminCatalog
<1> HIDE DEF S
<1>10. AllScreens \in Seq(S)
  BY <1>2, <1>3, <1>4, <1>5, <1>6, <1>7, <1>8, <1>9 DEF AllScreens
<1>11. AllScreens[i] \in S
  BY <1>10
<1> QED
  BY <1>1, <1>11

LEMMA ProgramAgrees == ASSUME Catalog = AllScreens PROVE AllAgree /\ SerialAgrees
BY AllAgreed DEF Agrees, AllAgree, SerialAgrees, Accepts

\* Of the screens of this program, those of the components named in the
\* catalogs: whatever is late, lost or changed elsewhere, a control offered for
\* what its object still is is accepted by the server, and so is every further
\* request of the same press.
THEOREM OffersAccepted ==
  ASSUME Catalog = AllScreens
  PROVE  ScreensSpec => []OfferedIsAccepted
BY ProgramAgrees, AgreementSuffices

\* And those of them that lock themselves never have the request of a user
\* refused who is alone with his objects, and show what the server holds when
\* nothing is under way.
THEOREM ProgramScreensHold ==
  ASSUME Catalog = AllScreens
  PROVE  ScreensSpec => [](AloneNeverRefused /\ QuietIsCurrent)
<1>1. ScreensSpec => []AloneNeverRefused
  BY ProgramAgrees, NeverRefused
<1>2. ScreensSpec => []QuietIsCurrent
  BY ProgramAgrees, QuietShowsTruth
<1> QED
  BY <1>1, <1>2, PTL
=============================================================================
