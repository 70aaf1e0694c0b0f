------------------------------- MODULE Controls -------------------------------
(* The words in which a screen of the web client is described as data.       *)
(*                                                                           *)
(* A status is what the server keeps of one object, as far as the screens    *)
(* tell objects apart.  What the server does with operations is a relation:  *)
(* <<operation, status, status it leaves>>.  An operation with no such move  *)
(* from a status is refused there.                                           *)
EXTENDS Naturals

Refusal == {}

(* How a control is locked while its request runs:                           *)
(*   screen  disabled while anything of the screen is busy, and makes it so  *)
(*   row     disabled while its own row is busy, and makes that row the only *)
(*           busy one (the component keeps one id)                           *)
(*   takes   never disabled, but makes the screen busy and idle again        *)
(*   waits   disabled while anything is busy, but makes nothing busy         *)
(*   free    neither                                                         *)
(*   own     disabled while a request of its row is under way                *)
(* What follows a success:                                                   *)
(*   reload  the copy is read again before the lock is released              *)
(*   aside   the copy is read again, nobody waits for it                     *)
(*   patch   the shown row is changed on the spot                            *)
(*   flip    the shown row is turned into its other state                    *)
(*   show    the answer is shown, instead of whatever is shown by then       *)
(*   leave   the page navigates away                                         *)
(*   stay    nothing                                                         *)
(* What follows an error: stay (a message), again (the copy is read again),  *)
(* show (a refusal carries the present status, which is shown), flip.        *)
(* "then" is the request sent after this one succeeded, under the same lock; *)
(* "on" says whose id the request carries: of the row shown, or of the page; *)
(* "early" marks a row that is changed before the request is answered.       *)
Act(lock, ok, err) ==
    [lock |-> lock, ok |-> ok, err |-> err,
     then |-> "", on |-> "shown", early |-> FALSE]

(* How a copy is read: what a failed read leaves (keep, empty, the screen of *)
(* a blank object, or dead: nothing but the error), whether the copy is      *)
(* dropped when another page or tab is chosen, whether it is read again by   *)
(* itself (a timer, the page becoming visible, a live event), and whether    *)
(* reading a page locks the screen.                                          *)
Load(fails, clears, again) ==
    [fails |-> fails, clears |-> clears, again |-> again, locks |-> FALSE]

(* A screen of one object stands on that object; a list stands on the        *)
(* statuses its tab lists.  A screen that roams can be sent to another       *)
(* object, or to another tab, while it is open.  A blind control is offered  *)
(* without knowing whether the server will accept it.                        *)
Screen(name, shape, statuses, start, tabs, moves, offers, acts, load) ==
    [name |-> name, shape |-> shape, statuses |-> statuses, start |-> start,
     tabs |-> tabs, moves |-> moves, offers |-> offers, acts |-> acts,
     load |-> load, flips |-> [s \in statuses |-> s], blank |-> {},
     roams |-> TRUE, blind |-> {}]

Locks == {"screen", "row", "takes", "waits", "free", "own"}
Oks   == {"reload", "aside", "patch", "flip", "show", "leave", "stay"}
Errs  == {"stay", "again", "show", "flip"}
=============================================================================
