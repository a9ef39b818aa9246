---------------------------- MODULE PointerIntent ----------------------------
(***************************************************************************)
(* PointerIntentAdapter, its GestureArena and the state it keeps in        *)
(* SpatialWorkspaceController and in the overlays of CanvasSceneRenderer   *)
(* (domains/interaction/src): every order of pointer events, timers and    *)
(* answers of the runtime.                                                 *)
(*                                                                         *)
(* Geometry is reduced to what the handlers compare: the travel of a       *)
(* contact in pixels (2 to 5, the thresholds are 3, 4 and 5), the item     *)
(* under a point, and whether a transition is far enough to settle in the  *)
(* item (progress >= 0.68).                                                *)
(***************************************************************************)
EXTENDS Naturals, FiniteSets, Functions

CONSTANTS
  Pen, Finger, Mouse,   \* the pointers, by pointerType
  Item,                 \* items on the board
  Document,             \* the items of kind document
  None,                 \* undefined
  MaxDowns              \* bounds the pointerdown events

ASSUME DocumentsAreItems == Document \subseteq Item
ASSUME MaxDownsAssumption == MaxDowns \in Nat

\* A pointer has one pointerType.
ASSUME PointersAreApart == Pen \cap Finger = {} /\ Mouse \cap Finger = {} /\ Pen \cap Mouse = {}

VARIABLES
  alive,      \* the listeners are attached
  down,       \* pointers physically down
  contact,    \* #contacts: the tracked pointers, also those of the arena
  owner,      \* the owner in the arena
  drawing,    \* #ink or #erase with its pointer and element id
  mover,      \* #movePointerId
  hold,       \* #holdTimer: the pointer and item it is set for
  fingers,    \* the two-finger flags and timers
  undoing,    \* runtime.undoOwnAction calls that have not settled
  view,       \* the state of the spatial controller
  preview,    \* #move: the item shown lifted
  lastTap,    \* #lastTap
  overlay,    \* the element ids shown by setActiveInk and setActiveErase
  sent,       \* dispatches that have not settled
  downs       \* pointerdown events so far: the next element id

gesture == <<contact, owner, drawing, mover, hold, fingers, undoing>>
scene == <<view, preview, lastTap, overlay, sent>>
vars == <<alive, down, gesture, scene, downs>>

Pointer == Pen \cup Finger \cup Mouse
Drawing == [tool : {"ink", "erase"}, pointer : Pointer, id : 1..MaxDowns]

\* undefined is none of the values it stands beside.
ASSUME NoneIsApart ==
  /\ None \notin Item \cup Pointer
  /\ None \notin Drawing
  /\ None \notin Pointer \X Item

Contacts == DOMAIN contact
AtRest == [sequence |-> FALSE, candidate |-> FALSE, done |-> FALSE,
           delay |-> FALSE, repeat |-> FALSE]
Board(selected) == [mode |-> "board", item |-> selected, out |-> FALSE, far |-> FALSE]
Inside(item) == [mode |-> "item", item |-> item, out |-> FALSE, far |-> FALSE]
Entering(item, out, far) == [mode |-> "entering", item |-> item, out |-> out, far |-> far]

TypeOK ==
  /\ alive \in BOOLEAN /\ down \subseteq Pointer /\ downs \in 0..MaxDowns
  /\ Contacts \subseteq Pointer
  /\ contact \in [Contacts -> [item : Item \cup {None}, moved : BOOLEAN]]
  /\ owner \in {"undecided", "pan", "pinch"}
  /\ drawing \in Drawing \cup {None}
  /\ mover \in Pointer \cup {None}
  /\ hold \in (Pointer \X Item) \cup {None}
  /\ fingers \in [sequence : BOOLEAN, candidate : BOOLEAN, done : BOOLEAN,
                  delay : BOOLEAN, repeat : BOOLEAN]
  /\ undoing \in Nat
  /\ view \in [mode : {"board", "entering", "item"}, item : Item \cup {None},
               out : BOOLEAN, far : BOOLEAN]
  /\ {preview, lastTap} \subseteq Item \cup {None}
  /\ overlay \in [{"ink", "erase"} -> 0..MaxDowns]
  /\ sent \subseteq [kind : {"ink", "erase", "move"}, id : 1..MaxDowns]

Init ==
  /\ alive = TRUE /\ down = {} /\ downs = 0
  /\ contact = <<>> /\ owner = "undecided"
  /\ drawing = None /\ mover = None /\ hold = None
  /\ fingers = AtRest /\ undoing = 0
  /\ view = Board(None) /\ preview = None /\ lastTap = None
  /\ overlay = [ink |-> 0, erase |-> 0] /\ sent = {}

-----------------------------------------------------------------------------
ClearUndoTimers(f) == [f EXCEPT !.delay = FALSE, !.repeat = FALSE]
CancelCandidate(f) == [ClearUndoTimers(f) EXCEPT !.candidate = FALSE]

\* performUndo: it is refused, and does not count as done, while another runs.
Refused == undoing > 0
PerformUndo(f) ==
  /\ undoing' = IF Refused THEN undoing ELSE undoing + 1
  /\ fingers' = IF Refused THEN f ELSE [f EXCEPT !.done = TRUE]

\* settleTransition.
Settled(v) ==
  IF v.mode # "entering" THEN v ELSE IF v.far THEN Inside(v.item) ELSE Board(v.item)

\* Mutant: a pen that lands during a transition draws, and drops its contacts.
DrawsAnyTime(p, item) ==
  \/ p \in Pen
  \/ p \in Mouse /\ item = None /\ view.item = None

\* A pen draws wherever it lands; a mouse inside a notebook, or on the empty
\* board when nothing is selected.
Draws(p, item) ==
  /\ view.mode # "entering"
  /\ \/ p \in Pen
     \/ /\ p \in Mouse
        /\ \/ view.mode = "item" /\ view.item \notin Document
           \/ view.mode = "board" /\ item = None /\ view.item = None

\* GestureArena.begin: the second pointer makes a pinch of what is undecided.
OwnerOnBegin(tracked) ==
  IF Cardinality(tracked) = 2 /\ owner = "undecided" THEN "pinch" ELSE owner

\* GestureArena.move: two pointers pinch, one that has travelled pans.
OwnerOnMove(travel) ==
  IF Cardinality(Contacts) >= 2 THEN "pinch"
  ELSE IF owner = "undecided" /\ travel >= 3 THEN "pan" ELSE owner

\* #beginTwoFingerUndo: both flags and the delay, unless an item is being moved.
BeginTwoFingerUndo(tracked) ==
  IF Cardinality(tracked) = 2 /\ mover = None
    THEN [AtRest EXCEPT !.sequence = TRUE, !.candidate = TRUE, !.delay = TRUE]
    ELSE fingers

\* #cancelInk and #cancelErase.
CancelDrawing == drawing' = None /\ overlay' = [overlay EXCEPT ![drawing.tool] = 0]

\* beginMove: only the item selected on the board is lifted.
Lifted(item) == IF view.mode = "board" /\ view.item = item THEN item ELSE preview

Press(p) ==
  /\ alive /\ downs < MaxDowns /\ p \notin down
  /\ down' = down \cup {p} /\ downs' = downs + 1
  /\ UNCHANGED alive

\* pointerdown that draws: it ends the element under way, and a pen also takes
\* over from every contact.
PressToDraw(p) ==
  /\ Press(p)
  /\ \E item \in Item \cup {None} : Draws(p, item)
  /\ IF p \in Pen /\ Contacts # {}
       THEN /\ hold' = None /\ fingers' = AtRest
            /\ contact' = <<>> /\ owner' = "undecided"
            /\ preview' = IF mover # None THEN None ELSE preview
            /\ mover' = None
       ELSE UNCHANGED <<hold, fingers, contact, owner, preview, mover>>
  /\ \E tool \in {"ink", "erase"} :
       /\ drawing' = [tool |-> tool, pointer |-> p, id |-> downs']
       /\ overlay' = [t \in {"ink", "erase"} |-> IF t = tool THEN downs' ELSE 0]
  /\ UNCHANGED <<undoing, view, lastTap, sent>>

\* Mutant: a touch while something is drawn becomes a contact.
IgnoresNone(p) == FALSE

\* A touch while something is drawn is not tracked.
Ignores(p) == p \in Finger /\ drawing # None

PressIgnored(p) ==
  /\ Ignores(p)
  /\ Press(p)
  /\ UNCHANGED <<gesture, scene>>

\* pointerdown of a contact: the first may select an item and wait to lift it,
\* the second starts a pinch or the two-finger undo.
PressContact(p) ==
  /\ ~Ignores(p)
  /\ Press(p)
  /\ \E item \in IF view.mode = "board" THEN Item \cup {None} ELSE {None} :
       LET tracked == Contacts \cup {p}
           first == Cardinality(tracked) = 1 /\ item # None IN
       /\ ~Draws(p, item)
       /\ contact' = [q \in tracked |->
                        IF q = p THEN [item |-> item, moved |-> FALSE] ELSE contact[q]]
       /\ owner' = OwnerOnBegin(tracked)
       /\ fingers' = IF p \in Finger THEN BeginTwoFingerUndo(tracked) ELSE fingers
       /\ hold' = IF first THEN <<p, item>>
                  ELSE IF Cardinality(tracked) >= 2 THEN None ELSE hold
       /\ preview' = IF first THEN None ELSE preview
       /\ view' = IF first THEN Board(item) ELSE view
  /\ UNCHANGED <<drawing, mover, undoing, lastTap, overlay, sent>>

\* The hold timer: the contact that has not moved lifts its item.
HoldFires ==
  /\ hold # None
  /\ hold' = None
  /\ LET p == hold[1] IN
       IF p \in Contacts /\ ~contact[p].moved /\ Cardinality(Contacts) = 1
         THEN mover' = p /\ preview' = Lifted(hold[2])
         ELSE UNCHANGED <<mover, preview>>
  /\ UNCHANGED <<alive, down, downs, contact, owner, drawing, fingers, undoing,
                 view, lastTap, overlay, sent>>

-----------------------------------------------------------------------------
\* pointermove of the pointer that draws.
MoveDrawing(p) ==
  /\ alive /\ drawing # None /\ drawing.pointer = p
  /\ overlay' = [overlay EXCEPT ![drawing.tool] = drawing.id]
  /\ UNCHANGED <<alive, down, downs, gesture, view, preview, lastTap, sent>>

\* What a pinch may preview: out of the item, on into it, or from the board
\* into the item under its centre.
PinchedViews(far) ==
  CASE view.mode = "item" -> {Entering(view.item, TRUE, far)}
    [] view.mode = "entering" -> {Entering(view.item, view.out, far)}
    [] view.mode = "board" -> {Entering(i, FALSE, far) : i \in Item}

Pinches(p) == p # mover /\ Cardinality(Contacts) >= 2

\* pointermove of a contact `travel' pixels from its start.
MoveContact(p) ==
  /\ alive /\ p \in Contacts
  /\ ~(drawing # None /\ drawing.pointer = p)
  /\ \E travel \in 2..5 :
       /\ ~(fingers.candidate /\ travel < 4)
       /\ fingers' = IF fingers.candidate THEN CancelCandidate(fingers) ELSE fingers
       /\ contact' = [contact EXCEPT ![p].moved = @ \/ travel >= 5]
       /\ hold' = IF travel >= 5 \/ Pinches(p) THEN None ELSE hold
       /\ owner' = IF p = mover THEN owner ELSE OwnerOnMove(travel)
  /\ \/ Pinches(p) /\ (\E far \in BOOLEAN : view' \in PinchedViews(far)) /\ preview' = None
     \/ (Pinches(p) => view.mode = "board") /\ UNCHANGED <<view, preview>>
  /\ UNCHANGED <<alive, down, downs, drawing, mover, undoing, lastTap, overlay, sent>>

-----------------------------------------------------------------------------
Dispatch(kind, id) == sent' = sent \cup {[kind |-> kind, id |-> id]}

Release(p) == alive /\ p \in down /\ down' = down \ {p} /\ UNCHANGED <<alive, downs>>

\* pointerup of the pointer that draws.  An eraser that crossed nothing
\* commits nothing.
LiftDrawing(p) ==
  /\ Release(p)
  /\ drawing # None /\ drawing.pointer = p
  /\ drawing' = None
  /\ \/ /\ Dispatch(drawing.tool, drawing.id)
        /\ overlay' = IF drawing.tool = "erase"
                        THEN [overlay EXCEPT !.erase = drawing.id] ELSE overlay
     \/ /\ drawing.tool = "erase"
        /\ overlay' = [overlay EXCEPT !.erase = 0]
        /\ UNCHANGED sent
  /\ UNCHANGED <<contact, owner, mover, hold, fingers, undoing, view, preview, lastTap>>

\* arena.end and the end of a sequence: the last contact settles the view.
Untrack(p) ==
  /\ contact' = Restrict(contact, Contacts \ {p})
  /\ owner' = IF Contacts \subseteq {p} THEN "undecided" ELSE owner

\* The undo of two fingers that lift before the delay.
LiftFingers(p) ==
  LET asked == fingers.candidate /\ ~fingers.done /\ ~Refused IN
  /\ undoing' = IF asked THEN undoing + 1 ELSE undoing
  /\ fingers' = IF Contacts \subseteq {p} THEN AtRest
                ELSE [CancelCandidate(fingers) EXCEPT !.done = @ \/ asked]

\* commitMove: the item may be gone by now.
CommitMove(p) ==
  /\ mover' = None
  /\ \/ preview # None /\ Dispatch("move", downs) /\ UNCHANGED preview
     \/ preview' = None /\ UNCHANGED sent
  /\ view' = IF Contacts \subseteq {p} THEN Settled(view) ELSE view
  /\ UNCHANGED lastTap

\* tap, on the board: select, or open at the second tap within 360 ms.
Tap(item) ==
  /\ preview' = None
  /\ \/ /\ item # None /\ lastTap = item
        /\ view' = Inside(item) /\ lastTap' = None
     \/ view' = Board(item) /\ lastTap' = item
  /\ UNCHANGED <<mover, sent>>

\* pointerup of any other pointer.
LiftContact(p) ==
  /\ Release(p)
  /\ ~(drawing # None /\ drawing.pointer = p)
  /\ hold' = None
  /\ LiftFingers(p) /\ Untrack(p)
  /\ LET pinched == Cardinality(Contacts) >= 2 \/ fingers.sequence \/ view.mode = "entering"
         taps == p \in Contacts /\ ~contact[p].moved /\ ~pinched IN
       \/ p = mover /\ CommitMove(p)
       \/ p # mover /\ taps /\ view.mode = "board" /\ Tap(contact[p].item)
       \/ /\ p # mover /\ ~(taps /\ view.mode = "board")
          /\ view' = IF Contacts \subseteq {p} THEN Settled(view) ELSE view
          /\ UNCHANGED <<mover, preview, lastTap, sent>>
  /\ UNCHANGED <<drawing, overlay>>

-----------------------------------------------------------------------------
\* The clean-up of pointercancel and of lostpointercapture.
Abandon(p) ==
  /\ hold' = None
  /\ IF drawing # None /\ drawing.pointer = p
       THEN CancelDrawing ELSE UNCHANGED <<drawing, overlay>>
  /\ IF p = mover THEN mover' = None /\ preview' = None ELSE UNCHANGED <<mover, preview>>
  /\ Untrack(p)
  /\ IF Contacts \subseteq {p}
       THEN view' = Settled(view) /\ fingers' = AtRest
       ELSE UNCHANGED <<view, fingers>>
  /\ UNCHANGED <<undoing, lastTap, sent>>

PointerCancel(p) == Release(p) /\ Abandon(p)

LostPointerCapture(p) ==
  /\ alive
  /\ p \in Contacts \/ (drawing # None /\ drawing.pointer = p)
  /\ Abandon(p)
  /\ UNCHANGED <<alive, down, downs>>

-----------------------------------------------------------------------------
\* The timers of the two-finger undo.
DelayFires ==
  /\ fingers.delay
  /\ IF fingers.candidate /\ Cardinality(Contacts) = 2
       THEN PerformUndo([fingers EXCEPT !.delay = FALSE, !.repeat = TRUE])
       ELSE fingers' = [fingers EXCEPT !.delay = FALSE] /\ UNCHANGED undoing
  /\ UNCHANGED <<alive, down, downs, contact, owner, drawing, mover, hold, scene>>

RepeatFires ==
  /\ fingers.repeat /\ fingers.candidate /\ Cardinality(Contacts) = 2
  /\ PerformUndo(fingers)
  /\ UNCHANGED <<alive, down, downs, contact, owner, drawing, mover, hold, scene>>

UndoSettles ==
  /\ undoing > 0 /\ undoing' = undoing - 1
  /\ UNCHANGED <<alive, down, downs, contact, owner, drawing, mover, hold, fingers, scene>>

\* Mutant: a dispatch that fails leaves its overlay.
AnswerOfSuccess ==
  /\ \E d \in sent : sent' = sent \ {d}
  /\ UNCHANGED <<alive, down, downs, gesture, view, preview, lastTap, overlay>>

\* A dispatch succeeds or fails: either way its overlay, or what has taken its
\* place, is cleared.
Answer ==
  /\ \E d \in sent :
       /\ sent' = sent \ {d}
       /\ IF d.kind = "move"
            THEN preview' = None /\ UNCHANGED overlay
            ELSE overlay' = [overlay EXCEPT ![d.kind] = 0] /\ UNCHANGED preview
  /\ UNCHANGED <<alive, down, downs, gesture, view, lastTap>>

\* The page leaves the item, by its button or because the item is gone.
CloseItem ==
  /\ view.mode # "board"
  /\ view' = Board(view.item)
  /\ UNCHANGED <<alive, down, downs, gesture, preview, lastTap, overlay, sent>>

\* The page selects an item it has made, or nothing when the item is gone.
SelectItem ==
  /\ view.mode = "board"
  /\ \E item \in Item \cup {None} : view' = Board(item)
  /\ preview' = None
  /\ UNCHANGED <<alive, down, downs, gesture, lastTap, overlay, sent>>

Destroy ==
  /\ alive /\ alive' = FALSE
  /\ hold' = None /\ fingers' = ClearUndoTimers(fingers)
  /\ drawing' = None /\ overlay' = [ink |-> 0, erase |-> 0]
  /\ preview' = None /\ owner' = "undecided"
  /\ UNCHANGED <<down, downs, contact, mover, undoing, view, lastTap, sent>>

Next ==
  \/ \E p \in Pointer :
       \/ PressToDraw(p) \/ PressIgnored(p) \/ PressContact(p)
       \/ MoveDrawing(p) \/ MoveContact(p)
       \/ LiftDrawing(p) \/ LiftContact(p)
       \/ PointerCancel(p) \/ LostPointerCapture(p)
  \/ HoldFires \/ DelayFires \/ RepeatFires
  \/ UndoSettles \/ Answer \/ CloseItem \/ SelectItem \/ Destroy

Spec == Init /\ [][Next]_vars

-----------------------------------------------------------------------------
(***************************************************************************)
(* "Every ended or cancelled sequence releases all transient pointer       *)
(* state", and every transition settles: an owner is always a pointer that *)
(* is still there, a timer has its sequence, and with no contact left      *)
(* nothing waits and the view is the board or an item                      *)
(* (interaction/CONTRACT.md, GestureArena 5 and viewport 4).               *)
(***************************************************************************)
Released ==
  /\ alive /\ drawing # None => drawing.pointer \in down
  /\ alive => Contacts \subseteq down /\ (mover # None => mover \in Contacts)
  /\ alive /\ hold # None => Contacts = {hold[1]}
  /\ fingers.delay \/ fingers.repeat => alive /\ fingers.candidate
  /\ alive /\ Contacts = {} => fingers = AtRest /\ view.mode # "entering"
  /\ ~alive => drawing = None /\ hold = None

(***************************************************************************)
(* Nothing is shown that no one will take away: an overlay belongs to the  *)
(* element being drawn or to a dispatch under way, a lifted item to the    *)
(* pointer that holds it or to its dispatch (pointerEnd, pointerCancel,    *)
(* destroy and the answers at lines 226, 249 and 393).                     *)
(***************************************************************************)
ShownIsOwned ==
  /\ \A tool \in {"ink", "erase"} :
       LET id == overlay[tool]
           drawn == drawing # None /\ drawing.tool = tool /\ drawing.id = id IN
       id # 0 => drawn \/ [kind |-> tool, id |-> id] \in sent
  /\ preview # None => mover # None \/ \E d \in sent : d.kind = "move"

(***************************************************************************)
(* "A second pointer cannot steal" a Pencil stroke: while a pen draws, no  *)
(* finger is a contact, lifts an item or waits to undo, and no event of a  *)
(* finger ends or replaces the stroke; a finger that stays down from       *)
(* before has no effect when it lifts (CONTRACT.md, GestureArena 4;        *)
(* pointerDown lines 102 to 116 and 143).                                  *)
(***************************************************************************)
PencilIsSovereign ==
  drawing # None /\ drawing.pointer \in Pen =>
    /\ Contacts \cap Finger = {}
    /\ mover \notin Finger
    /\ ~fingers.candidate /\ ~fingers.delay /\ ~fingers.repeat

\* The element being drawn is the one shown.  Not so: the answer of the stroke
\* before clears whatever overlay is there until the pointer moves again.
DrawnIsShown == drawing # None => overlay[drawing.tool] = drawing.id

\* "Two stationary fingers": a sequence that may still undo has two contacts
\* that have not moved.  Not so after a pan or after pointercancel of one.
UndoIsStationary ==
  fingers.candidate =>
    /\ Cardinality(Contacts) >= 2
    /\ \A p \in Contacts : ~contact[p].moved
=============================================================================
