------------------------ MODULE PointerIntentProofs ------------------------
(***************************************************************************)
(* PointerIntent for any pointers, items and number of presses: every      *)
(* sequence gives back what it held, nothing is shown without an owner and *)
(* no finger reaches a stroke of the pen.                                  *)
(*                                                                         *)
(* The three invariants hold only together: the pencil is sovereign when   *)
(* it lands because with no contact left all flags are at rest, and what   *)
(* is shown stays owned because the lifted item falls with its contacts.   *)
(***************************************************************************)
EXTENDS PointerIntent, FiniteSetTheorems, TLAPS

\* What a pointer that lands relies on: there are finitely many contacts, the
\* one that draws is not among them, and an id has been given out.
LandInv ==
  /\ IsFiniteSet(Contacts)
  /\ drawing # None => drawing.pointer \notin Contacts
  /\ down # {} => downs > 0

PointerInv == TypeOK /\ LandInv /\ Released /\ ShownIsOwned /\ PencilIsSovereign
-----------------------------------------------------------------------------
Flags == [sequence : BOOLEAN, candidate : BOOLEAN, done : BOOLEAN,
          delay : BOOLEAN, repeat : BOOLEAN]
Contact == [item : Item \cup {None}, moved : BOOLEAN]
View == [mode : {"board", "entering", "item"}, item : Item \cup {None},
         out : BOOLEAN, far : BOOLEAN]
Overlay == [{"ink", "erase"} -> 0..MaxDowns]
Dispatched == [kind : {"ink", "erase", "move"}, id : 1..MaxDowns]

LEMMA Typed ==
  ASSUME TypeOK
  PROVE  /\ alive \in BOOLEAN /\ down \subseteq Pointer /\ downs \in 0..MaxDowns
         /\ Contacts \subseteq Pointer /\ contact \in [Contacts -> Contact]
         /\ owner \in {"undecided", "pan", "pinch"}
         /\ drawing \in Drawing \cup {None} /\ mover \in Pointer \cup {None}
         /\ hold \in (Pointer \X Item) \cup {None}
         /\ fingers \in Flags /\ undoing \in Nat /\ view \in View
         /\ preview \in Item \cup {None} /\ lastTap \in Item \cup {None}
         /\ overlay \in Overlay /\ sent \subseteq Dispatched
  BY DEF TypeOK, Flags, Contact, View, Overlay, Dispatched

\* TypeOK of the next state, from its parts.
LEMMA TypedNext ==
  ASSUME /\ alive' \in BOOLEAN /\ down' \subseteq Pointer /\ downs' \in 0..MaxDowns
         /\ Contacts' \subseteq Pointer /\ contact' \in [Contacts' -> Contact],
         /\ owner' \in {"undecided", "pan", "pinch"}
         /\ drawing' \in Drawing \cup {None} /\ mover' \in Pointer \cup {None}
         /\ hold' \in (Pointer \X Item) \cup {None},
         /\ fingers' \in Flags /\ undoing' \in Nat /\ view' \in View,
         /\ preview' \in Item \cup {None} /\ lastTap' \in Item \cup {None}
         /\ overlay' \in Overlay /\ sent' \subseteq Dispatched
  PROVE  TypeOK'
  BY DEF TypeOK, Flags, Contact, View, Overlay, Dispatched, Drawing, Pointer

LEMMA FlagsFields ==
  ASSUME NEW f \in Flags
  PROVE  /\ ClearUndoTimers(f) \in Flags /\ CancelCandidate(f) \in Flags
         /\ ~ClearUndoTimers(f).delay /\ ~ClearUndoTimers(f).repeat
         /\ ~CancelCandidate(f).delay /\ ~CancelCandidate(f).repeat
         /\ ~CancelCandidate(f).candidate
  BY DEF Flags, ClearUndoTimers, CancelCandidate

LEMMA RestFields ==
  AtRest \in Flags /\ ~AtRest.delay /\ ~AtRest.repeat /\ ~AtRest.candidate
  BY DEF Flags, AtRest

LEMMA Views ==
  ASSUME NEW i \in Item \cup {None}, NEW out \in BOOLEAN, NEW far \in BOOLEAN
  PROVE  /\ Board(i) \in View /\ Board(i).mode = "board"
         /\ Inside(i) \in View /\ Inside(i).mode = "item"
         /\ Entering(i, out, far) \in View
         /\ Entering(i, TRUE, far) \in View /\ Entering(i, FALSE, far) \in View
  BY DEF View, Board, Inside, Entering

LEMMA SettledView ==
  ASSUME NEW v \in View
  PROVE  Settled(v) \in View /\ Settled(v).mode # "entering"
<1>1. v.item \in Item \cup {None}
  BY DEF View
<1>2. QED
  BY <1>1, Views DEF Settled

LEMMA NoContacts == DOMAIN <<>> = {} /\ <<>> \in [{} -> Contact]
  OBVIOUS

LEMMA Landing ==
  ASSUME TypeOK, LandInv, NEW p \in Pointer, p \notin Contacts
  PROVE  /\ IsFiniteSet(Contacts \cup {p})
         /\ Cardinality(Contacts \cup {p}) \in Nat
         /\ Cardinality(Contacts \cup {p}) = 1 <=> Contacts = {}
         /\ Cardinality(Contacts \cup {p}) >= 2 <=> Contacts # {}
<1>1. IsFiniteSet(Contacts) /\ Cardinality(Contacts) \in Nat
  BY FS_CardinalityType DEF LandInv
<1>2. Cardinality(Contacts) = 0 <=> Contacts = {}
  BY <1>1, FS_EmptySet
<1>3. IsFiniteSet(Contacts \cup {p}) /\ Cardinality(Contacts \cup {p}) = Cardinality(Contacts) + 1
  BY <1>1, FS_AddElement
<1>4. QED
  BY <1>1, <1>2, <1>3

LEMMA PressFields ==
  ASSUME PointerInv, NEW p \in Pointer, Press(p)
  PROVE  /\ p \notin Contacts /\ (drawing # None => drawing.pointer # p)
         /\ alive /\ alive' /\ alive' \in BOOLEAN
         /\ down' = down \cup {p} /\ down' \subseteq Pointer
         /\ downs' \in 1..MaxDowns /\ downs' > 0
<1>1. alive /\ alive \in BOOLEAN /\ downs \in 0..MaxDowns /\ down \subseteq Pointer
  BY Typed DEF PointerInv, Press
<1>2. QED
  BY <1>1, MaxDownsAssumption DEF PointerInv, Press, Released

LEMMA UntrackFields ==
  ASSUME TypeOK, LandInv, NEW p \in Pointer, Untrack(p)
  PROVE  /\ Contacts' = Contacts \ {p} /\ IsFiniteSet(Contacts')
         /\ contact' \in [Contacts' -> Contact]
         /\ owner' \in {"undecided", "pan", "pinch"}
<1>1. contact' = [q \in Contacts \ {p} |-> contact[q]] /\ contact \in [Contacts -> Contact]
  BY Typed DEF Untrack, Restrict
<1>2. Contacts' = Contacts \ {p} /\ contact' \in [Contacts' -> Contact]
  BY <1>1 DEF Contacts
<1>3. IsFiniteSet(Contacts \ {p})
  BY FS_Subset DEF LandInv
<1>4. owner' \in {"undecided", "pan", "pinch"}
  BY Typed DEF Untrack
<1>5. QED
  BY <1>2, <1>3, <1>4

LEMMA ReleaseFields ==
  ASSUME PointerInv, NEW p \in Pointer, Release(p)
  PROVE  /\ alive /\ alive' /\ alive' \in BOOLEAN /\ downs' = downs
         /\ down' = down \ {p} /\ down' \subseteq Pointer
         /\ downs \in 1..MaxDowns /\ downs > 0
<1>1. alive /\ alive \in BOOLEAN /\ downs \in 0..MaxDowns /\ down \subseteq Pointer
  BY Typed DEF PointerInv, Release
<1>2. QED
  BY <1>1, MaxDownsAssumption DEF PointerInv, LandInv, Release

LEMMA Apart ==
  /\ None \notin Pointer /\ None \notin Item /\ None \notin Drawing
  /\ None \notin Pointer \X Item /\ None \notin Finger
  BY NoneIsApart DEF Pointer

-----------------------------------------------------------------------------
LEMMA InitInv ==
  ASSUME Init
  PROVE  PointerInv
<1>1. Contacts = {} /\ contact \in [Contacts -> Contact]
  BY NoContacts DEF Init, Contacts
<1>2. view \in View /\ view.mode = "board" /\ fingers \in Flags
  BY Views, RestFields, NoneIsApart DEF Init, AtRest, Flags
<1>3. overlay \in Overlay /\ overlay["ink"] = 0 /\ overlay["erase"] = 0
  BY MaxDownsAssumption DEF Init, Overlay
<1>4. TypeOK
  BY <1>1, <1>2, <1>3, MaxDownsAssumption
  DEF Init, TypeOK, Flags, Contact, View, Overlay, Dispatched, AtRest
<1>5. IsFiniteSet(Contacts)
  BY <1>1, FS_EmptySet
<1>6. LandInv
  BY <1>5 DEF Init, LandInv
<1>7. Released
  BY <1>1, <1>2 DEF Init, Released, AtRest
<1>8. ShownIsOwned /\ PencilIsSovereign
  BY <1>3 DEF Init, ShownIsOwned, PencilIsSovereign
<1>9. QED
  BY <1>4, <1>6, <1>7, <1>8 DEF PointerInv

\* A pen that lands among contacts drops them; nothing else that draws touches
\* them.
LEMMA PressToDrawStep ==
  ASSUME PointerInv, NEW p \in Pointer, PressToDraw(p)
  PROVE  PointerInv'
<1>1. TypeOK /\ LandInv /\ Released /\ ShownIsOwned /\ PencilIsSovereign /\ Press(p)
  BY DEF PointerInv, PressToDraw
<1>2. /\ p \notin Contacts /\ alive /\ alive' /\ down' = down \cup {p} /\ down' \subseteq Pointer
      /\ downs' \in 1..MaxDowns /\ downs' > 0 /\ alive' \in BOOLEAN
  BY <1>1, PressFields
<1>3. view.mode # "entering" /\ view' = view /\ lastTap' = lastTap /\ sent' = sent
      /\ undoing' = undoing
  BY DEF PressToDraw, Draws
<1>4. PICK tool \in {"ink", "erase"} :
        /\ drawing' = [tool |-> tool, pointer |-> p, id |-> downs']
        /\ overlay' = [t \in {"ink", "erase"} |-> IF t = tool THEN downs' ELSE 0]
  BY DEF PressToDraw
<1>5. /\ drawing' \in Drawing /\ drawing' # None
      /\ drawing'.tool = tool /\ drawing'.pointer = p /\ drawing'.id = downs'
  BY <1>2, <1>4, Apart DEF Drawing
<1>6. overlay' \in Overlay /\ overlay'[tool] = downs'
      /\ \A t \in {"ink", "erase"} \ {tool} : overlay'[t] = 0
  BY <1>2, <1>4, MaxDownsAssumption DEF Overlay
<1>7. Contacts \subseteq down /\ (Contacts = {} => mover = None /\ fingers = AtRest)
  BY <1>1, <1>2, Apart DEF Released
<1>8. \/ /\ hold' = None /\ fingers' = AtRest /\ owner' = "undecided" /\ Contacts' = {}
         /\ contact' \in [Contacts' -> Contact] /\ mover' = None
         /\ preview' = IF mover # None THEN None ELSE preview
      \/ /\ hold' = hold /\ fingers' = fingers /\ owner' = owner /\ contact' = contact
         /\ preview' = preview /\ mover' = mover /\ Contacts' = Contacts
         /\ (p \in Pen => Contacts = {})
<2>1. CASE p \in Pen /\ Contacts # {}
  <3>1. contact' = <<>>
    BY <2>1 DEF PressToDraw
  <3>2. Contacts' = {} /\ contact' \in [Contacts' -> Contact]
    BY <3>1, NoContacts DEF Contacts
  <3>3. QED
    BY <2>1, <3>2 DEF PressToDraw
<2>2. CASE ~(p \in Pen /\ Contacts # {})
  BY <2>2 DEF PressToDraw, Contacts
<2>3. QED
  BY <2>1, <2>2
<1>9. TypeOK'
  <2>1. contact' \in [Contacts' -> Contact] /\ Contacts' \subseteq Pointer /\ fingers' \in Flags
        /\ owner' \in {"undecided", "pan", "pinch"} /\ preview' \in Item \cup {None}
        /\ hold' \in (Pointer \X Item) \cup {None} /\ mover' \in Pointer \cup {None}
    BY <1>1, <1>8, Typed, RestFields
  <2>2. QED
    BY <1>1, <1>2, <1>3, <1>5, <1>6, <2>1, Typed, TypedNext
<1>10. LandInv'
  BY <1>1, <1>2, <1>5, <1>8, FS_EmptySet DEF LandInv
<1>11. Released'
  BY <1>1, <1>2, <1>3, <1>5, <1>8, RestFields DEF Released
<1>12. ShownIsOwned'
  <2>1. preview' # None => mover' # None \/ \E d \in sent' : d.kind = "move"
    BY <1>1, <1>3, <1>8 DEF ShownIsOwned
  <2>2. QED
    BY <1>5, <1>6, <2>1 DEF ShownIsOwned
<1>13. PencilIsSovereign'
  <2>1. CASE p \in Pen
    BY <1>5, <1>7, <1>8, <2>1, RestFields, Apart DEF PencilIsSovereign
  <2>2. CASE p \notin Pen
    BY <1>5, <2>2 DEF PencilIsSovereign
  <2>3. QED
    BY <2>1, <2>2
<1>14. QED
  BY <1>9, <1>10, <1>11, <1>12, <1>13 DEF PointerInv

LEMMA PressIgnoredStep ==
  ASSUME PointerInv, NEW p \in Pointer, PressIgnored(p)
  PROVE  PointerInv'
<1>1. TypeOK /\ LandInv /\ Released /\ ShownIsOwned /\ PencilIsSovereign /\ Press(p)
  BY DEF PointerInv, PressIgnored
<1>2. /\ alive /\ alive' /\ down' = down \cup {p} /\ down' \subseteq Pointer
      /\ downs' \in 1..MaxDowns /\ downs' > 0 /\ alive' \in BOOLEAN
  BY <1>1, PressFields
<1>3. /\ contact' = contact /\ owner' = owner /\ drawing' = drawing /\ mover' = mover
      /\ hold' = hold /\ fingers' = fingers /\ undoing' = undoing /\ view' = view
      /\ preview' = preview /\ lastTap' = lastTap /\ overlay' = overlay /\ sent' = sent
      /\ Contacts' = Contacts
  BY DEF PressIgnored, gesture, scene, Contacts
<1>4. TypeOK'
  BY <1>1, <1>2, <1>3, Typed, TypedNext
<1>5. QED
  BY <1>1, <1>2, <1>3, <1>4
  DEF PointerInv, LandInv, Released, ShownIsOwned, PencilIsSovereign

\* A pointer that lands and does not draw becomes a contact: with it alone, an
\* item may wait to be lifted; with another, nothing waits.
LEMMA PressContactStep ==
  ASSUME PointerInv, NEW p \in Pointer, PressContact(p)
  PROVE  PointerInv'
<1> DEFINE tracked == Contacts \cup {p}
<1>1. TypeOK /\ LandInv /\ Released /\ ShownIsOwned /\ PencilIsSovereign /\ Press(p)
  BY DEF PointerInv, PressContact
<1>2. /\ p \notin Contacts /\ (drawing # None => drawing.pointer # p) /\ alive /\ alive'
      /\ alive' \in BOOLEAN /\ down' = down \cup {p} /\ down' \subseteq Pointer
      /\ downs' \in 1..MaxDowns /\ downs' > 0
  BY <1>1, PressFields
<1>3. /\ drawing' = drawing /\ mover' = mover /\ undoing' = undoing /\ lastTap' = lastTap
      /\ overlay' = overlay /\ sent' = sent /\ (p \in Finger => drawing = None)
  BY DEF PressContact, Ignores
<1>4. /\ IsFiniteSet(tracked)
      /\ Cardinality(tracked) = 1 <=> Contacts = {}
      /\ Cardinality(tracked) >= 2 <=> Contacts # {}
  BY <1>1, <1>2, Landing
<1>5. PICK item \in Item \cup {None} :
        LET first == Cardinality(tracked) = 1 /\ item # None IN
        /\ contact' = [q \in tracked |->
                         IF q = p THEN [item |-> item, moved |-> FALSE] ELSE contact[q]]
        /\ owner' = OwnerOnBegin(tracked)
        /\ fingers' = IF p \in Finger THEN BeginTwoFingerUndo(tracked) ELSE fingers
        /\ hold' = IF first THEN <<p, item>>
                   ELSE IF Cardinality(tracked) >= 2 THEN None ELSE hold
        /\ preview' = IF first THEN None ELSE preview
        /\ view' = IF first THEN Board(item) ELSE view
  BY DEF PressContact
<1> HIDE DEF tracked
<1>6. Contacts' = tracked
  BY <1>5 DEF Contacts
<1>7. contact' \in [Contacts' -> Contact]
  <2>1. [item |-> item, moved |-> FALSE] \in Contact
    BY DEF Contact
  <2>2. contact \in [Contacts -> Contact]
    BY <1>1, Typed
  <2>3. \A q \in tracked : q = p \/ q \in Contacts
    BY DEF tracked
  <2>4. QED
    BY <1>5, <1>6, <2>1, <2>2, <2>3
<1>8. owner' \in {"undecided", "pan", "pinch"}
  BY <1>1, <1>5, Typed DEF OwnerOnBegin
<1>9. /\ fingers' = fingers \/ (p \in Finger /\ fingers'.candidate)
      /\ fingers' \in Flags
  <2> DEFINE begun == [AtRest EXCEPT !.sequence = TRUE, !.candidate = TRUE, !.delay = TRUE]
  <2>1. begun \in Flags
    BY DEF Flags, AtRest
  <2>2. begun.candidate
    BY DEF AtRest
  <2> HIDE DEF begun
  <2>3. fingers \in Flags
    BY <1>1, Typed
  <2>4. QED
    BY <1>5, <2>1, <2>2, <2>3 DEF begun, BeginTwoFingerUndo
<1>10. /\ preview' = None \/ preview' = preview
       /\ view' = view \/ (view' \in View /\ view'.mode = "board")
       /\ \/ hold' = <<p, item>> /\ item \in Item /\ Contacts = {}
          \/ hold' = None
          \/ hold' = hold /\ Contacts = {}
  BY <1>4, <1>5, Views
<1>11. TypeOK'
  <2>1. Contacts' \subseteq Pointer /\ hold' \in (Pointer \X Item) \cup {None}
        /\ preview' \in Item \cup {None} /\ view' \in View
    BY <1>1, <1>6, <1>10, Typed DEF tracked
  <2>2. QED
    BY <1>1, <1>2, <1>3, <1>7, <1>8, <1>9, <2>1, Typed, TypedNext
<1>12. LandInv'
  BY <1>1, <1>2, <1>3, <1>4, <1>6 DEF LandInv, tracked
<1>13. Released'
  <2>1. alive' /\ drawing' # None => drawing'.pointer \in down'
    BY <1>1, <1>2, <1>3 DEF Released
  <2>2. Contacts' \subseteq down' /\ (mover' # None => mover' \in Contacts')
    BY <1>1, <1>2, <1>3, <1>6 DEF Released, tracked
  <2>3. hold' # None => Contacts' = {hold'[1]}
    BY <1>1, <1>2, <1>6, <1>10 DEF Released, tracked
  <2>4. fingers'.delay \/ fingers'.repeat => alive' /\ fingers'.candidate
    BY <1>1, <1>2, <1>9 DEF Released
  <2>5. Contacts' # {}
    BY <1>6 DEF tracked
  <2>6. QED
    BY <1>2, <2>1, <2>2, <2>3, <2>4, <2>5 DEF Released
<1>14. ShownIsOwned'
  BY <1>1, <1>3, <1>10 DEF ShownIsOwned
<1>15. PencilIsSovereign'
  BY <1>1, <1>3, <1>6, <1>9 DEF PencilIsSovereign, tracked
<1>16. QED
  BY <1>11, <1>12, <1>13, <1>14, <1>15 DEF PointerInv

\* Only a contact that is there and alone is lifted by its timer.
LEMMA HoldFiresStep ==
  ASSUME PointerInv, HoldFires
  PROVE  PointerInv'
<1>1. TypeOK /\ LandInv /\ Released /\ ShownIsOwned /\ PencilIsSovereign
  BY DEF PointerInv
<1>2. /\ alive' = alive /\ down' = down /\ downs' = downs /\ contact' = contact /\ owner' = owner
      /\ drawing' = drawing /\ fingers' = fingers /\ undoing' = undoing /\ view' = view
      /\ lastTap' = lastTap /\ overlay' = overlay /\ sent' = sent /\ hold' = None
      /\ Contacts' = Contacts /\ hold # None
  BY DEF HoldFires, Contacts
<1>3. hold \in Pointer \X Item
  BY <1>1, <1>2, Typed
<1>4. \/ mover' \in Contacts /\ preview' \in Item \cup {None}
      \/ mover' = mover /\ preview' = preview
  <2>1. Lifted(hold[2]) \in Item \cup {None}
    BY <1>1, <1>3, Typed DEF Lifted
  <2>2. QED
    BY <2>1 DEF HoldFires
<1>5. Contacts \subseteq Pointer
  BY <1>1, Typed
<1>6. TypeOK'
  BY <1>1, <1>2, <1>4, <1>5, Typed, TypedNext
<1>7. LandInv' /\ Released'
  BY <1>1, <1>2, <1>4 DEF LandInv, Released
<1>8. ShownIsOwned' /\ PencilIsSovereign'
  BY <1>1, <1>2, <1>4, <1>5, Apart DEF ShownIsOwned, PencilIsSovereign
<1>9. QED
  BY <1>6, <1>7, <1>8 DEF PointerInv

-----------------------------------------------------------------------------
LEMMA MoveDrawingStep ==
  ASSUME PointerInv, NEW p \in Pointer, MoveDrawing(p)
  PROVE  PointerInv'
<1>1. TypeOK /\ LandInv /\ Released /\ ShownIsOwned /\ PencilIsSovereign
  BY DEF PointerInv
<1>2. /\ alive' = alive /\ down' = down /\ downs' = downs /\ contact' = contact /\ owner' = owner
      /\ drawing' = drawing /\ mover' = mover /\ hold' = hold /\ fingers' = fingers
      /\ undoing' = undoing /\ view' = view /\ preview' = preview /\ lastTap' = lastTap
      /\ sent' = sent /\ Contacts' = Contacts
      /\ overlay' = [overlay EXCEPT ![drawing.tool] = drawing.id] /\ drawing # None
  BY DEF MoveDrawing, gesture, Contacts
<1>3. drawing.tool \in {"ink", "erase"} /\ drawing.id \in 1..MaxDowns
  BY <1>1, <1>2, Typed DEF Drawing
<1>4. /\ overlay' \in Overlay
      /\ \A t \in {"ink", "erase"} : overlay'[t] = overlay[t] \/ (t = drawing.tool /\ overlay'[t] = drawing.id)
  BY <1>1, <1>2, <1>3, MaxDownsAssumption, Typed DEF Overlay
<1>5. TypeOK'
  BY <1>1, <1>2, <1>4, Typed, TypedNext
<1>6. LandInv' /\ Released' /\ PencilIsSovereign'
  BY <1>1, <1>2 DEF LandInv, Released, PencilIsSovereign
<1>7. ShownIsOwned'
  BY <1>1, <1>2, <1>4 DEF ShownIsOwned
<1>8. QED
  BY <1>5, <1>6, <1>7 DEF PointerInv

LEMMA MoveContactStep ==
  ASSUME PointerInv, NEW p \in Pointer, MoveContact(p)
  PROVE  PointerInv'
<1>1. TypeOK /\ LandInv /\ Released /\ ShownIsOwned /\ PencilIsSovereign
  BY DEF PointerInv
<1>2. /\ alive' = alive /\ down' = down /\ downs' = downs /\ drawing' = drawing /\ mover' = mover
      /\ undoing' = undoing /\ lastTap' = lastTap /\ overlay' = overlay /\ sent' = sent
      /\ p \in Contacts
  BY DEF MoveContact
<1>3. PICK travel \in 2..5 :
        /\ fingers' = IF fingers.candidate THEN CancelCandidate(fingers) ELSE fingers
        /\ contact' = [contact EXCEPT ![p].moved = @ \/ travel >= 5]
        /\ hold' = IF travel >= 5 \/ Pinches(p) THEN None ELSE hold
        /\ owner' = IF p = mover THEN owner ELSE OwnerOnMove(travel)
  BY DEF MoveContact
<1>4. Contacts' = Contacts /\ contact' \in [Contacts' -> Contact]
  <2>1. contact \in [Contacts -> Contact] /\ contact[p] \in Contact
    BY <1>1, <1>2, Typed
  <2>2. contact' = [contact EXCEPT ![p] = [contact[p] EXCEPT !.moved = contact[p].moved \/ travel >= 5]]
    BY <1>3
  <2>3. [contact[p] EXCEPT !.moved = contact[p].moved \/ travel >= 5] \in Contact
    BY <2>1 DEF Contact
  <2>4. contact' \in [Contacts -> Contact]
    BY <2>1, <2>2, <2>3
  <2>5. QED
    BY <2>4 DEF Contacts
<1>5. owner' \in {"undecided", "pan", "pinch"}
  BY <1>1, <1>3, Typed DEF OwnerOnMove
<1>6. fingers' \in Flags /\ (fingers' = fingers \/ (~fingers'.delay /\ ~fingers'.repeat /\ ~fingers'.candidate))
  BY <1>1, <1>3, Typed, FlagsFields
<1>7. view' \in View /\ (preview' = preview \/ preview' = None)
  <2>1. ASSUME NEW far \in BOOLEAN
        PROVE  PinchedViews(far) \subseteq View
    <3>1. view \in View /\ view.item \in Item \cup {None} /\ view.out \in BOOLEAN
          /\ view.mode \in {"board", "entering", "item"}
      BY <1>1, Typed DEF View
    <3>2. QED
      BY <3>1, Views DEF PinchedViews
  <2>2. QED
    BY <1>1, <2>1, Typed DEF MoveContact
<1>8. hold' = None \/ hold' = hold
  BY <1>3
<1>9. TypeOK'
  BY <1>1, <1>2, <1>4, <1>5, <1>6, <1>7, <1>8, Typed, TypedNext
<1>10. LandInv' /\ Released'
  BY <1>1, <1>2, <1>4, <1>6, <1>8 DEF LandInv, Released
<1>11. ShownIsOwned' /\ PencilIsSovereign'
  BY <1>1, <1>2, <1>4, <1>6, <1>7 DEF ShownIsOwned, PencilIsSovereign
<1>12. QED
  BY <1>9, <1>10, <1>11 DEF PointerInv

-----------------------------------------------------------------------------
\* The element that was drawn passes its overlay on to its dispatch.
LEMMA LiftDrawingStep ==
  ASSUME PointerInv, NEW p \in Pointer, LiftDrawing(p)
  PROVE  PointerInv'
<1>1. TypeOK /\ LandInv /\ Released /\ ShownIsOwned /\ PencilIsSovereign /\ Release(p)
  BY DEF PointerInv, LiftDrawing
<1>2. /\ alive /\ alive' /\ alive' \in BOOLEAN /\ downs' = downs /\ down' = down \ {p}
      /\ down' \subseteq Pointer /\ downs \in 1..MaxDowns /\ downs > 0
  BY <1>1, ReleaseFields
<1>3. /\ contact' = contact /\ owner' = owner /\ mover' = mover /\ hold' = hold
      /\ fingers' = fingers /\ undoing' = undoing /\ view' = view /\ preview' = preview
      /\ lastTap' = lastTap /\ drawing' = None /\ Contacts' = Contacts
      /\ drawing # None /\ drawing.pointer = p
  BY DEF LiftDrawing, Contacts
<1>4. drawing.tool \in {"ink", "erase"} /\ drawing.id \in 1..MaxDowns /\ p \notin Contacts
  BY <1>1, <1>3, Typed DEF Drawing, LandInv
<1>5. overlay \in Overlay /\ sent \subseteq Dispatched
  BY <1>1, Typed
<1>6. /\ overlay' \in Overlay /\ sent' \subseteq Dispatched /\ sent \subseteq sent'
      /\ \A t \in {"ink", "erase"} :
           \/ overlay'[t] = 0
           \/ overlay'[t] = overlay[t] /\ t # drawing.tool
           \/ overlay'[t] = overlay[t] /\ [kind |-> drawing.tool, id |-> drawing.id] \in sent'
           \/ overlay'[t] = drawing.id /\ t = drawing.tool
              /\ [kind |-> drawing.tool, id |-> drawing.id] \in sent'
  <2>1. CASE Dispatch(drawing.tool, drawing.id)
    <3>1. sent' = sent \cup {[kind |-> drawing.tool, id |-> drawing.id]}
      BY <2>1 DEF Dispatch
    <3>2. [kind |-> drawing.tool, id |-> drawing.id] \in Dispatched
      BY <1>4 DEF Dispatched
    <3>3. overlay' = overlay \/ (drawing.tool = "erase" /\ overlay' = [overlay EXCEPT !["erase"] = drawing.id])
          \/ (drawing.tool = "erase" /\ overlay' = [overlay EXCEPT !["erase"] = 0])
      BY DEF LiftDrawing
    <3>4. QED
      BY <1>4, <1>5, <3>1, <3>2, <3>3, MaxDownsAssumption DEF Overlay
  <2>2. CASE drawing.tool = "erase" /\ overlay' = [overlay EXCEPT !["erase"] = 0] /\ sent' = sent
    BY <1>4, <1>5, <2>2, MaxDownsAssumption DEF Overlay
  <2>3. QED
    BY <2>1, <2>2 DEF LiftDrawing
<1>7. TypeOK'
  BY <1>1, <1>2, <1>3, <1>6, Typed, TypedNext
<1>8. LandInv' /\ PencilIsSovereign'
  BY <1>1, <1>2, <1>3 DEF LandInv, PencilIsSovereign
<1>9. Released'
  BY <1>1, <1>2, <1>3, <1>4 DEF Released
<1>10. ShownIsOwned'
  BY <1>1, <1>3, <1>4, <1>6 DEF ShownIsOwned
<1>11. QED
  BY <1>7, <1>8, <1>9, <1>10 DEF PointerInv

LEMMA LiftContactStep ==
  ASSUME PointerInv, NEW p \in Pointer, LiftContact(p)
  PROVE  PointerInv'
<1>1. TypeOK /\ LandInv /\ Released /\ ShownIsOwned /\ PencilIsSovereign /\ Release(p)
      /\ Untrack(p) /\ LiftFingers(p)
  BY DEF PointerInv, LiftContact
<1>2. /\ alive /\ alive' /\ alive' \in BOOLEAN /\ downs' = downs /\ down' = down \ {p}
      /\ down' \subseteq Pointer /\ downs \in 1..MaxDowns /\ downs > 0
  BY <1>1, ReleaseFields
<1>3. /\ Contacts' = Contacts \ {p} /\ IsFiniteSet(Contacts')
      /\ contact' \in [Contacts' -> Contact] /\ owner' \in {"undecided", "pan", "pinch"}
  BY <1>1, UntrackFields
<1>4. /\ hold' = None /\ drawing' = drawing /\ overlay' = overlay
      /\ (drawing # None => drawing.pointer # p)
  BY DEF LiftContact
<1>5. /\ fingers' \in Flags /\ undoing' \in Nat
      /\ ~fingers'.delay /\ ~fingers'.repeat /\ ~fingers'.candidate
      /\ Contacts' = {} => fingers' = AtRest
  <2> DEFINE asked == fingers.candidate /\ ~fingers.done /\ ~Refused
             cancelled == CancelCandidate(fingers)
             lifted == [cancelled EXCEPT !.done = @ \/ asked]
  <2>1. undoing \in Nat /\ fingers \in Flags /\ cancelled \in Flags
        /\ ~cancelled.delay /\ ~cancelled.repeat /\ ~cancelled.candidate
    BY <1>1, Typed, FlagsFields
  <2>2. /\ undoing' = IF asked THEN undoing + 1 ELSE undoing
        /\ fingers' = IF Contacts \subseteq {p} THEN AtRest ELSE lifted
    BY <1>1 DEF LiftFingers
  <2> HIDE DEF cancelled, asked
  <2>3. lifted \in Flags /\ ~lifted.delay /\ ~lifted.repeat /\ ~lifted.candidate
    BY <2>1 DEF Flags
  <2> HIDE DEF lifted
  <2>4. QED
    BY <1>3, <2>1, <2>2, <2>3, RestFields
<1>6. /\ view' \in View /\ (Contacts' = {} => view'.mode # "entering")
      /\ mover' \in {mover, None} /\ mover' # p
      /\ lastTap' \in Item \cup {None} /\ preview' \in Item \cup {None}
      /\ sent \subseteq sent' /\ sent' \subseteq Dispatched
      /\ \/ preview' = None
         \/ preview' = preview /\ (mover' = mover \/ \E d \in sent' : d.kind = "move")
  <2>1. view \in View /\ Settled(view) \in View /\ Settled(view).mode # "entering"
        /\ preview \in Item \cup {None} /\ lastTap \in Item \cup {None} /\ sent \subseteq Dispatched
    BY <1>1, Typed, SettledView
  <2>2. CASE p = mover /\ CommitMove(p)
    <3>1. [kind |-> "move", id |-> downs] \in Dispatched
      BY <1>2 DEF Dispatched
    <3>2. /\ sent \subseteq sent' /\ sent' \subseteq Dispatched
          /\ preview' = None \/ (preview' = preview /\ \E d \in sent' : d.kind = "move")
      BY <2>1, <2>2, <3>1 DEF CommitMove, Dispatch
    <3>3. mover' = None /\ mover' # p /\ lastTap' = lastTap
      BY <2>2, Apart DEF CommitMove
    <3>4. view' = IF Contacts \subseteq {p} THEN Settled(view) ELSE view
      BY <2>2 DEF CommitMove
    <3>5. QED
      BY <1>3, <2>1, <3>2, <3>3, <3>4
  <2>3. CASE p # mover /\ p \in Contacts /\ Tap(contact[p].item)
    <3>1. contact[p].item \in Item \cup {None}
      BY <1>1, <2>3, Typed DEF Contact
    <3>2. view' \in View /\ view'.mode # "entering" /\ lastTap' \in Item \cup {None}
          /\ preview' = None /\ mover' = mover /\ sent' = sent
      BY <2>3, <3>1, Views DEF Tap
    <3>3. QED
      BY <2>1, <2>3, <3>2
  <2>4. CASE /\ p # mover
             /\ view' = IF Contacts \subseteq {p} THEN Settled(view) ELSE view
             /\ UNCHANGED <<mover, preview, lastTap, sent>>
    BY <1>3, <2>1, <2>4
  <2>5. QED
    BY <2>2, <2>3, <2>4 DEF LiftContact
<1>7. TypeOK'
  <2>1. Contacts' \subseteq Pointer /\ mover' \in Pointer \cup {None}
    BY <1>1, <1>3, <1>6, Typed
  <2>2. QED
    BY <1>1, <1>2, <1>3, <1>4, <1>5, <1>6, <2>1, Typed, TypedNext
<1>8. LandInv'
  BY <1>1, <1>2, <1>3, <1>4 DEF LandInv
<1>9. Released'
  BY <1>1, <1>2, <1>3, <1>4, <1>5, <1>6 DEF Released
<1>10. ShownIsOwned'
  <2>1. preview' # None => mover' # None \/ \E d \in sent' : d.kind = "move"
    BY <1>1, <1>6 DEF ShownIsOwned
  <2>2. QED
    BY <1>1, <1>4, <1>6, <2>1 DEF ShownIsOwned
<1>11. PencilIsSovereign'
  BY <1>1, <1>3, <1>4, <1>5, <1>6, Apart DEF PencilIsSovereign
<1>12. QED
  BY <1>7, <1>8, <1>9, <1>10, <1>11 DEF PointerInv

-----------------------------------------------------------------------------
\* A pointer that is cancelled, or loses its capture while it stays down,
\* gives back all it had.
LEMMA AbandonStep ==
  ASSUME PointerInv, NEW p \in Pointer, Abandon(p), alive, alive' = alive, downs' = downs,
         down' \subseteq down, down \ {p} \subseteq down'
  PROVE  PointerInv'
<1>1. TypeOK /\ LandInv /\ Released /\ ShownIsOwned /\ PencilIsSovereign /\ Untrack(p)
  BY DEF PointerInv, Abandon
<1>2. alive /\ alive' /\ alive' \in BOOLEAN /\ down' \subseteq Pointer
  BY <1>1, Typed
<1>3. /\ Contacts' = Contacts \ {p} /\ IsFiniteSet(Contacts')
      /\ contact' \in [Contacts' -> Contact] /\ owner' \in {"undecided", "pan", "pinch"}
  BY <1>1, UntrackFields
<1>4. /\ hold' = None /\ undoing' = undoing /\ lastTap' = lastTap /\ sent' = sent
      /\ mover' \in {mover, None} /\ mover' # p
      /\ preview' = None \/ (preview' = preview /\ mover' = mover)
  BY Apart DEF Abandon
<1>5. /\ overlay' \in Overlay
      /\ \/ drawing' = None
            /\ overlay'[drawing.tool] = 0
            /\ \A t \in {"ink", "erase"} : t # drawing.tool => overlay'[t] = overlay[t]
         \/ drawing' = drawing /\ overlay' = overlay /\ (drawing # None => drawing.pointer # p)
  <2>1. overlay \in Overlay /\ drawing \in Drawing \cup {None}
    BY <1>1, Typed
  <2>2. CASE drawing # None /\ drawing.pointer = p
    <3>1. drawing.tool \in {"ink", "erase"}
      BY <2>1, <2>2 DEF Drawing
    <3>2. drawing' = None /\ overlay' = [overlay EXCEPT ![drawing.tool] = 0]
      BY <2>2 DEF Abandon, CancelDrawing
    <3>3. QED
      BY <2>1, <3>1, <3>2, MaxDownsAssumption DEF Overlay
  <2>3. CASE ~(drawing # None /\ drawing.pointer = p)
    BY <2>1, <2>3 DEF Abandon
  <2>4. QED
    BY <2>2, <2>3
<1>6. /\ fingers' \in Flags /\ view' \in View
      /\ Contacts' = {} => fingers' = AtRest /\ view'.mode # "entering"
      /\ fingers' = AtRest \/ fingers' = fingers
  <2>1. view \in View /\ Settled(view) \in View /\ Settled(view).mode # "entering" /\ fingers \in Flags
    BY <1>1, Typed, SettledView
  <2>2. QED
    BY <1>3, <2>1, RestFields DEF Abandon
<1>7. TypeOK'
  <2>1. /\ Contacts' \subseteq Pointer /\ mover' \in Pointer \cup {None}
        /\ preview' \in Item \cup {None} /\ drawing' \in Drawing \cup {None}
    BY <1>1, <1>3, <1>4, <1>5, Typed
  <2>2. QED
    BY <1>1, <1>2, <1>3, <1>4, <1>5, <1>6, <2>1, Typed, TypedNext
<1>8. LandInv'
  BY <1>1, <1>3, <1>5 DEF LandInv
<1>9. Released'
  BY <1>1, <1>2, <1>3, <1>4, <1>5, <1>6, RestFields DEF Released
<1>10. ShownIsOwned'
  <2>1. preview' # None => mover' # None \/ \E d \in sent' : d.kind = "move"
    BY <1>1, <1>4 DEF ShownIsOwned
  <2>2. QED
    BY <1>1, <1>4, <1>5, <2>1 DEF ShownIsOwned
<1>11. PencilIsSovereign'
  BY <1>1, <1>3, <1>4, <1>5, <1>6, RestFields, Apart DEF PencilIsSovereign
<1>12. QED
  BY <1>7, <1>8, <1>9, <1>10, <1>11 DEF PointerInv

LEMMA CancelStep ==
  ASSUME PointerInv, NEW p \in Pointer, PointerCancel(p) \/ LostPointerCapture(p)
  PROVE  PointerInv'
<1>1. CASE PointerCancel(p)
  <2>1. alive /\ alive' = alive /\ downs' = downs /\ down' = down \ {p} /\ Abandon(p)
    BY <1>1 DEF PointerCancel, Release
  <2>2. QED
    BY <2>1, AbandonStep
<1>2. CASE LostPointerCapture(p)
  <2>1. alive /\ alive' = alive /\ downs' = downs /\ down' = down /\ Abandon(p)
    BY <1>2 DEF LostPointerCapture
  <2>2. QED
    BY <2>1, AbandonStep
<1>3. QED
  BY <1>1, <1>2

-----------------------------------------------------------------------------
\* A timer or an answer of the undo finds its sequence or changes nothing.
LEMMA UndoStep ==
  ASSUME PointerInv, DelayFires \/ RepeatFires \/ UndoSettles
  PROVE  PointerInv'
<1>1. TypeOK /\ LandInv /\ Released /\ ShownIsOwned /\ PencilIsSovereign
  BY DEF PointerInv
<1>2. /\ alive' = alive /\ down' = down /\ downs' = downs /\ contact' = contact /\ owner' = owner
      /\ drawing' = drawing /\ mover' = mover /\ hold' = hold /\ view' = view
      /\ preview' = preview /\ lastTap' = lastTap /\ overlay' = overlay /\ sent' = sent
      /\ Contacts' = Contacts
  BY DEF DelayFires, RepeatFires, UndoSettles, scene, Contacts
<1>3. undoing \in Nat /\ fingers \in Flags
  BY <1>1, Typed
<1>4. /\ undoing' \in Nat /\ fingers' \in Flags
      /\ \/ fingers' = fingers
         \/ /\ fingers.delay \/ fingers.repeat
            /\ fingers'.candidate = fingers.candidate
            /\ fingers'.repeat => fingers.candidate \/ fingers.repeat
            /\ fingers'.delay => fingers.delay
  <2>1. CASE DelayFires
    <3> DEFINE off == [fingers EXCEPT !.delay = FALSE]
               on == [fingers EXCEPT !.delay = FALSE, !.repeat = TRUE]
    <3>1. off \in Flags /\ off.candidate = fingers.candidate /\ off.repeat = fingers.repeat /\ ~off.delay
      BY <1>3 DEF Flags
    <3>2. on \in Flags /\ on.candidate = fingers.candidate /\ ~on.delay
      BY <1>3 DEF Flags
    <3>3. /\ fingers.delay
          /\ \/ fingers' = off /\ undoing' = undoing
             \/ PerformUndo(on) /\ fingers.candidate
      BY <2>1 DEF DelayFires
    <3> HIDE DEF off, on
    <3>4. [on EXCEPT !.done = TRUE] \in Flags /\ [on EXCEPT !.done = TRUE].candidate = on.candidate
          /\ ~[on EXCEPT !.done = TRUE].delay
      BY <3>2 DEF Flags
    <3> DEFINE done == [on EXCEPT !.done = TRUE]
    <3>5. done \in Flags /\ done.candidate = on.candidate /\ ~done.delay
      BY <3>4
    <3>6. undoing' \in Nat
      BY <1>3, <3>3 DEF PerformUndo
    <3>7. fingers' = off \/ (fingers.candidate /\ (fingers' = on \/ fingers' = done))
      BY <3>3 DEF PerformUndo
    <3> HIDE DEF done
    <3>8. CASE fingers' = off
      BY <3>1, <3>3, <3>6, <3>8
    <3>9. CASE fingers.candidate /\ (fingers' = on \/ fingers' = done)
      BY <3>2, <3>3, <3>5, <3>6, <3>9
    <3>10. QED
      BY <3>7, <3>8, <3>9
  <2>2. CASE RepeatFires
    <3>1. [fingers EXCEPT !.done = TRUE] \in Flags
          /\ [fingers EXCEPT !.done = TRUE].candidate = fingers.candidate
          /\ [fingers EXCEPT !.done = TRUE].repeat = fingers.repeat
          /\ [fingers EXCEPT !.done = TRUE].delay = fingers.delay
      BY <1>3 DEF Flags
    <3>2. fingers.repeat /\ PerformUndo(fingers)
      BY <2>2 DEF RepeatFires
    <3>3. QED
      BY <1>3, <3>1, <3>2 DEF PerformUndo
  <2>3. CASE UndoSettles
    BY <1>3, <2>3 DEF UndoSettles
  <2>4. QED
    BY <2>1, <2>2, <2>3
<1>5. TypeOK'
  BY <1>1, <1>2, <1>4, Typed, TypedNext
<1>6. Released'
  <2>1. fingers.delay \/ fingers.repeat => alive /\ fingers.candidate /\ Contacts # {}
    BY <1>1, RestFields DEF Released
  <2>2. QED
    BY <1>1, <1>2, <1>4, <2>1 DEF Released
<1>7. LandInv' /\ ShownIsOwned'
  BY <1>1, <1>2 DEF LandInv, ShownIsOwned
<1>8. PencilIsSovereign'
  BY <1>1, <1>2, <1>4 DEF PencilIsSovereign
<1>9. QED
  BY <1>5, <1>6, <1>7, <1>8 DEF PointerInv

\* An answer clears the overlay of its kind, whosever it is by now.
LEMMA AnswerStep ==
  ASSUME PointerInv, Answer
  PROVE  PointerInv'
<1>1. TypeOK /\ LandInv /\ Released /\ ShownIsOwned /\ PencilIsSovereign
  BY DEF PointerInv
<1>2. /\ alive' = alive /\ down' = down /\ downs' = downs /\ contact' = contact /\ owner' = owner
      /\ drawing' = drawing /\ mover' = mover /\ hold' = hold /\ fingers' = fingers
      /\ undoing' = undoing /\ view' = view /\ lastTap' = lastTap /\ Contacts' = Contacts
  BY DEF Answer, gesture, Contacts
<1>3. PICK d \in sent :
        /\ sent' = sent \ {d}
        /\ IF d.kind = "move"
             THEN preview' = None /\ UNCHANGED overlay
             ELSE overlay' = [overlay EXCEPT ![d.kind] = 0] /\ UNCHANGED preview
  BY DEF Answer
<1>4. overlay \in Overlay /\ d.kind \in {"ink", "erase", "move"} /\ sent' \subseteq Dispatched
  BY <1>1, <1>3, Typed DEF Dispatched
<1>5. /\ overlay' \in Overlay
      /\ \A t \in {"ink", "erase"} : IF t = d.kind THEN overlay'[t] = 0 ELSE overlay'[t] = overlay[t]
  BY <1>3, <1>4, MaxDownsAssumption DEF Overlay
<1>6. preview' = None \/ (preview' = preview /\ d.kind # "move")
  BY <1>3
<1>7. TypeOK'
  BY <1>1, <1>2, <1>4, <1>5, <1>6, Typed, TypedNext
<1>8. LandInv' /\ Released' /\ PencilIsSovereign'
  BY <1>1, <1>2 DEF LandInv, Released, PencilIsSovereign
<1>9. ShownIsOwned'
  <2>1. ASSUME NEW tool \in {"ink", "erase"}, overlay'[tool] # 0
        PROVE  \/ drawing' # None /\ drawing'.tool = tool /\ drawing'.id = overlay'[tool]
               \/ [kind |-> tool, id |-> overlay'[tool]] \in sent'
    <3>1. overlay'[tool] = overlay[tool] /\ tool # d.kind
      BY <1>5, <2>1
    <3>2. [kind |-> tool, id |-> overlay[tool]] # d
      BY <3>1
    <3>3. QED
      BY <1>1, <1>2, <1>3, <2>1, <3>1, <3>2 DEF ShownIsOwned
  <2>2. preview' # None => mover' # None \/ \E e \in sent' : e.kind = "move"
    BY <1>1, <1>2, <1>3, <1>6 DEF ShownIsOwned
  <2>3. QED
    BY <2>1, <2>2 DEF ShownIsOwned
<1>10. QED
  BY <1>7, <1>8, <1>9 DEF PointerInv

LEMMA PageStep ==
  ASSUME PointerInv, CloseItem \/ SelectItem
  PROVE  PointerInv'
<1>1. TypeOK /\ LandInv /\ Released /\ ShownIsOwned /\ PencilIsSovereign
  BY DEF PointerInv
<1>2. /\ alive' = alive /\ down' = down /\ downs' = downs /\ contact' = contact /\ owner' = owner
      /\ drawing' = drawing /\ mover' = mover /\ hold' = hold /\ fingers' = fingers
      /\ undoing' = undoing /\ lastTap' = lastTap /\ overlay' = overlay /\ sent' = sent
      /\ Contacts' = Contacts /\ (preview' = None \/ preview' = preview)
  BY DEF CloseItem, SelectItem, gesture, Contacts
<1>3. view' \in View /\ view'.mode # "entering"
  <2>1. view.item \in Item \cup {None}
    BY <1>1, Typed DEF View
  <2>2. QED
    BY <2>1, Views DEF CloseItem, SelectItem
<1>4. TypeOK'
  BY <1>1, <1>2, <1>3, Typed, TypedNext
<1>5. QED
  BY <1>1, <1>2, <1>3, <1>4
  DEF PointerInv, LandInv, Released, ShownIsOwned, PencilIsSovereign

LEMMA DestroyStep ==
  ASSUME PointerInv, Destroy
  PROVE  PointerInv'
<1>1. TypeOK /\ LandInv /\ Released /\ ShownIsOwned /\ PencilIsSovereign
  BY DEF PointerInv
<1>2. /\ down' = down /\ downs' = downs /\ contact' = contact /\ mover' = mover
      /\ undoing' = undoing /\ view' = view /\ lastTap' = lastTap /\ sent' = sent
      /\ alive' = FALSE /\ hold' = None /\ drawing' = None /\ preview' = None
      /\ owner' = "undecided" /\ Contacts' = Contacts
  BY DEF Destroy, Contacts
<1>3. fingers' \in Flags /\ ~fingers'.delay /\ ~fingers'.repeat
  BY <1>1, Typed, FlagsFields DEF Destroy
<1>4. overlay' \in Overlay /\ overlay'["ink"] = 0 /\ overlay'["erase"] = 0
  BY MaxDownsAssumption DEF Destroy, Overlay
<1>5. TypeOK'
  BY <1>1, <1>2, <1>3, <1>4, Typed, TypedNext
<1>6. LandInv' /\ Released'
  BY <1>1, <1>2, <1>3 DEF LandInv, Released
<1>7. ShownIsOwned' /\ PencilIsSovereign'
  BY <1>2, <1>4 DEF ShownIsOwned, PencilIsSovereign
<1>8. QED
  BY <1>5, <1>6, <1>7 DEF PointerInv

-----------------------------------------------------------------------------
LEMMA NextStep ==
  ASSUME PointerInv, [Next]_vars
  PROVE  PointerInv'
<1>1. CASE UNCHANGED vars
  <2>1. /\ alive' = alive /\ down' = down /\ downs' = downs /\ contact' = contact /\ owner' = owner
        /\ drawing' = drawing /\ mover' = mover /\ hold' = hold /\ fingers' = fingers
        /\ undoing' = undoing /\ view' = view /\ preview' = preview /\ lastTap' = lastTap
        /\ overlay' = overlay /\ sent' = sent /\ Contacts' = Contacts
    BY <1>1 DEF vars, gesture, scene, Contacts
  <2>2. QED
    BY <2>1, Typed, TypedNext
    DEF PointerInv, LandInv, Released, ShownIsOwned, PencilIsSovereign
<1>2. ASSUME NEW p \in Pointer,
             \/ PressToDraw(p) \/ PressIgnored(p) \/ PressContact(p)
             \/ MoveDrawing(p) \/ MoveContact(p)
             \/ LiftDrawing(p) \/ LiftContact(p)
             \/ PointerCancel(p) \/ LostPointerCapture(p)
      PROVE  PointerInv'
  BY <1>2, PressToDrawStep, PressIgnoredStep, PressContactStep, MoveDrawingStep,
     MoveContactStep, LiftDrawingStep, LiftContactStep, CancelStep
<1>3. QED
  BY <1>1, <1>2, HoldFiresStep, UndoStep, AnswerStep, PageStep, DestroyStep DEF Next

LEMMA PointerAlways == Spec => []PointerInv
<1>1. Init => PointerInv
  BY InitInv
<1>2. PointerInv /\ [Next]_vars => PointerInv'
  BY NextStep
<1>3. QED
  BY <1>1, <1>2, PTL DEF Spec

\* Every ended or cancelled sequence releases what it held: owners are pointers
\* still down, timers have their sequence, and without contacts all is at rest.
THEOREM ReleasedAlways == Spec => []Released
<1>1. PointerInv => Released
  BY DEF PointerInv
<1>2. QED
  BY <1>1, PointerAlways, PTL

\* Whatever is shown over the scene has a gesture or a dispatch that will take
\* it away.
THEOREM ShownIsOwnedAlways == Spec => []ShownIsOwned
<1>1. PointerInv => ShownIsOwned
  BY DEF PointerInv
<1>2. QED
  BY <1>1, PointerAlways, PTL

\* While a pen draws no finger is tracked, lifts an item or waits to undo.
THEOREM PencilAlwaysSovereign == Spec => []PencilIsSovereign
<1>1. PointerInv => PencilIsSovereign
  BY DEF PointerInv
<1>2. QED
  BY <1>1, PointerAlways, PTL
=============================================================================
