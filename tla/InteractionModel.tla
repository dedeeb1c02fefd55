--------------------------- MODULE InteractionModel ---------------------------
(***************************************************************************)
(* InteractionModel of jadren-ui, the pointer state machine with its       *)
(* bounded event queue, and RetainedHeadlessBackend around it.  A call     *)
(* that fails may have changed the model already: an operator that stands  *)
(* for a method maps [model, error, seen] to such a record and passes an   *)
(* earlier error on, as the operator ? does.                               *)
(*                                                                         *)
(* A snapshot maps the placed nodes to their event id and whether they are *)
(* interactive; a pointer position is the node hit_test finds there.       *)
(***************************************************************************)
EXTENDS Integers, Sequences

CONSTANTS Snapshots,       \* layouts: functions from node ids to placements
          MAX_UI_EVENTS    \* capacity of the queue

None == 0

ASSUME CapacityAssumption == MAX_UI_EVENTS \in Nat \ {0}
ASSUME SnapshotsAssumption == \A s \in Snapshots : None \notin DOMAIN s

VARIABLES retained,   \* TRUE: RetainedHeadlessBackend owns the model, and
                      \* the layout is replaced by set_snapshot; FALSE: a
                      \* caller feeds the model itself.  Never changes.
          snapshot, model,
          response,   \* the answer of the last call
          seen        \* history: what a consumer of all pushed events infers

vars == <<retained, snapshot, model, response, seen>>

New == [hovered |-> None, pressed |-> None, focused |-> None, events |-> << >>]
Unseen == [hover |-> None, press |-> None, released |-> None, lost |-> None,
           legal |-> TRUE]

Init == /\ retained \in BOOLEAN
        /\ snapshot \in Snapshots
        /\ model = New /\ response = "Ok" /\ seen = Unseen

-----------------------------------------------------------------------------
(* A consumer that knows nothing but the events: what they say about hover *)
(* and press, and whether each one made sense when it came.  `lost` is not *)
(* the consumer's knowledge: it is the node whose press the model has      *)
(* given up since the last Pressed event without an event of its own.      *)

Legal(v, e) ==
  CASE e.kind = "HoverEnter" -> v.hover = None
    [] e.kind = "HoverLeave" -> v.hover = e.target
    [] e.kind = "Pressed"    -> v.hover = e.target
    [] e.kind = "Released"   -> v.press = e.target
    [] e.kind = "Clicked"    -> v.released = e.target /\ v.hover = e.target
    [] e.kind = "Cancelled"  -> \/ v.released = e.target /\ v.hover # e.target
                                \/ v.press = e.target

Observe(v, e) ==
  [ hover    |-> CASE e.kind = "HoverEnter" -> e.target
                   [] e.kind = "HoverLeave" -> None
                   [] OTHER -> v.hover,
    press    |-> CASE e.kind = "Pressed" -> e.target
                   [] e.kind \in {"Released", "Cancelled"} -> None
                   [] OTHER -> v.press,
    released |-> IF e.kind = "Released" THEN e.target ELSE None,
    lost     |-> IF e.kind = "Pressed" THEN None ELSE v.lost,
    legal    |-> v.legal /\ Legal(v, e) ]

-----------------------------------------------------------------------------
Interactive == { n \in DOMAIN snapshot : snapshot[n].interactive }

\* hit_test: the node under the pointer, if any.
Hits == Interactive \cup {None}

\* snapshot.placement(target) is Some.
Placed == DOMAIN snapshot

Count(node) == IF node = None THEN 0 ELSE 1

\* Fault: a change of the hovered node is one event.
OneTransition(m, target) == IF m.hovered = target THEN 0 ELSE 1

HoverTransitionCount(m, target) ==
  IF m.hovered = target THEN 0 ELSE Count(m.hovered) + Count(target)

Fails(r, error) == [r EXCEPT !.error = error]

EnsureCapacity(r, additional) ==
  IF r.error # "Ok" \/ Len(r.model.events) + additional <= MAX_UI_EVENTS THEN r
  ELSE Fails(r, "EventCapacity")

UiEvent(target, kind) ==
  [target |-> target, event_id |-> snapshot[target].event_id, kind |-> kind]

PushEvent(r, target, kind) ==
  IF r.error # "Ok" THEN r
  ELSE IF target \notin Placed THEN Fails(r, "TargetMissing")
  ELSE IF Len(r.model.events) >= MAX_UI_EVENTS THEN Fails(r, "EventCapacity")
  ELSE LET e == UiEvent(target, kind)
       IN  [r EXCEPT !.model.events = Append(@, e), !.seen = Observe(@, e)]

PushIfSome(r, node, kind) == IF node = None THEN r ELSE PushEvent(r, node, kind)

\* Fault: the new node is entered before the old one is left.
EnterFirst(r, target) ==
  PushIfSome(PushIfSome(r, target, "HoverEnter"), r.model.hovered, "HoverLeave")

LeaveThenEnter(r, target) ==
  PushIfSome(PushIfSome(r, r.model.hovered, "HoverLeave"), target, "HoverEnter")

SyncHover(r, target) ==
  IF r.error # "Ok" \/ r.model.hovered = target THEN r
  ELSE LET room == EnsureCapacity(r, HoverTransitionCount(r.model, target))
           pushed == LeaveThenEnter(room, target)
       IN  IF pushed.error # "Ok" THEN pushed
           ELSE [pushed EXCEPT !.model.hovered = target]

Fine == [model |-> model, error |-> "Ok", seen |-> seen]

PointerMove(target) == SyncHover(Fine, target)

\* History: pointer_down over nothing ends a held press and pushes no event.
GivenUp(v, target) ==
  IF target = None /\ model.pressed # None THEN [v EXCEPT !.lost = model.pressed] ELSE v

PointerDown(target) ==
  LET room == EnsureCapacity(Fine, HoverTransitionCount(model, target) + Count(target))
      synced == SyncHover(room, target)
  IN  IF synced.error # "Ok" THEN synced
      ELSE PushIfSome([synced EXCEPT !.model.pressed = target,
                                     !.model.focused = target,
                                     !.seen = GivenUp(@, target)],
                      target, "Pressed")

PointerUp(target) ==
  LET pressed == model.pressed
      room == EnsureCapacity(Fine, HoverTransitionCount(model, target) + 2 * Count(pressed))
      synced == SyncHover(room, target)
      released == PushEvent([synced EXCEPT !.model.pressed = None], pressed, "Released")
  IN  IF synced.error # "Ok" \/ pressed = None THEN synced
      ELSE IF pressed \notin Placed THEN Fails(synced, "TargetMissing")
      ELSE PushEvent(released, pressed,
                     IF target = pressed THEN "Clicked" ELSE "Cancelled")

PointerLeave == SyncHover(Fine, None)

PointerCancel ==
  LET room == EnsureCapacity(Fine, 1)
  IN  IF model.pressed = None THEN Fine
      ELSE IF room.error # "Ok" THEN room
      ELSE IF model.pressed \notin Placed THEN Fails(room, "TargetMissing")
      ELSE PushEvent([room EXCEPT !.model.pressed = None], model.pressed, "Cancelled")

-----------------------------------------------------------------------------
Call(result) ==
  /\ model' = result.model
  /\ response' = result.error
  /\ seen' = result.seen
  /\ UNCHANGED <<retained, snapshot>>

Move == \E target \in Hits : Call(PointerMove(target))
Down == \E target \in Hits : Call(PointerDown(target))
Up == \E target \in Hits : Call(PointerUp(target))
Leave == Call(PointerLeave)
Cancel == Call(PointerCancel)

\* poll_event of a queue that is not empty; an empty one answers None.
PollEvent ==
  /\ model.events # << >>
  /\ model' = [model EXCEPT !.events = Tail(@)]
  /\ response' = "Ok"
  /\ UNCHANGED <<retained, snapshot, seen>>

ClearEvents ==
  /\ ~retained          \* the backend does not offer it
  /\ model' = [model EXCEPT !.events = << >>]
  /\ response' = "Ok"
  /\ UNCHANGED <<retained, snapshot, seen>>

\* Fault: pointer and event state survive the change of the layout.
KeepModel == model

ResetModel == New

\* RetainedHeadlessBackend::set_snapshot.
SetSnapshot ==
  /\ retained
  /\ snapshot' \in Snapshots
  /\ model' = ResetModel
  /\ response' = "Ok"
  /\ seen' = Unseen
  /\ UNCHANGED retained

\* A caller passes another snapshot from now on.
Relayout ==
  /\ ~retained
  /\ snapshot' \in Snapshots
  /\ response' = "Ok"
  /\ UNCHANGED <<retained, model, seen>>

Next == \/ Move \/ Down \/ Up \/ Leave \/ Cancel \/ PollEvent \/ ClearEvents
        \/ SetSnapshot \/ Relayout

Spec == Init /\ [][Next]_vars

-----------------------------------------------------------------------------
(* Properties.                                                             *)

\* A press the model holds was announced.  When it holds none, the consumer
\* knows of none either, except of a press that was given up without an event.
PressTold(m, v) ==
  IF m.pressed = None THEN v.press = v.lost ELSE v.press = m.pressed /\ v.lost = None

\* How far the pushed events tell the state, across failed calls, full queues
\* and changed layouts: hover events alternate and end at `hovered`, Released
\* and Cancelled follow a press of the same node, Clicked a release over it,
\* and the press they imply is the one the model holds.  The one exception is
\* pointer_down over nothing while a node is pressed: the press ends without
\* an event, and the consumer believes in it until the next Pressed.  (A
\* pointer_down over a node replaces a held press, which the consumer learns
\* from the new Pressed; set_snapshot starts model and consumer afresh.)
EventsTellState ==
  /\ seen.legal
  /\ seen.hover = model.hovered
  /\ PressTold(model, seen)

\* "bounded without state corruption": a call that finds too little room in
\* the queue changes nothing, however many events it would have pushed.
CapacityAllOrNothing ==
  [][response' = "EventCapacity" => model' = model]_vars

\* The retained backend never meets a vanished node, and every queued event
\* has the event id its target has in the current layout.
BackendConsistent ==
  retained =>
    /\ response # "TargetMissing"
    /\ \A i \in DOMAIN model.events :
         LET e == model.events[i]
         IN  e.target \in DOMAIN snapshot /\ e.event_id = snapshot[e.target].event_id

-----------------------------------------------------------------------------
(* The inductive invariant.                                                *)

Nodes == (UNION { DOMAIN s : s \in Snapshots }) \cup {None}
EventIds == UNION { { s[n].event_id : n \in DOMAIN s } : s \in Snapshots }
Kinds == {"HoverEnter", "HoverLeave", "Pressed", "Released", "Clicked", "Cancelled"}
Events == [target : Nodes, event_id : EventIds, kind : Kinds]
Models == [hovered : Nodes, pressed : Nodes, focused : Nodes, events : Seq(Events)]
Views == [hover : Nodes, press : Nodes, released : Nodes, lost : Nodes, legal : BOOLEAN]
Errors == {"Ok", "EventCapacity", "TargetMissing"}

\* The variables keep their types, and the queue its capacity.
TypeOK ==
  /\ retained \in BOOLEAN /\ snapshot \in Snapshots /\ response \in Errors
  /\ model \in Models /\ seen \in Views
  /\ Len(model.events) <= MAX_UI_EVENTS

\* The nodes the retained backend remembers are in its layout.
RemembersPlaced ==
  retained => {model.hovered, model.pressed} \subseteq Placed \cup {None}

\* What the pointer state machine maintains.
PointerInv == TypeOK /\ EventsTellState /\ RemembersPlaced /\ BackendConsistent
=============================================================================
