------------------------ MODULE InteractionModel_proofs ------------------------
(***************************************************************************)
(* Proofs about InteractionModel, for every set of layouts and every queue *)
(* capacity.  Each method of the model is shown to keep what Kept says of  *)
(* its result, whether it succeeds or fails part way; the invariant and    *)
(* the all-or-nothing property of a full queue follow.                     *)
(***************************************************************************)
EXTENDS InteractionModel, TLAPS

-----------------------------------------------------------------------------
(* Results of calls.                                                       *)

Results == [model : Models, error : Errors, seen : Views]

\* What holds of a result as it does of the state.
Consistent(r) ==
  /\ r.seen.legal
  /\ r.seen.hover = r.model.hovered
  /\ PressTold(r.model, r.seen)

\* A placed node is a node, and not the mark for none.
LEMMA PlacedNode ==
  ASSUME snapshot \in Snapshots, NEW n \in Placed
  PROVE  n \in Nodes /\ n # None /\ snapshot[n].event_id \in EventIds
BY SnapshotsAssumption DEF Placed, Nodes, EventIds

\* What hit_test finds is placed or nothing.
LEMMA HitPlaced ==
  ASSUME snapshot \in Snapshots, NEW target \in Hits
  PROVE  /\ target \in Nodes
         /\ target = None \/ target \in Placed
BY PlacedNode DEF Hits, Interactive, Placed, Nodes

\* An event for a placed node is an event.
LEMMA EventTyped ==
  ASSUME snapshot \in Snapshots, NEW n \in Placed, NEW kind \in Kinds
  PROVE  /\ UiEvent(n, kind) \in Events
         /\ UiEvent(n, kind).target = n /\ UiEvent(n, kind).kind = kind
         /\ UiEvent(n, kind).event_id = snapshot[n].event_id
BY PlacedNode DEF UiEvent, Events

\* An observation keeps its type.
LEMMA ObserveTyped ==
  ASSUME NEW v \in Views, NEW e \in Events
  PROVE  Observe(v, e) \in Views
<1>1. Legal(v, e) \in BOOLEAN
  BY DEF Legal, Events, Kinds, Views
<1>2. e.target \in Nodes /\ None \in Nodes
  BY DEF Events, Nodes
<1> QED
  BY <1>1, <1>2 DEF Observe, Views

\* push_event of a placed node with room in the queue.
LEMMA PushOk ==
  ASSUME snapshot \in Snapshots, NEW r \in Results, r.error = "Ok",
         NEW n \in Placed, NEW kind \in Kinds,
         Len(r.model.events) < MAX_UI_EVENTS
  PROVE  LET x == PushEvent(r, n, kind)
         IN  /\ x \in Results /\ x.error = "Ok"
             /\ x.model.hovered = r.model.hovered
             /\ x.model.pressed = r.model.pressed
             /\ x.model.events = Append(r.model.events, UiEvent(n, kind))
             /\ Len(x.model.events) = Len(r.model.events) + 1
             /\ x.seen = Observe(r.seen, UiEvent(n, kind))
<1> DEFINE e == UiEvent(n, kind)
           x == PushEvent(r, n, kind)
<1>1. e \in Events
  BY EventTyped
<1>2. r.seen \in Views /\ r.model \in Models /\ r.model.events \in Seq(Events)
  BY DEF Results, Models
<1>3. Observe(r.seen, e) \in Views
  BY <1>1, <1>2, ObserveTyped
<1>4. ~(Len(r.model.events) >= MAX_UI_EVENTS)
  BY <1>2, CapacityAssumption
<1>5. x = [r EXCEPT !.model.events = Append(@, e), !.seen = Observe(@, e)]
  BY <1>4 DEF PushEvent
<1>6. Append(r.model.events, e) \in Seq(Events)
      /\ Len(Append(r.model.events, e)) = Len(r.model.events) + 1
  BY <1>1, <1>2
<1> HIDE DEF e, x
<1>7. /\ x.model = [r.model EXCEPT !.events = Append(@, e)]
      /\ x.seen = Observe(r.seen, e) /\ x.error = "Ok"
      /\ x = [model |-> x.model, error |-> x.error, seen |-> x.seen]
  BY <1>5 DEF Results
<1>8. /\ x.model.hovered = r.model.hovered /\ x.model.pressed = r.model.pressed
      /\ x.model.events = Append(r.model.events, e)
      /\ x.model \in Models
  BY <1>2, <1>6, <1>7 DEF Models
<1>9. x \in Results
  BY <1>3, <1>7, <1>8 DEF Results, Errors
<1> QED
  BY <1>6, <1>7, <1>8, <1>9 DEF e, x

\* The queued events of a result name nodes of the layout, by their event id.
Current(r) ==
  \A i \in 1 .. Len(r.model.events) :
    LET e == r.model.events[i]
    IN  e.target \in Placed /\ e.event_id = snapshot[e.target].event_id

\* A pushed event is of the current layout.
LEMMA PushCurrent ==
  ASSUME snapshot \in Snapshots, NEW r \in Results, r.error = "Ok",
         NEW n \in Placed, NEW kind \in Kinds,
         Len(r.model.events) < MAX_UI_EVENTS, Current(r)
  PROVE  Current(PushEvent(r, n, kind))
<1> DEFINE x == PushEvent(r, n, kind)
           e == UiEvent(n, kind)
<1>1. x.model.events = Append(r.model.events, e)
  BY PushOk
<1>2. e.target = n /\ e.event_id = snapshot[n].event_id
  BY EventTyped
<1>3. r.model.events \in Seq(Events) /\ e \in Events
  BY EventTyped DEF Results, Models
<1> HIDE DEF x, e
<1>4. \A i \in 1 .. Len(x.model.events) :
         \/ i \in 1 .. Len(r.model.events) /\ x.model.events[i] = r.model.events[i]
         \/ x.model.events[i] = e
  BY <1>1, <1>3
<1> QED
  BY <1>2, <1>4 DEF Current, x

\* A failed call reports the error and has changed nothing more.
LEMMA FailFacts ==
  ASSUME NEW r \in Results, NEW error \in Errors
  PROVE  LET x == Fails(r, error)
         IN  /\ x \in Results /\ x.error = error
             /\ x.model = r.model /\ x.seen = r.seen
BY DEF Fails, Results

\* push_event of a node that is gone.
LEMMA PushGone ==
  ASSUME NEW r \in Results, r.error = "Ok", NEW n, n \notin Placed, NEW kind
  PROVE  PushEvent(r, n, kind) = Fails(r, "TargetMissing")
BY DEF PushEvent

\* An earlier error is passed on.
LEMMA PushSkips ==
  ASSUME NEW r, r.error # "Ok", NEW n, NEW kind
  PROVE  PushIfSome(r, n, kind) = r
BY DEF PushIfSome, PushEvent

\* The queue has room, or the call fails with nothing changed.
LEMMA CapacityFacts ==
  ASSUME NEW r \in Results, r.error = "Ok", NEW k \in Nat
  PROVE  /\ Len(r.model.events) \in Nat
         /\ Len(r.model.events) + k <= MAX_UI_EVENTS => EnsureCapacity(r, k) = r
         /\ ~(Len(r.model.events) + k <= MAX_UI_EVENTS) =>
               EnsureCapacity(r, k) = Fails(r, "EventCapacity")
BY DEF EnsureCapacity, Results, Models

\* What HoverEnter and HoverLeave tell.
LEMMA ObserveHover ==
  ASSUME NEW v \in Views, v.legal, NEW e \in Events
  PROVE  /\ e.kind = "HoverLeave" /\ v.hover = e.target =>
              /\ Observe(v, e).legal /\ Observe(v, e).hover = None
              /\ Observe(v, e).press = v.press /\ Observe(v, e).lost = v.lost
         /\ e.kind = "HoverEnter" /\ v.hover = None =>
              /\ Observe(v, e).legal /\ Observe(v, e).hover = e.target
              /\ Observe(v, e).press = v.press /\ Observe(v, e).lost = v.lost
BY DEF Observe, Legal, Views

\* What the events of a press tell.
LEMMA ObservePress ==
  ASSUME NEW v \in Views, v.legal, NEW e \in Events
  PROVE  /\ e.kind = "Pressed" /\ v.hover = e.target =>
              /\ Observe(v, e).legal /\ Observe(v, e).hover = v.hover
              /\ Observe(v, e).press = e.target /\ Observe(v, e).lost = None
         /\ e.kind = "Released" /\ v.press = e.target =>
              /\ Observe(v, e).legal /\ Observe(v, e).hover = v.hover
              /\ Observe(v, e).press = None /\ Observe(v, e).lost = v.lost
              /\ Observe(v, e).released = e.target
         /\ e.kind = "Clicked" /\ v.released = e.target /\ v.hover = e.target =>
              /\ Observe(v, e).legal /\ Observe(v, e).hover = v.hover
              /\ Observe(v, e).press = v.press /\ Observe(v, e).lost = v.lost
         /\ /\ e.kind = "Cancelled"
            /\ v.press = e.target \/ (v.released = e.target /\ v.hover # e.target)
            => /\ Observe(v, e).legal /\ Observe(v, e).hover = v.hover
               /\ Observe(v, e).press = None /\ Observe(v, e).lost = v.lost
BY DEF Observe, Legal, Views

\* The hovered node of a result changes.
LEMMA Hovered ==
  ASSUME NEW r \in Results, NEW n \in Nodes
  PROVE  LET x == [r EXCEPT !.model.hovered = n]
         IN  /\ x \in Results /\ x.error = r.error /\ x.seen = r.seen
             /\ x.model.hovered = n /\ x.model.pressed = r.model.pressed
             /\ x.model.events = r.model.events
<1> DEFINE x == [r EXCEPT !.model.hovered = n]
<1>1. /\ x.model = [r.model EXCEPT !.hovered = n] /\ x.error = r.error
      /\ x.seen = r.seen
      /\ x = [model |-> x.model, error |-> x.error, seen |-> x.seen]
  BY DEF Results
<1>2. r.model \in Models /\ r.error \in Errors /\ r.seen \in Views
  BY DEF Results
<1> HIDE DEF x
<1>3. /\ x.model \in Models /\ x.model.hovered = n
      /\ x.model.pressed = r.model.pressed /\ x.model.events = r.model.events
  BY <1>1, <1>2 DEF Models
<1>4. x \in Results
  BY <1>1, <1>2, <1>3 DEF Results
<1> QED
  BY <1>1, <1>3, <1>4 DEF x

\* push_event of a node if there is one, in a queue with room for it.
LEMMA PushSome ==
  ASSUME snapshot \in Snapshots, NEW r \in Results, r.error = "Ok",
         NEW n, n = None \/ n \in Placed, NEW kind \in Kinds,
         NEW c, c = Count(n), Len(r.model.events) + c <= MAX_UI_EVENTS,
         NEW x, x = PushIfSome(r, n, kind)
  PROVE  /\ x \in Results /\ x.error = "Ok"
         /\ x.model.hovered = r.model.hovered /\ x.model.pressed = r.model.pressed
         /\ Len(x.model.events) = Len(r.model.events) + c
         /\ Current(r) => Current(x)
         /\ n = None => x.seen = r.seen
         /\ n # None => x.seen = Observe(r.seen, UiEvent(n, kind))
<1>0. Len(r.model.events) \in Nat /\ MAX_UI_EVENTS \in Nat
  BY CapacityAssumption DEF Results, Models
<1>1. CASE n = None
  <2>1. c = 0 /\ x = r
    BY <1>1 DEF Count, PushIfSome
  <2> QED
    BY <1>0, <1>1, <2>1
<1>2. CASE n # None
  <2>1. c = 1 /\ x = PushEvent(r, n, kind) /\ n \in Placed
    BY <1>2 DEF Count, PushIfSome
  <2>2. Len(r.model.events) < MAX_UI_EVENTS
    BY <1>0, <2>1
  <2> QED
    BY <1>2, <2>1, <2>2, PushOk, PushCurrent
<1> QED
  BY <1>1, <1>2

\* What a call of sync_hover with result x may do to the result r before it:
\* it fails and leaves everything as it was, or it ends at the target with the
\* consumer informed.
Synced(r, target, k, x) ==
  /\ x \in Results /\ Consistent(x)
  /\ x.model.pressed = r.model.pressed
  /\ Len(x.model.events) <= MAX_UI_EVENTS
  /\ Current(r) => Current(x)
  /\ x.error # "Ok" => x.model = r.model /\ x.seen = r.seen
  /\ x.error = "Ok" => /\ x.model.hovered = target
                       /\ x.seen.press = r.seen.press /\ x.seen.lost = r.seen.lost
                       /\ Len(x.model.events) = Len(r.model.events) + k
  /\ x.error = "TargetMissing" => r.model.hovered \notin Placed \cup {None}

\* sync_hover that fails.
LEMMA SyncFails ==
  ASSUME NEW r \in Results, Consistent(r), Len(r.model.events) <= MAX_UI_EVENTS,
         NEW target, NEW k, NEW error \in {"EventCapacity", "TargetMissing"},
         error = "TargetMissing" => r.model.hovered \notin Placed \cup {None},
         NEW x, x = Fails(r, error)
  PROVE  Synced(r, target, k, x)
<1>1. /\ x \in Results /\ x.error = error /\ error # "Ok"
      /\ x.model = r.model /\ x.seen = r.seen
  BY FailFacts DEF Errors
<1>2. Consistent(x) /\ (Current(r) => Current(x))
  BY <1>1 DEF Consistent, Current
<1> QED
  BY <1>1, <1>2 DEF Synced

\* sync_hover does what Synced says.
LEMMA SyncFacts ==
  ASSUME snapshot \in Snapshots, NEW r \in Results, r.error = "Ok", Consistent(r),
         Len(r.model.events) <= MAX_UI_EVENTS,
         NEW target \in Nodes, target = None \/ target \in Placed,
         NEW k, k = HoverTransitionCount(r.model, target),
         NEW x, x = SyncHover(r, target)
  PROVE  k \in Nat /\ Synced(r, target, k, x)
<1> DEFINE h == r.model.hovered
<1>0. /\ Len(r.model.events) \in Nat /\ MAX_UI_EVENTS \in Nat
      /\ r.seen \in Views /\ None \notin Placed
  BY CapacityAssumption, SnapshotsAssumption DEF Results, Models, Placed
<1>c. PICK a \in {0, 1}, b \in {0, 1} :
        /\ a = Count(h) /\ b = Count(target)
        /\ h = target => k = 0
        /\ h # target => k = a + b
  BY DEF HoverTransitionCount, Count
<1>k. k \in Nat
  BY <1>c
<1>1. CASE h = target
  <2>1. x = r /\ k = 0
    BY <1>1, <1>c DEF SyncHover
  <2>2. Len(x.model.events) = Len(r.model.events) + k
    BY <1>0, <2>1
  <2> QED
    BY <1>1, <1>k, <2>1, <2>2 DEF Synced
<1>3. CASE h # target /\ ~(Len(r.model.events) + k <= MAX_UI_EVENTS)
  <2> DEFINE room == Fails(r, "EventCapacity")
  <2>1. EnsureCapacity(r, k) = room
    BY <1>k, <1>3, CapacityFacts
  <2>2. room.error = "EventCapacity"
    BY FailFacts DEF Errors
  <2>3. x = room
    <3> HIDE DEF room
    <3>1. room.error # "Ok" /\ EnsureCapacity(r, k) = room
      BY <2>1, <2>2
    <3>2. LeaveThenEnter(room, target) = room
      BY <3>1, PushSkips DEF LeaveThenEnter
    <3> QED
      BY <1>3, <3>1, <3>2 DEF SyncHover
  <2>4. "EventCapacity" \in {"EventCapacity", "TargetMissing"}
        /\ "EventCapacity" # "TargetMissing"
    OBVIOUS
  <2> QED
    BY <1>k, <2>3, <2>4, SyncFails
<1>4. CASE h # target /\ Len(r.model.events) + k <= MAX_UI_EVENTS
  <2> DEFINE left == PushIfSome(r, h, "HoverLeave")
             entered == PushIfSome(left, target, "HoverEnter")
  <2>1. EnsureCapacity(r, k) = r
    BY <1>k, <1>4, CapacityFacts
  <2>2. CASE h \notin Placed \cup {None}
    <3> DEFINE gone == Fails(r, "TargetMissing")
    <3>1. left = gone
      BY <2>2, PushGone DEF PushIfSome
    <3>2. gone.error = "TargetMissing"
      BY FailFacts DEF Errors
    <3>3. x = gone
      <4> HIDE DEF gone
      <4>1. gone.error # "Ok" /\ PushIfSome(r, h, "HoverLeave") = gone
        BY <3>1, <3>2
      <4>2. LeaveThenEnter(r, target) = gone
        BY <4>1, PushSkips DEF LeaveThenEnter
      <4> QED
        BY <1>4, <2>1, <4>1, <4>2 DEF SyncHover
    <3>4. "TargetMissing" \in {"EventCapacity", "TargetMissing"}
      OBVIOUS
    <3> QED
      BY <1>k, <2>2, <3>3, <3>4, SyncFails
  <2>3. CASE h \in Placed \cup {None}
    <3>a. Len(r.model.events) + a <= MAX_UI_EVENTS /\ k = a + b
      BY <1>0, <1>c, <1>4
    <3>1. /\ left \in Results /\ left.error = "Ok"
          /\ left.model.pressed = r.model.pressed
          /\ Len(left.model.events) = Len(r.model.events) + a
          /\ Current(r) => Current(left)
          /\ h = None => left.seen = r.seen
          /\ h # None => left.seen = Observe(r.seen, UiEvent(h, "HoverLeave"))
      BY <1>c, <2>3, <3>a, PushSome DEF Kinds
    <3>2. /\ left.seen.legal /\ left.seen.hover = None
          /\ left.seen.press = r.seen.press /\ left.seen.lost = r.seen.lost
      <4>1. CASE h = None
        BY <3>1, <4>1 DEF Consistent
      <4>2. CASE h # None
        <5> DEFINE e == UiEvent(h, "HoverLeave")
        <5>1. e \in Events /\ e.target = h /\ e.kind = "HoverLeave"
          BY <2>3, <4>2, EventTyped DEF Kinds
        <5> HIDE DEF e
        <5> QED
          BY <1>0, <3>1, <4>2, <5>1, ObserveHover DEF Consistent, e
      <4> QED
        BY <4>1, <4>2
    <3> HIDE DEF left
    <3>b. Len(left.model.events) + b <= MAX_UI_EVENTS /\ left.seen \in Views
      BY <1>0, <1>c, <1>4, <3>a, <3>1 DEF Results
    <3>3. /\ entered \in Results /\ entered.error = "Ok"
          /\ entered.model.pressed = left.model.pressed
          /\ Len(entered.model.events) = Len(left.model.events) + b
          /\ Current(left) => Current(entered)
          /\ target = None => entered.seen = left.seen
          /\ target # None => entered.seen = Observe(left.seen, UiEvent(target, "HoverEnter"))
      BY <1>c, <3>1, <3>b, PushSome DEF Kinds
    <3>4. /\ entered.seen.legal /\ entered.seen.hover = target
          /\ entered.seen.press = r.seen.press /\ entered.seen.lost = r.seen.lost
      <4>1. CASE target = None
        BY <3>2, <3>3, <4>1
      <4>2. CASE target # None
        <5> DEFINE e == UiEvent(target, "HoverEnter")
        <5>1. e \in Events /\ e.target = target /\ e.kind = "HoverEnter"
          BY <4>2, EventTyped DEF Kinds
        <5> HIDE DEF e
        <5> QED
          BY <3>b, <3>2, <3>3, <4>2, <5>1, ObserveHover DEF e
      <4> QED
        BY <4>1, <4>2
    <3>5. x = [entered EXCEPT !.model.hovered = target]
      BY <1>4, <2>1, <3>3 DEF SyncHover, LeaveThenEnter, left
    <3> HIDE DEF entered
    <3>6. /\ x \in Results /\ x.error = "Ok" /\ x.seen = entered.seen
          /\ x.model.hovered = target /\ x.model.pressed = entered.model.pressed
          /\ x.model.events = entered.model.events
      BY <3>3, <3>5, Hovered
    <3>7. Consistent(x)
      BY <3>1, <3>3, <3>4, <3>6 DEF Consistent, PressTold
    <3>8. Current(r) => Current(x)
      BY <3>1, <3>3, <3>6 DEF Current
    <3>9. Len(x.model.events) = Len(r.model.events) + k
      <4>1. Len(x.model.events) = (Len(r.model.events) + a) + b
        BY <3>1, <3>3, <3>6
      <4>2. \A i, j, l \in Int : (i + j) + l = i + (j + l)
        OBVIOUS
      <4>3. Len(r.model.events) \in Int /\ a \in Int /\ b \in Int
        BY <1>0
      <4>4. (Len(r.model.events) + a) + b = Len(r.model.events) + (a + b)
        BY <4>2, <4>3
      <4> QED
        BY <3>a, <4>1, <4>4
    <3>10. Len(x.model.events) <= MAX_UI_EVENTS
      BY <1>4, <3>9
    <3>11. /\ x.model.pressed = r.model.pressed
           /\ x.seen.press = r.seen.press /\ x.seen.lost = r.seen.lost
      BY <3>1, <3>3, <3>4, <3>6
    <3> QED
      BY <1>k, <3>6, <3>7, <3>8, <3>9, <3>10, <3>11 DEF Synced
  <2> QED
    BY <2>2, <2>3
<1> QED
  BY <1>1, <1>3, <1>4

\* The pressed node of a result changes.
LEMMA PressedSet ==
  ASSUME NEW r \in Results, NEW n \in Nodes
  PROVE  LET x == [r EXCEPT !.model.pressed = n]
         IN  /\ x \in Results /\ x.error = r.error /\ x.seen = r.seen
             /\ x.model.pressed = n /\ x.model.hovered = r.model.hovered
             /\ x.model.events = r.model.events
<1> DEFINE x == [r EXCEPT !.model.pressed = n]
<1>1. /\ x.model = [r.model EXCEPT !.pressed = n]
      /\ x.error = r.error /\ x.seen = r.seen
      /\ x = [model |-> x.model, error |-> x.error, seen |-> x.seen]
  BY DEF Results
<1>2. r.model \in Models /\ r.error \in Errors /\ r.seen \in Views
  BY DEF Results
<1> HIDE DEF x
<1>3. /\ x.model \in Models /\ x.model.hovered = r.model.hovered
      /\ x.model.pressed = n /\ x.model.events = r.model.events
  BY <1>1, <1>2 DEF Models
<1>4. x \in Results
  BY <1>1, <1>2, <1>3 DEF Results
<1> QED
  BY <1>1, <1>3, <1>4 DEF x

\* What pointer_down does to a result before it pushes its event.
Marked(r, n, w) == [r EXCEPT !.model.pressed = n, !.model.focused = n, !.seen = w]

\* The pressed and the focused node of a result change, and what is seen.
LEMMA PressedFocused ==
  ASSUME NEW r \in Results, NEW n \in Nodes, NEW w \in Views,
         NEW x, x = Marked(r, n, w)
  PROVE  /\ x \in Results /\ x.error = r.error /\ x.seen = w
         /\ x.model.pressed = n /\ x.model.hovered = r.model.hovered
         /\ x.model.events = r.model.events
<1>1. /\ x.model = [r.model EXCEPT !.pressed = n, !.focused = n]
      /\ x.error = r.error /\ x.seen = w
      /\ x = [model |-> x.model, error |-> x.error, seen |-> x.seen]
  BY DEF Results, Marked
<1>2. r.model \in Models /\ r.error \in Errors /\ r.seen \in Views
  BY DEF Results
<1>3. /\ x.model \in Models /\ x.model.hovered = r.model.hovered
      /\ x.model.pressed = n /\ x.model.events = r.model.events
  BY <1>1, <1>2 DEF Models
<1>4. x \in Results
  BY <1>1, <1>2, <1>3 DEF Results
<1> QED
  BY <1>1, <1>3, <1>4

\* What the model gives up of a press is remembered; the rest is as seen.
LEMMA GivenUpFacts ==
  ASSUME NEW v \in Views, NEW target, model.pressed \in Nodes
  PROVE  /\ GivenUp(v, target) \in Views
         /\ GivenUp(v, target).legal = v.legal /\ GivenUp(v, target).hover = v.hover
         /\ GivenUp(v, target).press = v.press
         /\ target = None => GivenUp(v, target).lost =
              IF model.pressed # None THEN model.pressed ELSE v.lost
BY DEF GivenUp, Views

\* What every call of the pointer state machine promises of its result x.
Kept(x) ==
  /\ x \in Results /\ Consistent(x)
  /\ Len(x.model.events) <= MAX_UI_EVENTS
  /\ Current(Fine) => Current(x)
  /\ x.error = "EventCapacity" => x.model = model
  /\ {model.hovered, model.pressed} \subseteq Placed \cup {None} =>
       /\ x.error # "TargetMissing"
       /\ {x.model.hovered, x.model.pressed} \subseteq Placed \cup {None}

\* The state a call starts from.
LEMMA FineFacts ==
  ASSUME TypeOK, EventsTellState
  PROVE  /\ Fine \in Results /\ Fine.error = "Ok" /\ Consistent(Fine)
         /\ Fine.model = model /\ Fine.seen = seen
         /\ model.hovered \in Nodes /\ model.pressed \in Nodes /\ None \in Nodes
         /\ Len(model.events) <= MAX_UI_EVENTS /\ Len(model.events) \in Nat
         /\ snapshot \in Snapshots /\ None \notin Placed
BY SnapshotsAssumption
   DEF Fine, TypeOK, EventsTellState, Consistent, Results, Errors, Models, Nodes, Placed

\* A call that fails for want of room keeps everything.
LEMMA FullKept ==
  ASSUME TypeOK, EventsTellState, NEW x, x = Fails(Fine, "EventCapacity")
  PROVE  Kept(x) /\ x.error = "EventCapacity"
<1>1. /\ x \in Results /\ x.error = "EventCapacity"
      /\ x.model = model /\ x.seen = seen
  BY FineFacts, FailFacts DEF Errors
<1>2. Consistent(x) /\ (Current(Fine) => Current(x))
  BY <1>1, FineFacts DEF Consistent, Current
<1> QED
  BY <1>1, <1>2, FineFacts DEF Kept

\* sync_hover from the state keeps the promise.
LEMMA SyncKept ==
  ASSUME TypeOK, EventsTellState, NEW target \in Nodes, target = None \/ target \in Placed,
         NEW k, NEW x, Synced(Fine, target, k, x)
  PROVE  Kept(x)
<1>1. CASE x.error = "Ok"
  BY <1>1, FineFacts DEF Synced, Kept
<1>2. CASE x.error # "Ok"
  BY <1>2, FineFacts DEF Synced, Kept
<1> QED
  BY <1>1, <1>2

\* A call that reserves room for all its events first and then moves the hover.
LEMMA RoomThenSync ==
  ASSUME TypeOK, EventsTellState, NEW target \in Nodes, target = None \/ target \in Placed,
         NEW k, k = HoverTransitionCount(model, target), NEW more \in Nat,
         NEW synced, synced = SyncHover(EnsureCapacity(Fine, k + more), target)
  PROVE  /\ k \in Nat
         /\ \/ synced = Fails(Fine, "EventCapacity") /\ synced.error = "EventCapacity"
            \/ /\ Synced(Fine, target, k, synced)
               /\ (Len(model.events) + k) + more <= MAX_UI_EVENTS
<1> USE FineFacts
<1>1. k \in Nat
  BY DEF HoverTransitionCount, Count
<1>2. MAX_UI_EVENTS \in Nat /\ k + more \in Nat
  BY <1>1, CapacityAssumption
<1>3. CASE Len(model.events) + (k + more) <= MAX_UI_EVENTS
  <2>1. EnsureCapacity(Fine, k + more) = Fine
    BY <1>2, <1>3, CapacityFacts
  <2>2. Synced(Fine, target, k, synced)
    BY <2>1, SyncFacts
  <2>3. (Len(model.events) + k) + more <= MAX_UI_EVENTS
    BY <1>1, <1>2, <1>3
  <2> QED
    BY <1>1, <2>2, <2>3
<1>4. CASE ~(Len(model.events) + (k + more) <= MAX_UI_EVENTS)
  <2> DEFINE full == Fails(Fine, "EventCapacity")
  <2>1. EnsureCapacity(Fine, k + more) = full
    BY <1>2, <1>4, CapacityFacts
  <2>2. full.error = "EventCapacity"
    BY FullKept
  <2> HIDE DEF full
  <2>3. synced = full
    BY <2>1, <2>2 DEF SyncHover
  <2> QED
    BY <1>1, <2>2, <2>3 DEF full
<1> QED
  BY <1>3, <1>4

\* pointer_move and pointer_leave.
LEMMA MoveKept ==
  ASSUME TypeOK, EventsTellState, NEW target \in Nodes, target = None \/ target \in Placed
  PROVE  Kept(SyncHover(Fine, target))
<1> DEFINE x == SyncHover(Fine, target)
           k == HoverTransitionCount(Fine.model, target)
<1>1. Synced(Fine, target, k, x)
  BY FineFacts, SyncFacts
<1> HIDE DEF x, k
<1>2. Kept(x)
  BY <1>1, SyncKept
<1> QED
  BY <1>2 DEF x

\* pointer_down.
LEMMA DownKept ==
  ASSUME TypeOK, EventsTellState, NEW target \in Nodes, target = None \/ target \in Placed
  PROVE  Kept(PointerDown(target))
<1> USE FineFacts
<1> DEFINE k == HoverTransitionCount(model, target)
           c == Count(target)
           synced == SyncHover(EnsureCapacity(Fine, k + c), target)
           w == GivenUp(synced.seen, target)
           marked == Marked(synced, target, w)
           x == PushIfSome(marked, target, "Pressed")
<1>1. PointerDown(target) = IF synced.error # "Ok" THEN synced ELSE x
  BY DEF PointerDown, Marked
<1>w. w = GivenUp(synced.seen, target)
  OBVIOUS
<1> HIDE DEF w
<1>2. c \in Nat
  BY DEF Count
<1>3. k = HoverTransitionCount(model, target) /\ c = Count(target)
  OBVIOUS
<1> HIDE DEF k, c
<1>4. /\ k \in Nat
      /\ \/ synced = Fails(Fine, "EventCapacity") /\ synced.error = "EventCapacity"
         \/ /\ Synced(Fine, target, k, synced)
            /\ (Len(model.events) + k) + c <= MAX_UI_EVENTS
  BY <1>2, <1>3, RoomThenSync
<1> HIDE DEF synced
<1>5. CASE synced.error # "Ok"
  <2>1. Kept(synced)
    BY <1>4, FullKept, SyncKept
  <2> QED
    BY <1>1, <1>5, <2>1
<1>6. CASE synced.error = "Ok"
  <2>1. /\ synced \in Results /\ Consistent(synced)
        /\ synced.model.hovered = target /\ synced.model.pressed = model.pressed
        /\ Len(synced.model.events) = Len(model.events) + k
        /\ Current(Fine) => Current(synced)
        /\ (Len(model.events) + k) + c <= MAX_UI_EVENTS
    BY <1>4, <1>6 DEF Synced
  <2>s. /\ w \in Views /\ w.legal /\ w.hover = target /\ w.press = synced.seen.press
        /\ target = None => w.lost =
             IF model.pressed # None THEN model.pressed ELSE synced.seen.lost
    <3>1. synced.seen \in Views /\ synced.seen.legal /\ synced.seen.hover = target
      BY <2>1 DEF Results, Consistent
    <3> QED
      BY <1>w, <3>1, GivenUpFacts
  <2>m. marked = Marked(synced, target, w)
    OBVIOUS
  <2> HIDE DEF marked
  <2>2. /\ marked \in Results /\ marked.error = "Ok" /\ marked.seen = w
        /\ marked.model.pressed = target /\ marked.model.hovered = target
        /\ marked.model.events = synced.model.events
    <3>1. synced \in Results /\ w \in Views
      BY <2>1, <2>s
    <3>2. /\ marked \in Results /\ marked.error = synced.error /\ marked.seen = w
          /\ marked.model.pressed = target /\ marked.model.hovered = synced.model.hovered
          /\ marked.model.events = synced.model.events
      BY <3>1, <2>m, PressedFocused
    <3> QED
      BY <1>6, <2>1, <3>2
  <2>3. Current(Fine) => Current(marked)
    BY <2>1, <2>2 DEF Current
  <2>4. Len(marked.model.events) + c <= MAX_UI_EVENTS
    BY <2>1, <2>2
  <2>5. /\ x \in Results /\ x.error = "Ok"
        /\ x.model.hovered = target /\ x.model.pressed = target
        /\ Len(x.model.events) = Len(marked.model.events) + c
        /\ Current(marked) => Current(x)
        /\ target = None => x.seen = marked.seen
        /\ target # None => x.seen = Observe(marked.seen, UiEvent(target, "Pressed"))
    BY <1>3, <2>2, <2>4, PushSome DEF Kinds
  <2> HIDE DEF x
  <2>6. Consistent(x)
    <3>1. CASE target = None
      <4>1. w.press = w.lost
        BY <2>1, <2>s, <3>1 DEF Consistent, PressTold
      <4> QED
        BY <2>s, <2>2, <2>5, <3>1, <4>1 DEF Consistent, PressTold
    <3>2. CASE target # None
      <4> DEFINE e == UiEvent(target, "Pressed")
      <4>1. e \in Events /\ e.target = target /\ e.kind = "Pressed"
        BY <3>2, EventTyped DEF Kinds
      <4>2. marked.seen \in Views /\ marked.seen.legal /\ marked.seen.hover = target
        BY <2>s, <2>2
      <4> HIDE DEF e
      <4>3. /\ x.seen.legal /\ x.seen.hover = target
            /\ x.seen.press = target /\ x.seen.lost = None
        BY <2>5, <3>2, <4>1, <4>2, ObservePress DEF e
      <4> QED
        BY <2>5, <3>2, <4>3 DEF Consistent, PressTold
    <3> QED
      BY <3>1, <3>2
  <2>7. Len(x.model.events) <= MAX_UI_EVENTS
    BY <2>4, <2>5
  <2>8. Kept(x)
    BY <2>3, <2>5, <2>6, <2>7 DEF Kept
  <2> QED
    BY <1>1, <1>6, <2>8
<1> QED
  BY <1>5, <1>6

\* pointer_cancel.
LEMMA CancelKept ==
  ASSUME TypeOK, EventsTellState
  PROVE  Kept(PointerCancel)
<1> USE FineFacts
<1> DEFINE p == model.pressed
           cleared == [Fine EXCEPT !.model.pressed = None]
           x == PushIfSome(cleared, p, "Cancelled")
<1>0. /\ \A n : Count(n) = IF n = None THEN 0 ELSE 1
      /\ MAX_UI_EVENTS \in Nat
  BY CapacityAssumption DEF Count
<1>1. CASE p = None
  <2>1. PointerCancel = Fine
    BY <1>1 DEF PointerCancel
  <2>2. Kept(Fine)
    BY DEF Kept
  <2> QED
    BY <2>1, <2>2
<1>2. CASE p # None /\ ~(Len(model.events) + 1 <= MAX_UI_EVENTS)
  <2> DEFINE full == Fails(Fine, "EventCapacity")
  <2>1. EnsureCapacity(Fine, 1) = full
    BY <1>2, CapacityFacts
  <2>2. Kept(full) /\ full.error = "EventCapacity"
    BY FullKept
  <2> HIDE DEF full
  <2>3. PointerCancel = full
    BY <1>2, <2>1, <2>2 DEF PointerCancel
  <2> QED
    BY <2>2, <2>3
<1>3. CASE p # None /\ Len(model.events) + 1 <= MAX_UI_EVENTS
  <2>1. EnsureCapacity(Fine, 1) = Fine
    BY <1>3, CapacityFacts
  <2>2. CASE p \notin Placed
    <3> DEFINE gone == Fails(Fine, "TargetMissing")
    <3>1. PointerCancel = gone
      BY <1>3, <2>1, <2>2 DEF PointerCancel
    <3>2. /\ gone \in Results /\ gone.error = "TargetMissing"
          /\ gone.model = model /\ gone.seen = seen
      BY FailFacts DEF Errors
    <3> HIDE DEF gone
    <3>3. Consistent(gone) /\ (Current(Fine) => Current(gone))
      BY <3>2 DEF Consistent, Current
    <3>4. Kept(gone)
      BY <1>3, <2>2, <3>2, <3>3 DEF Kept
    <3> QED
      BY <3>1, <3>4
  <2>3. CASE p \in Placed
    <3>m. cleared = [Fine EXCEPT !.model.pressed = None]
      OBVIOUS
    <3>2. PointerCancel = x
      BY <1>3, <2>1, <2>3 DEF PointerCancel, PushIfSome
    <3> HIDE DEF cleared
    <3>1. /\ cleared \in Results /\ cleared.error = "Ok" /\ cleared.seen = seen
          /\ cleared.model.pressed = None /\ cleared.model.hovered = model.hovered
          /\ cleared.model.events = model.events
      BY <3>m, PressedSet
    <3>3. Current(Fine) => Current(cleared)
      BY <3>1 DEF Current
    <3>4. /\ x \in Results /\ x.error = "Ok"
          /\ x.model.hovered = model.hovered /\ x.model.pressed = None
          /\ Len(x.model.events) = Len(model.events) + 1
          /\ Current(cleared) => Current(x)
          /\ x.seen = Observe(seen, UiEvent(p, "Cancelled"))
      <4>1. Count(p) = 1 /\ Len(cleared.model.events) + 1 <= MAX_UI_EVENTS
        BY <1>0, <1>3, <3>1
      <4>2. "Cancelled" \in Kinds
        BY DEF Kinds
      <4> QED
        BY <1>3, <2>3, <3>1, <4>1, <4>2, PushSome
    <3> HIDE DEF x
    <3>5. /\ x.seen.legal /\ x.seen.hover = model.hovered
          /\ x.seen.press = None /\ x.seen.lost = None
      <4> DEFINE e == UiEvent(p, "Cancelled")
      <4>1. e \in Events /\ e.target = p /\ e.kind = "Cancelled"
        BY <2>3, EventTyped DEF Kinds
      <4>2. /\ seen \in Views /\ seen.legal /\ seen.hover = model.hovered
            /\ seen.press = p /\ seen.lost = None
        BY <1>3 DEF TypeOK, EventsTellState, PressTold
      <4> HIDE DEF e
      <4> QED
        BY <3>4, <4>1, <4>2, ObservePress DEF e
    <3>6. Consistent(x)
      BY <3>4, <3>5 DEF Consistent, PressTold
    <3>7. Len(x.model.events) <= MAX_UI_EVENTS
      BY <1>3, <3>4
    <3>8. Kept(x)
      BY <3>3, <3>4, <3>6, <3>7 DEF Kept
    <3> QED
      BY <3>2, <3>8
  <2> QED
    BY <2>2, <2>3
<1> QED
  BY <1>1, <1>2, <1>3

\* pointer_up.
LEMMA UpKept ==
  ASSUME TypeOK, EventsTellState, NEW target \in Nodes, target = None \/ target \in Placed
  PROVE  Kept(PointerUp(target))
<1> USE FineFacts
<1> DEFINE p == model.pressed
           k == HoverTransitionCount(model, target)
           c == 2 * Count(p)
           synced == SyncHover(EnsureCapacity(Fine, k + c), target)
           cleared == [synced EXCEPT !.model.pressed = None]
           released == PushEvent(cleared, p, "Released")
           kind == IF target = p THEN "Clicked" ELSE "Cancelled"
           x == PushEvent(released, p, kind)
<1>1. /\ synced.error # "Ok" \/ p = None => PointerUp(target) = synced
      /\ synced.error = "Ok" /\ p # None /\ p \notin Placed =>
            PointerUp(target) = Fails(synced, "TargetMissing")
      /\ synced.error = "Ok" /\ p # None /\ p \in Placed => PointerUp(target) = x
  BY DEF PointerUp
<1>2. c \in Nat /\ (p # None => c = 2)
  BY DEF Count
<1>3. k = HoverTransitionCount(model, target)
  OBVIOUS
<1> HIDE DEF k, c
<1>4. /\ k \in Nat
      /\ \/ synced = Fails(Fine, "EventCapacity") /\ synced.error = "EventCapacity"
         \/ /\ Synced(Fine, target, k, synced)
            /\ (Len(model.events) + k) + c <= MAX_UI_EVENTS
  BY <1>2, <1>3, RoomThenSync
<1> HIDE DEF synced
<1>5. CASE synced.error # "Ok" \/ p = None
  <2>1. Kept(synced)
    BY <1>4, FullKept, SyncKept
  <2> QED
    BY <1>1, <1>5, <2>1
<1>6. ASSUME synced.error = "Ok", p # None
      PROVE  Kept(PointerUp(target))
  <2>1. /\ synced \in Results /\ Consistent(synced) /\ Kept(synced)
        /\ synced.model.hovered = target /\ synced.model.pressed = p
        /\ synced.seen.press = p /\ synced.seen.lost = None
        /\ Len(synced.model.events) = Len(model.events) + k
        /\ Current(Fine) => Current(synced)
        /\ (Len(model.events) + k) + 2 <= MAX_UI_EVENTS
    <3>1. seen.press = p /\ seen.lost = None
      BY <1>6 DEF EventsTellState, PressTold
    <3>2. Synced(Fine, target, k, synced) /\ c = 2
          /\ (Len(model.events) + k) + c <= MAX_UI_EVENTS
      BY <1>2, <1>4, <1>6
    <3> QED
      BY <1>6, <3>1, <3>2, SyncKept DEF Synced
  <2>2. CASE p \notin Placed
    <3> DEFINE gone == Fails(synced, "TargetMissing")
    <3>1. PointerUp(target) = gone
      BY <1>1, <1>6, <2>2
    <3>2. /\ gone \in Results /\ gone.error = "TargetMissing"
          /\ gone.model = synced.model /\ gone.seen = synced.seen
      BY <2>1, FailFacts DEF Errors
    <3> HIDE DEF gone
    <3>3. Consistent(gone) /\ (Current(Fine) => Current(gone))
      BY <2>1, <3>2 DEF Consistent, Current
    <3>4. Kept(gone)
      BY <1>6, <2>1, <2>2, <3>2, <3>3 DEF Kept
    <3> QED
      BY <3>1, <3>4
  <2>3. CASE p \in Placed
    <3>m. cleared = [synced EXCEPT !.model.pressed = None]
      OBVIOUS
    <3>n. /\ kind \in {"Clicked", "Cancelled"}
          /\ target = p => kind = "Clicked"
          /\ target # p => kind = "Cancelled"
      OBVIOUS
    <3>x. PointerUp(target) = x
      BY <1>1, <1>6, <2>3
    <3> HIDE DEF cleared, kind
    <3>1. /\ cleared \in Results /\ cleared.error = "Ok" /\ cleared.seen = synced.seen
          /\ cleared.model.pressed = None /\ cleared.model.hovered = target
          /\ cleared.model.events = synced.model.events
      BY <1>6, <2>1, <3>m, PressedSet
    <3>2. Current(Fine) => Current(cleared)
      BY <2>1, <3>1 DEF Current
    <3>3. /\ MAX_UI_EVENTS \in Nat /\ Len(model.events) + k \in Nat
          /\ Len(cleared.model.events) = Len(model.events) + k
          /\ Len(cleared.model.events) < MAX_UI_EVENTS
          /\ Len(cleared.model.events) + 1 < MAX_UI_EVENTS
      <4>1. MAX_UI_EVENTS \in Nat
        BY CapacityAssumption
      <4>2. Len(cleared.model.events) = Len(model.events) + k
        BY <2>1, <3>1
      <4>3. Len(model.events) + k \in Nat /\ (Len(model.events) + k) + 2 <= MAX_UI_EVENTS
        BY <1>4, <2>1
      <4> QED
        BY <4>1, <4>2, <4>3
    <3>k. "Released" \in Kinds /\ kind \in Kinds
      BY <3>n DEF Kinds
    <3>4. /\ released \in Results /\ released.error = "Ok"
          /\ released.model.pressed = None /\ released.model.hovered = target
          /\ Len(released.model.events) = Len(cleared.model.events) + 1
          /\ released.seen = Observe(synced.seen, UiEvent(p, "Released"))
      <4>1. /\ cleared \in Results /\ cleared.error = "Ok" /\ p \in Placed
            /\ "Released" \in Kinds /\ Len(cleared.model.events) < MAX_UI_EVENTS
        BY <2>3, <3>1, <3>3, <3>k
      <4> QED
        BY <3>1, <4>1, PushOk
    <3>r. Current(Fine) => Current(released)
      BY <2>3, <3>1, <3>2, <3>3, <3>k, PushCurrent
    <3> HIDE DEF released
    <3>5. /\ released.seen.legal /\ released.seen.hover = target
          /\ released.seen.released = p
          /\ released.seen.press = None /\ released.seen.lost = None
      <4> DEFINE e == UiEvent(p, "Released")
      <4>1. e \in Events /\ e.target = p /\ e.kind = "Released"
        BY <2>3, <3>k, EventTyped
      <4>2. /\ synced.seen \in Views /\ synced.seen.legal
            /\ synced.seen.hover = target
            /\ synced.seen.press = p /\ synced.seen.lost = None
        BY <2>1 DEF Results, Consistent
      <4> HIDE DEF e
      <4> QED
        BY <3>4, <4>1, <4>2, ObservePress DEF e
    <3>6. Len(released.model.events) < MAX_UI_EVENTS
      BY <3>3, <3>4
    <3>7. /\ x \in Results /\ x.error = "Ok"
          /\ x.model.pressed = None /\ x.model.hovered = target
          /\ Len(x.model.events) = Len(released.model.events) + 1
          /\ x.seen = Observe(released.seen, UiEvent(p, kind))
          /\ Current(Fine) => Current(x)
      <4>1. /\ released \in Results /\ released.error = "Ok" /\ p \in Placed
            /\ kind \in Kinds /\ Len(released.model.events) < MAX_UI_EVENTS
        BY <2>3, <3>4, <3>6, <3>k
      <4>2. Current(Fine) => Current(x)
        BY <3>r, <4>1, PushCurrent
      <4> QED
        BY <3>4, <4>1, <4>2, PushOk
    <3> HIDE DEF x
    <3>8. /\ x.seen.legal /\ x.seen.hover = target
          /\ x.seen.press = None /\ x.seen.lost = None
      <4> DEFINE e == UiEvent(p, kind)
      <4>1. e \in Events /\ e.target = p /\ e.kind = kind
        BY <2>3, <3>k, EventTyped
      <4>2. released.seen \in Views
        BY <3>4 DEF Results
      <4> HIDE DEF e
      <4> QED
        BY <3>5, <3>7, <3>n, <4>1, <4>2, ObservePress DEF e
    <3>9. Consistent(x)
      BY <3>7, <3>8 DEF Consistent, PressTold
    <3>10. Len(x.model.events) <= MAX_UI_EVENTS
      BY <3>3, <3>4, <3>7
    <3>11. Kept(x)
      BY <3>r, <3>7, <3>9, <3>10 DEF Kept
    <3> QED
      BY <3>x, <3>11
  <2> QED
    BY <2>2, <2>3
<1> QED
  BY <1>5, <1>6

\* The state after a call is the call's result.
LEMMA CallStep ==
  ASSUME PointerInv, NEW x, Kept(x), Call(x)
  PROVE  /\ PointerInv'
         /\ response' = "EventCapacity" => model' = model
<1>1. /\ TypeOK /\ EventsTellState /\ RemembersPlaced /\ BackendConsistent
      /\ model' = x.model /\ response' = x.error /\ seen' = x.seen
      /\ retained' = retained /\ snapshot' = snapshot
  BY DEF PointerInv, Call
<1>2. TypeOK'
  BY <1>1 DEF Kept, TypeOK, Results
<1>3. EventsTellState'
  BY <1>1 DEF Kept, Consistent, EventsTellState
<1>4. Placed' = Placed
  BY <1>1 DEF Placed
<1>5. RemembersPlaced'
  BY <1>1, <1>4 DEF Kept, RemembersPlaced
<1>6. BackendConsistent'
  <2>1. model.events \in Seq(Events) /\ x.model.events \in Seq(Events)
    BY <1>1 DEF TypeOK, Models, Kept, Results
  <2>2. Fine.model = model
    BY <1>1, FineFacts
  <2>3. SUFFICES ASSUME retained
                 PROVE  BackendConsistent'
    BY <1>1 DEF BackendConsistent
  <2>4. Current(Fine)
    BY <1>1, <2>1, <2>2, <2>3 DEF BackendConsistent, Current, Placed
  <2>5. Current(x) /\ x.error # "TargetMissing"
    BY <1>1, <2>3, <2>4 DEF Kept, RemembersPlaced
  <2> QED
    BY <1>1, <2>1, <2>5 DEF BackendConsistent, Current, Placed
<1> QED
  BY <1>1, <1>2, <1>3, <1>5, <1>6 DEF PointerInv, Kept

\* poll_event takes the first event out and changes nothing else.
LEMMA PollStep ==
  ASSUME PointerInv, PollEvent
  PROVE  PointerInv' /\ response' # "EventCapacity"
<1>1. /\ TypeOK /\ EventsTellState /\ RemembersPlaced /\ BackendConsistent
      /\ model' = [model EXCEPT !.events = Tail(@)] /\ response' = "Ok"
      /\ retained' = retained /\ snapshot' = snapshot /\ seen' = seen
      /\ model.events # << >>
  BY DEF PointerInv, PollEvent
<1>2. model \in Models /\ model.events \in Seq(Events)
  BY <1>1 DEF TypeOK, Models
<1>3. /\ model' \in Models /\ model'.events = Tail(model.events)
      /\ model'.hovered = model.hovered /\ model'.pressed = model.pressed
  <2>1. Tail(model.events) \in Seq(Events)
    BY <1>1, <1>2
  <2> QED
    BY <1>1, <1>2, <2>1 DEF Models
<1>4. /\ Tail(model.events) \in Seq(Events)
      /\ Len(Tail(model.events)) = Len(model.events) - 1
      /\ Len(model.events) \in Nat
      /\ \A i \in 1 .. Len(Tail(model.events)) :
           i + 1 \in 1 .. Len(model.events) /\ Tail(model.events)[i] = model.events[i + 1]
  BY <1>1, <1>2
<1>5. TypeOK'
  <2>1. Len(model'.events) <= MAX_UI_EVENTS
    BY <1>1, <1>3, <1>4, CapacityAssumption DEF TypeOK
  <2> QED
    BY <1>1, <1>3, <2>1 DEF TypeOK, Errors
<1>6. EventsTellState'
  BY <1>1, <1>3 DEF EventsTellState, PressTold
<1>7. RemembersPlaced'
  BY <1>1, <1>3 DEF RemembersPlaced, Placed
<1>8. BackendConsistent'
  <2>1. DOMAIN model.events = 1 .. Len(model.events)
        /\ DOMAIN Tail(model.events) = 1 .. Len(Tail(model.events))
    BY <1>2, <1>4
  <2> QED
    BY <1>1, <1>3, <1>4, <2>1 DEF BackendConsistent
<1> QED
  BY <1>1, <1>5, <1>6, <1>7, <1>8 DEF PointerInv

\* clear_events empties the queue and changes nothing else.
LEMMA ClearStep ==
  ASSUME PointerInv, ClearEvents
  PROVE  PointerInv' /\ response' # "EventCapacity"
<1>1. /\ TypeOK /\ EventsTellState /\ ~retained
      /\ model' = [model EXCEPT !.events = << >>] /\ response' = "Ok"
      /\ retained' = retained /\ snapshot' = snapshot /\ seen' = seen
  BY DEF PointerInv, ClearEvents
<1>2. model \in Models
  BY <1>1 DEF TypeOK
<1>e. << >> \in Seq(Events)
  OBVIOUS
<1>3. /\ model' \in Models /\ model'.events = << >>
      /\ model'.hovered = model.hovered /\ model'.pressed = model.pressed
  BY <1>1, <1>2, <1>e DEF Models
<1>4. TypeOK'
  <2>1. Len(model'.events) <= MAX_UI_EVENTS
    BY <1>3, CapacityAssumption
  <2> QED
    BY <1>1, <1>3, <2>1 DEF TypeOK, Errors
<1>5. EventsTellState'
  BY <1>1, <1>3 DEF EventsTellState, PressTold
<1> QED
  BY <1>1, <1>4, <1>5 DEF PointerInv, RemembersPlaced, BackendConsistent

\* A new model is in order in any layout.
LEMMA NewFacts ==
  /\ New \in Models /\ Unseen \in Views
  /\ Len(New.events) <= MAX_UI_EVENTS /\ DOMAIN New.events = {}
  /\ New.hovered = None /\ New.pressed = None
  /\ Unseen.legal /\ Unseen.hover = None
  /\ Unseen.press = None /\ Unseen.lost = None
<1>1. None \in Nodes
  BY DEF Nodes
<1> QED
  BY <1>1, CapacityAssumption DEF New, Unseen, Models, Views

\* set_snapshot starts afresh in the new layout.
LEMMA SnapshotStep ==
  ASSUME PointerInv, SetSnapshot
  PROVE  PointerInv' /\ response' # "EventCapacity"
<1>1. /\ retained' \in BOOLEAN /\ snapshot' \in Snapshots
      /\ model' = New /\ seen' = Unseen /\ response' = "Ok"
  BY DEF PointerInv, TypeOK, SetSnapshot, ResetModel
<1> QED
  BY <1>1, NewFacts
     DEF PointerInv, TypeOK, EventsTellState, PressTold, RemembersPlaced,
         BackendConsistent, Errors

\* A caller of the bare model may change the layout under it.
LEMMA RelayoutStep ==
  ASSUME PointerInv, Relayout
  PROVE  PointerInv' /\ response' # "EventCapacity"
BY DEF PointerInv, TypeOK, EventsTellState, PressTold, RemembersPlaced,
       BackendConsistent, Errors, Relayout

\* Every step keeps the invariant, and one that finds no room keeps the model.
LEMMA PointerStep ==
  ASSUME PointerInv, [Next]_vars
  PROVE  /\ PointerInv'
         /\ ~UNCHANGED vars => (response' = "EventCapacity" => model' = model)
<1>0. TypeOK /\ EventsTellState /\ snapshot \in Snapshots /\ None \in Nodes
  BY DEF PointerInv, TypeOK, Nodes
<1>1. CASE Move
  BY <1>0, <1>1, HitPlaced, MoveKept, CallStep DEF Move, PointerMove
<1>2. CASE Down
  BY <1>0, <1>2, HitPlaced, DownKept, CallStep DEF Down
<1>3. CASE Up
  BY <1>0, <1>3, HitPlaced, UpKept, CallStep DEF Up
<1>4. CASE Leave
  BY <1>0, <1>4, MoveKept, CallStep DEF Leave, PointerLeave
<1>5. CASE Cancel
  BY <1>0, <1>5, CancelKept, CallStep DEF Cancel
<1>6. CASE PollEvent
  BY <1>6, PollStep
<1>7. CASE ClearEvents
  BY <1>7, ClearStep
<1>8. CASE SetSnapshot
  BY <1>8, SnapshotStep
<1>9. CASE Relayout
  BY <1>9, RelayoutStep
<1>10. CASE UNCHANGED vars
  BY <1>10 DEF vars, PointerInv, TypeOK, EventsTellState, PressTold, RemembersPlaced,
               BackendConsistent, Placed
<1> QED
  BY <1>1, <1>2, <1>3, <1>4, <1>5, <1>6, <1>7, <1>8, <1>9, <1>10 DEF Next

-----------------------------------------------------------------------------
(* The theorems.                                                           *)

\* Every reachable state of the pointer state machine, fed by the retained
\* backend or by a caller, satisfies PointerInv.
THEOREM PointerInvariant == Spec => []PointerInv
<1>1. Init => PointerInv
  BY NewFacts DEF Init, PointerInv, TypeOK, EventsTellState, PressTold, RemembersPlaced,
                  BackendConsistent, Errors
<1>2. PointerInv /\ [Next]_vars => PointerInv'
  BY PointerStep
<1> QED
  BY <1>1, <1>2, PTL DEF Spec

\* What the pushed events tell a consumer is what the model holds: hover events
\* alternate and end at `hovered`, a release or cancellation follows a press of
\* its node, a click a release over it, and the press they imply is the held
\* one.  Where they do not tell it, pointer_down over nothing has ended the
\* press the consumer still believes in, and no Pressed came since.
THEOREM EventsAreFaithful == Spec => []EventsTellState
<1>1. PointerInv => EventsTellState
  BY DEF PointerInv
<1> QED
  BY <1>1, PointerInvariant, PTL

\* RetainedHeadlessBackend never reports a missing target and never delivers
\* an event of an earlier layout.
THEOREM BackendIsConsistent == Spec => []BackendConsistent
<1>1. PointerInv => BackendConsistent
  BY DEF PointerInv
<1> QED
  BY <1>1, PointerInvariant, PTL

\* ensure_event_capacity runs before any change: a call that answers
\* EventCapacity has left the model as it was.
THEOREM CapacityFailsWhole == Spec => CapacityAllOrNothing
<1>1. PointerInv /\ [Next]_vars => [response' = "EventCapacity" => model' = model]_vars
  BY PointerStep
<1> QED
  BY <1>1, PointerInvariant, PTL DEF Spec, CapacityAllOrNothing
================================================================================
