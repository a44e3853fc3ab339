------------------------------- MODULE Swipes -------------------------------
(***************************************************************************)
(* Tag switches that take time, on one output: the workspace transition of *)
(* render/workspace_transition.c, the touchpad swipe of input/pointer.c    *)
(* that drives one, the spring or slide the animation manager runs for it  *)
(* (render/animation.c), the pointer acceleration a swipe overrides        *)
(* (input/gesture_accel.c) and the masking of the windows a transition or  *)
(* an opening animation stands in for (render/view.c).  The tag table is   *)
(* that of Tags.                                                           *)
(*                                                                         *)
(* A position on the ring of tags is a double in the code and an integer   *)
(* here, Unit to the tag: only its floor, its nearest tag and comparisons  *)
(* with the threshold matter.  Beyond a neighbour a single swipe is held   *)
(* by a rubber band of at most 0.05 tag; Band, less than half a tag,       *)
(* stands for it.  A ring is ascending, so its set of members stands for   *)
(* it.  destination_id always equals incoming_id, and the direction of an  *)
(* effect only picks a side: both are left out.                            *)
(***************************************************************************)
EXTENDS Tags, Sequences, SequencesExt

CONSTANTS Views,        \* windows of the output
          Fullscreens,  \* those of them that may go fullscreen
          Pointers, Flat,  \* devices, and those whose acceleration can be made flat
          Scenarios,    \* the situations looked at, see below
          Flicks,       \* how far the release velocity projects, either way
          Threshold,    \* of the release, in quarters of a tag
          MaxReloads,   \* bound: reloads
          Surprises     \* interleavings whose consequences runs look at apart:
                        \* "last_in_swipe", "opening_moved", "stuck_engaged",
                        \* "ring_beyond"

\* A scenario fixes the mode of the gesture, the pinned tags and the maxima a
\* configuration may set, the displacements of one update and of a swipe
\* (bound), the number of swipes and commands (bound), whether the commands are
\* left out, and the positions at which frames of an animation are looked at.
Situation(name) ==
  IF name = "wide"
  THEN [mode |-> "free", initial |-> 5, maxima |-> {6}, steps |-> {4},
        reach |-> 16, events |-> 1, quiet |-> TRUE, frame |-> 2]
  ELSE IF name = "long"
  THEN [mode |-> "free", initial |-> 2, maxima |-> {3, 4}, steps |-> {4},
        reach |-> 4, events |-> 3, quiet |-> FALSE, frame |-> 4]
  ELSE [mode |-> name, initial |-> 2, maxima |-> {3, 4}, steps |-> {2, 6},
        reach |-> 6, events |-> 2, quiet |-> FALSE, frame |-> 2]

ASSUME SwipesAssumption ==
  /\ IsFiniteSet(Views) /\ Fullscreens \subseteq Views /\ Flat \subseteq Pointers
  /\ Scenarios \subseteq {"single", "scrub", "free", "wide", "long"}
  /\ Surprises \subseteq {"last_in_swipe", "opening_moved", "stuck_engaged", "ring_beyond"}
  /\ "none" \notin Pointers /\ MaxReloads \in Nat
  /\ Flicks \subseteq Nat /\ Threshold \in Int

VARIABLES w, events, around

vars == <<w, events, around>>

-----------------------------------------------------------------------------
(* Positions                                                               *)

Unit == 4
Band == 1

Tag(p) == p \div Unit
Floor(p) == Tag(p) * Unit
Ceil(p) == -Floor(-p)

\* round(): halves go away from zero.
Nearest(p) == IF p >= 0 THEN Floor(p + Unit \div 2) ELSE -Floor(Unit \div 2 - p)

Lower(a, b) == IF a < b THEN a ELSE b
Higher(a, b) == IF a < b THEN b ELSE a
Distance(a, b) == Higher(a - b, b - a)

Index(ring, id) == Cardinality({other \in ring : other < id})

\* ring[leme_tags_ring_wrap(p)]
RingAt(ring, p) ==
  CHOOSE id \in ring : Index(ring, id) = Tag(p) % Cardinality(ring)

\* The copy of position p nearest to `near`, a lap being the whole ring.
NearestCopy(ring, p, near) ==
  LET lap == Unit * Cardinality(ring)
      off == near - p
  IN p + lap * (IF off >= 0 THEN (2 * off + lap) \div (2 * lap)
                            ELSE -((lap - 2 * off) \div (2 * lap)))

\* leme_swipe_position
SwipePosition(raw, center) ==
  IF raw < center - Unit THEN center - Unit - Band
  ELSE IF raw > center + Unit THEN center + Unit + Band ELSE raw

\* leme_swipe_target
SwipeTarget(projected, center) ==
  IF projected >= center + Threshold THEN center + Unit
  ELSE IF projected <= center - Threshold THEN center - Unit ELSE center

\* leme_swipe_continuous_target
ContinuousTarget(projected, forward) ==
  LET base == Floor(projected) IN
  IF projected = base THEN base
  ELSE IF forward THEN IF projected >= base + Threshold THEN base + Unit ELSE base
  ELSE IF projected <= base + Unit - Threshold THEN base ELSE base + Unit

-----------------------------------------------------------------------------
(* State                                                                   *)

NoGesture ==
  [active |-> FALSE, engaged |-> FALSE, mode |-> "single", pointer |-> "none",
   initial |-> 0, center |-> 0, start |-> 0, displacement |-> 0, ring |-> {}]

NoTransition ==
  [active |-> FALSE, outgoing |-> 0, incoming |-> 0, ring |-> {}, from |-> 0,
   to |-> 0, gesture |-> FALSE, animation |-> "none", bounded |-> FALSE,
   min |-> 0, max |-> 0, presented |-> 0, pair |-> FALSE, cache |-> <<>>]

CacheSize == 4
Overridden == -1     \* the setting of a device made flat at neutral speed

CurrentTag(s) == IF s.tags.focused_is_candidate THEN 0 ELSE s.tags.focused_id
OnTag(s, id) == {v \in Views : s.tag[v] = id}
Mapped(s) == Views \ OnTag(s, 0)

\* leme_render_workspace_transition_hides_view
HidesView(s, v) ==
  /\ s.transition.active
  /\ s.tag[v] \in {s.transition.incoming} \cup
       (IF s.transition.gesture
        THEN {s.transition.outgoing, s.tags.focused_id} ELSE {})

\* leme_render_view_presentation_hidden
PresentationHidden(s, v) == s.opening[v] = "pending" \/ HidesView(s, v)

\* leme_render_view_sync_presentation of some views
SyncPresentation(s, which) ==
  [s EXCEPT !.masked = (@ \ which) \cup {v \in which : PresentationHidden(s, v)}]

\* leme_render_workspace_transition_refresh_views
RefreshViews(s) == SyncPresentation(s, Mapped(s))

\* leme_view_refresh_tag_focus: the views of the focused tag are enabled, or
\* its fullscreen one alone, and all are synchronised.
RefreshFocus(s) ==
  LET here == OnTag(s, CurrentTag(s)) \ OnTag(s, 0)
      visible == IF here \cap s.fullscreen = {} THEN here
                 ELSE {CHOOSE v \in here : v \in s.fullscreen}
  IN RefreshViews([s EXCEPT !.enabled = visible])

-----------------------------------------------------------------------------
(* Ending animations                                                       *)

\* leme_animation_manager_finish_data on the animations of views, and
\* leme_render_view_cancel_open_timeout.  An opening animation that ends
\* shows the view again.
FinishViews(s) ==
  RefreshViews([s EXCEPT
    !.enabled = @ \cup {v \in Mapped(s) : s.opening[v] = "fading"},
    !.opening = [v \in Views |-> "no"]])

\* Mutant: the views are synchronised while the transition still hides them.
DoneRefreshesFirst(s) ==
  [RefreshViews(s) EXCEPT !.transition = NoTransition]

\* leme_render_workspace_transition_done
TransitionDone(s) == RefreshViews([s EXCEPT !.transition = NoTransition])

\* leme_gesture_accel_restore
AccelRestore(s) ==
  IF s.override = "none" THEN s
  ELSE [s EXCEPT !.settings[s.override] = s.saved, !.override = "none", !.saved = 0]

\* leme_input_workspace_gesture_reset
GestureReset(s) == [AccelRestore(s) EXCEPT !.gesture = NoGesture]

\* leme_render_workspace_transition_finish
TransitionFinish(s) ==
  IF ~s.transition.active THEN s
  ELSE TransitionDone(IF s.gesture.active /\ s.gesture.engaged
                      THEN GestureReset(s) ELSE s)

\* Mutant: whether the swipe was engaged is read after it is reset.
CancelForgetsEngaged(s) ==
  LET reset == GestureReset(s)
      finished == IF reset.gesture.engaged THEN TransitionFinish(reset) ELSE reset
  IN IF s.gesture.active THEN RefreshFocus(finished) ELSE finished

\* leme_input_workspace_gesture_cancel
GestureCancel(s) ==
  LET reset == GestureReset(s)
      engaged == s.gesture.active /\ s.gesture.engaged
      finished == IF engaged THEN TransitionFinish(reset) ELSE reset
  IN IF s.gesture.active THEN RefreshFocus(finished) ELSE finished

\* leme_tags_focus_id_direction while a swipe is engaged: no transition.
FocusQuietly(s, id, direction) ==
  LET tags == FocusId(s.tags, id) IN
  [s EXCEPT !.tags = tags,
            !.direction = IF tags.focused_id # s.tags.focused_id THEN direction ELSE @]

Shown(s) ==
  IF s.transition.active THEN s.transition.presented
  ELSE LET raw == s.gesture.initial + s.gesture.displacement IN
       IF s.gesture.mode = "single" THEN SwipePosition(raw, s.gesture.center) ELSE raw

\* leme_render_output_animations_finish: an engaged swipe ends on the tag
\* nearest to what is shown.
AnimationsFinish(s) ==
  LET quiet == FinishViews(s)
      running == quiet.transition.animation # "none"
      stopped == IF running THEN TransitionDone(quiet) ELSE quiet
  IN IF s.gesture.active /\ s.gesture.engaged
     THEN LET chosen == RingAt(s.gesture.ring, Nearest(Shown(stopped)))
              reset == GestureReset(FocusQuietly(stopped, chosen, Forward))
          IN RefreshFocus(IF reset.transition.active THEN TransitionDone(reset) ELSE reset)
     ELSE LET reset == IF s.gesture.active THEN GestureReset(stopped) ELSE stopped
          IN IF reset.transition.active THEN TransitionDone(reset) ELSE reset

\* leme_animation_manager_finish_all
FinishAll(s) ==
  LET quiet == FinishViews(s) IN
  IF quiet.transition.animation # "none" THEN TransitionDone(quiet) ELSE quiet

-----------------------------------------------------------------------------
(* Beginning a transition                                                  *)

TagHasFullscreen(s, id) == OnTag(s, id) \cap s.fullscreen # {}

\* leme_workspace_transition_is_eligible
Eligible(s, source, destination) ==
  /\ s.animated /\ source # destination
  /\ ValidId(s.tags, source) /\ ValidId(s.tags, destination)
  /\ ~TagHasFullscreen(s, source) /\ ~TagHasFullscreen(s, destination)
  /\ s.power_on /\ ~s.locked /\ s.session_active

\* leme_workspace_effect_has_content: a window on either tag, or on one that
\* the transition it replaces shows.
HasContent(s, source, destination) ==
  \E id \in {source, destination} \cup ToSet(s.transition.cache) : OnTag(s, id) # {}

\* Mutant: the animations of the windows go on under the transition.
PreparedLetsViewsAnimate(s) ==
  IF s.transition.active THEN AnimationsFinish(s) ELSE s

\* What leme_workspace_transition_prepare_with_ops ends, eligible or not.
Prepared(s) == IF s.transition.active THEN AnimationsFinish(s) ELSE FinishViews(s)

\* leme_workspace_transition_prepare_with_ops: the transition, or NoTransition
Prepare(s, source, destination, direction, allow_empty) ==
  IF \/ ~Eligible(s, source, destination)
     \/ ~allow_empty /\ ~HasContent(s, source, destination)
  THEN NoTransition
  ELSE [NoTransition EXCEPT
          !.active = TRUE, !.outgoing = source, !.incoming = destination,
          !.ring = Ring(s.tags, direction), !.cache = <<source, destination>>]

\* leme_render_workspace_transition_commit
Commit(s, prepared, direction) ==
  IF ~prepared.active THEN s
  ELSE LET from == Unit * Index(prepared.ring, prepared.outgoing)
           to == Unit * Index(prepared.ring, prepared.incoming)
           lap == Unit * Cardinality(prepared.ring)
       IN RefreshViews([s EXCEPT
            !.transition = [prepared EXCEPT
              !.from = from, !.presented = from, !.animation = "slide",
              !.to = IF direction = Backward /\ to > from THEN to - lap
                     ELSE IF direction = Forward /\ to < from THEN to + lap ELSE to]])

\* leme_render_workspace_transition_begin_gesture
BeginGesture(s, prepared) ==
  RefreshViews([s EXCEPT
    !.transition = [prepared EXCEPT !.gesture = TRUE, !.animation = "none"]])

\* leme_tags_set_focus_state: tags is the table with the focus moved.
ChangeFocus(s, tags, direction) ==
  IF tags.focused_id = s.tags.focused_id THEN [s EXCEPT !.tags = tags]
  ELSE IF s.gesture.engaged THEN [s EXCEPT !.tags = tags, !.direction = direction]
  ELSE LET prepared == Prepare(s, s.tags.focused_id, tags.focused_id, direction, FALSE)
       IN Commit([Prepared(s) EXCEPT !.tags = tags, !.direction = direction],
                 prepared, direction)

-----------------------------------------------------------------------------
(* A transition under a position                                           *)

\* leme_workspace_gesture_segment
Segment(p, bounded, minimum, maximum) ==
  IF ~bounded THEN Floor(p)
  ELSE IF minimum = maximum THEN minimum
  ELSE Higher(minimum, Lower(Floor(p), maximum - Unit))

\* Mutant: the other half of the new pair may be evicted.
SlotForgetsPair(s, cache, id, keep) ==
  LET pinned == {s.transition.outgoing, s.transition.incoming}
      free == {i \in 1..Len(cache) : cache[i] \notin pinned}
  IN IF id \in ToSet(cache) THEN cache
     ELSE IF id > s.tags.max_tags THEN <<>>
     ELSE IF Len(cache) < CacheSize THEN Append(cache, id)
     ELSE IF free = {} THEN <<>>
     ELSE [cache EXCEPT ![CHOOSE i \in free : \A j \in free : i <= j] = id]

\* leme_workspace_transition_get_or_create_slot: the cache with a snapshot of
\* tag id, empty when there can be none.  The pair shown and `keep` stay.
Slot(s, cache, id, keep) ==
  LET pinned == {s.transition.outgoing, s.transition.incoming, keep}
      free == {i \in 1..Len(cache) : cache[i] \notin pinned}
  IN IF id \in ToSet(cache) THEN cache
     ELSE IF id > s.tags.max_tags THEN <<>>
     ELSE IF Len(cache) < CacheSize THEN Append(cache, id)
     ELSE IF free = {} THEN <<>>
     ELSE [cache EXCEPT ![CHOOSE i \in free : \A j \in free : i <= j] = id]

\* leme_workspace_transition_apply_position: the pair at a position, and the
\* state that shows it; a pair that cannot be captured changes nothing.
PairCache(s, p) ==
  LET tr == s.transition
      segment == Segment(p, tr.bounded, tr.min, tr.max)
      low == RingAt(tr.ring, segment)
      high == RingAt(tr.ring, segment + Unit)
      first == Slot(s, tr.cache, low, high)
  IN IF first = <<>> THEN <<>> ELSE Slot(s, first, high, low)

ApplyPosition(s, p) ==
  LET tr == s.transition
      segment == Segment(p, tr.bounded, tr.min, tr.max)
      cache == PairCache(s, p)
  IN IF cache = <<>> THEN s
     ELSE RefreshViews([s EXCEPT
            !.transition = [tr EXCEPT
              !.outgoing = RingAt(tr.ring, segment),
              !.incoming = RingAt(tr.ring, segment + Unit),
              !.cache = cache, !.presented = p, !.pair = TRUE]])

\* leme_render_workspace_transition_set_gesture_range: refused when the pair
\* shown now would be read as another pair.
RangeFits(tr, bounded, minimum, maximum) ==
  LET p == tr.presented
      long == /\ ~tr.gesture /\ ~tr.pair /\ Distance(tr.to, tr.from) > Unit
              /\ p \notin {tr.from, tr.to}
      held == tr.bounded /\ (p # Floor(p) \/ p < tr.min \/ p > tr.max)
  IN /\ Cardinality(tr.ring) >= 2 /\ ~long
     /\ held => /\ Segment(p, TRUE, tr.min, tr.max) = Segment(p, bounded, minimum, maximum)
                /\ (tr.min = tr.max) = (bounded /\ minimum = maximum)

SetRange(s, bounded, minimum, maximum) ==
  [s EXCEPT !.transition.bounded = bounded,
            !.transition.min = IF bounded THEN minimum ELSE 0,
            !.transition.max = IF bounded THEN maximum ELSE 0]

\* The tags a settling transition captures in advance: at most four steps
\* from the tag below the position towards the target.
Prewarmed(s, from, to) ==
  LET step == IF to >= from THEN Unit ELSE -Unit
      warm[k \in 0..CacheSize] ==
        IF k = 0 THEN s.transition.cache
        ELSE LET p == Floor(from) + (k - 1) * step
                 past == IF step > 0 THEN p > Nearest(to) ELSE p < Nearest(to)
                 slot == Slot(s, warm[k - 1], RingAt(s.transition.ring, p), 0)
             IN IF past \/ slot = <<>> THEN warm[k - 1] ELSE slot
  IN IF Distance(Nearest(to), Nearest(from)) <= 3 * Unit THEN warm[CacheSize]
     ELSE s.transition.cache

\* leme_render_workspace_transition_settle
Settle(s, from, to, moving) ==
  IF ~s.transition.active THEN s
  ELSE IF PairCache(s, from) = <<>> THEN TransitionFinish(s)
  ELSE LET adopted == ApplyPosition(s, from) IN
       IF from = to /\ ~moving THEN TransitionFinish(adopted)
       ELSE [adopted EXCEPT !.transition.cache = Prewarmed(adopted, from, to),
                            !.transition.from = from, !.transition.to = to,
                            !.transition.animation = "spring"]

-----------------------------------------------------------------------------
(* Swipes                                                                  *)

\* leme_gesture_accel_begin: a device that refuses, or an override already in
\* place, leaves everything as it was.
AccelBegin(s, p) ==
  IF s.override # "none" \/ p \notin Flat THEN s
  ELSE [s EXCEPT !.saved = s.settings[p], !.override = p, !.settings[p] = Overridden]

\* leme_input_handle_swipe_begin past its refusals.  A swipe takes over the
\* transition it finds, ring and position, unless it could not show it.
Begun(s, p) ==
  LET mode == s.mode
      fresh(u) == Ring(u.tags, Forward)
      start == s.tags.focused_id
      found == s.transition.active
      ring == IF found THEN s.transition.ring ELSE fresh(s)
      initial == IF found THEN s.transition.presented ELSE Unit * Index(ring, start)
      center == NearestCopy(ring, Unit * Index(ring, start), initial)
      fits == /\ mode = "single" => Distance(initial, center) <= Unit
              /\ RangeFits(s.transition, mode = "single", center - Unit, center + Unit)
      gesture(u, r, i, c) ==
        [NoGesture EXCEPT !.active = TRUE, !.engaged = u.transition.active,
           !.mode = mode, !.pointer = p, !.initial = i, !.center = c,
           !.start = u.tags.focused_id, !.ring = r]
  IN IF Cardinality(ring) < 2 \/ start \notin ring THEN s
     ELSE IF found /\ fits
     THEN LET ranged == SetRange(s, mode = "single", center - Unit, center + Unit)
              taken == AccelBegin([ranged EXCEPT
                         !.gesture = gesture(s, ring, initial, center)], p)
          IN BeginGesture(taken, taken.transition)
     ELSE LET alone == TransitionFinish(s)
              at == Unit * Index(fresh(alone), start)
          IN IF Cardinality(fresh(alone)) < 2 THEN alone
             ELSE AccelBegin([alone EXCEPT
                    !.gesture = gesture(alone, fresh(alone), at, at)], p)

\* leme_input_handle_swipe_begin
SwipeBegin(p) ==
  /\ w.session_active /\ events < Situation(around).events
  /\ events' = events + 1 /\ UNCHANGED around
  /\ LET alone == GestureCancel(w) IN
     w' = IF w.locked \/ ~w.here THEN alone ELSE Begun(alone, p)

\* The rest of an update: the position follows the fingers.
Moved(s, delta) ==
  LET displacement == s.gesture.displacement + delta
      raw == s.gesture.initial + displacement
      visual == IF s.gesture.mode = "single"
                THEN SwipePosition(raw, s.gesture.center) ELSE raw
      moved == [s EXCEPT !.gesture.displacement = displacement]
  IN IF moved.transition.active THEN ApplyPosition(moved, visual) ELSE moved

\* A swipe recognised as horizontal starts a gesture transition, if there can
\* be one, on the ring it began with.
Ahead(s) == RingAt(s.gesture.ring, s.gesture.center + Unit)

Engaged(s) ==
  LET prepared == Prepare(s, s.gesture.start, Ahead(s), Forward, TRUE)
      quiet == Prepared(s)
      begun == BeginGesture(quiet, [prepared EXCEPT
                 !.presented = Unit * Index(prepared.ring, prepared.outgoing)])
      engaged(u) == [u EXCEPT !.gesture.engaged = TRUE]
  IN IF ~prepared.active THEN engaged(quiet)
     ELSE IF prepared.ring # quiet.gesture.ring THEN GestureCancel(TransitionFinish(begun))
     ELSE engaged(SetRange(begun, s.gesture.mode = "single",
                           s.gesture.center - Unit, s.gesture.center + Unit))

\* leme_input_handle_swipe_update: of the swipe's own device.
SwipeUpdate(kind, delta) ==
  /\ w.session_active /\ w.gesture.active
  /\ LET displaced == w.gesture.displacement + delta
     IN displaced \in -Situation(around).reach..Situation(around).reach
  /\ \/ "stuck_engaged" \in Surprises
     \/ ~w.transition.active \/ w.gesture.engaged
     \/ Eligible(w, w.gesture.start, Ahead(w))
  /\ UNCHANGED <<events, around>>
  /\ w' = IF ~w.here \/ w.locked THEN GestureCancel(w)
          ELSE IF w.gesture.engaged THEN Moved(w, delta)
          ELSE IF kind = "short" THEN w
          ELSE IF kind = "vertical" THEN GestureReset(w)
          ELSE LET engaged == Engaged(w) IN
               IF engaged.gesture.engaged THEN Moved(engaged, delta) ELSE engaged

\* Mutants of the target: a scrub is not held to the pair in view; a
\* cancelled swipe goes to the tag shown.
TargetFliesOn(g, visual, projection, cancelled) ==
  LET forward == projection >= g.initial IN
  CASE cancelled -> IF g.mode = "single" THEN g.center
                    ELSE NearestCopy(g.ring, g.center, visual)
    [] ~cancelled /\ g.mode = "single" -> SwipeTarget(projection, g.center)
    [] OTHER -> ContinuousTarget(projection, forward)

TargetStaysOnCancel(g, visual, projection, cancelled) ==
  LET forward == projection >= g.initial IN
  CASE cancelled -> IF g.mode = "single" THEN g.center ELSE Nearest(visual)
    [] ~cancelled /\ g.mode = "single" -> SwipeTarget(projection, g.center)
    [] ~cancelled /\ g.mode = "scrub" ->
         ContinuousTarget(Higher(Floor(visual), Lower(projection, Ceil(visual))), forward)
    [] OTHER -> ContinuousTarget(projection, forward)

\* Where a released swipe goes: the mode decides.
Target(g, visual, projection, cancelled) ==
  LET forward == projection >= g.initial IN
  CASE cancelled -> IF g.mode = "single" THEN g.center
                    ELSE NearestCopy(g.ring, g.center, visual)
    [] ~cancelled /\ g.mode = "single" -> SwipeTarget(projection, g.center)
    [] ~cancelled /\ g.mode = "scrub" ->
         ContinuousTarget(Higher(Floor(visual), Lower(projection, Ceil(visual))), forward)
    [] OTHER -> ContinuousTarget(projection, forward)

\* Mutant: the tag is picked at the position shown.
ReleasedWhereShown(s, flick, cancelled) ==
  LET g == s.gesture
      visual == Shown(s)
      target == Target(g, visual, g.initial + g.displacement + flick, cancelled)
      bounded == g.mode # "free" /\ (cancelled => g.mode = "single")
      minimum == IF g.mode = "single" THEN g.center - Unit ELSE Floor(visual)
      maximum == IF g.mode = "single" THEN g.center + Unit ELSE Ceil(visual)
      direction == IF target > g.center THEN Forward ELSE Backward
  IN IF s.transition.active /\ ~RangeFits(s.transition, bounded, minimum, maximum)
     THEN GestureCancel(s)
     ELSE LET ranged == IF s.transition.active
                        THEN SetRange(s, bounded, minimum, maximum) ELSE s
              chosen == FocusQuietly(ranged, RingAt(g.ring, Nearest(visual)), direction)
          IN Settle(RefreshFocus(GestureReset(chosen)), visual, target,
                    flick # 0 /\ ~cancelled)

\* leme_input_handle_swipe_end past its refusals
Released(s, flick, cancelled) ==
  LET g == s.gesture
      visual == Shown(s)
      target == Target(g, visual, g.initial + g.displacement + flick, cancelled)
      bounded == g.mode # "free" /\ (cancelled => g.mode = "single")
      minimum == IF g.mode = "single" THEN g.center - Unit ELSE Floor(visual)
      maximum == IF g.mode = "single" THEN g.center + Unit ELSE Ceil(visual)
      direction == IF target > g.center THEN Forward
                   ELSE IF target < g.center THEN Backward
                   ELSE IF visual >= g.center THEN Backward ELSE Forward
  IN IF s.transition.active /\ ~RangeFits(s.transition, bounded, minimum, maximum)
     THEN GestureCancel(s)
     ELSE LET ranged == IF s.transition.active
                        THEN SetRange(s, bounded, minimum, maximum) ELSE s
              chosen == FocusQuietly(ranged, RingAt(g.ring, target), direction)
          IN Settle(RefreshFocus(GestureReset(chosen)), visual, target,
                    flick # 0 /\ ~cancelled)

Handled == w.here /\ ~w.locked /\ w.gesture.engaged

\* leme_input_handle_swipe_end
SwipeEnd(flick, cancelled) ==
  /\ w.session_active /\ w.gesture.active
  /\ UNCHANGED <<events, around>>
  /\ w' = IF Handled THEN Released(w, flick, cancelled) ELSE GestureCancel(w)

-----------------------------------------------------------------------------
(* The animation manager                                                   *)

\* The positions frames of the running animation may show: a spring may
\* overshoot.
FramePositions(tr) ==
  LET extra == IF tr.animation = "spring" THEN Unit \div 2 ELSE 0 IN
  {p \in Lower(tr.from, tr.to) - extra..Higher(tr.from, tr.to) + extra :
     p % Situation(around).frame = 0}

\* leme_animation_manager_tick before the end of the transition's animation
Tick ==
  /\ w.transition.animation # "none"
  /\ UNCHANGED <<events, around>>
  /\ \E p \in FramePositions(w.transition) :
       w' = IF w.transition.animation = "spring" THEN ApplyPosition(w, p)
            ELSE [w EXCEPT !.transition.presented = p, !.transition.pair = FALSE]

\* leme_animation_manager_tick at its end
AnimationEnd ==
  /\ w.transition.animation # "none"
  /\ UNCHANGED <<events, around>>
  /\ w' = TransitionDone(w)

-----------------------------------------------------------------------------
(* Commands                                                                *)

Become(s) ==
  /\ events < Situation(around).events /\ events' = events + 1
  /\ ~Situation(around).quiet /\ UNCHANGED around
  /\ w' = s

\* A window may leave the screen while it opens: runs look at it apart.
Leaves(which) ==
  "opening_moved" \in Surprises \/ \A v \in which : w.opening[v] = "no"

\* leme_tags_focus_id: numbered focus
FocusTag(id) ==
  /\ w.here /\ id # w.tags.focused_id /\ ValidId(w.tags, id)
  /\ Become(RefreshFocus(ChangeFocus(w, FocusId(w.tags, id),
              IF id > w.tags.focused_id THEN Forward ELSE Backward)))

\* leme_tags_step
StepTag(direction) ==
  /\ w.here
  /\ LET tags == Step(w.tags, direction) IN
     tags # w.tags /\ Become(RefreshFocus(ChangeFocus(w, tags, direction)))

\* Mutant: the tag left is not remembered.
FocusLastTagKeepsPrevious ==
  /\ w.here /\ FocusLast(w.tags).focused_id # w.tags.focused_id
  /\ "last_in_swipe" \in Surprises \/ ~w.gesture.engaged
  /\ LET source == w.tags.focused_id
         destination == w.tags.previous_id
         direction == IF w.direction # 0 THEN -w.direction
                      ELSE IF destination > source THEN Forward ELSE Backward
         prepared == Prepare(w, source, destination, direction, FALSE)
         s == Prepared(w)
         tags == [s.tags EXCEPT
                    !.focused_id = s.tags.previous_id,
                    !.focused_is_candidate = PreviousIsCandidate(w.tags),
                    !.previous_is_candidate = s.tags.focused_is_candidate]
     IN Become(RefreshFocus(
          Commit([s EXCEPT !.tags = tags, !.direction = direction], prepared, direction)))

\* leme_tags_focus_last.  The transition is prepared between the reading of
\* the previous tag and the swap, even in the middle of a swipe.
FocusLastTag ==
  /\ w.here /\ FocusLast(w.tags).focused_id # w.tags.focused_id
  /\ "last_in_swipe" \in Surprises \/ ~w.gesture.engaged
  /\ LET source == w.tags.focused_id
         destination == w.tags.previous_id
         direction == IF w.direction # 0 THEN -w.direction
                      ELSE IF destination > source THEN Forward ELSE Backward
         prepared == Prepare(w, source, destination, direction, FALSE)
         s == Prepared(w)
         tags == [s.tags EXCEPT
                    !.focused_id = s.tags.previous_id,
                    !.focused_is_candidate = PreviousIsCandidate(w.tags),
                    !.previous_id = s.tags.focused_id,
                    !.previous_is_candidate = s.tags.focused_is_candidate]
     IN Become(RefreshFocus(
          Commit([s EXCEPT !.tags = tags, !.direction = direction], prepared, direction)))

\* leme_view_map of a window on the focused tag, and leme_render_view_animate
\* for its opening.
Map(v) ==
  /\ w.tag[v] = 0 /\ w.here
  /\ "opening_moved" \in Surprises \/ ~w.gesture.engaged \/ w.transition.active
  /\ LET s == RefreshFocus([w EXCEPT
                !.tag[v] = w.tags.focused_id,
                !.tags = Occupy(@, w.tags.focused_id)])
         animated == /\ ~HidesView(s, v) /\ ~s.locked /\ v \in s.enabled
     IN Become(SyncPresentation(
          IF animated THEN [s EXCEPT !.opening[v] = "pending"] ELSE s, {v}))

\* leme_render_view_start_open once the client acknowledged its size
OpenReady(v) ==
  /\ w.opening[v] = "pending"
  /\ UNCHANGED <<events, around>>
  /\ LET s == SyncPresentation([w EXCEPT !.opening[v] = "no"], {v})
         animated == ~HidesView(s, v) /\ ~s.locked /\ v \notin s.fullscreen
     IN w' = IF animated
             THEN [s EXCEPT !.opening[v] = "fading", !.enabled = @ \ {v}]
             ELSE [s EXCEPT !.enabled = @ \cup {v}]

\* leme_render_view_handle_open_timeout, and leme_render_view_animation_done:
\* both show the window.
OpenEnds(v) ==
  /\ w.opening[v] # "no"
  /\ UNCHANGED <<events, around>>
  /\ w' = SyncPresentation([w EXCEPT !.opening[v] = "no", !.enabled = @ \cup {v}], {v})

\* leme_view_unmap
Unmap(v) ==
  /\ w.tag[v] # 0
  /\ LET id == w.tag[v]
         empty == OnTag(w, id) = {v}
     IN Become(RefreshFocus([w EXCEPT
          !.tag[v] = 0, !.tags = PruneEmpty(@, id, empty), !.opening[v] = "no",
          !.enabled = @ \ {v}, !.masked = @ \ {v}, !.fullscreen = @ \ {v}]))

\* LEME_COMMAND_MOVE_VIEW_TO_TAG of a window on screen
MoveToTag(v, id, follow) ==
  /\ w.here /\ w.tag[v] # 0 /\ w.tag[v] = CurrentTag(w)
  /\ id # w.tag[v] /\ ValidId(w.tags, id) /\ Leaves({v})
  /\ LET empty == OnTag(w, w.tag[v]) = {v}
         tags == PruneEmpty(Materialize(w.tags, id), w.tag[v], empty)
         s == [w EXCEPT !.tag[v] = id, !.tags = tags]
         direction == IF id > tags.focused_id THEN Forward ELSE Backward
     IN Become(RefreshFocus(
          IF follow THEN ChangeFocus(s, FocusId(tags, id), direction) ELSE s))

\* leme_view_set_fullscreen
SetFullscreen(v) ==
  /\ v \in Fullscreens /\ w.tag[v] # 0
  /\ Become(LET s == AnimationsFinish(w) IN
            RefreshFocus([s EXCEPT !.fullscreen = IF v \in @ THEN @ \ {v} ELSE @ \cup {v}]))

-----------------------------------------------------------------------------
(* The rest of the session                                                 *)

\* Mutant: a lock ends the animations and forgets the swipe.
LockForgetsSwipe ==
  /\ ~w.locked
  /\ Become(FinishAll([w EXCEPT !.locked = TRUE]))

\* leme_render_session_set_locked
Lock ==
  /\ ~w.locked
  /\ Become(FinishAll(GestureCancel([w EXCEPT !.locked = TRUE])))

Unlock == w.locked /\ Become(RefreshFocus([w EXCEPT !.locked = FALSE]))

\* leme_render_handle_session_active: a switch to another terminal
LeaveSession ==
  /\ w.session_active
  /\ Become(FinishAll(GestureCancel([w EXCEPT !.session_active = FALSE])))

EnterSession == ~w.session_active /\ Become([w EXCEPT !.session_active = TRUE])

\* The focus moves to another output and back.
FocusOutput == w.power_on /\ Become([w EXCEPT !.here = ~@])

\* leme_output_set_power: another output takes the focus of one switched off.
SwitchPower ==
  Become(IF w.power_on
         THEN [AnimationsFinish(w) EXCEPT !.power_on = FALSE, !.here = FALSE]
         ELSE [w EXCEPT !.power_on = TRUE])

\* leme_input_handle_pointer_destroy, and the device comes back.
Replug(p) ==
  LET s == IF w.gesture.pointer = p THEN GestureCancel(w) ELSE w IN
  Become([s EXCEPT !.settings[p] = s.version])

\* Mutant: the devices are configured under the swipe.
ApplyPointerConfigFirst(s) ==
  GestureCancel([s EXCEPT !.settings = [p \in Pointers |-> s.version]])

\* leme_input_apply_pointer_config
ApplyPointerConfig(s) ==
  [GestureCancel(s) EXCEPT !.settings = [p \in Pointers |-> s.version]]

\* leme_config_apply: leme_tags_commit_set_max, with a focus above the new
\* maximum ended first, and then the pointers.  A slide that runs on may keep a
\* tag above the new maximum on its ring: runs look at it apart.
Reload(maximum) ==
  /\ PrepareSetMax(w.tags, maximum) /\ w.version < MaxReloads
  /\ LET limited == [w EXCEPT
           !.tags.max_tags = maximum,
           !.tags.previous_valid = @ /\ w.tags.previous_id <= maximum]
         above == w.tags.focused_id > maximum
         s == IF above THEN AnimationsFinish(limited) ELSE limited
         first == CHOOSE id \in s.tags.table : \A other \in s.tags.table : id <= other
         resized == IF above
                    THEN [s EXCEPT !.direction = 0, !.tags.focused_id = first,
                                   !.tags.focused_is_candidate = FALSE]
                    ELSE s
         reloaded == RefreshFocus(ApplyPointerConfig([resized EXCEPT !.version = @ + 1]))
     IN /\ "ring_beyond" \in Surprises \/ reloaded.transition.ring \subseteq 1..maximum
        /\ Become(reloaded)

-----------------------------------------------------------------------------
EitherWay(amounts) == amounts \cup {-amount : amount \in amounts}

\* The session starts on tag 1, or has just gone from there to another tag.
Init ==
  \E scenario \in Scenarios : \E maximum \in Situation(scenario).maxima :
    LET situation == Situation(scenario)
        tags == TagsInit(situation.initial, maximum) IN
    \E id \in {1, maximum} : \E tag \in [Views -> 0..1] :
      /\ around = scenario /\ events = 0
      /\ w = [tags |-> FocusId(tags, id), direction |-> IF id = 1 THEN 0 ELSE Forward,
              tag |-> tag, fullscreen |-> {},
              enabled |-> {v \in Views : tag[v] = id},
              masked |-> {}, opening |-> [v \in Views |-> "no"],
              gesture |-> NoGesture, transition |-> NoTransition,
              here |-> TRUE, power_on |-> TRUE, locked |-> FALSE, session_active |-> TRUE,
              settings |-> [p \in Pointers |-> 0], override |-> "none", saved |-> 0,
              mode |-> situation.mode, animated |-> TRUE, version |-> 0]

Next ==
  \/ \E p \in Pointers : SwipeBegin(p) \/ Replug(p)
  \/ SwipeUpdate("short", 0) \/ SwipeUpdate("vertical", 0)
  \/ \E delta \in EitherWay(Situation(around).steps) : SwipeUpdate("horizontal", delta)
  \/ \E flick \in EitherWay(Flicks) : SwipeEnd(flick, FALSE)
  \/ SwipeEnd(0, TRUE)
  \/ Tick \/ AnimationEnd
  \/ \E id \in w.tags.table \cup {w.tags.max_tags} : FocusTag(id)
  \/ \E direction \in Directions : StepTag(direction)
  \/ FocusLastTag
  \/ \E v \in Views : Map(v) \/ OpenReady(v) \/ OpenEnds(v) \/ Unmap(v) \/ SetFullscreen(v)
  \/ \E v \in Views : \E id \in w.tags.table \cup {w.tags.max_tags} :
       \E follow \in BOOLEAN : MoveToTag(v, id, follow)
  \/ Lock \/ Unlock \/ LeaveSession \/ EnterSession \/ FocusOutput \/ SwitchPower
  \/ \E maximum \in Situation(around).maxima : Reload(maximum)

Spec == Init /\ [][Next]_vars

=============================================================================
