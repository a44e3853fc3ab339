-------------------------- MODULE SwipesProperties --------------------------
(***************************************************************************)
(* What the swipes, transitions and animations of Swipes promise.          *)
(***************************************************************************)
EXTENDS Swipes

\* The state is of the types the C structures hold.
TypeOK ==
  LET situation == Situation(around)
      limit == CHOOSE m \in situation.maxima : \A other \in situation.maxima : other <= m
      ids == 1..limit
      pointers == Pointers \cup {"none"}
  IN /\ w.tags \in TagsType(limit) /\ w.tag \in [Views -> 0..limit]
     /\ w.enabled \subseteq Views /\ w.masked \subseteq Views
     /\ w.fullscreen \subseteq Fullscreens
     /\ w.opening \in [Views -> {"no", "pending", "fading"}]
     /\ w.gesture.pointer \in pointers /\ w.gesture.ring \subseteq ids
     /\ w.gesture.displacement \in -situation.reach..situation.reach
     /\ w.transition.ring \subseteq ids
     /\ w.transition.animation \in {"none", "slide", "spring"}
     /\ w.override \in pointers
     /\ w.settings \in [Pointers -> {Overridden} \cup 0..MaxReloads]
     /\ events \in 0..situation.events

\* No swipe is followed on a locked screen, an output switched off or another
\* terminal: everything that takes the screen away cancels it first, and a
\* swipe that is engaged is an active one.
SwipesOnScreen ==
  /\ w.gesture.active => ~w.locked /\ w.power_on /\ w.session_active
  /\ w.gesture.engaged => w.gesture.active

\* A transition always has exactly one owner that will end it: an animation
\* of the manager or the engaged swipe.  One without would mask its windows
\* for ever, one with two would be freed twice.
TransitionOwned ==
  w.transition.active =>
    ((w.transition.animation # "none") # (w.gesture.active /\ w.gesture.engaged))

\* Both tags of the pair on screen have their snapshot in the cache of four,
\* once each: capturing one never evicts the other.
PairCached ==
  LET cache == w.transition.cache IN
  w.transition.active =>
    /\ {w.transition.outgoing, w.transition.incoming} \subseteq ToSet(cache)
    /\ Len(cache) <= CacheSize /\ Cardinality(ToSet(cache)) = Len(cache)

\* A window is transparent exactly while a snapshot stands in for it: every
\* step that changes the pair, the focus or the end of a transition also
\* synchronises the windows, so none stays invisible.
MasksAgree == w.masked = {v \in Mapped(w) : PresentationHidden(w, v)}

\* A window of a tag out of focus stays off the screen, also when its opening
\* animation, started while the tag was in focus, ends.
HiddenTagsHidden == \A v \in w.enabled : w.tag[v] = CurrentTag(w)

\* A device is made flat for the swipe it makes and only for that: at any
\* other time it has the settings of the current configuration, also when it
\* was configured during the swipe.
AccelRestored ==
  /\ w.override # "none" => w.gesture.active /\ w.gesture.pointer = w.override
  /\ \A p \in Pointers :
       w.settings[p] = IF w.override = p THEN Overridden ELSE w.version

\* The spring of a released swipe comes to rest on the tag that has the focus.
SettlesOnFocus ==
  w.transition.animation = "spring" =>
    RingAt(w.transition.ring, w.transition.to) = w.tags.focused_id

\* A release chooses within what its mode documents, whatever the flick and
\* whatever was taken over: single the starting tag or a neighbour, scrub one
\* of the two tags in view, and a scrub lifted exactly on a tag keeps it.
ReleaseSound(flick) ==
  (w.gesture.mode # "free" /\ Handled /\ SwipeEnd(flick, FALSE)) =>
    LET g == w.gesture
        near == {RingAt(g.ring, g.center + step) : step \in {-Unit, 0, Unit}}
        visual == Shown(w)
        view == {RingAt(g.ring, Floor(visual)), RingAt(g.ring, Ceil(visual))}
    IN /\ g.mode = "single" => w'.tags.focused_id \in near
       /\ g.mode = "scrub" => w'.tags.focused_id \in view
       /\ g.mode = "scrub" /\ w.transition.active =>
            w'.tags.focused_id \in {w.transition.outgoing, w.transition.incoming}

ReleasesInReach == \A flick \in EitherWay(Flicks) : ReleaseSound(flick)

\* A swipe the device cancels returns to the tag it started from, however far
\* it had gone and whatever was selected in the meantime.
CancelReturns ==
  (Handled /\ SwipeEnd(0, TRUE)) => w'.tags.focused_id = w.gesture.start

\* focus_last_tag swaps the current and the previous tag.
LastSwaps ==
  FocusLastTag => /\ w'.tags.focused_id = w.tags.previous_id
                  /\ w'.tags.previous_id = w.tags.focused_id

\* The transition and what drives it agree: one owner, the pair on screen in the
\* cache, a swipe only where it can be seen, and a spring that ends on the focused
\* tag (render/workspace_transition.c, input/pointer.c).
TransitionSound ==
  TypeOK /\ SwipesOnScreen /\ TransitionOwned /\ PairCached /\ SettlesOnFocus

\* The windows on the screen are those of the focused tag, and of them a window is
\* invisible only while a snapshot stands in for it (render/view.c).
WindowsSound == MasksAgree /\ HiddenTagsHidden

\* Both ends of a swipe leave no swipe behind, and a way back moves the focus.
Ends == w.gesture.active /\ ~w'.gesture.active
Moves == w'.tags # w.tags

\* Every way to end a swipe, and the way back, lead to the tag they promise
\* (leme_input_handle_swipe_end, leme_tags_focus_last).
SwitchesLand == [][(Ends => ReleasesInReach /\ CancelReturns) /\ (Moves => LastSwaps)]_vars

=============================================================================
