----------------------------- MODULE TiledDrags -----------------------------
(***************************************************************************)
(* Windows in layouts while the pointer drags them: what shell/view.c,     *)
(* workspace/tag.c and the commands do to the layout of a tag, and the     *)
(* pointer grabs of input/pointer.c that keep pointers into it.            *)
(*                                                                         *)
(* Tags are pinned and every output has its own; Workspace has the rest of *)
(* their life.  tag->focused_view is left open: a window is inserted next  *)
(* to any other.  The button stays down until Release.                     *)
(*                                                                         *)
(* Three things leave the layout in a state that its own code does not     *)
(* expect.  Surprises says which of them happen:                           *)
(*   failed_crossing   a drop on another output whose commit fails, after  *)
(*                     the window has changed tag;                         *)
(*   relayout_behind   the layout changes to dwindle behind a fullscreen   *)
(*                     tile, which leme_tags_tiled_views passes over.      *)
(* The third, a reload that changes the layout of the tag whose tree an    *)
(* active grab points into, would read freed nodes and is left out.        *)
(***************************************************************************)
EXTENDS Layout

CONSTANTS
  Outputs,
  TagsOf,      \* the tags of every output
  Area,        \* the usable box of every output
  Gap,
  Points,      \* where the cursor goes
  DropMode,    \* simple or edges
  Delta,       \* how far a split moves, in tenths
  Pixels,      \* how far the strips of an accordion do
  Configured,  \* the mfact and collapse_width of every tag in the file
  LayoutKinds, \* the layouts in use
  Surprises,
  Scenarios    \* what else happens in a session, see below

Floats      == "floats"       \* windows float
Fullscreens == "fullscreens"  \* windows cover the screen
Relayouts   == "relayouts"    \* layouts change
Splits      == "splits"       \* splits are moved
Columns     == "columns"      \* the columns of the list layouts are resized
Panels      == "panels"       \* hidden tags are used and shown
Crossings   == "crossings"    \* windows are on two outputs; cross_output_move
                              \* and cross_output_drag are set

ASSUME DragsAssumption ==
  /\ \A g \in Tags : \E o \in Outputs : g \in TagsOf[o]
  /\ Delta \in 1..9 /\ Pixels \in Nat /\ Configured \in Factors /\ LayoutKinds \subseteq Kinds
  /\ Surprises \subseteq {"failed_crossing", "relayout_behind"}

VARIABLES
  wm,     \* the layouts, the windows, the current tags and the grab
  before, \* history: the tree of the tag a tiled move took its window from
  around  \* one of Scenarios

vars == <<wm, before, around>>

OutputOf(g) == CHOOSE o \in Outputs : g \in TagsOf[o]
NoDrag == [horizontal |-> NULL, vertical |-> NULL,
           horizontal_ratio |-> 5, vertical_ratio |-> 5]
NoGrab == [mode |-> "none", view |-> NONE, detach |-> NoDetach, drag |-> NoDrag,
           target |-> NONE, direction |-> "left", destination |-> NONE,
           drop_empty |-> FALSE]
Unmapped == [tag |-> NONE, floating |-> FALSE, fullscreen |-> FALSE, detached |-> FALSE]

TypeOK ==
  /\ wm.forest.root \in [Tags -> Ids \cup {NULL}]
  /\ DOMAIN wm.forest.node \subseteq Ids
  /\ \A i \in DOMAIN wm.forest.node : wm.forest.node[i] \in Node
  /\ wm.kind \in [Tags -> LayoutKinds] /\ wm.factors \in [Tags -> Factors]
  /\ \A g \in Tags : \A k \in DOMAIN wm.order[g] : wm.order[g][k] \in Views
  /\ wm.view \in [Views -> [tag : Tags \cup {NONE}, floating : BOOLEAN,
                           fullscreen : BOOLEAN, detached : BOOLEAN]]
  /\ \A o \in Outputs : wm.current[o] \in TagsOf[o]
  /\ wm.grab.mode \in {"none", "sink", "float_move", "float_resize",
                       "tiled_move", "tiled_resize"}
  /\ wm.grab.view \in Views \cup {NONE} /\ wm.grab.target \in Views \cup {NONE}
  /\ wm.grab.direction \in Directions
  /\ wm.grab.destination \in Outputs \cup {NONE}

Members(s, g) == {v \in Views : s.view[v].tag = g}
OutputOfView(s, v) == OutputOf(s.view[v].tag)
OnScreen(s, v) == \E o \in Outputs : s.view[v].tag = s.current[o]

\* leme_tags_tiled_views: a detached view counts, a fullscreen one does not.
TiledViews(s, g) ==
  SelectSeq(s.order[g], LAMBDA v : ~s.view[v].floating /\ ~s.view[v].fullscreen)

\* leme_tags_arrange_current
TagBoxes(s, g, focused) ==
  Boxes(s.forest, g, s.kind[g], TiledViews(s, g), focused, s.factors[g],
        Area[OutputOf(g)], Gap)

-----------------------------------------------------------------------------
(* The layout of a tag.                                                    *)

\* leme_layout_add_view
AddToLayout(s, g, focused, v) ==
  IF s.kind[g] = Dwindle THEN [s EXCEPT !.forest = Insert(@, g, focused, v)] ELSE s

\* leme_layout_remove_view
RemoveFromLayout(s, g, v) ==
  IF s.kind[g] = Dwindle THEN [s EXCEPT !.forest = Remove(@, g, v)] ELSE s

Without(seq, v) == SelectSeq(seq, LAMBDA w : w # v)

\* leme_tags_assign_view_to
Assign(s, g, focused, v, floating) ==
  LET t == [s EXCEPT !.order[g] = <<v>> \o @,
                     !.view[v] = [Unmapped EXCEPT !.tag = g, !.floating = floating]]
  IN IF floating THEN t ELSE AddToLayout(t, g, focused, v)

\* leme_tags_remove_view and leme_tags_commit_detach
Leave(s, v) ==
  LET g == s.view[v].tag
      t == IF s.view[v].floating THEN s ELSE RemoveFromLayout(s, g, v)
  IN [t EXCEPT !.order[g] = Without(@, v), !.view[v] = Unmapped]

\* leme_tags_adopt_view and leme_tags_move_view
Adopt(s, v, g, focused) ==
  LET source == s.view[v].tag
      tiled == ~s.view[v].floating /\ ~s.view[v].detached
      t == IF tiled THEN RemoveFromLayout(s, source, v) ELSE s
      u == [t EXCEPT !.order = [@ EXCEPT ![source] = Without(@, v),
                                         ![g] = <<v>> \o Without(@, v)],
                     !.view[v].tag = g]
  IN IF source = g THEN s ELSE IF tiled THEN AddToLayout(u, g, focused, v) ELSE u

\* leme_tags_set_layout
Relayout(s, g, kind) ==
  IF s.kind[g] = kind THEN s
  ELSE [s EXCEPT !.forest = SetKind(@, g, kind, TiledViews(s, g)), !.kind[g] = kind]

-----------------------------------------------------------------------------
(* The tiled drag and the grab.                                            *)

\* Mutant: a drag that is taken back leaves its window floating.
RestoreFloats(s) ==
  LET v == s.grab.view
      d == s.grab.detach
      t == [s EXCEPT !.view[v].detached = FALSE, !.grab.detach = NoDetach]
  IN IF d = NoDetach THEN t
     ELSE [t EXCEPT !.forest = Discard(@, d), !.view[v].floating = TRUE]

\* leme_view_restore_tiled_drag
RestoreDrag(s) ==
  LET v == s.grab.view
      g == s.view[v].tag
      d == s.grab.detach
      t == [s EXCEPT !.view[v].detached = FALSE, !.grab.detach = NoDetach]
  IN IF d = NoDetach THEN t
     ELSE IF CanRestore(s.forest, g, d) THEN [t EXCEPT !.forest = Restore(@, g, d)]
     ELSE [t EXCEPT !.forest = Discard(@, d), !.view[v].floating = TRUE]

\* What leme_view_commit_tiled_drag and leme_layout_insert_detached require.
CanCommit(s, target) ==
  LET g == s.view[s.grab.view].tag
  IN /\ target # NONE /\ s.view[target].tag = g
     /\ ~s.view[target].floating /\ ~s.view[target].detached /\ ~s.view[target].fullscreen
     /\ Find(s.forest, g, target) # NULL

\* leme_view_commit_tiled_drag
CommitDrag(s, target, direction) ==
  LET v == s.grab.view
      g == s.view[v].tag
  IN [s EXCEPT !.forest = InsertDetached(@, g, s.grab.detach, target, direction),
               !.view[v].detached = FALSE, !.grab.detach = NoDetach]

\* leme_input_pointer_grab_sink
Sink(s) == [s EXCEPT !.grab = [NoGrab EXCEPT !.mode = "sink"]]

TiledMode(s) == s.grab.mode \in {"tiled_move", "tiled_resize"}

\* leme_input_pointer_grab_cancel
Cancel(s) ==
  IF s.grab.mode = "none" THEN s
  ELSE IF s.grab.mode = "tiled_move" THEN Sink(RestoreDrag(s)) ELSE Sink(s)

\* leme_input_pointer_grab_cancel_tiled
CancelTiled(s) == IF TiledMode(s) THEN Cancel(s) ELSE s

\* Mutant: a resize goes on when another tile of the tag leaves.
CancelMoves(s, v) ==
  IF s.grab.mode = "tiled_move" /\ s.grab.view = v
  THEN Sink([s EXCEPT !.forest = Discard(@, s.grab.detach), !.view[v].detached = FALSE])
  ELSE IF \/ s.grab.view = v
          \/ /\ s.grab.mode = "tiled_move" /\ ~s.view[v].floating
             /\ s.view[v].tag = s.view[s.grab.view].tag
       THEN Cancel(s)
  ELSE s

\* leme_input_pointer_grab_cancel_view
CancelView(s, v) ==
  IF s.grab.mode = "tiled_move" /\ s.grab.view = v
  THEN Sink([s EXCEPT !.forest = Discard(@, s.grab.detach), !.view[v].detached = FALSE])
  ELSE IF \/ s.grab.view = v
          \/ /\ TiledMode(s) /\ ~s.view[v].floating
             /\ s.view[v].tag = s.view[s.grab.view].tag
       THEN Cancel(s)
  ELSE s

\* wlr_seat_pointer_end_grab and leme_input_pointer_grab_cleanup
EndGrab(s) ==
  [(IF s.grab.detach = NoDetach THEN s ELSE RestoreDrag(s)) EXCEPT !.grab = NoGrab]

-----------------------------------------------------------------------------
(* Windows and commands.                                                   *)

NearOf(s, g) == Members(s, g) \cup {NONE}
\* The focused view changes the boxes of an accordion only.
Expanded(s, g) == IF s.kind[g] = "accordion" THEN NearOf(s, g) ELSE {NONE}
NoBefore == [tag |-> NONE, shape |-> <<>>]

\* Without a grab no pointer to a node is kept outside the trees.
Settle(s) ==
  /\ wm' = IF TiledMode(s) THEN s ELSE [s EXCEPT !.forest = Renumber(@)]
  /\ before' = IF s.grab.mode = "tiled_move" THEN before ELSE NoBefore
  /\ UNCHANGED around

\* leme_view_map
Map(v, g, floating) ==
  /\ wm.view[v].tag = NONE
  /\ LET s == IF floating THEN wm ELSE CancelTiled(wm)
     IN \E near \in NearOf(s, g) : Settle(Assign(s, g, near, v, floating))

\* leme_view_unmap, leme_scratchpad_send and leme_sticky_enter
Unmap(v) ==
  /\ wm.view[v].tag # NONE
  /\ Settle(Leave(CancelView(wm, v), v))

\* leme_view_set_floating
SetFloating(v, floating) ==
  /\ wm.view[v].tag # NONE /\ wm.view[v].floating # floating /\ ~wm.view[v].fullscreen
  /\ LET g == wm.view[v].tag
         s == CancelTiled(wm)
     IN IF floating
        THEN Settle([RemoveFromLayout(s, g, v) EXCEPT !.view[v].floating = TRUE])
        ELSE \E near \in NearOf(s, g) :
               Settle(AddToLayout([CancelView(s, v) EXCEPT !.view[v].floating = FALSE],
                                  g, near, v))

\* Mutant: a grab outlives the windowed state of its window.
FullscreenKeepsGrab(v, fullscreen) ==
  /\ wm.view[v].tag # NONE /\ wm.view[v].fullscreen # fullscreen
  /\ Settle([CancelTiled(wm) EXCEPT !.view[v].fullscreen = fullscreen])

\* leme_view_set_fullscreen of a view of a tag
SetFullscreen(v, fullscreen) ==
  /\ wm.view[v].tag # NONE /\ wm.view[v].fullscreen # fullscreen
  /\ LET s == CancelTiled(wm)
         t == IF fullscreen THEN CancelView(s, v) ELSE s
     IN Settle([t EXCEPT !.view[v].fullscreen = fullscreen])

Candidates(s, g, focused) ==
  LET tiles == SelectSeq(TiledViews(s, g), LAMBDA v : ~s.view[v].detached)
  IN [k \in DOMAIN tiles |->
        [view |-> tiles[k], box |-> TagBoxes(s, g, focused)[tiles[k]]]]
Covered(s, g) == \E v \in Members(s, g) : s.view[v].fullscreen

\* leme_tags_directional_view, of tiled views only
Neighbor(s, v, direction, focused) ==
  LET g == s.view[v].tag
  IN IF Covered(s, g) THEN {} ELSE Towards(Candidates(s, g, focused), v, direction)

\* leme_tags_swap_list_order
SwapOrder(seq, v, w) ==
  [k \in DOMAIN seq |-> IF seq[k] = v THEN w ELSE IF seq[k] = w THEN v ELSE seq[k]]

\* leme_tags_swap_directional
SwapWith(s, v, w) ==
  LET g == s.view[v].tag
  IN IF s.kind[g] = Dwindle THEN [s EXCEPT !.forest = Swap(@, g, v, w)]
     ELSE [s EXCEPT !.order[g] = SwapOrder(@, v, w)]

\* leme_view_move_direction of a tiled view
MoveDirection(v, direction) ==
  /\ wm.view[v].tag # NONE /\ OnScreen(wm, v)
  /\ ~wm.view[v].floating /\ ~wm.view[v].fullscreen
  /\ LET s == CancelTiled(wm)
         g == s.view[v].tag
     IN \E focused \in Expanded(s, g) :
          LET neighbor == Neighbor(s, v, direction, focused)
          IN \/ \E w \in neighbor : Settle(SwapWith(s, v, w))
             \/ /\ neighbor = {} /\ Crossings \in around
                /\ \E o \in Outputs \ {OutputOf(g)} : \E near \in NearOf(s, s.current[o]) :
                     Settle(Adopt(s, v, s.current[o], near))

\* leme_view_resize of a tiled view
Resize(v, edge) ==
  /\ wm.view[v].tag # NONE /\ ~wm.view[v].floating /\ ~wm.view[v].fullscreen
  /\ LET s == CancelTiled(wm)
         g == s.view[v].tag
         i == Edge(s.forest, g, v, edge)
     IN Settle(IF s.kind[g] # Dwindle
               THEN [s EXCEPT !.factors[g] = ResizeList(s.kind[g], @, edge, Delta, Pixels)]
               ELSE IF i = NULL THEN s
               ELSE [s EXCEPT !.forest = ResizeFocused(@, i, edge, Delta)])

Quiet(s, g, kind) ==
  \/ "relayout_behind" \in Surprises
  \/ kind # Dwindle \/ s.kind[g] = kind
  \/ \A v \in Members(s, g) : s.view[v].fullscreen => s.view[v].floating

\* The commands set_layout and switch_layout.
SetLayout(o, kind) ==
  /\ Quiet(wm, wm.current[o], kind)
  /\ Settle(Relayout(CancelTiled(wm), wm.current[o], kind))

\* A reload of the configuration that changes the settings of a tag, by
\* leme_tags_apply_settings; grabs go on.
Reload(g, kind) ==
  /\ Quiet(wm, g, kind)
  /\ TiledMode(wm) => wm.view[wm.grab.view].tag # g \/ wm.kind[g] = kind
  /\ Settle([Relayout(wm, g, kind) EXCEPT !.factors[g] = Configured])

\* The commands move_view_to_tag and move_view_to_output.
MoveToTag(v, g) ==
  /\ wm.view[v].tag \notin {NONE, g}
  /\ LET s == CancelTiled(wm)
     IN \E near \in NearOf(s, g) : Settle(Adopt(s, v, g, near))

\* The commands that change the current tag.
ShowTag(o, g) ==
  /\ g # wm.current[o]
  /\ Settle([CancelTiled(wm) EXCEPT !.current[o] = g])

\* A panel activates a tag or a window; the grab goes on.
Activate(o, g) ==
  /\ g # wm.current[o]
  /\ Settle([wm EXCEPT !.current[o] = g])

-----------------------------------------------------------------------------
(* The pointer.                                                            *)

Shape(f, g) ==
  LET shape[i \in Ids] ==
        LET n == f.node[i]
        IN IF IsLeaf(n) THEN <<n.view>>
           ELSE <<n.split, n.ratio, shape[n.first], shape[n.second]>>
  IN IF f.root[g] = NULL THEN <<>> ELSE shape[f.root[g]]

MayGrab(v) ==
  /\ wm.grab.mode = "none"
  /\ wm.view[v].tag # NONE /\ OnScreen(wm, v)
  /\ ~wm.view[v].detached /\ ~wm.view[v].fullscreen

\* leme_input_pointer_grab_start of a floating view
GrabFloating(v, mode) ==
  /\ MayGrab(v) /\ wm.view[v].floating
  /\ Settle([wm EXCEPT !.grab = [NoGrab EXCEPT !.mode = mode, !.view = v,
                                             !.destination = OutputOfView(wm, v)]])

\* leme_input_pointer_grab_start of a tile, and leme_view_begin_tiled_drag
GrabMove(v) ==
  LET g == wm.view[v].tag
      d == DetachRecord(wm.forest, g, v)
  IN /\ MayGrab(v) /\ ~wm.view[v].floating /\ wm.kind[g] = Dwindle
     /\ d # NoDetach
     /\ wm' = [wm EXCEPT !.forest = Detach(@, g, v), !.view[v].detached = TRUE,
                         !.grab = [NoGrab EXCEPT !.mode = "tiled_move", !.view = v,
                                                 !.detach = d,
                                                 !.destination = OutputOf(g)]]
     /\ before' = [tag |-> g, shape |-> Shape(wm.forest, g)]
     /\ UNCHANGED around

\* leme_input_pointer_grab_start and leme_layout_resize_drag_begin
GrabResize(v, h, u) ==
  LET g == wm.view[v].tag
      f == wm.forest
      horizontal == Edge(f, g, v, h)
      vertical == Edge(f, g, v, u)
      RatioAt(i) == IF i = NULL THEN 5 ELSE f.node[i].ratio
  IN /\ MayGrab(v) /\ ~wm.view[v].floating /\ wm.kind[g] = Dwindle
     /\ {horizontal, vertical} # {NULL}
     /\ Settle([wm EXCEPT !.grab =
                 [NoGrab EXCEPT !.mode = "tiled_resize", !.view = v,
                                !.drag = [horizontal |-> horizontal, vertical |-> vertical,
                                          horizontal_ratio |-> RatioAt(horizontal),
                                          vertical_ratio |-> RatioAt(vertical)],
                                !.destination = OutputOf(g)]])

\* leme_input_pointer_grab_motion while a split is dragged
DragSplit(dx, dy) ==
  /\ wm.grab.mode = "tiled_resize"
  /\ Settle([wm EXCEPT !.forest = DragSplits(@, wm.grab.drag, dx, dy)])

\* leme_input_pointer_grab_update_destination
Destination(s, p) ==
  IF Crossings \in around THEN CHOOSE o \in Outputs : Contains(Area[o], p[1], p[2])
  ELSE OutputOfView(s, s.grab.view)

\* leme_tags_pointer_drop_target, leme_layout_drop_at and the rest of
\* leme_input_pointer_grab_motion of a tile
DropTarget(s, p) ==
  LET o == Destination(s, p)
      g == s.current[o]
  IN {LET candidates == Candidates(s, g, focused)
          target == IF Covered(s, g) \/ candidates = <<>> THEN NONE
                    ELSE NearestCandidate(candidates, p[1], p[2])
      IN [s EXCEPT !.grab.destination = o, !.grab.target = target,
                   !.grab.drop_empty = target = NONE /\ o # OutputOfView(s, s.grab.view),
                   !.grab.direction =
                      IF target = NONE THEN @
                      ELSE DropAt(DropMode, TagBoxes(s, g, focused)[target], p[1], p[2])]
      : focused \in Expanded(s, g)}

\* leme_view_apply_interactive_box
CanFollow(s, v) == (s.view[v].floating \/ s.view[v].detached) /\ ~s.view[v].fullscreen

\* leme_input_pointer_grab_motion while a window is dragged
DragWindow(p) ==
  /\ wm.grab.mode \in {"float_move", "tiled_move"}
  /\ \E s \in IF ~CanFollow(wm, wm.grab.view) THEN {Cancel(wm)}
              ELSE IF wm.grab.mode = "tiled_move" THEN DropTarget(wm, p)
              ELSE {[wm EXCEPT !.grab.destination = Destination(wm, p)]} :
       Settle(s)

\* leme_view_drop_to_output, and leme_view_restore_tiled_drag when it fails.
DropToOutput(s) ==
  LET v == s.grab.view
      g == s.current[s.grab.destination]
      t == Adopt(s, v, g, NONE)
  IN IF s.view[v].floating THEN t
     ELSE IF s.grab.target = NONE
          THEN AddToLayout([t EXCEPT !.forest = Discard(@, s.grab.detach),
                                     !.view[v].detached = FALSE,
                                     !.grab.detach = NoDetach], g, NONE, v)
     ELSE IF CanCommit(t, s.grab.target)
          THEN CommitDrag(t, s.grab.target, s.grab.direction)
     ELSE RestoreDrag(t)

Crossing(s) ==
  s.grab.view # NONE /\ s.grab.destination # OutputOfView(s, s.grab.view)
FailsToCross(s) ==
  /\ Crossing(s) /\ s.grab.mode = "tiled_move" /\ s.grab.target # NONE
  /\ ~CanCommit(Adopt(s, s.grab.view, s.current[s.grab.destination], NONE), s.grab.target)

\* leme_input_pointer_grab_button, when the button goes up
Release ==
  /\ wm.grab.mode # "none"
  /\ FailsToCross(wm) => "failed_crossing" \in Surprises
  /\ Settle(EndGrab(
       IF wm.grab.mode = "tiled_move"
       THEN IF Crossing(wm) /\ (wm.grab.target # NONE \/ wm.grab.drop_empty)
            THEN DropToOutput(wm)
            ELSE IF CanCommit(wm, wm.grab.target)
            THEN CommitDrag(wm, wm.grab.target, wm.grab.direction)
            ELSE RestoreDrag(wm)
       ELSE IF Crossing(wm) /\ wm.grab.mode = "float_move" THEN DropToOutput(wm)
       ELSE wm))

\* leme_input_pointer_grab_cancel: an output leaves or a client drags data.
CancelGrab == wm.grab.mode \notin {"none", "sink"} /\ Settle(Cancel(wm))

\* leme_input_pointer_grab_finish: the session locks or the terminal changes.
FinishGrab == wm.grab.mode # "none" /\ Settle(EndGrab(wm))

-----------------------------------------------------------------------------
Init ==
  /\ around \in Scenarios
  /\ \E c \in [Outputs -> Tags] :
       /\ \A o \in Outputs : c[o] \in TagsOf[o] /\ \A g \in TagsOf[o] : c[o] <= g
       /\ wm = [forest |-> Empty, kind |-> [g \in Tags |-> Dwindle],
                factors |-> [g \in Tags |-> Configured],
                order |-> [g \in Tags |-> <<>>], view |-> [v \in Views |-> Unmapped],
                current |-> c, grab |-> NoGrab]
  /\ before = NoBefore

\* The tags that windows are on: of the first output, unless Crossings, and the
\* current ones, unless Panels.
Used ==
  {g \in Tags :
     /\ Panels \in around \/ g \in {wm.current[o] : o \in Outputs}
     /\ Crossings \in around \/ \A h \in Tags : h < g => OutputOf(h) = OutputOf(g)}

Resizable(v) ==
  wm.view[v].tag # NONE /\
    IF wm.kind[wm.view[v].tag] = Dwindle THEN Splits \in around ELSE Columns \in around

Next ==
  \/ \E v \in Views :
       \/ \E g \in Used :
            \/ MoveToTag(v, g)
            \/ \E floating \in BOOLEAN : (floating => Floats \in around) /\ Map(v, g, floating)
       \/ Unmap(v) \/ GrabMove(v)
       \/ Floats \in around /\ \E b \in BOOLEAN : SetFloating(v, b)
       \/ Fullscreens \in around /\ \E b \in BOOLEAN : SetFullscreen(v, b)
       \/ \E d \in Directions : MoveDirection(v, d)
       \/ \E d \in Directions : Resizable(v) /\ Resize(v, d)
       \/ \E mode \in {"float_move", "float_resize"} : GrabFloating(v, mode)
       \/ \E h \in {"left", "right"}, u \in {"up", "down"} :
            Splits \in around /\ GrabResize(v, h, u)
  \/ Relayouts \in around /\ \E kind \in LayoutKinds :
       \/ \E o \in Outputs : SetLayout(o, kind)
       \/ \E g \in Used : Reload(g, kind)
  \/ Panels \in around /\ \E o \in Outputs : \E g \in TagsOf[o] :
       ShowTag(o, g) \/ Activate(o, g)
  \/ \E p \in Points : DragWindow(p)
  \/ \E dx, dy \in {-Delta, Delta} : DragSplit(dx, dy)
  \/ Release \/ CancelGrab \/ FinishGrab

Spec == Init /\ [][Next]_vars

=============================================================================
