--------------------------- MODULE SeatProperties ---------------------------
(***************************************************************************)
(* What is stated of Seat.                                                 *)
(***************************************************************************)
EXTENDS Seat

\* While the session is locked (leme_session_handle_new_lock) the keyboard and
\* the pointer are on nothing or on a lock surface that was configured, whatever
\* windows, layers, outputs and the lock client do.
LockHoldsInput ==
  session.locked =>
    {seat.keyboard, seat.pointer} \subseteq
      {NONE} \cup {LockSurface(o) : o \in {p \in Outputs : lockSurface[p] = "configured"}}

\* In an unlocked session the surface that gets the keys is the one that
\* server->focused_layer, or else server->focused_view, names, and only that view
\* is drawn as active; a locked session draws no view as active.
KeyboardAgrees ==
  /\ ~session.locked =>
       seat.keyboard = IF seat.focused_layer # NONE THEN seat.focused_layer
                       ELSE seat.focused_view
  /\ seat.activated = IF session.locked THEN {} ELSE {seat.focused_view} \ {NONE}

\* In an unlocked session server->focused_layer is NULL or a layer that is mapped
\* on an enabled output and wants the keyboard: leme_layer_restore_keyboard_focus
\* ran whenever it stopped being one, also if that was while it was locked.
FocusedLayerSound ==
  ~session.locked /\ seat.focused_layer # NONE =>
    /\ layer[seat.focused_layer].mapped
    /\ layer[seat.focused_layer].output \in enabled
    /\ layer[seat.focused_layer].keyboard # "none"

\* The shortcut inhibitor that is active is the one of the surface that has the
\* keyboard, after every path that moves it
\* (leme_input_protocols_update_keyboard_focus).
InhibitorAgrees ==
  seat.active_inhibitor = IF seat.keyboard \in inhibitors THEN seat.keyboard ELSE NONE

\* A pointer constraint is active only while its surface has the pointer
\* (leme_input_protocols_update_pointer_focus).
ConstraintAgrees ==
  seat.active_constraint # NONE =>
    seat.active_constraint = seat.pointer /\ seat.active_constraint \in constraints

\* A locked session is in the mode common, so that its switch_vt and quit
\* bindings are the ones that work (leme_session_handle_new_lock).
LockedInCommonMode == session.locked => seat.mode = Common

\* The release of a key goes to a client exactly when its press did, whatever
\* changed in between (keyboard->handled).
ReleasesMatchPresses ==
  \A k \in Tracked : down[k] # "up" => (Swallowed(seat, k) <=> down[k] = "binding")

\* An exclusive layer loses the keyboard only to another layer, to a lock, or
\* because it gave it up or its output went (leme_view_focus,
\* leme_layer_release_for_view).
Holds(l) == ~session.locked /\ seat.focused_layer = l /\ LayerOn(World, l)
            /\ layer[l].keyboard = "exclusive"

ExclusiveLayersKeepKeyboard ==
  [][\A l \in Layers :
       Holds(l) /\ layer'[l] = layer[l] /\ layer[l].output \in enabled' =>
         session'.locked \/ seat'.focused_layer \in Layers]_vars

\* A lock client that answers what it is asked gets the keyboard, also after the
\* output of the lock surface that had it went: leme_session_output_changed asks
\* the surfaces that stay to draw again.
LockClientGetsKeyboard ==
  \A o \in Outputs :
    session.held /\ o \in enabled /\ lockSurface[o] # "none" ~>
      \/ seat.keyboard \in {LockSurface(p) : p \in Outputs}
      \/ ~session.held \/ lockSurface[o] = "none" \/ o \notin enabled

\* Input under the lock: it reaches lock surfaces only, and the bindings that
\* work are those of the mode common (protocols/session.c).
LockSound == LockHoldsInput /\ LockedInCommonMode

\* What the session believes about the keyboard and the pointer is what the
\* seat does: the focused layer or view, the shortcut inhibitor and the pointer
\* constraint (leme_layer_restore_keyboard_focus, protocols/input.c).
FocusSound ==
  TypeOK /\ KeyboardAgrees /\ FocusedLayerSound /\ InhibitorAgrees /\ ConstraintAgrees

=============================================================================
