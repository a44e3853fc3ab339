-------------------------------- MODULE Seat --------------------------------
(***************************************************************************)
(* Who has the keyboard and the pointer: windows, layer surfaces           *)
(* (shell/layer.c), the session lock (protocols/session.c), shortcut       *)
(* inhibitors and pointer constraints (protocols/input.c) and key bindings *)
(* (input/keyboard.c).                                                     *)
(*                                                                         *)
(* All windows are on the current tag of their output; Workspace has the   *)
(* tags.  A keyboard is plugged in and an output stays plugged.  What is   *)
(* under the cursor, the order of lists and the priority of layers are     *)
(* left open: an operator gives the set of what may come out.              *)
(***************************************************************************)
EXTENDS Naturals, FiniteSets

CONSTANTS
  NONE,
  Outputs,
  Views,
  Layers,
  Keys,        \* key codes
  Tracked,     \* those below 256, the size of keyboard->handled
  Escape,      \* the key that leaves a mode
  Bindings,    \* for every mode, the commands its keys are bound to
  EscapeExits, \* the modes that Escape leaves: mode->escape_exits
  Scenarios    \* which layers appear and what else happens, see below

Locks == "lock"          \* a client locks the session
Power == "power"         \* outputs are disabled and enabled
Hotplug == "hotplug"     \* outputs are unplugged and plugged
Inhibitors == "inhibit"  \* clients inhibit shortcuts
Constraints == "constrain"  \* clients constrain the pointer
KeyPresses == "keys"     \* keys are pressed and released

Modes == DOMAIN Bindings
Common == "common"
Reserved == "reserved"   \* switch_vt and quit
Command == "command"     \* any command that leaves the seat alone

LockSurface(o) == <<"lock", o>>
Surfaces == Views \cup Layers \cup {LockSurface(o) : o \in Outputs}
Interactivity == {"none", "on_demand", "exclusive"}
NoLayer == [output |-> NONE, mapped |-> FALSE, keyboard |-> "none"]

ASSUME SeatAssumption ==
  /\ NONE \notin Outputs \cup Surfaces
  /\ Views \cap Layers = {}  \* a surface has one role
  /\ \A o \in Outputs : LockSurface(o) \notin Views \cup Layers
  /\ Common \in Modes /\ EscapeExits \subseteq Modes
  /\ Tracked \subseteq Keys
  /\ Reserved \notin Modes    \* a command is told from the name of a mode
  /\ \A m \in Modes : Bindings[m] \in [Keys -> {NONE, Reserved, Command} \cup Modes]

VARIABLES
  plugged,      \* server->outputs
  enabled,      \* wlr_output->enabled
  home,         \* the output of a mapped view, NONE for the others
  layer,        \* server->layer_surfaces
  session,      \* locked, lock # NULL, abandoned
  lockSurface,  \* for every output: none, created or configured
  unanswered,   \* the outputs whose lock surface has a configure to answer
  inhibitors,   \* the surfaces with a shortcut inhibitor
  constraints,  \* the views with a pointer constraint
  seat,         \* what the handlers below derive, see Seat
  down,         \* for every key: up, or who took its press
  around        \* what happens in this session, one of Scenarios

world == <<plugged, enabled, home, layer, session, lockSurface, unanswered,
           inhibitors, constraints>>
vars == <<world, seat, down, around>>

TypeOK ==
  /\ plugged \subseteq Outputs /\ enabled \subseteq plugged
  /\ home \in [Views -> plugged \cup {NONE}]
  /\ layer \in [Layers -> [output : Outputs \cup {NONE}, mapped : BOOLEAN,
                           keyboard : Interactivity]]
  /\ session \in [locked : BOOLEAN, held : BOOLEAN, abandoned : BOOLEAN]
  /\ lockSurface \in [Outputs -> {"none", "created", "configured"}]
  /\ unanswered \subseteq {o \in Outputs : lockSurface[o] # "none"}
  /\ inhibitors \subseteq Surfaces /\ constraints \subseteq Views
  /\ seat \in [focused_output : plugged \cup {NONE},
               focused_layer : Layers \cup {NONE},
               focused_view : Views \cup {NONE},
               activated : SUBSET Views,
               keyboard : Surfaces \cup {NONE},
               pointer : Surfaces \cup {NONE},
               active_inhibitor : Surfaces \cup {NONE},
               active_constraint : Views \cup {NONE},
               mode : Modes,
               handled : SUBSET Keys]
  /\ down \in [Keys -> {"up", "client", "binding"}]
  /\ around \in Scenarios

-----------------------------------------------------------------------------
(* World is what the handlers read; they map a seat to the seats that may  *)
(* come out.                                                               *)

World == [plugged |-> plugged, enabled |-> enabled, home |-> home,
          layer |-> layer, locked |-> session.locked, lockSurface |-> lockSurface,
          inhibitors |-> inhibitors, constraints |-> constraints]

\* leme_input_set_mode
SetMode(s, m) == [s EXCEPT !.mode = IF m \in Modes THEN m ELSE @]

\* leme_input_protocols_update_keyboard_focus
UpdateKeyboard(w, s) ==
  LET target == IF s.keyboard \in w.inhibitors THEN s.keyboard ELSE NONE
  IN IF target = s.active_inhibitor THEN s
     ELSE [(IF target = NONE THEN s ELSE SetMode(s, Common))
             EXCEPT !.active_inhibitor = target]

\* wlr_seat_keyboard_notify_enter or _clear_focus, and what follows it.
Enter(w, s, surface) == UpdateKeyboard(w, [s EXCEPT !.keyboard = surface])

\* leme_view_clear_focus
ClearFocus(w, s) ==
  LET t == [s EXCEPT !.activated = @ \ {s.focused_view}, !.focused_view = NONE]
  IN IF w.locked THEN t ELSE Enter(w, t, NONE)

LayerOn(w, l) == w.layer[l].mapped /\ w.layer[l].output \in w.enabled

\* leme_layer_keyboard_is_exclusive; server->focused_layer may point to a layer
\* that was freed, and a read of it gives anything.
Exclusive(w, s) ==
  IF s.focused_layer = NONE THEN {FALSE}
  ELSE IF w.layer[s.focused_layer] = NoLayer THEN BOOLEAN
  ELSE {LayerOn(w, s.focused_layer) /\ w.layer[s.focused_layer].keyboard = "exclusive"}

\* Mutant: a view takes the keyboard from an exclusive layer.
ViewFocusAlways(w, s, v) ==
  IF w.locked THEN {s}
  ELSE {Enter(w, [s EXCEPT !.focused_layer = NONE,
                           !.activated = (@ \ {s.focused_view}) \cup {v},
                           !.focused_view = v], v)}

\* leme_view_focus of a mapped view.
ViewFocus(w, s, v) ==
  IF w.locked THEN {s}
  ELSE {IF exclusive THEN s
        ELSE Enter(w, [s EXCEPT !.focused_layer = NONE,
                                !.activated = IF s.focused_view = v THEN @
                                              ELSE (@ \ {s.focused_view}) \cup {v},
                                !.focused_view = v], v)
        : exclusive \in Exclusive(w, s)}

\* leme_tags_refresh_visibility of the tags of o.
Refresh(w, s, o) ==
  LET present == {v \in Views : w.home[v] = o}
  IN IF s.focused_output # o THEN {s}
     ELSE IF present # {} THEN UNION {ViewFocus(w, s, v) : v \in present}
     ELSE {IF exclusive THEN s
           ELSE ClearFocus(w, [s EXCEPT !.focused_layer = NONE])
           : exclusive \in Exclusive(w, s)}

\* Mutant: the lock is not asked.
LayerFocusIgnoresLock(w, s, l) ==
  IF ~LayerOn(w, l) \/ w.layer[l].keyboard = "none" \/ s.focused_layer = l
  THEN s
  ELSE Enter(w, [ClearFocus(w, s) EXCEPT !.focused_layer = l], l)

\* leme_layer_focus
LayerFocus(w, s, l) ==
  IF \/ ~LayerOn(w, l) \/ w.layer[l].keyboard = "none"
     \/ w.locked \/ s.focused_layer = l
  THEN s
  ELSE Enter(w, [ClearFocus(w, s) EXCEPT !.focused_layer = l], l)

\* leme_layer_restore_keyboard_focus
RestoreKeyboardFocus(w, s) ==
  LET claims == {l \in Layers : LayerOn(w, l) /\ w.layer[l].keyboard = "exclusive"}
      t == [s EXCEPT !.focused_layer = NONE]
  IN IF w.locked THEN {s}
     ELSE IF claims # {} THEN {LayerFocus(w, t, l) : l \in claims}
     ELSE IF t.focused_output \in w.enabled
          THEN {UpdateKeyboard(w, u) : u \in Refresh(w, t, t.focused_output)}
     ELSE {ClearFocus(w, t)}

\* leme_session_surface_allowed
Allowed(w, surface) ==
  \/ ~w.locked
  \/ \E o \in Outputs : surface = LockSurface(o) /\ w.lockSurface[o] = "configured"

\* Mutant: a pointer that leaves for nothing keeps the constraint.
UpdatePointerKeeps(w, s) ==
  {[s EXCEPT !.active_constraint = c] :
     c \in IF s.pointer = NONE THEN {s.active_constraint}
           ELSE {NONE} \cup ({s.pointer} \cap w.constraints)}

\* leme_input_protocols_update_pointer_focus; whether the cursor is in the
\* region of the constraint is left open.
UpdatePointer(w, s) ==
  {[s EXCEPT !.active_constraint = c] : c \in {NONE} \cup ({s.pointer} \cap w.constraints)}

\* What the cursor may be over.  The blocker of a locked session hides what is
\* below it only where it covers the layout.
Hits(w) ==
  {NONE} \cup {v \in Views : w.home[v] \in w.enabled} \cup {l \in Layers : LayerOn(w, l)}
    \cup {LockSurface(o) : o \in {p \in w.enabled : w.lockSurface[p] # "none"}}

\* leme_input_follow_pointer_output and leme_output_set_focused
FollowPointer(w, s) ==
  {s} \cup UNION {Refresh(w, [s EXCEPT !.focused_output = o], o)
                  : o \in w.enabled \ {s.focused_output}}

\* leme_input_process_motion with the cursor over hit.
ProcessMotion(w, s, hit) ==
  LET surface == IF Allowed(w, hit) THEN hit ELSE NONE
      followed == IF w.locked THEN {s} ELSE FollowPointer(w, s)
      hovered == IF w.locked \/ surface \notin Views THEN followed
                 ELSE UNION {ViewFocus(w, t, surface) : t \in followed}
  IN UNION {UpdatePointer(w, [t EXCEPT !.pointer = surface]) : t \in hovered}

\* leme_input_refresh_pointer_focus
RefreshPointer(w, s) == UNION {ProcessMotion(w, s, hit) : hit \in Hits(w)}

-----------------------------------------------------------------------------
(* Windows                                                                 *)

\* leme_view_map on the focused output, and the refresh that ends it.
MapView(v) ==
  /\ home[v] = NONE /\ seat.focused_output \in enabled
  /\ home' = [home EXCEPT ![v] = seat.focused_output]
  /\ UNCHANGED <<plugged, enabled, layer, session, lockSurface, unanswered,
                 inhibitors, constraints, down>>
  /\ \E s \in ViewFocus(World', seat, v) :
       seat' \in Refresh(World', s, s.focused_output)

\* leme_view_unmap, and leme_view_refresh_tag_focus that ends it.
UnmapView(v) ==
  /\ home[v] # NONE
  /\ home' = [home EXCEPT ![v] = NONE]
  /\ UNCHANGED <<plugged, enabled, layer, session, lockSurface, unanswered,
                 inhibitors, constraints, down>>
  /\ LET s == IF seat.focused_view = v THEN ClearFocus(World', seat) ELSE seat
     IN seat' \in IF s.focused_output \in enabled
                  THEN Refresh(World', s, s.focused_output) ELSE {s}

-----------------------------------------------------------------------------
(* Layer surfaces                                                          *)

layerUnchanged == <<plugged, enabled, home, session, lockSurface, unanswered,
                    constraints, down>>

\* leme_layer_handle_new_surface, and the first commit.
NewLayer(l, o, k) ==
  /\ l \in around.layers
  /\ layer[l] = NoLayer /\ o \in enabled
  /\ layer' = [layer EXCEPT ![l] = [output |-> o, mapped |-> FALSE, keyboard |-> k]]
  /\ UNCHANGED <<layerUnchanged, inhibitors, seat>>

\* leme_layer_handle_map
MapLayer(l) ==
  /\ layer[l] # NoLayer /\ ~layer[l].mapped
  /\ layer' = [layer EXCEPT ![l].mapped = TRUE]
  /\ UNCHANGED <<layerUnchanged, inhibitors>>
  /\ seat' = IF layer[l].keyboard = "exclusive" THEN LayerFocus(World', seat, l)
             ELSE seat

\* leme_layer_handle_commit of a mapped layer that asks for another keyboard
\* interactivity.
CommitLayer(l, k) ==
  /\ layer[l].mapped /\ layer[l].keyboard # k
  /\ layer' = [layer EXCEPT ![l].keyboard = k]
  /\ UNCHANGED <<layerUnchanged, inhibitors>>
  /\ seat' \in CASE k = "exclusive" -> {LayerFocus(World', seat, l)}
                 [] k = "none" /\ seat.focused_layer = l ->
                      RestoreKeyboardFocus(World', seat)
                 [] OTHER -> {seat}

\* Mutant: the keyboard is not restored.
UnmapLayerKeepsFocus(l) ==
  /\ layer[l].mapped
  /\ layer' = [layer EXCEPT ![l].mapped = FALSE]
  /\ UNCHANGED <<layerUnchanged, inhibitors, seat>>

\* leme_layer_handle_unmap
UnmapLayer(l) ==
  /\ layer[l].mapped
  /\ layer' = [layer EXCEPT ![l].mapped = FALSE]
  /\ UNCHANGED <<layerUnchanged, inhibitors>>
  /\ seat' \in IF seat.focused_layer = l THEN RestoreKeyboardFocus(World', seat)
               ELSE {seat}

\* The seat after the layers gone were destroyed: wlroots takes the keyboard and
\* the pointer from a surface that is destroyed.
LayersGone(w, s, gone) ==
  LET t == [s EXCEPT !.keyboard = IF @ \in gone THEN NONE ELSE @,
                     !.pointer = IF @ \in gone THEN NONE ELSE @]
  IN {UpdateKeyboard(w, u) :
        u \in IF s.focused_layer \in gone THEN RestoreKeyboardFocus(w, t) ELSE {t}}

\* leme_layer_handle_unmap and leme_layer_handle_destroy
DestroyLayer(l) ==
  /\ layer[l] # NoLayer
  /\ layer' = [layer EXCEPT ![l] = NoLayer]
  /\ inhibitors' = inhibitors \ {l}
  /\ UNCHANGED layerUnchanged
  /\ seat' \in LayersGone(World', seat, {l})

-----------------------------------------------------------------------------
(* The session lock                                                        *)

\* leme_session_handle_new_lock; a second lock is refused unless the first was
\* abandoned.
NewLock ==
  /\ Locks \in around.events
  /\ ~session.held \/ session.abandoned
  /\ session' = [locked |-> TRUE, held |-> TRUE, abandoned |-> FALSE]
  /\ UNCHANGED <<plugged, enabled, home, layer, lockSurface, unanswered,
                 inhibitors, constraints, down>>
  /\ seat' = Enter(World', SetMode([seat EXCEPT !.activated = @ \ {seat.focused_view},
                                                !.pointer = NONE,
                                                !.active_constraint = NONE], Common),
                   NONE)

\* leme_session_handle_new_surface: the surface is told its size.
NewLockSurface(o) ==
  /\ session.held /\ o \in enabled /\ lockSurface[o] = "none"
  /\ lockSurface' = [lockSurface EXCEPT ![o] = "created"]
  /\ unanswered' = unanswered \cup {o}
  /\ UNCHANGED <<plugged, enabled, home, layer, session, inhibitors, constraints,
                 seat, down>>

\* leme_session_handle_surface_commit and leme_session_focus_surface.  A client
\* that learns that an output is gone does not answer for it any more: its
\* requests come in the order of the events they answer.
CommitLockSurface(o) ==
  /\ lockSurface[o] # "none"
  /\ o \notin enabled => \A p \in Outputs \ {o} : lockSurface[p] = "none" \/ p \in unanswered
  /\ lockSurface' = [lockSurface EXCEPT ![o] = "configured"]
  /\ unanswered' = unanswered \ {o}
  /\ UNCHANGED <<plugged, enabled, home, layer, session, inhibitors, constraints, down>>
  /\ seat' \in RefreshPointer(World', Enter(World', seat, LockSurface(o)))

\* Mutant: the shortcut inhibitor is not updated.
LockSurfacesGoneQuietly(w, s, gone) ==
  LET surfaces == {LockSurface(o) : o \in gone}
  IN {[s EXCEPT !.keyboard = IF @ \in surfaces THEN NONE ELSE @,
                !.pointer = IF @ \in surfaces THEN NONE ELSE @]}

\* leme_session_handle_surface_destroy of the lock surfaces of some outputs.
LockSurfacesGone(w, s, gone) ==
  LET surfaces == {LockSurface(o) : o \in gone}
      t == IF s.keyboard \in surfaces THEN Enter(w, s, NONE) ELSE s
  IN IF s.pointer \in surfaces THEN UpdatePointer(w, [t EXCEPT !.pointer = NONE]) ELSE {t}

\* The lock client lets go of the surface of an output that is not enabled.
DestroyLockSurface(o) ==
  /\ lockSurface[o] # "none" /\ o \notin enabled
  /\ lockSurface' = [lockSurface EXCEPT ![o] = "none"]
  /\ unanswered' = unanswered \ {o}
  /\ inhibitors' = inhibitors \ {LockSurface(o)}
  /\ UNCHANGED <<plugged, enabled, home, layer, session, constraints, down>>
  /\ seat' \in LockSurfacesGone(World', seat, {o})

\* Mutant: the view that had the keyboard is not made active again.
RestoreFocusInactive(w, s) ==
  UNION {RefreshPointer(w, t) : t \in RestoreKeyboardFocus(w, s)}

\* leme_session_restore_focus
RestoreFocus(w, s) ==
  LET restored(t) ==
        IF t.focused_layer = NONE /\ t.focused_view \in {v \in Views : w.home[v] # NONE}
        THEN ViewFocus(w, [t EXCEPT !.activated = @ \cup {t.focused_view}], t.focused_view)
        ELSE {t}
  IN UNION {RefreshPointer(w, u) :
              u \in UNION {restored(t) : t \in RestoreKeyboardFocus(w, s)}}

\* Mutant: the configures of a lock that went are still awaited.
LockGoneUnanswered == /\ lockSurface' = [o \in Outputs |-> "none"]
                      /\ inhibitors' = inhibitors \ {LockSurface(o) : o \in Outputs}
                      /\ UNCHANGED unanswered

\* What wlroots does when a lock goes: its surfaces go first.
LockGone == /\ lockSurface' = [o \in Outputs |-> "none"]
            /\ unanswered' = {}
            /\ inhibitors' = inhibitors \ {LockSurface(o) : o \in Outputs}

\* leme_session_handle_unlock, then leme_session_handle_lock_destroy.
Unlock ==
  /\ session.held
  /\ session' = [locked |-> FALSE, held |-> FALSE, abandoned |-> FALSE]
  /\ LockGone
  /\ UNCHANGED <<plugged, enabled, home, layer, constraints, down>>
  /\ \E s \in RestoreFocus(World', [seat EXCEPT !.pointer = NONE, !.keyboard = NONE]) :
       seat' \in LockSurfacesGone(World', s, Outputs)

\* The lock client dies: leme_session_handle_lock_destroy.
LockClientDies ==
  /\ session.held
  /\ session' = [locked |-> TRUE, held |-> FALSE, abandoned |-> TRUE]
  /\ LockGone
  /\ UNCHANGED <<plugged, enabled, home, layer, constraints, down>>
  /\ seat' \in UpdatePointer(World', Enter(World', [seat EXCEPT !.pointer = NONE], NONE))

-----------------------------------------------------------------------------
(* Outputs                                                                 *)

\* leme_output_reconcile: a focused output that went is replaced, and the
\* keyboard is restored when it went with it.  A focused layer that was freed
\* is read here too.
LayerFocusLost(w, s) ==
  IF s.focused_layer = NONE THEN {FALSE}
  ELSE IF w.layer[s.focused_layer] = NoLayer THEN BOOLEAN
  ELSE {w.layer[s.focused_layer].output \notin w.enabled}

Successors(w, s) ==
  IF s.focused_output \in w.enabled THEN {s.focused_output}
  ELSE IF w.enabled = {} THEN {NONE} ELSE w.enabled

Reconcile(w, s, lost) ==
  UNION {IF o # s.focused_output \/ lost
         THEN RestoreKeyboardFocus(w, [s EXCEPT !.focused_output = o]) ELSE {s}
         : o \in Successors(w, s)}

\* Mutant: the lock surfaces that stay are not asked to draw again.
OutputChangedQuietly(surface) ==
  {o \in unanswered : surface[o] # "none"}

\* leme_session_output_changed tells the lock surfaces their size again.
OutputChanged(surface) ==
  IF session.locked THEN {o \in Outputs : surface[o] # "none"} ELSE unanswered

SetEnabled(on) ==
  /\ Power \in around.events
  /\ enabled' = on
  /\ unanswered' = OutputChanged(lockSurface)
  /\ UNCHANGED <<plugged, home, layer, session, lockSurface, inhibitors,
                 constraints, down>>
  /\ \E lost \in LayerFocusLost(World', seat) :
       seat' \in Reconcile(World', seat, lost)

Disable(o) == o \in enabled /\ SetEnabled(enabled \ {o})
Enable(o) == o \in plugged \ enabled /\ SetEnabled(enabled \cup {o})

\* leme_output_handle_destroy: the layers of the output go, its windows move to
\* a successor, and the remaining outputs are configured again.
Unplug(o) ==
  LET gone == {l \in Layers : layer[l].output = o}
  IN /\ Hotplug \in around.events
     /\ o \in plugged /\ plugged # {o}
     /\ plugged' = plugged \ {o} /\ enabled' = enabled \ {o}
     /\ layer' = [l \in Layers |-> IF l \in gone THEN NoLayer ELSE layer[l]]
     /\ lockSurface' = [lockSurface EXCEPT ![o] = "none"]
     /\ inhibitors' = inhibitors \ (gone \cup {LockSurface(o)})
     /\ unanswered' = OutputChanged(lockSurface')
     /\ UNCHANGED <<session, constraints, down>>
     /\ \E successor \in IF enabled' # {} THEN enabled' ELSE plugged' :
          /\ home' = [v \in Views |-> IF home[v] = o THEN successor ELSE home[v]]
          /\ \E s \in LayersGone([World EXCEPT !.layer = layer', !.inhibitors = inhibitors'],
                                 seat, gone),
                lost \in BOOLEAN :
               LET focused == [s EXCEPT !.focused_output = IF @ = o THEN successor ELSE @]
               IN /\ lost \in LayerFocusLost(World', focused)
                  /\ \E t \in Reconcile(World', focused, lost) :
                       seat' \in LockSurfacesGone(World', t, {o})

\* leme_output_handle_new
Plug(o) ==
  /\ Hotplug \in around.events
  /\ o \notin plugged
  /\ plugged' = plugged \cup {o} /\ enabled' = enabled \cup {o}
  /\ unanswered' = OutputChanged(lockSurface)
  /\ UNCHANGED <<home, layer, session, lockSurface, inhibitors, constraints, down>>
  /\ \E lost \in LayerFocusLost(World', seat) :
       seat' \in Reconcile(World', seat, lost)

-----------------------------------------------------------------------------
(* Pointer, inhibitors, constraints and keys                               *)

\* leme_input_handle_motion and, when a button is pressed over a layer,
\* leme_input_handle_button.
Point(hit) ==
  /\ hit \in Hits(World)
  /\ seat' \in ProcessMotion(World, seat, hit)
  /\ UNCHANGED <<world, down>>

Press(hit) ==
  /\ hit \in Hits(World) \cap Layers
  /\ \E s \in ProcessMotion(World, seat, hit) :
       seat' = IF Allowed(World, hit) THEN LayerFocus(World, s, hit) ELSE s
  /\ UNCHANGED <<world, down>>

Alive == Views \cup {l \in Layers : layer[l] # NoLayer}
               \cup {LockSurface(o) : o \in {p \in Outputs : lockSurface[p] # "none"}}

\* leme_input_protocols_handle_new_inhibitor
NewInhibitor(surface) ==
  /\ Inhibitors \in around.events
  /\ surface \in Alive \ inhibitors
  /\ inhibitors' = inhibitors \cup {surface}
  /\ UNCHANGED <<plugged, enabled, home, layer, session, lockSurface, unanswered,
                 constraints, down>>
  /\ seat' = UpdateKeyboard(World', seat)

\* leme_input_protocols_handle_inhibitor_destroy
DestroyInhibitor(surface) ==
  /\ surface \in inhibitors
  /\ inhibitors' = inhibitors \ {surface}
  /\ UNCHANGED <<plugged, enabled, home, layer, session, lockSurface, unanswered,
                 constraints, down>>
  /\ seat' = UpdateKeyboard(World', [seat EXCEPT !.active_inhibitor =
                                       IF @ = surface THEN NONE ELSE @])

\* leme_input_protocols_handle_new_constraint, _region and _destroy
NewConstraint(v) ==
  /\ Constraints \in around.events
  /\ v \notin constraints
  /\ constraints' = constraints \cup {v}
  /\ UNCHANGED <<plugged, enabled, home, layer, session, lockSurface, unanswered,
                 inhibitors, down>>
  /\ seat' \in UpdatePointer(World', seat)

DestroyConstraint(v) ==
  /\ v \in constraints
  /\ constraints' = constraints \ {v}
  /\ UNCHANGED <<plugged, enabled, home, layer, session, lockSurface, unanswered,
                 inhibitors, down>>
  /\ seat' = [seat EXCEPT !.active_constraint = IF @ = v THEN NONE ELSE @]

\* leme_input_protocols_shortcuts_inhibited
ShortcutsInhibited(s) == s.active_inhibitor # NONE /\ s.active_inhibitor = s.keyboard

\* The mode in which the binding of a press of k is looked up.
ModeOfPress(s, k) ==
  IF k = Escape /\ s.mode \in EscapeExits /\ ~ShortcutsInhibited(s) /\ ~session.locked
  THEN Common ELSE s.mode

\* Mutant: a locked session runs every binding.
BindingOfUnlocked(s, k) ==
  LET b == Bindings[s.mode][k]
  IN IF b # Reserved /\ ShortcutsInhibited(s) THEN NONE ELSE b

\* leme_input_find_binding, without the bindings that are not allowed now.
BindingOf(s, k) ==
  LET b == Bindings[s.mode][k]
  IN IF b # Reserved /\ (ShortcutsInhibited(s) \/ session.locked) THEN NONE ELSE b

\* leme_input_handle_key, pressed.
PressKey(k) ==
  LET s == SetMode(seat, ModeOfPress(seat, k))
      b == BindingOf(s, k)
  IN /\ KeyPresses \in around.events
     /\ down[k] = "up"
     /\ IF b = NONE
        THEN seat' = s /\ down' = [down EXCEPT ![k] = "client"]
        ELSE /\ seat' = [SetMode(s, b) EXCEPT !.active_constraint = NONE,
                                              !.handled = @ \cup ({k} \cap Tracked)]
             /\ down' = [down EXCEPT ![k] = "binding"]
     /\ UNCHANGED world

\* leme_input_handle_key, released: the release of a press that ran a binding is
\* not sent.
Swallowed(s, k) == k \in s.handled

\* Mutant: a swallowed release is not forgotten.
ReleaseKeyKeepsHandled(k) ==
  /\ down[k] # "up"
  /\ down' = [down EXCEPT ![k] = "up"]
  /\ UNCHANGED <<world, seat>>

ReleaseKey(k) ==
  /\ down[k] # "up"
  /\ down' = [down EXCEPT ![k] = "up"]
  /\ seat' = IF Swallowed(seat, k) THEN [seat EXCEPT !.handled = @ \ {k}] ELSE seat
  /\ UNCHANGED world

-----------------------------------------------------------------------------
Init ==
  /\ plugged = Outputs /\ enabled = Outputs
  /\ home = [v \in Views |-> NONE]
  /\ layer = [l \in Layers |-> NoLayer]
  /\ session = [locked |-> FALSE, held |-> FALSE, abandoned |-> FALSE]
  /\ lockSurface = [o \in Outputs |-> "none"]
  /\ unanswered = {} /\ inhibitors = {} /\ constraints = {}
  /\ \E o \in Outputs :
       seat = [focused_output |-> o, focused_layer |-> NONE, focused_view |-> NONE,
               activated |-> {}, keyboard |-> NONE, pointer |-> NONE,
               active_inhibitor |-> NONE, active_constraint |-> NONE,
               mode |-> Common, handled |-> {}]
  /\ down = [k \in Keys |-> "up"]
  /\ around \in Scenarios

Handlers ==
  \/ \E v \in Views : MapView(v) \/ UnmapView(v) \/ NewConstraint(v) \/ DestroyConstraint(v)
  \/ \E l \in Layers, o \in Outputs, k \in Interactivity : NewLayer(l, o, k)
  \/ \E l \in Layers, k \in Interactivity : CommitLayer(l, k)
  \/ \E l \in Layers : MapLayer(l) \/ UnmapLayer(l) \/ DestroyLayer(l)
  \/ NewLock \/ Unlock \/ LockClientDies
  \/ \E o \in Outputs : NewLockSurface(o) \/ CommitLockSurface(o) \/ DestroyLockSurface(o)
  \/ \E o \in Outputs : Disable(o) \/ Enable(o) \/ Unplug(o) \/ Plug(o)
  \/ \E hit \in Surfaces \cup {NONE} : Point(hit) \/ Press(hit)
  \/ \E surface \in Surfaces : NewInhibitor(surface) \/ DestroyInhibitor(surface)
  \/ \E k \in Keys : PressKey(k) \/ ReleaseKey(k)

Next == Handlers /\ UNCHANGED around

Spec == Init /\ [][Next]_vars

\* A lock client draws what it is asked to draw.
FairSpec == Spec /\ \A o \in Outputs :
              WF_vars(/\ o \in enabled \cap unanswered
                      /\ CommitLockSurface(o) /\ UNCHANGED around)
=============================================================================
