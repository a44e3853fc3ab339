----------------------------- MODULE SeatProofs -----------------------------
(***************************************************************************)
(* Under the lock input goes to lock surfaces only, a release goes where   *)
(* its press went, the keyboard, the inhibitor and the constraint are      *)
(* where server says they are, and an exclusive layer keeps the keyboard,  *)
(* for every number of outputs, windows, layers and keys and every set of  *)
(* bindings.                                                               *)
(*                                                                         *)
(* The handlers of Seat are operators from a seat to a set of seats.  A    *)
(* seat is Guarded by a set A of surfaces if in a locked session the       *)
(* keyboard and the pointer are on one of them or on nothing, and by a set *)
(* H of keys if these are the handled ones.  Every operator keeps a seat   *)
(* guarded by any A that has the configured lock surfaces, and by its H;   *)
(* that A may be larger is what carries the proof through the handlers in  *)
(* which a lock surface goes, and the seat is told last.                   *)
(***************************************************************************)
EXTENDS SeatProperties, TLAPS

Seats == [focused_output : Outputs \cup {NONE},
          focused_layer : Layers \cup {NONE},
          focused_view : Views \cup {NONE},
          activated : SUBSET Views,
          keyboard : Surfaces \cup {NONE},
          pointer : Surfaces \cup {NONE},
          active_inhibitor : Surfaces \cup {NONE},
          active_constraint : Views \cup {NONE},
          mode : Modes,
          handled : SUBSET Keys]

\* The lock surfaces that may have input.
Configured(w) == {LockSurface(o) : o \in {p \in Outputs : w.lockSurface[p] = "configured"}}

\* What a handler reads, as far as the proof needs it.
Readable(w) == w.enabled \subseteq Outputs /\ w.constraints \subseteq Views

Guarded(w, A, H, s) ==
  /\ s \in Seats /\ s.handled = H
  /\ w.locked => /\ {s.keyboard, s.pointer} \subseteq A \cup {NONE}
                 /\ s.mode = Common

\* The keys whose press ran a binding.
Pressed == {k \in Tracked : down[k] = "binding"}

\* The inductive invariant.
SeatInv ==
  /\ plugged \subseteq Outputs /\ enabled \subseteq plugged /\ constraints \subseteq Views
  /\ lockSurface \in [Outputs -> {"none", "created", "configured"}]
  /\ session.held => session.locked
  /\ down \in [Keys -> {"up", "client", "binding"}]
  /\ Guarded(World, Configured(World), Pressed, seat)

-----------------------------------------------------------------------------
(* The operators                                                           *)

LEMMA LockSurfaceIsSurface == \A o \in Outputs : LockSurface(o) \in Surfaces
  BY DEF Surfaces

\* leme_input_set_mode keeps a locked session in the mode common if that is the
\* mode it is given, or if what it is given is no mode.
LEMMA SetModeGuarded ==
  ASSUME NEW w, NEW A, NEW H, NEW s, NEW m, Guarded(w, A, H, s),
         w.locked => m = Common \/ m \notin Modes
  PROVE  Guarded(w, A, H, SetMode(s, m))
  BY SeatAssumption DEF Guarded, SetMode, Seats

LEMMA UpdateKeyboardGuarded ==
  ASSUME NEW w, NEW A, NEW H, NEW s, Guarded(w, A, H, s)
  PROVE  Guarded(w, A, H, UpdateKeyboard(w, s))
<1> DEFINE target == IF s.keyboard \in w.inhibitors THEN s.keyboard ELSE NONE
           t == IF target = NONE THEN s ELSE SetMode(s, Common)
<1>1. Guarded(w, A, H, t)
  <2>1. Guarded(w, A, H, SetMode(s, Common))
    BY SetModeGuarded
  <2> QED BY <2>1
<1>2. target \in Surfaces \cup {NONE}
  BY DEF Guarded, Seats
<1>3. Guarded(w, A, H, [t EXCEPT !.active_inhibitor = target])
  <2> HIDE DEF t, target
  <2> QED BY <1>1, <1>2 DEF Guarded, Seats
<1> QED BY <1>3 DEF UpdateKeyboard

\* The keyboard enters nothing or a surface that may have it.
LEMMA EnterGuarded ==
  ASSUME NEW w, NEW A, NEW H, NEW s, NEW surface \in Surfaces \cup {NONE}, Guarded(w, A, H, s),
         w.locked => surface \in A \cup {NONE}
  PROVE  Guarded(w, A, H, Enter(w, s, surface))
<1>1. Guarded(w, A, H, [s EXCEPT !.keyboard = surface])
  BY DEF Guarded, Seats
<1> QED BY <1>1, UpdateKeyboardGuarded DEF Enter

LEMMA ClearFocusGuarded ==
  ASSUME NEW w, NEW A, NEW H, NEW s, Guarded(w, A, H, s)
  PROVE  Guarded(w, A, H, ClearFocus(w, s))
<1> DEFINE t == [s EXCEPT !.activated = @ \ {s.focused_view}, !.focused_view = NONE]
<1>1. Guarded(w, A, H, t)
  BY ZenonT(90) DEF Guarded, Seats
<1>2. Guarded(w, A, H, Enter(w, t, NONE))
  BY <1>1, EnterGuarded
<1> QED BY <1>1, <1>2 DEF ClearFocus

LEMMA ViewFocusGuarded ==
  ASSUME NEW w, NEW A, NEW H, NEW s, NEW v \in Views, Guarded(w, A, H, s)
  PROVE  \A t \in ViewFocus(w, s, v) : Guarded(w, A, H, t)
<1> DEFINE t == [s EXCEPT !.focused_layer = NONE,
                          !.activated = IF s.focused_view = v THEN @
                                        ELSE (@ \ {s.focused_view}) \cup {v},
                          !.focused_view = v]
<1>1. ~w.locked => Guarded(w, A, H, Enter(w, t, v))
  <2>1. Guarded(w, A, H, t)
    BY ZenonT(90) DEF Guarded, Seats
  <2>2. v \in Surfaces
    BY DEF Surfaces
  <2> HIDE DEF t
  <2> QED BY <2>1, <2>2, EnterGuarded
<1> QED BY <1>1 DEF ViewFocus

LEMMA LayerFocusGuarded ==
  ASSUME NEW w, NEW A, NEW H, NEW s, NEW l \in Layers, Guarded(w, A, H, s)
  PROVE  Guarded(w, A, H, LayerFocus(w, s, l))
<1> DEFINE t == [ClearFocus(w, s) EXCEPT !.focused_layer = l]
<1>1. Guarded(w, A, H, t)
  <2>1. Guarded(w, A, H, ClearFocus(w, s))
    BY ClearFocusGuarded
  <2> QED BY <2>1 DEF Guarded, Seats
<1>2. ~w.locked => Guarded(w, A, H, Enter(w, t, l))
  <2>1. l \in Surfaces
    BY DEF Surfaces
  <2> HIDE DEF t
  <2> QED BY <1>1, <2>1, EnterGuarded
<1> QED BY <1>2 DEF LayerFocus

LEMMA WithoutLayer ==
  ASSUME NEW w, NEW A, NEW H, NEW s, Guarded(w, A, H, s)
  PROVE  Guarded(w, A, H, [s EXCEPT !.focused_layer = NONE])
  BY DEF Guarded, Seats

LEMMA WithOutput ==
  ASSUME NEW w, NEW A, NEW H, NEW s, NEW o \in Outputs \cup {NONE}, Guarded(w, A, H, s)
  PROVE  Guarded(w, A, H, [s EXCEPT !.focused_output = o])
  BY DEF Guarded, Seats

LEMMA RefreshGuarded ==
  ASSUME NEW w, NEW A, NEW H, NEW s, NEW o, Guarded(w, A, H, s)
  PROVE  \A t \in Refresh(w, s, o) : Guarded(w, A, H, t)
<1>1. Guarded(w, A, H, ClearFocus(w, [s EXCEPT !.focused_layer = NONE]))
  BY WithoutLayer, ClearFocusGuarded
<1>2. \A v \in Views : \A t \in ViewFocus(w, s, v) : Guarded(w, A, H, t)
  BY ViewFocusGuarded
<1> QED BY <1>1, <1>2 DEF Refresh

LEMMA RestoreKeyboardFocusGuarded ==
  ASSUME NEW w, NEW A, NEW H, NEW s, Guarded(w, A, H, s)
  PROVE  \A t \in RestoreKeyboardFocus(w, s) : Guarded(w, A, H, t)
<1> DEFINE r == [s EXCEPT !.focused_layer = NONE]
<1>1. Guarded(w, A, H, r)
  BY WithoutLayer
<1> HIDE DEF r
<1>2. \A l \in Layers : Guarded(w, A, H, LayerFocus(w, r, l))
  BY <1>1, LayerFocusGuarded
<1>3. \A u \in Refresh(w, r, r.focused_output) : Guarded(w, A, H, UpdateKeyboard(w, u))
  BY <1>1, RefreshGuarded, UpdateKeyboardGuarded
<1>4. Guarded(w, A, H, ClearFocus(w, r))
  BY <1>1, ClearFocusGuarded
<1> QED BY <1>2, <1>3, <1>4 DEF RestoreKeyboardFocus, r

LEMMA UpdatePointerGuarded ==
  ASSUME NEW w, NEW A, NEW H, NEW s, Readable(w), Guarded(w, A, H, s)
  PROVE  \A t \in UpdatePointer(w, s) : Guarded(w, A, H, t)
  BY DEF UpdatePointer, Readable, Guarded, Seats

LEMMA FollowPointerGuarded ==
  ASSUME NEW w, NEW A, NEW H, NEW s, Readable(w), Guarded(w, A, H, s)
  PROVE  \A t \in FollowPointer(w, s) : Guarded(w, A, H, t)
<1>1. \A o \in w.enabled : Guarded(w, A, H, [s EXCEPT !.focused_output = o])
  BY WithOutput DEF Readable
<1>2. \A o \in w.enabled : \A t \in Refresh(w, [s EXCEPT !.focused_output = o], o) :
        Guarded(w, A, H, t)
  BY <1>1, RefreshGuarded
<1> QED BY <1>2 DEF FollowPointer

\* leme_input_process_motion gives the pointer of a locked session to configured lock
\* surfaces only.
LEMMA ProcessMotionGuarded ==
  ASSUME NEW w, NEW A, NEW H, NEW s, NEW hit \in Surfaces \cup {NONE}, Readable(w),
         Guarded(w, A, H, s), Configured(w) \subseteq A
  PROVE  \A t \in ProcessMotion(w, s, hit) : Guarded(w, A, H, t)
<1> DEFINE surface == IF Allowed(w, hit) THEN hit ELSE NONE
           followed == IF w.locked THEN {s} ELSE FollowPointer(w, s)
           hovered == IF w.locked \/ surface \notin Views THEN followed
                      ELSE UNION {ViewFocus(w, t, surface) : t \in followed}
<1>1. surface \in Surfaces \cup {NONE} /\ (w.locked => surface \in A \cup {NONE})
  BY DEF Allowed, Configured
<1>2. \A t \in followed : Guarded(w, A, H, t)
  BY FollowPointerGuarded
<1>3. \A t \in hovered : Guarded(w, A, H, t)
  <2> HIDE DEF surface, followed
  <2>1. \A t \in followed : surface \in Views =>
          \A u \in ViewFocus(w, t, surface) : Guarded(w, A, H, u)
    BY <1>2, ViewFocusGuarded
  <2> QED BY <1>2, <2>1
<1>4. \A t \in hovered : Guarded(w, A, H, [t EXCEPT !.pointer = surface])
  <2> HIDE DEF surface, hovered
  <2> QED BY <1>1, <1>3 DEF Guarded, Seats
<1>5. \A t \in hovered : \A u \in UpdatePointer(w, [t EXCEPT !.pointer = surface]) :
        Guarded(w, A, H, u)
  <2> HIDE DEF surface, hovered
  <2> QED BY <1>4, UpdatePointerGuarded
<1>6. ProcessMotion(w, s, hit) = UNION {UpdatePointer(w, [t EXCEPT !.pointer = surface]) : t \in hovered}
  BY DEF ProcessMotion
<1> HIDE DEF surface, hovered
<1> QED BY <1>5, <1>6

LEMMA HitsAreSurfaces ==
  ASSUME NEW w, Readable(w)
  PROVE  Hits(w) \subseteq Surfaces \cup {NONE}
  BY DEF Hits, Surfaces, Readable

LEMMA RefreshPointerGuarded ==
  ASSUME NEW w, NEW A, NEW H, NEW s, Readable(w), Guarded(w, A, H, s), Configured(w) \subseteq A
  PROVE  \A t \in RefreshPointer(w, s) : Guarded(w, A, H, t)
<1>1. \A hit \in Hits(w) : \A t \in ProcessMotion(w, s, hit) : Guarded(w, A, H, t)
  BY HitsAreSurfaces, ProcessMotionGuarded
<1> QED BY <1>1 DEF RefreshPointer

-----------------------------------------------------------------------------
(* Surfaces that go, the outputs                                           *)

\* A surface that goes leaves the keyboard and the pointer.
LEMMA WithoutSurfaces ==
  ASSUME NEW w, NEW A, NEW H, NEW s, NEW gone, Guarded(w, A, H, s)
  PROVE  Guarded(w, A, H, [s EXCEPT !.keyboard = IF s.keyboard \in gone THEN NONE ELSE s.keyboard,
                                 !.pointer = IF s.pointer \in gone THEN NONE ELSE s.pointer])
  BY ZenonT(90) DEF Guarded, Seats

LEMMA LayersGoneGuarded ==
  ASSUME NEW w, NEW A, NEW H, NEW s, NEW gone, Guarded(w, A, H, s)
  PROVE  \A t \in LayersGone(w, s, gone) : Guarded(w, A, H, t)
<1> DEFINE r == [s EXCEPT !.keyboard = IF s.keyboard \in gone THEN NONE ELSE s.keyboard,
                          !.pointer = IF s.pointer \in gone THEN NONE ELSE s.pointer]
<1>1. Guarded(w, A, H, r)
  BY WithoutSurfaces
<1>2. LayersGone(w, s, gone) =
        {UpdateKeyboard(w, u) : u \in IF s.focused_layer \in gone
                                      THEN RestoreKeyboardFocus(w, r) ELSE {r}}
  BY DEF LayersGone
<1> HIDE DEF r
<1>3. \A u \in RestoreKeyboardFocus(w, r) : Guarded(w, A, H, UpdateKeyboard(w, u))
  BY <1>1, RestoreKeyboardFocusGuarded, UpdateKeyboardGuarded
<1>4. Guarded(w, A, H, UpdateKeyboard(w, r))
  BY <1>1, UpdateKeyboardGuarded
<1> QED BY <1>2, <1>3, <1>4

\* leme_output_reconcile
LEMMA ReconcileGuarded ==
  ASSUME NEW w, NEW A, NEW H, NEW s, NEW lost, Readable(w), Guarded(w, A, H, s)
  PROVE  \A t \in Reconcile(w, s, lost) : Guarded(w, A, H, t)
<1>1. Successors(w, s) \subseteq Outputs \cup {NONE}
  BY DEF Successors, Readable
<1>2. \A o \in Successors(w, s) : Guarded(w, A, H, [s EXCEPT !.focused_output = o])
  BY <1>1, WithOutput
<1>3. \A o \in Successors(w, s) :
        \A t \in RestoreKeyboardFocus(w, [s EXCEPT !.focused_output = o]) : Guarded(w, A, H, t)
  BY <1>2, RestoreKeyboardFocusGuarded
<1> QED BY <1>3 DEF Reconcile

\* Only whether the session is locked matters.
LEMMA SameLockGuarded ==
  ASSUME NEW w, NEW u, NEW A, NEW H, NEW B, NEW s, Guarded(w, A, H, s), u.locked = w.locked,
         A \subseteq B
  PROVE  Guarded(u, B, H, s)
  BY DEF Guarded

\* A seat of an unlocked session is guarded by anything.
LEMMA UnlockedGuarded ==
  ASSUME NEW w, NEW A, NEW s \in Seats, ~w.locked
  PROVE  Guarded(w, A, s.handled, s)
  BY DEF Guarded

LEMMA EnterGives ==
  ASSUME NEW w, NEW s \in Seats, NEW surface \in Surfaces \cup {NONE}
  PROVE  Enter(w, s, surface).keyboard = surface /\ Enter(w, s, surface).pointer = s.pointer
<1> DEFINE r == [s EXCEPT !.keyboard = surface]
<1>1. r \in Seats /\ r.keyboard = surface /\ r.pointer = s.pointer
  BY DEF Seats
<1> HIDE DEF r
<1>2. \A target : /\ [r EXCEPT !.active_inhibitor = target].keyboard = surface
                  /\ [r EXCEPT !.active_inhibitor = target].pointer = s.pointer
                  /\ [SetMode(r, Common) EXCEPT !.active_inhibitor = target].keyboard = surface
                  /\ [SetMode(r, Common) EXCEPT !.active_inhibitor = target].pointer = s.pointer
  BY <1>1 DEF SetMode, Seats
<1> QED BY <1>1, <1>2 DEF Enter, UpdateKeyboard, r

\* leme_session_handle_surface_destroy: the lock surfaces that go have no input
\* any more.
LEMMA LockSurfacesGoneGuarded ==
  ASSUME NEW w, NEW A, NEW H, NEW s, NEW gone, Readable(w), Guarded(w, A, H, s)
  PROVE  \A t \in LockSurfacesGone(w, s, gone) :
           Guarded(w, A \ {LockSurface(o) : o \in gone}, H, t)
<1> DEFINE surfaces == {LockSurface(o) : o \in gone}
           r == IF s.keyboard \in surfaces THEN Enter(w, s, NONE) ELSE s
           q == [r EXCEPT !.pointer = NONE]
<1>1. LockSurfacesGone(w, s, gone) = IF s.pointer \in surfaces THEN UpdatePointer(w, q) ELSE {r}
  BY DEF LockSurfacesGone
<1> HIDE DEF surfaces
<1>2. Guarded(w, A, H, Enter(w, s, NONE))
  BY EnterGuarded
<1>3. s \in Seats
  BY DEF Guarded
<1>4. Enter(w, s, NONE).keyboard = NONE /\ Enter(w, s, NONE).pointer = s.pointer
  BY <1>3, EnterGives
<1>5. Guarded(w, A, H, r) /\ r.keyboard \in {NONE, s.keyboard} \ (surfaces \ {NONE})
        /\ r.pointer = s.pointer
  BY <1>2, <1>4
<1> HIDE DEF r
<1>6. Guarded(w, A \ surfaces, H, q)
  BY <1>5 DEF Guarded, Seats
<1>7. s.pointer \notin surfaces => Guarded(w, A \ surfaces, H, r)
  BY <1>5 DEF Guarded, Seats
<1> HIDE DEF q
<1>8. \A t \in UpdatePointer(w, q) : Guarded(w, A \ surfaces, H, t)
  BY <1>6, UpdatePointerGuarded
<1> QED BY <1>1, <1>7, <1>8 DEF surfaces

\* leme_session_restore_focus
LEMMA RestoreFocusGuarded ==
  ASSUME NEW w, NEW A, NEW H, NEW s, Readable(w), Guarded(w, A, H, s), Configured(w) \subseteq A
  PROVE  \A t \in RestoreFocus(w, s) : Guarded(w, A, H, t)
<1> DEFINE restored(t) ==
        IF t.focused_layer = NONE /\ t.focused_view \in {v \in Views : w.home[v] # NONE}
        THEN ViewFocus(w, [t EXCEPT !.activated = t.activated \cup {t.focused_view}], t.focused_view)
        ELSE {t}
<1>1. \A t \in RestoreKeyboardFocus(w, s) : Guarded(w, A, H, t)
  BY RestoreKeyboardFocusGuarded
<1>2. \A t \in RestoreKeyboardFocus(w, s) : t.focused_view \in Views =>
        Guarded(w, A, H, [t EXCEPT !.activated = t.activated \cup {t.focused_view}])
  BY <1>1 DEF Guarded, Seats
<1>3. \A t \in RestoreKeyboardFocus(w, s) : \A u \in restored(t) : Guarded(w, A, H, u)
  BY <1>1, <1>2, ViewFocusGuarded
<1>4. RestoreFocus(w, s) =
        UNION {RefreshPointer(w, u) : u \in UNION {restored(t) : t \in RestoreKeyboardFocus(w, s)}}
  BY DEF RestoreFocus
<1> HIDE DEF restored
<1>5. \A u \in UNION {restored(t) : t \in RestoreKeyboardFocus(w, s)} :
        \A x \in RefreshPointer(w, u) : Guarded(w, A, H, x)
  BY <1>3, RefreshPointerGuarded
<1> QED BY <1>4, <1>5

-----------------------------------------------------------------------------
(* The actions                                                             *)

LEMMA InitSeatInv == Init => SeatInv
<1> SUFFICES ASSUME Init PROVE SeatInv
  OBVIOUS
<1>1. seat \in Seats
  BY SeatAssumption DEF Init, Seats
<1>2. ~World.locked
  BY DEF Init, World
<1>3. seat.handled = Pressed /\ down \in [Keys -> {"up", "client", "binding"}]
  BY SeatAssumption DEF Init, Pressed
<1>4. Guarded(World, Configured(World), Pressed, seat)
  BY <1>1, <1>2, <1>3, UnlockedGuarded
<1> QED BY <1>3, <1>4 DEF Init, SeatInv

\* What the next world allows, and what the seat is in it before it is told.
LEMMA NextWorld ==
  ASSUME SeatInv
  PROVE  /\ plugged' \subseteq Outputs /\ enabled' \subseteq plugged' /\ constraints' \subseteq Views
            => Readable(World)'
         /\ session' = session => Guarded(World', Configured(World), Pressed, seat)
         /\ session' = session /\ lockSurface' = lockSurface =>
              Guarded(World', Configured(World)', Pressed, seat)
<1>1. /\ World'.enabled = enabled' /\ World'.constraints = constraints'
      /\ World'.locked = session'.locked /\ World.locked = session.locked
      /\ World'.lockSurface = lockSurface' /\ World.lockSurface = lockSurface
  BY DEF World
<1>2. Guarded(World, Configured(World), Pressed, seat)
  BY DEF SeatInv
<1>3. lockSurface' = lockSurface => Configured(World)' = Configured(World)
  BY <1>1 DEF Configured
<1>4. session' = session => Guarded(World', Configured(World), Pressed, seat)
  BY <1>1, <1>2, SameLockGuarded
<1> QED BY <1>1, <1>3, <1>4 DEF Readable

\* Windows come and go.
LEMMA ViewsStep ==
  ASSUME SeatInv, NEW v \in Views, MapView(v) \/ UnmapView(v)
  PROVE  SeatInv'
<1>1. /\ UNCHANGED <<plugged, enabled, session, lockSurface, constraints, down>> /\ Pressed' = Pressed
  BY DEF Pressed, MapView, UnmapView
<1>2. Guarded(World', Configured(World'), Pressed, seat)
  BY <1>1, NextWorld
<1>3. \A s : Guarded(World', Configured(World'), Pressed, s) =>
        \A t \in Refresh(World', s, s.focused_output) : Guarded(World', Configured(World'), Pressed, t)
  BY RefreshGuarded
<1>4. CASE MapView(v)
  <2>1. \A s \in ViewFocus(World', seat, v) : Guarded(World', Configured(World'), Pressed, s)
    BY <1>2, ViewFocusGuarded
  <2>2. Guarded(World', Configured(World'), Pressed, seat')
    BY <1>3, <1>4, <2>1 DEF MapView
  <2> QED BY <1>1, <2>2 DEF SeatInv
<1>5. CASE UnmapView(v)
  <2>1. Guarded(World', Configured(World'), Pressed, ClearFocus(World', seat))
    BY <1>2, ClearFocusGuarded
  <2>2. Guarded(World', Configured(World'), Pressed, seat')
    BY <1>2, <1>3, <1>5, <2>1 DEF UnmapView
  <2> QED BY <1>1, <2>2 DEF SeatInv
<1> QED BY <1>4, <1>5

\* Layers come, change and go.
LEMMA LayersStep ==
  ASSUME SeatInv, NEW l \in Layers,
         \/ \E o \in Outputs, k \in Interactivity : NewLayer(l, o, k)
         \/ \E k \in Interactivity : CommitLayer(l, k)
         \/ MapLayer(l) \/ UnmapLayer(l) \/ DestroyLayer(l)
  PROVE  SeatInv'
<1>1. /\ UNCHANGED <<plugged, enabled, session, lockSurface, constraints, down>> /\ Pressed' = Pressed
  BY DEF Pressed, NewLayer, CommitLayer, MapLayer, UnmapLayer, DestroyLayer, layerUnchanged
<1>2. Guarded(World', Configured(World'), Pressed, seat)
  BY <1>1, NextWorld
<1>3. Guarded(World', Configured(World'), Pressed, LayerFocus(World', seat, l))
  BY <1>2, LayerFocusGuarded
<1>4. \A s \in RestoreKeyboardFocus(World', seat) : Guarded(World', Configured(World'), Pressed, s)
  BY <1>2, RestoreKeyboardFocusGuarded
<1>5. \A s \in LayersGone(World', seat, {l}) : Guarded(World', Configured(World'), Pressed, s)
  BY <1>2, LayersGoneGuarded
<1>6. Guarded(World', Configured(World'), Pressed, seat')
  BY <1>2, <1>3, <1>4, <1>5 DEF NewLayer, CommitLayer, MapLayer, UnmapLayer, DestroyLayer
<1> QED BY <1>1, <1>6 DEF SeatInv

\* leme_session_handle_new_lock takes the keyboard and the pointer away and
\* leaves every mode.
LEMMA NewLockStep ==
  ASSUME SeatInv, NewLock
  PROVE  SeatInv'
<1> DEFINE r == [seat EXCEPT !.activated = seat.activated \ {seat.focused_view},
                             !.pointer = NONE, !.active_constraint = NONE]
           q == SetMode(r, Common)
<1>1. UNCHANGED <<plugged, enabled, lockSurface, constraints, down>> /\ Pressed' = Pressed
  BY DEF Pressed, NewLock
<1>2. seat \in Seats /\ seat.handled = Pressed
  BY DEF SeatInv, Guarded
<1>3. r \in Seats /\ r.pointer = NONE /\ r.handled = Pressed
  BY <1>2 DEF Seats
<1>4. seat' = Enter(World', q, NONE)
  BY DEF NewLock
<1> HIDE DEF r
<1>5. q \in Seats /\ q.pointer = NONE /\ q.mode = Common /\ q.handled = Pressed
  BY <1>3, SeatAssumption DEF SetMode, Seats
<1> HIDE DEF q
<1>6. [q EXCEPT !.keyboard = NONE] \in Seats
      /\ [q EXCEPT !.keyboard = NONE].keyboard = NONE
      /\ [q EXCEPT !.keyboard = NONE].pointer = NONE
      /\ [q EXCEPT !.keyboard = NONE].mode = Common
      /\ [q EXCEPT !.keyboard = NONE].handled = Pressed
  BY <1>5 DEF Seats
<1>7. Guarded(World', Configured(World'), Pressed, [q EXCEPT !.keyboard = NONE])
  BY <1>6 DEF Guarded
<1>8. Guarded(World', Configured(World'), Pressed, seat')
  BY <1>4, <1>7, UpdateKeyboardGuarded DEF Enter
<1>9. session'.locked
  BY DEF NewLock
<1> QED BY <1>1, <1>8, <1>9 DEF SeatInv

\* The surfaces of a lock come, draw and go.
LEMMA LockSurfacesStep ==
  ASSUME SeatInv, NEW o \in Outputs,
         NewLockSurface(o) \/ CommitLockSurface(o) \/ DestroyLockSurface(o)
  PROVE  SeatInv'
<1>1. UNCHANGED <<plugged, enabled, session, constraints, down>> /\ Pressed' = Pressed
  BY DEF Pressed, NewLockSurface, CommitLockSurface, DestroyLockSurface
<1>2. Guarded(World', Configured(World), Pressed, seat) /\ Readable(World')
  BY <1>1, NextWorld DEF SeatInv
<1>3. /\ World.lockSurface = lockSurface /\ World'.lockSurface = lockSurface'
      /\ lockSurface \in [Outputs -> {"none", "created", "configured"}]
  BY DEF World, SeatInv
<1>5. CASE NewLockSurface(o)
  <2>1. Configured(World) \subseteq Configured(World')
    BY <1>3, <1>5 DEF NewLockSurface, Configured
  <2>2. Guarded(World', Configured(World'), Pressed, seat')
    BY <1>2, <1>5, <2>1, SameLockGuarded DEF NewLockSurface
  <2> QED BY <1>1, <1>3, <1>5, <2>2 DEF SeatInv, NewLockSurface
<1>6. CASE CommitLockSurface(o)
  <2>1. Configured(World) \subseteq Configured(World') /\ LockSurface(o) \in Configured(World')
    BY <1>3, <1>6 DEF CommitLockSurface, Configured
  <2>2. Guarded(World', Configured(World'), Pressed, seat)
    BY <1>2, <2>1, SameLockGuarded
  <2>3. Guarded(World', Configured(World'), Pressed, Enter(World', seat, LockSurface(o)))
    BY <2>1, <2>2, EnterGuarded, LockSurfaceIsSurface
  <2>4. Guarded(World', Configured(World'), Pressed, seat')
    BY <1>2, <1>6, <2>3, RefreshPointerGuarded DEF CommitLockSurface
  <2> QED BY <1>1, <1>3, <1>6, <2>4 DEF SeatInv, CommitLockSurface
<1>7. CASE DestroyLockSurface(o)
  <2>1. Configured(World) \ {LockSurface(o)} \subseteq Configured(World')
    BY <1>3, <1>7 DEF DestroyLockSurface, Configured
  <2>2. Guarded(World', Configured(World) \ {LockSurface(p) : p \in {o}}, Pressed, seat')
    BY <1>2, <1>7, LockSurfacesGoneGuarded DEF DestroyLockSurface
  <2>3. Configured(World) \ {LockSurface(p) : p \in {o}} \subseteq Configured(World')
    BY <2>1
  <2>4. Guarded(World', Configured(World'), Pressed, seat')
    BY <2>2, <2>3, SameLockGuarded
  <2> QED BY <1>1, <1>3, <1>7, <2>4 DEF SeatInv, DestroyLockSurface
<1> QED BY <1>5, <1>6, <1>7

\* The lock goes, with the session unlocked or with its client dead.
LEMMA LockGoesStep ==
  ASSUME SeatInv, Unlock \/ LockClientDies
  PROVE  SeatInv'
<1>1. /\ UNCHANGED <<plugged, enabled, constraints, down>> /\ Pressed' = Pressed
      /\ lockSurface' \in [Outputs -> {"none", "created", "configured"}]
  BY DEF Pressed, Unlock, LockClientDies, LockGone
<1>2. Readable(World')
  BY <1>1, NextWorld DEF SeatInv
<1>3. seat \in Seats /\ seat.handled = Pressed
  BY DEF SeatInv, Guarded
<1>4. World'.locked = session'.locked
  BY DEF World
<1>5. CASE Unlock
  <2> DEFINE r == [seat EXCEPT !.pointer = NONE, !.keyboard = NONE]
             A == Configured(World')
  <2>1. ~World'.locked
    BY <1>4, <1>5 DEF Unlock
  <2>2. r \in Seats /\ r.handled = Pressed
    BY <1>3 DEF Seats
  <2>3. \E s \in RestoreFocus(World', r) : seat' \in LockSurfacesGone(World', s, Outputs)
    BY <1>5 DEF Unlock
  <2> HIDE DEF r
  <2>4. Guarded(World', A, Pressed, r)
    BY <2>1, <2>2, UnlockedGuarded
  <2>5. \A s \in RestoreFocus(World', r) : Guarded(World', A, Pressed, s)
    BY <1>2, <2>4, RestoreFocusGuarded
  <2>6. Guarded(World', A \ {LockSurface(o) : o \in Outputs}, Pressed, seat')
    BY <1>2, <2>3, <2>5, LockSurfacesGoneGuarded
  <2>7. Guarded(World', A, Pressed, seat')
    BY <2>6, SameLockGuarded
  <2>8. ~session'.held
    BY <1>5 DEF Unlock
  <2> QED BY <1>1, <2>7, <2>8 DEF SeatInv
<1>6. CASE LockClientDies
  <2> DEFINE r == [seat EXCEPT !.pointer = NONE]
             q == [r EXCEPT !.keyboard = NONE]
  <2>1. /\ seat' \in UpdatePointer(World', Enter(World', r, NONE))
        /\ session.locked /\ session'.locked /\ ~session'.held
    BY <1>6 DEF LockClientDies, SeatInv
  <2>2. seat.mode = Common
    BY <2>1 DEF SeatInv, Guarded, World
  <2>3. q \in Seats /\ q.handled = Pressed /\ q.mode = Common /\ q.keyboard = NONE /\ q.pointer = NONE
    BY <1>3, <2>2 DEF Seats
  <2>4. Enter(World', r, NONE) = UpdateKeyboard(World', q)
    BY DEF Enter
  <2> HIDE DEF q
  <2>5. Guarded(World', Configured(World'), Pressed, q)
    BY <2>3 DEF Guarded
  <2>6. Guarded(World', Configured(World'), Pressed, UpdateKeyboard(World', q))
    BY <2>5, UpdateKeyboardGuarded
  <2>7. Guarded(World', Configured(World'), Pressed, seat')
    BY <1>2, <2>1, <2>4, <2>6, UpdatePointerGuarded
  <2> QED BY <1>1, <2>1, <2>7 DEF SeatInv
<1> QED BY <1>5, <1>6

\* Outputs are disabled, enabled and plugged: leme_output_reconcile.
LEMMA OutputsStep ==
  ASSUME SeatInv, NEW o \in Outputs, Disable(o) \/ Enable(o) \/ Plug(o)
  PROVE  SeatInv'
<1>1. /\ UNCHANGED <<session, lockSurface, constraints, down>> /\ Pressed' = Pressed
      /\ plugged' \subseteq Outputs /\ enabled' \subseteq plugged'
  BY DEF Pressed, Disable, Enable, SetEnabled, Plug, SeatInv
<1>2. Guarded(World', Configured(World'), Pressed, seat) /\ Readable(World')
  BY <1>1, NextWorld DEF SeatInv
<1>3. PICK lost : seat' \in Reconcile(World', seat, lost)
  BY DEF Disable, Enable, SetEnabled, Plug
<1>4. Guarded(World', Configured(World'), Pressed, seat')
  BY <1>2, <1>3, ReconcileGuarded
<1> QED BY <1>1, <1>4 DEF SeatInv

\* An output is unplugged: leme_output_handle_destroy.  Its lock surface goes, and
\* the seat is told last.
LEMMA UnplugStep ==
  ASSUME SeatInv, NEW o \in Outputs, Unplug(o)
  PROVE  SeatInv'
<1> DEFINE gone == {l \in Layers : layer[l].output = o}
           w == [World EXCEPT !.layer = layer', !.inhibitors = inhibitors']
           A == Configured(World)
<1>1. /\ UNCHANGED <<session, constraints, down>> /\ Pressed' = Pressed
      /\ plugged' = plugged \ {o} /\ enabled' = enabled \ {o}
      /\ lockSurface' = [lockSurface EXCEPT ![o] = "none"]
  BY DEF Pressed, Unplug
<1>2. Guarded(World', A, Pressed, seat) /\ Readable(World')
  BY <1>1, NextWorld DEF SeatInv
<1>3. World'.locked = w.locked
  BY <1>1 DEF World
<1>4. PICK successor, s, lost :
        /\ successor \in IF enabled' # {} THEN enabled' ELSE plugged'
        /\ s \in LayersGone(w, seat, gone)
        /\ \E t \in Reconcile(World', [s EXCEPT !.focused_output =
                                          IF s.focused_output = o THEN successor
                                          ELSE s.focused_output], lost) :
             seat' \in LockSurfacesGone(World', t, {o})
  BY ZenonT(90) DEF Unplug
<1> DEFINE focused == [s EXCEPT !.focused_output = IF s.focused_output = o THEN successor
                                                   ELSE s.focused_output]
<1> HIDE DEF w, gone
<1>5. Guarded(w, A, Pressed, seat)
  BY <1>2, <1>3, SameLockGuarded
<1>6. Guarded(World', A, Pressed, s)
  BY <1>3, <1>4, <1>5, LayersGoneGuarded, SameLockGuarded
<1>7. Guarded(World', A, Pressed, focused)
  <2>1. successor \in Outputs
    BY <1>1, <1>4 DEF SeatInv
  <2>2. s.focused_output \in Outputs \cup {NONE}
    BY <1>6 DEF Guarded, Seats
  <2> QED BY <1>6, <2>1, <2>2, WithOutput
<1> HIDE DEF focused
<1>8. \A t \in Reconcile(World', focused, lost) : Guarded(World', A, Pressed, t)
  BY <1>2, <1>7, ReconcileGuarded
<1>9. Guarded(World', A \ {LockSurface(p) : p \in {o}}, Pressed, seat')
  BY <1>2, <1>4, <1>8, LockSurfacesGoneGuarded DEF focused
<1>10. A \ {LockSurface(p) : p \in {o}} \subseteq Configured(World')
  <2>1. /\ World.lockSurface = lockSurface /\ World'.lockSurface = lockSurface'
        /\ lockSurface \in [Outputs -> {"none", "created", "configured"}]
    BY DEF World, SeatInv
  <2>2. Configured(World) \ {LockSurface(o)} \subseteq Configured(World')
    BY <1>1, <2>1 DEF Configured
  <2> QED BY <2>2
<1>11. Guarded(World', Configured(World'), Pressed, seat')
  BY <1>9, <1>10, SameLockGuarded
<1> QED BY <1>1, <1>11 DEF SeatInv

\* The pointer moves and presses buttons.
LEMMA PointerStep ==
  ASSUME SeatInv, NEW hit \in Surfaces \cup {NONE}, Point(hit) \/ Press(hit)
  PROVE  SeatInv'
<1>1. World' = World /\ UNCHANGED <<plugged, enabled, session, lockSurface, constraints, down>> /\ Pressed' = Pressed
  BY DEF Pressed, Point, Press, world, World
<1>2. Guarded(World, Configured(World), Pressed, seat) /\ Readable(World)
  BY DEF SeatInv, World, Readable
<1>3. \A s \in ProcessMotion(World, seat, hit) : Guarded(World, Configured(World), Pressed, s)
  BY <1>2, ProcessMotionGuarded
<1>4. \A s \in ProcessMotion(World, seat, hit) :
        hit \in Layers => Guarded(World, Configured(World), Pressed, LayerFocus(World, s, hit))
  BY <1>3, LayerFocusGuarded
<1>5. Guarded(World, Configured(World), Pressed, seat')
  BY <1>3, <1>4 DEF Point, Press
<1> QED BY <1>1, <1>5 DEF SeatInv

\* Clients inhibit shortcuts and constrain the pointer.
LEMMA ProtocolsStep ==
  ASSUME SeatInv,
         \/ \E surface \in Surfaces : NewInhibitor(surface) \/ DestroyInhibitor(surface)
         \/ \E v \in Views : NewConstraint(v) \/ DestroyConstraint(v)
  PROVE  SeatInv'
<1>1. UNCHANGED <<plugged, enabled, session, lockSurface, down>> /\ Pressed' = Pressed
      /\ constraints' \subseteq Views
  BY DEF Pressed, NewInhibitor, DestroyInhibitor, NewConstraint, DestroyConstraint, SeatInv
<1>2. Guarded(World', Configured(World'), Pressed, seat) /\ Readable(World')
  BY <1>1, NextWorld DEF SeatInv
<1>3. Guarded(World', Configured(World'), Pressed, UpdateKeyboard(World', seat))
  BY <1>2, UpdateKeyboardGuarded
<1>4. \A surface : Guarded(World', Configured(World'), Pressed,
        UpdateKeyboard(World', [seat EXCEPT !.active_inhibitor =
          IF seat.active_inhibitor = surface THEN NONE ELSE seat.active_inhibitor]))
  <2>1. \A surface : Guarded(World', Configured(World'), Pressed, [seat EXCEPT !.active_inhibitor =
          IF seat.active_inhibitor = surface THEN NONE ELSE seat.active_inhibitor])
    BY <1>2 DEF Guarded, Seats
  <2> QED BY <2>1, UpdateKeyboardGuarded
<1>5. \A t \in UpdatePointer(World', seat) : Guarded(World', Configured(World'), Pressed, t)
  BY <1>2, UpdatePointerGuarded
<1>6. \A v : Guarded(World', Configured(World'), Pressed, [seat EXCEPT !.active_constraint =
        IF seat.active_constraint = v THEN NONE ELSE seat.active_constraint])
  BY <1>2 DEF Guarded, Seats
<1>7. Guarded(World', Configured(World'), Pressed, seat')
  BY <1>3, <1>4, <1>5, <1>6
  DEF NewInhibitor, DestroyInhibitor, NewConstraint, DestroyConstraint
<1> QED BY <1>1, <1>7 DEF SeatInv

\* In a locked session only reserved bindings work, and they are no modes.
LEMMA KeysStep ==
  ASSUME SeatInv, NEW k \in Keys, PressKey(k) \/ ReleaseKey(k)
  PROVE  SeatInv'
<1> DEFINE s == SetMode(seat, ModeOfPress(seat, k))
           b == BindingOf(s, k)
           A == Configured(World)
<1>1. World' = World /\ UNCHANGED <<plugged, enabled, session, lockSurface, constraints>>
  BY DEF PressKey, ReleaseKey, world, World
<1>2. Guarded(World, A, Pressed, seat) /\ World.locked = session.locked
      /\ down \in [Keys -> {"up", "client", "binding"}]
  BY DEF SeatInv, World
<1>3. down' \in [Keys -> {"up", "client", "binding"}]
  BY <1>2 DEF PressKey, ReleaseKey
<1>4. CASE PressKey(k)
  <2>1. World.locked => ModeOfPress(seat, k) = Common
    BY <1>2 DEF ModeOfPress, Guarded
  <2>2. Guarded(World, A, Pressed, s)
    BY <1>2, <2>1, SetModeGuarded
  <2> HIDE DEF s
  <2>3. b # NONE /\ World.locked => b \notin Modes
    BY <1>2, SeatAssumption DEF BindingOf
  <2> HIDE DEF b
  <2>4. CASE b = NONE
    <3>1. seat' = s /\ down' = [down EXCEPT ![k] = "client"] /\ down[k] = "up"
      BY <1>4, <2>4 DEF PressKey, s, b
    <3>2. Pressed' = Pressed
      BY <1>2, <3>1 DEF Pressed
    <3> QED BY <1>1, <1>3, <2>2, <3>1, <3>2 DEF SeatInv
  <2>5. CASE b # NONE
    <3> DEFINE r == SetMode(s, b)
               q == [r EXCEPT !.active_constraint = NONE,
                              !.handled = r.handled \cup ({k} \cap Tracked)]
    <3>1. seat' = q /\ down' = [down EXCEPT ![k] = "binding"]
      BY <1>4, <2>5 DEF PressKey, s, b
    <3>2. Pressed' = Pressed \cup ({k} \cap Tracked)
      BY <1>2, <3>1, SeatAssumption DEF Pressed
    <3>3. Guarded(World, A, Pressed, r)
      BY <2>2, <2>3, <2>5, SetModeGuarded
    <3> HIDE DEF r
    <3>4. Guarded(World, A, Pressed', q)
      BY <3>2, <3>3, ZenonT(90) DEF Guarded, Seats
    <3> QED BY <1>1, <1>3, <3>1, <3>4 DEF SeatInv
  <2> QED BY <2>4, <2>5
<1>5. CASE ReleaseKey(k)
  <2>1. Pressed' = Pressed \ {k}
    BY <1>2, <1>5, SeatAssumption DEF ReleaseKey, Pressed
  <2>2. seat.handled = Pressed
    BY <1>2 DEF Guarded
  <2>3. Guarded(World, A, Pressed \ {k}, [seat EXCEPT !.handled = seat.handled \ {k}])
    BY <1>2 DEF Guarded, Seats
  <2>4. k \notin seat.handled => Guarded(World, A, Pressed \ {k}, seat)
    BY <1>2, <2>2 DEF Guarded
  <2>5. Guarded(World, A, Pressed', seat')
    BY <1>5, <2>1, <2>3, <2>4 DEF ReleaseKey, Swallowed
  <2> QED BY <1>1, <1>3, <2>5 DEF SeatInv
<1> QED BY <1>4, <1>5

-----------------------------------------------------------------------------
(* The theorem                                                             *)

LEMMA StepSeatInv == SeatInv /\ [Next]_vars => SeatInv'
<1> SUFFICES ASSUME SeatInv, [Next]_vars PROVE SeatInv'
  OBVIOUS
<1>1. CASE UNCHANGED vars
  BY <1>1 DEF vars, world, SeatInv, World, Pressed
<1>2. CASE Next
  <2>1. Handlers
    BY <1>2 DEF Next
  <2> QED BY <2>1, ViewsStep, LayersStep, NewLockStep, LockSurfacesStep, LockGoesStep,
             OutputsStep, UnplugStep, PointerStep, ProtocolsStep, KeysStep DEF Handlers
<1> QED BY <1>1, <1>2

\* While the session is locked (leme_session_handle_new_lock) the keyboard and the
\* pointer reach configured lock surfaces only and the mode is common, whatever
\* windows, layers, outputs, keys and the lock client do, in a session of any size.
THEOREM LockHolds == Spec => []LockSound
<1>1. SeatInv => LockSound
  BY DEF SeatInv, Guarded, Configured, World, LockSound, LockHoldsInput, LockedInCommonMode
<1> QED BY InitSeatInv, StepSeatInv, <1>1, PTL DEF Spec

\* The release of a tracked key goes to a client exactly when its press did
\* (keyboard->handled), for every set of bindings and modes and whatever else
\* moved the focus, the mode or the lock in between.
THEOREM ReleasesMatch == Spec => []ReleasesMatchPresses
<1>1. SeatInv => ReleasesMatchPresses
  BY DEF SeatInv, Guarded, Pressed, ReleasesMatchPresses, Swallowed
<1> QED BY InitSeatInv, StepSeatInv, <1>1, PTL DEF Spec

-----------------------------------------------------------------------------
(* Who has the keyboard.                                                   *)
(*                                                                         *)
(* A seat is Kept if no window but the focused one is active and its       *)
(* pointer constraint is sound, up to a set X of constraints that the next *)
(* update may still find stale; it is Settled if moreover the keyboard is  *)
(* where the focus says, and Focused if the inhibitor followed it.  The    *)
(* handlers start from a Focused seat, some of them break it, and each     *)
(* lemma says what an operator mends: RestoreKeyboardFocus asks least.     *)

\* A layer that may have the keyboard.
Wanted(w, l) == LayerOn(w, l) /\ w.layer[l].keyboard # "none"

\* What every operator leaves true of a seat.
Kept(w, X, s) ==
  /\ s \in Seats /\ s.focused_output \in w.plugged \cup {NONE}
  /\ s.activated \subseteq {s.focused_view}
  /\ w.locked => s.activated = {}
  /\ s.focused_layer # NONE => s.focused_view = NONE
  /\ s.active_constraint \in {NONE} \cup X \cup ({s.pointer} \cap w.constraints)

\* Only the focused window is active.
Active(w, s) == s.activated = IF w.locked THEN {} ELSE {s.focused_view} \ {NONE}

\* The keyboard is on the focused layer or window.
Placed(s) == s.keyboard = IF s.focused_layer # NONE THEN s.focused_layer ELSE s.focused_view

\* And what the handlers leave when they are through, but for the inhibitor.
Settled(w, X, s) ==
  /\ Kept(w, X, s) /\ Active(w, s)
  /\ ~w.locked => /\ Placed(s)
                  /\ s.focused_layer # NONE => Wanted(w, s.focused_layer)

\* The active inhibitor is the one of the surface that has the keyboard.
Inhibited(w, s) ==
  s.active_inhibitor = IF s.keyboard \in w.inhibitors THEN s.keyboard ELSE NONE

Focused(w, X, s) == Settled(w, X, s) /\ Inhibited(w, s)

\* The type invariant but for the seat; a lock has the surfaces.
WorldOK ==
  /\ plugged \subseteq Outputs /\ enabled \subseteq plugged
  /\ home \in [Views -> plugged \cup {NONE}]
  /\ layer \in [Layers -> [output : Outputs \cup {NONE}, mapped : BOOLEAN,
                           keyboard : Interactivity]]
  /\ session \in [locked : BOOLEAN, held : BOOLEAN, abandoned : BOOLEAN]
  /\ lockSurface \in [Outputs -> {"none", "created", "configured"}]
  /\ unanswered \subseteq {o \in Outputs : lockSurface[o] # "none"}
  /\ inhibitors \subseteq Surfaces /\ constraints \subseteq Views
  /\ down \in [Keys -> {"up", "client", "binding"}]
  /\ around \in Scenarios
  /\ session.held => session.locked
  /\ ~session.held => lockSurface = [o \in Outputs |-> "none"]

\* The inductive invariant.
FocusInv ==
  /\ WorldOK
  /\ Focused(World, {}, seat)

-----------------------------------------------------------------------------
(* The operators                                                           *)

LEMMA SurfacesApart ==
  /\ NONE \notin Surfaces /\ NONE \notin Views /\ NONE \notin Layers /\ NONE \notin Outputs
  /\ Views \cap Layers = {}
  /\ \A o : LockSurface(o) # NONE \/ o \notin Outputs
  /\ \A o \in Outputs : LockSurface(o) \notin Views \cup Layers \cup {NONE}
  BY SeatAssumption DEF Surfaces

\* leme_input_protocols_update_keyboard_focus changes the mode and the active
\* inhibitor, and leaves the inhibitor where the keyboard is.
LEMMA UpdateKeyboardGives ==
  ASSUME NEW w, NEW s \in Seats
  PROVE  LET t == UpdateKeyboard(w, s)
         IN /\ t \in Seats /\ Inhibited(w, t)
            /\ t.focused_output = s.focused_output /\ t.focused_layer = s.focused_layer
            /\ t.focused_view = s.focused_view /\ t.activated = s.activated
            /\ t.keyboard = s.keyboard /\ t.pointer = s.pointer
            /\ t.active_constraint = s.active_constraint
<1> DEFINE target == IF s.keyboard \in w.inhibitors THEN s.keyboard ELSE NONE
           r == IF target = NONE THEN s ELSE [s EXCEPT !.mode = Common]
           t == [r EXCEPT !.active_inhibitor = target]
<1>1. SetMode(s, Common) = [s EXCEPT !.mode = Common]
  BY SeatAssumption DEF SetMode
<1>2. UpdateKeyboard(w, s) = IF target = s.active_inhibitor THEN s ELSE t
  BY <1>1 DEF UpdateKeyboard
<1>3. target \in Surfaces \cup {NONE}
  BY DEF Seats
<1>4. target = IF s.keyboard \in w.inhibitors THEN s.keyboard ELSE NONE
  OBVIOUS
<1> HIDE DEF target
<1>5. /\ r \in Seats
      /\ r.focused_output = s.focused_output /\ r.focused_layer = s.focused_layer
      /\ r.focused_view = s.focused_view /\ r.activated = s.activated
      /\ r.keyboard = s.keyboard /\ r.pointer = s.pointer
      /\ r.active_constraint = s.active_constraint
  BY SeatAssumption DEF Seats
<1> HIDE DEF r
<1>6. /\ t \in Seats /\ t.active_inhibitor = target
      /\ t.focused_output = r.focused_output /\ t.focused_layer = r.focused_layer
      /\ t.focused_view = r.focused_view /\ t.activated = r.activated
      /\ t.keyboard = r.keyboard /\ t.pointer = r.pointer
      /\ t.active_constraint = r.active_constraint
  BY <1>3, <1>5 DEF Seats
<1> HIDE DEF t
<1> QED BY <1>2, <1>4, <1>5, <1>6 DEF Inhibited

LEMMA UpdateKeyboardKept ==
  ASSUME NEW w, NEW X, NEW s, Kept(w, X, s)
  PROVE  Kept(w, X, UpdateKeyboard(w, s)) /\ Inhibited(w, UpdateKeyboard(w, s))
  BY UpdateKeyboardGives DEF Kept

LEMMA UpdateKeyboardSettles ==
  ASSUME NEW w, NEW X, NEW s, Settled(w, X, s)
  PROVE  Focused(w, X, UpdateKeyboard(w, s))
  BY UpdateKeyboardGives DEF Focused, Settled, Kept, Active, Placed

\* The keyboard enters a surface.
LEMMA EnterKept ==
  ASSUME NEW w, NEW X, NEW s, NEW surface \in Surfaces \cup {NONE}, Kept(w, X, s)
  PROVE  LET t == Enter(w, s, surface)
         IN /\ Kept(w, X, t) /\ Inhibited(w, t) /\ t.keyboard = surface
            /\ t.focused_output = s.focused_output /\ t.focused_layer = s.focused_layer
            /\ t.focused_view = s.focused_view /\ t.activated = s.activated
            /\ t.pointer = s.pointer
<1> DEFINE r == [s EXCEPT !.keyboard = surface]
<1>1. /\ Kept(w, X, r) /\ r \in Seats /\ r.keyboard = surface
      /\ r.focused_output = s.focused_output /\ r.focused_layer = s.focused_layer
      /\ r.focused_view = s.focused_view /\ r.activated = s.activated
      /\ r.pointer = s.pointer
  BY DEF Kept, Seats
<1>2. Enter(w, s, surface) = UpdateKeyboard(w, r)
  BY DEF Enter
<1> HIDE DEF r
<1> QED BY <1>1, <1>2, UpdateKeyboardGives, UpdateKeyboardKept

\* leme_view_clear_focus
LEMMA ClearFocusKept ==
  ASSUME NEW w, NEW X, NEW s, Kept(w, X, s)
  PROVE  LET t == ClearFocus(w, s)
         IN /\ Kept(w, X, t) /\ Active(w, t)
            /\ t.focused_view = NONE /\ t.focused_layer = s.focused_layer
            /\ t.focused_output = s.focused_output
            /\ Inhibited(w, s) \/ ~w.locked => Inhibited(w, t)
            /\ ~w.locked => t.keyboard = NONE
<1> DEFINE r == [s EXCEPT !.activated = s.activated \ {s.focused_view}, !.focused_view = NONE]
<1>1. /\ Kept(w, X, r) /\ r.activated = {} /\ r.focused_view = NONE
      /\ r.focused_layer = s.focused_layer /\ r.focused_output = s.focused_output
      /\ Inhibited(w, s) => Inhibited(w, r)
  BY ZenonT(90) DEF Kept, Seats, Inhibited
<1>2. ClearFocus(w, s) = IF w.locked THEN r ELSE Enter(w, r, NONE)
  BY DEF ClearFocus
<1> HIDE DEF r
<1> QED BY <1>1, <1>2, EnterKept DEF Active

\* It leaves a focused seat focused unless a layer has the keyboard.
LEMMA ClearFocusFocused ==
  ASSUME NEW w, NEW X, NEW s, Focused(w, X, s) \/ (~w.locked /\ Kept(w, X, s)),
         ~w.locked => s.focused_layer = NONE
  PROVE  Focused(w, X, ClearFocus(w, s))
  BY ClearFocusKept DEF Focused, Settled, Placed

LEMMA WithoutLayerKept ==
  ASSUME NEW w, NEW X, NEW s, Kept(w, X, s)
  PROVE  LET t == [s EXCEPT !.focused_layer = NONE]
         IN /\ Kept(w, X, t) /\ t.focused_layer = NONE
            /\ t.focused_output = s.focused_output /\ t.focused_view = s.focused_view
            /\ t.activated = s.activated
            /\ Inhibited(w, s) => Inhibited(w, t)
            /\ Active(w, s) => Active(w, t)
  BY DEF Kept, Seats, Inhibited, Active

\* leme_view_focus: a window gets the keyboard unless an exclusive layer has it
\* or the session is locked.
LEMMA ViewFocusGives ==
  ASSUME NEW w, NEW X, NEW s, NEW v \in Views, Kept(w, X, s), ~w.locked,
         NEW t \in ViewFocus(w, s, v)
  PROVE  \/ t = s /\ s.focused_layer # NONE
         \/ /\ Kept(w, X, t) /\ Inhibited(w, t) /\ Placed(t)
            /\ t.focused_layer = NONE /\ t.focused_view = v
            /\ t.focused_output = s.focused_output
            /\ Active(w, s) => Active(w, t)
<1> DEFINE r == [s EXCEPT !.focused_layer = NONE,
                          !.activated = IF s.focused_view = v THEN s.activated
                                        ELSE (s.activated \ {s.focused_view}) \cup {v},
                          !.focused_view = v]
<1>1. /\ Kept(w, X, r) /\ r.focused_layer = NONE /\ r.focused_view = v
      /\ r.focused_output = s.focused_output
      /\ Active(w, s) => Active(w, r)
  BY SurfacesApart, ZenonT(90) DEF Kept, Seats, Active
<1>2. \/ t = s /\ s.focused_layer # NONE
      \/ t = Enter(w, r, v)
  BY DEF ViewFocus, Exclusive
<1>3. v \in Surfaces \cup {NONE}
  BY DEF Surfaces
<1> HIDE DEF r
<1> DEFINE e == Enter(w, r, v)
<1>4. /\ Kept(w, X, e) /\ Inhibited(w, e) /\ e.keyboard = v
      /\ e.focused_output = r.focused_output /\ e.focused_layer = NONE
      /\ e.focused_view = v /\ e.activated = r.activated
  BY <1>1, <1>3, EnterKept
<1> HIDE DEF e
<1>5. Placed(e) /\ (Active(w, r) => Active(w, e))
  BY <1>1, <1>4 DEF Placed, Active
<1> QED BY <1>1, <1>2, <1>4, <1>5 DEF e

LEMMA ViewFocusFocused ==
  ASSUME NEW w, NEW X, NEW s, NEW v \in Views, Focused(w, X, s)
  PROVE  \A t \in ViewFocus(w, s, v) : Focused(w, X, t)
<1>1. CASE w.locked
  BY <1>1 DEF ViewFocus
<1>2. CASE ~w.locked
  <2> SUFFICES ASSUME NEW t \in ViewFocus(w, s, v) PROVE Focused(w, X, t)
    OBVIOUS
  <2>1. Kept(w, X, s) /\ Active(w, s)
    BY DEF Focused, Settled
  <2>2. \/ t = s
        \/ /\ Kept(w, X, t) /\ Inhibited(w, t) /\ Placed(t) /\ t.focused_layer = NONE
           /\ Active(w, t)
    BY <1>2, <2>1, ViewFocusGives
  <2> QED BY <2>2 DEF Focused, Settled
<1> QED BY <1>1, <1>2

\* No layer is focused, so none holds the keyboard.
LEMMA NoLayerExclusive ==
  ASSUME NEW w, NEW s, s.focused_layer = NONE
  PROVE  Exclusive(w, s) = {FALSE}
  BY DEF Exclusive

\* leme_tags_refresh_visibility
LEMMA RefreshFocused ==
  ASSUME NEW w, NEW X, NEW s, NEW o, Focused(w, X, s)
  PROVE  \A t \in Refresh(w, s, o) : Focused(w, X, t)
<1> DEFINE r == [s EXCEPT !.focused_layer = NONE]
<1>1. \A v \in Views : \A t \in ViewFocus(w, s, v) : Focused(w, X, t)
  BY ViewFocusFocused
<1>2. Focused(w, X, ClearFocus(w, r))
  <2>1. Kept(w, X, r) /\ r.focused_layer = NONE /\ Inhibited(w, r) /\ Active(w, r)
    BY WithoutLayerKept DEF Focused, Settled
  <2> HIDE DEF r
  <2>2. w.locked => Focused(w, X, r)
    BY <2>1 DEF Focused, Settled
  <2> QED BY <2>1, <2>2, ClearFocusFocused
<1> QED BY <1>1, <1>2 DEF Refresh

\* leme_layer_focus, where it takes effect.
LEMMA LayerFocusTakes ==
  ASSUME NEW w, NEW X, NEW s, NEW l \in Layers, Kept(w, X, s),
         ~w.locked, Wanted(w, l), s.focused_layer # l
  PROVE  LET t == LayerFocus(w, s, l)
         IN Focused(w, X, t) /\ t.focused_layer = l
<1> DEFINE r == [ClearFocus(w, s) EXCEPT !.focused_layer = l]
<1>1. LayerFocus(w, s, l) = Enter(w, r, l)
  BY DEF LayerFocus, Wanted
<1>2. Kept(w, X, r) /\ r.focused_layer = l /\ r.focused_view = NONE /\ Active(w, r)
  <2> DEFINE q == ClearFocus(w, s)
  <2>1. Kept(w, X, q) /\ q.focused_view = NONE /\ Active(w, q)
    BY ClearFocusKept
  <2> HIDE DEF q
  <2>2. LET x == [q EXCEPT !.focused_layer = l]
        IN Kept(w, X, x) /\ x.focused_layer = l /\ x.focused_view = NONE /\ Active(w, x)
    BY <2>1 DEF Kept, Seats, Active
  <2> QED BY <2>2 DEF q
<1>3. l \in Surfaces \cup {NONE} /\ l # NONE
  BY SurfacesApart DEF Surfaces
<1> HIDE DEF r
<1> DEFINE e == Enter(w, r, l)
<1>4. /\ Kept(w, X, e) /\ Inhibited(w, e) /\ e.keyboard = l
      /\ e.focused_layer = l /\ e.focused_view = NONE /\ e.activated = r.activated
  BY <1>2, <1>3, EnterKept
<1> HIDE DEF e
<1>5. Focused(w, X, e)
  BY <1>2, <1>3, <1>4 DEF Focused, Settled, Placed, Active
<1> QED BY <1>1, <1>4, <1>5 DEF e

LEMMA LayerFocusFocused ==
  ASSUME NEW w, NEW X, NEW s, NEW l \in Layers, Focused(w, X, s)
  PROVE  Focused(w, X, LayerFocus(w, s, l))
<1>1. LayerFocus(w, s, l) = s \/ (~w.locked /\ Wanted(w, l) /\ s.focused_layer # l)
  BY DEF LayerFocus, Wanted
<1>2. Kept(w, X, s)
  BY DEF Focused, Settled
<1> QED BY <1>1, <1>2, LayerFocusTakes

\* leme_layer_restore_keyboard_focus of an unlocked session gives the keyboard to
\* an exclusive layer, else to a window of the focused output, else to nothing.
\* It makes no window active that had been made inactive by a lock.
LEMMA RestoreUnlocked ==
  ASSUME NEW w, NEW X, NEW s, Kept(w, X, s), ~w.locked, w.enabled \subseteq Outputs
  PROVE  \A t \in RestoreKeyboardFocus(w, s) :
           /\ Kept(w, X, t) /\ Inhibited(w, t) /\ Placed(t)
           /\ t.focused_layer # NONE => Wanted(w, t.focused_layer)
           /\ Active(w, s) => Active(w, t)
           /\ \/ Active(w, t)
              \/ t.focused_layer = NONE /\ t.focused_view \in {v \in Views : w.home[v] # NONE}
<1> DEFINE r == [s EXCEPT !.focused_layer = NONE]
           claims == {l \in Layers : LayerOn(w, l) /\ w.layer[l].keyboard = "exclusive"}
           Mended(t) ==
             /\ Kept(w, X, t) /\ Inhibited(w, t) /\ Placed(t)
             /\ t.focused_layer # NONE => Wanted(w, t.focused_layer)
             /\ Active(w, s) => Active(w, t)
             /\ \/ Active(w, t)
                \/ t.focused_layer = NONE /\ t.focused_view \in {v \in Views : w.home[v] # NONE}
<1>1. Kept(w, X, r) /\ r.focused_layer = NONE /\ (Active(w, s) => Active(w, r))
  BY WithoutLayerKept
<1>2. RestoreKeyboardFocus(w, s) =
        IF claims # {} THEN {LayerFocus(w, r, l) : l \in claims}
        ELSE IF r.focused_output \in w.enabled
             THEN {UpdateKeyboard(w, u) : u \in Refresh(w, r, r.focused_output)}
        ELSE {ClearFocus(w, r)}
  BY DEF RestoreKeyboardFocus
<1>3. \A l \in claims : Wanted(w, l) /\ l # NONE
  BY SurfacesApart DEF Wanted
<1>4. claims \subseteq Layers
  OBVIOUS
<1> HIDE DEF r, claims
<1>5. \A t : Focused(w, X, t) => Mended(t)
  BY DEF Focused, Settled
<1>6. \A l \in claims : Mended(LayerFocus(w, r, l))
  <2>1. \A l \in claims : Focused(w, X, LayerFocus(w, r, l))
    BY <1>1, <1>3, <1>4, LayerFocusTakes
  <2> QED BY <2>1, <1>5
<1>7. Mended(ClearFocus(w, r))
  BY <1>1, <1>5, ClearFocusFocused
<1>8. ASSUME NEW u \in Refresh(w, r, r.focused_output), r.focused_output \in w.enabled
      PROVE  Mended(UpdateKeyboard(w, u))
  <2> DEFINE present == {v \in Views : w.home[v] = r.focused_output}
             c == [r EXCEPT !.focused_layer = NONE]
  <2>1. \/ \E v \in present : u \in ViewFocus(w, r, v)
        \/ u = ClearFocus(w, c)
    <3>1. Exclusive(w, r) = {FALSE}
      BY <1>1, NoLayerExclusive
    <3> QED BY <3>1 DEF Refresh
  <2>2. CASE \E v \in present : u \in ViewFocus(w, r, v)
    <3>1. PICK v \in present : u \in ViewFocus(w, r, v)
      BY <2>2
    <3>2. v \in Views /\ w.home[v] # NONE
      BY <1>8, SurfacesApart
    <3>3. /\ Kept(w, X, u) /\ Inhibited(w, u) /\ Placed(u)
          /\ u.focused_layer = NONE /\ u.focused_view = v
          /\ Active(w, r) => Active(w, u)
      BY <1>1, <3>1, <3>2, ViewFocusGives
    <3>4. u \in Seats
      BY <3>3 DEF Kept
    <3> DEFINE t == UpdateKeyboard(w, u)
    <3>5. /\ Kept(w, X, t) /\ Inhibited(w, t)
          /\ t.focused_layer = NONE /\ t.focused_view = v
          /\ t.keyboard = u.keyboard /\ t.activated = u.activated
      BY <3>3, <3>4, UpdateKeyboardGives, UpdateKeyboardKept
    <3> HIDE DEF t
    <3>6. Placed(t) /\ (Active(w, u) => Active(w, t))
      BY <3>3, <3>5 DEF Placed, Active
    <3>7. Mended(t)
      BY <1>1, <3>2, <3>3, <3>5, <3>6
    <3> QED BY <3>7 DEF t
  <2>3. CASE u = ClearFocus(w, c)
    <3>1. Kept(w, X, c) /\ c.focused_layer = NONE
      BY <1>1, WithoutLayerKept
    <3> HIDE DEF c
    <3>2. Focused(w, X, u)
      BY <2>3, <3>1, ClearFocusFocused
    <3>3. Focused(w, X, UpdateKeyboard(w, u))
      BY <3>2, UpdateKeyboardSettles DEF Focused
    <3> QED BY <3>3, <1>5
  <2> QED BY <2>1, <2>2, <2>3
<1> HIDE DEF Mended
<1>9. \A t \in RestoreKeyboardFocus(w, s) : Mended(t)
  BY <1>2, <1>6, <1>7, <1>8
<1> QED BY <1>9 DEF Mended

\* From a seat whose windows are right it makes everything right.
LEMMA RestoreFocuses ==
  ASSUME NEW w, NEW X, NEW s, Kept(w, X, s), Active(w, s), w.enabled \subseteq Outputs,
         w.locked => Inhibited(w, s)
  PROVE  \A t \in RestoreKeyboardFocus(w, s) : Focused(w, X, t)
<1>1. CASE w.locked
  BY <1>1 DEF RestoreKeyboardFocus, Focused, Settled
<1>2. CASE ~w.locked
  BY <1>2, RestoreUnlocked DEF Focused, Settled
<1> QED BY <1>1, <1>2

\* leme_input_protocols_update_pointer_focus leaves no stale constraint.
LEMMA UpdatePointerFocused ==
  ASSUME NEW w, NEW X, NEW s, w.constraints \subseteq Views, Focused(w, X, s)
  PROVE  \A t \in UpdatePointer(w, s) : Focused(w, {}, t)
<1>1. \A c \in {NONE} \cup ({s.pointer} \cap w.constraints) :
        Focused(w, {}, [s EXCEPT !.active_constraint = c])
  BY DEF Focused, Settled, Kept, Active, Placed, Inhibited, Seats
<1> QED BY <1>1 DEF UpdatePointer

\* The pointer goes elsewhere, which makes the constraint stale.
LEMMA PointerMoved ==
  ASSUME NEW w, NEW X, NEW s, NEW surface \in Surfaces \cup {NONE}, Focused(w, X, s)
  PROVE  Focused(w, Views, [s EXCEPT !.pointer = surface])
  BY DEF Focused, Settled, Kept, Active, Placed, Inhibited, Seats

LEMMA OutputChosen ==
  ASSUME NEW w, NEW X, NEW s, NEW o \in w.plugged \cup {NONE}, Focused(w, X, s),
         w.plugged \subseteq Outputs
  PROVE  Focused(w, X, [s EXCEPT !.focused_output = o])
  BY DEF Focused, Settled, Kept, Active, Placed, Inhibited, Seats

\* What a handler reads.
Sane(w) == /\ w.plugged \subseteq Outputs /\ w.enabled \subseteq w.plugged
           /\ w.constraints \subseteq Views

LEMMA FollowPointerFocused ==
  ASSUME NEW w, NEW X, NEW s, Sane(w), Focused(w, X, s)
  PROVE  \A t \in FollowPointer(w, s) : Focused(w, X, t)
<1>1. \A o \in w.enabled : Focused(w, X, [s EXCEPT !.focused_output = o])
  BY OutputChosen DEF Sane
<1>2. \A o \in w.enabled : \A t \in Refresh(w, [s EXCEPT !.focused_output = o], o) :
        Focused(w, X, t)
  BY <1>1, RefreshFocused
<1> QED BY <1>2 DEF FollowPointer

LEMMA ProcessMotionFocused ==
  ASSUME NEW w, NEW X, NEW s, NEW hit \in Surfaces \cup {NONE}, Sane(w), Focused(w, X, s)
  PROVE  \A t \in ProcessMotion(w, s, hit) : Focused(w, {}, t)
<1> DEFINE surface == IF Allowed(w, hit) THEN hit ELSE NONE
           followed == IF w.locked THEN {s} ELSE FollowPointer(w, s)
           hovered == IF w.locked \/ surface \notin Views THEN followed
                      ELSE UNION {ViewFocus(w, t, surface) : t \in followed}
<1>1. surface \in Surfaces \cup {NONE}
  OBVIOUS
<1>2. \A t \in followed : Focused(w, X, t)
  BY FollowPointerFocused
<1>3. \A t \in hovered : Focused(w, X, t)
  <2> HIDE DEF surface, followed
  <2>1. \A t \in followed : surface \in Views =>
          \A u \in ViewFocus(w, t, surface) : Focused(w, X, u)
    BY <1>2, ViewFocusFocused
  <2> QED BY <1>2, <2>1
<1>4. ProcessMotion(w, s, hit) =
        UNION {UpdatePointer(w, [t EXCEPT !.pointer = surface]) : t \in hovered}
  BY DEF ProcessMotion
<1> HIDE DEF surface, hovered
<1>5. \A t \in hovered : Focused(w, Views, [t EXCEPT !.pointer = surface])
  BY <1>1, <1>3, PointerMoved
<1>6. \A t \in hovered : \A u \in UpdatePointer(w, [t EXCEPT !.pointer = surface]) :
        Focused(w, {}, u)
  BY <1>5, UpdatePointerFocused DEF Sane
<1> QED BY <1>4, <1>6

LEMMA RefreshPointerFocused ==
  ASSUME NEW w, NEW X, NEW s, Sane(w), Focused(w, X, s)
  PROVE  \A t \in RefreshPointer(w, s) : Focused(w, {}, t)
<1>1. Hits(w) \subseteq Surfaces \cup {NONE}
  BY HitsAreSurfaces DEF Sane, Readable
<1>2. \A hit \in Hits(w) : \A t \in ProcessMotion(w, s, hit) : Focused(w, {}, t)
  BY <1>1, ProcessMotionFocused
<1> QED BY <1>2 DEF RefreshPointer

-----------------------------------------------------------------------------
(* Surfaces that go, the outputs                                           *)

\* Layers that are destroyed leave the keyboard and the pointer, and a restore
\* follows if the focused one is among them.
LEMMA LayersGoneFocused ==
  ASSUME NEW w, NEW u, NEW s, NEW gone \in SUBSET Layers, Sane(w), Focused(u, {}, s),
         u.locked = w.locked, u.plugged = w.plugged, u.constraints = w.constraints,
         \A l \in Layers \ gone : Wanted(u, l) => Wanted(w, l)
  PROVE  \A t \in LayersGone(w, s, gone) : Focused(w, {}, t)
<1> DEFINE r == [s EXCEPT !.keyboard = IF s.keyboard \in gone THEN NONE ELSE s.keyboard,
                          !.pointer = IF s.pointer \in gone THEN NONE ELSE s.pointer]
<1>1. LayersGone(w, s, gone) =
        {UpdateKeyboard(w, t) : t \in IF s.focused_layer \in gone
                                      THEN RestoreKeyboardFocus(w, r) ELSE {r}}
  BY DEF LayersGone
<1>2. Kept(w, {}, r) /\ Active(w, r) /\ r.focused_layer = s.focused_layer
      /\ r.focused_view = s.focused_view
  <2>1. /\ s \in Seats /\ Kept(u, {}, s) /\ Active(u, s)
    BY DEF Focused, Settled, Kept
  <2>2. s.active_constraint \in {NONE} \cup ({r.pointer} \cap w.constraints)
    <3>1. \/ s.active_constraint = NONE
          \/ s.active_constraint = s.pointer /\ s.pointer \in w.constraints
      BY <2>1 DEF Kept
    <3>2. s.pointer \in w.constraints => s.pointer \notin gone
      BY SurfacesApart DEF Sane
    <3>3. s.pointer \notin gone => r.pointer = s.pointer
      BY <2>1 DEF Seats
    <3> QED BY <3>1, <3>2, <3>3
  <2>3. /\ r \in Seats /\ r.focused_layer = s.focused_layer /\ r.focused_view = s.focused_view
        /\ r.activated = s.activated /\ r.focused_output = s.focused_output
        /\ r.active_constraint = s.active_constraint
    BY <2>1, ZenonT(90) DEF Seats
  <2> HIDE DEF r
  <2> QED BY <2>1, <2>2, <2>3 DEF Kept, Active
<1>3. CASE s.focused_layer \in gone
  <2> HIDE DEF r
  <2>1. \A t \in RestoreKeyboardFocus(w, r) : ~w.locked => Focused(w, {}, t)
    BY <1>2, RestoreFocuses DEF Sane
  <2>2. \A t \in RestoreKeyboardFocus(w, r) : w.locked => Settled(w, {}, t)
    BY <1>2 DEF RestoreKeyboardFocus, Settled
  <2>3. \A t \in RestoreKeyboardFocus(w, r) : Settled(w, {}, t)
    BY <2>1, <2>2 DEF Focused
  <2> QED BY <1>1, <1>3, <2>3, UpdateKeyboardSettles
<1>4. CASE s.focused_layer \notin gone
  <2>1. ~w.locked => s.keyboard \notin gone /\ Placed(s)
    BY <1>4, SurfacesApart DEF Focused, Settled, Placed, Kept, Seats
  <2>2. s.keyboard \notin gone => r.keyboard = s.keyboard
    BY DEF Focused, Settled, Kept, Seats
  <2>3. ~w.locked /\ s.focused_layer # NONE => Wanted(w, s.focused_layer)
    BY <1>4 DEF Focused, Settled, Kept, Seats
  <2> HIDE DEF r
  <2>4. Settled(w, {}, r)
    BY <1>2, <2>1, <2>2, <2>3 DEF Settled, Placed
  <2>5. LayersGone(w, s, gone) = {UpdateKeyboard(w, r)}
    BY <1>1, <1>4
  <2> QED BY <2>4, <2>5, UpdateKeyboardSettles
<1> QED BY <1>3, <1>4

\* leme_output_reconcile starts from a seat whose layer may have lost its output,
\* and whose output may be gone.
LEMMA ReconcileFocused ==
  ASSUME NEW w, NEW u, NEW s, NEW lost \in LayerFocusLost(w, s), Sane(w), Focused(u, {}, s),
         u.locked = w.locked, s.focused_output \in w.plugged \cup {NONE},
         u.inhibitors = w.inhibitors, u.constraints = w.constraints,
         \A l \in Layers : Wanted(u, l) => w.layer[l] = u.layer[l]
  PROVE  \A t \in Reconcile(w, s, lost) : Focused(w, {}, t)
<1> SUFFICES ASSUME NEW o \in Successors(w, s),
                    NEW t \in IF o # s.focused_output \/ lost
                              THEN RestoreKeyboardFocus(w, [s EXCEPT !.focused_output = o])
                              ELSE {s}
             PROVE  Focused(w, {}, t)
  BY DEF Reconcile
<1> DEFINE r == [s EXCEPT !.focused_output = o]
<1>1. Kept(w, {}, s) /\ Active(w, s) /\ Inhibited(w, s)
  BY DEF Focused, Settled, Kept, Active, Inhibited
<1>2. o \in w.plugged \cup {NONE} /\ w.enabled \subseteq Outputs /\ w.plugged \subseteq Outputs
  BY DEF Successors, Sane
<1>3. Kept(w, {}, r) /\ Active(w, r) /\ Inhibited(w, r)
  BY <1>1, <1>2 DEF Kept, Active, Inhibited, Seats
<1>4. CASE o # s.focused_output \/ lost
  <2> HIDE DEF r
  <2>1. \A x \in RestoreKeyboardFocus(w, r) : Focused(w, {}, x)
    BY <1>2, <1>3, RestoreFocuses
  <2> QED BY <1>4, <2>1 DEF r
<1>5. CASE o = s.focused_output /\ ~lost
  <2>1. ASSUME ~w.locked, s.focused_layer # NONE
        PROVE  Wanted(w, s.focused_layer)
    <3> DEFINE l == s.focused_layer
    <3>1. l \in Layers
      BY <1>1, <2>1 DEF Kept, Seats
    <3>2. Wanted(u, l)
      BY <2>1 DEF Focused, Settled
    <3>3. w.layer[l] = u.layer[l] /\ w.layer[l].mapped /\ w.layer[l].keyboard # "none"
      BY <3>1, <3>2 DEF Wanted, LayerOn
    <3>4. w.layer[l] # NoLayer
      BY <3>3 DEF NoLayer
    <3>5. w.layer[l].output \in w.enabled
      BY <1>5, <2>1, <3>4 DEF LayerFocusLost
    <3> QED BY <3>3, <3>5 DEF Wanted, LayerOn
  <2>2. ~w.locked => Placed(s)
    BY DEF Focused, Settled
  <2> QED BY <1>1, <1>5, <2>1, <2>2 DEF Focused, Settled
<1> QED BY <1>4, <1>5

\* leme_session_handle_surface_destroy: the inhibitors of the lock surfaces went
\* with them.
LEMMA LockSurfacesGoneFocused ==
  ASSUME NEW w, NEW s, NEW gone \in SUBSET Outputs, Sane(w), Settled(w, {}, s),
         s.keyboard \notin {LockSurface(o) : o \in gone} => Inhibited(w, s)
  PROVE  \A t \in LockSurfacesGone(w, s, gone) : Focused(w, {}, t)
<1> DEFINE surfaces == {LockSurface(o) : o \in gone}
           r == IF s.keyboard \in surfaces THEN Enter(w, s, NONE) ELSE s
<1>1. LockSurfacesGone(w, s, gone) =
        IF s.pointer \in surfaces THEN UpdatePointer(w, [r EXCEPT !.pointer = NONE]) ELSE {r}
  BY DEF LockSurfacesGone
<1>2. \A x \in surfaces : x \notin Views \cup Layers \cup {NONE}
  BY SurfacesApart
<1> HIDE DEF surfaces
<1>3. Kept(w, {}, s) /\ Active(w, s)
  BY DEF Settled
<1>4. s.keyboard \in surfaces => w.locked
  BY <1>2 DEF Settled, Placed, Kept, Seats
<1>5. Focused(w, {}, r)
  <2>1. CASE s.keyboard \in surfaces
    <3> DEFINE e == Enter(w, s, NONE)
    <3>1. /\ Kept(w, {}, e) /\ Inhibited(w, e) /\ e.activated = s.activated
      BY <1>3, EnterKept
    <3> HIDE DEF e
    <3>2. Focused(w, {}, e)
      BY <1>3, <1>4, <2>1, <3>1 DEF Focused, Settled, Active
    <3> QED BY <2>1, <3>2 DEF e
  <2>2. CASE s.keyboard \notin surfaces
    BY <2>2 DEF Focused, surfaces
  <2> QED BY <2>1, <2>2
<1> HIDE DEF r
<1>6. Focused(w, Views, [r EXCEPT !.pointer = NONE])
  BY <1>5, PointerMoved
<1>7. \A t \in UpdatePointer(w, [r EXCEPT !.pointer = NONE]) : Focused(w, {}, t)
  BY <1>6, UpdatePointerFocused DEF Sane
<1> QED BY <1>1, <1>5, <1>7

\* leme_session_restore_focus makes the window active that was active before the
\* session was locked.
LEMMA RestoreFocusFocused ==
  ASSUME NEW w, NEW X, NEW s, Sane(w), ~w.locked, Kept(w, X, s)
  PROVE  \A t \in RestoreFocus(w, s) : Focused(w, {}, t)
<1> DEFINE mapped == {v \in Views : w.home[v] # NONE}
           restored(t) ==
             IF t.focused_layer = NONE /\ t.focused_view \in mapped
             THEN ViewFocus(w, [t EXCEPT !.activated = t.activated \cup {t.focused_view}],
                            t.focused_view)
             ELSE {t}
<1>1. RestoreFocus(w, s) =
        UNION {RefreshPointer(w, u) : u \in UNION {restored(t) : t \in RestoreKeyboardFocus(w, s)}}
  BY DEF RestoreFocus
<1>2. ASSUME NEW t \in RestoreKeyboardFocus(w, s), NEW u \in restored(t)
      PROVE  Focused(w, X, u)
  <2>1. /\ Kept(w, X, t) /\ Inhibited(w, t) /\ Placed(t)
        /\ t.focused_layer # NONE => Wanted(w, t.focused_layer)
        /\ Active(w, t) \/ (t.focused_layer = NONE /\ t.focused_view \in mapped)
    BY RestoreUnlocked DEF Sane
  <2>2. CASE t.focused_layer = NONE /\ t.focused_view \in mapped
    <3> DEFINE q == [t EXCEPT !.activated = t.activated \cup {t.focused_view}]
    <3>1. t.focused_view \in Views /\ t.focused_view # NONE
      BY <2>2, SurfacesApart
    <3>2. q \in Seats /\ Kept(w, X, q) /\ Active(w, q) /\ Inhibited(w, q) /\ Placed(q)
          /\ q.focused_layer = NONE
      BY <2>1, <2>2, <3>1 DEF Kept, Active, Inhibited, Placed, Seats
    <3>3. u \in ViewFocus(w, q, t.focused_view)
      BY <2>2
    <3> HIDE DEF q
    <3>4. Focused(w, X, q)
      BY <3>2 DEF Focused, Settled
    <3> QED BY <3>1, <3>3, <3>4, ViewFocusFocused
  <2>3. CASE ~(t.focused_layer = NONE /\ t.focused_view \in mapped)
    <3>1. u = t
      BY <2>3
    <3> QED BY <2>1, <2>3, <3>1 DEF Focused, Settled
  <2> QED BY <2>2, <2>3
<1> HIDE DEF restored
<1>3. \A u \in UNION {restored(t) : t \in RestoreKeyboardFocus(w, s)} :
        \A x \in RefreshPointer(w, u) : Focused(w, {}, x)
  BY <1>2, RefreshPointerFocused
<1> QED BY <1>1, <1>3

-----------------------------------------------------------------------------
(* The actions                                                             *)

\* What a focused seat is told of the world.
LEMMA SameSettled ==
  ASSUME NEW w, NEW u, NEW s, Settled(u, {}, s), u.locked = w.locked,
         s.focused_output \in w.plugged \cup {NONE},
         u.constraints \subseteq w.constraints,
         \A l \in Layers : Wanted(u, l) => Wanted(w, l) \/ s.focused_layer # l
  PROVE  Settled(w, {}, s)
<1>1. s.focused_layer \in Layers \cup {NONE}
  BY DEF Settled, Kept, Seats
<1> QED BY <1>1 DEF Settled, Kept, Active

LEMMA SameFocused ==
  ASSUME NEW w, NEW u, NEW s, Focused(u, {}, s), u.locked = w.locked,
         s.focused_output \in w.plugged \cup {NONE},
         u.constraints \subseteq w.constraints, u.inhibitors = w.inhibitors,
         \A l \in Layers : Wanted(u, l) => Wanted(w, l) \/ s.focused_layer # l
  PROVE  Focused(w, {}, s)
  BY SameSettled DEF Focused, Inhibited

LEMMA WorldFields ==
  /\ World.plugged = plugged /\ World.enabled = enabled /\ World.home = home
  /\ World.layer = layer /\ World.locked = session.locked
  /\ World.lockSurface = lockSurface /\ World.inhibitors = inhibitors
  /\ World.constraints = constraints
  BY DEF World

LEMMA InitFocusInv == Init => FocusInv
<1> SUFFICES ASSUME Init PROVE FocusInv
  OBVIOUS
<1>1. WorldOK
  BY SeatAssumption DEF Init, WorldOK, NoLayer, Interactivity
<1>2. seat \in Seats
  BY SeatAssumption DEF Init, Seats
<1>3. Focused(World, {}, seat)
  <2>1. /\ World.plugged = Outputs /\ ~World.locked /\ World.inhibitors = {}
    BY WorldFields DEF Init
  <2>2. /\ seat.focused_output \in Outputs /\ seat.focused_layer = NONE
        /\ seat.focused_view = NONE /\ seat.activated = {} /\ seat.keyboard = NONE
        /\ seat.active_inhibitor = NONE /\ seat.active_constraint = NONE
    BY DEF Init
  <2> QED BY <1>2, <2>1, <2>2 DEF Focused, Settled, Kept, Active, Placed, Inhibited
<1> QED BY <1>1, <1>3 DEF Init, FocusInv

\* Windows come and go.
LEMMA FocusViewsStep ==
  ASSUME FocusInv, NEW v \in Views, MapView(v) \/ UnmapView(v), around' = around
  PROVE  FocusInv'
<1>1. /\ UNCHANGED <<plugged, enabled, layer, session, lockSurface, unanswered,
                     inhibitors, constraints, down>>
      /\ home' \in [Views -> plugged \cup {NONE}]
  BY DEF MapView, UnmapView, FocusInv, WorldOK
<1>2. WorldOK'
  BY <1>1 DEF FocusInv, WorldOK
<1>3. Focused(World', {}, seat)
  <2>1. /\ World'.plugged = World.plugged /\ World'.enabled = World.enabled
        /\ World'.layer = World.layer /\ World'.locked = World.locked
        /\ World'.inhibitors = World.inhibitors /\ World'.constraints = World.constraints
    BY <1>1 DEF World
  <2>2. Focused(World, {}, seat) /\ seat.focused_output \in World.plugged \cup {NONE}
    BY DEF FocusInv, Focused, Settled, Kept
  <2> QED BY <2>1, <2>2, SameFocused DEF Wanted, LayerOn
<1>4. \A s : Focused(World', {}, s) =>
        \A t \in Refresh(World', s, s.focused_output) : Focused(World', {}, t)
  BY RefreshFocused
<1>5. CASE MapView(v)
  <2>1. \A s \in ViewFocus(World', seat, v) : Focused(World', {}, s)
    BY <1>3, ViewFocusFocused
  <2>2. Focused(World', {}, seat')
    BY <1>4, <1>5, <2>1 DEF MapView
  <2> QED BY <1>2, <2>2 DEF FocusInv
<1>6. CASE UnmapView(v)
  <2>1. seat.focused_view = v => Focused(World', {}, ClearFocus(World', seat))
    <3>1. seat.focused_view = v => seat.focused_layer = NONE
      BY <1>3, SurfacesApart DEF Focused, Settled, Kept
    <3> QED BY <1>3, <3>1, ClearFocusFocused
  <2>2. Focused(World', {}, seat')
    BY <1>3, <1>4, <1>6, <2>1 DEF UnmapView
  <2> QED BY <1>2, <2>2 DEF FocusInv
<1> QED BY <1>5, <1>6

\* A layer appears, is mapped or asks for the keyboard.
LEMMA LayerComesStep ==
  ASSUME FocusInv, NEW l \in Layers, around' = around,
         \/ \E o \in Outputs, k \in Interactivity : NewLayer(l, o, k)
         \/ MapLayer(l)
         \/ \E k \in Interactivity : CommitLayer(l, k)
         \/ UnmapLayer(l)
  PROVE  FocusInv'
<1>1. UNCHANGED <<layerUnchanged, inhibitors>>
  BY DEF NewLayer, MapLayer, CommitLayer, UnmapLayer
<1>2. /\ layer' \in [Layers -> [output : Outputs \cup {NONE}, mapped : BOOLEAN,
                                keyboard : Interactivity]]
      /\ \A m \in Layers \ {l} : layer'[m] = layer[m]
  <2>1. layer \in [Layers -> [output : Outputs \cup {NONE}, mapped : BOOLEAN,
                              keyboard : Interactivity]]
    BY DEF FocusInv, WorldOK
  <2>2. CASE \E o \in Outputs, k \in Interactivity : NewLayer(l, o, k)
    BY <2>1, <2>2 DEF NewLayer
  <2>3. CASE MapLayer(l) \/ UnmapLayer(l)
    <3>1. \E b \in BOOLEAN : layer' = [layer EXCEPT ![l].mapped = b]
      BY <2>3 DEF MapLayer, UnmapLayer
    <3> QED BY <2>1, <3>1
  <2>4. CASE \E k \in Interactivity : CommitLayer(l, k)
    BY <2>1, <2>4 DEF CommitLayer
  <2> QED BY <2>2, <2>3, <2>4
<1>3. WorldOK'
  BY <1>1, <1>2 DEF FocusInv, WorldOK, layerUnchanged
<1>4. /\ World'.plugged = World.plugged /\ World'.enabled = World.enabled
      /\ World'.layer = layer' /\ World.layer = layer
      /\ World'.locked = World.locked
      /\ World'.inhibitors = World.inhibitors /\ World'.constraints = World.constraints
      /\ Sane(World') /\ World'.enabled = enabled
  BY <1>1 DEF World, layerUnchanged, Sane, FocusInv, WorldOK
<1>5. Focused(World, {}, seat) /\ seat.focused_output \in World'.plugged \cup {NONE}
  BY <1>4 DEF FocusInv, Focused, Settled, Kept
<1>6. \A m \in Layers \ {l} : Wanted(World, m) => Wanted(World', m)
  BY <1>2, <1>4 DEF Wanted, LayerOn
<1>7. seat.focused_layer # l \/ (Wanted(World, l) => Wanted(World', l)) => Focused(World', {}, seat)
  BY <1>4, <1>5, <1>6, SameFocused
<1>8. Focused(World', {}, seat) => Focused(World', {}, LayerFocus(World', seat, l))
  BY LayerFocusFocused
<1>9. \A s \in RestoreKeyboardFocus(World', seat) : Focused(World', {}, s)
  <2>1. Kept(World', {}, seat) /\ Active(World', seat) /\ Inhibited(World', seat)
    BY <1>4, <1>5 DEF Focused, Settled, Kept, Active, Inhibited
  <2> QED BY <1>4, <2>1, RestoreFocuses DEF Sane
<1>10. Focused(World', {}, seat')
  <2>1. CASE \E o \in Outputs, k \in Interactivity : NewLayer(l, o, k)
    <3>1. ~Wanted(World, l) /\ seat' = seat
      BY <1>4, <2>1 DEF NewLayer, NoLayer, Wanted, LayerOn
    <3> QED BY <1>7, <3>1
  <2>2. CASE MapLayer(l)
    <3>1. ~Wanted(World, l)
      BY <1>4, <2>2 DEF MapLayer, Wanted, LayerOn
    <3> QED BY <1>7, <1>8, <2>2, <3>1 DEF MapLayer
  <2>3. CASE UnmapLayer(l)
    BY <1>7, <1>9, <2>3 DEF UnmapLayer
  <2>4. CASE \E k \in Interactivity : CommitLayer(l, k)
    <3>1. PICK k \in Interactivity : CommitLayer(l, k)
      BY <2>4
    <3>2. k # "none" => (Wanted(World, l) => Wanted(World', l))
      <4>1. layer \in [Layers -> [output : Outputs \cup {NONE}, mapped : BOOLEAN,
                                  keyboard : Interactivity]]
        BY DEF FocusInv, WorldOK
      <4>2. layer'[l] = [layer[l] EXCEPT !.keyboard = k]
        BY <3>1, <4>1 DEF CommitLayer
      <4>3. layer'[l].output = layer[l].output /\ layer'[l].mapped = layer[l].mapped
            /\ layer'[l].keyboard = k
        BY <4>1, <4>2
      <4> QED BY <1>4, <4>3 DEF Wanted, LayerOn
    <3>3. CASE k = "exclusive"
      BY <1>7, <1>8, <3>1, <3>2, <3>3 DEF CommitLayer
    <3>4. CASE k = "none" /\ seat.focused_layer = l
      BY <1>9, <3>1, <3>4 DEF CommitLayer
    <3>5. CASE k # "exclusive" /\ ~(k = "none" /\ seat.focused_layer = l)
      <4>1. seat' = seat
        BY <3>1, <3>5 DEF CommitLayer
      <4> QED BY <1>7, <3>2, <3>5, <4>1
    <3> QED BY <3>3, <3>4, <3>5
  <2> QED BY <2>1, <2>2, <2>3, <2>4
<1> QED BY <1>3, <1>10 DEF FocusInv

\* A layer is destroyed.
LEMMA LayerGoesStep ==
  ASSUME FocusInv, NEW l \in Layers, DestroyLayer(l), around' = around
  PROVE  FocusInv'
<1>1. /\ UNCHANGED layerUnchanged /\ layer' = [layer EXCEPT ![l] = NoLayer]
      /\ inhibitors' = inhibitors \ {l} /\ seat' \in LayersGone(World', seat, {l})
  BY DEF DestroyLayer
<1>2. WorldOK'
  BY <1>1 DEF FocusInv, WorldOK, layerUnchanged, NoLayer, Interactivity
<1>3. /\ World'.plugged = World.plugged /\ World'.enabled = World.enabled
      /\ World'.layer = layer' /\ World.layer = layer
      /\ World'.locked = World.locked /\ World'.constraints = World.constraints
      /\ Sane(World')
  BY <1>1 DEF World, layerUnchanged, Sane, FocusInv, WorldOK
<1>4. \A m \in Layers \ {l} : Wanted(World, m) => Wanted(World', m)
  BY <1>1, <1>3 DEF Wanted, LayerOn, FocusInv, WorldOK
<1>5. Focused(World', {}, seat')
  BY <1>1, <1>3, <1>4, LayersGoneFocused DEF FocusInv
<1> QED BY <1>2, <1>5 DEF FocusInv

\* leme_session_handle_new_lock makes every window inactive.
LEMMA FocusNewLockStep ==
  ASSUME FocusInv, NewLock, around' = around
  PROVE  FocusInv'
<1> DEFINE r == [seat EXCEPT !.activated = seat.activated \ {seat.focused_view},
                             !.pointer = NONE, !.active_constraint = NONE]
           q == SetMode(r, Common)
<1>1. /\ UNCHANGED <<plugged, enabled, home, layer, lockSurface, unanswered,
                     inhibitors, constraints, down>>
      /\ session' = [locked |-> TRUE, held |-> TRUE, abandoned |-> FALSE]
      /\ seat' = Enter(World', q, NONE)
  BY DEF NewLock
<1>2. WorldOK' /\ session'.held /\ session'.locked
  BY <1>1 DEF FocusInv, WorldOK
<1>3. World'.locked /\ World'.plugged = plugged /\ World'.constraints = constraints
  BY <1>1 DEF World
<1>4. Kept(World, {}, seat) /\ World.plugged = plugged
  BY WorldFields DEF FocusInv, Focused, Settled
<1>5. Kept(World', {}, r) /\ r.activated = {}
  BY <1>3, <1>4, ZenonT(90) DEF Kept, Seats
<1> HIDE DEF r
<1>6. Kept(World', {}, q) /\ q.activated = {}
  BY <1>5, SeatAssumption DEF SetMode, Kept, Seats
<1> HIDE DEF q
<1>7. Focused(World', {}, seat')
  BY <1>1, <1>3, <1>6, EnterKept DEF Focused, Settled, Active
<1> QED BY <1>2, <1>7 DEF FocusInv

\* The surfaces of a lock come, draw and go.
LEMMA FocusLockSurfacesStep ==
  ASSUME FocusInv, NEW o \in Outputs, around' = around,
         NewLockSurface(o) \/ CommitLockSurface(o) \/ DestroyLockSurface(o)
  PROVE  FocusInv'
<1>1. /\ UNCHANGED <<plugged, enabled, home, layer, session, constraints, down>>
      /\ inhibitors' \subseteq inhibitors
      /\ inhibitors \ {LockSurface(o)} \subseteq inhibitors'
  BY DEF NewLockSurface, CommitLockSurface, DestroyLockSurface
<1>2. /\ lockSurface' \in [Outputs -> {"none", "created", "configured"}]
      /\ unanswered' \subseteq {p \in Outputs : lockSurface'[p] # "none"}
      /\ ~session.held => lockSurface' = [p \in Outputs |-> "none"]
  <2>1. lockSurface \in [Outputs -> {"none", "created", "configured"}]
        /\ unanswered \subseteq {p \in Outputs : lockSurface[p] # "none"}
        /\ (~session.held => lockSurface = [p \in Outputs |-> "none"])
    BY DEF FocusInv, WorldOK
  <2>2. CASE NewLockSurface(o)
    BY <2>1, <2>2 DEF NewLockSurface
  <2>3. CASE CommitLockSurface(o)
    BY <2>1, <2>3 DEF CommitLockSurface
  <2>4. CASE DestroyLockSurface(o)
    BY <2>1, <2>4 DEF DestroyLockSurface
  <2> QED BY <2>2, <2>3, <2>4
<1>3. WorldOK'
  BY <1>1, <1>2 DEF FocusInv, WorldOK
<1>4. /\ World'.plugged = World.plugged /\ World'.enabled = World.enabled
      /\ World'.layer = World.layer /\ World'.locked = World.locked
      /\ World'.constraints = World.constraints
      /\ World'.inhibitors = inhibitors' /\ World.inhibitors = inhibitors
      /\ Sane(World')
  BY <1>1 DEF World, Sane, FocusInv, WorldOK
<1>5. Focused(World, {}, seat) /\ seat.focused_output \in World'.plugged \cup {NONE}
  BY <1>4 DEF FocusInv, Focused, Settled, Kept
<1>6. Settled(World', {}, seat)
  BY <1>4, <1>5, SameSettled DEF Focused, Wanted, LayerOn
<1>7. seat.keyboard # LockSurface(o) \/ inhibitors' = inhibitors => Inhibited(World', seat)
  BY <1>1, <1>4, <1>5 DEF Focused, Inhibited
<1>8. CASE NewLockSurface(o)
  BY <1>3, <1>6, <1>7, <1>8 DEF NewLockSurface, FocusInv, Focused
<1>9. CASE CommitLockSurface(o)
  <2> DEFINE e == Enter(World', seat, LockSurface(o))
  <2>1. World'.locked
    <3>1. lockSurface[o] # "none"
      BY <1>9 DEF CommitLockSurface
    <3>2. session.locked
      BY <3>1 DEF FocusInv, WorldOK
    <3> QED BY <1>4, <3>2, WorldFields
  <2>2. Kept(World', {}, seat) /\ Active(World', seat)
    BY <1>6 DEF Settled
  <2>3. Kept(World', {}, e) /\ Inhibited(World', e) /\ e.activated = seat.activated
    BY <2>2, EnterKept, LockSurfaceIsSurface
  <2>4. seat' \in RefreshPointer(World', e)
    BY <1>9 DEF CommitLockSurface
  <2> HIDE DEF e
  <2>5. Focused(World', {}, e)
    BY <2>1, <2>2, <2>3 DEF Focused, Settled, Active
  <2>6. Focused(World', {}, seat')
    BY <1>4, <2>4, <2>5, RefreshPointerFocused
  <2> QED BY <1>3, <2>6 DEF FocusInv
<1>10. CASE DestroyLockSurface(o)
  <2>1. seat' \in LockSurfacesGone(World', seat, {o})
    BY <1>10 DEF DestroyLockSurface
  <2>2. seat.keyboard \notin {LockSurface(p) : p \in {o}} => Inhibited(World', seat)
    BY <1>7
  <2>3. Focused(World', {}, seat')
    BY <1>4, <1>6, <2>1, <2>2, LockSurfacesGoneFocused
  <2> QED BY <1>3, <2>3 DEF FocusInv
<1> QED BY <1>8, <1>9, <1>10

\* The lock goes, with the session unlocked or with its client dead.
LEMMA FocusLockGoesStep ==
  ASSUME FocusInv, Unlock \/ LockClientDies, around' = around
  PROVE  FocusInv'
<1>1. /\ UNCHANGED <<plugged, enabled, home, layer, constraints, down>>
      /\ lockSurface' = [o \in Outputs |-> "none"] /\ unanswered' = {}
      /\ inhibitors' \subseteq inhibitors
      /\ \E locked, abandoned \in BOOLEAN :
           session' = [locked |-> locked, held |-> FALSE, abandoned |-> abandoned]
      /\ session.locked
  BY DEF Unlock, LockClientDies, LockGone, FocusInv, WorldOK
<1>2. ~session'.held /\ session' \in [locked : BOOLEAN, held : BOOLEAN, abandoned : BOOLEAN]
  BY <1>1
<1>3. WorldOK'
  BY <1>1, <1>2 DEF FocusInv, WorldOK
<1>4. /\ World'.plugged = World.plugged /\ World'.enabled = World.enabled
      /\ World'.constraints = World.constraints
      /\ World'.locked = session'.locked /\ World.locked /\ Sane(World')
  BY <1>1 DEF World, Sane, FocusInv, WorldOK
<1>5. Kept(World, {}, seat) /\ seat.activated = {}
  BY <1>4 DEF FocusInv, Focused, Settled, Kept
<1>6. CASE Unlock
  <2> DEFINE r == [seat EXCEPT !.pointer = NONE, !.keyboard = NONE]
  <2>1. /\ ~World'.locked
        /\ \E s \in RestoreFocus(World', r) : seat' \in LockSurfacesGone(World', s, Outputs)
    BY <1>4, <1>6 DEF Unlock
  <2>2. Kept(World', Views, r)
    BY <1>4, <1>5, ZenonT(90) DEF Kept, Seats
  <2> HIDE DEF r
  <2>3. \A s \in RestoreFocus(World', r) : Focused(World', {}, s)
    BY <1>4, <2>1, <2>2, RestoreFocusFocused
  <2>4. Focused(World', {}, seat')
    BY <1>4, <2>1, <2>3, LockSurfacesGoneFocused DEF Focused
  <2> QED BY <1>3, <2>4 DEF FocusInv
<1>7. CASE LockClientDies
  <2> DEFINE r == [seat EXCEPT !.pointer = NONE]
             e == Enter(World', r, NONE)
  <2>1. seat' \in UpdatePointer(World', e) /\ World'.locked
    BY <1>4, <1>7 DEF LockClientDies
  <2>2. Kept(World', Views, r) /\ r.activated = {}
    BY <1>4, <1>5 DEF Kept, Seats
  <2> HIDE DEF r
  <2>3. Kept(World', Views, e) /\ Inhibited(World', e) /\ e.activated = {}
    BY <2>2, EnterKept
  <2> HIDE DEF e
  <2>4. Focused(World', Views, e)
    BY <2>1, <2>3 DEF Focused, Settled, Active
  <2>5. Focused(World', {}, seat')
    BY <1>4, <2>1, <2>4, UpdatePointerFocused DEF Sane
  <2> QED BY <1>3, <2>5 DEF FocusInv
<1> QED BY <1>6, <1>7

\* Outputs are disabled, enabled and plugged: leme_output_reconcile.
LEMMA FocusOutputsStep ==
  ASSUME FocusInv, NEW o \in Outputs, Disable(o) \/ Enable(o) \/ Plug(o), around' = around
  PROVE  FocusInv'
<1>1. /\ UNCHANGED <<home, layer, session, lockSurface, inhibitors, constraints, down>>
      /\ plugged \subseteq plugged' /\ plugged' \subseteq Outputs /\ enabled' \subseteq plugged'
      /\ unanswered' = OutputChanged(lockSurface)
      /\ \E lost \in LayerFocusLost(World', seat) : seat' \in Reconcile(World', seat, lost)
  BY DEF Disable, Enable, SetEnabled, Plug, FocusInv, WorldOK
<1>2. WorldOK'
  BY <1>1 DEF FocusInv, WorldOK, OutputChanged
<1>3. /\ World'.plugged = plugged' /\ World.plugged = plugged
      /\ World'.layer = World.layer /\ World'.locked = World.locked
      /\ World'.inhibitors = World.inhibitors /\ World'.constraints = World.constraints
      /\ Sane(World')
  BY <1>1 DEF World, Sane, FocusInv, WorldOK
<1>4. Focused(World, {}, seat) /\ seat.focused_output \in World'.plugged \cup {NONE}
  BY <1>1, <1>3 DEF FocusInv, Focused, Settled, Kept
<1>5. Focused(World', {}, seat')
  BY <1>1, <1>3, <1>4, ReconcileFocused
<1> QED BY <1>2, <1>5 DEF FocusInv

\* An output is unplugged: leme_output_handle_destroy.
LEMMA FocusUnplugStep ==
  ASSUME FocusInv, NEW o \in Outputs, Unplug(o), around' = around
  PROVE  FocusInv'
<1> DEFINE gone == {l \in Layers : layer[l].output = o}
           w == [World EXCEPT !.layer = layer', !.inhibitors = inhibitors']
<1>1. /\ UNCHANGED <<session, constraints, down>>
      /\ plugged' = plugged \ {o} /\ enabled' = enabled \ {o} /\ plugged # {o} /\ o \in plugged
      /\ layer' = [l \in Layers |-> IF l \in gone THEN NoLayer ELSE layer[l]]
      /\ lockSurface' = [lockSurface EXCEPT ![o] = "none"]
      /\ inhibitors' \subseteq inhibitors
      /\ unanswered' = OutputChanged(lockSurface')
  BY DEF Unplug
<1>2. PICK successor, s, lost :
        /\ successor \in IF enabled' # {} THEN enabled' ELSE plugged'
        /\ home' = [v \in Views |-> IF home[v] = o THEN successor ELSE home[v]]
        /\ s \in LayersGone(w, seat, gone)
        /\ lost \in LayerFocusLost(World', [s EXCEPT !.focused_output =
                                              IF s.focused_output = o THEN successor
                                              ELSE s.focused_output])
        /\ \E t \in Reconcile(World', [s EXCEPT !.focused_output =
                                          IF s.focused_output = o THEN successor
                                          ELSE s.focused_output], lost) :
             seat' \in LockSurfacesGone(World', t, {o})
  BY ZenonT(90) DEF Unplug
<1> DEFINE focused == [s EXCEPT !.focused_output = IF s.focused_output = o THEN successor
                                                   ELSE s.focused_output]
<1>3. successor \in plugged'
  BY <1>1, <1>2 DEF FocusInv, WorldOK
<1>4. WorldOK'
  <2>1. /\ plugged' \subseteq Outputs /\ enabled' \subseteq plugged'
        /\ lockSurface' \in [Outputs -> {"none", "created", "configured"}]
        /\ (~session.held => lockSurface' = [p \in Outputs |-> "none"])
    BY <1>1 DEF FocusInv, WorldOK
  <2>2. home' \in [Views -> plugged' \cup {NONE}]
    BY <1>1, <1>2, <1>3 DEF FocusInv, WorldOK
  <2>3. layer' \in [Layers -> [output : Outputs \cup {NONE}, mapped : BOOLEAN,
                               keyboard : Interactivity]]
    BY <1>1 DEF FocusInv, WorldOK, NoLayer, Interactivity
  <2>4. unanswered' \subseteq {p \in Outputs : lockSurface'[p] # "none"}
    <3>1. CASE session.locked
      BY <1>1, <3>1 DEF OutputChanged
    <3>2. CASE ~session.locked
      <4>1. unanswered = {} /\ unanswered' = unanswered
        BY <1>1, <3>2 DEF OutputChanged, FocusInv, WorldOK
      <4> QED BY <4>1
    <3> QED BY <3>1, <3>2
  <2> QED BY <1>1, <2>1, <2>2, <2>3, <2>4 DEF FocusInv, WorldOK
<1>5. /\ w.plugged = plugged /\ w.enabled = enabled /\ w.layer = layer'
      /\ w.locked = session.locked /\ w.constraints = constraints
      /\ w.inhibitors = inhibitors'
  BY DEF World
<1>6. /\ World'.plugged = plugged' /\ World'.enabled = enabled' /\ World'.layer = layer'
      /\ World'.locked = session.locked /\ World'.constraints = constraints
      /\ World'.inhibitors = inhibitors'
  BY <1>1 DEF World
<1>7. gone \in SUBSET Layers
  OBVIOUS
<1>8. \A l \in Layers \ gone : layer'[l] = layer[l]
  BY <1>1
<1>9. \A l \in gone : ~layer'[l].mapped
  BY <1>1 DEF NoLayer
<1>10. \A l \in Layers : layer'[l].mapped => layer'[l].output # o
  BY <1>8, <1>9
<1> HIDE DEF w, gone
<1>11. Sane(w) /\ Sane(World')
  BY <1>1, <1>5, <1>6 DEF Sane, FocusInv, WorldOK
<1>12. Focused(w, {}, s)
  <2>1. Focused(World, {}, seat)
    BY DEF FocusInv
  <2>2. \A l \in Layers \ gone : Wanted(World, l) => Wanted(w, l)
    BY <1>5, <1>8, WorldFields DEF Wanted, LayerOn
  <2> QED BY <1>2, <1>5, <1>7, <1>11, <2>1, <2>2, LayersGoneFocused, WorldFields
<1>13. successor \in Outputs /\ successor \in World'.plugged
  BY <1>3, <1>4, <1>6 DEF WorldOK
<1>14. /\ s \in Seats /\ s.focused_output \in plugged \cup {NONE}
  BY <1>5, <1>12 DEF Focused, Settled, Kept
<1>15. focused.focused_output \in World'.plugged \cup {NONE}
  BY <1>1, <1>6, <1>13, <1>14 DEF Seats
<1>16. Focused(w, {}, focused)
  <2>1. (IF s.focused_output = o THEN successor ELSE s.focused_output) \in w.plugged \cup {NONE}
    BY <1>1, <1>3, <1>5, <1>14
  <2> QED BY <1>11, <1>12, <2>1, OutputChosen DEF Sane
<1> HIDE DEF focused
<1>17. \A t \in Reconcile(World', focused, lost) : Focused(World', {}, t)
  BY <1>2, <1>5, <1>6, <1>11, <1>15, <1>16, ReconcileFocused DEF focused
<1>18. Focused(World', {}, seat')
  <2>1. PICK t \in Reconcile(World', focused, lost) : seat' \in LockSurfacesGone(World', t, {o})
    BY <1>2 DEF focused
  <2>2. {o} \in SUBSET Outputs
    OBVIOUS
  <2> QED BY <1>11, <1>17, <2>1, <2>2, LockSurfacesGoneFocused DEF Focused
<1> QED BY <1>4, <1>18 DEF FocusInv

\* The pointer moves and presses buttons.
LEMMA FocusPointerStep ==
  ASSUME FocusInv, NEW hit \in Surfaces \cup {NONE}, Point(hit) \/ Press(hit), around' = around
  PROVE  FocusInv'
<1>1. World' = World /\ UNCHANGED <<world, down>>
  BY DEF Point, Press, world, World
<1>2. WorldOK'
  BY <1>1 DEF FocusInv, WorldOK, world
<1>3. Focused(World, {}, seat) /\ Sane(World)
  BY DEF FocusInv, WorldOK, Sane, World
<1>4. \A s \in ProcessMotion(World, seat, hit) : Focused(World, {}, s)
  BY <1>3, ProcessMotionFocused
<1>5. \A s \in ProcessMotion(World, seat, hit) :
        hit \in Layers => Focused(World, {}, LayerFocus(World, s, hit))
  BY <1>4, LayerFocusFocused
<1>6. Focused(World, {}, seat')
  BY <1>4, <1>5 DEF Point, Press
<1> QED BY <1>1, <1>2, <1>6 DEF FocusInv

\* Clients inhibit shortcuts.
LEMMA FocusInhibitorsStep ==
  ASSUME FocusInv, NEW surface \in Surfaces, around' = around,
         NewInhibitor(surface) \/ DestroyInhibitor(surface)
  PROVE  FocusInv'
<1> DEFINE r == [seat EXCEPT !.active_inhibitor =
                   IF seat.active_inhibitor = surface THEN NONE ELSE seat.active_inhibitor]
<1>1. /\ UNCHANGED <<plugged, enabled, home, layer, session, lockSurface, unanswered,
                     constraints, down>>
      /\ inhibitors' \subseteq Surfaces
      /\ seat' = UpdateKeyboard(World', seat) \/ seat' = UpdateKeyboard(World', r)
  BY DEF NewInhibitor, DestroyInhibitor, FocusInv, WorldOK
<1>2. WorldOK'
  BY <1>1 DEF FocusInv, WorldOK
<1>3. /\ World'.plugged = World.plugged /\ World'.enabled = World.enabled
      /\ World'.layer = World.layer /\ World'.locked = World.locked
      /\ World'.constraints = World.constraints
  BY <1>1 DEF World
<1>4. Settled(World, {}, seat) /\ seat.focused_output \in World'.plugged \cup {NONE}
  BY <1>3 DEF FocusInv, Focused, Settled, Kept
<1>5. Settled(World', {}, seat)
  BY <1>3, <1>4, SameSettled DEF Wanted, LayerOn
<1>6. Settled(World', {}, r)
  BY <1>5 DEF Settled, Kept, Active, Placed, Seats
<1> HIDE DEF r
<1>7. Focused(World', {}, seat')
  BY <1>1, <1>5, <1>6, UpdateKeyboardSettles
<1> QED BY <1>2, <1>7 DEF FocusInv

\* Clients constrain the pointer.
LEMMA FocusConstraintsStep ==
  ASSUME FocusInv, NEW v \in Views, NewConstraint(v) \/ DestroyConstraint(v), around' = around
  PROVE  FocusInv'
<1>1. /\ UNCHANGED <<plugged, enabled, home, layer, session, lockSurface, unanswered,
                     inhibitors, down>>
      /\ constraints' \subseteq Views
  BY DEF NewConstraint, DestroyConstraint, FocusInv, WorldOK
<1>2. WorldOK'
  BY <1>1 DEF FocusInv, WorldOK
<1>3. /\ World'.plugged = World.plugged /\ World'.enabled = World.enabled
      /\ World'.layer = World.layer /\ World'.locked = World.locked
      /\ World'.inhibitors = World.inhibitors
      /\ World.constraints = constraints /\ World'.constraints = constraints'
  BY <1>1 DEF World
<1>4. Focused(World, {}, seat)
  BY DEF FocusInv
<1>5. CASE NewConstraint(v)
  <2>1. seat' \in UpdatePointer(World', seat) /\ constraints \subseteq constraints'
    BY <1>5 DEF NewConstraint
  <2>2. seat.focused_output \in World'.plugged \cup {NONE}
    BY <1>3, <1>4 DEF Focused, Settled, Kept
  <2>3. Focused(World', {}, seat)
    BY <1>3, <1>4, <2>1, <2>2, SameFocused DEF Wanted, LayerOn
  <2>4. Focused(World', {}, seat')
    BY <1>1, <1>3, <2>1, <2>3, UpdatePointerFocused
  <2> QED BY <1>2, <2>4 DEF FocusInv
<1>6. CASE DestroyConstraint(v)
  <2> DEFINE r == [seat EXCEPT !.active_constraint =
                     IF seat.active_constraint = v THEN NONE ELSE seat.active_constraint]
  <2>1. seat' = r /\ constraints' = constraints \ {v}
    BY <1>6 DEF DestroyConstraint
  <2>2. Kept(World, {}, seat) /\ Active(World, seat) /\ Inhibited(World, seat)
    BY <1>4 DEF Focused, Settled
  <2>3. /\ r \in Seats /\ r.focused_output = seat.focused_output
        /\ r.focused_layer = seat.focused_layer /\ r.focused_view = seat.focused_view
        /\ r.activated = seat.activated /\ r.keyboard = seat.keyboard
        /\ r.pointer = seat.pointer /\ r.active_inhibitor = seat.active_inhibitor
        /\ r.active_constraint \in {NONE, seat.active_constraint} \ ({v} \ {NONE})
    BY <2>2, SurfacesApart DEF Kept, Seats
  <2> HIDE DEF r
  <2>4. Kept(World', {}, r) /\ Active(World', r) /\ Inhibited(World', r)
    BY <1>3, <2>1, <2>2, <2>3 DEF Kept, Active, Inhibited
  <2>5. ~World'.locked => /\ Placed(r)
                          /\ r.focused_layer # NONE => Wanted(World', r.focused_layer)
    BY <1>3, <1>4, <2>3 DEF Focused, Settled, Placed, Wanted, LayerOn
  <2>6. Focused(World', {}, seat')
    BY <2>1, <2>4, <2>5 DEF Focused, Settled
  <2> QED BY <1>2, <2>6 DEF FocusInv
<1> QED BY <1>5, <1>6

\* Keys change the mode and let go of the pointer constraint.
LEMMA FocusKeysStep ==
  ASSUME FocusInv, NEW k \in Keys, PressKey(k) \/ ReleaseKey(k), around' = around
  PROVE  FocusInv'
<1>1. World' = World /\ UNCHANGED world
  BY DEF PressKey, ReleaseKey, world, World
<1>2. down' \in [Keys -> {"up", "client", "binding"}]
  BY DEF PressKey, ReleaseKey, FocusInv, WorldOK
<1>3. WorldOK'
  BY <1>1, <1>2 DEF FocusInv, WorldOK, world
<1>4. Focused(World, {}, seat)
  BY DEF FocusInv
<1>5. \A s, m : Focused(World, {}, s) => Focused(World, {}, SetMode(s, m))
  <2> SUFFICES ASSUME NEW s, NEW m, Focused(World, {}, s)
               PROVE  Focused(World, {}, SetMode(s, m))
    OBVIOUS
  <2> DEFINE n == IF m \in Modes THEN m ELSE s.mode
  <2>1. n \in Modes
    BY DEF Focused, Settled, Kept, Seats
  <2>2. SetMode(s, m) = [s EXCEPT !.mode = n]
    BY DEF SetMode
  <2> HIDE DEF n
  <2>3. Focused(World, {}, [s EXCEPT !.mode = n])
    BY <2>1 DEF Focused, Settled, Kept, Active, Placed, Inhibited, Seats
  <2> QED BY <2>2, <2>3
<1>6. \A s : \A H \in SUBSET Keys : Focused(World, {}, s) =>
        /\ Focused(World, {}, [s EXCEPT !.handled = H])
        /\ Focused(World, {}, [s EXCEPT !.active_constraint = NONE, !.handled = H])
  <2>1. ASSUME NEW s, NEW H \in SUBSET Keys, Focused(World, {}, s),
               NEW c \in {NONE, s.active_constraint}
        PROVE  Focused(World, {}, [s EXCEPT !.active_constraint = c, !.handled = H])
    <3> DEFINE t == [s EXCEPT !.active_constraint = c, !.handled = H]
    <3>1. Kept(World, {}, s)
      BY <2>1 DEF Focused, Settled
    <3>2. /\ t \in Seats /\ t.focused_output = s.focused_output
          /\ t.focused_layer = s.focused_layer /\ t.focused_view = s.focused_view
          /\ t.activated = s.activated /\ t.keyboard = s.keyboard
          /\ t.pointer = s.pointer /\ t.active_inhibitor = s.active_inhibitor
          /\ t.active_constraint = c
      BY <3>1, ZenonT(90) DEF Kept, Seats
    <3> HIDE DEF t
    <3>3. Focused(World, {}, t)
      BY <2>1, <3>1, <3>2 DEF Focused, Settled, Kept, Active, Placed, Inhibited
    <3> QED BY <3>3 DEF t
  <2>2. ASSUME NEW s, NEW H \in SUBSET Keys, Focused(World, {}, s)
        PROVE  [s EXCEPT !.active_constraint = s.active_constraint, !.handled = H]
                 = [s EXCEPT !.handled = H]
    BY <2>2 DEF Seats, Focused, Settled, Kept
  <2>3. \A s : s.active_constraint \in {NONE, s.active_constraint}
    OBVIOUS
  <2>4. ASSUME NEW s, NEW H \in SUBSET Keys, Focused(World, {}, s)
        PROVE  Focused(World, {}, [s EXCEPT !.handled = H])
    BY <2>1, <2>2, <2>3, <2>4
  <2> QED BY <2>1, <2>4
<1>7. \A s : Focused(World, {}, s) => s.handled \in SUBSET Keys
  BY DEF Focused, Settled, Kept, Seats
<1>8. CASE PressKey(k)
  <2> DEFINE s == SetMode(seat, ModeOfPress(seat, k))
             b == BindingOf(s, k)
             r == SetMode(s, b)
  <2>1. \/ seat' = s
        \/ seat' = [r EXCEPT !.active_constraint = NONE,
                             !.handled = r.handled \cup ({k} \cap Tracked)]
    BY <1>8 DEF PressKey
  <2>2. Focused(World, {}, s)
    BY <1>4, <1>5
  <2> HIDE DEF s, b
  <2>3. Focused(World, {}, r)
    BY <1>5, <2>2
  <2> HIDE DEF r
  <2>4. r.handled \cup ({k} \cap Tracked) \in SUBSET Keys
    BY <1>7, <2>3
  <2>5. Focused(World, {}, seat')
    BY <1>6, <2>1, <2>2, <2>3, <2>4, ZenonT(90)
  <2> QED BY <1>1, <1>3, <2>5 DEF FocusInv
<1>9. CASE ReleaseKey(k)
  <2>1. seat' = seat \/ seat' = [seat EXCEPT !.handled = seat.handled \ {k}]
    BY <1>9 DEF ReleaseKey
  <2>2. seat.handled \ {k} \in SUBSET Keys
    BY <1>4, <1>7
  <2>3. Focused(World, {}, seat')
    BY <1>4, <1>6, <2>1, <2>2, ZenonT(90)
  <2> QED BY <1>1, <1>3, <2>3 DEF FocusInv
<1> QED BY <1>8, <1>9

LEMMA StepFocusInv == FocusInv /\ [Next]_vars => FocusInv'
<1> SUFFICES ASSUME FocusInv, [Next]_vars PROVE FocusInv'
  OBVIOUS
<1>1. CASE UNCHANGED vars
  BY <1>1 DEF vars, world, FocusInv, WorldOK, World
<1>2. CASE Next
  <2>1. Handlers /\ around' = around
    BY <1>2 DEF Next
  <2> QED BY <2>1, FocusViewsStep, LayerComesStep, LayerGoesStep, FocusNewLockStep,
             FocusLockSurfacesStep, FocusLockGoesStep, FocusOutputsStep, FocusUnplugStep,
             FocusPointerStep, FocusInhibitorsStep, FocusConstraintsStep, FocusKeysStep
          DEF Handlers
<1> QED BY <1>1, <1>2

\* What the session believes about the keyboard and the pointer is what the seat
\* does: the keyboard is on the focused layer or else on the focused window, a
\* focused layer is mapped on an enabled output, and the shortcut inhibitor and the
\* pointer constraint are those of the surfaces that have the keyboard and the
\* pointer (leme_layer_restore_keyboard_focus, protocols/input.c), in a session of
\* any size and after any sequence of handlers.
THEOREM FocusIsSound == Spec => []FocusSound
<1>1. FocusInv => FocusSound
  <2> SUFFICES ASSUME FocusInv PROVE FocusSound
    OBVIOUS
  <2>1. Kept(World, {}, seat) /\ Active(World, seat) /\ Inhibited(World, seat)
        /\ (~session.locked => /\ Placed(seat)
                               /\ seat.focused_layer # NONE => Wanted(World, seat.focused_layer))
    BY WorldFields DEF FocusInv, Focused, Settled
  <2>2. TypeOK
    BY <2>1, WorldFields DEF FocusInv, WorldOK, Kept, Seats, TypeOK
  <2>3. KeyboardAgrees
    BY <2>1, WorldFields DEF KeyboardAgrees, Active, Placed
  <2>4. FocusedLayerSound
    BY <2>1, WorldFields DEF FocusedLayerSound, Wanted, LayerOn
  <2>5. InhibitorAgrees /\ ConstraintAgrees
    BY <2>1, WorldFields DEF InhibitorAgrees, ConstraintAgrees, Inhibited, Kept
  <2> QED BY <2>2, <2>3, <2>4, <2>5 DEF FocusSound
<1> QED BY InitFocusInv, StepFocusInv, <1>1, PTL DEF Spec

-----------------------------------------------------------------------------
(* Exclusive layers                                                        *)

\* An exclusive layer has the keyboard.
Held(w, s) ==
  /\ s.focused_layer \in Layers /\ LayerOn(w, s.focused_layer)
  /\ w.layer[s.focused_layer].keyboard = "exclusive"

LEMMA HeldExclusive ==
  ASSUME NEW w, NEW s, Held(w, s)
  PROVE  Exclusive(w, s) = {TRUE}
<1>1. w.layer[s.focused_layer].mapped
  BY DEF Held, LayerOn
<1>2. w.layer[s.focused_layer] # NoLayer
  BY <1>1 DEF NoLayer
<1>3. s.focused_layer # NONE
  BY SurfacesApart DEF Held
<1> QED BY <1>2, <1>3 DEF Exclusive, Held

\* No window takes its keyboard (leme_view_focus), however the tags are refreshed.
LEMMA HeldViews ==
  ASSUME NEW w, NEW s, Held(w, s)
  PROVE  /\ \A v \in Views : ViewFocus(w, s, v) \subseteq {s}
         /\ \A o : Refresh(w, s, o) \subseteq {s}
<1>1. Exclusive(w, s) = {TRUE}
  BY HeldExclusive
<1>2. \A v \in Views : ViewFocus(w, s, v) \subseteq {s}
  BY <1>1 DEF ViewFocus
<1>3. \A o : Refresh(w, s, o) \subseteq {s}
  BY <1>1, <1>2 DEF Refresh
<1> QED BY <1>2, <1>3

\* The focused layer after the small steps that follow a focus.
LEMMA EnterLayer ==
  ASSUME NEW w, NEW s \in Seats, NEW surface \in Surfaces \cup {NONE}
  PROVE  Enter(w, s, surface).focused_layer = s.focused_layer /\ Enter(w, s, surface) \in Seats
<1> DEFINE r == [s EXCEPT !.keyboard = surface]
<1>1. /\ r \in Seats /\ r.focused_layer = s.focused_layer
      /\ Enter(w, s, surface) = UpdateKeyboard(w, r)
  BY DEF Enter, Seats
<1> HIDE DEF r
<1> QED BY <1>1, UpdateKeyboardGives

LEMMA SameLayer ==
  ASSUME NEW w, NEW s \in Seats
  PROVE  /\ UpdateKeyboard(w, s).focused_layer = s.focused_layer
         /\ UpdateKeyboard(w, s) \in Seats
         /\ w.constraints \subseteq Views =>
              \A t \in UpdatePointer(w, s) : t.focused_layer = s.focused_layer /\ t \in Seats
<1>1. w.constraints \subseteq Views =>
        \A t \in UpdatePointer(w, s) : t.focused_layer = s.focused_layer /\ t \in Seats
  BY DEF UpdatePointer, Seats
<1> QED BY <1>1, UpdateKeyboardGives

LEMMA HeldMotion ==
  ASSUME NEW w, NEW s \in Seats, NEW hit \in Surfaces \cup {NONE}, Sane(w), Held(w, s)
  PROVE  \A t \in ProcessMotion(w, s, hit) : t \in Seats /\ Held(w, t)
<1> DEFINE surface == IF Allowed(w, hit) THEN hit ELSE NONE
           followed == IF w.locked THEN {s} ELSE FollowPointer(w, s)
           hovered == IF w.locked \/ surface \notin Views THEN followed
                      ELSE UNION {ViewFocus(w, t, surface) : t \in followed}
           Good(t) == t \in Seats /\ Held(w, t)
<1>1. surface \in Surfaces \cup {NONE}
  OBVIOUS
<1>2. \A o \in w.enabled : Good([s EXCEPT !.focused_output = o])
  BY DEF Seats, Held, Sane
<1>3. \A t \in followed : Good(t)
  <2>1. \A o \in w.enabled : \A t \in Refresh(w, [s EXCEPT !.focused_output = o], o) : Good(t)
    BY <1>2, HeldViews
  <2> QED BY <2>1 DEF FollowPointer
<1>4. \A t \in hovered : Good(t)
  <2> HIDE DEF surface, followed
  <2>1. \A t \in followed : surface \in Views => \A u \in ViewFocus(w, t, surface) : Good(u)
    BY <1>3, HeldViews
  <2> QED BY <1>3, <2>1
<1>5. ProcessMotion(w, s, hit) =
        UNION {UpdatePointer(w, [t EXCEPT !.pointer = surface]) : t \in hovered}
  BY DEF ProcessMotion
<1> HIDE DEF surface, hovered
<1>6. \A t \in hovered : Good([t EXCEPT !.pointer = surface])
  BY <1>1, <1>4 DEF Seats, Held
<1>7. \A t \in hovered : \A u \in UpdatePointer(w, [t EXCEPT !.pointer = surface]) : Good(u)
  <2>1. \A x : Good(x) => \A u \in UpdatePointer(w, x) : Good(u)
    BY SameLayer DEF Held, Sane
  <2> HIDE DEF Good
  <2> QED BY <1>6, <2>1
<1> QED BY <1>5, <1>7

\* leme_layer_focus gives the keyboard to a layer, or leaves it.
LEMMA LayerFocusLayer ==
  ASSUME NEW w, NEW s \in Seats, NEW l \in Layers
  PROVE  LET t == LayerFocus(w, s, l)
         IN /\ t \in Seats /\ (t = s \/ t.focused_layer = l)
            /\ ~w.locked /\ Wanted(w, l) => t.focused_layer = l
<1> DEFINE c == [s EXCEPT !.activated = s.activated \ {s.focused_view}, !.focused_view = NONE]
           q == ClearFocus(w, s)
           r == [q EXCEPT !.focused_layer = l]
<1>1. LayerFocus(w, s, l) = s \/ LayerFocus(w, s, l) = Enter(w, r, l)
  BY DEF LayerFocus
<1>2. ~w.locked /\ Wanted(w, l) => LayerFocus(w, s, l) = Enter(w, r, l) \/ s.focused_layer = l
  BY DEF LayerFocus, Wanted
<1>3. c \in Seats
  BY DEF Seats
<1>4. q = c \/ q = Enter(w, c, NONE)
  BY DEF ClearFocus
<1> HIDE DEF c, q
<1>5. q \in Seats
  BY <1>3, <1>4, EnterLayer
<1>6. r \in Seats /\ r.focused_layer = l
  BY <1>5 DEF Seats
<1>7. l \in Surfaces \cup {NONE}
  BY DEF Surfaces
<1> HIDE DEF r
<1>8. Enter(w, r, l) \in Seats /\ Enter(w, r, l).focused_layer = l
  BY <1>6, <1>7, EnterLayer
<1>9. LayerFocus(w, s, l) = s => LayerFocus(w, s, l) \in Seats
  OBVIOUS
<1> QED BY <1>1, <1>2, <1>8, <1>9

\* leme_layer_restore_keyboard_focus gives it to an exclusive layer as long as there
\* is one.
LEMMA HeldRestore ==
  ASSUME NEW w, NEW s \in Seats, NEW l \in Layers, ~w.locked,
         LayerOn(w, l), w.layer[l].keyboard = "exclusive"
  PROVE  \A t \in RestoreKeyboardFocus(w, s) : t \in Seats /\ t.focused_layer \in Layers
<1> DEFINE r == [s EXCEPT !.focused_layer = NONE]
           claims == {m \in Layers : LayerOn(w, m) /\ w.layer[m].keyboard = "exclusive"}
<1>1. RestoreKeyboardFocus(w, s) = {LayerFocus(w, r, m) : m \in claims}
  BY DEF RestoreKeyboardFocus
<1>2. r \in Seats
  BY DEF Seats
<1>3. \A m \in claims : Wanted(w, m) /\ m \in Layers
  BY DEF Wanted
<1> HIDE DEF r
<1>4. \A m \in claims : LET t == LayerFocus(w, r, m) IN t \in Seats /\ t.focused_layer = m
  BY <1>2, <1>3, LayerFocusLayer
<1> QED BY <1>1, <1>3, <1>4

\* The lock surfaces that go take nothing from a layer.
LEMMA SameLayerLockSurfacesGone ==
  ASSUME NEW w, NEW s \in Seats, NEW gone, w.constraints \subseteq Views
  PROVE  \A t \in LockSurfacesGone(w, s, gone) : t.focused_layer = s.focused_layer
<1> DEFINE surfaces == {LockSurface(o) : o \in gone}
           r == IF s.keyboard \in surfaces THEN Enter(w, s, NONE) ELSE s
<1>1. LockSurfacesGone(w, s, gone) =
        IF s.pointer \in surfaces THEN UpdatePointer(w, [r EXCEPT !.pointer = NONE]) ELSE {r}
  BY DEF LockSurfacesGone
<1>2. r \in Seats /\ r.focused_layer = s.focused_layer
  BY EnterLayer
<1> HIDE DEF r, surfaces
<1> DEFINE q == [r EXCEPT !.pointer = NONE]
<1>3. q \in Seats /\ q.focused_layer = s.focused_layer
  BY <1>2 DEF Seats
<1> HIDE DEF q
<1>4. \A t \in UpdatePointer(w, q) : t.focused_layer = s.focused_layer
  BY <1>3, SameLayer
<1> QED BY <1>1, <1>2, <1>4 DEF q

\* What an action finds that leaves an exclusive layer that has the keyboard, and its
\* output, alone.
Undisturbed(l) ==
  /\ Holds(l) /\ layer'[l] = layer[l] /\ layer[l].output \in enabled' /\ ~session'.locked

LEMMA HeldNext ==
  ASSUME FocusInv, NEW l \in Layers, Undisturbed(l)
  PROVE  /\ Held(World', seat) /\ LayerOn(World', l) /\ layer'[l].keyboard = "exclusive"
         /\ ~World'.locked /\ ~session.locked /\ ~session.held
         /\ seat.focused_layer = l /\ seat \in Seats
         /\ World'.layer = layer' /\ World'.constraints = constraints'
         /\ layer[l].mapped /\ l # NONE
<1>1. /\ World'.plugged = plugged' /\ World'.enabled = enabled' /\ World'.layer = layer'
      /\ World'.locked = session'.locked /\ World'.constraints = constraints'
      /\ World.layer = layer
  BY DEF World
<1>2. /\ ~session.locked /\ seat.focused_layer = l /\ layer[l].mapped
      /\ layer[l].keyboard = "exclusive"
  BY <1>1 DEF Undisturbed, Holds, LayerOn
<1>3. LayerOn(World', l) /\ layer'[l].keyboard = "exclusive" /\ ~World'.locked
  BY <1>1, <1>2 DEF Undisturbed, LayerOn
<1>4. Kept(World, {}, seat)
  BY DEF FocusInv, Focused, Settled
<1> QED BY <1>1, <1>2, <1>3, <1>4, SurfacesApart DEF Held, Kept, FocusInv, WorldOK

LEMMA HeldLayerGoes ==
  ASSUME NEW w, NEW s \in Seats, NEW gone, s.focused_layer \notin gone
  PROVE  \A t \in LayersGone(w, s, gone) : t.focused_layer = s.focused_layer /\ t \in Seats
<1> DEFINE r == [s EXCEPT !.keyboard = IF s.keyboard \in gone THEN NONE ELSE s.keyboard,
                          !.pointer = IF s.pointer \in gone THEN NONE ELSE s.pointer]
<1>1. LayersGone(w, s, gone) = {UpdateKeyboard(w, r)}
  BY DEF LayersGone
<1>2. r \in Seats /\ r.focused_layer = s.focused_layer
  BY ZenonT(90) DEF Seats
<1> HIDE DEF r
<1> QED BY <1>1, <1>2, SameLayer

LEMMA HeldViewsStep ==
  ASSUME FocusInv, NEW l \in Layers, Undisturbed(l), NEW v \in Views,
         MapView(v) \/ UnmapView(v) \/ NewConstraint(v) \/ DestroyConstraint(v)
  PROVE  seat'.focused_layer = l
<1>1. Held(World', seat) /\ seat.focused_layer = l /\ seat \in Seats /\ l # NONE
  BY HeldNext
<1>2. CASE MapView(v)
  BY <1>1, <1>2, HeldViews DEF MapView
<1>3. CASE UnmapView(v)
  <2>1. seat.focused_view # v
    BY <1>1, SurfacesApart DEF FocusInv, Focused, Settled, Kept
  <2> QED BY <1>1, <1>3, <2>1, HeldViews DEF UnmapView
<1>4. CASE NewConstraint(v)
  <2>1. World'.constraints \subseteq Views
    BY <1>4, HeldNext DEF NewConstraint, FocusInv, WorldOK
  <2> QED BY <1>1, <1>4, <2>1, SameLayer DEF NewConstraint
<1>5. CASE DestroyConstraint(v)
  BY <1>1, <1>5 DEF DestroyConstraint, Seats
<1> QED BY <1>2, <1>3, <1>4, <1>5

LEMMA HeldLayersStep ==
  ASSUME FocusInv, NEW l \in Layers, Undisturbed(l), NEW m \in Layers,
         \/ \E o \in Outputs, k \in Interactivity : NewLayer(m, o, k)
         \/ \E k \in Interactivity : CommitLayer(m, k)
         \/ MapLayer(m) \/ UnmapLayer(m) \/ DestroyLayer(m)
  PROVE  seat'.focused_layer \in Layers
<1>1. /\ seat.focused_layer = l /\ seat \in Seats /\ layer[l].mapped /\ layer'[l] = layer[l]
  BY HeldNext DEF Undisturbed
<1>2. layer \in [Layers -> [output : Outputs \cup {NONE}, mapped : BOOLEAN,
                            keyboard : Interactivity]]
  BY DEF FocusInv, WorldOK
<1>3. LayerFocus(World', seat, m).focused_layer \in Layers
  BY <1>1, LayerFocusLayer
<1>4. CASE \E o \in Outputs, k \in Interactivity : NewLayer(m, o, k)
  BY <1>1, <1>4 DEF NewLayer
<1>5. CASE \E k \in Interactivity : CommitLayer(m, k)
  <2>1. PICK k \in Interactivity : CommitLayer(m, k)
    BY <1>5
  <2>2. layer'[m] = [layer[m] EXCEPT !.keyboard = k] /\ layer[m].keyboard # k
    BY <1>2, <2>1 DEF CommitLayer
  <2>3. layer'[m].keyboard = k
    BY <1>2, <2>2
  <2>4. m # l
    BY <1>1, <2>2, <2>3
  <2>5. seat' = LayerFocus(World', seat, m) \/ seat' = seat
    BY <1>1, <2>1, <2>4 DEF CommitLayer
  <2> QED BY <1>1, <1>3, <2>5
<1>6. CASE MapLayer(m)
  <2>1. seat' = LayerFocus(World', seat, m) \/ seat' = seat
    BY <1>6 DEF MapLayer
  <2> QED BY <1>1, <1>3, <2>1
<1>7. CASE UnmapLayer(m)
  <2>1. ~layer'[m].mapped
    BY <1>2, <1>7 DEF UnmapLayer
  <2>2. m # l
    BY <1>1, <2>1
  <2> QED BY <1>1, <1>7, <2>2 DEF UnmapLayer
<1>8. CASE DestroyLayer(m)
  <2>1. layer'[m] = NoLayer /\ ~NoLayer.mapped
    BY <1>2, <1>8 DEF DestroyLayer, NoLayer
  <2>2. m # l
    BY <1>1, <2>1
  <2>3. seat' \in LayersGone(World', seat, {m}) /\ seat.focused_layer \notin {m}
    BY <1>1, <1>8, <2>2 DEF DestroyLayer
  <2>4. seat'.focused_layer = seat.focused_layer
    BY <1>1, <2>3, HeldLayerGoes
  <2> QED BY <1>1, <2>4
<1> QED BY <1>4, <1>5, <1>6, <1>7, <1>8

\* leme_output_reconcile
LEMMA HeldReconcile ==
  ASSUME NEW w, NEW s \in Seats, NEW l \in Layers, NEW lost, ~w.locked, Sane(w),
         LayerOn(w, l), w.layer[l].keyboard = "exclusive", s.focused_layer = l
  PROVE  \A t \in Reconcile(w, s, lost) : t \in Seats /\ t.focused_layer \in Layers
<1>1. \A o \in Successors(w, s) : [s EXCEPT !.focused_output = o] \in Seats
  BY DEF Successors, Sane, Seats
<1>2. \A o \in Successors(w, s) :
        \A t \in RestoreKeyboardFocus(w, [s EXCEPT !.focused_output = o]) :
          t \in Seats /\ t.focused_layer \in Layers
  BY <1>1, HeldRestore
<1> QED BY <1>2 DEF Reconcile

LEMMA HeldOutputsStep ==
  ASSUME FocusInv, WorldOK', NEW l \in Layers, Undisturbed(l), NEW o \in Outputs,
         Disable(o) \/ Enable(o) \/ Plug(o)
  PROVE  seat'.focused_layer \in Layers
<1>1. \E lost \in LayerFocusLost(World', seat) : seat' \in Reconcile(World', seat, lost)
  BY DEF Disable, Enable, SetEnabled, Plug
<1>2. Sane(World')
  BY DEF World, Sane, WorldOK
<1>3. /\ seat \in Seats /\ ~World'.locked /\ LayerOn(World', l)
      /\ World'.layer[l].keyboard = "exclusive" /\ seat.focused_layer = l
  BY <1>1, HeldNext
<1> QED BY <1>1, <1>2, <1>3, HeldReconcile

LEMMA HeldUnplugStep ==
  ASSUME FocusInv, WorldOK', NEW l \in Layers, Undisturbed(l), NEW o \in Outputs, Unplug(o)
  PROVE  seat'.focused_layer \in Layers
<1> DEFINE gone == {m \in Layers : layer[m].output = o}
           w == [World EXCEPT !.layer = layer', !.inhibitors = inhibitors']
<1>1. PICK successor, s, lost :
        /\ successor \in IF enabled' # {} THEN enabled' ELSE plugged'
        /\ s \in LayersGone(w, seat, gone)
        /\ \E t \in Reconcile(World', [s EXCEPT !.focused_output =
                                          IF s.focused_output = o THEN successor
                                          ELSE s.focused_output], lost) :
             seat' \in LockSurfacesGone(World', t, {o})
  BY ZenonT(90) DEF Unplug
<1> DEFINE focused == [s EXCEPT !.focused_output = IF s.focused_output = o THEN successor
                                                   ELSE s.focused_output]
<1>2. Sane(World') /\ World'.constraints \subseteq Views
  BY DEF World, Sane, WorldOK
<1>3. /\ ~World'.locked /\ LayerOn(World', l) /\ World'.layer[l].keyboard = "exclusive"
      /\ seat.focused_layer = l /\ seat \in Seats
  BY HeldNext
<1>4. seat.focused_layer \notin gone
  <2>1. enabled' = enabled \ {o} /\ layer[l].output \in enabled'
    BY DEF Unplug, Undisturbed
  <2> QED BY <1>3, <2>1
<1> HIDE DEF gone, w
<1>5. s.focused_layer = l /\ s \in Seats
  BY <1>1, <1>3, <1>4, HeldLayerGoes
<1>6. focused \in Seats /\ focused.focused_layer = l
  <2>1. successor \in Outputs
    BY <1>1 DEF WorldOK
  <2> QED BY <1>5, <2>1 DEF Seats
<1> HIDE DEF focused
<1>7. \A t \in Reconcile(World', focused, lost) : t \in Seats /\ t.focused_layer \in Layers
  BY <1>2, <1>3, <1>6, HeldReconcile
<1>8. PICK t \in Reconcile(World', focused, lost) : seat' \in LockSurfacesGone(World', t, {o})
  BY <1>1 DEF focused
<1> QED BY <1>2, <1>7, <1>8, SameLayerLockSurfacesGone

LEMMA HeldInputStep ==
  ASSUME FocusInv, NEW l \in Layers, Undisturbed(l),
         \/ \E hit \in Surfaces \cup {NONE} : Point(hit) \/ Press(hit)
         \/ \E surface \in Surfaces : NewInhibitor(surface) \/ DestroyInhibitor(surface)
         \/ \E k \in Keys : PressKey(k) \/ ReleaseKey(k)
  PROVE  seat'.focused_layer \in Layers
<1>1. /\ seat \in Seats /\ seat.focused_layer = l /\ Held(World', seat)
  BY HeldNext
<1>2. ASSUME NEW hit \in Surfaces \cup {NONE}, Point(hit) \/ Press(hit)
      PROVE  seat'.focused_layer \in Layers
  <2>1. World' = World
    BY <1>2 DEF Point, Press, world, World
  <2>2. Sane(World)
    BY DEF World, Sane, FocusInv, WorldOK
  <2>3. \A s \in ProcessMotion(World, seat, hit) : s \in Seats /\ s.focused_layer \in Layers
    BY <1>1, <2>1, <2>2, HeldMotion DEF Held
  <2>4. \A s \in ProcessMotion(World, seat, hit) :
          hit \in Layers => LayerFocus(World, s, hit).focused_layer \in Layers
    BY <2>3, LayerFocusLayer
  <2> QED BY <1>2, <2>3, <2>4 DEF Point, Press
<1>3. ASSUME NEW surface \in Surfaces, NewInhibitor(surface) \/ DestroyInhibitor(surface)
      PROVE  seat'.focused_layer \in Layers
  <2> DEFINE r == [seat EXCEPT !.active_inhibitor =
                     IF seat.active_inhibitor = surface THEN NONE ELSE seat.active_inhibitor]
  <2>1. seat' = UpdateKeyboard(World', seat) \/ seat' = UpdateKeyboard(World', r)
    BY <1>3 DEF NewInhibitor, DestroyInhibitor
  <2>2. r \in Seats /\ r.focused_layer = l
    BY <1>1 DEF Seats
  <2> HIDE DEF r
  <2> QED BY <1>1, <2>1, <2>2, SameLayer
<1>4. ASSUME NEW k \in Keys, PressKey(k) \/ ReleaseKey(k)
      PROVE  seat'.focused_layer \in Layers
  <2>1. \A s, m : s \in Seats =>
          SetMode(s, m) \in Seats /\ SetMode(s, m).focused_layer = s.focused_layer
    BY DEF SetMode, Seats
  <2> DEFINE s == SetMode(seat, ModeOfPress(seat, k))
             r == SetMode(s, BindingOf(s, k))
  <2>2. \/ seat' = s \/ seat' = seat
        \/ seat' = [r EXCEPT !.active_constraint = NONE,
                             !.handled = r.handled \cup ({k} \cap Tracked)]
        \/ seat' = [seat EXCEPT !.handled = seat.handled \ {k}]
    BY <1>4 DEF PressKey, ReleaseKey
  <2>3. s \in Seats /\ s.focused_layer = l
    BY <1>1, <2>1
  <2> HIDE DEF s
  <2>4. r \in Seats /\ r.focused_layer = l
    BY <2>1, <2>3
  <2> HIDE DEF r
  <2> QED BY <1>1, <2>2, <2>3, <2>4 DEF Seats
<1> QED BY <1>2, <1>3, <1>4

\* An exclusive layer loses the keyboard only to another layer, to a lock, or because
\* it gave it up or its output went: no window that is mapped, clicked, hovered or
\* moved to the focused output takes it (leme_view_focus), with any number of layers.
THEOREM ExclusiveLayersKeep == Spec => ExclusiveLayersKeepKeyboard
<1>1. ASSUME FocusInv, FocusInv', [Next]_vars,
             NEW l \in Layers, Holds(l), layer'[l] = layer[l], layer[l].output \in enabled'
      PROVE  session'.locked \/ seat'.focused_layer \in Layers
  <2> SUFFICES ASSUME ~session'.locked PROVE seat'.focused_layer \in Layers
    OBVIOUS
  <2>1. Undisturbed(l)
    BY <1>1 DEF Undisturbed
  <2>2. /\ seat.focused_layer = l /\ ~session.held
        /\ WorldOK' /\ lockSurface = [o \in Outputs |-> "none"]
    BY <1>1, <2>1, HeldNext DEF FocusInv, WorldOK
  <2>3. CASE UNCHANGED vars
    BY <2>2, <2>3 DEF vars
  <2>4. CASE Next
    <3>1. ~NewLock /\ ~Unlock /\ ~LockClientDies
      BY <2>2 DEF NewLock, Unlock, LockClientDies
    <3>2. \A o \in Outputs : ~NewLockSurface(o) /\ ~CommitLockSurface(o) /\ ~DestroyLockSurface(o)
      BY <2>2 DEF NewLockSurface, CommitLockSurface, DestroyLockSurface
    <3>3. Handlers
      BY <2>4 DEF Next
    <3> QED BY <1>1, <2>1, <2>2, <3>1, <3>2, <3>3, HeldViewsStep, HeldLayersStep,
               HeldOutputsStep, HeldUnplugStep, HeldInputStep DEF Handlers
  <2> QED BY <1>1, <2>3, <2>4
<1>2. FocusInv /\ FocusInv' /\ [Next]_vars =>
        [\A l \in Layers :
           Holds(l) /\ layer'[l] = layer[l] /\ layer[l].output \in enabled' =>
             session'.locked \/ seat'.focused_layer \in Layers]_vars
  BY <1>1
<1> QED BY InitFocusInv, StepFocusInv, <1>2, PTL DEF Spec, ExclusiveLayersKeepKeyboard

=============================================================================
