------------------------------ MODULE Monitors ------------------------------
(***************************************************************************)
(* How the outputs of output/output.c get their mode, scale and place:     *)
(* from the configuration, at hotplug and on a reload; from a client of    *)
(* the output manager; and from the power protocol.  Each is a plan that   *)
(* is tested, committed to the backend, and then reconciled with the       *)
(* layout and the scene; each of these steps may fail, and what was done   *)
(* is undone.  The box that covers a locked session follows the layout.    *)
(*                                                                         *)
(* What a reconciliation does to windows, panels and scratchpads is left   *)
(* to Workspace, Seat, Sticky and Scratchpad, and the tag tables a reload  *)
(* resizes to Workspace.  The commit listener, which refreshes the focused *)
(* output ahead of the reconciliation that does it for all, is left out.   *)
(***************************************************************************)
EXTENDS Placement, Lists

CONSTANTS Outputs,    \* connectors
          Fallback,   \* the headless output
          NONE,       \* a null pointer
          Modes,      \* the modes of every connector, the preferred one first;
                      \* none for an output of a nested session
          NativeSize, \* the size of an output without modes
          Tolerance,  \* LEME: 1 Hz, how far a refresh may be from the configured
          Scenarios,  \* the files a session may be configured with, each a
                      \* function from connectors to blocks, what a client may
                      \* request for an output, and whether the session locks
          MaxFaults   \* bound: operations the backend or a reconciliation fails

All == Outputs \cup {Fallback}
NoMode == [width |-> 0, height |-> 0, refresh |-> 0]
NoHeads == <<>>

Places == (IntMin..IntMax) \X (IntMin..IntMax)
ModeShape == [width : 0..IntMax, height : 0..IntMax, refresh : 0..IntMax]
Scales == Nat \ {0}
Relations == {"none", "left_of", "right_of", "top_of", "bottom_of"}

ASSUME MonitorsAssumption ==
  /\ Fallback \notin Outputs /\ NONE \notin All /\ Modes[Fallback] = <<>>
  /\ Modes \in [All -> Seq(ModeShape)] /\ NativeSize \in ModeShape
  /\ MaxFaults \in Nat

\* config/parse.c lets no more through, and positions and sizes are C ints.
ASSUME ScenariosAssumption ==
  \A a \in Scenarios :
    /\ \A file \in a.files : \A o \in DOMAIN file :
         /\ file[o].mode \in ModeShape /\ file[o].scale \in Scales
         /\ file[o].rotated \in BOOLEAN /\ file[o].relation \in Relations
         /\ file[o].position \in {Unplaced} \cup Places
    /\ \A head \in a.heads :
         /\ head.mode \in ModeShape /\ head.scale \in Scales
         /\ head.rotated \in BOOLEAN /\ head.enabled \in BOOLEAN /\ head.at \in Places

\* No scale, which is at most 4.0, makes a screen of nothing out of a mode.
Fitting(size, scale) ==
  size.width > 0 /\ size.height > 0 => scale <= 2 * size.width /\ scale <= 2 * size.height

ASSUME SizesAssumption ==
  \A o \in All : \A size \in {NativeSize} \cup {Modes[o][i] : i \in DOMAIN Modes[o]} :
    /\ Fitting(size, 2)
    /\ \A a \in Scenarios :
         /\ \A file \in a.files : \A p \in DOMAIN file : Fitting(size, file[p].scale)
         /\ \A head \in a.heads : Fitting(size, head.scale)

\* answer: what the last operation was and how it ended, "lost" being where the
\* model stops; around: the files and clients of the session.
VARIABLES w, answer, faults, around

vars == <<w, answer, faults, around>>

\* Of w: outputs, the connect order; powered, what the power protocol wants on;
\* enabled, mode, scale, rotated, what the backend shows; at, the place given to
\* an output, laid, the one it has in the layout, scene, the outputs drawn; full,
\* the box windows get; config, the running configuration, and keyed, whether
\* the keymap is the one of it; blocker, the box that covers a locked session;
\* published, what clients of the output manager were told.

Listed(s) == Elements(s.outputs)

-----------------------------------------------------------------------------
(* Plans                                                                   *)

\* leme_output_config_for: the block of an output, or the defaults.
Entry(config, o) ==
  IF o \in DOMAIN config THEN config[o]
  ELSE [mode |-> NoMode, scale |-> 2, rotated |-> FALSE, position |-> Unplaced,
        relation |-> "none", relative_to |-> NONE]

Preferred(o) == IF Modes[o] = <<>> THEN NoMode ELSE Modes[o][1]

Difference(mode, entry) ==
  Greater(mode.refresh - entry.mode.refresh, entry.mode.refresh - mode.refresh)

\* leme_output_select_mode: of the configured size the nearest refresh within
\* the tolerance, or the highest when the block names none.
SelectMode(o, entry) ==
  LET sized == {i \in DOMAIN Modes[o] : Modes[o][i].width = entry.mode.width
                                     /\ Modes[o][i].height = entry.mode.height}
      far(i) == IF entry.mode.refresh = 0 THEN -Modes[o][i].refresh
                ELSE Difference(Modes[o][i], entry)
      best == CHOOSE i \in sized : \A j \in sized :
                far(i) < far(j) \/ (far(i) = far(j) /\ i <= j)
  IN IF entry.mode = NoMode THEN Preferred(o)
     ELSE IF sized = {} THEN NoMode
     ELSE IF entry.mode.refresh # 0 /\ far(best) > Tolerance THEN NoMode
     ELSE Modes[o][best]

\* leme_output_build_plans: the mode an output is planned with; without one
\* it keeps its size.
PlannedMode(s, config, o) ==
  LET choice == <<SelectMode(o, Entry(config, o)), Preferred(o), s.mode[o]>> IN
  CHOOSE mode \in {choice[i] : i \in 1..3} :
    \E i \in 1..3 : /\ mode = choice[i]
                    /\ i < 3 => mode # NoMode
                    /\ \A j \in 1..(i - 1) : choice[j] = NoMode

\* A block whose mode there is not fails a plan, except at startup.
Unavailable(s, config) ==
  \E o \in Listed(s) : /\ Entry(config, o).mode # NoMode
                       /\ SelectMode(o, Entry(config, o)) = NoMode

\* leme_output_resolve_plans
PlacementRequest(s, config, o) ==
  LET entry == Entry(config, o) IN
  [name |-> o, size |-> LogicalSize(PlannedMode(s, config, o), entry.scale, entry.rotated),
   position |-> entry.position, relation |-> entry.relation,
   relative_to |-> entry.relative_to]

PlacementRequests(s, config) ==
  [i \in DOMAIN s.outputs |-> PlacementRequest(s, config, s.outputs[i])]

Index(s, o) == CHOOSE i \in DOMAIN s.outputs : s.outputs[i] = o

\* The plan for all outputs with some of them on, or none.
Plans(s, config, startup, on) ==
  {[o \in Listed(s) |->
      [enabled |-> o \in on, at |-> places[Index(s, o)], mode |-> PlannedMode(s, config, o),
       scale |-> Entry(config, o).scale, rotated |-> Entry(config, o).rotated]] :
    places \in
      {Resolve(requests) : requests \in
         {all \in {PlacementRequests(s, config)} :
            /\ s.outputs # <<>> /\ (startup \/ ~Unavailable(s, config))
            /\ \A i \in DOMAIN all : all[i].size # NoSize}}}

\* leme_output_head_box, leme_output_plan_box
HeadBox(head) == Box(head.at, LogicalSize(head.mode, head.scale, head.rotated))

\* leme_output_heads_overlap
HeadsOverlap(heads) ==
  LET on == {o \in DOMAIN heads : heads[o].enabled} IN
  \E boxes \in {[o \in on |-> HeadBox(heads[o])]} :
    \E a, b \in on : ~HasEdges(boxes[a]) \/ (a # b /\ ~Compatible(boxes[a], boxes[b]))

\* leme_output_build_persistent
BuildPersistent(s, config, startup) ==
  {heads \in Plans(s, config, startup, s.powered) : ~HeadsOverlap(heads)}

\* Mutant: places are not compared.
MatchesAnywhere(s, heads) ==
  \A o \in DOMAIN heads :
    /\ heads[o].enabled = (o \in s.enabled)
    /\ heads[o].enabled =>
         /\ heads[o].mode = s.mode[o] /\ heads[o].scale = s.scale[o]
         /\ heads[o].rotated = (o \in s.rotated)

\* leme_output_configuration_matches_current
MatchesCurrent(s, heads) ==
  \A o \in DOMAIN heads :
    /\ heads[o].enabled = (o \in s.enabled) /\ heads[o].at = s.at[o]
    /\ heads[o].enabled =>
         /\ heads[o].mode = s.mode[o] /\ heads[o].scale = s.scale[o]
         /\ heads[o].rotated = (o \in s.rotated)

-----------------------------------------------------------------------------
(* Committing and reconciling                                              *)

\* wlr_backend_commit
Committed(s, heads) ==
  LET on == {o \in DOMAIN heads : heads[o].enabled} IN
  [s EXCEPT
     !.enabled = (@ \ DOMAIN heads) \cup on,
     !.mode = [o \in All |-> IF o \in on THEN heads[o].mode ELSE s.mode[o]],
     !.scale = [o \in All |-> IF o \in on THEN heads[o].scale ELSE s.scale[o]],
     !.rotated = (@ \ on) \cup {o \in on : heads[o].rotated}]

\* leme_output_track_configuration
Tracked(s, heads) ==
  [s EXCEPT !.at = [o \in All |-> IF o \in DOMAIN heads THEN heads[o].at ELSE s.at[o]]]

\* leme_output_build_current_configuration
CurrentHeads(s) ==
  [o \in Listed(s) |-> [enabled |-> o \in s.enabled, at |-> s.at[o], mode |-> s.mode[o],
                        scale |-> s.scale[o], rotated |-> o \in s.rotated]]

Screen(s, o) ==
  Box(s.laid[o], EffectiveSize(s.mode[o], s.scale[o], o \in s.rotated))

\* leme_render_session_layout_box
LayoutBox(s) == Around({Screen(s, o) : o \in {p \in Listed(s) : s.laid[p] # Unplaced}})

FirstOf(s, which) ==
  IF which \cap Listed(s) = {} THEN NONE
  ELSE s.outputs[CHOOSE i \in DOMAIN s.outputs :
                   /\ s.outputs[i] \in which
                   /\ \A j \in DOMAIN s.outputs : s.outputs[j] \in which => i <= j]

\* leme_output_reconcile up to an output that cannot enter the layout or the
\* scene, or past all of them.
Attached(s, broken) ==
  LET done == {o \in Listed(s) : broken \in Listed(s) => Index(s, o) < Index(s, broken)} IN
  [s EXCEPT
     !.scene = (@ \ done) \cup (done \cap s.enabled),
     !.laid = [o \in All |-> IF o \notin done THEN s.laid[o]
                             ELSE IF o \in s.enabled THEN s.at[o] ELSE Unplaced]]

\* Only an output that is not in the layout yet can fail to enter it.
MayBreak(s) == {o \in s.enabled : s.laid[o] = Unplaced \/ o \notin s.scene}

\* What follows when all outputs are attached.
Refreshed(t) == [t EXCEPT !.full = [o \in All |-> IF o \in t.enabled THEN Screen(t, o)
                                                 ELSE t.full[o]]]

\* Mutants: the focus stays where it was; the lock is not told.
ReconcileKeepsFocus(s) ==
  {[Refreshed(t) EXCEPT !.blocker = LayoutBox(t)] : t \in {Attached(s, NONE)}}

ReconcileForgetsLock(s) ==
  {[Refreshed(t) EXCEPT !.focused = IF @ \in t.enabled THEN @ ELSE FirstOf(t, t.enabled)] :
     t \in {Attached(s, NONE)}}

\* leme_output_reconcile
Reconcile(s) ==
  {[Refreshed(t) EXCEPT !.blocker = LayoutBox(t),
                        !.focused = IF @ \in t.enabled THEN @ ELSE FirstOf(t, t.enabled)] :
     t \in {Attached(s, NONE)}}

\* leme_output_publish_configuration: what clients of the output manager see.
Publish(s) ==
  [s EXCEPT !.published =
     [o \in Listed(s) |-> [enabled |-> o \in s.enabled, at |-> s.at[o],
                           mode |-> IF o \in s.enabled THEN s.mode[o] ELSE NoMode]]]

-----------------------------------------------------------------------------
(* Outcomes.  An operation maps a state to a set of them: it is "done", or *)
(* "failed" before it did anything, or a fault ends it: the backend        *)
(* refused, or the reconciliation broke, and when not even what was        *)
(* committed could be taken back it is lost.                               *)

Outcome(s, kind) == [state |-> s, kind |-> kind]
Outcomes(states, kind) == {Outcome(s, kind) : s \in states}
Faults == {"refused", "broken", "lost"}

Published(outcome) ==
  IF outcome.kind = "done" THEN [outcome EXCEPT !.state = Publish(@)] ELSE outcome

\* The states a reconciliation may break off in.
Broken(s) == {Attached(s, o) : o \in MayBreak(s)}

\* leme_output_commit_and_reconcile
CommitAndReconcile(s, heads) ==
  LET Switch(from, to) == {Tracked(t, to) : t \in {Committed(from, to)}} IN
  {Outcome(s, "refused")} \cup
    UNION {Outcomes(Reconcile(t), "done")
             \cup Outcomes({[broken EXCEPT !.scene = {}] : broken \in Broken(t)}, "lost")
             \cup UNION {Outcomes(Reconcile(back), "broken") :
                           back \in UNION {Switch(broken, CurrentHeads(s)) :
                                             broken \in Broken(t)}} :
           t \in Switch(s, heads)}

\* leme_output_target: a reload wants one of the configured connectors.
HasTarget(s, config, startup) ==
  startup \/ DOMAIN config = {} \/ DOMAIN config \cap Listed(s) # {}

\* leme_output_apply_config
ApplyConfig(s, config, startup) ==
  IF s.outputs = <<>> THEN {Outcome(s, "done")}
  ELSE UNION {IF plans = {} \/ ~HasTarget(s, config, startup) THEN {Outcome(s, "failed")}
              ELSE UNION {IF ~startup /\ MatchesCurrent(s, heads) THEN {Outcome(s, "done")}
                          ELSE {Published(end) : end \in CommitAndReconcile(s, heads)} :
                          heads \in plans} :
              plans \in {BuildPersistent(s, config, startup)}}

-----------------------------------------------------------------------------
(* Hotplug                                                                 *)

\* leme_output_handle_new up to the configuration of all outputs
Connected(s, o) ==
  [s EXCEPT !.outputs = Append(@, o), !.powered = @ \cup {o},
            !.mode[o] = IF Modes[o] = <<>> THEN NativeSize ELSE NoMode,
            !.scale[o] = 2, !.at[o] = <<0, 0>>, !.full[o] = Box(<<0, 0>>, NoSize)]

Gone(s, o) ==
  [s EXCEPT !.outputs = Without(@, o), !.enabled = @ \ {o},
            !.powered = @ \ {o}, !.scene = @ \ {o}, !.laid[o] = Unplaced,
            !.rotated = @ \ {o}, !.mode[o] = NoMode, !.at[o] = <<0, 0>>,
            !.full[o] = Box(<<0, 0>>, NoSize),
            !.published = [p \in DOMAIN @ \ {o} |-> @[p]]]

\* Mutant: nothing takes over from the last connector.
EnsureNothing(s) == {s}

\* leme_output_ensure_fallback: nothing fails on the headless backend.
EnsureFallback(s) ==
  {Publish(end.state) : end \in {good \in UNION {ApplyConfig(t, t.config, TRUE) :
                                                   t \in {Connected(s, Fallback)}} :
                                    good.kind \notin Faults}}

\* leme_output_surviving
Surviving(s) ==
  IF s.enabled # {} THEN FirstOf(s, s.enabled) ELSE FirstOf(s, Listed(s))

\* leme_output_handle_destroy
Destroy(s, o) ==
  UNION {ApplyConfig(t, t.config, TRUE) :
    t \in {IF s.focused # o THEN rest
           ELSE [rest EXCEPT !.focused = Surviving(rest), !.blocker = LayoutBox(rest)] :
           rest \in UNION {IF alone.outputs = <<>> THEN EnsureFallback(alone) ELSE {alone} :
                           alone \in {Gone(s, o)}}}}

Hit(kind) == IF kind \in Faults THEN 1 ELSE 0

\* An operation ends in state s, as kind says; before is how its first half
\* ended, if it has two.
FinishAfter(what, before, kind, s) ==
  /\ faults' = faults + Hit(before) + Hit(kind) /\ faults' <= MaxFaults
  /\ answer' = [what |-> what, done |-> kind = "done", lost |-> "lost" \in {before, kind}]
  /\ w' = s

Finish(what, kind, s) == FinishAfter(what, "done", kind, s)

FinishOne(what, outcomes) == \E end \in outcomes : Finish(what, end.kind, end.state)

\* The end of leme_output_handle_new, leme_output_retire_fallback: what is left
\* is configured once more, and that may end in every way the first did.
RetireFallback(s, first) ==
  IF Fallback \notin Listed(s) THEN Finish("plug", first, s)
  ELSE \E end \in Destroy(s, Fallback) : FinishAfter("plug", first, end.kind, end.state)

\* Mutants: the fallback stays when a connector returns; an output that could
\* not be configured is not announced.
PlugKeepsFallback(o) ==
  /\ o \notin Listed(w)
  /\ \E new \in {Connected(w, o)} : \E end \in ApplyConfig(new, w.config, TRUE) :
       Finish("plug", end.kind, Publish(end.state))

PlugQuietly(o) ==
  /\ o \notin Listed(w)
  /\ \E new \in {Connected(w, o)} : \E end \in ApplyConfig(new, w.config, TRUE) :
       RetireFallback(end.state, end.kind)

\* leme_output_handle_new: the new output joins the rest, and the fallback
\* leaves, whether or not the configuration could be applied.
Plug(o) ==
  /\ o \notin Listed(w)
  /\ \E new \in {Connected(w, o)} : \E end \in ApplyConfig(new, w.config, TRUE) :
       RetireFallback(Publish(end.state), end.kind)

Unplug(o) == o \in Listed(w) /\ FinishOne("unplug", Destroy(w, o))

-----------------------------------------------------------------------------
(* Reloads and clients                                                     *)

\* The outputs' part of leme_config_apply, which comes after the keymap has
\* been applied and before anything else is.
Reload(next) ==
  LET testable == w.outputs = <<>> \/ BuildPersistent(w, next, FALSE) # {} IN
  \/ ~testable /\ Finish("reload", "failed", w)
  \/ /\ testable
     /\ \E keyed \in {[w EXCEPT !.keyed = next = w.config]} :
          \E end \in ApplyConfig(keyed, next, FALSE) :
            Finish("reload", end.kind,
              IF end.kind = "done" THEN [end.state EXCEPT !.config = next, !.keyed = TRUE]
              ELSE end.state)

\* leme_output_request_box
RequestBox(s, request, o) ==
  IF o \in DOMAIN request THEN HeadBox(request[o]) ELSE s.full[o]

On(s, request) ==
  {o \in Listed(s) : IF o \in DOMAIN request THEN request[o].enabled ELSE o \in s.enabled}

\* Mutant: only the outputs of the request are compared.
RequestValidAlone(s, request) ==
  /\ On(s, request) # {}
  /\ \A o \in DOMAIN request : request[o].enabled =>
       \E i \in DOMAIN Modes[o] : Modes[o][i] = request[o].mode
  /\ ~HeadsOverlap(request)

\* leme_output_request_valid of a request whose scales and transforms exist
\* and which leaves adaptive sync alone.
RequestValid(s, request) ==
  /\ On(s, request) # {}
  /\ \A o \in DOMAIN request : request[o].enabled =>
       \E i \in DOMAIN Modes[o] : Modes[o][i] = request[o].mode
  /\ \A a, b \in On(s, request) :
       /\ HasEdges(RequestBox(s, request, a))
       /\ a # b => Compatible(RequestBox(s, request, a), RequestBox(s, request, b))

\* leme_output_handle_manager_apply
ManagerApply(request) ==
  /\ DOMAIN request \subseteq Listed(w)
  /\ \/ ~RequestValid(w, request) /\ Finish("apply", "failed", w)
     \/ /\ RequestValid(w, request)
        /\ FinishOne("apply", {Published(end) : end \in CommitAndReconcile(w, request)})

-----------------------------------------------------------------------------
(* Power                                                                   *)

\* leme_output_power_plan_overlaps
WakeConflicts(s, o, box) ==
  \E other \in s.enabled \ {o} : ~Compatible(box, s.full[other])

\* leme_session_prepare_output_wake
WakeFits(s, box) ==
  LET cover == Around({box} \cup {b \in {LayoutBox(s)} : b.width > 0}) IN
  s.locked => cover.width <= IntMax /\ cover.height <= IntMax

Relocked(s) == [s EXCEPT !.blocker = IF s.locked THEN LayoutBox(s) ELSE @]

\* An output whose switching broke off leaves the scene and the layout.
Withdrawn(s, o, at) ==
  [s EXCEPT !.scene = @ \ {o}, !.laid[o] = Unplaced, !.at[o] = at]

\* Mutant: the wake takes the whole plan.
WakeAll(s, o) ==
  LET plans == Plans(s, s.config, FALSE, s.powered \cup {o}) IN
  IF plans = {} THEN {Outcome(s, "failed")}
  ELSE UNION {{IF end.kind # "done" THEN end
               ELSE Published([end EXCEPT !.state.powered = @ \cup {o}]) :
               end \in CommitAndReconcile(s, heads)} : heads \in plans}

\* leme_output_set_power(o, true) of an output that is off, with its head in
\* the plan.
WakeAs(s, o, head) ==
  IF ~WakeFits(s, HeadBox(head)) THEN {Outcome(Relocked(s), "failed")}
  ELSE {Outcome(Relocked(s), "refused")} \cup
    UNION {Outcomes({Publish([t EXCEPT !.powered = @ \cup {o}]) : t \in Reconcile(lit)}, "done")
             \cup UNION {{Outcome(Publish(Relocked([back EXCEPT !.enabled = @ \ {o}])), "broken"),
                          Outcome(Publish(Relocked(back)), "lost")} :
                          back \in {Withdrawn(broken, o, s.at[o]) : broken \in Broken(lit)}} :
           lit \in {Tracked(Committed(s, alone), alone) : alone \in {[p \in {o} |-> head]}}}

Wake(s, o) ==
  LET heads == {[all[o] EXCEPT !.enabled = TRUE] :
                  all \in Plans(s, s.config, FALSE, s.powered \cup {o})}
      fitting == {head \in heads : \E box \in {HeadBox(head)} :
                    HasEdges(box) /\ ~WakeConflicts(s, o, box)}
  IN IF fitting = {} THEN {Outcome(s, "failed")}
     ELSE UNION {WakeAs(s, o, head) : head \in fitting}

\* leme_output_set_power(o, false) of an output that is on
Darken(s, o) ==
  {Outcome(s, "refused")} \cup
    UNION {Outcomes({Publish([t EXCEPT !.powered = @ \ {o}]) : t \in Reconcile(dark)}, "done")
             \cup UNION {Outcomes({Publish(t) : t \in
                                     Reconcile([back EXCEPT !.enabled = @ \cup {o}])}, "broken")
                          \cup {Outcome(Publish(back), "lost")} :
                          back \in {Withdrawn(broken, o, s.at[o]) : broken \in Broken(dark)}} :
           dark \in {[s EXCEPT !.enabled = @ \ {o}]}}

Wish(s, o, on) == [s EXCEPT !.powered = IF on THEN @ \cup {o} ELSE @ \ {o}]

\* Mutant: the wish is noted before it is known to be granted.
SetPowerWished(o, on) ==
  /\ o \in Listed(w)
  /\ FinishOne(IF on THEN "wake" ELSE "darken",
       IF ~on /\ o = Fallback THEN {Outcome(w, "failed")}
       ELSE IF (o \in w.enabled) = on THEN {Outcome(Wish(w, o, on), "done")}
       ELSE IF on THEN Wake(Wish(w, o, on), o) ELSE Darken(Wish(w, o, on), o))

\* leme_output_set_power, from the power protocol
SetPower(o, on) ==
  /\ o \in Listed(w)
  /\ FinishOne(IF on THEN "wake" ELSE "darken",
       IF ~on /\ o = Fallback THEN {Outcome(w, "failed")}
       ELSE IF (o \in w.enabled) = on THEN {Outcome(Wish(w, o, on), "done")}
       ELSE IF on THEN Wake(w, o) ELSE Darken(w, o))

-----------------------------------------------------------------------------
(* The rest of the session                                                 *)

Other(s) ==
  /\ UNCHANGED faults
  /\ answer' = [what |-> "other", done |-> TRUE, lost |-> FALSE]
  /\ w' = s

\* leme_render_session_set_locked
SetLocked == Other([w EXCEPT !.locked = ~@, !.blocker = LayoutBox(w)])

\* leme_output_set_focused
SetFocused(o) == o \in w.enabled /\ o # w.focused /\ Other([w EXCEPT !.focused = o])

\* Before the backend starts no output is known.
Init ==
  /\ around \in Scenarios
  /\ \E config \in around.files :
       w = [outputs |-> <<>>, enabled |-> {}, powered |-> {},
            mode |-> [o \in All |-> NoMode], scale |-> [o \in All |-> 2], rotated |-> {},
            at |-> [o \in All |-> <<0, 0>>], laid |-> [o \in All |-> Unplaced], scene |-> {},
            full |-> [o \in All |-> Box(<<0, 0>>, NoSize)], focused |-> NONE,
            config |-> config, keyed |-> TRUE, locked |-> FALSE,
            blocker |-> Box(<<0, 0>>, NoSize), published |-> NoHeads]
  /\ answer = [what |-> "other", done |-> TRUE, lost |-> FALSE] /\ faults = 0

Requests == UNION {[which -> around.heads] : which \in SUBSET Listed(w) \ {{}}}

Operations ==
  \/ \E o \in Outputs : Plug(o) \/ Unplug(o)
  \/ \E next \in around.files : Reload(next)
  \/ \E request \in Requests : ManagerApply(request)
  \/ \E o \in All, on \in BOOLEAN : SetPower(o, on)
  \/ around.locks /\ SetLocked
  \/ \E o \in All : SetFocused(o)

Next == ~answer.lost /\ UNCHANGED around /\ Operations

Spec == Init /\ [][Next]_vars

=============================================================================
