----------------------------- MODULE Workspace -----------------------------
(***************************************************************************)
(* The outputs of the compositor, the tag table of each, and the views on  *)
(* them: which view every tag, the keyboard and the screen hold, and how   *)
(* commands, clients, panels, hotplug, power and the session lock move     *)
(* them.  One action is one handler run by the event loop, from its first  *)
(* test to its last refresh.                                               *)
(*                                                                         *)
(* A tag is named by its key <<output, id>>.  The list of a tag's views is *)
(* the set of views that own the tag, and "the first in the list" is any   *)
(* of them; in the same way the list of outputs is a set.  Scratchpads,    *)
(* sticky groups, layers and layouts are left out, and allocations         *)
(* succeed.                                                                *)
(***************************************************************************)
EXTENDS Tags

CONSTANTS
  Outputs,   \* the physical outputs and the fallback
  Headless,  \* the fallback output
  Views,     \* the windows of the clients
  MaxLimit,  \* the largest maximum a configuration sets
  NONE,      \* a null pointer
  Features   \* what the session's environment does, see below

Hotplug    == "hotplug"     \* outputs are unplugged
Power      == "power"       \* outputs are powered off and disabled
SessionLock == "lock"       \* the session is locked
Reloads    == "reload"      \* the configuration is reloaded
Straddle   == "straddle"    \* a floating view reaches into another output
Activation == "activation"  \* xdg-activation of a view on another output
Dormant    == "dormant"     \* a panel activates tags or views of a dark output

ASSUME OutputsAssumption == Headless \in Outputs
ASSUME ViewsAssumption == NONE \notin Views /\ NONE \notin Outputs
ASSUME LimitAssumption == MaxLimit \in Nat \ {0}
ASSUME KeysAssumption == NONE \notin Outputs \X (1..MaxLimit)

VARIABLES
  plugged,       \* server->outputs
  enabled,       \* wlr_output->enabled
  powerOn,       \* output->power_on
  tags,          \* output->tags
  config,        \* initial_tags and max_tags of server->config
  tag,           \* leme_ownership_tag of every view; NONE if not mapped
  fullscreen,    \* view->fullscreen
  locked,        \* session->locked
  visible,       \* the views whose scene node is enabled
  tagFocus,      \* tag->focused_view
  focusedView,   \* server->focused_view
  focusedOutput, \* server->focused_output
  crashed        \* a null tag table was dereferenced

screenVars == <<visible, tagFocus, focusedView, focusedOutput>>
outputVars == <<plugged, enabled, powerOn>>
vars == <<outputVars, tags, config, tag, fullscreen, locked, screenVars,
          crashed>>

Ids == 1..MaxLimit
Keys == Outputs \X Ids
Configs == [initial_tags : Ids, max_tags : Ids]

TypeOK ==
  /\ plugged \subseteq Outputs
  /\ enabled \subseteq Outputs
  /\ powerOn \in [Outputs -> BOOLEAN]
  /\ tags \in [Outputs -> TagsType(MaxLimit)]
  /\ config \in Configs
  /\ tag \in [Views -> Keys \cup {NONE}]
  /\ fullscreen \subseteq Views
  /\ locked \in BOOLEAN
  /\ visible \subseteq Views
  /\ tagFocus \in [Keys -> Views \cup {NONE}]
  /\ focusedView \in Views \cup {NONE}
  /\ focusedOutput \in Outputs \cup {NONE}
  /\ crashed \in BOOLEAN

-----------------------------------------------------------------------------
(* What is on the screen.  World is what a refresh reads, Screen what it   *)
(* writes: a handler applies its changes to World and then derives the     *)
(* screens it may end with.                                                *)

World == [enabled |-> enabled, tags |-> tags, tag |-> tag,
          fullscreen |-> fullscreen, locked |-> locked]

Screen == [visible |-> visible, tagFocus |-> tagFocus,
           focusedView |-> focusedView, focusedOutput |-> focusedOutput]

Show(s) ==
  /\ visible' = s.visible
  /\ tagFocus' = s.tagFocus
  /\ focusedView' = s.focusedView
  /\ focusedOutput' = s.focusedOutput

Members(w, key) == {v \in Views : w.tag[v] = key}

\* The current tag of an output, NONE on a candidate.
Current(w, o) ==
  IF w.tags[o].focused_is_candidate \/ w.tags[o].focused_id \notin w.tags[o].table
  THEN NONE ELSE <<o, w.tags[o].focused_id>>

CurrentMembers(w, o) ==
  IF Current(w, o) = NONE THEN {} ELSE Members(w, Current(w, o))

Fullscreens(w, o) == CurrentMembers(w, o) \cap w.fullscreen

\* What an output may show: its current tag, or one fullscreen view of it.
Presentations(w, o) ==
  IF Fullscreens(w, o) = {} THEN {CurrentMembers(w, o)}
  ELSE {{f} : f \in Fullscreens(w, o)}

\* Mutant: only the current tag is walked.
ReachedCurrent(w, o) == CurrentMembers(w, o)

\* The views a refresh of o reaches, by walking its table.
Reached(w, o) ==
  {v \in Views : \E id \in w.tags[o].table : w.tag[v] = <<o, id>>}

FocusOn(w, s, v) ==
  IF w.locked THEN s
  ELSE [s EXCEPT !.focusedView = v, !.tagFocus[w.tag[v]] = v]

ClearFocus(s) == [s EXCEPT !.focusedView = NONE]

\* The view a refresh of o focuses: the one the tag remembers if it is
\* shown, else any shown one.
FocusTargets(w, o, s, shown) ==
  IF Current(w, o) = NONE \/ shown = {} THEN {NONE}
  ELSE LET kept == s.tagFocus[Current(w, o)]
       IN IF kept # NONE /\ (Fullscreens(w, o) = {} \/ kept \in shown)
          THEN {kept} ELSE shown

RefreshTo(w, o, s, shown, target) ==
  LET drawn == [s EXCEPT !.visible = (@ \ Reached(w, o)) \cup shown]
  IN IF s.focusedOutput # o THEN drawn
     ELSE IF target = NONE THEN ClearFocus(drawn)
     ELSE FocusOn(w, drawn, target)

Refresh(w, o, s) ==
  IF o = NONE THEN {s}
  ELSE UNION {{RefreshTo(w, o, s, shown, target) :
                 target \in FocusTargets(w, o, s, shown)} :
              shown \in Presentations(w, o)}

RefreshFocused(w, s) == Refresh(w, s.focusedOutput, s)

\* Mutant: the newly focused output is not refreshed.
SetFocusedNoRefresh(w, o, s) ==
  IF o \notin w.enabled THEN {s} ELSE {[s EXCEPT !.focusedOutput = o]}

SetFocused(w, o, s) ==
  IF o \notin w.enabled THEN {s}
  ELSE Refresh(w, o, [s EXCEPT !.focusedOutput = o])

\* Mutant: the focus is cleared and not given to a view.
RestoreNothing(w, s) == IF w.locked THEN {s} ELSE {ClearFocus(s)}

RestoreKeyboardFocus(w, s) ==
  IF w.locked THEN {s}
  ELSE IF s.focusedOutput = NONE THEN {ClearFocus(s)}
  ELSE RefreshFocused(w, s)

\* Pointer motion over output o: the output follows the pointer, and the view
\* that was under it takes the focus unless the layout is accordion.
Hit(w, s, o) ==
  {v \in s.visible : w.tag[v] # NONE /\
                     (w.tag[v][1] = o \/ Straddle \in Features)}

Motion(w, s, o) ==
  IF w.locked THEN {s}
  ELSE LET followed == IF o = s.focusedOutput THEN {s} ELSE SetFocused(w, o, s)
       IN followed \cup {FocusOn(w, r, v) : r \in followed, v \in Hit(w, s, o)}

\* Mutant: an output that wakes up takes no focus that nobody has.
ReconcileKeepsNone(w, s) ==
  IF s.focusedOutput \in w.enabled \cup {NONE} THEN {s}
  ELSE UNION {RestoreKeyboardFocus(w, [s EXCEPT !.focusedOutput = f]) :
              f \in IF w.enabled = {} THEN {NONE} ELSE w.enabled}

\* Every handler that changes the enabled outputs ends with this: a focused
\* output that went dark gives way to an enabled one.
Reconcile(w, s) ==
  IF s.focusedOutput \in w.enabled \/ (s.focusedOutput = NONE /\ w.enabled = {})
  THEN {s}
  ELSE UNION {RestoreKeyboardFocus(w, [s EXCEPT !.focusedOutput = f]) :
              f \in IF w.enabled = {} THEN {NONE} ELSE w.enabled}

-----------------------------------------------------------------------------
(* Views that come and go                                                  *)

\* The destination of a new view: the tag of its parent, or what the window
\* rules make of the current tag.
Destination(o, id) ==
  \/ \E parent \in Views : tag[parent] = <<o, id>>
  \/ focusedOutput # NONE /\ o \in enabled /\ ValidId(tags[o], id)

\* leme_view_handle_map; `full` says that the client or a rule asks for
\* fullscreen, which the view may also still be from before an unmap.
MapView(v, o, id, full) ==
  /\ ~crashed
  /\ tag[v] = NONE
  /\ Destination(o, id)
  /\ tags' = [tags EXCEPT ![o] = Occupy(@, id)]
  /\ tag' = [tag EXCEPT ![v] = <<o, id>>]
  /\ fullscreen' = IF full THEN fullscreen \cup {v} ELSE fullscreen
  /\ UNCHANGED <<outputVars, config, locked, crashed>>
  /\ LET mapped == [World' EXCEPT !.fullscreen = fullscreen]
         placed == IF o = focusedOutput /\ Current(mapped, o) = <<o, id>>
                   THEN FocusOn(mapped, Screen, v) ELSE Screen
     IN \E s \in Refresh(mapped, o, placed) :
        \E r \in IF full /\ v \notin fullscreen
                 THEN RefreshFocused(World', s) ELSE {s} : Show(r)

Others(v) == {u \in Views \ {v} : tag[u] = tag[v]}

\* Mutant: the tag still remembers the view that left it.
ForgetNothing(s, v) == s

Forget(s, v) ==
  [s EXCEPT !.tagFocus[tag[v]] = IF @ = v THEN NONE ELSE @]

UnmapView(v) ==
  /\ ~crashed
  /\ tag[v] # NONE
  /\ tags' = [tags EXCEPT ![tag[v][1]] =
                PruneEmpty(@, tag[v][2], Others(v) = {})]
  /\ tag' = [tag EXCEPT ![v] = NONE]
  /\ UNCHANGED <<outputVars, config, fullscreen, locked, crashed>>
  /\ LET left == Forget([Screen EXCEPT
                           !.visible = @ \ {v},
                           !.focusedView = IF @ = v THEN NONE ELSE @], v)
     IN \E s \in RefreshFocused(World', left) : Show(s)

\* Mutant: no refresh after the change.
SetFullscreenNoRefresh(v) ==
  /\ ~crashed
  /\ tag[v] # NONE
  /\ fullscreen' = IF v \in fullscreen THEN fullscreen \ {v}
                   ELSE fullscreen \cup {v}
  /\ UNCHANGED <<outputVars, tags, config, tag, locked, screenVars, crashed>>

\* A client's request, a panel's, or toggle_fullscreen.
SetFullscreen(v) ==
  /\ ~crashed
  /\ tag[v] # NONE
  /\ fullscreen' = IF v \in fullscreen THEN fullscreen \ {v}
                   ELSE fullscreen \cup {v}
  /\ UNCHANGED <<outputVars, tags, config, tag, locked, crashed>>
  /\ \E s \in RefreshFocused(World', Screen) : Show(s)

-----------------------------------------------------------------------------
(* Commands.  The session lock stops bindings, IPC and panel requests.     *)

CommandReady == ~crashed /\ ~locked

\* leme_focused_tags is NULL while no output is enabled, and these commands
\* do not test it.
Crash ==
  /\ crashed' = TRUE
  /\ UNCHANGED <<outputVars, tags, config, tag, fullscreen, locked, screenVars>>

FocusedTags == tags[focusedOutput]

\* A command that turned the focused table into t and refreshes the screen.
Retag(t) ==
  /\ tags' = [tags EXCEPT ![focusedOutput] = t]
  /\ UNCHANGED <<outputVars, config, tag, fullscreen, locked, crashed>>
  /\ \E s \in RefreshFocused(World', Screen) : Show(s)

FocusStep(direction) ==
  /\ CommandReady
  /\ IF focusedOutput = NONE THEN Crash ELSE Retag(Step(FocusedTags, direction))

FocusTag(id) ==
  /\ CommandReady
  /\ IF focusedOutput = NONE THEN Crash
     ELSE ValidId(FocusedTags, id) /\ Retag(FocusId(FocusedTags, id))

FocusLastTag ==
  /\ CommandReady
  /\ IF focusedOutput = NONE THEN Crash
     ELSE /\ CanFocusLast(FocusedTags)
          /\ IF FocusLast(FocusedTags).previous_valid
             THEN Retag(FocusLast(FocusedTags))
             ELSE /\ tags' = [tags EXCEPT ![focusedOutput] = FocusLast(@)]
                  /\ UNCHANGED <<outputVars, config, tag, fullscreen, locked,
                                 screenVars, crashed>>

\* remove_empty_tag, which refuses a pinned or an occupied tag.
RemoveEmptyTag(id) ==
  /\ CommandReady
  /\ IF focusedOutput = NONE THEN Crash
     ELSE IF /\ id \in FocusedTags.table
             /\ id > FocusedTags.initial_tags
             /\ Members(World, <<focusedOutput, id>>) = {}
          THEN Retag(PruneEmpty(FocusedTags, id, TRUE))
          ELSE UNCHANGED vars

\* set_layout and switch_layout on a materialized tag.
SetLayout ==
  /\ CommandReady
  /\ focusedOutput # NONE
  /\ Current(World, focusedOutput) # NONE
  /\ Retag(FocusedTags)

\* Mutant: the source is not pruned.
MoveViewNoPrune(t, v, id) == Materialize(t, id)

\* leme_tags_move_view: the source is pruned from the table of the focused
\* output, whichever output it belongs to.
MoveView(t, v, id) ==
  IF tag[v] = <<focusedOutput, id>> THEN t
  ELSE PruneEmpty(Materialize(t, id), tag[v][2], Others(v) = {})

Arrive(s, v, key) ==
  IF tag[v] = key THEN s ELSE [Forget(s, v) EXCEPT !.tagFocus[key] = v]

MoveViewToTag(id, follow) ==
  /\ CommandReady
  /\ focusedView # NONE
  /\ IF focusedOutput = NONE THEN Crash
     ELSE LET v == focusedView
              key == <<focusedOutput, id>>
              moved == MoveView(FocusedTags, v, id)
          IN /\ ValidId(FocusedTags, id)
             /\ tags' = [tags EXCEPT ![focusedOutput] =
                           IF follow THEN FocusId(moved, id) ELSE moved]
             /\ tag' = [tag EXCEPT ![v] = key]
             /\ UNCHANGED <<outputVars, config, fullscreen, locked, crashed>>
             /\ \E s \in RefreshFocused(World', Arrive(Screen, v, key)) :
                  Show(IF follow THEN FocusOn(World', s, v) ELSE s)

\* A step that changes only the screen.
Redraw(screens) ==
  /\ UNCHANGED <<outputVars, tags, config, tag, fullscreen, locked, crashed>>
  /\ \E s \in screens : Show(s)

FocusOutput(o) ==
  /\ CommandReady
  /\ o \in enabled \ {focusedOutput}
  /\ Redraw(SetFocused(World, o, Screen))

\* move_view_to_output, or a move or a drag across the edge.
MoveViewToOutput(o, follow) ==
  /\ CommandReady
  /\ focusedView # NONE
  /\ o \in enabled \ {focusedOutput, tag[focusedView][1]}
  /\ LET v == focusedView
         source == tag[v]
         key == <<o, tags[o].focused_id>>
     IN /\ tags' = [tags EXCEPT
                      ![o] = Occupy(@, key[2]),
                      ![source[1]] = PruneEmpty(@, source[2], Others(v) = {})]
        /\ tag' = [tag EXCEPT ![v] = key]
        /\ UNCHANGED <<outputVars, config, fullscreen, locked, crashed>>
        /\ \E p \in IF follow
                    THEN {FocusOn(World', q, v) :
                            q \in SetFocused(World', o, Arrive(Screen, v, key))}
                    ELSE {Arrive(Screen, v, key)} :
           \E r \in Refresh(World', source[1], p) :
           \E s \in Refresh(World', o, r) : Show(s)

\* The views a directional focus may pick: the list order is fixed, so with
\* several fullscreen views it is the one a refresh has shown.
Directional(w, s, o) ==
  LET full == Fullscreens(w, o) IN
  IF full = {} THEN CurrentMembers(w, o)
  ELSE IF full \cap s.visible = {} THEN full ELSE full \cap s.visible

FocusDirection(v) ==
  /\ CommandReady
  /\ focusedOutput # NONE
  /\ v \in Directional(World, Screen, focusedOutput)
  /\ Redraw({FocusOn(World, Screen, v)})

\* With no view further in that direction, the focus crosses to the output
\* there, and then to one of its views.
FocusAcrossOutputs(o) ==
  /\ CommandReady
  /\ focusedOutput # NONE
  /\ Current(World, focusedOutput) # NONE
  /\ o \in enabled \ {focusedOutput}
  /\ Redraw(UNION {IF Directional(World, s, o) = {} THEN {s}
                   ELSE {FocusOn(World, s, v) : v \in Directional(World, s, o)} :
                   s \in SetFocused(World, o, Screen)})

\* focus_previous_view: the newest view of the focus history that is on the
\* current tag, here any of its views.
FocusPreviousView(v) ==
  /\ CommandReady
  /\ focusedOutput # NONE
  /\ v \in CurrentMembers(World, focusedOutput) \ {focusedView}
  /\ Redraw({FocusOn(World, Screen, v)})

PointerMotion(o) ==
  /\ CommandReady
  /\ o \in enabled
  /\ Redraw(Motion(World, Screen, o))

-----------------------------------------------------------------------------
(* Requests of panels and clients                                          *)

\* A dark output cannot be focused, so the request then changes its tag under
\* the output that keeps the focus.
Reachable(o) == o \in enabled \/ Dormant \in Features

\* The screens after the output of an activated tag has been focused.
Approach(o) ==
  IF o = focusedOutput THEN {Screen} ELSE SetFocused(World, o, Screen)

WorkspaceActivate(o, id) ==
  /\ CommandReady
  /\ o \in plugged /\ Reachable(o)
  /\ ValidId(tags[o], id)
  /\ tags' = [tags EXCEPT ![o] = FocusId(@, id)]
  /\ UNCHANGED <<outputVars, config, tag, fullscreen, locked, crashed>>
  /\ \E r \in Approach(o) : \E s \in RefreshFocused(World', r) : Show(s)

ToplevelActivate(v) ==
  /\ CommandReady
  /\ tag[v] # NONE
  /\ LET o == tag[v][1]
         same_tag == o = focusedOutput /\ tags[o].focused_id = tag[v][2]
     IN IF same_tag THEN Redraw({FocusOn(World, Screen, v)})
        ELSE /\ Reachable(o)
             /\ tags' = [tags EXCEPT ![o] = FocusId(@, tag[v][2])]
             /\ UNCHANGED <<outputVars, config, tag, fullscreen, locked, crashed>>
             /\ \E r \in Approach(o) :
                \E s \in RefreshFocused(World', r) : Show(FocusOn(World', s, v))

\* Mutant: a view of any tag is activated.
DesktopActivateAnyTag(v) ==
  /\ CommandReady
  /\ tag[v] # NONE
  /\ focusedOutput # NONE
  /\ tag[v][1] = focusedOutput
  /\ Redraw({FocusOn(World, Screen, v)})

\* xdg-activation compares the id of the view's tag, not its output.
DesktopActivate(v) ==
  /\ CommandReady
  /\ tag[v] # NONE
  /\ focusedOutput # NONE
  /\ Activation \in Features \/ tag[v][1] = focusedOutput
  /\ ~FocusedTags.focused_is_candidate
  /\ tag[v][2] = FocusedTags.focused_id
  /\ Redraw({FocusOn(World, Screen, v)})

-----------------------------------------------------------------------------
(* The session lock and the configuration                                  *)

Lock ==
  /\ SessionLock \in Features
  /\ ~crashed
  /\ ~locked
  /\ locked' = TRUE
  /\ UNCHANGED <<outputVars, tags, config, tag, fullscreen, screenVars, crashed>>

Unlock ==
  /\ ~crashed
  /\ locked
  /\ locked' = FALSE
  /\ UNCHANGED <<outputVars, tags, config, tag, fullscreen, crashed>>
  /\ \E r \in RestoreKeyboardFocus(World', Screen) :
     \E s \in {r} \cup UNION {Motion(World', r, o) : o \in enabled} : Show(s)

\* Mutant: a reload resizes the tables that accept the new maximum.
ReloadSomeTables(next) ==
  /\ Reloads \in Features
  /\ CommandReady
  /\ next.initial_tags <= next.max_tags
  /\ enabled' = {o \in plugged : powerOn[o]}
  /\ tags' = [o \in Outputs |-> IF o \in plugged /\ PrepareSetMax(tags[o], next.max_tags)
                                THEN CommitSetMax(tags[o], next.max_tags)
                                ELSE tags[o]]
  /\ config' = next
  /\ UNCHANGED <<plugged, powerOn, tag, fullscreen, locked, crashed>>
  /\ \E r \in Reconcile([World EXCEPT !.enabled = enabled'], Screen) :
     \E s \in RefreshFocused(World', r) : Show(s)

\* leme_config_apply: every table accepts the new maximum or none changes.  The
\* outputs return to their power state; initial_tags of a live table stays.
ReloadConfig(next) ==
  /\ Reloads \in Features
  /\ CommandReady
  /\ next.initial_tags <= next.max_tags
  /\ \A o \in plugged : PrepareSetMax(tags[o], next.max_tags)
  /\ enabled' = {o \in plugged : powerOn[o]}
  /\ tags' = [o \in Outputs |-> IF o \in plugged
                                THEN CommitSetMax(tags[o], next.max_tags)
                                ELSE tags[o]]
  /\ config' = next
  /\ UNCHANGED <<plugged, powerOn, tag, fullscreen, locked, crashed>>
  /\ \E r \in Reconcile([World EXCEPT !.enabled = enabled'], Screen) :
     \E s \in RefreshFocused(World', r) : Show(s)

-----------------------------------------------------------------------------
(* Outputs                                                                 *)

\* leme_output_set_power.  When the focus moved to another output, the pointer
\* is warped there.
SetPower(o, on) ==
  /\ Power \in Features
  /\ ~crashed
  /\ o \in plugged
  /\ on \/ o # Headless
  /\ powerOn' = [powerOn EXCEPT ![o] = on]
  /\ enabled' = IF on THEN enabled \cup {o} ELSE enabled \ {o}
  /\ UNCHANGED <<plugged, tags, config, tag, fullscreen, locked, crashed>>
  /\ \E r \in Reconcile(World', Screen) :
     \E s \in {r} \cup (IF r.focusedOutput \in {NONE, focusedOutput} THEN {}
                        ELSE Motion(World', r, r.focusedOutput)) : Show(s)

\* A request of an output manager, which leaves an output enabled.
ManagerApply(heads) ==
  /\ Power \in Features
  /\ ~crashed
  /\ heads # {}
  /\ enabled' = heads
  /\ UNCHANGED <<plugged, powerOn, tags, config, tag, fullscreen, locked, crashed>>
  /\ \E s \in Reconcile(World', Screen) : Show(s)

\* Mutant: a new output has room for its pinned tags only.
FreshTagsPinnedOnly == TagsInit(config.initial_tags, config.initial_tags)

FreshTags == TagsInit(config.initial_tags, config.max_tags)

\* The table of an output that is not there.
NoTags == TagsInit(1, 1)

\* leme_output_migrate_views: the views of o join the tags of the same id on
\* its successor, and the last to join a tag is the one it remembers.
Migrated(T, o, successor, key) ==
  IF key # NONE /\ key[1] = o
  THEN <<successor, IF key[2] > T[successor].max_tags
                    THEN T[successor].max_tags ELSE key[2]>>
  ELSE key

Migrants(T, o, successor, key) ==
  {v \in Views : tag[v] # NONE /\ tag[v][1] = o /\
                 Migrated(T, o, successor, tag[v]) = key}

OccupyAll(t, ids) ==
  [t EXCEPT !.table = @ \cup ids,
            !.focused_is_candidate = @ /\ t.focused_id \notin ids]

MigrateTags(T, o, successor) ==
  LET arriving == {id \in Ids : Migrants(T, o, successor, <<successor, id>>) # {}}
  IN [T EXCEPT ![o] = NoTags,
               ![successor] = OccupyAll(T[successor], arriving)]

MigrateFocus(T, o, successor, s) ==
  LET Joining(id) == Migrants(T, o, successor, <<successor, id>>)
      arriving == {id \in Ids : Joining(id) # {}}
  IN {[s EXCEPT
         !.tagFocus = [key \in Keys |->
                         IF key[1] = o THEN NONE
                         ELSE IF key[1] = successor /\ key[2] \in arriving
                         THEN last[key[2]]
                         ELSE s.tagFocus[key]],
         !.focusedOutput = IF @ = o THEN successor ELSE @] :
      last \in {f \in [arriving -> Views] :
                  \A id \in arriving : f[id] \in Joining(id)}}

\* leme_output_handle_destroy: o leaves, `stay` remain and T are their tables.
Leave(o, successor, stay, T, s) ==
  /\ plugged' = stay
  /\ powerOn' = [powerOn EXCEPT ![o] = TRUE]
  /\ enabled' = {p \in stay : powerOn[p]}
  /\ tags' = MigrateTags(T, o, successor)
  /\ tag' = [v \in Views |-> Migrated(T, o, successor, tag[v])]
  /\ UNCHANGED <<config, fullscreen, locked, crashed>>
  /\ \E r \in MigrateFocus(T, o, successor, s) :
     \E q \in Reconcile(World', r) : Show(q)

\* With no output left the fallback is created first, and takes a focus that
\* no output had.
Unplug(o) ==
  /\ Hotplug \in Features
  /\ ~crashed
  /\ o \in plugged \ {Headless}
  /\ IF plugged = {o}
     THEN LET T == [tags EXCEPT ![Headless] = FreshTags]
              w == [World EXCEPT !.tags = T, !.enabled = {Headless}]
          IN \E s \in IF focusedOutput = NONE THEN Reconcile(w, Screen)
                      ELSE {Screen} :
               Leave(o, Headless, {Headless}, T, s)
     ELSE \E successor \in plugged \ {o} :
            /\ successor \notin enabled => enabled \subseteq {o}
            /\ Leave(o, successor, plugged \ {o}, tags, Screen)

\* leme_output_handle_new: the new output is configured with the others, and
\* the fallback retires.
Plug(o) ==
  /\ ~crashed
  /\ o \in Outputs \ (plugged \cup {Headless})
  /\ LET T == [tags EXCEPT ![o] = FreshTags]
         on == {p \in plugged : powerOn[p]} \cup {o}
         w == [World EXCEPT !.tags = T, !.enabled = on]
     IN \E s \in Reconcile(w, Screen) :
          IF Headless \in plugged
          THEN Leave(Headless, o, (plugged \ {Headless}) \cup {o}, T, s)
          ELSE /\ plugged' = plugged \cup {o}
               /\ enabled' = on
               /\ tags' = T
               /\ UNCHANGED <<powerOn, config, tag, fullscreen, locked, crashed>>
               /\ Show(s)

-----------------------------------------------------------------------------
Init ==
  /\ plugged = {} /\ enabled = {}
  /\ powerOn = [o \in Outputs |-> TRUE]
  /\ tags = [o \in Outputs |-> NoTags]
  /\ config \in {c \in Configs : c.initial_tags <= c.max_tags}
  /\ tag = [v \in Views |-> NONE]
  /\ fullscreen = {}
  /\ locked = FALSE
  /\ visible = {}
  /\ tagFocus = [key \in Keys |-> NONE]
  /\ focusedView = NONE
  /\ focusedOutput = NONE
  /\ crashed = FALSE

\* After a crash nothing runs any more.
Stopped == crashed /\ UNCHANGED vars

Next ==
  \/ \E v \in Views, o \in Outputs, id \in Ids, full \in BOOLEAN :
       MapView(v, o, id, full)
  \/ \E v \in Views : UnmapView(v)
  \/ \E v \in Views : SetFullscreen(v)
  \/ \E direction \in Directions : FocusStep(direction)
  \/ \E id \in Ids : FocusTag(id)
  \/ FocusLastTag
  \/ \E id \in Ids : RemoveEmptyTag(id)
  \/ SetLayout
  \/ \E id \in Ids, follow \in BOOLEAN : MoveViewToTag(id, follow)
  \/ \E o \in Outputs : FocusOutput(o)
  \/ \E o \in Outputs, follow \in BOOLEAN : MoveViewToOutput(o, follow)
  \/ \E v \in Views : FocusDirection(v)
  \/ \E o \in Outputs : FocusAcrossOutputs(o)
  \/ \E v \in Views : FocusPreviousView(v)
  \/ \E o \in Outputs : PointerMotion(o)
  \/ \E o \in Outputs, id \in Ids : WorkspaceActivate(o, id)
  \/ \E v \in Views : ToplevelActivate(v)
  \/ \E v \in Views : DesktopActivate(v)
  \/ Lock
  \/ Unlock
  \/ \E next \in Configs : ReloadConfig(next)
  \/ \E o \in Outputs, on \in BOOLEAN : SetPower(o, on)
  \/ \E heads \in SUBSET plugged : ManagerApply(heads)
  \/ \E o \in Outputs : Unplug(o)
  \/ \E o \in Outputs : Plug(o)
  \/ Stopped

Spec == Init /\ [][Next]_vars
=============================================================================
