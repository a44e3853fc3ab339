# A verification of leme

leme is a tiling Wayland compositor written in C on wlroots. Everything it does
happens in callbacks of one `wl_event_loop`: a key binding, a client's request, a
panel's request, an IPC line, a timer, a hotplug event. There are no threads, so
what is hard is not a data race but the *order* of handlers: an output leaves
between two commands, a client changes its window while the session is locked, a
reload changes the limits that a table was built with, a timer fires just before
the answer it waits for.

In the modules an action is one whole handler, from its first test to its last
refresh, and interleaving is the order of actions.

## 1. The system: an inventory

| Component | State | Operations | Interacts with |
|---|---|---|---|
| Tag tables (`workspace/tag.c`) | per output: which ids hold a tag, focused id, candidate flag, previous focus, limits | select, step, go back, materialize, prune, resize, migrate | views (lists, remembered focus), outputs, panels |
| Views (`shell/view.c`, `policy.c`, `xdg.c`) | mapped, owner, fullscreen, floating, boxes; `focused_view`, focus history | map, unmap, focus, move to tag or output, fullscreen, drag | tags, layouts, scene, seat |
| Outputs (`output/output.c`) | list of outputs, enabled, power, focused output, fallback | plug, unplug, power, manager apply, focus | tags (one table each), views (migration), sticky, scratchpad, lock surfaces |
| Commands (`core/command.c`) | none | one per binding or IPC command | all of the above |
| Panels (`protocols/workspace.c`, `toplevel.c`, `desktop.c`) | handles, urgent flags | activate a tag or a window, close, fullscreen | outputs, tags, views |
| Session lock (`protocols/session.c`) | lock, locked, abandoned, lock surfaces, idle inhibitors | lock, unlock, client dies, output changes | focus of views and layers, commands |
| Layers (`shell/layer.c`, `layer_layout.c`) | surfaces per output, the focused layer, exclusive zones | map, unmap, commit, arrange | keyboard focus, usable area |
| Ownership (`shell/ownership.c`) | for each view: none, a tag, or durable (reason, presentation, output) | prepare and commit of transitions | tags, scratchpad, sticky |
| Scratchpads (`shell/scratchpad.c`) | pool, claims, pending launches, the shown member | send, toggle, retrieve, adopt, time out, reconcile | ownership, outputs, configuration, processes |
| Sticky groups (`shell/sticky.c`) | groups of a root and transients, pending attach | toggle, move, adopt a transient, reconcile outputs | ownership, outputs, fullscreen |
| Layouts (`workspace/layout.c`) | dwindle tree, kind, ratios | insert, remove, detach, restore, resize, arrange | tags, pointer grabs |
| Pointer and gestures (`input/pointer.c`, `swipe_tracker.c`) | grab, held buttons, swipe state | motion, grabs, swipes | views, layouts, tags, transitions |
| Keyboard (`input/keyboard.c`) | modes, bindings, repeat | key, mode change | commands |
| Transitions and animations (`render/*.c`) | tag transition, open and close animations | start, step, finish, cancel | tags, views, outputs |
| IPC (`ipc/*.c`, `timao/main.c`) | clients, buffers, subscriptions | accept, read a line, answer, publish | commands, state queries |
| Configuration (`config/*.c`) | the parsed configuration | parse, validate, apply atomically | all of the above |
| Capture, data, input protocols (`protocols/*.c`) | sessions, drags, constraints | per protocol | focus, outputs |

`PROJECT.json` lists each of them under "components" with what is modelled.

### What makes them correct

* **Tags.** A view's tag is always in the table of a live output; an adaptive
  tag exists exactly while it holds a view; the candidate flag is true exactly
  while the focused id has no tag; `focus_last_tag` never leads to a freed tag;
  stepping and swiping agree on the order of tags.
* **Focus.** The keyboard is on a window of the current tag of the focused
  output, that window is on the screen, and there is one whenever the tag has a
  window. A hidden tag shows nothing.
* **Outputs.** The focused output is enabled. Unplugging loses no window and no
  tag number.
* **Lock.** Whatever changed under the lock, focus and screen are right after
  the unlock.
* **Scratchpads.** At most one member is shown, it is on a live output, a name
  claims one window or waits for one, never both.
* **Input.** Under the lock only lock surfaces get input. Outside it the seat, the
  focused layer or view, the shortcut inhibitor and the pointer constraint name the
  same surface. A key is released where it was pressed.
* **Layouts.** The leaves of a dwindle tree are the tiles of its tag. A drag that
  keeps pointers into a tree can always be ended, and a cancelled one gives the
  tree back. Tiles do not overlap.
* **Sticky groups.** A root and its dialogs are on one output that is on, or all of
  them wait for one; no change of outputs loses or splits a group.
* **Swipes.** A transition has exactly one owner; a window is invisible only while a
  snapshot stands in for it; a swipe ends where its mode promises.
* **IPC.** One reply for each line, in order; the last event on a field is true.
* **Placement.** Lit outputs never overlap; an operation that fails half way leaves
  everything as it was; the cover of the lock covers every lit output.

The hard behaviours are listed under "hazards" in `PROJECT.json`, each with its
line and the properties that would catch it.

## 2. The modules

| Module | Models | State | Built on |
|---|---|---|---|
| `Tags` | the table of one output: `leme_tags_*` of `workspace/tag.c` as operators on a record | a record `[table, focused_id, focused_is_candidate, previous_id, …]` | – |
| `Workspace` | outputs, tables, views, focus, screen, lock, reload | 13 variables, one per C field (the comment beside each names it) | `Tags` |
| `Ownership` | `struct leme_view_owner` and its transitions as operators | – | – |
| `Lists` | the linked lists of the C code as sequences: the elements a walk picks, a list without an element | – | – |
| `Scratchpad` | pool, claims, launches, shown member, with the outputs, tags, lock and configuration that reach them | 17 variables | `Ownership`, `Lists` |
| `Seat` | who has the keyboard and the pointer: windows, layers, lock surfaces, inhibitors, constraints, modes and keys | one per C structure | – |
| `Geometry` | the arithmetic of `workspace/layout.c`: cuts, columns, drops, saturating boxes | – | – |
| `Layout` | the dwindle tree, node by node, with detach, restore, drop, split drags | – (a forest is a record) | `Geometry` |
| `TiledDrags` | windows entering and leaving layouts while a grab of `input/pointer.c` points into them | `wm`, one record | `Layout` |
| `Tiling` | the abstract specification of tiled layouts: sets of tiles and at most one window being dragged | `tiles`, `held` | – |
| `Sticky` | groups of a root and dialogs, their plans for a change of outputs | `w`, one record | – |
| `Ipc` | the control socket: clients, buffers, requests, subscriptions, publication | the server, the connections, and a history of what was asked, answered and told | – |
| `Swipes` | the touchpad swipe, the transition it drives, the animation that ends it, opening windows, pointer acceleration | `w`, one record | `Tags` |
| `Placement` | `output/placement.c` and the boxes of outputs, in C ints | – | – |
| `Monitors` | plans, tests, commits, reconciliation and withdrawal of output configurations | `w`, one record | `Placement`, `Lists` |
| `…Properties` | what is stated of each of these | – | the module |
| `MC…` | instances for TLC | – | the properties |
| `DataProofs` | lemmas about the operators of `Tags` and `Lists` | – | the library's theorems |
| `WorkspaceProofs` | tables, tags and outputs; the screen, the keyboard and navigation | – | `WorkspaceProperties`, `DataProofs` |
| `SeatProofs` | the lock and the keys; who has the keyboard | – | `SeatProperties` |
| `ScratchpadProofs` | pool, claims, launches, the shown member | – | `ScratchpadProperties`, `DataProofs` |
| `MonitorsProofs` | outputs that do not overlap, and operations that fail | – | `MonitorsProperties`, `DataProofs` |
| `SwipesProofs` | transitions and their owner, masked windows, acceleration | – | `SwipesProperties`, `DataProofs` |
| `IpcProofs` | streams, replies, events and the lock, of the control socket | – | `IpcProperties`, `DataProofs` |
| `StickyProofs` | groups, their outputs, the keyboard and what may stray | – | `StickyProperties`, `DataProofs` |

The modules overlap where components interact: an unplug is an action of
`Workspace` (what happens to tags and windows), of `Scratchpad` (the shown member),
of `Seat` (layers and lock surfaces), of `Sticky` (groups) and of `Monitors`
(places and the fallback). Each has the whole handler as far as its own state goes,
and leaves open what it does not keep: `Seat` does not know tags, `Monitors` does
not know windows.

How to read them:

* **An action is a handler.** `MoveViewToTag` is the `move_view_to_tag` branch of
  `leme_command_execute` with all it calls: the materialization, the prune of the
  source, the refresh. Preparation and commit of a plan are one action, because
  no other handler runs in between; a preparation that refuses is a guard, or, in
  `Sticky` and `Monitors`, an outcome of the action.
* **Operators return sets.** Most handlers end in a refresh or a reconciliation. The
  C functions become operators from one state to a *set* of states, and an action
  picks one. The set stands for what the model leaves open (which view is first in
  a list, what is under the pointer) and, in `Monitors`, for the steps that may
  fail: an outcome is `done`, `failed`, `refused` by the backend, `broken` off in the
  reconciliation and taken back, or `lost` when taking back failed too.
* **A tag is its key** `<<output, id>>`. A tag that is freed while a view points
  to it shows as a view whose key is not in the table (`OwnedTagInTable`).
* **A node is a number.** `Layout` frees and reuses the numbers of tree nodes like
  `free` and `calloc`, so that a stale pointer of a grab meets a freed node or a
  new one. `Renumber` forgets the addresses when no grab points into a tree.
* **Null dereference.** `Workspace` has a flag `crashed`, set by the commands that
  dereference the null tag table of a session without a focused output; `Sticky` has
  `dead` for a failed assertion.
* **Sessions and scenarios.** `Features`, `Sessions` and `Scenarios` say what happens
  around a session (hotplug, power, lock, reload, …). Where a constant is a set of
  them, the initial state picks one, so that one run explores the sum of several
  combinations instead of their product.
* **Surprises.** A few interleavings lead to states that the code itself does not
  expect. They are guarded by a constant `Surprises`, empty in the runs, so that
  the properties can be stated without exceptions; each is named in the header of
  its module and described in section 3. A step that a property of `Sticky` is about is
  not guarded: what it breaks is a run of its own (`empty_group`), or the property
  says what remains true after it (`SwitchesClean`).
* **Mutants.** A definition whose comment begins with "Mutant:" is a plausible
  wrong version of the definition after it; replacing the one by the other must
  break the property `PROJECT.json` names. They show that the properties, and the
  parts of those that are conjunctions, can fail.

Abstractions. In `Workspace`, `Scratchpad` and `Seat` boxes, layouts and scene order
are left out; the list of a tag's views is the set of its owners. In `Scratchpad` the
tag's remembered view is left out too: a refresh focuses any view of the current tag,
and a focused tag is a candidate exactly while it is adaptive and empty, which is
`CandidatesSound` of `Workspace`. `TiledDrags` pins its tags. `Seat` assumes a keyboard,
one tag per output, and a lock client that answers configures in order. `Ipc` counts
text in units of which a line or a message has a few. `Swipes` has positions on a
grid, since only their floor, their nearest tag and the threshold matter. Allocations
succeed, except that starting a process may fail and that `Sticky` lets the
preparations fail that its constant `Faults` names.

### The abstract specification of layouts

`Tiling` says what a layout promises without trees, lists and ratios: every tag has
a set of tiles, a window is a tile of at most one tag, a step moves one window, a
window that is dragged is out of every tag, and if something else happens to it
the drag lets it go back to the tag it left. `TiledDrags` implements it: `tiles` is the leaves of a dwindle
tree or the list of the other layouts, `held` the grab. Run `layout` checks
`ImplementsTiling`, so no order of commands, drops, cancels and layout changes
loses a tile, duplicates one or moves a window nobody touched.

## 3. The runs

Passing runs:

| Run | Question | Instance |
|---|---|---|
| `desk` | where is the keyboard, and what does the screen show? | 2 outputs and the fallback, 2 windows, 2 tags, power and lock |
| `tags` | do candidate, previous tag and navigation agree with the table? | 1 output, 2 windows, up to 4 tags, reloads of both limits |
| `hotplug` | do the tables of all outputs follow the limits, does any window or tag keep a stale link when outputs go, and do windows keep their tag number? | 2 outputs and the fallback, 2 windows, up to 2 tags, hotplug and reloads |
| `pads` | do pool, claims, launches, the shown member and the focus agree? | a session of 1 output, 3 windows, 2 names with renames, fullscreen and reloads; one of 2 outputs, 2 windows, 1 name with hotplug, power, lock and reloads |
| `seat` | who gets input, and does the lock client get it? | 2 outputs, 1 window, 2 layers, 2 keys, five scenarios |
| `layout` | do trees, grabs and boxes stay sound, and do they implement `Tiling`? | 2 outputs, 3 tags, 3 windows, three layouts whose splits, columns and strips change, seven scenarios |
| `sticky` | do groups stay together and out of the way? | 2 outputs and the fallback, 3 windows, 2 tags, 2 groups, preparations that fail each by itself |
| `ipc` | does every client get its answers and events, whole and true? | up to 3 clients and 2 places, four scenarios |
| `swipes` | do swipes, switches and opening windows share one screen? | 2 windows, 1 touchpad, three gesture modes, a wide ring and a long chain of events |
| `monitors` | are outputs where they should be, and is there one, whatever fails? | 2 connectors and the fallback, seven files, requests of clients, two faults, in either half of a plug too |

Several properties are conjunctions of named parts (`FocusSound`, `ScreensSound`, …):
the parts are defined and explained one by one in the `…Properties` modules, and
`PROJECT.json` has mutants for the parts.

Bounds. Two outputs are enough for a successor and for the difference between the
focused output and another; the fallback is a third. Two windows give a tag with
a sibling, a hidden window and a fullscreen one; three give a pool with a shown,
a claimed and an unnamed member, a tree with a nested split, and a group of a root,
a dialog and a dialog of the dialog. Two tags give a pinned and an adaptive one, four
give the wrap of navigation on both sides of a gap. Two names and two identities
let a reload swap what two names mean. In `Ipc` the buffers hold two or three units,
so that a line or a message may fit exactly, by one, or not; two places for three
clients fill the server. In `Swipes` the ring has up to four tags, the cache keeps
four snapshots as in the code, and flicks reach past a neighbour; frames of an animation
are looked at every half tag, in the scenario `long` at every tag. `IntMax` is 12 or 15:
small enough that boxes and places reach both ends of the range. `MaxFaults` is 2:
one failure takes a way back, and a second one meets what the first left, for
instance an output that an unplug should have lit, or the second configuration of a plug
that retires the fallback. `CollapseMin`, `CollapseMax` and `Pixels` (4, 24, 16) stand for
the 10, 400 and the step of a strip of an accordion: from the configured 8 a resize
reaches both limits, and `mfact`, in tenths, reaches 1 and 9 by steps of `Delta`. The
boxes of the list layouts are checked in the areas of the outputs and in one of
3 by 2, the gap and two pixels wide, where nothing else fits. `MaxGroups` is 2: `toggle_sticky` makes no third group, so
that a waiting and a presented group, or an empty one and one that wants to move, meet.
`MaxPanels` is 1: the areas of two outputs differ when one of them has a panel.
Bounds on the number of
reloads, swipes, plugs, groups and lines (`MaxReloads`, `events`, `MaxPlugs`, `MaxGroups`,
`MaxPanels`, `sent`) are named
where they are declared; `Workspace`, `Scratchpad`, `Seat`, `TiledDrags` and
`Monitors` need none: no run of them bounds the length of a behaviour.

Deadlock. `CHECK_DEADLOCK FALSE` is set where a bound on the environment (requests
sent, reloads, plugs, swipes, faults) leaves nothing to do, or where a scenario may
leave a session in which nothing more happens.

Fairness. The safety runs assume none. `seat` uses `FairSpec`: weak fairness of
`CommitLockSurface` for each output, that is, a lock client that stays alive
answers what `leme_session_output_changed` asks of it. `LockClientGetsKeyboard` is
about such a client. Nothing is assumed of windows, layers, users or outputs. No
liveness is stated of launches and animations: their timers are armed once by
wlroots and the event loop, and a property of them would restate that.

Runs that must find a violation; `PROJECT.json` quotes the lines under "findings".

| Run | What TLC shows |
|---|---|
| `dark_command` | with all outputs off, a tag command dereferences a null table |
| `empty_group` | a group that loses its root and then its last dialog while every output is off can never be prepared again, and no output can be woken (`sticky.c:1037`, `:92`) |

The steps of `empty_group` are in the run `sticky` too, with what the code does keep:
`WakeUnlessEmpty` (only a group without windows keeps an output from being woken).
`WakeSucceeds` is the promise itself, on an instance of one output and two windows.

### More disagreements met while modelling

These were found with the same modules and counterexamples. Those with a constant
named are kept out of the runs through it; the others occur in the models where it is
said so, and no run states the promise they break.

Tags, windows and outputs (`Straddle`, `Activation`, `Dormant` in `Workspace`):

* `tag.c:713`: `move_view_to_tag` of a focused window that reaches in from another output
  prunes the table of the focused output by the id of the source tag; that can free a
  tag under its views.
* `protocols/desktop.c:104`: xdg-activation compares tag ids and not outputs, and
  focuses a window of another output.
* `shell/view.c:928`: fullscreen on an output without the focus leaves the siblings
  drawn; `shell/view.c:654`: `focus_previous_view` focuses a window behind a fullscreen
  one (docs/concepts/floating-and-fullscreen.md:35, focus-and-movement.md:3).
* After an unplug the focused view may be off the focused tag, and
  `leme_tags_move_view` (`tag.c:698`) then moves it onto the focused candidate
  without clearing the flag; `leme_output_handle_destroy` migrates views without
  a refresh, so windows that land on a hidden tag stay drawn until the next one;
  `leme_toplevel_activate_view` focuses a view of a powered-off output.
* `tag.c:400`: lowering the maximum may leave `previous_id` equal to `focused_id`.

Scratchpads: `shell/scratchpad.c:440`: a window that unmapped while fullscreen is
adopted as a fullscreen scratchpad (docs/reference/wayland-protocols.md:95).

Sticky groups (`Surprises` of `Sticky` are the two with a name):

* `twin_plans`, `sticky.c:866`: two groups that return to the same empty adaptive tag
  both plan to make it, and the second commit fails the assertion at `tag.c:1107`.
* `sticky.c:584`: a group moved to a hidden tag without being followed stays drawn, and
  focused if it was (docs/concepts/floating-and-fullscreen.md:27). `Sticky` has the step;
  `SwitchesClean` is what is true after it: what is drawn of a hidden tag goes with the
  next change of tag on that output, which hides it in every case.
* `stray_focus`: a focused group on an output without the focus becomes windows of a
  tag there and keeps the keyboard.

Layouts (`Surprises` of `TiledDrags`):

* `failed_crossing`, `shell/view.c:304`: a drop on another output that fails leaves the
  window on the new tag; the original tree is not restored
  (docs/concepts/focus-and-movement.md:27).
* `relayout_behind`, `tag.c:23`: a change to dwindle behind a fullscreen tile leaves
  that tile out of the new tree.
* `tag.c:80`: a reload that changes the layout of a tag under a tiled grab frees nodes the
  grab points to; this order is left out of the model.
* `layout.c:909`: in an area narrower than its gap and two pixels the stack beside a
  master column gets a width that is not positive; `BoxesSound` is checked down to that
  width. `split_ratio` (docs/configuration/tags.md:77) is never read.

Input: `layer.c:86`: a focused layer that is destroyed while the session is locked stays
`focused_layer` until the unlock, and is read by `tag.c:1244` and `output.c:712`; `Seat`
has the pointer but no reader of it under the lock. A click on an on-demand layer takes
the keyboard from an exclusive one; an exclusive layer on an output that is
enabled again does not get it back.

IPC: what is left in a buffer after `EAGAIN` is only flushed by the next message
(`ipc.c:68`); a client that hangs up loses the requests it had just written
(`ipc.c:448`); a workspace that goes away sends no event.

Swipes (`Surprises` of `Swipes`):

* `last_in_swipe`, `tag.c:559`: `focus_last_tag` lacks the test of `gesture.engaged` that
  `tag.c:249` has, so it replaces the transition under the finger.
* `opening_moved`, `render/view.c:206`: a window that moves to a hidden tag while its
  opening animation runs is drawn over the focused tag when the animation ends.
* `stuck_engaged`, `pointer.c:1221`: a slide by keyboard between the beginning of a swipe and its
  recognition, while the tag ahead has a fullscreen window, leaves a swipe that is
  over engaged; later switches are not animated until the next one. (TLC meets it with
  a fourth event, one more than `long` has; the proof needs it excluded.)
* `ring_beyond`, `tag.c:404`: a reload that lowers the maximum ends the animations only when the
  focused tag is above it. A slide that runs away from a candidate above the new
  maximum keeps it on its ring; a swipe that takes the slide over and is released
  there is refused the focus (`tag.c:433`) and comes to rest on a tag that does not
  have it. (Found with a third event: the scenario `long` is there for such chains.)

A fifth needs no run of its own. A reload that lowers the maximum below the focus while a
swipe is engaged clears `previous_valid` (`tag.c:402`) before it finishes the
animations, and the end of the swipe then makes the tag the focus left, now
above the maximum, the previous tag again. So `previous_valid` outlives the maximum, which
in `Workspace`, where switches take no time, it never does (`PreviousSound` of
`Tags`). It is harmless, because `focus_last_tag` refuses an id above the maximum;
but it is why the invariant of `SwipesProofs` asks of a table only what `CandidateSound` says.

Outputs: a reload that fails at the outputs, for instance because its file names only
disconnected connectors, has already changed the keymap (`validate.c:462`;
docs/configuration/config-errors.md:20), which `w.keyed` of `Monitors` shows; overlapping
outputs of a configuration do not fall back to automatic
placement at start-up, as docs/configuration/outputs.md:42 says, the new output stays
dark; one unavailable mode refuses the wake of every other output; the fallback
retires also if the connector that replaces it could not be lit; after an operation
that failed twice (`lost`) a reload that changes nothing reports success without
attaching anything; a manager's temporary state is lost when power goes off and on
(docs/guides/locking-and-idle.md:50). After an unplug whose commit the backend refuses the
focus may be on an output that is off, and the way back of the next operation that
fails takes it from there (`leme_output_reconcile`): that is why `FailedKeeps` promises
the focus only while an output is on to have it.

## 4. The proofs

`DataProofs` proves what every operator of `Tags` preserves: the table keeps its
pinned tags, holds no id above the maximum, and the focused id is valid
(`TableSound`). Navigation needs that a non-empty set of numbers has a least and
a greatest element; `MinimalSubset`, `LeastElement` and `GreatestElement` prove it
for finite sets from the theorems on finite sets, without induction.

`WorkspaceProofs` proves, for every finite or infinite set of outputs and views
and every limit, `Spec => []SafetyInv` (`SafetyInvariant`) and from it
`OwnedTagsStay`, `TablesStaySound` (with the types), `TagsRememberMembers`, `FocusStaysEnabled` and
the action property `IdsSurvive`.

The invariant. `OwnedTagInTable` is not inductive: `leme_tags_move_view` prunes the
table it is given, which is that of the focused output, by the id of the tag the
view leaves. That frees the right tag only if the focused view is on the focused
output. So `SafetyInv` adds `OnOutput`, and to carry it that remembered views are
members, that the focused output is enabled and plugged, and that all tables have
the configured maximum (otherwise the migration of an unplug would clamp an id).
There is a lemma per C operator that settles the screen (`FocusOnSettles`,
`RefreshSettles`, `ReconcileSettles`, …) and one per action (`…Safe`).

Assumptions: those of the constants (`OutputsAssumption`, `ViewsAssumption`,
`LimitAssumption`, `KeysAssumption`) and `Confined`: no window reaches into
another output, no xdg-activation across outputs, no panel request to a dark
output. All three are needed: the first items of the list in section 3 show what fails
without them. Hotplug, power, lock and reloads are
unrestricted.

Its second half goes on from `SafetyInv`: `Spec => []FocusOnCurrentTag`,
`[]FocusWhenPossible`, `[]ScreenSound`, `[]SelectionSound` and `[]StepsOnRing`, for a session
whose outputs stay (`Staying`: `Confined`, and `Hotplug` not among the features; new
outputs, power, lock and reloads are in). The restriction is a fact of the code and not
of the proof: `leme_output_handle_destroy` migrates views without a refresh
(`output.c:1560`), so after an unplug windows of a hidden tag stay drawn, and the
properties are false of the state in between. The run `hotplug` checks what is true
then. The invariant `StayInv` adds three things to `SafetyInv`. `Right(World, Screen)`: no
view of a hidden tag is drawn and, unless the session is locked, the focused output
shows what its tag presents, the focused view is on its current tag, and there is
one if the tag has a view. `Selectable`, for each table: a candidate has no tag, the
previous tag can be selected, an adaptive tag has a view. And that the headless
output is never there, since with a focused output it is only plugged by the unplug
of the last connector. The argument per action: whatever an operation does to tables
and tags, it ends in a refresh of the outputs it touched, and each refresh
(`FocusOn`, `Refresh`, `Reconcile`) makes the screen right on those outputs and leaves it
right on the others (`HiddenBut(w, s, A)` says which outputs `A` are still to be done);
a prune never takes a tag that is shown, because a shown tag has a view, is pinned or
is the focused one. `StepsOnRing` rests on lemmas of `DataProofs` about a single table:
the id that `focus_next_tag` finds by trying one id after the other is the least
table id above, or the least of all (`StepIsOnRing`, from `StepFromTag` and
`StepFromCandidate`).

`SeatProofs` proves `LockHolds` (`Spec => []LockSound`) and `ReleasesMatch`
(`Spec => []ReleasesMatchPresses`) for every number of outputs, windows, layers and
keys and every set of bindings and scenarios. Neither property is inductive: the
first needs that a lock that is held is in force (otherwise the death of its client
would lock a session that is in any mode), and the second that a key that is up
is not handled. `SeatInv` has both. Its core is `Guarded(w, A, H, s)`: in a locked world
`w` the keyboard and the pointer of the seat `s` are in `A` or on nothing and the mode
is `common`, and the handled keys are `H`. There is a lemma per operator of `Seat`
(`ViewFocusGuarded`, `ProcessMotionGuarded`, `ReconcileGuarded`, …): it maps a guarded
seat to guarded seats, for any `A` that has the configured lock surfaces. `A` may be
larger because an unplug drops the lock surface from the world first and tells the
seat last (`LockSurfacesGone`); `A` is the configured surfaces of the old world
until then.

The second half of `SeatProofs` proves `FocusIsSound` (`Spec => []FocusSound`) and `ExclusiveLayersKeep`
(`Spec => ExclusiveLayersKeepKeyboard`). Inside a handler the seat is
not sound: a surface that goes is still focused, a new focus has not reached the
inhibitor. The proof orders what is true meanwhile. `Kept`: no window but the
focused one is active, a focused layer excludes a focused view, and the pointer
constraint is that of the surface under the pointer or one of a set `X` that the handler
is about to remove. `Settled`: moreover the keyboard is where the focus says. `Focused`:
the inhibitor followed. Each handler starts `Focused` with `X` empty, and there is a
lemma per operator that says what it needs and what it mends; the one that needs
least and mends most is `RestoreKeyboardFocus`, in which most
handlers of `shell/layer.c` and `protocols/session.c` end. The action property follows from the
same lemmas: every operator that could take the keyboard from an exclusive layer asks
first whether a layer is focused.

The only assumption of the module is `SeatAssumption`. `Reserved \notin Modes` in it only
keeps the value that stands for `switch_vt` and `quit` apart from the names of modes;
that windows, layers and lock surfaces are apart is `wlr_surface`'s: a surface has one
role.

`ScratchpadProofs` proves `Members` (`[]MembersSound`), `NamesAgree` (`[]NamesSound`),
`KeyboardOnSeen` (`[]FocusEligible`) and `LockedShownStays` (`LockKeepsShown`), for every
set of windows, outputs, tags, names and definitions. The handlers of
`shell/scratchpad.c` are operators on a value `p` of `Pads` in a world `w`, and so is most of
the invariant: `Sound(d, ids, w, p, l)` says that the pool lists each scratchpad once and
the shown member is the one that has an output (`PadsOK`), that this output is
plugged and on (`ShownValid`), that the focused view is one that can be seen
(`FocusKept`), that a claim is a defined name of one window (`ClaimsMatch`), and that a
pending launch has a name no window claims (`LaunchesKept`). There is a lemma for each
C function and one per action that strings them together. Pools are linked
lists, so the proof needs to know what is left of a list when elements are removed
or kept. `Lists` states that as a recursive function, since `SelectSeq` is out of the
prover's reach. `DataProofs` proves for lists of any length, by well-founded
induction on the step at which a walk first goes wrong, that `Selected` has the selected
elements, in their order, none twice, and that a distinct list is as long as its set.

`MonitorsProofs` proves `LitNeverOverlap` (`[]NoOverlap`), `ScreensStaySound`
(`[]ScreensSound`) and the action properties `FallbackStaysReady` (`FallbackReady`) and
`FailuresStayHarmless` (`FailuresHarmless`), for
every set of connectors, modes, files and clients' requests and any number of faults.
The invariant `MonitorsInv` has a part `Base` that holds of every state, also of a lost
one (types; no output is listed twice), and `Lit` and `Told` for those that are not lost:
scene, layout, boxes, focus and the cover of the lock are those of the outputs that
are on, these fit (`Fits`: each box has edges that are ints and no two overlap), and
clients were told. `Housed` is the condition of the fallback, in every state that lists an output;
`FallbackStaysReady` adds that no step lists nothing after it (`NextKeeps`), and
holds of lost sessions too. A plug has two halves, the new output's configuration and, if the
fallback retires, the configuration of what is left; either may end in any way
(`FinishAfterKeeps`, `RetireIs`), so a connector that the backend refuses may stay
dark after both. An operation maps a state to outcomes, and
`Ends(end, s)` says of an outcome what a client of the operation may rely on: that it
is based, that it is lit and told if `s` was and it is not lost, and that it is `Kept`
if it is not done. `CommitEnds` proves it for a commit with its reconciliation and the
way back, `WakeIs` and `PowerEnds` for the power protocol, and `ApplyIs`, `DestroyIs`,
`RetireIs` carry it through what is made of them. The induction inside `Related` and
`Resolve` (placement by relation, round after round) is replaced by an induction over
the round number as a set of naturals with a least exception (`StepByStep`).

Why outputs never overlap is a matter of rounding. A plan and a client's request are checked with
the logical size, which rounds (`leme_output_logical_size`); the screen has
the effective size, which cuts (`wlr_output_effective_resolution`). `CutRounds` shows that the
cut size is at least 1 and at most the rounded one, `SpotSmaller` that the screen then lies in
the planned box, and `CompatibleSmaller` that parts of compatible boxes are compatible.
A wake is checked against the boxes `full` of the other outputs, which in a lit
state are their screens.

`SwipesProofs` proves `TransitionsStaySound` (`[]TransitionSound`), `WindowsStaySound`
(`[]WindowsSound`) and `AccelerationRestored` (`[]AccelRestored`), for every set of windows
and devices, every set of scenarios, flicks and thresholds and any number of reloads, in
sessions with `Surprises = {}`: with each of the four interleavings of section 3 a
property is false of the code (`opening_moved` breaks `WindowsSound`, `stuck_engaged`
and `ring_beyond` break `TransitionSound`, `last_in_swipe` breaks `SwitchesLand`), and the
theorems say that nothing else breaks the first three. The invariant is `SwipeInv`,
whose core `Safe` has six parts, apart because the handlers suspend them at different
moments. `Still`: types; an opening animation runs on
the focused tag only and never together with a transition (`OpeningHere`); what is not
going on is zeroed (`Cleared`); an active transition has both its tags in a cache
without duplicates, a ring that is that of the swipe, and leads to the focus
(`Showing`). `Drawn`: the enabled windows are of the focused tag and the masked ones those
that are hidden by what is presented. `Owned`: exactly one of an animation and an
engaged swipe. `Tame`: what was saved of a device is the current configuration's.
`Watched`: a swipe is on a lit, unlocked screen. `Within`: rings are within the
maximum, which is what `ring_beyond` breaks. `TransitionOwned` alone is not inductive:
that a swipe which ends, or is cancelled by a lock, hands over to an animation that
leads somewhere needs `Showing`; that a mask is lifted needs `Drawn` before and the
refresh at the end, and most operators are shown to need only `Still` (`Loose` inside a
reload, where the tables are between two configurations) and to give `Drawn` back. That
a position wraps to a member of the ring (`RingAtMember`) is a counting argument: the
index is an injection of the ring into as many places (`RingPlace`). Of
`SwipesAssumption` the proof uses that `none` names no device and that flicks and
thresholds are integers.

`IpcProofs` proves `StreamsHold` (`[]StreamsSound`), `RepliesHold` (`[]RepliesSound`),
`EventsHold` (`[]EventsSound`) and the action property `LockIsQuiet` (`LockedQuiet`), for every
finite set of clients and fields, every limit on places, lines and buffers, and every
scenario. The operators of `Ipc` take a world, the record of the variables, and give
one; the connection that a handler serves may be `failed` in between, which in the code
is the answer `false` that travels up to the handler, and what goes over it need not be
whole then, because it is dropped before the handler ends. No property is inductive.
That a message is never cut needs that what waits *ends* with a newline (`Framed`), so that
the next text may follow. That an answer is earned needs the length of the line that
is still being read: `Lined` says of the bytes on the wire where each newline stands,
counted from the start of its line, which may be in the server's buffer already;
with that, `MaxLine` bytes in the buffer mean a line that is too long
(`LinedTail`, `LinedMore`). That one reply goes with each line is a count: answers given and
newlines on the wire make the lines asked (`NewlinesTail`). That the events are true
is said of any state `p` of what is published (`AllTold(s, p)`): a subscriber was told
`p` last, so an event on `f` takes it from `p` to `Sent(p, f, v)`, and the loop of
`leme_ipc_diff` from the snapshot to what there is now (`Partial`, `DiffTold`). `Published` is why
nothing is forgotten: what there is differs from the snapshot only while a reconciliation
is due, the session is locked or a panel has the keyboard. The two loops (the bytes of a
packet, the fields that changed) are recursive functions; `TakenExists` and
`EmittedExists` prove that these exist, by the least step at which they would not, and
the invariant of a loop is carried from step to step in the same way. The dispatch of an
event to the clients is one update of all of them in the model, which is what the
list does one by one, since no client reads what another is. The only assumption is
`IpcAssumption`: clients and fields are finitely many, and a request to set names
a field and a value that exist.

`StickyProofs` proves `StickyHolds` (`[]StickySound`), `OutputsHold` (`[]OutputsSound`),
`FocusHolds` (`[]FocusReachable`) and `NothingStrays` (the action property
`NothingStray`), for every set of windows, outputs and tags, any number of plugs and
every choice of preparations that may fail, in sessions with `Surprises = {}`: section 3
says what each surprise breaks. None of the properties is inductive. `IInv` is
`Sound(w)` with the types of the history variables, and `Sound` has five parts, because
a change of outputs suspends them at different moments. `Core` is what such a change may
rely on when it begins: groups linked as they must be, each window in one of them, at
most one of them waiting (`Grouped`), a group on one output and a waiting one on none
(`Gathered`), what is drawn (`Seen`), and a keyboard that is on a drawn window, one of
the focused output if it is a window of a tag (`Keyed`). `Anchored` and `Housed` (a
presented group is on an output that is on, or on the focused one) fail between the
moment an output goes and the end of the reconciliation. `Lit` says that some output has
the focus while one is on, and that it is on unless a change failed; `Excused` why a
group is suspended. `Housed` is weaker than `GroupsTogether` and needed: after the last
output that is on has gone and the next change fails, the groups wait on the output that
takes over, which is off, and only `Lit` says that a change failed. The two loops of
`leme_sticky_commit_outputs` are recursive functions; `PresentsExist` and
`AttachesExist` prove that these exist, and `Presenting` and `Attaching` say where every
window is after each entry of the plan. `Reconfigured` and its callers end in one of two
ways: `Caught` (everything is sound again, whatever `Core` state it began in) or
`Loosened` (nothing but `failed` changed), and `DestroyedIs` carries the two through the
unplug of the last output, whose successor is the fallback, which may fail twice. A
group may be empty, when it waits and its last dialog closes, and then no plan is
prepared (`Prepares`): a change of outputs is `Loosened` for good. That is why
`OutputsHold` says of wakes only `WakeUnlessEmpty`, and the run `empty_group` shows that
no more is true. `NothingStrays` is about each refresh: a change of tag leaves its output
`Clean` whatever a move to a hidden tag left there, and what follows the refresh in the
same handler (a window that gets the focus, a prune) keeps it so. Of `StickyAssumption` the proof uses that `NONE` is neither a window
nor an output, that tag 1 is a tag and the fallback an output, and that an output may be
plugged in once (`MaxPlugs` was allowed to be 0, and then the first state is not in its
bounds).

Assumptions: `MonitorsAssumption` and `ScenariosAssumption` give modes, files and
requests the types the parser and the protocol enforce. `SizesAssumption` says that no
scale makes a screen of nothing out of a mode; scales are at most 4.0
(`config/parse.c:2917`, `validate.c:37`, `output.c:1336`), so it excludes modes of less than
four pixels.

Only model-checked: the properties of the screen, the keyboard and navigation in sessions
with unplugs (as far as they are true there, run `hotplug`), `PolicyRestored` of `Monitors` (what a recursive
placement computes for every list of requests), `SwitchesLand` of `Swipes` (where a release
comes to rest: arithmetic on rings that has no proof yet), and everything
about `TiledDrags`. The liveness property `LockClientGetsKeyboard` is out of the
prover's reach, and so are the results of recursive functions on trees (`Layout`).

## 5. Not modelled, and the plan

Not modelled by choice: drawing, curves and effects of animations, closing animations,
the X11 side of Xwayland, process set-up, the text of configuration files and of IPC
answers (`config/*.c`, 8,000 lines, is one pass from text to a structure), idle
inhibitors, clipboard, capture, exclusive zones of layers, key repeat, pinch and hold
gestures.

What would come next, the most important first:

1. The composition of reloads with sticky groups: `leme_config_apply` prepares the tag
   tables before `leme_output_apply_config`, which may materialize a tag for a
   group (`validate.c:465`).
2. An abstract specification of durable views that `Scratchpad` and `Sticky` both
   implement.
3. Idle inhibitors and the release of what they hold when their surface or output goes.
4. Reload with all its prepared plans in one module, with a failure after each.

Theorems to come: the steps of `TiledDrags` that do not touch a tree as steps of `Tiling`; `CancelReturns` and `LastSwaps` of `Swipes`.
