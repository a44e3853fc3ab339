----------------------------- MODULE Scratchpad -----------------------------
(***************************************************************************)
(* Scratchpads: shell/scratchpad.c, with what it uses of views, tags,      *)
(* outputs, the configuration and the session lock.                        *)
(*                                                                         *)
(* A scratchpad is a mapped view that no tag owns.  The pool lists them    *)
(* from the newest; at most one is shown.  A definition of the             *)
(* configuration gives a name to an application identity; the view that    *)
(* serves a name claims it, and a name with no view starts a process and   *)
(* waits for its window, at most ten seconds.                              *)
(*                                                                         *)
(* Every output has its pinned tags and adaptive ones.  Workspace shows    *)
(* that a focused tag is a candidate exactly while it is adaptive and      *)
(* empty, so that is how it is told here.  tag->focused_view is left out:  *)
(* a refresh focuses any view of the current tag.  Boxes and scene nodes   *)
(* are left out.                                                           *)
(***************************************************************************)
EXTENDS Ownership, Lists, FiniteSets

CONSTANTS
  Outputs,     \* the physical outputs
  Views,       \* the windows of the clients
  TagIds,      \* the tag ids of every output
  PinnedIds,   \* those that are pinned
  Names,       \* the names a configuration may define
  Identities,  \* app ids and window classes
  Sessions     \* what happens around the scratchpads, see below, in sessions
               \* of some of the outputs, views and names

Hotplug    == "hotplug"     \* outputs come and go
Power      == "power"       \* outputs are powered off and disabled
SessionLock == "lock"       \* the session is locked
Reloads    == "reload"      \* the configuration is reloaded
Renames    == "rename"      \* a client changes its identity
Fullscreens == "fullscreen" \* clients ask for fullscreen

ASSUME ViewsAssumption == NONE \notin Views /\ NONE \notin Outputs
ASSUME NamesAssumption == NONE \notin Names /\ NONE \notin Identities
ASSUME SessionsAssumption ==
  \A x \in Sessions : x.outputs \subseteq Outputs /\ x.views \subseteq Views
                      /\ x.names \subseteq Names
ASSUME TagIdsAssumption == PinnedIds \subseteq TagIds /\ PinnedIds # {}

VARIABLES
  session,       \* one of Sessions
  plugged,       \* server->outputs
  enabled,       \* wlr_output->enabled
  powered,       \* output->power_on
  current,       \* tags->focused_id of every output
  focusedOutput, \* server->focused_output
  locked,        \* session->locked
  definition,    \* the identity of every defined name
  identity,      \* leme_view_identity of every view
  owner,         \* view->owner
  fullscreen,    \* view->fullscreen
  claim,         \* view->scratchpad_name
  pool,          \* manager->pool, newest first
  shown,         \* manager->shown
  focusedView,   \* server->focused_view
  history,       \* server->focus_history, newest first
  pending        \* manager->pending, newest first

outputVars == <<plugged, enabled, powered, current, focusedOutput>>
configVars == <<definition, identity>>
padVars == <<owner, fullscreen, claim, pool, shown, focusedView, history>>
vars == <<session, outputVars, locked, configVars, padVars, pending>>

Keys == Outputs \X TagIds
Definitions ==
  {d \in [Names -> Identities \cup {NONE}] :
     /\ \A m, n \in Names : d[m] = d[n] /\ d[m] # NONE => m = n
     /\ \A n \in Names \ session.names : d[n] = NONE}
Requests ==
  [name : Names, identity : Identities, destination : Outputs \cup {NONE}]

TypeOK ==
  /\ plugged \subseteq Outputs /\ enabled \subseteq plugged
  /\ powered \subseteq Outputs
  /\ current \in [Outputs -> TagIds]
  /\ focusedOutput \in Outputs \cup {NONE}
  /\ locked \in BOOLEAN
  /\ definition \in Definitions
  /\ identity \in [Views -> Identities]
  /\ owner \in [Views -> OwnerType(Keys, Outputs)]
  /\ fullscreen \subseteq Views
  /\ claim \in [Views -> Names \cup {NONE}]
  /\ pool \in Seq(Views) /\ history \in Seq(Views)
  /\ shown \in Views \cup {NONE}
  /\ focusedView \in Views \cup {NONE}
  /\ pending \in Seq(Requests)

-----------------------------------------------------------------------------
(* World is what the handlers read, Pads what they change: a handler ends  *)
(* in one of the Pads its operators derive.                                *)

World == [plugged |-> plugged, enabled |-> enabled, powered |-> powered,
          current |-> current, focusedOutput |-> focusedOutput,
          locked |-> locked]

Pads == [owner |-> owner, fullscreen |-> fullscreen, claim |-> claim,
         pool |-> pool, shown |-> shown, focusedView |-> focusedView,
         history |-> history]

Install(p) ==
  /\ owner' = p.owner
  /\ fullscreen' = p.fullscreen
  /\ claim' = p.claim
  /\ pool' = p.pool
  /\ shown' = p.shown
  /\ focusedView' = p.focusedView
  /\ history' = p.history

\* leme_scratchpad_promote, and the same on the focus history.
Promote(s, v) == <<v>> \o Without(s, v)

OutputValid(w, o) == o \in w.plugged \cap w.enabled \cap w.powered

IsPad(p, v) == IsDurable(p.owner[v], Scratch)

\* The views of the current tag of an output.
CurrentMembers(w, p, o) ==
  {v \in Views : p.owner[v].kind = "tag" /\ p.owner[v].tag = <<o, w.current[o]>>}

IsCandidate(w, p, o) ==
  w.current[o] \notin PinnedIds /\ CurrentMembers(w, p, o) = {}

-----------------------------------------------------------------------------
(* Keyboard focus                                                          *)

\* leme_view_focus of an eligible view; only views of a tag enter the history.
Focus(w, p, v) ==
  IF w.locked \/ ~Eligible(p.owner[v]) THEN p
  ELSE [p EXCEPT !.focusedView = v,
                 !.history = IF p.owner[v].kind = "tag" THEN Promote(@, v) ELSE @]

ClearFocus(p) == [p EXCEPT !.focusedView = NONE]

\* The views a refresh of o may focus: a fullscreen view hides the others.
Targets(w, p, o) ==
  LET members == CurrentMembers(w, p, o)
      full == members \cap p.fullscreen
  IN IF full # {} THEN full ELSE members

\* leme_tags_refresh_visibility.
Refresh(w, p, o) ==
  IF o = NONE \/ o # w.focusedOutput THEN {p}
  ELSE IF Targets(w, p, o) = {} THEN {ClearFocus(p)}
  ELSE {Focus(w, p, v) : v \in Targets(w, p, o)}

RestoreKeyboardFocus(w, p) ==
  IF w.locked THEN {p}
  ELSE IF w.focusedOutput = NONE THEN {ClearFocus(p)}
  ELSE Refresh(w, p, w.focusedOutput)

\* leme_scratchpad_restore_tag_focus: the most recent view of the focused tag.
RestoreTagFocus(w, p) ==
  IF w.focusedOutput = NONE THEN {ClearFocus(p)}
  ELSE LET targets == Targets(w, p, w.focusedOutput)
           recent == Selected(p.history, targets)
       IN IF recent # <<>> /\ targets \cap p.fullscreen = {}
          THEN {Focus(w, p, recent[1])}
          ELSE Refresh(w, p, w.focusedOutput)

\* The pointer rests on a view of o, or on none.
Hit(w, p, o) ==
  CurrentMembers(w, p, o)
    \cup {v \in Views : p.shown = v /\ EffectiveOutput(p.owner[v]) = o}

Point(w, p, o) == {p} \cup {Focus(w, p, v) : v \in Hit(w, p, o)}

-----------------------------------------------------------------------------
(* Hiding and showing                                                      *)

\* Mutant: the keyboard stays with the hidden view.
HideKeepsFocus(w, p, v, promote) ==
  {[p EXCEPT !.shown = NONE,
             !.owner[v] = Presented(p.owner[v], NONE),
             !.pool = IF promote THEN Promote(@, v) ELSE @,
             !.history = Without(@, v)]}

Hide(w, p, v, promote) ==
  LET hidden == [p EXCEPT !.shown = NONE,
                          !.owner[v] = Presented(p.owner[v], NONE),
                          !.pool = IF promote THEN Promote(@, v) ELSE @,
                          !.history = Without(@, v)]
  IN IF p.focusedView = v THEN RestoreTagFocus(w, hidden) ELSE {hidden}

Show(w, p, v, o) ==
  LET ready == IF p.shown \in {NONE, v} THEN {p} ELSE Hide(w, p, p.shown, FALSE)
  IN {Focus(w, [q EXCEPT !.owner[v] = Presented(q.owner[v], o),
                         !.fullscreen = @ \ {v},
                         !.shown = v,
                         !.pool = Promote(@, v)], v) : q \in ready}

\* A view of a tag joins the pool, hidden, and claims `name` unless NONE:
\* the common part of leme_scratchpad_send and leme_scratchpad_claim_tagged.
Pooled(w, p, v, name) ==
  RestoreTagFocus(w, [p EXCEPT !.owner[v] = DurableOwner(Scratch, NONE),
                               !.fullscreen = @ \ {v},
                               !.claim[v] = name,
                               !.pool = Promote(@, v),
                               !.history = Without(@, v)])

\* Mutant: a shown scratchpad survives its output.
ReconcileKeepsShown(w, p) == {p}

\* leme_scratchpad_reconcile_outputs.
ReconcileOutputs(w, p) ==
  IF p.shown # NONE /\ ~OutputValid(w, EffectiveOutput(p.owner[p.shown]))
  THEN Hide(w, p, p.shown, FALSE) ELSE {p}

-----------------------------------------------------------------------------
(* Commands, which the session lock refuses                                *)

\* Mutant: the lock does not refuse commands.
AlwaysAllowed == TRUE

\* leme_session_command_allowed.
Allowed == ~locked

Unnamed(p) == Selected(p.pool, {v \in Views : p.claim[v] = NONE})

\* scratchpad_send: the shown member is hidden again and keeps its name.
Send ==
  /\ Allowed
  /\ focusedView # NONE
  /\ LET v == focusedView IN
     \/ /\ v = shown
        /\ \E p \in Hide(World, Pads, v, TRUE) : Install(p)
     \/ /\ owner[v].kind = "tag"
        /\ claim[v] = NONE
        /\ \E p \in Pooled(World, Pads, v, NONE) : Install(p)
  /\ UNCHANGED <<outputVars, locked, configVars, pending>>

ToggleUnnamed ==
  /\ Allowed
  /\ OutputValid(World, focusedOutput)
  /\ IF shown # NONE /\ claim[shown] = NONE
     THEN IF EffectiveOutput(owner[shown]) = focusedOutput
          THEN \E p \in Hide(World, Pads, shown, FALSE) : Install(p)
          ELSE \E p \in Show(World, Pads, shown, focusedOutput) : Install(p)
     ELSE /\ Unnamed(Pads) # <<>>
          /\ \E p \in Show(World, Pads, Unnamed(Pads)[1], focusedOutput) :
               Install(p)
  /\ UNCHANGED <<outputVars, locked, configVars, pending>>

Hidden(v) == IsPad(Pads, v) /\ v # shown

\* The members a named toggle finds: its hidden claim, a hidden unnamed member
\* with the identity, the most recent view of a tag with the identity.
HiddenClaim(name) ==
  Selected(pool, {v \in Views : Hidden(v) /\ claim[v] = name})

HiddenIdentity(name) ==
  Selected(pool, {v \in Views : /\ Hidden(v)
                                /\ claim[v] = NONE
                                /\ identity[v] = definition[name]})

TaggedIdentity(name) ==
  Selected(history, {v \in Views : /\ owner[v].kind = "tag"
                                   /\ claim[v] = NONE
                                   /\ identity[v] = definition[name]})

PendingNames == {pending[i].name : i \in DOMAIN pending}

\* The process is started, or the start fails.
PendingCreate(name) ==
  pending' \in {pending,
                <<[name |-> name, identity |-> definition[name],
                   destination |-> focusedOutput]>> \o pending}

\* A launch under way only learns its new destination.
Redirect(name) ==
  pending' = [i \in DOMAIN pending |->
                IF pending[i].name = name
                THEN [pending[i] EXCEPT !.destination = focusedOutput]
                ELSE pending[i]]

\* The five ends of leme_scratchpad_toggle_named.
ToggleShown ==
  /\ \E p \in IF EffectiveOutput(owner[shown]) = focusedOutput
              THEN Hide(World, Pads, shown, FALSE)
              ELSE Show(World, Pads, shown, focusedOutput) : Install(p)
  /\ UNCHANGED pending

ShowHidden(name, v) ==
  /\ \E p \in Show(World, [Pads EXCEPT !.claim[v] = name], v, focusedOutput) :
       Install(p)
  /\ UNCHANGED pending

ClaimTagged(name, v) ==
  /\ \E q \in Pooled(World, Pads, v, name) :
     \E p \in Show(World, q, v, focusedOutput) : Install(p)
  /\ UNCHANGED pending

\* scratchpad_toggle NAME.
ToggleNamed(name) ==
  /\ Allowed
  /\ definition[name] # NONE
  /\ OutputValid(World, focusedOutput)
  /\ IF name \in PendingNames THEN Redirect(name) /\ UNCHANGED padVars
     ELSE IF shown \in {v \in Views : claim[v] = name} THEN ToggleShown
     ELSE IF HiddenClaim(name) # <<>> THEN ShowHidden(name, HiddenClaim(name)[1])
     ELSE IF HiddenIdentity(name) # <<>>
     THEN ShowHidden(name, HiddenIdentity(name)[1])
     ELSE IF TaggedIdentity(name) # <<>>
     THEN ClaimTagged(name, TaggedIdentity(name)[1])
     ELSE PendingCreate(name) /\ UNCHANGED padVars
  /\ UNCHANGED <<outputVars, locked, configVars>>

\* Mutant: the owner is overwritten in place.
RetagInPlace(p, v, key) ==
  [p EXCEPT !.owner[v].kind = "tag", !.owner[v].tag = key, !.claim[v] = NONE,
            !.pool = Without(@, v), !.shown = NONE]

\* A member leaves the pool for a tag.
Retag(p, v, key) ==
  [p EXCEPT !.owner[v] = TagOwner(key), !.claim[v] = NONE,
            !.pool = Without(@, v), !.shown = NONE]

\* scratchpad_retrieve: the shown member, or the newest unnamed one, joins the
\* current tag.
Retrieve ==
  /\ Allowed
  /\ OutputValid(World, focusedOutput)
  /\ ~IsCandidate(World, Pads, focusedOutput)
  /\ shown # NONE \/ Unnamed(Pads) # <<>>
  /\ LET v == IF shown # NONE THEN shown ELSE Unnamed(Pads)[1]
         key == <<focusedOutput, current[focusedOutput]>>
     IN Install(Focus(World, Retag(Pads, v, key), v))
  /\ UNCHANGED <<outputVars, locked, configVars, pending>>

-----------------------------------------------------------------------------
(* Windows                                                                 *)

Awaiting(i) ==
  Selected(pending, {r \in Elements(pending) : r.identity = i})

\* Mutant: the launch still waits after its window came.
ServedNever(i) == pending

\* The launch that waits for identity i is over.
Served(i) == Without(pending, Awaiting(i)[1])

\* Where the window of a launch appears; NONE keeps it hidden.
Landing(r) ==
  IF OutputValid(World, r.destination) THEN r.destination
  ELSE IF OutputValid(World, focusedOutput) THEN focusedOutput ELSE NONE

\* leme_view_map of a window that no launch waits for.
MapView(v, o, id) ==
  /\ owner[v].kind = "none"
  /\ Awaiting(identity[v]) = <<>>
  /\ \/ focusedOutput # NONE /\ o \in enabled
     \/ \E parent \in Views : owner[parent] = TagOwner(<<o, id>>)
  /\ LET placed == [Pads EXCEPT !.owner[v] = TagOwner(<<o, id>>)]
         seen == IF o = focusedOutput /\ current[o] = id
                 THEN Focus(World, placed, v) ELSE placed
     IN \E p \in Refresh(World, seen, o) : Install(p)
  /\ UNCHANGED <<outputVars, locked, configVars, pending>>

\* leme_scratchpad_try_adopt_map: the window of a launch maps.
AdoptMap(v) ==
  /\ owner[v].kind = "none"
  /\ Awaiting(identity[v]) # <<>>
  /\ LET r == Awaiting(identity[v])[1]
         o == Landing(r)
         adopted(p) == [p EXCEPT !.owner[v] = DurableOwner(Scratch, o),
                                 !.claim[v] = r.name,
                                 !.shown = IF o = NONE THEN @ ELSE v,
                                 !.pool = Promote(@, v)]
         ready == IF o = NONE \/ shown = NONE THEN {Pads}
                  ELSE Hide(World, Pads, shown, FALSE)
     IN /\ definition[r.name] = r.identity
        /\ \E p \in ready : Install(Focus(World, adopted(p), v))
        /\ pending' = Served(identity[v])
  /\ UNCHANGED <<outputVars, locked, configVars>>

\* Mutant: the unmapped view stays in the pool.
DepartedKeepsPool(p, v) ==
  [p EXCEPT !.owner[v] = NoOwner,
            !.claim[v] = IF IsPad(p, v) THEN NONE ELSE @,
            !.shown = IF @ = v THEN NONE ELSE @,
            !.focusedView = IF @ = v THEN NONE ELSE @,
            !.history = Without(@, v)]

\* leme_scratchpad_handle_unmap and the rest of leme_view_unmap.
Departed(p, v) ==
  [p EXCEPT !.owner[v] = NoOwner,
            !.claim[v] = IF IsPad(p, v) THEN NONE ELSE @,
            !.pool = IF IsPad(p, v) THEN Without(@, v) ELSE @,
            !.shown = IF @ = v THEN NONE ELSE @,
            !.focusedView = IF @ = v THEN NONE ELSE @,
            !.history = Without(@, v)]

UnmapView(v) ==
  /\ owner[v].kind # "none"
  /\ \E p \in Refresh(World, Departed(Pads, v), focusedOutput) : Install(p)
  /\ UNCHANGED <<outputVars, locked, configVars, pending>>

\* Mutant: a member keeps the name its new identity does not have.
KeptClaimAlways(v, i) == claim[v]

\* The name a view keeps with identity i.
KeptClaim(v, i) ==
  IF claim[v] # NONE /\ definition[claim[v]] # i THEN NONE ELSE claim[v]

\* leme_scratchpad_handle_identity_change.  A view of a tag may turn out to be
\* the window that a launch waits for.
SetIdentity(v, i) ==
  /\ Renames \in session.environment
  /\ i # identity[v]
  /\ identity' = [identity EXCEPT ![v] = i]
  /\ LET kept == [Pads EXCEPT !.claim[v] = KeptClaim(v, i)]
         awaited == owner[v].kind = "tag" /\ Awaiting(i) # <<>>
         r == Awaiting(i)[1]
     IN IF awaited /\ definition[r.name] = r.identity /\ kept.claim[v] = NONE
        THEN /\ \E q \in Pooled(World, kept, v, r.name) :
                \E p \in IF Landing(r) = NONE THEN {q}
                         ELSE Show(World, q, v, Landing(r)) : Install(p)
             /\ pending' = Served(i)
        ELSE Install(kept) /\ UNCHANGED pending
  /\ UNCHANGED <<outputVars, locked, definition>>

\* leme_view_set_fullscreen: a scratchpad is only told that it is not.
SetFullscreen(v) ==
  /\ Fullscreens \in session.environment
  /\ \/ /\ IsPad(Pads, v)
        /\ Install([Pads EXCEPT !.fullscreen = @ \ {v}])
     \/ /\ owner[v].kind = "tag"
        /\ LET changed == [Pads EXCEPT !.fullscreen = IF v \in @ THEN @ \ {v}
                                                      ELSE @ \cup {v}]
           IN \E p \in Refresh(World, changed, focusedOutput) : Install(p)
  /\ UNCHANGED <<outputVars, locked, configVars, pending>>

-----------------------------------------------------------------------------
(* Timers, the configuration and the session lock                          *)

\* Ten seconds have passed.
PendingTimeout(name) ==
  /\ name \in PendingNames
  /\ pending' = Selected(pending, {r \in Elements(pending) : r.name # name})
  /\ UNCHANGED <<outputVars, locked, configVars, padVars>>

\* leme_scratchpad_config_matches.
DefinitionKept(next, name, i) == definition[name] = i /\ next[name] = i

KeptLaunches(next) ==
  Selected(pending, {r \in Elements(pending) :
                       DefinitionKept(next, r.name, r.identity)})

KeptClaims(next) ==
  [v \in Views |->
     IF claim[v] = NONE \/ v \notin Elements(pool) THEN claim[v]
     ELSE IF DefinitionKept(next, claim[v], definition[claim[v]]) /\
             definition[claim[v]] # NONE
     THEN claim[v] ELSE NONE]

\* leme_output_reconcile with the enabled outputs of w: the shown member goes
\* first, then the focused output.
Settle(w, p) ==
  UNION {IF w.focusedOutput \in w.enabled \/
            (w.focusedOutput = NONE /\ w.enabled = {})
         THEN {<<w.focusedOutput, q>>}
         ELSE UNION {{<<f, r>> : r \in RestoreKeyboardFocus(
                                   [w EXCEPT !.focusedOutput = f], q)} :
                     f \in IF w.enabled = {} THEN {NONE} ELSE w.enabled} :
         q \in ReconcileOutputs(w, p)}

ReloadConfig(next) ==
  /\ Reloads \in session.environment
  /\ ~locked
  /\ definition' = next
  /\ pending' = KeptLaunches(next)
  /\ enabled' = plugged \cap powered
  /\ UNCHANGED <<plugged, powered, current, locked, identity>>
  /\ \E s \in Settle([World EXCEPT !.enabled = enabled'], Pads) :
       /\ focusedOutput' = s[1]
       /\ \E p \in Refresh(World', [s[2] EXCEPT !.claim = KeptClaims(next)],
                           s[1]) : Install(p)

Lock ==
  /\ SessionLock \in session.environment
  /\ ~locked
  /\ locked' = TRUE
  /\ UNCHANGED <<outputVars, configVars, padVars, pending>>

Unlock ==
  /\ locked
  /\ locked' = FALSE
  /\ UNCHANGED <<outputVars, configVars, pending>>
  /\ \E q \in RestoreKeyboardFocus(World', Pads) :
     \E p \in {q} \cup UNION {Point(World', q, o) : o \in enabled} : Install(p)

-----------------------------------------------------------------------------
(* Focus and outputs                                                       *)

FocusTag(id) ==
  /\ Allowed
  /\ focusedOutput # NONE
  /\ current' = [current EXCEPT ![focusedOutput] = id]
  /\ UNCHANGED <<plugged, enabled, powered, focusedOutput, locked, configVars,
                 pending>>
  /\ \E p \in Refresh(World', Pads, focusedOutput) : Install(p)

\* The pointer moves over o, or focus_output selects it.
PointerMotion(o) ==
  /\ ~locked
  /\ o \in enabled
  /\ focusedOutput' = o
  /\ UNCHANGED <<plugged, enabled, powered, current, locked, configVars, pending>>
  /\ \E q \in IF o = focusedOutput THEN {Pads} ELSE Refresh(World', Pads, o) :
     \E p \in Point(World', q, o) : Install(p)

\* A panel activates the shown member, wherever it is.
ToplevelActivate ==
  /\ ~locked
  /\ shown # NONE
  /\ Install(Focus(World, Pads, shown))
  /\ UNCHANGED <<outputVars, locked, configVars, pending>>

\* leme_scratchpad_move_shown: a drag drops the shown member on o.
MoveShown(o) ==
  /\ ~locked
  /\ shown # NONE
  /\ OutputValid(World, o)
  /\ focusedOutput' = o
  /\ UNCHANGED <<plugged, enabled, powered, current, locked, configVars, pending>>
  /\ \E q \in Refresh(World', [Pads EXCEPT !.owner[shown] =
                                 Presented(owner[shown], o)], o) :
       Install(Focus(World', q, shown))

SetPower(o, on) ==
  /\ Power \in session.environment
  /\ o \in plugged
  /\ powered' = IF on THEN powered \cup {o} ELSE powered \ {o}
  /\ enabled' = IF on THEN enabled \cup {o} ELSE enabled \ {o}
  /\ UNCHANGED <<plugged, current, locked, configVars, pending>>
  /\ \E s \in Settle([World EXCEPT !.enabled = enabled', !.powered = powered'],
                     Pads) :
       /\ focusedOutput' = s[1]
       /\ \E p \in IF s[1] \in {NONE, focusedOutput} THEN {s[2]}
                   ELSE Point(World', s[2], s[1]) : Install(p)

\* A request of an output manager, which leaves an output enabled.
ManagerApply(heads) ==
  /\ Power \in session.environment
  /\ heads # {}
  /\ enabled' = heads
  /\ \E s \in Settle([World EXCEPT !.enabled = heads], Pads) :
       focusedOutput' = s[1] /\ Install(s[2])
  /\ UNCHANGED <<plugged, powered, current, locked, configVars, pending>>

Plug(o) ==
  /\ Hotplug \in session.environment
  /\ o \in session.outputs \ plugged
  /\ plugged' = plugged \cup {o}
  /\ powered' = powered \cup {o}
  /\ enabled' = plugged' \cap powered'
  /\ \E s \in Settle([World EXCEPT !.plugged = plugged', !.powered = powered',
                                   !.enabled = enabled'], Pads) :
       focusedOutput' = s[1] /\ Install(s[2])
  /\ UNCHANGED <<current, locked, configVars, pending>>

\* Mutant: a launch still points to the output that left.
ForgottenKeepsDestination(o) == pending

Forgotten(o) ==
  [i \in DOMAIN pending |->
     [pending[i] EXCEPT !.destination = IF @ = o THEN NONE ELSE @]]

\* leme_output_handle_destroy, while another output is there: the shown member
\* hides, launches forget o, and the views of o join the successor.
Unplug(o, successor) ==
  /\ Hotplug \in session.environment
  /\ o \in plugged
  /\ successor \in plugged \ {o}
  /\ successor \notin enabled => enabled \subseteq {o}
  /\ plugged' = plugged \ {o}
  /\ powered' = powered \ {o}
  /\ enabled' = plugged' \cap powered'
  /\ current' = [current EXCEPT ![o] = CHOOSE id \in PinnedIds : TRUE]
  /\ pending' = Forgotten(o)
  /\ \E q \in IF shown # NONE /\ EffectiveOutput(owner[shown]) = o
              THEN Hide(World, Pads, shown, FALSE) ELSE {Pads} :
       LET moved == [q EXCEPT !.owner = [v \in Views |->
                       IF q.owner[v].kind = "tag" /\ q.owner[v].tag[1] = o
                       THEN TagOwner(<<successor, q.owner[v].tag[2]>>)
                       ELSE q.owner[v]]]
           w == [World EXCEPT
                   !.plugged = plugged', !.powered = powered',
                   !.enabled = enabled', !.current = current',
                   !.focusedOutput = IF @ = o THEN successor ELSE @]
       IN \E s \in Settle(w, moved) : focusedOutput' = s[1] /\ Install(s[2])
  /\ UNCHANGED <<locked, configVars>>

-----------------------------------------------------------------------------
Init ==
  /\ session \in Sessions
  /\ plugged = session.outputs /\ enabled = plugged /\ powered = Outputs
  /\ current = [o \in Outputs |-> CHOOSE id \in PinnedIds : TRUE]
  /\ focusedOutput \in plugged
  /\ locked = FALSE
  /\ definition \in Definitions
  /\ identity \in [Views -> Identities]
  /\ \A v \in Views \ session.views : identity[v] = CHOOSE i \in Identities : TRUE
  /\ owner = [v \in Views |-> NoOwner]
  /\ fullscreen = {}
  /\ claim = [v \in Views |-> NONE]
  /\ pool = <<>> /\ history = <<>> /\ pending = <<>>
  /\ shown = NONE /\ focusedView = NONE

Operations ==
  \/ Send
  \/ ToggleUnnamed
  \/ \E name \in session.names : ToggleNamed(name)
  \/ Retrieve
  \/ \E v \in session.views, o \in session.outputs, id \in TagIds : MapView(v, o, id)
  \/ \E v \in session.views : AdoptMap(v)
  \/ \E v \in session.views : UnmapView(v)
  \/ \E v \in session.views, i \in Identities : SetIdentity(v, i)
  \/ \E v \in session.views : SetFullscreen(v)
  \/ \E name \in session.names : PendingTimeout(name)
  \/ \E next \in Definitions : ReloadConfig(next)
  \/ Lock
  \/ Unlock
  \/ \E id \in TagIds : FocusTag(id)
  \/ \E o \in session.outputs : PointerMotion(o)
  \/ ToplevelActivate
  \/ \E o \in session.outputs : MoveShown(o)
  \/ \E o \in session.outputs, on \in BOOLEAN : SetPower(o, on)
  \/ \E heads \in SUBSET plugged : ManagerApply(heads)
  \/ \E o \in session.outputs : Plug(o)
  \/ \E o, successor \in session.outputs : Unplug(o, successor)

Next == UNCHANGED session /\ Operations

Spec == Init /\ [][Next]_vars
=============================================================================
