------------------------------- MODULE Sticky -------------------------------
(***************************************************************************)
(* shell/sticky.c: windows that stay above every tag of their output, the  *)
(* dialogs that join them, and what happens to a group when its output is  *)
(* turned off, unplugged or comes back; with the part of output/output.c   *)
(* and shell/ownership.c that decides it.                                  *)
(*                                                                         *)
(* Boxes are left out, except for the area that a window is anchored to:   *)
(* the output it belongs to and whether a panel took a part of it.  The    *)
(* window a tag or the focus history remembers is left open: any of the    *)
(* candidates takes the focus.  Tag 1 is pinned, the others are adaptive.  *)
(*                                                                         *)
(* Surprises are steps that leave a state the code does not expect:        *)
(*   stray_focus   a focused group that was moved to another output, which *)
(*                 did not get the focus, becomes windows of a tag there;  *)
(*   twin_plans    a second group loses its root while windows of another  *)
(*                 wait for an output.                                     *)
(***************************************************************************)
EXTENDS Integers, FiniteSets, SequencesExt, Lists

CONSTANTS
  NONE,
  Views,
  Outputs,    \* the connectors
  Fallback,   \* the headless output, one of Outputs
  Tags,       \* the ids of the tags of every output
  Faults,     \* the preparations that may fail: "unmap", "outputs"
  Surprises,
  MaxPlugs,   \* bound: how often an output is plugged in
  MaxGroups,  \* bound: the groups there are at a time, the empty ones included
  MaxPanels   \* bound: the outputs that have a panel at a time

ASSUME StickyAssumption ==
  /\ NONE \notin Views \cup Outputs /\ Fallback \in Outputs
  /\ IsFiniteSet(Views) /\ 1 \in Tags /\ Tags \subseteq Nat
  /\ Faults \subseteq {"unmap", "outputs"}
  /\ Surprises \subseteq {"stray_focus", "twin_plans"}
  /\ MaxPlugs \in Nat \ {0} /\ MaxGroups \in Nat /\ MaxPanels \in Nat

VARIABLES
  w,     \* the windows, the groups, the outputs and their tags
  asked, \* history: whether outputs changed last, and as they were asked to
  plugs  \* history: how often an output was plugged in

vars == <<w, asked, plugs>>

\* The area a window is anchored to.
NoArea == <<NONE, FALSE>>
Gone == [kind |-> "none", output |-> NONE, tag |-> 0, shown |-> FALSE, anchor |-> NoArea]
Owned == [kind : {"none", "tag", "sticky"}, output : Outputs \cup {NONE},
          tag : Tags \cup {0}, shown : BOOLEAN,
          anchor : (Outputs \cup {NONE}) \X BOOLEAN]

TypeOK ==
  /\ w.list \in Seq(Outputs) /\ w.on \subseteq Elements(w.list) /\ w.power \subseteq Outputs
  /\ w.fo \in Elements(w.list) \cup {NONE}
  /\ w.current \in [Outputs -> Tags] /\ w.table \in [Outputs -> SUBSET Tags]
  /\ w.panel \subseteq Outputs
  /\ w.view \in [Views -> Owned] /\ w.focused \in Views \cup {NONE}
  /\ \A k \in DOMAIN w.groups :
       /\ w.groups[k].root \in Views \cup {NONE}
       /\ w.groups[k].members \in Seq(Views)
       /\ w.groups[k].parent \in [Views -> Views \cup {NONE}]
  /\ w.dead \in BOOLEAN /\ w.failed \in BOOLEAN /\ plugs \in 0..MaxPlugs
  /\ asked.op \in {"outputs", "other"} /\ asked.ok \in BOOLEAN

Area(s, o) == <<o, o \in s.panel>>
Members(s, o, t) == {v \in Views : s.view[v].kind = "tag" /\ s.view[v].output = o
                                   /\ s.view[v].tag = t}
\* The windows of the tag that an output shows; none for a candidate.
Showing(s, o) == IF s.current[o] \in s.table[o] THEN Members(s, o, s.current[o]) ELSE {}

\* leme_sticky_group: the group of a view, 0 for none.
GroupOf(s, v) ==
  LET at == {k \in DOMAIN s.groups : v \in Elements(s.groups[k].members)}
  IN IF at = {} THEN 0 ELSE CHOOSE k \in at : TRUE

\* leme_view_is_sticky, leme_sticky_is_dependent
IsSticky(s, v) == s.view[v].kind = "sticky" /\ GroupOf(s, v) # 0
IsDependent(s, v) == GroupOf(s, v) # 0 /\ s.groups[GroupOf(s, v)].root # v

\* leme_ownership_effective_output of a sticky view: NONE while suspended.
OutputOf(s, v) == IF v = NONE THEN NONE ELSE s.view[v].output

-----------------------------------------------------------------------------
(* Tags and focus.                                                         *)

\* leme_tags_prune_empty
Prune(s, o, t) ==
  IF t # 1 /\ o # NONE /\ Members(s, o, t) = {} THEN [s EXCEPT !.table[o] = @ \ {t}] ELSE s

\* Mutant: a refresh shows the windows of the tag and hides no others.
RefreshShows(s, o) ==
  LET shown == Showing(s, o)
      u == [s EXCEPT !.view = [v \in Views |->
              IF v \in shown THEN [@[v] EXCEPT !.shown = TRUE] ELSE @[v]]]
  IN IF s.fo # o THEN {u}
     ELSE IF shown = {} THEN {[u EXCEPT !.focused = NONE]}
     ELSE {[u EXCEPT !.focused = v] : v \in shown}

\* leme_tags_refresh_visibility: what may come of it.
Refresh(s, o) ==
  LET shown == Showing(s, o)
      u == [s EXCEPT !.view = [v \in Views |->
              IF @[v].kind = "tag" /\ @[v].output = o THEN [@[v] EXCEPT !.shown = v \in shown]
              ELSE @[v]]]
  IN IF s.fo # o THEN {u}
     ELSE IF shown = {} THEN {[u EXCEPT !.focused = NONE]}
     ELSE {[u EXCEPT !.focused = v] : v \in shown}

\* leme_tags_refresh_visibility of the focused output, if there is one
RefreshFocused(s) == IF s.fo = NONE THEN {s} ELSE Refresh(s, s.fo)

\* leme_sticky_focus_candidate
Candidates(s) ==
  {v \in Views : s.fo # NONE /\ IsSticky(s, v) /\ s.view[v].output = s.fo}

\* leme_view_refresh_tag_focus
RefreshTagFocus(s) ==
  UNION {IF u.focused # NONE \/ Candidates(u) = {} THEN {u}
         ELSE {[u EXCEPT !.focused = v] : v \in Candidates(u)} : u \in RefreshFocused(s)}

\* leme_output_set_focused
SetFocused(s, o) == IF o \in s.on THEN Refresh([s EXCEPT !.fo = o], o) ELSE {s}

\* leme_ownership_commit of views that go to a tag; the flags that show them stay.
Attach(s, vs, o, t) ==
  [s EXCEPT !.table[o] = @ \cup {t},
            !.view = [v \in Views |->
              IF v \in vs THEN [@[v] EXCEPT !.kind = "tag", !.output = o, !.tag = t,
                                            !.anchor = NoArea]
              ELSE @[v]]]

-----------------------------------------------------------------------------
(* Groups.                                                                 *)

DropGroup(s, k) == [s EXCEPT !.groups = RemoveAt(@, k)]

\* leme_ownership_present_durable and the scene node, for the windows of a group
Present(s, vs, o) ==
  [s EXCEPT !.view = [v \in Views |->
     IF v \in vs THEN [@[v] EXCEPT !.output = o, !.shown = o # NONE] ELSE @[v]]]
Anchor(s, vs, area) ==
  [s EXCEPT !.view = [v \in Views |-> IF v \in vs THEN [@[v] EXCEPT !.anchor = area] ELSE @[v]]]

\* The output whose area the group of v follows.
Followed(s, v) ==
  IF GroupOf(s, v) = 0 THEN NONE ELSE OutputOf(s, s.groups[GroupOf(s, v)].root)

\* Mutant: the dialogs do not follow the root.
FollowAreaRoot(s, outs) ==
  [s EXCEPT !.view = [v \in Views |->
     IF Followed(s, v) \in outs /\ s.groups[GroupOf(s, v)].root = v
     THEN [@[v] EXCEPT !.anchor = Area(s, Followed(s, v))] ELSE @[v]]]

\* leme_sticky_handle_usable_area, for every output of outs
FollowArea(s, outs) ==
  [s EXCEPT !.view = [v \in Views |->
     IF Followed(s, v) \in outs THEN [@[v] EXCEPT !.anchor = Area(s, Followed(s, v))] ELSE @[v]]]

\* leme_sticky_enter
Enter(s, v) ==
  LET o == s.view[v].output
      t == s.view[v].tag
      u == [s EXCEPT !.view[v] = [Gone EXCEPT !.kind = "sticky", !.output = o,
                                   !.shown = s.view[v].shown, !.anchor = Area(s, o)],
                     !.groups = <<[root |-> v, members |-> <<v>>,
                                   parent |-> [x \in Views |-> NONE],
                                   pending |-> FALSE]>> \o @]
  IN Prune(u, o, t)

\* Mutant: the group goes back to the tag its windows had.
SettleBack(s, v, t) ==
  LET k == GroupOf(s, v)
  IN DropGroup(Attach(s, Elements(s.groups[k].members), s.view[v].output, s.view[v].tag), k)

\* Mutant: the group goes to the first tag.
SettleFirst(s, v, t) ==
  LET k == GroupOf(s, v)
  IN DropGroup(Attach(s, Elements(s.groups[k].members), s.view[v].output, 1), k)

\* leme_sticky_leave and leme_sticky_move_to_tag: the group goes to a tag.
Settle(s, v, t) ==
  LET k == GroupOf(s, v)
  IN DropGroup(Attach(s, Elements(s.groups[k].members), s.view[v].output, t), k)

\* leme_sticky_descendant_tail: where the dialogs of p end in the list.
Tail_(g, p) ==
  LET descends[v \in Views] ==
        v # NONE /\ (g.parent[v] = p \/ (g.parent[v] # NONE /\ descends[g.parent[v]]))
      at == {i \in DOMAIN g.members : g.members[i] = p \/ descends[g.members[i]]}
  IN CHOOSE i \in at : \A j \in at : j <= i

\* The list of leme_sticky_commit_transient: v is a dialog of p, behind its others.
Linking(g, p, v) ==
  [g EXCEPT !.members = InsertAt(@, Tail_(g, p) + 1, v), !.parent[v] = p]

\* Mutant: a dialog is drawn although its group is suspended.
JoinShown(s, p, v) ==
  LET k == GroupOf(s, p)
      o == s.view[p].output
  IN [s EXCEPT !.view[v] = [Gone EXCEPT !.kind = "sticky", !.output = o, !.shown = TRUE,
                             !.anchor = IF o = NONE THEN s.view[p].anchor ELSE Area(s, o)],
               !.groups[k] = Linking(s.groups[k], p, v)]

\* leme_sticky_prepare_transient and leme_sticky_commit_transient
Join(s, p, v) ==
  LET k == GroupOf(s, p)
      o == s.view[p].output
  IN [s EXCEPT !.view[v] = [Gone EXCEPT !.kind = "sticky", !.output = o, !.shown = o # NONE,
                             !.anchor = IF o = NONE THEN s.view[p].anchor ELSE Area(s, o)],
               !.groups[k] = Linking(s.groups[k], p, v)]

\* The group of leme_sticky_hide_pending_group: the root v closed.
Waiting(g, v) ==
  [root |-> NONE, members |-> Without(g.members, v), parent |-> [x \in Views |-> NONE],
   pending |-> TRUE]

\* leme_sticky_hide_pending_group: the survivors wait for an output.
HidePending(s, k, v) ==
  LET rest == Elements(s.groups[k].members) \ {v}
      u == IF s.focused \in Elements(s.groups[k].members) THEN [s EXCEPT !.focused = NONE] ELSE s
  IN [Present(u, rest, NONE)
        EXCEPT !.groups[k] = Waiting(s.groups[k], v), !.view[v] = Gone]

\* The dialogs of a dialog that closes get its parent.
Leaving(g, v) ==
  [g EXCEPT !.members = Without(@, v),
            !.parent = [x \in Views |->
              IF x = v THEN NONE ELSE IF @[x] = v THEN g.parent[v] ELSE @[x]]]

\* Mutant: the dialogs of a dialog that closes keep it as their parent.
LeaveGroupOrphans(s, v) ==
  LET k == GroupOf(s, v)
  IN [s EXCEPT !.groups[k] = [@ EXCEPT !.members = Without(@, v)], !.view[v] = Gone]

\* leme_sticky_handle_unmap of a dependent
LeaveGroup(s, v) ==
  LET k == GroupOf(s, v)
  IN [s EXCEPT !.groups[k] = Leaving(s.groups[k], v), !.view[v] = Gone]

\* leme_sticky_handle_unmap: the dialogs of a root that closes go to the tag of
\* its output, or wait for an output when there is none or the move fails.
HandleUnmap(s, v, fails) ==
  LET k == GroupOf(s, v)
      g == s.groups[k]
      o == s.view[v].output
  IN IF k = 0 THEN s
     ELSE IF g.root # v THEN LeaveGroup(s, v)
     ELSE IF g.members = <<v>> THEN [DropGroup(s, k) EXCEPT !.view[v] = Gone]
     ELSE IF o = NONE \/ fails THEN HidePending(s, k, v)
     ELSE [DropGroup(Attach(s, Elements(g.members) \ {v}, o, s.current[o]), k)
             EXCEPT !.view[v] = Gone]

-----------------------------------------------------------------------------
(* Outputs change: a plan for every group, then the outputs, then the plan. *)

\* Mutant: a group stays on an output that goes off.
ChooseStays(s, on, o) ==
  LET usable == Selected(s.list, on)
  IN IF o # NONE THEN o ELSE IF s.fo \in on THEN s.fo
     ELSE IF usable = <<>> THEN NONE ELSE usable[1]

\* leme_sticky_choose_snapshot; `on' is the outputs that will be enabled.
Choose(s, on, o) ==
  LET usable == Selected(s.list, on)
  IN IF o \in on THEN o ELSE IF s.fo \in on THEN s.fo
     ELSE IF usable = <<>> THEN NONE ELSE usable[1]

\* leme_sticky_prepare_outputs: one entry for every group, in list order.
Plan(s, on) ==
  [k \in DOMAIN s.groups |->
     LET g == s.groups[k]
         o == Choose(s, on, OutputOf(s, g.root))
     IN [group |-> g, output |-> o, attach |-> g.pending /\ o # NONE,
         owned |-> o # NONE /\ s.current[o] \notin s.table[o],
         preserve_focus |-> /\ g.root # NONE /\ o # NONE
                            /\ s.focused \in Elements(g.members)]]

\* Mutant: a group without a root is refused.
PreparesRoots(s) == \A k \in DOMAIN s.groups : s.groups[k].root # NONE

\* A group without members has no views to prepare.
Prepares(s) == \A k \in DOMAIN s.groups : s.groups[k].members # <<>>

\* The first loop of leme_sticky_commit_outputs, for one entry; what may come of it.
PresentEntry(s, e) ==
  LET vs == Elements(e.group.members)
      p == Present(s, vs, e.output)
      a == IF e.output = NONE THEN p ELSE Anchor(p, vs, <<e.output, FALSE>>)
  IN IF e.attach THEN {s}
     ELSE IF e.output = NONE /\ s.focused \in vs THEN {[a EXCEPT !.focused = NONE]}
     ELSE IF e.preserve_focus THEN SetFocused(a, e.output)
     ELSE {a}

Presented(s, plan) ==
  LET step[k \in 0..Len(plan)] ==
        IF k = 0 THEN {s} ELSE UNION {PresentEntry(u, plan[k]) : u \in step[k - 1]}
  IN step[Len(plan)]

\* The second loop, for one entry: a pending group becomes windows of a tag.
\* The assertion of leme_tags_commit_materialize ends the program.
AttachEntry(s, e) ==
  LET vs == Elements(e.group.members)
      t == s.current[e.output]
  IN IF ~e.attach THEN s
     ELSE IF e.owned /\ t \in s.table[e.output] THEN [s EXCEPT !.dead = TRUE]
     ELSE Attach(Present(s, vs, e.output), vs, e.output, t)

Attached(s, plan) ==
  LET step[k \in 0..Len(plan)] == IF k = 0 THEN s ELSE AttachEntry(step[k - 1], plan[k])
      kept == {g \in Elements(s.groups) : ~g.pending \/ \E k \in DOMAIN plan :
                                             plan[k].group = g /\ ~plan[k].attach}
  IN [step[Len(plan)] EXCEPT !.groups = Selected(@, kept)]

\* leme_sticky_commit_outputs
CommitOutputs(s, plan) == {Attached(u, plan) : u \in Presented(s, plan)}

\* leme_output_reconcile after the groups are moved: another output gets the
\* focus if its output went, and the windows follow the areas.
Handover(s, on) ==
  LET first == Selected(s.list, on)
      f == IF s.fo \in on THEN s
           ELSE [s EXCEPT !.fo = IF first = <<>> THEN NONE ELSE first[1]]
  IN FollowArea(f, on)

\* Mutant: an output that gets the focus gives it to a sticky window.
ReconcileCandidate(s, on, plan) ==
  LET after(a) ==
        IF a.fo = s.fo THEN {a}
        ELSE IF a.fo = NONE THEN {[a EXCEPT !.focused = NONE]}
        ELSE RefreshTagFocus(a)
  IN UNION {after(Handover(u, on)) : u \in CommitOutputs([s EXCEPT !.on = on], plan)}

\* leme_output_reconcile, after the outputs of `on' are enabled
Reconcile(s, on, plan) ==
  LET after(a) ==
        IF a.fo = s.fo THEN {a}
        ELSE IF a.fo = NONE THEN {[a EXCEPT !.focused = NONE]}
        ELSE Refresh(a, a.fo)
  IN UNION {after(Handover(u, on)) : u \in CommitOutputs([s EXCEPT !.on = on], plan)}

\* leme_output_commit_and_reconcile and its callers: nothing changes when the
\* preparation fails.
Reconfigured(s, on, fails) ==
  IF fails \/ ~Prepares(s) THEN {[s EXCEPT !.failed = TRUE]}
  ELSE Reconcile([s EXCEPT !.failed = FALSE], on, Plan(s, on))

\* leme_output_apply_config: every output that has power is enabled.
ApplyConfig(s, fails) ==
  IF s.list = <<>> THEN {s} ELSE Reconfigured(s, s.power \cap Elements(s.list), fails)

\* leme_sticky_handle_output_destroy
OutputDestroyed(s, o, successor) ==
  LET hit == {k \in DOMAIN s.groups : OutputOf(s, s.groups[k].root) = o}
      vs == UNION {Elements(s.groups[k].members) : k \in hit}
      p == Present(s, vs, successor)
  IN IF successor = NONE
     THEN IF s.focused \in vs THEN [p EXCEPT !.focused = NONE] ELSE p
     ELSE Anchor(p, vs, Area(s, successor))

\* leme_output_surviving
Surviving(s, o) ==
  LET others == Without(s.list, o)
      lit == Selected(others, s.on)
  IN IF lit # <<>> THEN lit[1] ELSE IF others # <<>> THEN others[1] ELSE NONE

\* The start of leme_output_handle_new, and leme_output_init_tags
AddOutput(s, o) ==
  [s EXCEPT !.list = Append(@, o), !.power = @ \cup {o}, !.current[o] = 1, !.table[o] = {1}]

\* leme_output_migrate_views and the end of the tags of an output
Migrate(s, o, to) ==
  LET moved == {v \in Views : s.view[v].kind = "tag" /\ s.view[v].output = o}
  IN [s EXCEPT !.view = [v \in Views |->
                  IF v \in moved THEN [@[v] EXCEPT !.output = to] ELSE @[v]],
               !.table = [@ EXCEPT ![to] = s.table[to] \cup {s.view[v].tag : v \in moved},
                                   ![o] = {}]]

\* leme_output_handle_destroy; the preparation may fail for the headless output
\* that takes over, if it is the first, and for the outputs that are left.
Destroyed(s, o, first, fails) ==
  LET successor == Surviving(s, o)
      d == OutputDestroyed(s, o, successor)
      gone == [d EXCEPT !.list = Without(@, o), !.on = @ \ {o}, !.power = @ \ {o},
                        !.panel = @ \ {o}]
      left == IF successor # NONE THEN {gone} ELSE ApplyConfig(AddOutput(gone, Fallback), first)
  IN UNION {LET m == Migrate(u, o, Surviving(u, o))
            IN ApplyConfig(IF m.fo = o THEN [m EXCEPT !.fo = Surviving(u, o)] ELSE m, fails)
            : u \in left}

-----------------------------------------------------------------------------
(* What happens.                                                           *)

Become(s, op, ok) == w' = s /\ asked' = [op |-> op, ok |-> ok]
Quietly(S) == \E s \in S : Become(s, "other", TRUE) /\ UNCHANGED plugs

\* leme_view_map of a window without a sticky parent
Map(v) ==
  /\ w.view[v].kind = "none" /\ w.fo # NONE
  /\ LET o == w.fo
         t == w.current[o]
         s == [w EXCEPT !.view[v] = [Gone EXCEPT !.kind = "tag", !.output = o, !.tag = t],
                        !.table[o] = @ \cup {t}]
     IN Quietly({u \in Refresh(s, o) : u.focused = v})

\* leme_view_map of a dialog of a sticky window
MapDialog(p, v) ==
  /\ w.view[v].kind = "none" /\ IsSticky(w, p)
  /\ Quietly({Join(w, p, v)})

WindowsWait(g) == g.pending /\ g.members # <<>>

\* leme_view_unmap; the last window of a waiting group leaves it empty.
Unmap(v) ==
  /\ w.view[v].kind # "none"
  /\ \E fails \in {FALSE} \cup {b \in {TRUE} : "unmap" \in Faults} :
       LET s == HandleUnmap(w, v, fails)
           u == IF s.focused = v THEN [s EXCEPT !.focused = NONE] ELSE s
           t == Prune([u EXCEPT !.view[v] = Gone], u.view[v].output, u.view[v].tag)
       IN /\ Cardinality({k \in DOMAIN t.groups : WindowsWait(t.groups[k])}) > 1
             => "twin_plans" \in Surprises
          /\ Quietly(RefreshTagFocus(t))

\* The view that a command acts on: the root, for a dialog of a group.
Subject == IF w.focused # NONE /\ IsDependent(w, w.focused)
           THEN w.groups[GroupOf(w, w.focused)].root ELSE w.focused

\* The command toggle_sticky
ToggleSticky ==
  /\ Subject # NONE
  /\ IF IsSticky(w, Subject)
     THEN /\ w.view[Subject].output # NONE
          /\ w.view[Subject].output = w.fo \/ "stray_focus" \in Surprises
          /\ Quietly({Settle(w, Subject, w.current[w.view[Subject].output])})
     ELSE Len(w.groups) < MaxGroups /\ Quietly({Enter(w, Subject)})

\* The command move_view_to_tag, for a sticky window
MoveToTag(t, follow) ==
  /\ Subject # NONE /\ IsSticky(w, Subject) /\ w.view[Subject].output # NONE
  /\ LET o == w.view[Subject].output
         s == Settle(w, Subject, t)
     IN /\ ~follow /\ o # w.fo => "stray_focus" \in Surprises
        /\ Quietly(IF ~follow THEN {s}
                   ELSE {[u EXCEPT !.focused = w.focused] :
                           u \in SetFocused([s EXCEPT !.current[o] = t], o)})

\* leme_sticky_move_to_output: the command, or a drag that ends on another output
MoveToOutput(o, follow) ==
  /\ Subject # NONE /\ IsSticky(w, Subject) /\ w.view[Subject].output \notin {NONE, o}
  /\ o \in w.on \ {w.fo}
  /\ LET vs == Elements(w.groups[GroupOf(w, Subject)].members)
         s == Anchor(Present(w, vs, o), vs, Area(w, o))
     IN Quietly(IF follow THEN {[u EXCEPT !.focused = Subject] : u \in SetFocused(s, o)}
                ELSE {s})

\* The commands that change the current tag
FocusTag(t) ==
  /\ w.fo # NONE /\ t # w.current[w.fo]
  /\ Quietly(RefreshTagFocus([w EXCEPT !.current[w.fo] = t]))

\* A click, or a panel that activates a window
FocusView(v) ==
  /\ w.view[v].output \in w.on
  /\ IsSticky(w, v) \/ v \in Showing(w, w.view[v].output)
  /\ Quietly({[u EXCEPT !.focused = v] : u \in SetFocused(w, w.view[v].output)})

\* A panel takes a part of an output, or gives it back.
ArrangeLayers(o) ==
  /\ o \in w.on /\ (o \notin w.panel => Cardinality(w.panel) < MaxPanels)
  /\ LET s == [w EXCEPT !.panel = IF o \in @ THEN @ \ {o} ELSE @ \cup {o}]
     IN Quietly({FollowArea(s, {o})})

Failing == {FALSE} \cup {b \in {TRUE} : "outputs" \in Faults}

\* leme_output_set_power
SetPower(o, on) ==
  /\ o \in Elements(w.list) /\ on # (o \in w.on) /\ (~on => o # Fallback)
  /\ UNCHANGED plugs
  /\ \E fails \in Failing :
       LET enabled == IF on THEN w.on \cup {o} ELSE w.on \ {o}
       IN \E s \in Reconfigured(w, enabled, fails) :
            Become(IF s.on = enabled
                   THEN [s EXCEPT !.power = IF on THEN @ \cup {o} ELSE @ \ {o}] ELSE s,
                   "outputs", fails \/ s.on = enabled)

\* leme_output_handle_new and leme_output_retire_fallback, which fails by itself
Plug(o) ==
  /\ o \notin Elements(w.list) \cup {Fallback} /\ plugs < MaxPlugs
  /\ plugs' = plugs + 1
  /\ \E fails, late \in Failing : \E s \in ApplyConfig(AddOutput(w, o), fails) :
       \E u \in IF Fallback \in Elements(s.list) THEN Destroyed(s, Fallback, FALSE, late) ELSE {s} :
         Become(u, "outputs", fails \/ o \in u.on)

\* leme_output_handle_destroy
Unplug(o) ==
  /\ o \in Elements(w.list) \ {Fallback}
  /\ UNCHANGED plugs
  /\ \E first, fails \in Failing :
       /\ first => Surviving(w, o) = NONE
       /\ \E s \in Destroyed(w, o, first, fails) : Become(s, "outputs", TRUE)

-----------------------------------------------------------------------------
Init ==
  \E o \in Outputs \ {Fallback} :
    /\ w = [list |-> <<o>>, on |-> {o}, power |-> {o}, fo |-> o, panel |-> {},
            current |-> [p \in Outputs |-> 1],
            table |-> [p \in Outputs |-> IF p = o THEN {1} ELSE {}],
            view |-> [v \in Views |-> Gone], groups |-> <<>>, focused |-> NONE,
            dead |-> FALSE, failed |-> FALSE]
    /\ asked = [op |-> "other", ok |-> TRUE]
    /\ plugs = 1

Next ==
  /\ ~w.dead
  /\ \/ \E v \in Views : Map(v) \/ Unmap(v) \/ FocusView(v) \/ \E p \in Views : MapDialog(p, v)
     \/ ToggleSticky
     \/ \E t \in Tags : FocusTag(t) \/ \E follow \in BOOLEAN : MoveToTag(t, follow)
     \/ \E o \in Outputs :
          \/ \E follow \in BOOLEAN : MoveToOutput(o, follow)
          \/ ArrangeLayers(o) \/ Plug(o) \/ Unplug(o)
          \/ \E on \in BOOLEAN : SetPower(o, on)

Spec == Init /\ [][Next]_vars

=============================================================================
