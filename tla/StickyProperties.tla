-------------------------- MODULE StickyProperties --------------------------
(***************************************************************************)
(* What must hold of sticky groups.                                        *)
(***************************************************************************)
EXTENDS Sticky

MembersOf(k) == Elements(w.groups[k].members)

\* Every sticky window is in one group, once; a group that is not waiting for an
\* output has its root first and every dialog after its parent; only one that
\* waits may have lost all its windows
\* (leme_sticky_commit_transient, _handle_unmap and _hide_pending_group).
GroupsSound ==
  /\ \A v \in Views : w.view[v].kind = "sticky" <=> GroupOf(w, v) # 0
  /\ \A j, k \in DOMAIN w.groups : j # k => MembersOf(j) \cap MembersOf(k) = {}
  /\ \A k \in DOMAIN w.groups :
       LET g == w.groups[k]
       IN /\ IsInjective(g.members) /\ (g.members = <<>> => g.pending)
          /\ g.pending <=> g.root = NONE
          /\ ~g.pending => g.members[1] = g.root /\ g.parent[g.root] = NONE
          /\ \A i \in DOMAIN g.members :
               LET p == g.parent[g.members[i]]
               IN p = NONE \/ \E j \in 1..(i - 1) : g.members[j] = p

\* A group stays together: its windows are on the same output, which is enabled,
\* or all of them are suspended; and it is suspended only while no output is
\* enabled, or after its root closed and the move to a tag failed.  A change of
\* outputs that failed is caught up with by the next one that succeeds
\* (leme_sticky_commit_outputs and leme_sticky_handle_output_destroy).
GroupsTogether ==
  \A k \in DOMAIN w.groups :
    /\ \A u, v \in MembersOf(k) : w.view[u].output = w.view[v].output
    /\ \A v \in MembersOf(k) :
         IF w.view[v].output = NONE
         THEN w.on = {} \/ w.failed \/ (w.groups[k].pending /\ "unmap" \in Faults)
         ELSE w.failed \/ w.view[v].output \in w.on

\* What is drawn agrees with what owns it: a sticky window is drawn exactly when
\* its group is presented (the scene nodes that _commit_outputs and _commit_transient switch).
DrawnAgrees ==
  \A v \in Views : w.view[v].kind = "sticky" => (w.view[v].shown <=> w.view[v].output # NONE)

\* What a move or an unplug left drawn of a hidden tag goes with the next change
\* of tag on its output, which draws what the new tag has and nothing else
\* (leme_tags_refresh_visibility in leme_tags_focus_id and leme_sticky_move_to_tag).
SwitchesClean ==
  \A o \in w'.on :
    asked'.op = "other" /\ w'.current[o] # w.current[o] =>
      \A v \in Views : w'.view[v].kind = "tag" /\ w'.view[v].output = o =>
        (w'.view[v].shown <=> v \in Showing(w', o))

\* The keyboard is never with a window that is suspended, not drawn or on an
\* output that is off (leme_sticky_hide_pending_group, leme_output_reconcile).
FocusReachable ==
  w.focused # NONE =>
    /\ w.view[w.focused].shown
    /\ w.failed \/ w.view[w.focused].output \in w.on

\* A presented window is anchored to the usable area of its output as it is now,
\* so that the next change of area moves it by the right amount (anchor_area).
AnchorsFresh ==
  \A v \in Views :
    w.view[v].kind = "sticky" /\ w.view[v].output \in w.on
    => w.view[v].anchor = Area(w, w.view[v].output)

\* Waking, plugging or unplugging an output never hands the keyboard to a sticky
\* window (docs/concepts/focus-and-movement.md; leme_output_reconcile).
NoStolenFocus ==
  asked'.op = "outputs"
  => w'.focused \in {NONE, w.focused} \/ w'.view[w'.focused].kind = "tag"

\* An output that is asked to wake, or plugged in, is enabled, unless memory runs
\* out (docs/reference/wayland-protocols.md; leme_output_set_power).
WakeSucceeds == asked.ok

\* The same as far as it is true: no group that has a window keeps an output from
\* being woken or plugged in, whatever it waits for (leme_sticky_prepare_outputs).
WakeUnlessEmpty ==
  asked.ok \/ \E k \in DOMAIN w.groups : w.groups[k].members = <<>>

\* The records of sticky windows: groups, scene nodes and anchors agree with the
\* owner of each window (shell/sticky.c).
StickySound == TypeOK /\ GroupsSound /\ DrawnAgrees /\ AnchorsFresh

\* Groups and outputs: a group is on one output that is on, and no group that has a
\* window keeps an output from being woken (leme_sticky_prepare_outputs,
\* _commit_outputs).
OutputsSound == GroupsTogether /\ WakeUnlessEmpty

\* No change of outputs hands the keyboard to a sticky window, and no change of tag
\* leaves windows of a hidden tag on the screen.
NothingStray == [][NoStolenFocus /\ SwitchesClean]_vars

=============================================================================
