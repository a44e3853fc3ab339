------------------------- MODULE MonitorsProperties -------------------------
(***************************************************************************)
(* What the outputs of Monitors are to do whatever a plan, the backend or  *)
(* a reconciliation makes of an operation.  Nothing is promised once a     *)
(* failed operation could not be taken back either.                        *)
(***************************************************************************)
EXTENDS Monitors

Sound == ~answer.lost

\* The state of output/output.c has the shape its declarations give it, and
\* places are C ints.
TypeOK ==
  /\ Listed(w) \subseteq All /\ Len(w.outputs) = Cardinality(Listed(w))
  /\ w.enabled \subseteq Listed(w) /\ w.powered \subseteq Listed(w)
  /\ w.scene \subseteq Listed(w) /\ w.rotated \subseteq Listed(w)
  /\ w.focused \in Listed(w) \cup {NONE}
  /\ \A o \in All : /\ w.at[o] \in (IntMin..IntMax) \X (IntMin..IntMax)
                    /\ w.laid[o] \in {Unplaced} \cup (IntMin..IntMax) \X (IntMin..IntMax)
  /\ w.config \in around.files
  /\ faults \in 0..MaxFaults

\* Two outputs that are on never share a point of the layout, and the layout
\* spans no more than a C int can say, whoever placed them: the plan of a
\* configuration, which rounds sizes the screen cuts, a client of the output
\* manager, or a wake (leme_output_heads_overlap, leme_output_request_valid,
\* leme_output_power_plan_overlaps).
NoOverlap ==
  Sound => \A a, b \in w.enabled : a # b => Compatible(Screen(w, a), Screen(w, b))

\* The layout, the scene and the box each output arranges windows in agree
\* with what the backend shows: the same outputs, at the places they were
\* given, and the focus on one of them if there is one
\* (leme_output_reconcile and the ways back from a failed one).
SceneAgrees ==
  Sound =>
    /\ w.scene = w.enabled
    /\ {o \in All : w.laid[o] # Unplaced} = w.enabled
    /\ \A o \in w.enabled : w.laid[o] = w.at[o] /\ w.full[o] = Screen(w, o)
    /\ w.enabled # {} => w.focused \in w.enabled

\* No part of a screen that is lit is outside the box that covers a locked
\* session (leme_render_session_resize, leme_session_prepare_output_wake).
LockCovers ==
  Sound /\ w.locked => \A o \in w.scene : Within(Screen(w, o), w.blocker)

\* Clients of the output manager were told of the outputs as they are
\* (leme_output_publish_configuration after each way out of an operation).
ManagerInformed ==
  Sound => w.published = Publish(w).published

\* The outputs, the layout, the scene, the cover of the lock and what clients
\* were told agree after every operation, those that fail half way included
\* (output/output.c).
ScreensSound ==
  TypeOK /\ SceneAgrees /\ LockCovers /\ ManagerInformed

-----------------------------------------------------------------------------
(* What an operation may do                                                *)

\* From the first connector on there is always an output for windows to be on:
\* no step takes the last one away, and the headless fallback is there exactly
\* while no connector is, however the configuration of what is left ends, in a
\* session that is lost too (leme_output_ensure_fallback,
\* leme_output_retire_fallback).
FallbackReady ==
  [][(w.outputs # <<>> \/ w'.outputs # <<>>) =>
       (Fallback \in Listed(w')) = (Listed(w') \cap Outputs = {})]_vars

\* What a reader of docs/configuration/outputs.md expects of a configuration:
\* the configured size at the nearest refresh, the position if there is one,
\* the relation to a positioned output, and otherwise a place to the right of
\* all that have one.
SizeOf(s, o) == LogicalSize(PlannedMode(s, s.config, o), Entry(s.config, o).scale,
                            Entry(s.config, o).rotated)

Nearest(s, o) ==
  LET wanted == Entry(s.config, o).mode
      sized == {i \in DOMAIN Modes[o] : /\ Modes[o][i].width = wanted.width
                                        /\ Modes[o][i].height = wanted.height}
  IN wanted # NoMode /\ sized # {} =>
       /\ \E i \in sized : Modes[o][i] = s.mode[o]
       /\ wanted.refresh = 0 => \A i \in sized : Modes[o][i].refresh <= s.mode[o].refresh

Beyond(s, o) ==
  \A other \in Listed(s) \ {o} :
    Entry(s.config, other).position # Unplaced =>
      s.at[o][1] >= Clamp(Entry(s.config, other).position[1] + SizeOf(s, other).width)

Positioned(s, o) ==
  LET entry == Entry(s.config, o)
      other == entry.relative_to
      anchor == Entry(s.config, other).position
  IN IF entry.position # Unplaced THEN s.at[o] = entry.position
     ELSE IF entry.relation = "none" \/ other \notin Listed(s) THEN Beyond(s, o)
     ELSE anchor # Unplaced =>
            CASE entry.relation = "left_of" ->
                   s.at[o] = <<Clamp(anchor[1] - SizeOf(s, o).width), anchor[2]>>
              [] entry.relation = "right_of" ->
                   s.at[o] = <<Clamp(anchor[1] + SizeOf(s, other).width), anchor[2]>>
              [] entry.relation = "top_of" ->
                   s.at[o] = <<anchor[1], Clamp(anchor[2] - SizeOf(s, o).height)>>
              [] entry.relation = "bottom_of" ->
                   s.at[o] = <<anchor[1], Clamp(anchor[2] + SizeOf(s, other).height)>>

\* A reload, a connector that comes and one that goes put every output back
\* where the configuration wants it, whatever clients of the output manager
\* made of it in the meantime, and none of them wakes an output that was
\* powered off (leme_output_apply_config; docs/configuration/outputs.md).
PolicyRestored ==
  [][answer'.what \in {"reload", "plug", "unplug"} /\ answer'.done =>
       /\ w'.enabled = w'.powered
       /\ \A o \in Listed(w)' : Positioned(w', o) /\ (o \in w'.enabled => Nearest(w', o))]_vars

\* Everything an operation can disturb about an output that is on.
Showing(s, o) ==
  [on |-> o \in s.enabled, at |-> s.at[o], laid |-> s.laid[o], drawn |-> o \in s.scene,
   mode |-> IF o \in s.enabled THEN <<s.mode[o], s.scale[o], o \in s.rotated, s.full[o]>>
            ELSE <<>>]

\* Waking an output, whether it works or not, leaves every other output as it
\* is, and an output that did not wake is as before (leme_output_set_power;
\* docs/troubleshooting/outputs.md, docs/guides/locking-and-idle.md).
WakeHarmless ==
  answer'.what = "wake" /\ ~answer'.lost =>
    \E o \in Listed(w) : \A other \in Listed(w) :
      other # o \/ ~answer'.done => Showing(w', other) = Showing(w, other)

\* A reload, a request of a client or a switch of the power that fails, at
\* whatever step, leaves every output, the configuration and, as long as an
\* output is on to have it, the focus as they were, if the backend can go back
\* (the ways back in leme_output_commit_and_reconcile and leme_output_set_power).
FailedKeeps ==
  answer'.what \in {"reload", "apply", "wake", "darken"} /\ ~answer'.done /\ ~answer'.lost =>
    /\ \A o \in Listed(w) : Showing(w', o) = Showing(w, o)
    /\ <<w.config, w.powered, w.published>>' = <<w.config, w.powered, w.published>>
    /\ w.focused \in w.enabled => w'.focused = w.focused

\* No operation that fails does harm, and a wake does none at all
\* (leme_output_commit_and_reconcile, leme_output_set_power).
FailuresHarmless == [][WakeHarmless /\ FailedKeeps]_vars

=============================================================================
