------------------------ MODULE WorkspaceProperties ------------------------
(***************************************************************************)
(* The correctness properties of Workspace.                                *)
(***************************************************************************)
EXTENDS Workspace

\* Every table keeps its pinned tags, holds no tag above the maximum, and
\* focuses a valid id; the maximum of every live table is the configured one,
\* so the migration of views to another output never clamps an id.
TablesAgree ==
  \A o \in plugged : TableSound(tags[o]) /\ tags[o].max_tags = config.max_tags

\* Whatever a handler computes is an id, an output or a view, and the tables of
\* all outputs follow the configuration together: a reload resizes all of them
\* or none (leme_tags_commit_set_max, leme_output_init_tags).
TablesSound == TypeOK /\ TablesAgree

\* A mapped view belongs to a tag that is in the table of a plugged output:
\* no prune, unplug or reload frees the tag under a view.
OwnedTagInTable ==
  \A v \in Views : tag[v] # NONE =>
    tag[v][1] \in plugged /\ tag[v][2] \in tags[tag[v][1]].table

\* An adaptive tag exists only while it holds a view.
AdaptiveTagsOccupied ==
  \A o \in plugged : \A id \in tags[o].table :
    id > tags[o].initial_tags => Members(World, <<o, id>>) # {}

\* The view a tag remembers is one of its views.
TagFocusIsMember ==
  \A key \in Keys : tagFocus[key] # NONE => tag[tagFocus[key]] = key

\* The focused id of an output is marked as a candidate exactly while it has
\* no tag, so a view on it is never hidden behind an empty candidate.
CandidatesSound == \A o \in plugged : CandidateSound(tags[o])

\* The tag focus_last_tag would return to is still selectable.
PreviousTagsSound == \A o \in plugged : PreviousSound(tags[o])

\* focus_next_tag and focus_previous_tag go where a swipe in that direction
\* would go.
StepsOnRing ==
  \A o \in plugged : \A direction \in Directions :
    StepOnRing(tags[o], direction)

\* The focused view is on the current tag of the focused output.
FocusOnCurrentTag ==
  ~locked /\ focusedView # NONE =>
    focusedOutput # NONE /\ tag[focusedView] = Current(World, focusedOutput)

\* Nobody types into a window that is not on the screen, unless a fullscreen
\* window of its tag covers it.
FocusedViewOnScreen ==
  ~locked /\ focusedView # NONE =>
    \/ focusedView \in visible
    \/ \E f \in visible \cap fullscreen : tag[f] = tag[focusedView]

\* The keyboard is never left without a window when the current tag of the
\* focused output has one.
FocusWhenPossible ==
  ~locked /\ focusedOutput # NONE /\ CurrentMembers(World, focusedOutput) # {}
    => focusedView # NONE

\* No window of a hidden tag is drawn, on any output.
HiddenTagsHidden ==
  \A v \in visible : tag[v] # NONE /\ tag[v] = Current(World, tag[v][1])

\* The focused output shows all of its current tag, or one fullscreen view.
FocusedOutputShown ==
  ~locked /\ focusedOutput # NONE =>
    visible \cap CurrentMembers(World, focusedOutput)
      \in Presentations(World, focusedOutput)

\* The focused output is an enabled one, and there is one while an output is
\* enabled.
FocusedOutputEnabled ==
  /\ focusedOutput # NONE => focusedOutput \in enabled
  /\ enabled # {} => focusedOutput # NONE

\* What the screen shows after every handler: nothing of a hidden tag, the
\* whole current tag of the focused output or one fullscreen window of it, and
\* with it the window that has the keyboard
\* (leme_tags_refresh_visibility, which most handlers end in).
ScreenSound == HiddenTagsHidden /\ FocusedOutputShown /\ FocusedViewOnScreen

\* What an output can select: its candidate, the tag it would go back to and
\* its adaptive tags are right together, whatever was pruned, resized and
\* materialized (leme_tags_focus_id, leme_tags_prune_empty, leme_tags_commit_set_max).
SelectionSound == CandidatesSound /\ PreviousTagsSound /\ AdaptiveTagsOccupied

\* A window keeps its tag id when its output is unplugged or the fallback
\* retires: the successor's maximum never clamps it, whatever reloads happened
\* before.
IdsSurviveHotplug ==
  [][plugged' # plugged =>
       \A v \in Views : tag[v] # NONE =>
         tag'[v] # NONE /\ tag'[v][2] = tag[v][2]]_vars

-----------------------------------------------------------------------------
(* What the documentation says and the code does not do                    *)

\* A session with an output plugged in survives every command, also while
\* all of its outputs are powered off.
DarkSessionSurvives == crashed => plugged = {}
=============================================================================
