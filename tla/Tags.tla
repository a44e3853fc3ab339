-------------------------------- MODULE Tags --------------------------------
(***************************************************************************)
(* The tag table of one output: struct leme_tags of workspace/tag.c, as a  *)
(* record and the operations on it as operators from records to records.   *)
(*                                                                         *)
(* A table entry is either NULL or a tag, so the table is the set of ids   *)
(* that hold a tag (the MATERIALIZED ids).  Ids up to initial_tags are     *)
(* pinned; an id above it is adaptive: it is materialized while it holds a *)
(* view.  The focus may also rest on an id with no tag, which the record   *)
(* remembers in focused_is_candidate.  What a tag contains is kept by      *)
(* Workspace.  last_change_direction only picks the direction of an        *)
(* animation and is left out.                                              *)
(***************************************************************************)
EXTENDS Integers, FiniteSets

\* LEME_TAG_CHANGE_FORWARD and LEME_TAG_CHANGE_BACKWARD.
Forward == 1
Backward == -1
Directions == {Forward, Backward}

TagsType(limit) ==
  [ initial_tags : 1..limit, max_tags : 1..limit, table : SUBSET (1..limit),
    focused_id : 1..limit, focused_is_candidate : BOOLEAN,
    previous_id : 0..limit, previous_is_candidate : BOOLEAN,
    previous_valid : BOOLEAN ]

-----------------------------------------------------------------------------
(* Materialization                                                         *)

TagsInit(initial, maximum) ==
  [ initial_tags |-> initial, max_tags |-> maximum, table |-> 1..initial,
    focused_id |-> 1, focused_is_candidate |-> FALSE,
    previous_id |-> 0, previous_is_candidate |-> FALSE,
    previous_valid |-> FALSE ]

ValidId(t, id) == id \in 1..t.max_tags

\* An allocation failure leaves the table as it was, and every caller then
\* returns without a change.
Materialize(t, id) == [t EXCEPT !.table = @ \cup {id}]

\* Mutant: the candidate flag outlives the arrival of a view.
OccupyKeepsCandidate(t, id) == Materialize(t, id)

\* Materialize for a view that joins tag id: a focused candidate stops being
\* one.
Occupy(t, id) ==
  [Materialize(t, id) EXCEPT
     !.focused_is_candidate = IF id = t.focused_id THEN FALSE ELSE @]

\* Mutants: the tag goes while it still has views; the previous focus is not
\* told that its tag went.
PruneOccupied(t, id, empty) ==
  IF id <= t.initial_tags THEN t
  ELSE [t EXCEPT !.focused_is_candidate = @ \/ t.focused_id = id,
                 !.table = @ \ {id}]

PruneForgetsPrevious(t, id, empty) ==
  IF id <= t.initial_tags \/ ~empty THEN t
  ELSE [t EXCEPT !.focused_is_candidate = @ \/ t.focused_id = id,
                 !.table = @ \ {id}]

\* A tag that lost its last view leaves the table unless it is pinned; the
\* focus and the previous focus that rested on it become candidates.
PruneEmpty(t, id, empty) ==
  IF id <= t.initial_tags \/ ~empty THEN t
  ELSE [t EXCEPT
          !.focused_is_candidate = @ \/ t.focused_id = id,
          !.previous_is_candidate =
             @ \/ (t.previous_valid /\ t.previous_id = id),
          !.table = @ \ {id}]

-----------------------------------------------------------------------------
(* Navigation                                                              *)

SetFocusState(t, id, is_candidate) ==
  IF t.focused_id = id /\ t.focused_is_candidate = is_candidate THEN t
  ELSE [t EXCEPT
          !.previous_id = t.focused_id,
          !.previous_is_candidate = t.focused_is_candidate,
          !.previous_valid = TRUE,
          !.focused_id = id,
          !.focused_is_candidate = is_candidate]

\* leme_tags_focus_id and leme_tags_focus_id_direction.  Selecting the focused
\* id again only refreshes the candidate flag.
FocusId(t, id) ==
  IF ~ValidId(t, id) THEN t
  ELSE IF t.focused_id = id
       THEN [t EXCEPT !.focused_is_candidate = id \notin t.table]
       ELSE SetFocusState(t, id, id \notin t.table)

LastMaterialized(t) ==
  IF t.table = {} THEN 1
  ELSE CHOOSE id \in t.table : \A other \in t.table : other <= id

BackwardWrapId(t) ==
  IF LastMaterialized(t) < t.max_tags THEN LastMaterialized(t) + 1
                                      ELSE t.max_tags

\* Mutant: no wrap at the maximum.
NeighbourNoWrap(t, id, direction) ==
  IF direction = Forward THEN id + 1
  ELSE IF id = 1 THEN BackwardWrapId(t) ELSE id - 1

\* One step around the ids: forward from the maximum to 1, backward from 1 to
\* the id after the last materialized one.
Neighbour(t, id, direction) ==
  IF direction = Forward
  THEN IF id = t.max_tags THEN 1 ELSE id + 1
  ELSE IF id = 1 THEN BackwardWrapId(t) ELSE id - 1

AdjacentId(t, direction) == Neighbour(t, t.focused_id, direction)

\* The ids met by walking from `from`, and how far the first of `goal` is.
Walk(t, from, direction) ==
  LET walk[k \in 0..t.max_tags] ==
        IF k = 0 THEN from ELSE Neighbour(t, walk[k - 1], direction)
  IN walk

Met(t, from, direction, goal) ==
  {k \in 1..t.max_tags : Walk(t, from, direction)[k] \in goal}

FirstMet(t, from, direction, goal) ==
  Walk(t, from, direction)[CHOOSE k \in Met(t, from, direction, goal) :
                             \A other \in Met(t, from, direction, goal) :
                               k <= other]

\* Mutant: a candidate is left for the next id, materialized or not.
StepOneId(t, direction) ==
  LET id == AdjacentId(t, direction)
  IN SetFocusState(t, id, id \notin t.table)

\* From a candidate the step skips to the next materialized tag; from a
\* materialized tag it goes to the neighbouring id, candidate or not.
Step(t, direction) ==
  IF t.focused_is_candidate
  THEN IF Met(t, t.focused_id, direction, t.table) = {} THEN t
       ELSE SetFocusState(t, FirstMet(t, t.focused_id, direction, t.table),
                          FALSE)
  ELSE LET id == AdjacentId(t, direction)
       IN SetFocusState(t, id, id \notin t.table)

CanFocusLast(t) == t.previous_valid /\ ValidId(t, t.previous_id)

PreviousIsCandidate(t) ==
  t.previous_is_candidate /\ t.previous_id \notin t.table

\* The swap of the current and the previous focus; a previous id that has
\* neither a tag nor candidate status is forgotten instead.
FocusLast(t) ==
  IF ~CanFocusLast(t) THEN t
  ELSE IF ~PreviousIsCandidate(t) /\ t.previous_id \notin t.table
       THEN [t EXCEPT !.previous_valid = FALSE]
       ELSE [t EXCEPT
               !.focused_id = t.previous_id,
               !.focused_is_candidate = PreviousIsCandidate(t),
               !.previous_id = t.focused_id,
               !.previous_is_candidate = t.focused_is_candidate]

\* The ids a bar shows, and the ids a swipe may cross: the ring of a swipe
\* that starts on a materialized tag also offers the first free id in its
\* direction.
Navigable(t) ==
  t.table \cup (IF t.focused_is_candidate THEN {t.focused_id} ELSE {})

Ring(t, direction) ==
  LET free == 1..t.max_tags \ t.table IN
  Navigable(t) \cup
    (IF t.focused_is_candidate \/ Met(t, t.focused_id, direction, free) = {}
     THEN {} ELSE {FirstMet(t, t.focused_id, direction, free)})

-----------------------------------------------------------------------------
(* A reload that changes the maximum                                       *)

CanSetMax(t, maximum) == maximum # 0 /\ t.table \subseteq 1..maximum

PrepareSetMax(t, maximum) ==
  /\ CanSetMax(t, maximum)
  /\ t.focused_id > maximum => \E id \in 1..maximum : id \in t.table

\* Mutant: a focus above the new maximum stays there.
CommitSetMaxKeepsFocus(t, maximum) ==
  [t EXCEPT !.max_tags = maximum,
            !.previous_valid = @ /\ t.previous_id <= maximum]

CommitSetMax(t, maximum) ==
  LET forgotten == [t EXCEPT
                      !.max_tags = maximum,
                      !.previous_valid = @ /\ t.previous_id <= maximum]
  IN IF t.focused_id <= maximum THEN forgotten
     ELSE [forgotten EXCEPT
             !.focused_id = CHOOSE id \in t.table :
                              \A other \in t.table : id <= other,
             !.focused_is_candidate = FALSE]

-----------------------------------------------------------------------------
(* What the operations keep                                                *)

\* The pinned tags are allocated and no tag lies above the maximum.
TableSound(t) ==
  /\ t.initial_tags <= t.max_tags
  /\ 1..t.initial_tags \subseteq t.table
  /\ t.table \subseteq 1..t.max_tags
  /\ t.focused_id \in 1..t.max_tags

\* focused_is_candidate says exactly whether the focused id has no tag.
CandidateSound(t) == t.focused_is_candidate <=> t.focused_id \notin t.table

\* A remembered previous tag can be selected again: focus_last_tag finds it
\* materialized or a candidate, never forgotten.
PreviousSound(t) ==
  t.previous_valid =>
    /\ t.previous_id \in 1..t.max_tags
    /\ t.previous_id \in t.table \/ t.previous_is_candidate

\* The step of focus_next_tag and focus_previous_tag stays on the ring a
\* swipe in the same direction would show, and skips no member of it.
StepOnRing(t, direction) ==
  LET target == Step(t, direction).focused_id
      ring == Ring(t, direction)
      ahead == {id \in ring : id > t.focused_id}
      behind == {id \in ring : id < t.focused_id}
      low(S) == CHOOSE id \in S : \A other \in S : id <= other
      high(S) == CHOOSE id \in S : \A other \in S : other <= id
  IN target = IF direction = Forward
              THEN IF ahead # {} THEN low(ahead) ELSE low(ring)
              ELSE IF behind # {} THEN high(behind) ELSE high(ring)
=============================================================================
