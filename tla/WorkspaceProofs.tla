-------------------------- MODULE WorkspaceProofs --------------------------
(***************************************************************************)
(* Proofs about Workspace for every set of outputs and views, every        *)
(* maximum and every configuration, in a session where no view reaches     *)
(* into another output, no client is activated across outputs and no panel *)
(* addresses a dark output (the runs on those features violate some of the *)
(* properties).                                                            *)
(***************************************************************************)
EXTENDS WorkspaceProperties, DataProofs

Confined ==
  Straddle \notin Features /\ Activation \notin Features /\ Dormant \notin Features

-----------------------------------------------------------------------------
(* The invariant.  The properties to prove do not carry themselves: a move *)
(* prunes the table of the focused output, so the tag a view leaves must   *)
(* be there, and this the keyboard focus has to guarantee.                 *)

WorldOK(w) ==
  /\ w.enabled \subseteq Outputs
  /\ w.tags \in [Outputs -> TagsType(MaxLimit)]
  /\ w.tag \in [Views -> Keys \cup {NONE}]
  /\ w.fullscreen \subseteq Views
  /\ w.locked \in BOOLEAN

ScreenType ==
  [ visible : SUBSET Views, tagFocus : [Keys -> Views \cup {NONE}],
    focusedView : Views \cup {NONE}, focusedOutput : Outputs \cup {NONE} ]

\* Every tag remembers one of its views and the focused view is mapped.
ScreenOK(w, s) ==
  /\ s \in ScreenType
  /\ \A key \in Keys : s.tagFocus[key] # NONE => w.tag[s.tagFocus[key]] = key
  /\ s.focusedView # NONE => w.tag[s.focusedView] # NONE

\* The focused view is on the focused output.
OnOutput(w, s) ==
  ~w.locked /\ s.focusedView # NONE => w.tag[s.focusedView][1] = s.focusedOutput

Settled(w, s) == ScreenOK(w, s) /\ OnOutput(w, s)

-----------------------------------------------------------------------------
(* The operators that settle the screen                                    *)

\* The members of the current tag belong to the output.
LEMMA CurrentMembersOwned ==
  ASSUME NEW w, WorldOK(w), NEW o \in Outputs, NEW v \in CurrentMembers(w, o)
  PROVE  v \in Views /\ w.tag[v] # NONE /\ w.tag[v][1] = o
BY KeysAssumption DEF CurrentMembers, Current, Members

\* leme_view_focus.
LEMMA FocusOnSettles ==
  ASSUME NEW w, WorldOK(w), NEW s, ScreenOK(w, s),
         NEW v \in Views, w.tag[v] # NONE
  PROVE  /\ ScreenOK(w, FocusOn(w, s, v))
         /\ FocusOn(w, s, v).focusedOutput = s.focusedOutput
         /\ w.tag[v][1] = s.focusedOutput => OnOutput(w, FocusOn(w, s, v))
<1>1. CASE w.locked
  BY <1>1 DEF FocusOn, OnOutput
<1>2. CASE ~w.locked
  <2> DEFINE key == w.tag[v]
             r == [s EXCEPT !.focusedView = v, !.tagFocus[key] = v]
  <2>1. key \in Keys
    BY DEF WorldOK
  <2>2. r = FocusOn(w, s, v)
    BY <1>2 DEF FocusOn
  <2>3. /\ r \in ScreenType
        /\ r.focusedView = v
        /\ r.focusedOutput = s.focusedOutput
        /\ r.tagFocus = [s.tagFocus EXCEPT ![key] = v]
    BY <2>1 DEF ScreenOK, ScreenType
  <2> HIDE DEF r
  <2>4. \A k \in Keys : r.tagFocus[k] # NONE => w.tag[r.tagFocus[k]] = k
    BY <2>1, <2>3 DEF ScreenOK, ScreenType
  <2>5. ScreenOK(w, r)
    BY <2>3, <2>4 DEF ScreenOK
  <2>6. key[1] = s.focusedOutput => OnOutput(w, r)
    BY <2>3 DEF OnOutput
  <2> QED
    BY <2>2, <2>3, <2>5, <2>6
<1> QED
  BY <1>1, <1>2

\* leme_view_clear_focus always settles the screen.
LEMMA ClearFocusSettles ==
  ASSUME NEW w, NEW s, ScreenOK(w, s)
  PROVE  /\ Settled(w, ClearFocus(s))
         /\ ClearFocus(s).focusedOutput = s.focusedOutput
BY ViewsAssumption DEF ScreenOK, ScreenType, ClearFocus, Settled, OnOutput

\* A refresh focuses only views of the output it refreshes.
LEMMA FocusTargetsOwned ==
  ASSUME NEW w, WorldOK(w), NEW s, ScreenOK(w, s), NEW o \in Outputs,
         NEW shown \in Presentations(w, o),
         NEW target \in FocusTargets(w, o, s, shown), target # NONE
  PROVE  target \in Views /\ w.tag[target] # NONE /\ w.tag[target][1] = o
<1>1. shown \subseteq CurrentMembers(w, o)
  BY DEF Presentations, Fullscreens
<1>2. CASE target \in shown
  BY <1>1, <1>2, CurrentMembersOwned
<1>3. CASE target \notin shown
  <2>1. /\ Current(w, o) # NONE
        /\ target = s.tagFocus[Current(w, o)]
    BY <1>3 DEF FocusTargets
  <2>2. Current(w, o) = <<o, w.tags[o].focused_id>>
    BY <2>1 DEF Current
  <2>3. Current(w, o) \in Keys
    BY <2>2 DEF WorldOK, Keys, Ids, TagsType
  <2> QED
    BY <2>1, <2>2, <2>3, KeysAssumption DEF ScreenOK, ScreenType, Keys, Ids
<1> QED
  BY <1>2, <1>3

\* leme_tags_refresh.
LEMMA RefreshSettles ==
  ASSUME NEW w, WorldOK(w), NEW s, ScreenOK(w, s), NEW o \in Outputs \cup {NONE},
         NEW r \in Refresh(w, o, s)
  PROVE  /\ ScreenOK(w, r)
         /\ r.focusedOutput = s.focusedOutput
         /\ OnOutput(w, s) \/ (o # NONE /\ s.focusedOutput = o) => OnOutput(w, r)
<1>1. CASE o = NONE
  BY <1>1 DEF Refresh
<1>2. CASE o # NONE
  <2>1. o \in Outputs
    BY <1>2
  <2>2. PICK shown \in Presentations(w, o) :
        \E target \in FocusTargets(w, o, s, shown) :
          r = RefreshTo(w, o, s, shown, target)
    BY <1>2, Zenon DEF Refresh
  <2>3. PICK target \in FocusTargets(w, o, s, shown) :
          r = RefreshTo(w, o, s, shown, target)
    BY <2>2
  <2> DEFINE drawn == [s EXCEPT !.visible =
                         (s.visible \ Reached(w, o)) \cup shown]
  <2>4. shown \subseteq Views
    BY <2>1, <2>2, CurrentMembersOwned DEF Presentations, Fullscreens
  <2>5. /\ drawn \in ScreenType
        /\ drawn.tagFocus = s.tagFocus
        /\ drawn.focusedView = s.focusedView
        /\ drawn.focusedOutput = s.focusedOutput
    <3> DEFINE V == (s.visible \ Reached(w, o)) \cup shown
    <3>1. V \in SUBSET Views
      BY <2>4 DEF ScreenOK, ScreenType
    <3> HIDE DEF V
    <3>2. [s EXCEPT !.visible = V] \in ScreenType
      BY <3>1 DEF ScreenOK, ScreenType
    <3> QED
      BY <3>2 DEF V, ScreenOK, ScreenType
  <2>6. r = IF s.focusedOutput # o THEN drawn
            ELSE IF target = NONE THEN ClearFocus(drawn)
            ELSE FocusOn(w, drawn, target)
    BY <2>3, Zenon DEF RefreshTo
  <2> HIDE DEF drawn
  <2>7. ScreenOK(w, drawn) /\ (OnOutput(w, s) => OnOutput(w, drawn))
    BY <2>5 DEF ScreenOK, OnOutput
  <2>8. CASE s.focusedOutput # o
    BY <2>5, <2>6, <2>7, <2>8
  <2>9. CASE s.focusedOutput = o /\ target = NONE
    BY <2>5, <2>6, <2>7, <2>9, ClearFocusSettles DEF Settled
  <2>10. CASE s.focusedOutput = o /\ target # NONE
    <3>1. target \in Views /\ w.tag[target] # NONE /\ w.tag[target][1] = o
      BY <2>1, <2>2, <2>3, <2>10, FocusTargetsOwned
    <3> QED
      BY <2>5, <2>6, <2>7, <2>10, <3>1, FocusOnSettles
  <2> QED
    BY <2>8, <2>9, <2>10
<1> QED
  BY <1>1, <1>2

\* leme_output_set_focused, for an enabled output and for any.
LEMMA FocusEnabledOutput ==
  ASSUME NEW w, WorldOK(w), NEW s, ScreenOK(w, s), NEW o \in Outputs,
         o \in w.enabled, NEW r \in SetFocused(w, o, s)
  PROVE  Settled(w, r) /\ r.focusedOutput = o
<1> DEFINE q == [s EXCEPT !.focusedOutput = o]
<1>1. /\ q \in ScreenType
      /\ q.tagFocus = s.tagFocus
      /\ q.focusedView = s.focusedView
      /\ q.focusedOutput = o
  BY DEF ScreenOK, ScreenType
<1>2. r \in Refresh(w, o, q)
  BY DEF SetFocused
<1> HIDE DEF q
<1>3. ScreenOK(w, q)
  BY <1>1 DEF ScreenOK
<1>4. o # NONE
  BY ViewsAssumption
<1> QED
  BY <1>1, <1>2, <1>3, <1>4, RefreshSettles DEF Settled

\* leme_output_set_focused settles the screen, also when the output is dark.
LEMMA SetFocusedSettles ==
  ASSUME NEW w, WorldOK(w), NEW s, Settled(w, s), NEW o \in Outputs,
         NEW r \in SetFocused(w, o, s)
  PROVE  /\ Settled(w, r)
         /\ r.focusedOutput = IF o \in w.enabled THEN o ELSE s.focusedOutput
<1>1. CASE o \notin w.enabled
  BY <1>1 DEF SetFocused
<1>2. CASE o \in w.enabled
  BY <1>2, FocusEnabledOutput DEF Settled
<1> QED
  BY <1>1, <1>2

\* leme_server_restore_keyboard_focus settles any focus of the keyboard.
LEMMA RestoreSettles ==
  ASSUME NEW w, WorldOK(w), NEW s, ScreenOK(w, s),
         NEW r \in RestoreKeyboardFocus(w, s)
  PROVE  Settled(w, r) /\ r.focusedOutput = s.focusedOutput
<1>1. CASE w.locked
  BY <1>1 DEF RestoreKeyboardFocus, Settled, OnOutput
<1>2. CASE ~w.locked /\ s.focusedOutput = NONE
  BY <1>2, ClearFocusSettles DEF RestoreKeyboardFocus
<1>3. CASE ~w.locked /\ s.focusedOutput # NONE
  <2>1. r \in Refresh(w, s.focusedOutput, s)
    BY <1>3 DEF RestoreKeyboardFocus, RefreshFocused
  <2>2. s.focusedOutput \in Outputs
    BY <1>3 DEF ScreenOK, ScreenType
  <2> QED
    BY <1>3, <2>1, <2>2, RefreshSettles DEF Settled
<1> QED
  BY <1>1, <1>2, <1>3

\* A refresh of the focused output settles the screen.
LEMMA RefreshFocusedSettles ==
  ASSUME NEW w, WorldOK(w), NEW s, ScreenOK(w, s),
         OnOutput(w, s) \/ s.focusedOutput # NONE,
         NEW r \in RefreshFocused(w, s)
  PROVE  Settled(w, r) /\ r.focusedOutput = s.focusedOutput
<1>1. s.focusedOutput \in Outputs \cup {NONE}
  BY DEF ScreenOK, ScreenType
<1> QED
  BY <1>1, RefreshSettles DEF RefreshFocused, Settled

\* Pointer motion over an enabled output that no view of another one covers.
LEMMA MotionSettles ==
  ASSUME Confined, NEW w, WorldOK(w), NEW s, Settled(w, s),
         NEW o \in Outputs, o \in w.enabled \/ o = s.focusedOutput,
         NEW r \in Motion(w, s, o)
  PROVE  /\ Settled(w, r)
         /\ r.focusedOutput = IF w.locked THEN s.focusedOutput ELSE o
<1>1. CASE w.locked
  BY <1>1 DEF Motion
<1>2. CASE ~w.locked
  <2> DEFINE followed == IF o = s.focusedOutput THEN {s} ELSE SetFocused(w, o, s)
  <2>1. \A q \in followed : Settled(w, q) /\ q.focusedOutput = o
    BY SetFocusedSettles
  <2>2. \A v \in Hit(w, s, o) : v \in Views /\ w.tag[v] # NONE /\ w.tag[v][1] = o
    <3>1. s.visible \subseteq Views
      BY DEF Settled, ScreenOK, ScreenType
    <3> QED
      BY <3>1, Zenon DEF Hit, Confined
  <2>3. r \in followed \/ \E q \in followed, v \in Hit(w, s, o) : r = FocusOn(w, q, v)
    BY <1>2 DEF Motion
  <2> HIDE DEF followed
  <2>4. CASE r \in followed
    BY <1>2, <2>1, <2>4
  <2>5. CASE \E q \in followed, v \in Hit(w, s, o) : r = FocusOn(w, q, v)
    <3>1. PICK q \in followed, v \in Hit(w, s, o) : r = FocusOn(w, q, v)
      BY <2>5
    <3> QED
      BY <1>2, <2>1, <2>2, <3>1, FocusOnSettles DEF Settled
  <2> QED
    BY <2>3, <2>4, <2>5
<1> QED
  BY <1>1, <1>2

\* The focused output is enabled, and there is one if one is enabled.
OutputSettled(w, s) ==
  /\ s.focusedOutput # NONE => s.focusedOutput \in w.enabled
  /\ w.enabled # {} => s.focusedOutput # NONE

\* The end of every handler that changes the enabled outputs.
LEMMA ReconcileSettles ==
  ASSUME NEW w, WorldOK(w), NEW s, Settled(w, s), NEW r \in Reconcile(w, s)
  PROVE  Settled(w, r) /\ OutputSettled(w, r)
<1>0. NONE \notin w.enabled
  BY ViewsAssumption DEF WorldOK
<1>1. CASE \/ s.focusedOutput \in w.enabled
           \/ s.focusedOutput = NONE /\ w.enabled = {}
  BY <1>0, <1>1 DEF Reconcile, OutputSettled
<1>2. CASE ~(\/ s.focusedOutput \in w.enabled
             \/ s.focusedOutput = NONE /\ w.enabled = {})
  <2> DEFINE F == IF w.enabled = {} THEN {NONE} ELSE w.enabled
  <2>1. PICK f \in F :
          r \in RestoreKeyboardFocus(w, [s EXCEPT !.focusedOutput = f])
    BY <1>2, Zenon DEF Reconcile
  <2> DEFINE q == [s EXCEPT !.focusedOutput = f]
  <2>2. f \in Outputs \cup {NONE}
    BY DEF WorldOK
  <2>3. /\ q \in ScreenType
        /\ q.tagFocus = s.tagFocus
        /\ q.focusedView = s.focusedView
        /\ q.focusedOutput = f
    BY <2>2 DEF Settled, ScreenOK, ScreenType
  <2>4. r \in RestoreKeyboardFocus(w, q)
    BY <2>1
  <2> HIDE DEF q
  <2>5. ScreenOK(w, q)
    BY <2>3 DEF Settled, ScreenOK
  <2> QED
    BY <1>0, <2>3, <2>4, <2>5, RestoreSettles DEF OutputSettled
<1> QED
  BY <1>1, <1>2

-----------------------------------------------------------------------------
(* The inductive invariant                                                 *)

OutputsOK ==
  /\ plugged \subseteq Outputs
  /\ enabled \subseteq plugged
  /\ powerOn \in [Outputs -> BOOLEAN]
  /\ config \in Configs
  /\ config.initial_tags <= config.max_tags
  /\ crashed \in BOOLEAN

ScreenInv == Settled(World, Screen) /\ OutputSettled(World, Screen)

SafetyInv ==
  /\ OutputsOK
  /\ WorldOK(World)
  /\ TablesAgree
  /\ OwnedTagInTable
  /\ ScreenInv

\* The invariant holds what the runs check.
LEMMA SafetyInvImplies ==
  ASSUME SafetyInv
  PROVE  /\ TypeOK
         /\ TagFocusIsMember
         /\ FocusedOutputEnabled
<1>1. TypeOK
  BY DEF SafetyInv, OutputsOK, WorldOK, ScreenInv, Settled, ScreenOK,
         ScreenType, World, Screen, TypeOK
<1>2. TagFocusIsMember
  BY DEF SafetyInv, ScreenInv, Settled, ScreenOK, World, Screen,
         TagFocusIsMember
<1>3. FocusedOutputEnabled
  BY DEF SafetyInv, ScreenInv, OutputSettled, World, Screen,
         FocusedOutputEnabled
<1> QED
  BY <1>1, <1>2, <1>3

\* Show makes a settled screen the current one.
LEMMA ShowSettles ==
  ASSUME NEW s, Settled(World', s), OutputSettled(World', s), Show(s)
  PROVE  ScreenInv'
<1>1. s \in ScreenType
  BY DEF Settled, ScreenOK
<1>2. Screen' = s
  BY <1>1 DEF Screen, Show, ScreenType
<1> QED
  BY <1>2 DEF ScreenInv

\* A table that is sound and keeps the tags of its views can take the place
\* of another.
LEMMA ReplaceTable ==
  ASSUME SafetyInv, NEW o \in plugged, NEW t, GoodTable(MaxLimit, t),
         t.max_tags = config.max_tags,
         \A v \in Views : tag[v] # NONE /\ tag[v][1] = o => tag[v][2] \in t.table,
         tags' = [tags EXCEPT ![o] = t],
         UNCHANGED <<outputVars, config, tag, fullscreen, locked, crashed>>
  PROVE  OutputsOK' /\ WorldOK(World') /\ TablesAgree' /\ OwnedTagInTable'
<1>1. tags \in [Outputs -> TagsType(MaxLimit)] /\ plugged \subseteq Outputs
  BY DEF SafetyInv, OutputsOK, WorldOK, World
<1>2. tags' \in [Outputs -> TagsType(MaxLimit)]
  BY <1>1 DEF GoodTable
<1>3. \A p \in Outputs : tags'[p] = IF p = o THEN t ELSE tags[p]
  BY <1>1
<1>4. OutputsOK'
  BY DEF SafetyInv, OutputsOK, outputVars
<1>5. WorldOK(World')
  BY <1>2 DEF SafetyInv, WorldOK, World, outputVars
<1>6. TablesAgree'
  BY <1>1, <1>3 DEF SafetyInv, TablesAgree, GoodTable, outputVars
<1>7. OwnedTagInTable'
  BY <1>1, <1>3 DEF SafetyInv, OwnedTagInTable, outputVars
<1> QED
  BY <1>4, <1>5, <1>6, <1>7

\* A screen stays settled while the views keep their tags.
LEMMA ScreenStaysSettled ==
  ASSUME SafetyInv, UNCHANGED <<tag, locked>>
  PROVE  /\ Settled(World', Screen)
         /\ UNCHANGED enabled => OutputSettled(World', Screen)
BY DEF SafetyInv, ScreenInv, Settled, ScreenOK, OnOutput, OutputSettled, World

\* A focused output is a plugged one.
LEMMA FocusedOutputPlugged ==
  ASSUME SafetyInv, focusedOutput # NONE
  PROVE  /\ focusedOutput \in enabled
         /\ focusedOutput \in plugged
         /\ focusedOutput \in Outputs
BY DEF SafetyInv, OutputsOK, ScreenInv, OutputSettled, World, Screen

\* The table of a plugged output satisfies GoodTable.
LEMMA PluggedTableGood ==
  ASSUME SafetyInv, NEW o \in plugged
  PROVE  GoodTable(MaxLimit, tags[o]) /\ tags[o].max_tags = config.max_tags
BY DEF SafetyInv, OutputsOK, TablesAgree, WorldOK, World, GoodTable

-----------------------------------------------------------------------------
(* Steps of the focused table and of the screen                            *)

\* A command that leaves the focused table good and keeps the ids that own a
\* view keeps the invariant.
LEMMA RetagSafe ==
  ASSUME SafetyInv, focusedOutput # NONE, NEW t, GoodTable(MaxLimit, t),
         t.max_tags = FocusedTags.max_tags,
         \A v \in Views : tag[v] # NONE /\ tag[v][1] = focusedOutput
                           => tag[v][2] \in t.table,
         Retag(t)
  PROVE  SafetyInv'
<1>1. focusedOutput \in plugged
  BY FocusedOutputPlugged
<1>2. t.max_tags = config.max_tags
  BY <1>1, PluggedTableGood DEF FocusedTags
<1>3. OutputsOK' /\ WorldOK(World') /\ TablesAgree' /\ OwnedTagInTable'
  BY <1>1, <1>2, ReplaceTable DEF Retag
<1>4. Settled(World', Screen) /\ OutputSettled(World', Screen)
  BY ScreenStaysSettled DEF Retag, outputVars
<1>5. PICK s \in RefreshFocused(World', Screen) : Show(s)
  BY DEF Retag
<1>6. Settled(World', s) /\ s.focusedOutput = Screen.focusedOutput
  BY <1>3, <1>4, <1>5, RefreshFocusedSettles DEF Settled
<1>7. OutputSettled(World', s)
  BY <1>4, <1>6 DEF OutputSettled
<1> QED
  BY <1>3, <1>5, <1>6, <1>7, ShowSettles DEF SafetyInv

\* A command that changes the focused id keeps the tags of all views.
LEMMA RetagKeepsTable ==
  ASSUME SafetyInv, focusedOutput # NONE, NEW t, GoodTable(MaxLimit, t),
         t.max_tags = FocusedTags.max_tags, t.table = FocusedTags.table,
         Retag(t)
  PROVE  SafetyInv'
<1>1. \A v \in Views : tag[v] # NONE /\ tag[v][1] = focusedOutput
                          => tag[v][2] \in t.table
  BY DEF SafetyInv, OwnedTagInTable, FocusedTags
<1> QED
  BY <1>1, RetagSafe

\* A step that only settles the screen again keeps the invariant.
LEMMA RedrawSafe ==
  ASSUME SafetyInv, NEW S, Redraw(S),
         \A s \in S : Settled(World, s) /\ OutputSettled(World, s)
  PROVE  SafetyInv'
<1>1. PICK s \in S : Show(s)
  BY DEF Redraw
<1>2. World' = World
  BY DEF Redraw, World, outputVars
<1>3. ScreenInv'
  BY <1>1, <1>2, ShowSettles
<1>4. OutputsOK' /\ TablesAgree' /\ OwnedTagInTable'
  BY DEF Redraw, SafetyInv, OutputsOK, TablesAgree, OwnedTagInTable, outputVars
<1> QED
  BY <1>2, <1>3, <1>4 DEF SafetyInv

\* The null dereference itself disturbs no other state.
LEMMA CrashSafe ==
  ASSUME SafetyInv, Crash
  PROVE  SafetyInv'
<1>1. World' = World /\ Screen' = Screen
  BY DEF Crash, World, Screen, outputVars, screenVars
<1>2. OutputsOK' /\ TablesAgree' /\ OwnedTagInTable'
  BY DEF Crash, SafetyInv, OutputsOK, TablesAgree, OwnedTagInTable, outputVars
<1> QED
  BY <1>1, <1>2 DEF SafetyInv, ScreenInv

\* A step that changes nothing keeps the invariant.
LEMMA StutterSafe ==
  ASSUME SafetyInv, UNCHANGED vars
  PROVE  SafetyInv'
<1>1. World' = World /\ Screen' = Screen
  BY DEF vars, World, Screen, outputVars, screenVars
<1>2. OutputsOK' /\ TablesAgree' /\ OwnedTagInTable'
  BY DEF vars, SafetyInv, OutputsOK, TablesAgree, OwnedTagInTable, outputVars
<1> QED
  BY <1>1, <1>2 DEF SafetyInv, ScreenInv

-----------------------------------------------------------------------------
(* One lemma per action                                                    *)

\* focus_next_tag and focus_previous_tag keep the invariant.
LEMMA FocusStepSafe ==
  ASSUME SafetyInv, NEW direction \in Directions, FocusStep(direction)
  PROVE  SafetyInv'
<1>1. CASE focusedOutput = NONE
  BY <1>1, CrashSafe DEF FocusStep
<1>2. CASE focusedOutput # NONE
  <2>1. GoodTable(MaxLimit, FocusedTags)
    BY <1>2, FocusedOutputPlugged, PluggedTableGood DEF FocusedTags
  <2>2. /\ GoodTable(MaxLimit, Step(FocusedTags, direction))
        /\ Step(FocusedTags, direction).table = FocusedTags.table
        /\ Step(FocusedTags, direction).max_tags = FocusedTags.max_tags
    BY <2>1, StepGood, LimitAssumption
  <2> QED
    BY <1>2, <2>2, RetagKeepsTable DEF FocusStep
<1> QED
  BY <1>1, <1>2

\* focus_tag keeps the invariant.
LEMMA FocusTagSafe ==
  ASSUME SafetyInv, NEW id \in Ids, FocusTag(id)
  PROVE  SafetyInv'
<1>1. CASE focusedOutput = NONE
  BY <1>1, CrashSafe DEF FocusTag
<1>2. CASE focusedOutput # NONE
  <2>1. GoodTable(MaxLimit, FocusedTags)
    BY <1>2, FocusedOutputPlugged, PluggedTableGood DEF FocusedTags
  <2>2. /\ GoodTable(MaxLimit, FocusId(FocusedTags, id))
        /\ FocusId(FocusedTags, id).table = FocusedTags.table
        /\ FocusId(FocusedTags, id).max_tags = FocusedTags.max_tags
    BY <2>1, FocusIdGood, LimitAssumption DEF Ids
  <2> QED
    BY <1>2, <2>2, RetagKeepsTable DEF FocusTag
<1> QED
  BY <1>1, <1>2

\* focus_last_tag keeps the invariant, also when it forgets the previous tag.
LEMMA FocusLastTagSafe ==
  ASSUME SafetyInv, FocusLastTag
  PROVE  SafetyInv'
<1>1. CASE focusedOutput = NONE
  BY <1>1, CrashSafe DEF FocusLastTag
<1>2. CASE focusedOutput # NONE
  <2> DEFINE t == FocusLast(FocusedTags)
  <2>1. /\ focusedOutput \in plugged
        /\ focusedOutput \in Outputs
        /\ GoodTable(MaxLimit, FocusedTags)
    BY <1>2, FocusedOutputPlugged, PluggedTableGood DEF FocusedTags
  <2>2. /\ GoodTable(MaxLimit, t)
        /\ t.table = FocusedTags.table
        /\ t.max_tags = FocusedTags.max_tags
    BY <2>1, FocusLastGood, LimitAssumption
  <2>3. CASE t.previous_valid
    <3>1. Retag(t)
      BY <1>2, <2>3 DEF FocusLastTag
    <3> HIDE DEF t
    <3> QED
      BY <1>2, <2>2, <3>1, RetagKeepsTable
  <2>4. CASE ~t.previous_valid
    <3>1. /\ tags' = [tags EXCEPT ![focusedOutput] = t]
          /\ UNCHANGED <<outputVars, config, tag, fullscreen, locked,
                         screenVars, crashed>>
      BY <1>2, <2>4 DEF FocusLastTag, FocusedTags
    <3> HIDE DEF t
    <3>2. t.max_tags = config.max_tags
      BY <2>1, <2>2, PluggedTableGood DEF FocusedTags
    <3>3. \A v \in Views : tag[v] # NONE /\ tag[v][1] = focusedOutput
                              => tag[v][2] \in t.table
      BY <2>2 DEF SafetyInv, OwnedTagInTable, FocusedTags
    <3>4. OutputsOK' /\ WorldOK(World') /\ TablesAgree' /\ OwnedTagInTable'
      BY <2>1, <2>2, <3>1, <3>2, <3>3, ReplaceTable
    <3>5. Settled(World', Screen) /\ OutputSettled(World', Screen)
      BY <3>1, ScreenStaysSettled DEF outputVars
    <3>6. Screen' = Screen
      BY <3>1 DEF Screen, screenVars
    <3> QED
      BY <3>4, <3>5, <3>6 DEF SafetyInv, ScreenInv
  <2> QED
    BY <2>3, <2>4
<1> QED
  BY <1>1, <1>2

\* remove_empty_tag frees no tag that owns a view.
LEMMA RemoveEmptyTagSafe ==
  ASSUME SafetyInv, NEW id \in Ids, RemoveEmptyTag(id)
  PROVE  SafetyInv'
<1>1. CASE focusedOutput = NONE
  BY <1>1, CrashSafe DEF RemoveEmptyTag
<1>2. CASE UNCHANGED vars
  BY <1>2, StutterSafe
<1>3. CASE focusedOutput # NONE /\ ~UNCHANGED vars
  <2> DEFINE t == PruneEmpty(FocusedTags, id, TRUE)
  <2>1. GoodTable(MaxLimit, FocusedTags)
    BY <1>3, FocusedOutputPlugged, PluggedTableGood DEF FocusedTags
  <2>2. /\ Members(World, <<focusedOutput, id>>) = {}
        /\ Retag(t)
    BY <1>3 DEF RemoveEmptyTag
  <2>3. /\ GoodTable(MaxLimit, t)
        /\ t.max_tags = FocusedTags.max_tags
        /\ FocusedTags.table \ {id} \subseteq t.table
    BY <2>1, PruneGood, LimitAssumption DEF Ids
  <2>4. ASSUME NEW v \in Views, tag[v] # NONE, tag[v][1] = focusedOutput
        PROVE  tag[v][2] \in FocusedTags.table \ {id}
    <3>1. tag[v][2] \in FocusedTags.table
      BY <2>4 DEF SafetyInv, OwnedTagInTable, FocusedTags
    <3>2. tag[v] = <<tag[v][1], tag[v][2]>>
      BY <2>4 DEF SafetyInv, WorldOK, World, Keys
    <3>3. tag[v] # <<focusedOutput, id>>
      BY <2>2 DEF Members, World
    <3> QED
      BY <2>4, <3>1, <3>2, <3>3
  <2> HIDE DEF t
  <2> QED
    BY <1>3, <2>2, <2>3, <2>4, RetagSafe
<1> QED
  BY <1>1, <1>2, <1>3

\* set_layout and switch_layout keep the invariant.
LEMMA SetLayoutSafe ==
  ASSUME SafetyInv, SetLayout
  PROVE  SafetyInv'
<1>1. focusedOutput # NONE /\ Retag(FocusedTags)
  BY DEF SetLayout
<1>2. GoodTable(MaxLimit, FocusedTags)
  BY <1>1, FocusedOutputPlugged, PluggedTableGood DEF FocusedTags
<1> QED
  BY <1>1, <1>2, RetagKeepsTable

\* Focusing a view of the focused output.
LEMMA FocusViewSafe ==
  ASSUME SafetyInv, NEW v \in Views, tag[v] # NONE, tag[v][1] = focusedOutput,
         Redraw({FocusOn(World, Screen, v)})
  PROVE  SafetyInv'
<1> DEFINE r == FocusOn(World, Screen, v)
<1>1. World.tag = tag /\ Screen.focusedOutput = focusedOutput
  BY DEF World, Screen
<1>2. Settled(World, r) /\ r.focusedOutput = Screen.focusedOutput
  BY <1>1, FocusOnSettles DEF SafetyInv, ScreenInv, Settled
<1>3. OutputSettled(World, r)
  BY <1>2 DEF SafetyInv, ScreenInv, OutputSettled
<1> HIDE DEF r
<1>4. Redraw({r})
  BY DEF r
<1> QED
  BY <1>2, <1>3, <1>4, RedrawSafe

\* The views of the current tag of the focused output are on that output.
LEMMA FocusedOutputMembers ==
  ASSUME SafetyInv, focusedOutput # NONE,
         NEW v \in CurrentMembers(World, focusedOutput)
  PROVE  v \in Views /\ tag[v] # NONE /\ tag[v][1] = focusedOutput
<1>1. WorldOK(World) /\ World.tag = tag
  BY DEF SafetyInv, World
<1> QED
  BY <1>1, FocusedOutputPlugged, CurrentMembersOwned

\* A directional focus keeps the invariant.
LEMMA FocusDirectionSafe ==
  ASSUME SafetyInv, NEW v \in Views, FocusDirection(v)
  PROVE  SafetyInv'
<1>1. v \in CurrentMembers(World, focusedOutput)
  BY DEF FocusDirection, Directional, Fullscreens
<1> QED
  BY <1>1, FocusedOutputMembers, FocusViewSafe DEF FocusDirection

\* focus_previous_view keeps the invariant.
LEMMA FocusPreviousViewSafe ==
  ASSUME SafetyInv, NEW v \in Views, FocusPreviousView(v)
  PROVE  SafetyInv'
BY FocusedOutputMembers, FocusViewSafe DEF FocusPreviousView

\* xdg-activation on the focused output keeps the invariant.
LEMMA DesktopActivateSafe ==
  ASSUME Confined, SafetyInv, NEW v \in Views, DesktopActivate(v)
  PROVE  SafetyInv'
BY FocusViewSafe DEF DesktopActivate, Confined

\* Focusing an enabled output settles the screen.
LEMMA ApproachSettles ==
  ASSUME SafetyInv, NEW o \in enabled, NEW s \in SetFocused(World, o, Screen)
  PROVE  /\ Settled(World, s)
         /\ OutputSettled(World, s)
         /\ s.focusedOutput = o
<1>1. World.enabled = enabled /\ WorldOK(World) /\ Settled(World, Screen)
  BY DEF SafetyInv, ScreenInv, World
<1>2. o \in Outputs /\ o # NONE
  BY ViewsAssumption DEF SafetyInv, OutputsOK
<1>3. Settled(World, s) /\ s.focusedOutput = o
  BY <1>1, <1>2, SetFocusedSettles
<1> QED
  BY <1>1, <1>2, <1>3 DEF OutputSettled

\* focus_output keeps the invariant.
LEMMA FocusOutputSafe ==
  ASSUME SafetyInv, NEW o \in Outputs, FocusOutput(o)
  PROVE  SafetyInv'
BY ApproachSettles, RedrawSafe DEF FocusOutput

\* A directional focus that crosses to another output keeps the invariant.
LEMMA FocusAcrossOutputsSafe ==
  ASSUME SafetyInv, NEW o \in Outputs, FocusAcrossOutputs(o)
  PROVE  SafetyInv'
<1> DEFINE Landed(s) ==
             IF Directional(World, s, o) = {} THEN {s}
             ELSE {FocusOn(World, s, v) : v \in Directional(World, s, o)}
           S == UNION {Landed(s) : s \in SetFocused(World, o, Screen)}
<1>1. o \in enabled /\ Redraw(S)
  BY DEF FocusAcrossOutputs
<1>2. ASSUME NEW r \in S
      PROVE  Settled(World, r) /\ OutputSettled(World, r)
  <2>1. PICK s \in SetFocused(World, o, Screen) : r \in Landed(s)
    BY <1>2
  <2>2. Settled(World, s) /\ OutputSettled(World, s) /\ s.focusedOutput = o
    BY <1>1, <2>1, ApproachSettles
  <2>3. CASE r = s
    BY <2>2, <2>3
  <2>4. CASE r # s
    <3>1. PICK v \in Directional(World, s, o) : r = FocusOn(World, s, v)
      BY <2>1, <2>4
    <3>2. v \in CurrentMembers(World, o)
      BY <3>1 DEF Directional, Fullscreens
    <3>3. v \in Views /\ World.tag[v] # NONE /\ World.tag[v][1] = o
      BY <3>2, CurrentMembersOwned DEF SafetyInv
    <3>4. Settled(World, r) /\ r.focusedOutput = o
      BY <2>2, <3>1, <3>3, FocusOnSettles DEF SafetyInv, Settled
    <3> QED
      BY <2>2, <3>4 DEF OutputSettled
  <2> QED
    BY <2>3, <2>4
<1> HIDE DEF S
<1> QED
  BY <1>1, <1>2, RedrawSafe

\* Focus that follows the pointer keeps the invariant when every view stays
\* within its output.
LEMMA PointerMotionSafe ==
  ASSUME Confined, SafetyInv, NEW o \in Outputs, PointerMotion(o)
  PROVE  SafetyInv'
<1>1. /\ World.enabled = enabled
      /\ World.locked = locked
      /\ WorldOK(World)
      /\ Settled(World, Screen)
  BY DEF SafetyInv, ScreenInv, World
<1>2. o \in enabled /\ ~locked /\ Redraw(Motion(World, Screen, o))
  BY DEF PointerMotion, CommandReady
<1>3. \A r \in Motion(World, Screen, o) :
        Settled(World, r) /\ r.focusedOutput = o
  BY <1>1, <1>2, MotionSettles
<1>4. \A r \in Motion(World, Screen, o) : OutputSettled(World, r)
  BY <1>1, <1>2, <1>3, ViewsAssumption DEF OutputSettled
<1> QED
  BY <1>2, <1>3, <1>4, RedrawSafe

-----------------------------------------------------------------------------
(* Requests that focus an output and one of its tags                       *)

\* The tables after a request selected tag id of a plugged output.
LEMMA SelectTagSafe ==
  ASSUME SafetyInv, NEW o \in plugged, NEW id \in Ids,
         tags' = [tags EXCEPT ![o] = FocusId(@, id)],
         UNCHANGED <<outputVars, config, tag, fullscreen, locked, crashed>>
  PROVE  OutputsOK' /\ WorldOK(World') /\ TablesAgree' /\ OwnedTagInTable'
<1> DEFINE t == FocusId(tags[o], id)
<1>1. GoodTable(MaxLimit, tags[o]) /\ tags[o].max_tags = config.max_tags
  BY PluggedTableGood
<1>2. GoodTable(MaxLimit, t) /\ t.table = tags[o].table /\ t.max_tags = config.max_tags
  BY <1>1, FocusIdGood, LimitAssumption DEF Ids
<1>3. tags' = [tags EXCEPT ![o] = t]
  OBVIOUS
<1>4. \A v \in Views : tag[v] # NONE /\ tag[v][1] = o => tag[v][2] \in t.table
  BY <1>2 DEF SafetyInv, OwnedTagInTable
<1> HIDE DEF t
<1> QED
  BY <1>2, <1>3, <1>4, ReplaceTable

\* The screen after the output of that tag was focused and refreshed.
LEMMA SelectTagSettles ==
  ASSUME SafetyInv, NEW o \in enabled,
         WorldOK(World'), UNCHANGED <<outputVars, tag, locked>>,
         NEW r \in Approach(o), NEW s \in RefreshFocused(World', r)
  PROVE  /\ Settled(World', s)
         /\ OutputSettled(World', s)
         /\ s.focusedOutput = o
<1>1. Settled(World, r) /\ OutputSettled(World, r) /\ r.focusedOutput = o
  BY ApproachSettles DEF Approach, SafetyInv, ScreenInv, Screen
<1>2. Settled(World', r) /\ OutputSettled(World', r)
  BY <1>1
  DEF Settled, ScreenOK, OnOutput, OutputSettled, World, outputVars
<1>3. Settled(World', s) /\ s.focusedOutput = o
  BY <1>1, <1>2, RefreshFocusedSettles DEF Settled
<1> QED
  BY <1>1, <1>2, <1>3 DEF OutputSettled

\* A panel's activation of a tag keeps the invariant.
LEMMA WorkspaceActivateSafe ==
  ASSUME Confined, SafetyInv, NEW o \in Outputs, NEW id \in Ids,
         WorkspaceActivate(o, id)
  PROVE  SafetyInv'
<1>1. o \in plugged /\ o \in enabled
  BY DEF WorkspaceActivate, Reachable, Confined
<1>2. OutputsOK' /\ WorldOK(World') /\ TablesAgree' /\ OwnedTagInTable'
  BY <1>1, SelectTagSafe DEF WorkspaceActivate
<1>3. PICK r \in Approach(o) : \E s \in RefreshFocused(World', r) : Show(s)
  BY DEF WorkspaceActivate
<1>4. PICK s \in RefreshFocused(World', r) : Show(s)
  BY <1>3
<1>5. Settled(World', s) /\ OutputSettled(World', s)
  BY <1>1, <1>2, <1>3, <1>4, SelectTagSettles DEF WorkspaceActivate
<1> QED
  BY <1>2, <1>4, <1>5, ShowSettles DEF SafetyInv

\* A panel's activation of a window keeps the invariant.
LEMMA ToplevelActivateSafe ==
  ASSUME Confined, SafetyInv, NEW v \in Views, ToplevelActivate(v)
  PROVE  SafetyInv'
<1> DEFINE o == tag[v][1]
           id == tag[v][2]
<1>1. /\ tag[v] # NONE
      /\ o \in plugged
      /\ id \in Ids
  BY DEF ToplevelActivate, SafetyInv, OwnedTagInTable, WorldOK, World, Keys
<1>2. CASE o = focusedOutput /\ tags[o].focused_id = id
  BY <1>1, <1>2, FocusViewSafe DEF ToplevelActivate
<1>3. CASE ~(o = focusedOutput /\ tags[o].focused_id = id)
  <2>1. /\ o \in enabled
        /\ tags' = [tags EXCEPT ![o] = FocusId(@, id)]
        /\ UNCHANGED <<outputVars, config, tag, fullscreen, locked, crashed>>
        /\ \E r \in Approach(o) :
           \E s \in RefreshFocused(World', r) : Show(FocusOn(World', s, v))
    BY <1>3 DEF ToplevelActivate, Reachable, Confined
  <2> HIDE DEF o, id
  <2>2. OutputsOK' /\ WorldOK(World') /\ TablesAgree' /\ OwnedTagInTable'
    BY <1>1, <2>1, SelectTagSafe
  <2>3. PICK r \in Approach(o) :
          \E s \in RefreshFocused(World', r) : Show(FocusOn(World', s, v))
    BY <2>1
  <2>4. PICK s \in RefreshFocused(World', r) : Show(FocusOn(World', s, v))
    BY <2>3
  <2>5. /\ Settled(World', s)
        /\ OutputSettled(World', s)
        /\ s.focusedOutput = o
    BY <2>1, <2>2, <2>3, <2>4, SelectTagSettles
  <2> DEFINE q == FocusOn(World', s, v)
  <2>6. World'.tag[v] # NONE /\ World'.tag[v][1] = o
    BY <1>1, <2>1 DEF World, o
  <2>7. Settled(World', q) /\ q.focusedOutput = o
    BY <2>2, <2>5, <2>6, FocusOnSettles DEF Settled
  <2>8. OutputSettled(World', q)
    BY <2>5, <2>7 DEF OutputSettled
  <2>9. Show(q)
    BY <2>4
  <2> HIDE DEF q
  <2> QED
    BY <2>2, <2>7, <2>8, <2>9, ShowSettles DEF SafetyInv
<1> QED
  BY <1>2, <1>3

-----------------------------------------------------------------------------
(* Views that come, go and change tags                                     *)

\* The tables after v joined tag id of o and, where it had one, left its old
\* tag on `source`.
LEMMA JoinTablesOK ==
  ASSUME SafetyInv, NEW v \in Views, NEW o \in plugged, NEW id \in Ids,
         NEW T, T \in [Outputs -> TagsType(MaxLimit)],
         \A p \in plugged : TableSound(T[p]) /\ T[p].max_tags = config.max_tags,
         id \in T[o].table,
         \A u \in Views \ {v} : tag[u] # NONE => tag[u][2] \in T[tag[u][1]].table,
         tags' = T, tag' = [tag EXCEPT ![v] = <<o, id>>],
         UNCHANGED <<outputVars, config, locked, crashed>>,
         fullscreen' \subseteq Views
  PROVE  OutputsOK' /\ WorldOK(World') /\ TablesAgree' /\ OwnedTagInTable'
<1>1. /\ tag \in [Views -> Keys \cup {NONE}]
      /\ plugged \subseteq Outputs
      /\ enabled \subseteq Outputs
      /\ locked \in BOOLEAN
  BY DEF SafetyInv, OutputsOK, WorldOK, World
<1>2. <<o, id>> \in Keys
  BY <1>1 DEF Keys
<1>3. tag' \in [Views -> Keys \cup {NONE}]
  BY <1>1, <1>2
<1>4. OutputsOK'
  BY DEF SafetyInv, OutputsOK, outputVars
<1>5. WorldOK(World')
  BY <1>1, <1>3 DEF WorldOK, World, outputVars
<1>6. TablesAgree'
  BY DEF TablesAgree, outputVars
<1>7. OwnedTagInTable'
  <2> SUFFICES ASSUME NEW u \in Views, tag'[u] # NONE
               PROVE  tag'[u][1] \in plugged /\ tag'[u][2] \in T[tag'[u][1]].table
    BY DEF OwnedTagInTable, outputVars
  <2>1. CASE u = v
    BY <1>1, <2>1
  <2>2. CASE u # v
    BY <1>1, <2>2 DEF SafetyInv, OwnedTagInTable
  <2> QED
    BY <2>1, <2>2
<1> QED
  BY <1>4, <1>5, <1>6, <1>7

\* A window that maps finds its tag in the table.
LEMMA MapViewSafe ==
  ASSUME SafetyInv, NEW v \in Views, NEW o \in Outputs, NEW id \in Ids,
         NEW full \in BOOLEAN, MapView(v, o, id, full)
  PROVE  SafetyInv'
<1> DEFINE T == [tags EXCEPT ![o] = Occupy(@, id)]
           key == <<o, id>>
<1>1. /\ tag \in [Views -> Keys \cup {NONE}]
      /\ tags \in [Outputs -> TagsType(MaxLimit)]
      /\ plugged \subseteq Outputs
      /\ enabled \subseteq plugged
      /\ fullscreen \subseteq Views
  BY DEF SafetyInv, OutputsOK, WorldOK, World
<1>2. /\ tag[v] = NONE
      /\ Destination(o, id)
      /\ tags' = T
      /\ tag' = [tag EXCEPT ![v] = key]
      /\ fullscreen' = IF full THEN fullscreen \cup {v} ELSE fullscreen
      /\ UNCHANGED <<outputVars, config, locked, crashed>>
  BY DEF MapView
<1>3. o \in plugged /\ id \in 1..tags[o].max_tags
  <2>1. CASE \E parent \in Views : tag[parent] = <<o, id>>
    <3>1. PICK parent \in Views : tag[parent] = <<o, id>>
      BY <2>1
    <3>2. tag[parent] # NONE
      BY <3>1, KeysAssumption DEF Ids
    <3>3. tag[parent][1] \in plugged /\ tag[parent][2] \in tags[tag[parent][1]].table
      BY <3>1, <3>2 DEF SafetyInv, OwnedTagInTable
    <3>4. o \in plugged /\ id \in tags[o].table
      BY <3>1, <3>3
    <3> QED
      BY <3>4 DEF SafetyInv, TablesAgree, TableSound
  <2>2. CASE o \in enabled /\ ValidId(tags[o], id)
    BY <1>1, <2>2 DEF ValidId
  <2> QED
    BY <1>2, <2>1, <2>2 DEF Destination
<1>4. /\ GoodTable(MaxLimit, Occupy(tags[o], id))
      /\ Occupy(tags[o], id).table = tags[o].table \cup {id}
      /\ Occupy(tags[o], id).max_tags = config.max_tags
  BY <1>3, PluggedTableGood, OccupyGood, LimitAssumption
<1>5. \A p \in Outputs : T[p] = IF p = o THEN Occupy(tags[o], id) ELSE tags[p]
  BY <1>1
<1>6. T \in [Outputs -> TagsType(MaxLimit)]
  BY <1>1, <1>4 DEF GoodTable
<1>7. \A p \in plugged : TableSound(T[p]) /\ T[p].max_tags = config.max_tags
  BY <1>1, <1>4, <1>5 DEF SafetyInv, TablesAgree, GoodTable
<1>8. \A u \in Views \ {v} : tag[u] # NONE => tag[u][2] \in T[tag[u][1]].table
  BY <1>1, <1>4, <1>5 DEF SafetyInv, OwnedTagInTable
<1>9. id \in T[o].table /\ fullscreen' \subseteq Views
  BY <1>1, <1>2, <1>4, <1>5
<1> HIDE DEF T
<1>10. OutputsOK' /\ WorldOK(World') /\ TablesAgree' /\ OwnedTagInTable'
  BY <1>2, <1>3, <1>6, <1>7, <1>8, <1>9, JoinTablesOK
<1>11. \A u \in Views : tag[u] # NONE => tag'[u] = tag[u]
  BY <1>1, <1>2
<1>12. Settled(World', Screen) /\ OutputSettled(World', Screen)
  <2>1. Settled(World, Screen) /\ OutputSettled(World, Screen)
    BY DEF SafetyInv, ScreenInv
  <2>2. World'.tag = tag' /\ World'.locked = locked /\ World'.enabled = enabled
    BY <1>2 DEF World, outputVars
  <2>3. World.tag = tag /\ World.locked = locked /\ World.enabled = enabled
    BY DEF World
  <2>4. NONE \notin Keys
    BY KeysAssumption DEF Keys, Ids
  <2>5. ScreenOK(World', Screen)
    BY <1>11, <2>1, <2>2, <2>3, <2>4 DEF Settled, ScreenOK, ScreenType
  <2>6. OnOutput(World', Screen)
    BY <1>11, <2>1, <2>2, <2>3 DEF Settled, ScreenOK, ScreenType, OnOutput
  <2>7. OutputSettled(World', Screen)
    BY <2>1, <2>2, <2>3 DEF OutputSettled
  <2> QED
    BY <2>5, <2>6, <2>7 DEF Settled
<1> DEFINE mapped == [World' EXCEPT !.fullscreen = fullscreen]
           placed == IF o = focusedOutput /\ Current(mapped, o) = <<o, id>>
                     THEN FocusOn(mapped, Screen, v) ELSE Screen
<1>13. PICK s \in Refresh(mapped, o, placed) :
         \E r \in IF full /\ v \notin fullscreen
                  THEN RefreshFocused(World', s) ELSE {s} : Show(r)
  BY DEF MapView
<1>14. PICK r \in IF full /\ v \notin fullscreen
                  THEN RefreshFocused(World', s) ELSE {s} : Show(r)
  BY <1>13
<1>15. /\ WorldOK(mapped)
       /\ mapped.tag = tag'
       /\ mapped.tag = World'.tag
       /\ mapped.locked = World'.locked
       /\ mapped.enabled = World'.enabled
  BY <1>1, <1>10 DEF WorldOK, World
<1> HIDE DEF mapped
<1>16. \A q : Settled(mapped, q) <=> Settled(World', q)
  BY <1>15 DEF Settled, ScreenOK, OnOutput
<1>17. Settled(mapped, placed) /\ placed.focusedOutput = Screen.focusedOutput
  <2>1. CASE placed = Screen
    BY <1>12, <1>16, <2>1
  <2>2. CASE o = focusedOutput /\ placed = FocusOn(mapped, Screen, v)
    <3>1. mapped.tag[v] = <<o, id>> /\ <<o, id>> # NONE
      BY <1>1, <1>2, <1>15, KeysAssumption DEF Ids
    <3>2. Screen.focusedOutput = o
      BY <2>2 DEF Screen
    <3>3. ScreenOK(mapped, Screen)
      BY <1>12, <1>16 DEF Settled
    <3>4. mapped.tag[v] # NONE /\ mapped.tag[v][1] = Screen.focusedOutput
      BY <3>1, <3>2
    <3> QED
      BY <1>15, <2>2, <3>3, <3>4, FocusOnSettles DEF Settled
  <2> QED
    BY <2>1, <2>2
<1> HIDE DEF placed
<1>18. Settled(mapped, s) /\ s.focusedOutput = Screen.focusedOutput
  BY <1>13, <1>15, <1>17, RefreshSettles DEF Settled
<1>19. Settled(World', r) /\ r.focusedOutput = Screen.focusedOutput
  BY <1>10, <1>14, <1>16, <1>18, RefreshFocusedSettles DEF Settled
<1>20. OutputSettled(World', r)
  BY <1>12, <1>19 DEF OutputSettled
<1> QED
  BY <1>10, <1>14, <1>19, <1>20, ShowSettles DEF SafetyInv

\* A window that unmaps takes an adaptive tag with it only when it was the
\* last, and no tag still remembers it.
LEMMA UnmapViewSafe ==
  ASSUME SafetyInv, NEW v \in Views, UnmapView(v)
  PROVE  SafetyInv'
<1> DEFINE o == tag[v][1]
           id == tag[v][2]
           empty == Others(v) = {}
           T == [tags EXCEPT ![o] = PruneEmpty(@, id, empty)]
<1>1. /\ tag \in [Views -> Keys \cup {NONE}]
      /\ tags \in [Outputs -> TagsType(MaxLimit)]
      /\ plugged \subseteq Outputs
      /\ enabled \subseteq Outputs
      /\ fullscreen \subseteq Views
      /\ locked \in BOOLEAN
  BY DEF SafetyInv, OutputsOK, WorldOK, World
<1>2. /\ tag[v] # NONE
      /\ tags' = T
      /\ tag' = [tag EXCEPT ![v] = NONE]
      /\ UNCHANGED <<outputVars, config, fullscreen, locked, crashed>>
  BY DEF UnmapView
<1>3. o \in plugged /\ id \in Ids /\ tag[v] = <<o, id>> /\ tag[v] \in Keys
  BY <1>1, <1>2 DEF SafetyInv, OwnedTagInTable, Keys
<1>4. /\ GoodTable(MaxLimit, PruneEmpty(tags[o], id, empty))
      /\ PruneEmpty(tags[o], id, empty).max_tags = config.max_tags
      /\ tags[o].table \ {id} \subseteq PruneEmpty(tags[o], id, empty).table
      /\ ~empty => PruneEmpty(tags[o], id, empty).table = tags[o].table
  <2>1. empty \in BOOLEAN
    OBVIOUS
  <2> HIDE DEF empty, o, id
  <2> QED
    BY <1>3, <2>1, PluggedTableGood, PruneGood, LimitAssumption DEF Ids
<1>5. \A p \in Outputs : T[p] = IF p = o THEN PruneEmpty(tags[o], id, empty)
                                ELSE tags[p]
  BY <1>1
<1>6. T \in [Outputs -> TagsType(MaxLimit)]
  BY <1>1, <1>3, <1>4 DEF GoodTable
<1>7. \A p \in plugged : TableSound(T[p]) /\ T[p].max_tags = config.max_tags
  BY <1>1, <1>4, <1>5 DEF SafetyInv, TablesAgree, GoodTable
<1>8. ASSUME NEW u \in Views \ {v}, tag[u] # NONE
      PROVE  tag[u][1] \in plugged /\ tag[u][2] \in T[tag[u][1]].table
  <2>1. tag[u][1] \in plugged /\ tag[u][2] \in tags[tag[u][1]].table
    BY <1>8 DEF SafetyInv, OwnedTagInTable
  <2>2. CASE tag[u] = tag[v]
    <3>1. ~empty
      BY <2>2 DEF Others
    <3> QED
      BY <1>1, <1>4, <1>5, <2>1, <2>2, <3>1
  <2>3. CASE tag[u] # tag[v]
    <3>1. tag[u] = <<tag[u][1], tag[u][2]>>
      BY <1>1, <1>8 DEF Keys
    <3>2. tag[u][1] = o => tag[u][2] # id
      BY <1>3, <2>3, <3>1
    <3> QED
      BY <1>1, <1>4, <1>5, <2>1, <3>2
  <2> QED
    BY <2>2, <2>3
<1> HIDE DEF T
<1>9. OutputsOK' /\ WorldOK(World') /\ TablesAgree' /\ OwnedTagInTable'
  <2>1. OutputsOK'
    BY <1>2 DEF SafetyInv, OutputsOK, outputVars
  <2>2. tag' \in [Views -> Keys \cup {NONE}]
    BY <1>1, <1>2
  <2>3. WorldOK(World')
    BY <1>1, <1>2, <1>6, <2>2 DEF WorldOK, World, outputVars
  <2>4. TablesAgree'
    BY <1>2, <1>7 DEF TablesAgree, outputVars
  <2>5. \A u \in Views : tag'[u] # NONE => u # v /\ tag'[u] = tag[u]
    BY <1>1, <1>2
  <2>6. OwnedTagInTable'
    BY <1>2, <1>8, <2>5 DEF OwnedTagInTable, outputVars
  <2> QED
    BY <2>1, <2>3, <2>4, <2>6
<1> DEFINE gone == [Screen EXCEPT
                      !.visible = @ \ {v},
                      !.focusedView = IF @ = v THEN NONE ELSE @]
           left == Forget(gone, v)
<1>10. PICK s \in RefreshFocused(World', left) : Show(s)
  BY DEF UnmapView
<1>11. Settled(World, Screen) /\ OutputSettled(World, Screen)
  BY DEF SafetyInv, ScreenInv
<1>12. /\ gone \in ScreenType
       /\ gone.tagFocus = tagFocus
       /\ gone.focusedView = IF focusedView = v THEN NONE ELSE focusedView
       /\ gone.focusedOutput = focusedOutput
  BY <1>11 DEF Settled, ScreenOK, ScreenType, Screen
<1> HIDE DEF gone
<1>13. /\ left \in ScreenType
       /\ left.tagFocus = [tagFocus EXCEPT ![tag[v]] = IF @ = v THEN NONE ELSE @]
       /\ left.focusedView = gone.focusedView
       /\ left.focusedOutput = focusedOutput
  BY <1>3, <1>12 DEF Forget, ScreenType
<1> HIDE DEF left
<1>14. World'.tag = tag' /\ World'.locked = locked /\ World'.enabled = enabled
  BY <1>2 DEF World, outputVars
<1>15. /\ tagFocus \in [Keys -> Views \cup {NONE}]
       /\ \A k \in Keys : tagFocus[k] # NONE => tag[tagFocus[k]] = k
       /\ focusedView \in Views \cup {NONE}
       /\ focusedView # NONE => tag[focusedView] # NONE
       /\ ~locked /\ focusedView # NONE => tag[focusedView][1] = focusedOutput
  BY <1>11 DEF Settled, ScreenOK, ScreenType, OnOutput, World, Screen
<1>16. ScreenOK(World', left)
  <2>1. \A k \in Keys : left.tagFocus[k] # NONE => tag'[left.tagFocus[k]] = k
    <3> SUFFICES ASSUME NEW k \in Keys, left.tagFocus[k] # NONE
                 PROVE  tag'[left.tagFocus[k]] = k
      OBVIOUS
    <3>1. left.tagFocus[k] = tagFocus[k] /\ tagFocus[k] \in Views
      BY <1>3, <1>13, <1>15
    <3>2. tagFocus[k] # v
      BY <1>3, <1>13, <1>15, <3>1
    <3> QED
      BY <1>1, <1>2, <1>15, <3>1, <3>2
  <2>2. left.focusedView # NONE => tag'[left.focusedView] # NONE
    BY <1>1, <1>2, <1>12, <1>13, <1>15
  <2> QED
    BY <1>13, <1>14, <2>1, <2>2 DEF ScreenOK
<1>17. OnOutput(World', left)
  BY <1>1, <1>2, <1>12, <1>13, <1>14, <1>15 DEF OnOutput
<1>18. Settled(World', s) /\ s.focusedOutput = focusedOutput
  BY <1>9, <1>10, <1>13, <1>16, <1>17, RefreshFocusedSettles
<1>19. OutputSettled(World', s)
  BY <1>11, <1>14, <1>18 DEF OutputSettled, World, Screen
<1> QED
  BY <1>9, <1>10, <1>18, <1>19, ShowSettles DEF SafetyInv

\* A change of fullscreen keeps the invariant.
LEMMA SetFullscreenSafe ==
  ASSUME SafetyInv, NEW v \in Views, SetFullscreen(v)
  PROVE  SafetyInv'
<1>1. /\ UNCHANGED <<outputVars, tags, config, tag, locked, crashed>>
      /\ fullscreen' \subseteq Views
  BY DEF SetFullscreen, SafetyInv, WorldOK, World
<1>2. OutputsOK' /\ TablesAgree' /\ OwnedTagInTable'
  BY <1>1 DEF SafetyInv, OutputsOK, TablesAgree, OwnedTagInTable, outputVars
<1>3. WorldOK(World')
  BY <1>1 DEF SafetyInv, WorldOK, World, outputVars
<1>4. Settled(World', Screen) /\ OutputSettled(World', Screen)
  BY <1>1, ScreenStaysSettled DEF outputVars
<1>5. PICK s \in RefreshFocused(World', Screen) : Show(s)
  BY DEF SetFullscreen
<1>6. Settled(World', s) /\ s.focusedOutput = Screen.focusedOutput
  BY <1>3, <1>4, <1>5, RefreshFocusedSettles DEF Settled
<1>7. OutputSettled(World', s)
  BY <1>4, <1>6 DEF OutputSettled
<1> QED
  BY <1>2, <1>3, <1>5, <1>6, <1>7, ShowSettles DEF SafetyInv

\* The tag a view leaves forgets it and the tag it joins remembers it.
LEMMA ArriveSettles ==
  ASSUME SafetyInv, NEW v \in Views, tag[v] # NONE, NEW key \in Keys,
         tag' = [tag EXCEPT ![v] = key], UNCHANGED locked
  PROVE  /\ ScreenOK(World', Arrive(Screen, v, key))
         /\ Arrive(Screen, v, key).focusedOutput = focusedOutput
         /\ Arrive(Screen, v, key).focusedView = focusedView
<1>1. /\ tag \in [Views -> Keys \cup {NONE}]
      /\ World.tag = tag
      /\ World'.tag = tag'
      /\ NONE \notin Keys
  BY KeysAssumption DEF SafetyInv, WorldOK, World, Keys, Ids
<1>2. /\ Screen \in ScreenType
      /\ Screen.tagFocus = tagFocus
      /\ Screen.focusedView = focusedView
      /\ Screen.focusedOutput = focusedOutput
      /\ tagFocus \in [Keys -> Views \cup {NONE}]
      /\ \A k \in Keys : tagFocus[k] # NONE => tag[tagFocus[k]] = k
      /\ focusedView \in Views \cup {NONE}
      /\ focusedView # NONE => tag[focusedView] # NONE
  BY DEF SafetyInv, ScreenInv, Settled, ScreenOK, ScreenType, World, Screen
<1>3. CASE tag[v] = key
  <2>1. tag' = tag
    BY <1>1, <1>3
  <2> QED
    BY <1>1, <1>2, <1>3, <2>1 DEF Arrive, ScreenOK
<1>4. CASE tag[v] # key
  <2> DEFINE left == Forget(Screen, v)
             r == [left EXCEPT !.tagFocus[key] = v]
  <2>1. Arrive(Screen, v, key) = r /\ tag[v] \in Keys
    BY <1>1, <1>4 DEF Arrive
  <2>2. /\ left \in ScreenType
        /\ left.tagFocus = [tagFocus EXCEPT ![tag[v]] = IF @ = v THEN NONE ELSE @]
        /\ left.focusedView = focusedView
        /\ left.focusedOutput = focusedOutput
    BY <1>2, <2>1 DEF Forget, ScreenType
  <2> HIDE DEF left
  <2>3. /\ r \in ScreenType
        /\ r.tagFocus = [left.tagFocus EXCEPT ![key] = v]
        /\ r.focusedView = focusedView
        /\ r.focusedOutput = focusedOutput
    BY <2>2 DEF ScreenType
  <2> HIDE DEF r
  <2>4. ASSUME NEW k \in Keys, r.tagFocus[k] # NONE
        PROVE  tag'[r.tagFocus[k]] = k
    <3>1. CASE k = key
      <4>1. r.tagFocus[k] = v
        BY <1>2, <2>2, <2>3, <3>1
      <4>2. tag'[v] = key
        BY <1>1
      <4> QED
        BY <3>1, <4>1, <4>2
    <3>2. CASE k # key
      <4>1. r.tagFocus[k] = left.tagFocus[k]
        BY <1>2, <2>2, <2>3, <3>2
      <4>2. left.tagFocus[k] = tagFocus[k] /\ tagFocus[k] \in Views
        BY <1>2, <2>1, <2>2, <2>4, <4>1
      <4>3. tagFocus[k] # v
        BY <1>2, <2>1, <2>2, <2>4, <4>1, <4>2
      <4>4. tag[tagFocus[k]] = k
        BY <1>2, <2>4, <4>1, <4>2
      <4>5. tag'[tagFocus[k]] = tag[tagFocus[k]]
        BY <1>1, <4>2, <4>3
      <4> QED
        BY <4>1, <4>2, <4>4, <4>5
    <3> QED
      BY <3>1, <3>2
  <2>5. r.focusedView # NONE => tag'[r.focusedView] # NONE
    BY <1>1, <1>2, <2>3
  <2> QED
    BY <1>1, <2>1, <2>3, <2>4, <2>5 DEF ScreenOK
<1> QED
  BY <1>3, <1>4

\* The keyboard focus makes leme_tags_move_view prune the right table.
LEMMA MovePrunesOwnTable ==
  ASSUME SafetyInv, ~locked, focusedView # NONE
  PROVE  /\ focusedView \in Views
         /\ tag[focusedView] \in Keys
         /\ tag[focusedView] # NONE
         /\ tag[focusedView] = <<focusedOutput, tag[focusedView][2]>>
         /\ focusedOutput \in Outputs
         /\ focusedOutput # NONE
         /\ tag[focusedView][2] \in Ids
<1>1. /\ focusedView \in Views
      /\ tag[focusedView] # NONE
      /\ tag[focusedView][1] = focusedOutput
  BY DEF SafetyInv, ScreenInv, Settled, ScreenOK, ScreenType, OnOutput, World,
         Screen
<1>2. tag[focusedView] \in Keys
  BY <1>1 DEF SafetyInv, WorldOK, World
<1> QED
  BY <1>1, <1>2, ViewsAssumption DEF Keys

\* The focused table after leme_tags_move_view.
LEMMA MoveViewGood ==
  ASSUME SafetyInv, ~locked, focusedView # NONE, NEW id \in Ids,
         ValidId(FocusedTags, id)
  PROVE  LET t == MoveView(FocusedTags, focusedView, id)
         IN /\ GoodTable(MaxLimit, t)
            /\ t.max_tags = config.max_tags
            /\ id \in t.table
            /\ \A u \in Views \ {focusedView} :
                 tag[u] # NONE /\ tag[u][1] = focusedOutput => tag[u][2] \in t.table
<1> DEFINE v == focusedView
           old == tag[v][2]
           empty == Others(v) = {}
           there == Materialize(FocusedTags, id)
           t == MoveView(FocusedTags, v, id)
<1>1. /\ v \in Views
      /\ tag[v] = <<focusedOutput, old>>
      /\ tag[v] # NONE
      /\ focusedOutput # NONE
      /\ focusedOutput \in plugged
      /\ old \in Ids
  BY MovePrunesOwnTable, FocusedOutputPlugged
<1>2. GoodTable(MaxLimit, FocusedTags) /\ FocusedTags.max_tags = config.max_tags
  BY <1>1, PluggedTableGood DEF FocusedTags
<1>3. \A u \in Views : tag[u] # NONE =>
        /\ tag[u] = <<tag[u][1], tag[u][2]>>
        /\ tag[u][1] = focusedOutput => tag[u][2] \in FocusedTags.table
  BY DEF SafetyInv, OwnedTagInTable, WorldOK, World, Keys, FocusedTags
<1>4. CASE tag[v] = <<focusedOutput, id>>
  BY <1>1, <1>2, <1>3, <1>4 DEF MoveView
<1>5. CASE tag[v] # <<focusedOutput, id>>
  <2>1. /\ GoodTable(MaxLimit, there)
        /\ there.table = FocusedTags.table \cup {id}
        /\ there.max_tags = config.max_tags
    BY <1>2, MaterializeGood, LimitAssumption DEF ValidId
  <2>2. t = PruneEmpty(there, old, empty) /\ empty \in BOOLEAN
    BY <1>5 DEF MoveView
  <2> HIDE DEF there, empty, t
  <2>3. /\ GoodTable(MaxLimit, t)
        /\ t.max_tags = config.max_tags
        /\ there.table \ {old} \subseteq t.table
        /\ ~empty => t.table = there.table
    BY <1>1, <2>1, <2>2, PruneGood, LimitAssumption, SMTT(60) DEF Ids
  <2>4. id # old
    BY <1>1, <1>5
  <2>5. id \in t.table
    BY <2>1, <2>3, <2>4
  <2>6. ASSUME NEW u \in Views \ {v}, tag[u] # NONE, tag[u][1] = focusedOutput
        PROVE  tag[u][2] \in t.table
    <3>1. tag[u][2] \in there.table
      BY <1>3, <2>1, <2>6
    <3>2. CASE tag[u][2] = old
      <4>1. tag[u] = tag[v]
        BY <1>1, <1>3, <2>6, <3>2
      <4>2. ~empty
        BY <4>1 DEF empty, Others
      <4> QED
        BY <2>3, <3>1, <4>2
    <3>3. CASE tag[u][2] # old
      BY <2>3, <3>1, <3>3
    <3> QED
      BY <3>2, <3>3
  <2> QED
    BY <2>3, <2>5, <2>6 DEF t
<1> QED
  BY <1>4, <1>5

\* A move prunes the source from the focused output's table; the focused view
\* is on that output, so no other view loses its tag.
LEMMA MoveViewToTagSafe ==
  ASSUME SafetyInv, NEW id \in Ids, NEW follow \in BOOLEAN,
         MoveViewToTag(id, follow)
  PROVE  SafetyInv'
<1> DEFINE v == focusedView
           o == focusedOutput
           key == <<o, id>>
           moved == MoveView(FocusedTags, v, id)
           t == IF follow THEN FocusId(moved, id) ELSE moved
           T == [tags EXCEPT ![o] = t]
<1>1. ~locked /\ v # NONE
  BY DEF MoveViewToTag, CommandReady
<1>2. v \in Views /\ tag[v] # NONE /\ o # NONE /\ o \in Outputs /\ o \in plugged
  BY <1>1, MovePrunesOwnTable, FocusedOutputPlugged
<1>3. /\ ValidId(FocusedTags, id)
      /\ tags' = T
      /\ tag' = [tag EXCEPT ![v] = key]
      /\ UNCHANGED <<outputVars, config, fullscreen, locked, crashed>>
      /\ \E s \in RefreshFocused(World', Arrive(Screen, v, key)) :
           Show(IF follow THEN FocusOn(World', s, v) ELSE s)
  BY <1>2 DEF MoveViewToTag
<1>4. /\ GoodTable(MaxLimit, moved)
      /\ moved.max_tags = config.max_tags
      /\ id \in moved.table
      /\ \A u \in Views \ {v} :
           tag[u] # NONE /\ tag[u][1] = o => tag[u][2] \in moved.table
  BY <1>1, <1>3, MoveViewGood
<1> HIDE DEF moved
<1>5. GoodTable(MaxLimit, t) /\ t.max_tags = config.max_tags /\ t.table = moved.table
  BY <1>4, FocusIdGood, LimitAssumption DEF Ids
<1> HIDE DEF t
<1>6. /\ tags \in [Outputs -> TagsType(MaxLimit)]
      /\ tag \in [Views -> Keys \cup {NONE}]
      /\ plugged \subseteq Outputs
      /\ fullscreen \subseteq Views
  BY DEF SafetyInv, OutputsOK, WorldOK, World
<1>7. \A p \in Outputs : T[p] = IF p = o THEN t ELSE tags[p]
  BY <1>6
<1>8. T \in [Outputs -> TagsType(MaxLimit)]
  BY <1>5, <1>6 DEF GoodTable
<1>9. \A p \in plugged : TableSound(T[p]) /\ T[p].max_tags = config.max_tags
  BY <1>5, <1>6, <1>7 DEF SafetyInv, TablesAgree, GoodTable
<1>10. ASSUME NEW u \in Views \ {v}, tag[u] # NONE
       PROVE  tag[u][2] \in T[tag[u][1]].table
  <2>1. tag[u][1] \in plugged /\ tag[u][2] \in tags[tag[u][1]].table
    BY <1>10 DEF SafetyInv, OwnedTagInTable
  <2>2. CASE tag[u][1] = o
    BY <1>2, <1>4, <1>5, <1>7, <1>10, <2>2
  <2>3. CASE tag[u][1] # o
    BY <1>6, <1>7, <2>1, <2>3
  <2> QED
    BY <2>2, <2>3
<1>11. id \in T[o].table
  BY <1>2, <1>4, <1>5, <1>7
<1> HIDE DEF T
<1>12. OutputsOK' /\ WorldOK(World') /\ TablesAgree' /\ OwnedTagInTable'
  BY <1>2, <1>3, <1>6, <1>8, <1>9, <1>10, <1>11, JoinTablesOK
<1> DEFINE a == Arrive(Screen, v, key)
<1>13. key \in Keys
  BY <1>2 DEF Keys
<1>14. ScreenOK(World', a) /\ a.focusedOutput = o /\ a.focusedView = v
  BY <1>2, <1>3, <1>13, ArriveSettles
<1>15. PICK s \in RefreshFocused(World', a) :
         Show(IF follow THEN FocusOn(World', s, v) ELSE s)
  BY <1>3
<1> HIDE DEF a
<1>16. Settled(World', s) /\ s.focusedOutput = o
  BY <1>2, <1>12, <1>14, <1>15, RefreshFocusedSettles
<1> DEFINE r == IF follow THEN FocusOn(World', s, v) ELSE s
<1>17. World'.tag[v] # NONE /\ World'.tag[v][1] = o
  <2>1. World'.tag = tag' /\ tag'[v] = key
    BY <1>2, <1>3, <1>6 DEF World
  <2> QED
    BY <2>1, KeysAssumption, <1>2 DEF Ids
<1>18. Settled(World', r) /\ r.focusedOutput = o
  BY <1>2, <1>12, <1>16, <1>17, FocusOnSettles DEF Settled
<1>19. OutputSettled(World', r)
  BY <1>2, <1>3, <1>18, FocusedOutputPlugged
  DEF OutputSettled, World, outputVars
<1>20. Show(r)
  BY <1>15
<1> HIDE DEF r
<1> QED
  BY <1>12, <1>18, <1>19, <1>20, ShowSettles DEF SafetyInv

\* Whether a screen is settled depends on the tags of the views and the lock.
LEMMA SettledCongruence ==
  ASSUME NEW w, NEW x, x.tag = w.tag, x.locked = w.locked, NEW s, Settled(w, s)
  PROVE  Settled(x, s)
BY DEF Settled, ScreenOK, OnOutput

\* A move to another output keeps the tags of all other views.
LEMMA MoveViewToOutputSafe ==
  ASSUME SafetyInv, NEW o \in Outputs, NEW follow \in BOOLEAN,
         MoveViewToOutput(o, follow)
  PROVE  SafetyInv'
<1> DEFINE v == focusedView
           home == tag[v][1]
           old == tag[v][2]
           id == tags[o].focused_id
           key == <<o, id>>
           empty == Others(v) = {}
           there == Occupy(tags[o], id)
           here == PruneEmpty(tags[home], old, empty)
           T == [tags EXCEPT ![o] = there, ![home] = here]
<1>1. ~locked /\ v # NONE /\ o \in enabled /\ o # focusedOutput /\ o # home
  BY DEF MoveViewToOutput, CommandReady
<1>2. /\ v \in Views
      /\ tag[v] # NONE
      /\ tag[v] = <<home, old>>
      /\ home = focusedOutput
      /\ home \in Outputs
      /\ home \in plugged
      /\ home # NONE
      /\ old \in Ids
  BY <1>1, MovePrunesOwnTable, FocusedOutputPlugged
<1>3. /\ tags \in [Outputs -> TagsType(MaxLimit)]
      /\ tag \in [Views -> Keys \cup {NONE}]
      /\ plugged \subseteq Outputs
      /\ enabled \subseteq plugged
      /\ fullscreen \subseteq Views
  BY DEF SafetyInv, OutputsOK, WorldOK, World
<1>4. /\ tags' = T
      /\ tag' = [tag EXCEPT ![v] = key]
      /\ UNCHANGED <<outputVars, config, fullscreen, locked, crashed>>
  BY DEF MoveViewToOutput
<1>5. o \in plugged /\ GoodTable(MaxLimit, tags[o]) /\ tags[o].max_tags = config.max_tags
  BY <1>1, <1>3, PluggedTableGood
<1>6. id \in 1..tags[o].max_tags /\ id \in Ids
  BY <1>5 DEF GoodTable, TableSound, TagsType, Ids
<1>7. /\ GoodTable(MaxLimit, there)
      /\ there.table = tags[o].table \cup {id}
      /\ there.max_tags = config.max_tags
  BY <1>5, <1>6, OccupyGood, LimitAssumption
<1>8. /\ GoodTable(MaxLimit, here)
      /\ here.max_tags = config.max_tags
      /\ tags[home].table \ {old} \subseteq here.table
      /\ ~empty => here.table = tags[home].table
  <2>1. empty \in BOOLEAN
    OBVIOUS
  <2> HIDE DEF empty, home, old
  <2> QED
    BY <1>2, <2>1, PluggedTableGood, PruneGood, LimitAssumption, SMTT(60) DEF Ids
<1> HIDE DEF there, here
<1>9. \A p \in Outputs : T[p] = IF p = home THEN here
                                ELSE IF p = o THEN there ELSE tags[p]
  BY <1>1, <1>3
<1>10. T \in [Outputs -> TagsType(MaxLimit)]
  BY <1>3, <1>7, <1>8 DEF GoodTable
<1>11. \A p \in plugged : TableSound(T[p]) /\ T[p].max_tags = config.max_tags
  BY <1>3, <1>7, <1>8, <1>9 DEF SafetyInv, TablesAgree, GoodTable
<1> HIDE DEF home, old, id, T
<1>12. ASSUME NEW u \in Views \ {v}, tag[u] # NONE
       PROVE  tag[u][2] \in T[tag[u][1]].table
  <2>1. tag[u][1] \in plugged /\ tag[u][2] \in tags[tag[u][1]].table
    BY <1>12 DEF SafetyInv, OwnedTagInTable
  <2>2. tag[u] = <<tag[u][1], tag[u][2]>>
    BY <1>3, <1>12 DEF Keys
  <2>3. CASE tag[u] = tag[v]
    <3>1. ~empty
      BY <2>3 DEF Others
    <3>2. tag[u][1] = home
      BY <1>2, <2>3
    <3> QED
      BY <1>2, <1>8, <1>9, <2>1, <3>1, <3>2
  <2>4. CASE tag[u] # tag[v]
    <3>1. tag[u][1] = home => tag[u][2] # old
      BY <1>2, <2>2, <2>4
    <3> QED
      BY <1>3, <1>7, <1>8, <1>9, <2>1, <3>1
  <2> QED
    BY <2>3, <2>4
<1>13. id \in T[o].table
  BY <1>1, <1>7, <1>9
<1>14. OutputsOK' /\ WorldOK(World') /\ TablesAgree' /\ OwnedTagInTable'
  <2>1. /\ v \in Views /\ o \in plugged /\ id \in Ids
        /\ fullscreen' \subseteq Views
        /\ UNCHANGED <<outputVars, config, locked, crashed>>
    BY <1>2, <1>3, <1>4, <1>5, <1>6
  <2>2. tags' = T /\ tag' = [tag EXCEPT ![v] = <<o, id>>]
    BY <1>4
  <2> HIDE DEF v, key
  <2> QED
    BY <1>10, <1>11, <1>12, <1>13, <2>1, <2>2, JoinTablesOK
<1> DEFINE a == Arrive(Screen, v, key)
<1>15. key \in Keys
  BY <1>6 DEF Keys
<1>16. ScreenOK(World', a) /\ a.focusedOutput = home /\ a.focusedView = v
  BY <1>2, <1>4, <1>15, ArriveSettles
<1> DEFINE P == IF follow
                THEN {FocusOn(World', q, v) : q \in SetFocused(World', o, a)}
                ELSE {a}
<1>17. PICK p \in P : \E r \in Refresh(World', home, p) :
                      \E s \in Refresh(World', o, r) : Show(s)
  BY DEF MoveViewToOutput, home, id
<1>18. PICK r \in Refresh(World', home, p) :
         \E s \in Refresh(World', o, r) : Show(s)
  BY <1>17
<1>19. PICK s \in Refresh(World', o, r) : Show(s)
  BY <1>18
<1> HIDE DEF a
<1>20. /\ World'.tag[v] # NONE
       /\ World'.tag[v][1] = o
       /\ World'.enabled = enabled
  <2>1. World'.tag = tag' /\ tag'[v] = key
    BY <1>2, <1>3, <1>4 DEF World
  <2>2. key # NONE
    BY <1>15, KeysAssumption DEF Keys, Ids
  <2> QED
    BY <1>4, <2>1, <2>2 DEF World, outputVars
<1>21. /\ ScreenOK(World', p)
       /\ p.focusedOutput \in {home, o}
       /\ OnOutput(World', p) \/ p.focusedOutput = home
  <2>1. CASE follow
    <3>1. PICK q \in SetFocused(World', o, a) : p = FocusOn(World', q, v)
      BY <1>17, <2>1
    <3>2. Settled(World', q) /\ q.focusedOutput = o
      BY <1>1, <1>14, <1>16, <1>20, <3>1, FocusEnabledOutput
    <3> QED
      BY <1>2, <1>14, <1>20, <3>1, <3>2, FocusOnSettles DEF Settled
  <2>2. CASE ~follow
    BY <1>16, <1>17, <2>2
  <2> QED
    BY <2>1, <2>2
<1>22. Settled(World', r) /\ r.focusedOutput = p.focusedOutput
  BY <1>2, <1>14, <1>18, <1>21, RefreshSettles DEF Settled
<1>23. Settled(World', s) /\ s.focusedOutput = p.focusedOutput
  BY <1>14, <1>19, <1>22, RefreshSettles DEF Settled
<1>24. OutputSettled(World', s)
  BY <1>1, <1>2, <1>20, <1>21, <1>23, ViewsAssumption, FocusedOutputPlugged
  DEF OutputSettled
<1> QED
  BY <1>14, <1>19, <1>23, <1>24, ShowSettles DEF SafetyInv

-----------------------------------------------------------------------------
(* The lock, the configuration and power                                   *)

\* Locking keeps the invariant: it changes no table and no focus.
LEMMA LockSafe ==
  ASSUME SafetyInv, Lock
  PROVE  SafetyInv'
<1>1. OutputsOK' /\ TablesAgree' /\ OwnedTagInTable'
  BY DEF Lock, SafetyInv, OutputsOK, TablesAgree, OwnedTagInTable, outputVars
<1>2. WorldOK(World')
  BY DEF Lock, SafetyInv, WorldOK, World, outputVars
<1>3. ScreenInv'
  BY DEF Lock, SafetyInv, ScreenInv, Settled, ScreenOK, OnOutput,
         OutputSettled, World, Screen, outputVars, screenVars
<1> QED
  BY <1>1, <1>2, <1>3 DEF SafetyInv

\* Unlocking settles the screen that may have become stale under the lock.
LEMMA UnlockSafe ==
  ASSUME Confined, SafetyInv, Unlock
  PROVE  SafetyInv'
<1>1. OutputsOK' /\ TablesAgree' /\ OwnedTagInTable'
  BY DEF Unlock, SafetyInv, OutputsOK, TablesAgree, OwnedTagInTable, outputVars
<1>2. WorldOK(World')
  BY DEF Unlock, SafetyInv, WorldOK, World, outputVars
<1>3. ScreenOK(World', Screen) /\ OutputSettled(World', Screen)
  BY DEF Unlock, SafetyInv, ScreenInv, Settled, ScreenOK, OutputSettled, World,
         outputVars
<1>4. PICK r \in RestoreKeyboardFocus(World', Screen) :
        \E s \in {r} \cup UNION {Motion(World', r, o) : o \in enabled} : Show(s)
  BY DEF Unlock
<1>5. PICK s \in {r} \cup UNION {Motion(World', r, o) : o \in enabled} : Show(s)
  BY <1>4
<1>6. Settled(World', r) /\ OutputSettled(World', r)
  BY <1>2, <1>3, <1>4, RestoreSettles DEF OutputSettled
<1>7. Settled(World', s) /\ OutputSettled(World', s)
  <2>1. CASE s = r
    BY <1>6, <2>1
  <2>2. CASE s # r
    <3>1. PICK o \in enabled : s \in Motion(World', r, o)
      BY <1>5, <2>2
    <3>2. /\ World'.enabled = enabled
          /\ World'.locked = FALSE
          /\ o \in Outputs
          /\ o # NONE
      BY ViewsAssumption DEF Unlock, World, outputVars, SafetyInv, OutputsOK
    <3>3. Settled(World', s) /\ s.focusedOutput = o
      BY <1>2, <1>6, <3>1, <3>2, MotionSettles
    <3> QED
      BY <3>2, <3>3 DEF OutputSettled
  <2> QED
    BY <2>1, <2>2
<1> QED
  BY <1>1, <1>2, <1>5, <1>7, ShowSettles DEF SafetyInv

\* A reload resizes every live table or none, and frees no tag.
LEMMA ReloadConfigSafe ==
  ASSUME SafetyInv, NEW next \in Configs, ReloadConfig(next)
  PROVE  SafetyInv'
<1> DEFINE w == [World EXCEPT !.enabled = enabled']
<1>1. /\ next.initial_tags <= next.max_tags
      /\ next.max_tags \in 1..MaxLimit
      /\ \A o \in plugged : PrepareSetMax(tags[o], next.max_tags)
      /\ enabled' = {o \in plugged : powerOn[o]}
      /\ tags' = [o \in Outputs |-> IF o \in plugged
                                    THEN CommitSetMax(tags[o], next.max_tags)
                                    ELSE tags[o]]
      /\ config' = next
      /\ UNCHANGED <<plugged, powerOn, tag, fullscreen, locked, crashed>>
      /\ \E r \in Reconcile(w, Screen) :
         \E s \in RefreshFocused(World', r) : Show(s)
  BY DEF ReloadConfig, Configs, Ids
<1>2. plugged \subseteq Outputs /\ tags \in [Outputs -> TagsType(MaxLimit)]
  BY DEF SafetyInv, OutputsOK, WorldOK, World
<1>3. ASSUME NEW o \in plugged
      PROVE  /\ GoodTable(MaxLimit, tags'[o])
             /\ tags'[o].table = tags[o].table
             /\ tags'[o].max_tags = next.max_tags
  <2>1. tags'[o] = CommitSetMax(tags[o], next.max_tags)
    BY <1>1, <1>2
  <2>2. GoodTable(MaxLimit, tags[o])
    BY PluggedTableGood
  <2> QED
    BY <1>1, <2>1, <2>2, CommitSetMaxGood, LimitAssumption
<1>4. OutputsOK'
  BY <1>1 DEF SafetyInv, OutputsOK
<1>5. tags' \in [Outputs -> TagsType(MaxLimit)]
  <2>1. \A o \in Outputs : tags'[o] \in TagsType(MaxLimit)
    BY <1>1, <1>2, <1>3 DEF GoodTable
  <2> QED
    BY <1>1, <2>1
<1>6. enabled' \subseteq Outputs
  BY <1>1, <1>2
<1>7. WorldOK(World')
  BY <1>1, <1>5, <1>6 DEF SafetyInv, WorldOK, World
<1>8. TablesAgree'
  BY <1>1, <1>3 DEF TablesAgree, GoodTable
<1>9. OwnedTagInTable'
  BY <1>1, <1>3, SMTT(60) DEF SafetyInv, OwnedTagInTable
<1>10. /\ WorldOK(w)
       /\ w.tag = World'.tag
       /\ w.locked = World'.locked
       /\ w.enabled = World'.enabled
       /\ w.tag = World.tag
       /\ w.locked = World.locked
  BY <1>1, <1>6 DEF SafetyInv, WorldOK, World
<1>11. PICK r \in Reconcile(w, Screen) :
         \E s \in RefreshFocused(World', r) : Show(s)
  BY <1>1
<1>12. PICK s \in RefreshFocused(World', r) : Show(s)
  BY <1>11
<1> HIDE DEF w
<1>13. Settled(w, Screen)
  BY <1>10, SettledCongruence DEF SafetyInv, ScreenInv
<1>14. Settled(w, r) /\ OutputSettled(w, r)
  BY <1>10, <1>11, <1>13, ReconcileSettles
<1>15. Settled(World', r) /\ OutputSettled(World', r)
  BY <1>10, <1>14, SettledCongruence DEF OutputSettled
<1>16. Settled(World', s) /\ s.focusedOutput = r.focusedOutput
  BY <1>7, <1>12, <1>15, RefreshFocusedSettles DEF Settled
<1>17. OutputSettled(World', s)
  BY <1>15, <1>16 DEF OutputSettled
<1> QED
  BY <1>4, <1>7, <1>8, <1>9, <1>12, <1>16, <1>17, ShowSettles DEF SafetyInv

\* What a change of the enabled outputs and nothing else keeps.
LEMMA PowerTablesOK ==
  ASSUME SafetyInv, enabled' \subseteq plugged, powerOn' \in [Outputs -> BOOLEAN],
         UNCHANGED <<plugged, tags, config, tag, fullscreen, locked, crashed>>
  PROVE  /\ OutputsOK'
         /\ WorldOK(World')
         /\ TablesAgree'
         /\ OwnedTagInTable'
         /\ Settled(World', Screen)
<1>1. OutputsOK' /\ TablesAgree' /\ OwnedTagInTable'
  BY DEF SafetyInv, OutputsOK, TablesAgree, OwnedTagInTable
<1>2. enabled' \subseteq Outputs
  BY DEF SafetyInv, OutputsOK
<1>3. WorldOK(World')
  BY <1>2 DEF SafetyInv, WorldOK, World
<1> QED
  BY <1>1, <1>3, ScreenStaysSettled

\* Powering an output on or off leaves the focus on an enabled one.
LEMMA SetPowerSafe ==
  ASSUME Confined, SafetyInv, NEW o \in Outputs, NEW on \in BOOLEAN,
         SetPower(o, on)
  PROVE  SafetyInv'
<1>1. /\ enabled' \subseteq plugged
      /\ powerOn' \in [Outputs -> BOOLEAN]
      /\ UNCHANGED <<plugged, tags, config, tag, fullscreen, locked, crashed>>
  BY DEF SetPower, SafetyInv, OutputsOK
<1>2. /\ OutputsOK' /\ WorldOK(World') /\ TablesAgree' /\ OwnedTagInTable'
      /\ Settled(World', Screen)
  BY <1>1, PowerTablesOK
<1> DEFINE Warped(r) == IF r.focusedOutput \in {NONE, focusedOutput} THEN {}
                        ELSE Motion(World', r, r.focusedOutput)
<1>3. PICK r \in Reconcile(World', Screen) :
        \E s \in {r} \cup Warped(r) : Show(s)
  BY DEF SetPower
<1>4. PICK s \in {r} \cup Warped(r) : Show(s)
  BY <1>3
<1>5. Settled(World', r) /\ OutputSettled(World', r)
  BY <1>2, <1>3, ReconcileSettles
<1>6. Settled(World', s) /\ s.focusedOutput = r.focusedOutput
  <2>1. CASE s = r
    BY <1>5, <2>1
  <2>2. CASE s # r
    <3>1. s \in Motion(World', r, r.focusedOutput) /\ r.focusedOutput # NONE
      BY <1>4, <2>2
    <3>2. r.focusedOutput \in Outputs
      BY <1>5, <3>1 DEF Settled, ScreenOK, ScreenType
    <3> QED
      BY <1>2, <1>5, <3>1, <3>2, MotionSettles
  <2> QED
    BY <2>1, <2>2
<1>7. OutputSettled(World', s)
  BY <1>5, <1>6 DEF OutputSettled
<1> QED
  BY <1>2, <1>4, <1>6, <1>7, ShowSettles DEF SafetyInv

\* An output manager's request leaves the focus on an enabled output.
LEMMA ManagerApplySafe ==
  ASSUME SafetyInv, NEW heads \in SUBSET plugged, ManagerApply(heads)
  PROVE  SafetyInv'
<1>1. /\ enabled' \subseteq plugged
      /\ powerOn' \in [Outputs -> BOOLEAN]
      /\ UNCHANGED <<plugged, tags, config, tag, fullscreen, locked, crashed>>
  BY DEF ManagerApply, SafetyInv, OutputsOK
<1>2. /\ OutputsOK' /\ WorldOK(World') /\ TablesAgree' /\ OwnedTagInTable'
      /\ Settled(World', Screen)
  BY <1>1, PowerTablesOK
<1>3. PICK s \in Reconcile(World', Screen) : Show(s)
  BY DEF ManagerApply
<1>4. Settled(World', s) /\ OutputSettled(World', s)
  BY <1>2, <1>3, ReconcileSettles
<1> QED
  BY <1>2, <1>3, <1>4, ShowSettles DEF SafetyInv

-----------------------------------------------------------------------------
(* Outputs that come and go                                                *)

\* The table of a new output is good and agrees with the configuration.
LEMMA FreshTagsGood ==
  ASSUME SafetyInv
  PROVE  GoodTable(MaxLimit, FreshTags) /\ FreshTags.max_tags = config.max_tags
<1>1. /\ config.initial_tags \in 1..MaxLimit
      /\ config.max_tags \in 1..MaxLimit
      /\ config.initial_tags <= config.max_tags
  BY DEF SafetyInv, OutputsOK, Configs, Ids
<1>2. GoodTable(MaxLimit, FreshTags)
  BY <1>1, TagsInitGood, LimitAssumption DEF FreshTags
<1> QED
  BY <1>2 DEF FreshTags, TagsInit

\* What leme_output_handle_destroy relies on: the tables T of the outputs that
\* stay are sound and hold the tags of the views that do not migrate.
CanLeave(o, successor, stay, T) ==
  /\ o \in Outputs /\ successor \in stay /\ o \notin stay
  /\ stay \subseteq Outputs
  /\ T \in [Outputs -> TagsType(MaxLimit)]
  /\ \A p \in stay : TableSound(T[p]) /\ T[p].max_tags = config.max_tags
  /\ \A v \in Views : tag[v] # NONE /\ tag[v][1] # o =>
       tag[v][1] \in stay /\ tag[v][2] \in T[tag[v][1]].table

\* Where a view of o goes, and that every other view stays.
LEMMA MigratedWhere ==
  ASSUME SafetyInv, NEW o, NEW successor, NEW stay, NEW T,
         CanLeave(o, successor, stay, T), NEW v \in Views
  PROVE  LET new == Migrated(T, o, successor, tag[v])
         IN /\ new \in Keys \cup {NONE}
            /\ (new = NONE) <=> (tag[v] = NONE)
            /\ tag[v] # NONE /\ tag[v][1] # o => new = tag[v]
            /\ tag[v] # NONE /\ tag[v][1] = o =>
                 /\ new[1] = successor
                 /\ new[2] \in 1..T[successor].max_tags
                 /\ new[2] \in Ids
                 /\ new = <<successor, new[2]>>
<1>1. tag[v] \in Keys \cup {NONE} /\ NONE \notin Keys
  BY KeysAssumption DEF SafetyInv, WorldOK, World, Keys, Ids
<1>2. successor \in Outputs /\ T[successor].max_tags \in 1..MaxLimit
  BY DEF CanLeave, TagsType
<1>3. CASE tag[v] = NONE
  BY <1>1, <1>3 DEF Migrated
<1>4. CASE tag[v] # NONE /\ tag[v][1] # o
  BY <1>1, <1>4 DEF Migrated
<1>5. CASE tag[v] # NONE /\ tag[v][1] = o
  <2> DEFINE max == T[successor].max_tags
             id == IF tag[v][2] > max THEN max ELSE tag[v][2]
  <2>1. tag[v][2] \in 1..MaxLimit
    BY <1>1, <1>5 DEF Keys, Ids
  <2>2. Migrated(T, o, successor, tag[v]) = <<successor, id>>
    BY <1>5 DEF Migrated
  <2>3. id \in 1..max /\ id \in Ids
    BY <1>2, <2>1, LimitAssumption DEF Ids
  <2>4. <<successor, id>> \in Keys
    BY <1>2, <2>3 DEF Keys
  <2> HIDE DEF id
  <2> QED
    BY <1>1, <1>5, <2>2, <2>3, <2>4
<1> QED
  BY <1>3, <1>4, <1>5

\* The tables after the migration.
LEMMA MigrateTablesOK ==
  ASSUME SafetyInv, NEW o, NEW successor, NEW stay, NEW T,
         CanLeave(o, successor, stay, T)
  PROVE  LET M == MigrateTags(T, o, successor)
         IN /\ M \in [Outputs -> TagsType(MaxLimit)]
            /\ \A p \in stay : TableSound(M[p]) /\ M[p].max_tags = config.max_tags
            /\ \A p \in stay : T[p].table \subseteq M[p].table
            /\ \A id \in Ids :
                 Migrants(T, o, successor, <<successor, id>>) # {} =>
                   id \in M[successor].table
<1> DEFINE arriving == {id \in Ids :
                          Migrants(T, o, successor, <<successor, id>>) # {}}
           t == T[successor]
           candidate == t.focused_is_candidate /\ t.focused_id \notin arriving
           r == OccupyAll(t, arriving)
           M == MigrateTags(T, o, successor)
<1>1. /\ successor \in Outputs
      /\ o \in Outputs
      /\ o # successor
      /\ t \in TagsType(MaxLimit)
      /\ TableSound(t)
      /\ t.max_tags = config.max_tags
  BY DEF CanLeave
<1>2. arriving \subseteq 1..t.max_tags
  <2> SUFFICES ASSUME NEW id \in arriving PROVE id \in 1..t.max_tags
    OBVIOUS
  <2>1. PICK v \in Views : /\ tag[v] # NONE
                           /\ tag[v][1] = o
                           /\ Migrated(T, o, successor, tag[v]) = <<successor, id>>
    BY DEF Migrants
  <2>2. <<successor, id>>[2] \in 1..t.max_tags
    BY <2>1, MigratedWhere
  <2> QED
    BY <2>2
<1>3. NoTags \in TagsType(MaxLimit)
  <2>1. 1 \in 1..MaxLimit
    BY LimitAssumption
  <2> QED
    BY <2>1, TagsInitGood, LimitAssumption DEF NoTags, GoodTable
<1>4. M = [T EXCEPT ![o] = NoTags, ![successor] = r]
  BY DEF MigrateTags
<1> HIDE DEF arriving
<1>5. /\ r \in TagsType(MaxLimit)
      /\ r.table = t.table \cup arriving
      /\ r.max_tags = t.max_tags
      /\ r.initial_tags = t.initial_tags
      /\ r.focused_id = t.focused_id
  <2>1. candidate \in BOOLEAN
    BY <1>1 DEF TagsType
  <2>2. t.table \cup arriving \in SUBSET (1..MaxLimit)
    <3>1. arriving \subseteq 1..MaxLimit
      BY DEF arriving, Ids
    <3>2. t.table \subseteq 1..MaxLimit
      BY <1>1 DEF TagsType
    <3> QED
      BY <3>1, <3>2
  <2>3. r = [t EXCEPT !.table = t.table \cup arriving,
                      !.focused_is_candidate = candidate]
    BY DEF OccupyAll
  <2> HIDE DEF candidate, t, r
  <2> QED
    BY <1>1, <2>1, <2>2, <2>3 DEF TagsType
<1> HIDE DEF r
<1>6. TableSound(r)
  BY <1>1, <1>2, <1>5 DEF TableSound
<1> HIDE DEF M
<1>7. \A p \in Outputs : M[p] = IF p = successor THEN r
                                ELSE IF p = o THEN NoTags ELSE T[p]
  BY <1>1, <1>4 DEF CanLeave
<1>8. M \in [Outputs -> TagsType(MaxLimit)]
  BY <1>1, <1>3, <1>4, <1>5 DEF CanLeave
<1>9. \A p \in stay : TableSound(M[p]) /\ M[p].max_tags = config.max_tags
  BY <1>1, <1>5, <1>6, <1>7 DEF CanLeave
<1>10. \A p \in stay : T[p].table \subseteq M[p].table
  BY <1>5, <1>7 DEF CanLeave
<1>11. \A id \in Ids : Migrants(T, o, successor, <<successor, id>>) # {} =>
         id \in M[successor].table
  BY <1>1, <1>5, <1>7 DEF arriving
<1> QED
  BY <1>8, <1>9, <1>10, <1>11 DEF M

\* The screen after the migration: tags remember views that are on them now.
LEMMA MigrateFocusSettles ==
  ASSUME SafetyInv, NEW o, NEW successor, NEW stay, NEW T,
         CanLeave(o, successor, stay, T),
         NEW w, w.tag = [v \in Views |-> Migrated(T, o, successor, tag[v])],
         w.locked = locked,
         NEW s, Settled(World, s), NEW r \in MigrateFocus(T, o, successor, s)
  PROVE  Settled(w, r)
<1> DEFINE Joining(id) == Migrants(T, o, successor, <<successor, id>>)
           arriving == {id \in Ids : Joining(id) # {}}
<1>1. PICK last \in [arriving -> Views] :
        /\ \A id \in arriving : last[id] \in Joining(id)
        /\ r = [s EXCEPT
                  !.tagFocus = [key \in Keys |->
                                  IF key[1] = o THEN NONE
                                  ELSE IF key[1] = successor /\ key[2] \in arriving
                                  THEN last[key[2]]
                                  ELSE s.tagFocus[key]],
                  !.focusedOutput = IF @ = o THEN successor ELSE @]
  BY DEF MigrateFocus
<1> DEFINE focus == [key \in Keys |->
                       IF key[1] = o THEN NONE
                       ELSE IF key[1] = successor /\ key[2] \in arriving
                       THEN last[key[2]]
                       ELSE s.tagFocus[key]]
           output == IF s.focusedOutput = o THEN successor ELSE s.focusedOutput
<1>2. /\ s \in ScreenType
      /\ s.tagFocus \in [Keys -> Views \cup {NONE}]
      /\ \A key \in Keys : s.tagFocus[key] # NONE => tag[s.tagFocus[key]] = key
      /\ s.focusedView \in Views \cup {NONE}
      /\ s.focusedOutput \in Outputs \cup {NONE}
      /\ s.focusedView # NONE => tag[s.focusedView] # NONE
      /\ ~locked /\ s.focusedView # NONE =>
           tag[s.focusedView][1] = s.focusedOutput
  BY DEF Settled, ScreenOK, ScreenType, OnOutput, World
<1>3. focus \in [Keys -> Views \cup {NONE}]
  BY <1>1, <1>2
<1>4. output \in Outputs \cup {NONE}
  BY <1>2 DEF CanLeave
<1>5. /\ r \in ScreenType
      /\ r.tagFocus = focus
      /\ r.focusedView = s.focusedView
      /\ r.focusedOutput = output
  <2> HIDE DEF focus, output
  <2>1. r = [s EXCEPT !.tagFocus = focus, !.focusedOutput = output]
    BY <1>1 DEF focus, output
  <2> QED
    BY <1>2, <1>3, <1>4, <2>1 DEF ScreenType
<1>6. ASSUME NEW key \in Keys, focus[key] # NONE
      PROVE  w.tag[focus[key]] = key
  <2>1. key[1] # o /\ focus[key] \in Views
    BY <1>3, <1>6
  <2>2. CASE key[1] = successor /\ key[2] \in arriving
    <3>1. focus[key] \in Joining(key[2])
      BY <1>1, <2>1, <2>2
    <3>2. Migrated(T, o, successor, tag[focus[key]]) = <<successor, key[2]>>
      BY <3>1 DEF Migrants
    <3>3. key = <<successor, key[2]>>
      BY <2>2 DEF Keys
    <3>4. w.tag[focus[key]] = Migrated(T, o, successor, tag[focus[key]])
      BY <2>1
    <3> QED
      BY <3>2, <3>3, <3>4
  <2>3. CASE ~(key[1] = successor /\ key[2] \in arriving)
    <3>1. focus[key] = s.tagFocus[key]
      BY <2>1, <2>3
    <3> HIDE DEF focus
    <3>2. tag[focus[key]] = key
      BY <1>2, <1>6, <3>1
    <3>3. key # NONE
      BY KeysAssumption DEF Keys, Ids
    <3>4. w.tag[focus[key]] = Migrated(T, o, successor, tag[focus[key]])
      BY <2>1
    <3> QED
      BY <2>1, <3>2, <3>3, <3>4, MigratedWhere
  <2> QED
    BY <2>2, <2>3
<1>7. s.focusedView # NONE =>
        w.tag[s.focusedView] = Migrated(T, o, successor, tag[s.focusedView])
  BY <1>2
<1>8. r.focusedView # NONE => w.tag[r.focusedView] # NONE
  BY <1>2, <1>5, <1>7, MigratedWhere
<1>9. OnOutput(w, r)
  <2> SUFFICES ASSUME ~locked, s.focusedView # NONE
               PROVE  w.tag[s.focusedView][1] = output
    BY <1>5 DEF OnOutput
  <2>1. s.focusedView \in Views /\ tag[s.focusedView] # NONE
    BY <1>2
  <2>2. CASE s.focusedOutput = o
    BY <1>2, <1>7, <2>1, <2>2, MigratedWhere
  <2>3. CASE s.focusedOutput # o
    BY <1>2, <1>7, <2>1, <2>3, MigratedWhere
  <2> QED
    BY <2>2, <2>3
<1> HIDE DEF focus
<1>10. ScreenOK(w, r)
  BY <1>5, <1>6, <1>8 DEF ScreenOK
<1> QED
  BY <1>9, <1>10 DEF Settled

\* The departure of an output moves all its views to tags of the successor.
LEMMA LeaveSafe ==
  ASSUME SafetyInv, NEW o, NEW successor, NEW stay, NEW T,
         CanLeave(o, successor, stay, T), NEW s, Settled(World, s),
         Leave(o, successor, stay, T, s)
  PROVE  SafetyInv'
<1> DEFINE M == MigrateTags(T, o, successor)
<1>1. /\ plugged' = stay
      /\ powerOn' = [powerOn EXCEPT ![o] = TRUE]
      /\ enabled' = {p \in stay : powerOn[p]}
      /\ tags' = M
      /\ tag' = [v \in Views |-> Migrated(T, o, successor, tag[v])]
      /\ UNCHANGED <<config, fullscreen, locked, crashed>>
      /\ \E r \in MigrateFocus(T, o, successor, s) :
         \E q \in Reconcile(World', r) : Show(q)
  BY DEF Leave
<1>2. /\ M \in [Outputs -> TagsType(MaxLimit)]
      /\ \A p \in stay : TableSound(M[p]) /\ M[p].max_tags = config.max_tags
      /\ \A p \in stay : T[p].table \subseteq M[p].table
      /\ \A id \in Ids : Migrants(T, o, successor, <<successor, id>>) # {} =>
           id \in M[successor].table
  BY MigrateTablesOK
<1> HIDE DEF M
<1>3. OutputsOK'
  BY <1>1 DEF SafetyInv, OutputsOK, CanLeave
<1>4. tag' \in [Views -> Keys \cup {NONE}]
  BY <1>1, MigratedWhere
<1>5. enabled' \subseteq Outputs
  BY <1>1 DEF CanLeave
<1>6. WorldOK(World')
  BY <1>1, <1>2, <1>4, <1>5 DEF SafetyInv, WorldOK, World
<1>7. TablesAgree'
  BY <1>1, <1>2 DEF TablesAgree
<1>8. OwnedTagInTable'
  <2> SUFFICES ASSUME NEW v \in Views, tag'[v] # NONE
               PROVE  tag'[v][1] \in stay /\ tag'[v][2] \in M[tag'[v][1]].table
    BY <1>1 DEF OwnedTagInTable
  <2> DEFINE new == Migrated(T, o, successor, tag[v])
  <2>1. tag'[v] = new /\ tag[v] # NONE
    BY <1>1, MigratedWhere
  <2>2. CASE tag[v][1] # o
    <3>1. new = tag[v]
      BY <2>1, <2>2, MigratedWhere
    <3> QED
      BY <1>2, <2>1, <2>2, <3>1 DEF CanLeave
  <2>3. CASE tag[v][1] = o
    <3>1. /\ new[1] = successor
          /\ new[2] \in Ids
          /\ new = <<successor, new[2]>>
      BY <2>1, <2>3, MigratedWhere
    <3>2. v \in Migrants(T, o, successor, <<successor, new[2]>>)
      BY <2>1, <2>3, <3>1 DEF Migrants
    <3>3. new[2] \in M[successor].table
      BY <1>2, <3>1, <3>2
    <3> QED
      BY <2>1, <3>1, <3>3 DEF CanLeave
  <2> QED
    BY <2>2, <2>3
<1>9. PICK r \in MigrateFocus(T, o, successor, s) :
        \E q \in Reconcile(World', r) : Show(q)
  BY <1>1
<1>10. PICK q \in Reconcile(World', r) : Show(q)
  BY <1>9
<1>11. World'.tag = tag' /\ World'.locked = locked
  BY <1>1 DEF World
<1>12. Settled(World', r)
  BY <1>1, <1>9, <1>11, MigrateFocusSettles
<1>13. Settled(World', q) /\ OutputSettled(World', q)
  BY <1>6, <1>10, <1>12, ReconcileSettles
<1> QED
  BY <1>3, <1>6, <1>7, <1>8, <1>10, <1>13, ShowSettles DEF SafetyInv

\* Unplugging an output keeps the invariant, the last one included.
LEMMA UnplugSafe ==
  ASSUME SafetyInv, NEW o \in Outputs, Unplug(o)
  PROVE  SafetyInv'
<1>1. /\ plugged \subseteq Outputs
      /\ tags \in [Outputs -> TagsType(MaxLimit)]
      /\ o \in plugged
      /\ o # Headless
      /\ Headless \in Outputs
      /\ Settled(World, Screen)
      /\ WorldOK(World)
  BY OutputsAssumption DEF Unplug, SafetyInv, OutputsOK, WorldOK, World, ScreenInv
<1>2. CASE plugged = {o}
  <2> DEFINE T == [tags EXCEPT ![Headless] = FreshTags]
             w == [World EXCEPT !.tags = T, !.enabled = {Headless}]
  <2>1. PICK s \in IF focusedOutput = NONE THEN Reconcile(w, Screen)
                   ELSE {Screen} :
          Leave(o, Headless, {Headless}, T, s)
    BY <1>2 DEF Unplug
  <2>2. GoodTable(MaxLimit, FreshTags) /\ FreshTags.max_tags = config.max_tags
    BY FreshTagsGood
  <2>3. T \in [Outputs -> TagsType(MaxLimit)] /\ T[Headless] = FreshTags
    BY <1>1, <2>2 DEF GoodTable
  <2>4. CanLeave(o, Headless, {Headless}, T)
    BY <1>1, <1>2, <2>2, <2>3 DEF CanLeave, GoodTable, SafetyInv, OwnedTagInTable
  <2> HIDE DEF T
  <2>5. /\ WorldOK(w)
        /\ w.tag = World.tag
        /\ w.locked = World.locked
    BY <1>1, <2>3 DEF WorldOK, World
  <2> HIDE DEF w
  <2>6. Settled(w, Screen)
    BY <1>1, <2>5, SettledCongruence
  <2>7. Settled(World, s)
    BY <1>1, <2>1, <2>5, <2>6, ReconcileSettles, SettledCongruence
  <2> QED
    BY <2>1, <2>4, <2>7, LeaveSafe
<1>3. CASE plugged # {o}
  <2>1. PICK successor \in plugged \ {o} :
          Leave(o, successor, plugged \ {o}, tags, Screen)
    BY <1>3 DEF Unplug
  <2>2. CanLeave(o, successor, plugged \ {o}, tags)
    BY <1>1, <2>1 DEF CanLeave, SafetyInv, TablesAgree, OwnedTagInTable
  <2> QED
    BY <1>1, <2>1, <2>2, LeaveSafe
<1> QED
  BY <1>2, <1>3

\* Plugging an output keeps the invariant, with and without the fallback.
LEMMA PlugSafe ==
  ASSUME SafetyInv, NEW o \in Outputs, Plug(o)
  PROVE  SafetyInv'
<1> DEFINE T == [tags EXCEPT ![o] = FreshTags]
           on == {p \in plugged : powerOn[p]} \cup {o}
           w == [World EXCEPT !.tags = T, !.enabled = on]
<1>1. /\ plugged \subseteq Outputs
      /\ tags \in [Outputs -> TagsType(MaxLimit)]
      /\ o \notin plugged
      /\ o # Headless
      /\ Headless \in Outputs
      /\ Settled(World, Screen)
      /\ WorldOK(World)
  BY OutputsAssumption DEF Plug, SafetyInv, OutputsOK, WorldOK, World, ScreenInv
<1>2. PICK s \in Reconcile(w, Screen) :
        IF Headless \in plugged
        THEN Leave(Headless, o, (plugged \ {Headless}) \cup {o}, T, s)
        ELSE /\ plugged' = plugged \cup {o}
             /\ enabled' = on
             /\ tags' = T
             /\ UNCHANGED <<powerOn, config, tag, fullscreen, locked, crashed>>
             /\ Show(s)
  BY DEF Plug
<1>3. GoodTable(MaxLimit, FreshTags) /\ FreshTags.max_tags = config.max_tags
  BY FreshTagsGood
<1>4. /\ T \in [Outputs -> TagsType(MaxLimit)]
      /\ \A p \in Outputs : T[p] = IF p = o THEN FreshTags ELSE tags[p]
  BY <1>1, <1>3 DEF GoodTable
<1> HIDE DEF T
<1>5. on \subseteq Outputs /\ on \subseteq plugged \cup {o}
  BY <1>1
<1> HIDE DEF on
<1>6. /\ WorldOK(w)
      /\ w.tag = World.tag
      /\ w.locked = World.locked
      /\ w.enabled = on
  BY <1>1, <1>4, <1>5 DEF WorldOK, World
<1> HIDE DEF w
<1>7. Settled(w, Screen)
  BY <1>1, <1>6, SettledCongruence
<1>8. Settled(w, s) /\ OutputSettled(w, s)
  BY <1>2, <1>6, <1>7, ReconcileSettles
<1>9. Settled(World, s)
  BY <1>6, <1>8, SettledCongruence
<1>10. CASE Headless \in plugged
  <2> DEFINE stay == (plugged \ {Headless}) \cup {o}
  <2>1. Leave(Headless, o, stay, T, s)
    BY <1>2, <1>10
  <2>2. \A p \in stay : TableSound(T[p]) /\ T[p].max_tags = config.max_tags
    BY <1>1, <1>3, <1>4 DEF SafetyInv, TablesAgree, GoodTable
  <2>3. \A v \in Views : tag[v] # NONE /\ tag[v][1] # Headless =>
          tag[v][1] \in stay /\ tag[v][2] \in T[tag[v][1]].table
    BY <1>1, <1>4 DEF SafetyInv, OwnedTagInTable
  <2>4. CanLeave(Headless, o, stay, T)
    BY <1>1, <1>4, <2>2, <2>3 DEF CanLeave
  <2> QED
    BY <1>9, <2>1, <2>4, LeaveSafe
<1>11. CASE Headless \notin plugged
  <2>1. /\ plugged' = plugged \cup {o}
        /\ enabled' = on
        /\ tags' = T
        /\ UNCHANGED <<powerOn, config, tag, fullscreen, locked, crashed>>
        /\ Show(s)
    BY <1>2, <1>11
  <2>2. OutputsOK'
    BY <1>1, <1>5, <2>1 DEF SafetyInv, OutputsOK
  <2>3. WorldOK(World')
    BY <1>1, <1>4, <1>5, <2>1 DEF WorldOK, World
  <2>4. TablesAgree'
    BY <1>1, <1>3, <1>4, <2>1 DEF SafetyInv, TablesAgree, GoodTable
  <2>5. OwnedTagInTable'
    BY <1>1, <1>4, <2>1 DEF SafetyInv, OwnedTagInTable
  <2>6. /\ World'.tag = World.tag
        /\ World'.locked = World.locked
        /\ World'.enabled = on
    BY <2>1 DEF World
  <2>7. Settled(World', s)
    BY <1>9, <2>6, SettledCongruence
  <2>8. OutputSettled(World', s)
    BY <1>6, <1>8, <2>6 DEF OutputSettled
  <2> QED
    BY <2>1, <2>2, <2>3, <2>4, <2>5, <2>7, <2>8, ShowSettles DEF SafetyInv
<1> QED
  BY <1>10, <1>11

-----------------------------------------------------------------------------
(* The theorems                                                            *)

\* The session starts in a state of the invariant.
LEMMA InitSafe ==
  ASSUME Init
  PROVE  SafetyInv
<1>1. NoTags \in TagsType(MaxLimit)
  <2>1. 1 \in 1..MaxLimit
    BY LimitAssumption
  <2> QED
    BY <2>1, TagsInitGood, LimitAssumption DEF NoTags, GoodTable
<1>2. OutputsOK
  BY DEF Init, OutputsOK
<1>3. WorldOK(World)
  BY <1>1 DEF Init, WorldOK, World
<1>4. TablesAgree /\ OwnedTagInTable
  BY DEF Init, TablesAgree, OwnedTagInTable
<1>5. Screen \in ScreenType
  BY DEF Init, Screen, ScreenType
<1>6. ScreenInv
  BY <1>5
  DEF Init, ScreenInv, Settled, ScreenOK, OnOutput, OutputSettled, World, Screen
<1> QED
  BY <1>2, <1>3, <1>4, <1>6 DEF SafetyInv

\* Every handler keeps the invariant.
LEMMA NextSafe ==
  ASSUME Confined, SafetyInv, [Next]_vars
  PROVE  SafetyInv'
<1>1. CASE \E v \in Views, o \in Outputs, id \in Ids, full \in BOOLEAN :
             MapView(v, o, id, full)
  BY <1>1, MapViewSafe
<1>2. CASE \E v \in Views : UnmapView(v)
  BY <1>2, UnmapViewSafe
<1>3. CASE \E v \in Views : SetFullscreen(v)
  BY <1>3, SetFullscreenSafe
<1>4. CASE \E direction \in Directions : FocusStep(direction)
  BY <1>4, FocusStepSafe
<1>5. CASE \E id \in Ids : FocusTag(id)
  BY <1>5, FocusTagSafe
<1>6. CASE FocusLastTag
  BY <1>6, FocusLastTagSafe
<1>7. CASE \E id \in Ids : RemoveEmptyTag(id)
  BY <1>7, RemoveEmptyTagSafe
<1>8. CASE SetLayout
  BY <1>8, SetLayoutSafe
<1>9. CASE \E id \in Ids, follow \in BOOLEAN : MoveViewToTag(id, follow)
  BY <1>9, MoveViewToTagSafe
<1>10. CASE \E o \in Outputs : FocusOutput(o)
  BY <1>10, FocusOutputSafe
<1>11. CASE \E o \in Outputs, follow \in BOOLEAN : MoveViewToOutput(o, follow)
  BY <1>11, MoveViewToOutputSafe
<1>12. CASE \E v \in Views : FocusDirection(v)
  BY <1>12, FocusDirectionSafe
<1>13. CASE \E o \in Outputs : FocusAcrossOutputs(o)
  BY <1>13, FocusAcrossOutputsSafe
<1>14. CASE \E v \in Views : FocusPreviousView(v)
  BY <1>14, FocusPreviousViewSafe
<1>15. CASE \E o \in Outputs : PointerMotion(o)
  BY <1>15, PointerMotionSafe
<1>16. CASE \E o \in Outputs, id \in Ids : WorkspaceActivate(o, id)
  BY <1>16, WorkspaceActivateSafe
<1>17. CASE \E v \in Views : ToplevelActivate(v)
  BY <1>17, ToplevelActivateSafe
<1>18. CASE \E v \in Views : DesktopActivate(v)
  BY <1>18, DesktopActivateSafe
<1>19. CASE Lock
  BY <1>19, LockSafe
<1>20. CASE Unlock
  BY <1>20, UnlockSafe
<1>21. CASE \E next \in Configs : ReloadConfig(next)
  BY <1>21, ReloadConfigSafe
<1>22. CASE \E o \in Outputs, on \in BOOLEAN : SetPower(o, on)
  BY <1>22, SetPowerSafe
<1>23. CASE \E heads \in SUBSET plugged : ManagerApply(heads)
  BY <1>23, ManagerApplySafe
<1>24. CASE \E o \in Outputs : Unplug(o)
  BY <1>24, UnplugSafe
<1>25. CASE \E o \in Outputs : Plug(o)
  BY <1>25, PlugSafe
<1>26. CASE Stopped \/ UNCHANGED vars
  BY <1>26, StutterSafe DEF Stopped
<1> QED
  BY <1>1, <1>2, <1>3, <1>4, <1>5, <1>6, <1>7, <1>8, <1>9, <1>10, <1>11, <1>12,
     <1>13, <1>14, <1>15, <1>16, <1>17, <1>18, <1>19, <1>20, <1>21, <1>22, <1>23,
     <1>24, <1>25, <1>26
  DEF Next

\* The invariant holds for any number of outputs, views and tags.
THEOREM SafetyInvariant ==
  ASSUME Confined
  PROVE  Spec => []SafetyInv
<1>1. Init => SafetyInv
  BY InitSafe
<1>2. SafetyInv /\ [Next]_vars => SafetyInv'
  BY NextSafe
<1> QED
  BY <1>1, <1>2, PTL DEF Spec

\* No prune, unplug or reload frees a tag that still owns a view.
THEOREM OwnedTagsStay ==
  ASSUME Confined
  PROVE  Spec => []OwnedTagInTable
<1>1. SafetyInv => OwnedTagInTable
  BY DEF SafetyInv
<1> QED
  BY <1>1, SafetyInvariant, PTL

\* Every handler leaves the state well typed: in particular no tag id it
\* computes leaves the table of its output; and every live table holds its
\* pinned tags and agrees with the configuration.
THEOREM TablesStaySound ==
  ASSUME Confined
  PROVE  Spec => []TablesSound
<1>1. SafetyInv => TablesSound
  BY SafetyInvImplies DEF SafetyInv, TablesSound
<1> QED
  BY <1>1, SafetyInvariant, PTL

\* tag->focused_view never points to a view that left the tag.
THEOREM TagsRememberMembers ==
  ASSUME Confined
  PROVE  Spec => []TagFocusIsMember
<1>1. SafetyInv => TagFocusIsMember
  BY SafetyInvImplies
<1> QED
  BY <1>1, SafetyInvariant, PTL

\* The focused output is always an enabled one, and exists when it can.
THEOREM FocusStaysEnabled ==
  ASSUME Confined
  PROVE  Spec => []FocusedOutputEnabled
<1>1. SafetyInv => FocusedOutputEnabled
  BY SafetyInvImplies
<1> QED
  BY <1>1, SafetyInvariant, PTL

-----------------------------------------------------------------------------
(* The migration never clamps an id                                        *)

KeepsIds ==
  \A v \in Views : tag[v] # NONE => tag'[v] # NONE /\ tag'[v][2] = tag[v][2]

\* The successor's maximum is the one the view's own table had.
LEMMA LeaveKeepsIds ==
  ASSUME SafetyInv, NEW o \in plugged, NEW successor, NEW stay, NEW T,
         CanLeave(o, successor, stay, T), NEW s, Leave(o, successor, stay, T, s)
  PROVE  KeepsIds
<1> SUFFICES ASSUME NEW v \in Views, tag[v] # NONE
             PROVE  tag'[v] # NONE /\ tag'[v][2] = tag[v][2]
  BY DEF KeepsIds
<1>1. tag'[v] = Migrated(T, o, successor, tag[v])
  BY DEF Leave
<1>2. tag'[v] # NONE
  BY <1>1, MigratedWhere
<1>3. CASE tag[v][1] # o
  BY <1>1, <1>2, <1>3, MigratedWhere
<1>4. CASE tag[v][1] = o
  <2>1. tag[v][2] \in 1..config.max_tags /\ config.max_tags \in 1..MaxLimit
    BY <1>4 DEF SafetyInv, OwnedTagInTable, TablesAgree, TableSound, OutputsOK,
                Configs, Ids
  <2>2. T[successor].max_tags = config.max_tags
    BY DEF CanLeave
  <2>3. ~(tag[v][2] > T[successor].max_tags)
    BY <2>1, <2>2
  <2>4. tag'[v] = <<successor, tag[v][2]>>
    BY <1>1, <1>4, <2>3 DEF Migrated
  <2> QED
    BY <1>2, <2>4
<1> QED
  BY <1>3, <1>4

\* An unplug clamps no tag id.
LEMMA UnplugKeepsIds ==
  ASSUME SafetyInv, NEW o \in Outputs, Unplug(o)
  PROVE  KeepsIds
<1>1. /\ plugged \subseteq Outputs
      /\ tags \in [Outputs -> TagsType(MaxLimit)]
      /\ o \in plugged
      /\ o # Headless
      /\ Headless \in Outputs
  BY OutputsAssumption DEF Unplug, SafetyInv, OutputsOK, WorldOK, World
<1>2. CASE plugged = {o}
  <2> DEFINE T == [tags EXCEPT ![Headless] = FreshTags]
  <2>1. \E s : Leave(o, Headless, {Headless}, T, s)
    BY <1>2 DEF Unplug
  <2>2. GoodTable(MaxLimit, FreshTags) /\ FreshTags.max_tags = config.max_tags
    BY FreshTagsGood
  <2>3. T \in [Outputs -> TagsType(MaxLimit)] /\ T[Headless] = FreshTags
    BY <1>1, <2>2 DEF GoodTable
  <2>4. CanLeave(o, Headless, {Headless}, T)
    BY <1>1, <1>2, <2>2, <2>3 DEF CanLeave, GoodTable, SafetyInv, OwnedTagInTable
  <2> HIDE DEF T
  <2> QED
    BY <1>1, <2>1, <2>4, LeaveKeepsIds
<1>3. CASE plugged # {o}
  <2>1. PICK successor \in plugged \ {o} :
          Leave(o, successor, plugged \ {o}, tags, Screen)
    BY <1>3 DEF Unplug
  <2>2. CanLeave(o, successor, plugged \ {o}, tags)
    BY <1>1, <2>1 DEF CanLeave, SafetyInv, TablesAgree, OwnedTagInTable
  <2> QED
    BY <1>1, <2>1, <2>2, LeaveKeepsIds
<1> QED
  BY <1>2, <1>3

\* The retirement of the fallback clamps no tag id.
LEMMA PlugKeepsIds ==
  ASSUME SafetyInv, NEW o \in Outputs, Plug(o)
  PROVE  KeepsIds
<1> DEFINE T == [tags EXCEPT ![o] = FreshTags]
           stay == (plugged \ {Headless}) \cup {o}
<1>1. /\ plugged \subseteq Outputs
      /\ tags \in [Outputs -> TagsType(MaxLimit)]
      /\ o \notin plugged
      /\ o # Headless
      /\ Headless \in Outputs
  BY OutputsAssumption DEF Plug, SafetyInv, OutputsOK, WorldOK, World
<1>2. GoodTable(MaxLimit, FreshTags) /\ FreshTags.max_tags = config.max_tags
  BY FreshTagsGood
<1>3. /\ T \in [Outputs -> TagsType(MaxLimit)]
      /\ \A p \in Outputs : T[p] = IF p = o THEN FreshTags ELSE tags[p]
  BY <1>1, <1>2 DEF GoodTable
<1>4. CASE Headless \in plugged
  <2>1. \E s : Leave(Headless, o, stay, T, s)
    BY <1>4 DEF Plug
  <2> HIDE DEF T
  <2>2. \A p \in stay : TableSound(T[p]) /\ T[p].max_tags = config.max_tags
    BY <1>1, <1>2, <1>3 DEF SafetyInv, TablesAgree, GoodTable
  <2>3. \A v \in Views : tag[v] # NONE /\ tag[v][1] # Headless =>
          tag[v][1] \in stay /\ tag[v][2] \in T[tag[v][1]].table
    BY <1>1, <1>3 DEF SafetyInv, OwnedTagInTable
  <2>4. CanLeave(Headless, o, stay, T)
    BY <1>1, <1>3, <2>2, <2>3 DEF CanLeave
  <2> QED
    BY <1>4, <2>1, <2>4, LeaveKeepsIds
<1>5. CASE Headless \notin plugged
  <2>1. tag' = tag
    BY <1>5 DEF Plug
  <2> QED
    BY <2>1 DEF KeepsIds
<1> QED
  BY <1>4, <1>5

\* Only hotplug changes the set of outputs.
LEMMA OnlyHotplugReplugs ==
  ASSUME Next, plugged' # plugged
  PROVE  \E o \in Outputs : Unplug(o) \/ Plug(o)
<1>1. \A v \in Views :
        /\ \A o \in Outputs, id \in Ids, full \in BOOLEAN : ~MapView(v, o, id, full)
        /\ ~UnmapView(v)
        /\ ~SetFullscreen(v)
  BY DEF MapView, UnmapView, SetFullscreen, outputVars
<1>2. /\ \A direction \in Directions : ~FocusStep(direction)
      /\ \A id \in Ids : ~FocusTag(id)
      /\ ~FocusLastTag
  BY DEF FocusStep, FocusTag, FocusLastTag, Crash, Retag, outputVars
<1>3. /\ \A id \in Ids : ~RemoveEmptyTag(id)
      /\ ~SetLayout
      /\ \A id \in Ids, follow \in BOOLEAN : ~MoveViewToTag(id, follow)
  BY DEF RemoveEmptyTag, SetLayout, MoveViewToTag, Crash, Retag, outputVars, vars
<1>4. /\ \A o \in Outputs : ~FocusOutput(o) /\ ~FocusAcrossOutputs(o)
      /\ \A o \in Outputs, follow \in BOOLEAN : ~MoveViewToOutput(o, follow)
      /\ \A o \in Outputs : ~PointerMotion(o)
  BY DEF FocusOutput, FocusAcrossOutputs, MoveViewToOutput, PointerMotion, Redraw,
         outputVars
<1>5. \A v \in Views : ~FocusDirection(v) /\ ~FocusPreviousView(v)
  BY DEF FocusDirection, FocusPreviousView, Redraw, outputVars
<1>6. /\ \A o \in Outputs, id \in Ids : ~WorkspaceActivate(o, id)
      /\ \A v \in Views : ~ToplevelActivate(v) /\ ~DesktopActivate(v)
  BY DEF WorkspaceActivate, ToplevelActivate, DesktopActivate, Redraw, outputVars
<1>7. ~Lock /\ ~Unlock /\ \A next \in Configs : ~ReloadConfig(next)
  BY DEF Lock, Unlock, ReloadConfig, outputVars
<1>8. /\ \A o \in Outputs, on \in BOOLEAN : ~SetPower(o, on)
      /\ \A heads \in SUBSET plugged : ~ManagerApply(heads)
      /\ ~Stopped
  BY DEF SetPower, ManagerApply, Stopped, vars, outputVars
<1> QED
  BY <1>1, <1>2, <1>3, <1>4, <1>5, <1>6, <1>7, <1>8, Zenon DEF Next

\* A window keeps its tag id through every unplug and every retirement of the
\* fallback: the clamp of leme_output_migrate_views never acts.
THEOREM IdsSurvive ==
  ASSUME Confined
  PROVE  Spec => IdsSurviveHotplug
<1>1. SafetyInv /\ [Next]_vars =>
        [plugged' # plugged =>
           \A v \in Views : tag[v] # NONE =>
             tag'[v] # NONE /\ tag'[v][2] = tag[v][2]]_vars
  <2> SUFFICES ASSUME SafetyInv, Next, plugged' # plugged
               PROVE  KeepsIds
    BY DEF KeepsIds
  <2> QED
    BY OnlyHotplugReplugs, UnplugKeepsIds, PlugKeepsIds
<1> QED
  BY <1>1, SafetyInvariant, PTL DEF Spec, IdsSurviveHotplug

-----------------------------------------------------------------------------
(* What the screen shows, where the keyboard is and what the tags of an    *)
(* output can select, in a session whose outputs stay: with power, lock,   *)
(* reloads and new outputs, but without the unplugs after which nothing is *)
(* drawn again.                                                            *)

Staying == Confined /\ Hotplug \notin Features

-----------------------------------------------------------------------------
(* The parts of the properties, of any world and screen                    *)

\* The tag of every view is in the table of its output.
Owned(w) ==
  \A v \in Views : w.tag[v] # NONE => w.tag[v][2] \in w.tags[w.tag[v][1]].table

\* No view of a hidden tag is drawn, outputs in A aside.
HiddenBut(w, s, A) ==
  \A v \in s.visible : /\ w.tag[v] # NONE
                       /\ w.tag[v][1] \in A \/ w.tag[v] = Current(w, w.tag[v][1])

Drawn(w, s) ==
  s.focusedOutput # NONE =>
    s.visible \cap CurrentMembers(w, s.focusedOutput)
      \in Presentations(w, s.focusedOutput)

OnCurrent(w, s) ==
  s.focusedView # NONE =>
    s.focusedOutput # NONE /\ w.tag[s.focusedView] = Current(w, s.focusedOutput)

HasFocus(w, s) ==
  s.focusedOutput # NONE /\ CurrentMembers(w, s.focusedOutput) # {} =>
    s.focusedView # NONE

\* Under the lock the screen waits for a refresh.
Right(w, s) ==
  /\ HiddenBut(w, s, {})
  /\ ~w.locked => Drawn(w, s) /\ OnCurrent(w, s) /\ HasFocus(w, s)

-----------------------------------------------------------------------------
(* The operators that set the screen right                                 *)

\* The current tag is one the walk of a refresh reaches.
LEMMA CurrentReached ==
  ASSUME NEW w, WorldOK(w), Owned(w), NEW o \in Outputs
  PROVE  /\ CurrentMembers(w, o) \subseteq Reached(w, o)
         /\ \A v \in Views : w.tag[v] # NONE /\ w.tag[v][1] = o => v \in Reached(w, o)
         /\ Current(w, o) # NONE => Current(w, o) \in Keys /\ Current(w, o)[1] = o
<1>1. \A v \in Views : w.tag[v] # NONE /\ w.tag[v][1] = o => v \in Reached(w, o)
  <2>1. SUFFICES ASSUME NEW v \in Views, w.tag[v] # NONE, w.tag[v][1] = o
                 PROVE  v \in Reached(w, o)
    OBVIOUS
  <2>2. w.tag[v] \in Outputs \X Ids
    BY <2>1 DEF WorldOK, Keys
  <2>3. w.tag[v] = <<o, w.tag[v][2]>>
    BY <2>1, <2>2
  <2>4. w.tag[v][2] \in w.tags[o].table
    BY <2>1 DEF Owned
  <2> QED
    BY <2>3, <2>4 DEF Reached
<1>2. CurrentMembers(w, o) \subseteq Reached(w, o)
  BY <1>1, CurrentMembersOwned
<1>3. Current(w, o) # NONE => Current(w, o) \in Keys /\ Current(w, o)[1] = o
  <2>1. w.tags[o].focused_id \in Ids
    BY DEF WorldOK, TagsType, Ids
  <2> QED
    BY <2>1 DEF Current, Keys
<1> QED
  BY <1>1, <1>2, <1>3

\* Only an empty tag presents nothing.
LEMMA PresentationsOfCurrent ==
  ASSUME NEW w, NEW o, NEW shown \in Presentations(w, o)
  PROVE  /\ shown \subseteq CurrentMembers(w, o)
         /\ shown = {} => CurrentMembers(w, o) = {}
BY DEF Presentations, Fullscreens

\* A refresh gives the keyboard to a view of the current tag, if it has one.
LEMMA TargetsCurrent ==
  ASSUME NEW w, WorldOK(w), Owned(w), NEW s, ScreenOK(w, s), NEW o \in Outputs,
         NEW shown \in Presentations(w, o), NEW target \in FocusTargets(w, o, s, shown)
  PROVE  /\ target # NONE => target \in CurrentMembers(w, o)
         /\ target = NONE => CurrentMembers(w, o) = {}
<1>1. /\ shown \subseteq CurrentMembers(w, o)
      /\ shown = {} => CurrentMembers(w, o) = {}
  BY PresentationsOfCurrent
<1>2. CASE Current(w, o) = NONE \/ shown = {}
  BY <1>1, <1>2 DEF FocusTargets, CurrentMembers
<1>3. CASE Current(w, o) # NONE /\ shown # {}
  <2> DEFINE kept == s.tagFocus[Current(w, o)]
  <2>1. (kept # NONE /\ target = kept) \/ target \in shown
    BY <1>3 DEF FocusTargets
  <2>2. Current(w, o) \in Keys
    BY <1>3, CurrentReached
  <2>3. kept # NONE => kept \in Views /\ w.tag[kept] = Current(w, o)
    BY <2>2 DEF ScreenOK, ScreenType
  <2>4. kept # NONE => kept \in CurrentMembers(w, o)
    BY <1>3, <2>3 DEF CurrentMembers, Members
  <2>5. \A v \in CurrentMembers(w, o) : v # NONE
    BY CurrentMembersOwned, ViewsAssumption
  <2> QED
    BY <1>1, <2>1, <2>4, <2>5
<1> QED
  BY <1>2, <1>3

\* leme_tags_refresh of o draws what is right there, and sets the keyboard
\* right when o is the focused output.
LEMMA RefreshRight ==
  ASSUME NEW w, WorldOK(w), Owned(w), NEW s, ScreenOK(w, s), NEW o \in Outputs,
         NEW r \in Refresh(w, o, s)
  PROVE  /\ r.focusedOutput = s.focusedOutput
         /\ \A A : HiddenBut(w, s, A \cup {o}) => HiddenBut(w, r, A)
         /\ s.focusedOutput = o =>
              Drawn(w, r) /\ (~w.locked => OnCurrent(w, r) /\ HasFocus(w, r))
         /\ s.focusedOutput # o =>
              r.focusedView = s.focusedView /\ (Drawn(w, s) => Drawn(w, r))
<1>0. o # NONE
  BY ViewsAssumption
<1>1. PICK shown \in Presentations(w, o) :
        \E target \in FocusTargets(w, o, s, shown) :
          r = RefreshTo(w, o, s, shown, target)
  BY <1>0, Zenon DEF Refresh
<1>2. PICK target \in FocusTargets(w, o, s, shown) :
        r = RefreshTo(w, o, s, shown, target)
  BY <1>1
<1> DEFINE V == (s.visible \ Reached(w, o)) \cup shown
           drawn == [s EXCEPT !.visible = V]
<1>3. shown \subseteq CurrentMembers(w, o)
  BY PresentationsOfCurrent
<1>4. V \in SUBSET Views
  BY <1>3, CurrentMembersOwned DEF ScreenOK, ScreenType
<1>5. r = IF s.focusedOutput # o THEN drawn
          ELSE IF target = NONE THEN ClearFocus(drawn)
          ELSE FocusOn(w, drawn, target)
  BY <1>2, Zenon DEF RefreshTo
<1> HIDE DEF V
<1>6. /\ drawn.visible = V /\ drawn.focusedOutput = s.focusedOutput
      /\ drawn.focusedView = s.focusedView /\ drawn \in ScreenType
  BY <1>4 DEF ScreenOK, ScreenType
<1> HIDE DEF drawn
<1>7. /\ target # NONE => target \in CurrentMembers(w, o)
      /\ target = NONE => CurrentMembers(w, o) = {}
  BY TargetsCurrent
<1>8. /\ r.visible = V /\ r.focusedOutput = s.focusedOutput
      /\ s.focusedOutput # o => r.focusedView = s.focusedView
      /\ s.focusedOutput = o /\ ~w.locked => r.focusedView = target
  BY <1>5, <1>6 DEF ClearFocus, FocusOn, ScreenType
<1>9. V \cap CurrentMembers(w, o) = shown
  BY <1>3, CurrentReached DEF V
<1>10. ASSUME NEW A, HiddenBut(w, s, A \cup {o})
       PROVE  HiddenBut(w, r, A)
  <2>1. SUFFICES ASSUME NEW v \in V
                 PROVE  /\ w.tag[v] # NONE
                        /\ w.tag[v][1] \in A \/ w.tag[v] = Current(w, w.tag[v][1])
    BY <1>8 DEF HiddenBut
  <2>2. CASE v \in shown
    <3>1. v \in CurrentMembers(w, o) /\ w.tag[v] # NONE /\ w.tag[v][1] = o
      BY <1>3, <2>2, CurrentMembersOwned
    <3>2. w.tag[v] = Current(w, o)
      BY <3>1 DEF CurrentMembers, Members
    <3> QED
      BY <3>1, <3>2
  <2>3. CASE v \in s.visible \ Reached(w, o)
    <3>1. v \in Views
      BY <2>3 DEF ScreenOK, ScreenType
    <3>2. w.tag[v] # NONE /\ w.tag[v][1] # o
      BY <1>10, <2>3, <3>1, CurrentReached DEF HiddenBut
    <3> QED
      BY <1>10, <2>3, <3>2 DEF HiddenBut
  <2> QED
    BY <2>1, <2>2, <2>3 DEF V
<1>11. ASSUME s.focusedOutput = o
       PROVE  Drawn(w, r) /\ (~w.locked => OnCurrent(w, r) /\ HasFocus(w, r))
  <2>1. Drawn(w, r)
    BY <1>8, <1>9, <1>11 DEF Drawn
  <2>2. ASSUME ~w.locked PROVE OnCurrent(w, r) /\ HasFocus(w, r)
    <3>1. r.focusedView = target /\ r.focusedOutput = o
      BY <1>8, <1>11, <2>2
    <3>2. OnCurrent(w, r)
      BY <1>0, <1>7, <3>1 DEF OnCurrent, CurrentMembers, Members
    <3>3. HasFocus(w, r)
      BY <1>7, <3>1 DEF HasFocus
    <3> QED
      BY <3>2, <3>3
  <2> QED
    BY <2>1, <2>2
<1>12. ASSUME s.focusedOutput # o, Drawn(w, s)
       PROVE  Drawn(w, r)
  <2> DEFINE f == s.focusedOutput
             M == CurrentMembers(w, f)
  <2>1. CASE f = NONE
    BY <1>8, <2>1 DEF Drawn
  <2>2. CASE f # NONE
    <3>1. f \in Outputs
      BY <2>2 DEF ScreenOK, ScreenType
    <3>2. \A v \in M : v \in Views /\ w.tag[v][1] = f
      BY <3>1, CurrentMembersOwned
    <3>3. \A v \in Reached(w, o) \cup shown : w.tag[v][1] = o
      BY <1>3, CurrentMembersOwned DEF Reached
    <3>4. V \cap M = s.visible \cap M
      <4> HIDE DEF f, M
      <4> QED
        BY <1>12, <3>2, <3>3 DEF V, f
    <3> QED
      BY <1>8, <1>12, <2>2, <3>4 DEF Drawn
  <2> QED
    BY <2>1, <2>2
<1> QED
  BY <1>8, <1>10, <1>11, <1>12

\* A refresh of the focused output, which may be none.
LEMMA RefreshFocusedRight ==
  ASSUME NEW w, WorldOK(w), Owned(w), NEW s, ScreenOK(w, s),
         HiddenBut(w, s, {s.focusedOutput}),
         s.focusedOutput = NONE => Right(w, s),
         NEW r \in RefreshFocused(w, s)
  PROVE  Right(w, r) /\ r.focusedOutput = s.focusedOutput
<1>1. CASE s.focusedOutput = NONE
  BY <1>1 DEF RefreshFocused, Refresh
<1>2. CASE s.focusedOutput # NONE
  <2> DEFINE o == s.focusedOutput
             none == {}
  <2>1. o \in Outputs /\ r \in Refresh(w, o, s)
    BY <1>2 DEF ScreenOK, ScreenType, RefreshFocused
  <2>2. HiddenBut(w, s, none \cup {o})
    OBVIOUS
  <2>3. HiddenBut(w, r, none) /\ r.focusedOutput = o
    <3> HIDE DEF none
    <3> QED
      BY <2>1, <2>2, RefreshRight
  <2>4. Drawn(w, r) /\ (~w.locked => OnCurrent(w, r) /\ HasFocus(w, r))
    BY <2>1, RefreshRight
  <2> QED
    BY <2>3, <2>4 DEF Right
<1> QED
  BY <1>1, <1>2

\* leme_view_focus of a view of the current tag.
LEMMA FocusOnRight ==
  ASSUME NEW w, WorldOK(w), NEW s, ScreenOK(w, s), HiddenBut(w, s, {}), Drawn(w, s),
         s.focusedOutput # NONE, NEW v \in CurrentMembers(w, s.focusedOutput),
         ~w.locked
  PROVE  Right(w, FocusOn(w, s, v))
<1>1. s.focusedOutput \in Outputs
  BY DEF ScreenOK, ScreenType
<1>2. v \in Views /\ w.tag[v] = Current(w, s.focusedOutput)
  BY DEF CurrentMembers, Members
<1> DEFINE r == FocusOn(w, s, v)
<1>3. /\ r.focusedView = v /\ r.focusedOutput = s.focusedOutput
      /\ r.visible = s.visible
  BY DEF FocusOn, ScreenOK, ScreenType
<1> HIDE DEF r
<1>4. HiddenBut(w, r, {}) /\ Drawn(w, r)
  BY <1>3 DEF HiddenBut, Drawn
<1>5. OnCurrent(w, r) /\ HasFocus(w, r)
  BY <1>2, <1>3, ViewsAssumption DEF OnCurrent, HasFocus
<1> QED
  BY <1>4, <1>5 DEF Right, r

\* leme_output_set_focused of an enabled output.
LEMMA SetFocusedRight ==
  ASSUME NEW w, WorldOK(w), Owned(w), NEW s, ScreenOK(w, s), HiddenBut(w, s, {}),
         NEW o \in Outputs, o \in w.enabled, NEW r \in SetFocused(w, o, s)
  PROVE  Right(w, r) /\ r.focusedOutput = o
<1> DEFINE q == [s EXCEPT !.focusedOutput = o]
<1>1. /\ q \in ScreenType /\ q.focusedOutput = o /\ q.visible = s.visible
      /\ q.tagFocus = s.tagFocus /\ q.focusedView = s.focusedView
  BY DEF ScreenOK, ScreenType
<1>2. r \in Refresh(w, o, q)
  BY DEF SetFocused
<1> HIDE DEF q
<1>3. ScreenOK(w, q) /\ o # NONE
  BY <1>1, ViewsAssumption DEF ScreenOK
<1>4. HiddenBut(w, q, {q.focusedOutput})
  BY <1>1 DEF HiddenBut
<1>5. r \in RefreshFocused(w, q)
  BY <1>1, <1>2 DEF RefreshFocused
<1> QED
  BY <1>1, <1>3, <1>4, <1>5, RefreshFocusedRight

\* leme_layer_restore_keyboard_focus.
LEMMA RestoreRight ==
  ASSUME NEW w, WorldOK(w), Owned(w), NEW s, ScreenOK(w, s), HiddenBut(w, s, {}),
         NEW r \in RestoreKeyboardFocus(w, s)
  PROVE  Right(w, r)
<1>1. CASE w.locked
  BY <1>1 DEF RestoreKeyboardFocus, Right
<1>2. CASE ~w.locked /\ s.focusedOutput = NONE
  BY <1>2 DEF RestoreKeyboardFocus, Right, ClearFocus, ScreenOK, ScreenType,
              HiddenBut, Drawn, OnCurrent, HasFocus
<1>3. CASE ~w.locked /\ s.focusedOutput # NONE
  <2>1. r \in RefreshFocused(w, s)
    BY <1>3 DEF RestoreKeyboardFocus
  <2>2. HiddenBut(w, s, {s.focusedOutput})
    BY DEF HiddenBut
  <2> QED
    BY <1>3, <2>1, <2>2, RefreshFocusedRight
<1> QED
  BY <1>1, <1>2, <1>3

\* The end of every handler that changes the enabled outputs.
LEMMA ReconcileRight ==
  ASSUME NEW w, WorldOK(w), Owned(w), NEW s, ScreenOK(w, s), Right(w, s),
         NEW r \in Reconcile(w, s)
  PROVE  Right(w, r)
<1>1. CASE \/ s.focusedOutput \in w.enabled
           \/ s.focusedOutput = NONE /\ w.enabled = {}
  BY <1>1 DEF Reconcile
<1>2. CASE ~(\/ s.focusedOutput \in w.enabled
             \/ s.focusedOutput = NONE /\ w.enabled = {})
  <2> DEFINE F == IF w.enabled = {} THEN {NONE} ELSE w.enabled
  <2>1. PICK f \in F :
          r \in RestoreKeyboardFocus(w, [s EXCEPT !.focusedOutput = f])
    BY <1>2, Zenon DEF Reconcile
  <2> DEFINE q == [s EXCEPT !.focusedOutput = f]
  <2>2. f \in Outputs \cup {NONE}
    BY DEF WorldOK
  <2>3. /\ q \in ScreenType /\ q.tagFocus = s.tagFocus
        /\ q.focusedView = s.focusedView /\ q.visible = s.visible
    BY <2>2 DEF ScreenOK, ScreenType
  <2>4. r \in RestoreKeyboardFocus(w, q)
    BY <2>1
  <2> HIDE DEF q
  <2>5. ScreenOK(w, q) /\ HiddenBut(w, q, {})
    BY <2>3 DEF ScreenOK, Right, HiddenBut
  <2> QED
    BY <2>4, <2>5, RestoreRight
<1> QED
  BY <1>1, <1>2

\* Pointer motion over an enabled output that no view of another one covers.
LEMMA MotionRight ==
  ASSUME Confined, NEW w, WorldOK(w), Owned(w), NEW s, ScreenOK(w, s), Right(w, s),
         NEW o \in Outputs, o \in w.enabled \/ o = s.focusedOutput,
         NEW r \in Motion(w, s, o)
  PROVE  Right(w, r)
<1>1. CASE w.locked
  BY <1>1 DEF Motion
<1>2. CASE ~w.locked
  <2> DEFINE followed == IF o = s.focusedOutput THEN {s} ELSE SetFocused(w, o, s)
  <2>1. \A q \in followed : Right(w, q) /\ q.focusedOutput = o /\ ScreenOK(w, q)
    <3>1. CASE o = s.focusedOutput
      BY <3>1
    <3>2. CASE o # s.focusedOutput
      BY <3>2, SetFocusedRight, FocusEnabledOutput DEF Right, Settled
    <3> QED
      BY <3>1, <3>2
  <2>2. \A v \in Hit(w, s, o) : v \in CurrentMembers(w, o)
    <3>1. SUFFICES ASSUME NEW v \in Hit(w, s, o) PROVE v \in CurrentMembers(w, o)
      OBVIOUS
    <3>2. v \in s.visible /\ w.tag[v] # NONE /\ w.tag[v][1] = o
      BY Zenon DEF Hit, Confined
    <3>3. w.tag[v] = Current(w, o) /\ v \in Views
      BY <3>2 DEF Right, HiddenBut, ScreenOK, ScreenType
    <3> QED
      BY <3>2, <3>3 DEF CurrentMembers, Members
  <2>3. r \in followed \/ \E q \in followed, v \in Hit(w, s, o) : r = FocusOn(w, q, v)
    BY <1>2 DEF Motion
  <2> HIDE DEF followed
  <2>4. CASE \E q \in followed, v \in Hit(w, s, o) : r = FocusOn(w, q, v)
    <3>1. PICK q \in followed, v \in Hit(w, s, o) : r = FocusOn(w, q, v)
      BY <2>4
    <3>2. o # NONE /\ HiddenBut(w, q, {}) /\ Drawn(w, q)
      BY <1>2, <2>1, ViewsAssumption DEF Right
    <3> QED
      BY <1>2, <2>1, <2>2, <3>1, <3>2, FocusOnRight
  <2> QED
    BY <2>1, <2>3, <2>4
<1> QED
  BY <1>1, <1>2

-----------------------------------------------------------------------------
(* What a table lets a user select                                         *)

Choosable(t) == CandidateSound(t) /\ PreviousSound(t)

\* A view that joins a tag clears the candidate.
LEMMA OccupyChoosable ==
  ASSUME NEW t, GoodTable(MaxLimit, t), Choosable(t), NEW id \in 1..t.max_tags
  PROVE  /\ Choosable(Occupy(t, id))
         /\ Occupy(t, id).initial_tags = t.initial_tags
         /\ Occupy(t, id).focused_id = t.focused_id
<1> DEFINE r == Occupy(t, id)
<1>1. /\ r.table = t.table \cup {id} /\ r.initial_tags = t.initial_tags
      /\ r.max_tags = t.max_tags /\ r.focused_id = t.focused_id
      /\ r.focused_is_candidate = (t.focused_is_candidate /\ id # t.focused_id)
      /\ r.previous_id = t.previous_id /\ r.previous_valid = t.previous_valid
      /\ r.previous_is_candidate = t.previous_is_candidate
  BY DEF Occupy, Materialize, GoodTable, TagsType
<1> HIDE DEF r
<1> QED
  BY <1>1 DEF Choosable, CandidateSound, PreviousSound, r, GoodTable, TagsType

\* A tag that goes leaves a candidate behind, for the focus and for the
\* previous focus.
LEMMA PruneChoosable ==
  ASSUME NEW t, GoodTable(MaxLimit, t), Choosable(t), NEW id \in Ids, NEW empty \in BOOLEAN
  PROVE  /\ Choosable(PruneEmpty(t, id, empty))
         /\ PruneEmpty(t, id, empty).initial_tags = t.initial_tags
         /\ PruneEmpty(t, id, empty).focused_id = t.focused_id
         /\ empty /\ id > t.initial_tags => id \notin PruneEmpty(t, id, empty).table
<1> DEFINE r == PruneEmpty(t, id, empty)
<1>1. CASE id <= t.initial_tags \/ ~empty
  <2>1. r = t
    BY <1>1 DEF PruneEmpty
  <2>2. ~(empty /\ id > t.initial_tags)
    BY <1>1 DEF GoodTable, TagsType, Ids
  <2> QED
    BY <2>1, <2>2
<1>2. CASE ~(id <= t.initial_tags \/ ~empty)
  <2>1. /\ r.table = t.table \ {id} /\ r.initial_tags = t.initial_tags
        /\ r.max_tags = t.max_tags /\ r.focused_id = t.focused_id
        /\ r.focused_is_candidate = (t.focused_is_candidate \/ t.focused_id = id)
        /\ r.previous_id = t.previous_id /\ r.previous_valid = t.previous_valid
        /\ r.previous_is_candidate =
             (t.previous_is_candidate \/ (t.previous_valid /\ t.previous_id = id))
    BY <1>2 DEF PruneEmpty, GoodTable, TagsType
  <2> HIDE DEF r
  <2>2. CandidateSound(r)
    BY <2>1 DEF Choosable, CandidateSound, GoodTable, TagsType
  <2>3. PreviousSound(r)
    BY <2>1 DEF Choosable, PreviousSound, GoodTable, TagsType
  <2> QED
    BY <2>1, <2>2, <2>3 DEF Choosable, r
<1> QED
  BY <1>1, <1>2

\* A focus of an id knows whether it has a tag.
LEMMA SetFocusStateChoosable ==
  ASSUME NEW t, GoodTable(MaxLimit, t), Choosable(t), NEW id \in 1..t.max_tags
  PROVE  LET r == SetFocusState(t, id, id \notin t.table)
         IN /\ Choosable(r) /\ r.initial_tags = t.initial_tags
            /\ r.focused_id = id /\ r.table = t.table
<1> DEFINE r == SetFocusState(t, id, id \notin t.table)
<1>1. CASE t.focused_id = id /\ t.focused_is_candidate = (id \notin t.table)
  BY <1>1 DEF SetFocusState
<1>2. CASE ~(t.focused_id = id /\ t.focused_is_candidate = (id \notin t.table))
  <2>1. /\ r.table = t.table /\ r.initial_tags = t.initial_tags
        /\ r.max_tags = t.max_tags /\ r.focused_id = id
        /\ r.focused_is_candidate = (id \notin t.table)
        /\ r.previous_id = t.focused_id /\ r.previous_valid = TRUE
        /\ r.previous_is_candidate = t.focused_is_candidate
    BY <1>2 DEF SetFocusState, GoodTable, TagsType
  <2> HIDE DEF r
  <2>2. CandidateSound(r)
    BY <2>1 DEF CandidateSound
  <2>3. PreviousSound(r)
    BY <2>1 DEF Choosable, PreviousSound, CandidateSound, GoodTable, TableSound
  <2> QED
    BY <2>1, <2>2, <2>3 DEF Choosable, r
<1> QED
  BY <1>1, <1>2

LEMMA FocusIdChoosable ==
  ASSUME NEW t, GoodTable(MaxLimit, t), Choosable(t), NEW id
  PROVE  LET r == FocusId(t, id)
         IN /\ Choosable(r) /\ r.initial_tags = t.initial_tags
            /\ r.table = t.table
            /\ id \in 1..t.max_tags => r.focused_id = id
<1> DEFINE r == FocusId(t, id)
<1>1. CASE ~ValidId(t, id)
  BY <1>1 DEF FocusId, ValidId
<1>2. CASE ValidId(t, id) /\ t.focused_id = id
  <2>1. /\ r.table = t.table /\ r.initial_tags = t.initial_tags
        /\ r.max_tags = t.max_tags /\ r.focused_id = id
        /\ r.focused_is_candidate = (id \notin t.table)
        /\ r.previous_id = t.previous_id /\ r.previous_valid = t.previous_valid
        /\ r.previous_is_candidate = t.previous_is_candidate
    BY <1>2 DEF FocusId, GoodTable, TagsType
  <2> HIDE DEF r
  <2> QED
    BY <2>1 DEF Choosable, PreviousSound, CandidateSound, r
<1>3. CASE ValidId(t, id) /\ t.focused_id # id
  BY <1>3, SetFocusStateChoosable DEF FocusId, ValidId
<1> QED
  BY <1>1, <1>2, <1>3

LEMMA StepChoosable ==
  ASSUME NEW t, GoodTable(MaxLimit, t), Choosable(t), NEW direction \in Directions
  PROVE  LET r == Step(t, direction)
         IN Choosable(r) /\ r.initial_tags = t.initial_tags /\ r.table = t.table
<1> DEFINE met == Met(t, t.focused_id, direction, t.table)
           first == FirstMet(t, t.focused_id, direction, t.table)
           next == AdjacentId(t, direction)
<1>1. CASE t.focused_is_candidate /\ met = {}
  BY <1>1 DEF Step
<1>2. CASE t.focused_is_candidate /\ met # {}
  <2>1. first \in t.table /\ first \in 1..t.max_tags
    BY <1>2, FirstMetInGoal DEF GoodTable, TagsType, TableSound
  <2>2. Step(t, direction) = SetFocusState(t, first, first \notin t.table)
    BY <1>2, <2>1 DEF Step
  <2> HIDE DEF first
  <2> QED
    BY <2>1, <2>2, SetFocusStateChoosable
<1>3. CASE ~t.focused_is_candidate
  <2>1. next \in 1..t.max_tags
    BY AdjacentValid, LimitAssumption
  <2>2. Step(t, direction) = SetFocusState(t, next, next \notin t.table)
    BY <1>3 DEF Step
  <2> HIDE DEF next
  <2> QED
    BY <2>1, <2>2, SetFocusStateChoosable
<1> QED
  BY <1>1, <1>2, <1>3

\* The previous focus that is forgotten is the one that could not be selected.
LEMMA FocusLastChoosable ==
  ASSUME NEW t, GoodTable(MaxLimit, t), Choosable(t)
  PROVE  LET r == FocusLast(t)
         IN /\ Choosable(r) /\ r.initial_tags = t.initial_tags /\ r.table = t.table
            /\ ~r.previous_valid =>
                 /\ r.focused_id = t.focused_id
                 /\ r.focused_is_candidate = t.focused_is_candidate
<1> DEFINE r == FocusLast(t)
<1>1. CASE ~CanFocusLast(t)
  BY <1>1 DEF FocusLast
<1>2. CASE CanFocusLast(t) /\ ~PreviousIsCandidate(t) /\ t.previous_id \notin t.table
  <2>1. /\ r.table = t.table /\ r.initial_tags = t.initial_tags
        /\ r.max_tags = t.max_tags /\ r.focused_id = t.focused_id
        /\ r.focused_is_candidate = t.focused_is_candidate
        /\ r.previous_valid = FALSE
    BY <1>2 DEF FocusLast, GoodTable, TagsType
  <2> HIDE DEF r
  <2> QED
    BY <2>1 DEF Choosable, PreviousSound, CandidateSound, r
<1>3. CASE CanFocusLast(t) /\ (PreviousIsCandidate(t) \/ t.previous_id \in t.table)
  <2>1. /\ r.table = t.table /\ r.initial_tags = t.initial_tags
        /\ r.max_tags = t.max_tags /\ r.focused_id = t.previous_id
        /\ r.focused_is_candidate = PreviousIsCandidate(t)
        /\ r.previous_id = t.focused_id /\ r.previous_valid = TRUE
        /\ r.previous_is_candidate = t.focused_is_candidate
    BY <1>3 DEF FocusLast, CanFocusLast, GoodTable, TagsType
  <2> HIDE DEF r
  <2>2. CandidateSound(r)
    BY <1>3, <2>1 DEF CandidateSound, PreviousIsCandidate
  <2>3. PreviousSound(r)
    BY <2>1 DEF Choosable, PreviousSound, CandidateSound, GoodTable, TableSound
  <2> QED
    BY <2>1, <2>2, <2>3 DEF Choosable, r
<1> QED
  BY <1>1, <1>2, <1>3

\* A reload takes the focus from an id above the new maximum to a tag.
LEMMA CommitSetMaxChoosable ==
  ASSUME NEW t, GoodTable(MaxLimit, t), Choosable(t), NEW maximum \in Ids,
         PrepareSetMax(t, maximum)
  PROVE  LET r == CommitSetMax(t, maximum)
         IN /\ Choosable(r) /\ r.initial_tags = t.initial_tags /\ r.table = t.table
            /\ \/ /\ r.focused_id = t.focused_id
                  /\ r.focused_is_candidate = t.focused_is_candidate
               \/ t.focused_id \notin t.table
<1> DEFINE r == CommitSetMax(t, maximum)
           low == CHOOSE id \in t.table : \A other \in t.table : id <= other
<1>1. /\ t.table \subseteq 1..maximum /\ 1 \in t.table
      /\ t.max_tags \in 1..MaxLimit /\ t.focused_id \in 1..t.max_tags
      /\ maximum \in Nat /\ t.previous_id \in Nat
      /\ t.previous_valid \in BOOLEAN /\ t.focused_is_candidate \in BOOLEAN
  BY DEF PrepareSetMax, CanSetMax, GoodTable, TagsType, TableSound, Ids
<1>2. /\ r.table = t.table /\ r.initial_tags = t.initial_tags
      /\ r.max_tags = maximum
      /\ r.previous_id = t.previous_id
      /\ r.previous_valid = (t.previous_valid /\ t.previous_id <= maximum)
      /\ r.previous_is_candidate = t.previous_is_candidate
      /\ r.focused_id = IF t.focused_id <= maximum THEN t.focused_id ELSE low
      /\ r.focused_is_candidate =
           (t.focused_id <= maximum /\ t.focused_is_candidate)
  <2>1. CASE t.focused_id <= maximum
    BY <1>1, <2>1 DEF CommitSetMax, GoodTable, TagsType
  <2>2. CASE ~(t.focused_id <= maximum)
    <3>1. r = [[t EXCEPT !.max_tags = maximum,
                         !.previous_valid = t.previous_valid /\ t.previous_id <= maximum]
                 EXCEPT !.focused_id = low, !.focused_is_candidate = FALSE]
      BY <2>2 DEF CommitSetMax, GoodTable, TagsType
    <3> HIDE DEF r, low
    <3> QED
      BY <1>1, <2>2, <3>1 DEF GoodTable, TagsType
  <2> QED
    BY <2>1, <2>2
<1>3. low \in t.table
  <2>1. \A other \in t.table : 1 <= other
    BY <1>1
  <2> QED
    BY <1>1, <2>1
<1> HIDE DEF r, low
<1>4. CandidateSound(r)
  BY <1>1, <1>2, <1>3 DEF Choosable, CandidateSound
<1>5. PreviousSound(r)
  <2>1. SUFFICES ASSUME t.previous_valid, t.previous_id <= maximum
                 PROVE  /\ t.previous_id \in 1..maximum
                        /\ t.previous_id \in t.table \/ t.previous_is_candidate
    BY <1>2 DEF PreviousSound
  <2>2. /\ t.previous_id \in 1..t.max_tags
        /\ t.previous_id \in t.table \/ t.previous_is_candidate
    BY <2>1 DEF Choosable, PreviousSound
  <2> QED
    BY <1>1, <2>1, <2>2
<1>6. t.focused_id <= maximum \/ t.focused_id \notin t.table
  BY <1>1
<1> QED
  BY <1>1, <1>2, <1>4, <1>5, <1>6 DEF Choosable, r

LEMMA TagsInitChoosable ==
  ASSUME NEW initial \in Ids, NEW maximum \in Ids
  PROVE  Choosable(TagsInit(initial, maximum))
BY LimitAssumption DEF Choosable, CandidateSound, PreviousSound, TagsInit, Ids

-----------------------------------------------------------------------------
(* What a screen keeps when the world around it changes                    *)

\* What the lock suspends.
Focused(w, s) == ~w.locked => Drawn(w, s) /\ OnCurrent(w, s) /\ HasFocus(w, s)

\* The current tag depends on three fields of the table.
LEMMA CurrentSame ==
  ASSUME NEW w, NEW x, NEW o,
         x.tags[o].focused_id = w.tags[o].focused_id,
         x.tags[o].focused_is_candidate = w.tags[o].focused_is_candidate,
         w.tags[o].focused_id \in x.tags[o].table <=>
           w.tags[o].focused_id \in w.tags[o].table
  PROVE  Current(x, o) = Current(w, o)
BY DEF Current

\* The hidden tags of the outputs whose current tag is the same stay hidden.
LEMMA HiddenStays ==
  ASSUME NEW w, NEW x, NEW s, NEW A, HiddenBut(w, s, {}),
         \A v \in s.visible : w.tag[v] # NONE =>
           /\ x.tag[v] # NONE
           /\ \/ x.tag[v][1] \in A
              \/ /\ x.tag[v] = w.tag[v]
                 /\ Current(x, w.tag[v][1]) = Current(w, w.tag[v][1])
  PROVE  HiddenBut(x, s, A)
BY DEF HiddenBut

\* A change that does not reach the current tag of the focused output leaves
\* it as it was shown.
LEMMA FocusedStays ==
  ASSUME NEW w, NEW x, NEW s, Focused(w, s), x.locked = w.locked,
         s.focusedOutput # NONE =>
           /\ Current(x, s.focusedOutput) = Current(w, s.focusedOutput)
           /\ CurrentMembers(x, s.focusedOutput) = CurrentMembers(w, s.focusedOutput)
           /\ x.fullscreen = w.fullscreen
           /\ s.focusedView # NONE => x.tag[s.focusedView] = w.tag[s.focusedView]
  PROVE  Focused(x, s)
<1>1. s.focusedOutput # NONE =>
        Presentations(x, s.focusedOutput) = Presentations(w, s.focusedOutput)
  BY DEF Presentations, Fullscreens
<1> QED
  BY <1>1 DEF Focused, Drawn, OnCurrent, HasFocus

\* The outputs of P are all the screen is about.
LEMMA RightStays ==
  ASSUME NEW w, NEW x, NEW s, Right(w, s), NEW P,
         x.tag = w.tag, x.fullscreen = w.fullscreen, x.locked = w.locked,
         \A v \in s.visible : w.tag[v] # NONE => w.tag[v][1] \in P,
         s.focusedOutput \in P \cup {NONE},
         \A p \in P : Current(x, p) = Current(w, p)
  PROVE  Right(x, s)
<1>1. HiddenBut(x, s, {})
  BY DEF HiddenBut, Right
<1>2. Focused(w, s)
  BY DEF Right, Focused
<1>3. \A p \in P : CurrentMembers(x, p) = CurrentMembers(w, p)
  BY DEF CurrentMembers, Members
<1>4. Focused(x, s)
  BY <1>2, <1>3, FocusedStays
<1> QED
  BY <1>1, <1>4 DEF Right, Focused

\* A refresh of o removes o from the outputs that may show a hidden tag.
LEMMA RefreshFocusesToo ==
  ASSUME NEW w, WorldOK(w), Owned(w), NEW s, ScreenOK(w, s), NEW o \in Outputs,
         NEW A, HiddenBut(w, s, A \cup {o}), s.focusedOutput # o => Focused(w, s),
         NEW r \in Refresh(w, o, s)
  PROVE  /\ HiddenBut(w, r, A) /\ Focused(w, r) /\ ScreenOK(w, r)
         /\ r.focusedOutput = s.focusedOutput
<1>1. /\ HiddenBut(w, r, A)
      /\ r.focusedOutput = s.focusedOutput
      /\ s.focusedOutput = o =>
           Drawn(w, r) /\ (~w.locked => OnCurrent(w, r) /\ HasFocus(w, r))
      /\ s.focusedOutput # o =>
           r.focusedView = s.focusedView /\ (Drawn(w, s) => Drawn(w, r))
  BY RefreshRight
<1>2. Focused(w, r)
  BY <1>1 DEF Focused, OnCurrent, HasFocus
<1>3. ScreenOK(w, r)
  BY RefreshSettles
<1> QED
  BY <1>1, <1>2, <1>3

\* leme_view_focus of a view of the current tag, whatever other outputs show.
LEMMA FocusOnFocuses ==
  ASSUME NEW w, WorldOK(w), NEW s, ScreenOK(w, s), Focused(w, s),
         s.focusedOutput # NONE, NEW v \in CurrentMembers(w, s.focusedOutput)
  PROVE  LET r == FocusOn(w, s, v)
         IN /\ Focused(w, r) /\ r.focusedOutput = s.focusedOutput
            /\ \A A : HiddenBut(w, s, A) => HiddenBut(w, r, A)
<1> DEFINE r == FocusOn(w, s, v)
<1>1. CASE w.locked
  BY <1>1 DEF FocusOn
<1>2. CASE ~w.locked
  <2>1. v \in Views /\ w.tag[v] = Current(w, s.focusedOutput)
    BY DEF CurrentMembers, Members
  <2>2. /\ r.focusedView = v /\ r.focusedOutput = s.focusedOutput
        /\ r.visible = s.visible
    BY <1>2 DEF FocusOn, ScreenOK, ScreenType
  <2> HIDE DEF r
  <2>3. Focused(w, r)
    BY <1>2, <2>1, <2>2, ViewsAssumption DEF Focused, Drawn, OnCurrent, HasFocus
  <2>4. \A A : HiddenBut(w, s, A) => HiddenBut(w, r, A)
    BY <2>2 DEF HiddenBut
  <2> QED
    BY <2>2, <2>3, <2>4 DEF r
<1> QED
  BY <1>1, <1>2

-----------------------------------------------------------------------------
(* The invariant.  Outputs only come, so the fallback, which stands in when *)
(* the last one leaves, is never plugged.                                  *)

\* What can be selected on an output o with table t while the tags of the
\* views are g.
Selectable(t, o, g) ==
  /\ Choosable(t)
  /\ \A id \in t.table : id > t.initial_tags => \E v \in Views : g[v] = <<o, id>>

Kept ==
  /\ Headless \notin plugged
  /\ \A o \in plugged : Selectable(tags[o], o, tag)
  /\ Right(World, Screen)

StayInv == SafetyInv /\ Kept

\* The invariant holds what the runs check.
LEMMA StayInvImplies ==
  ASSUME StayInv
  PROVE  FocusOnCurrentTag /\ FocusWhenPossible /\ ScreenSound /\ SelectionSound
<1>1. /\ Right(World, Screen) /\ WorldOK(World)
      /\ focusedOutput \in Outputs \cup {NONE} /\ focusedView \in Views \cup {NONE}
      /\ visible \subseteq Views
      /\ focusedOutput # NONE => focusedOutput \in Outputs
  BY DEF StayInv, Kept, SafetyInv, ScreenInv, Settled, ScreenOK, ScreenType, Screen
<1>2. /\ World.locked = locked /\ World.tag = tag /\ World.fullscreen = fullscreen
      /\ World.tags = tags
      /\ Screen.visible = visible /\ Screen.focusedOutput = focusedOutput
      /\ Screen.focusedView = focusedView
  BY DEF World, Screen
<1>3. FocusOnCurrentTag
  BY <1>1, <1>2 DEF FocusOnCurrentTag, Right, OnCurrent
<1>4. FocusWhenPossible
  BY <1>1, <1>2 DEF FocusWhenPossible, Right, HasFocus
<1>5. HiddenTagsHidden
  BY <1>1, <1>2 DEF HiddenTagsHidden, Right, HiddenBut
<1>6. FocusedOutputShown
  BY <1>1, <1>2 DEF FocusedOutputShown, Right, Drawn
<1>7. FocusedViewOnScreen
  <2>1. SUFFICES ASSUME ~locked, focusedView # NONE
                 PROVE  \/ focusedView \in visible
                        \/ \E f \in visible \cap fullscreen : tag[f] = tag[focusedView]
    BY DEF FocusedViewOnScreen
  <2> DEFINE o == focusedOutput
             M == CurrentMembers(World, o)
  <2>2. o # NONE /\ tag[focusedView] = Current(World, o) /\ tag[focusedView] # NONE
    BY <1>1, <1>2, <1>3, <2>1
    DEF FocusOnCurrentTag, StayInv, SafetyInv, ScreenInv, Settled, ScreenOK
  <2>3. focusedView \in M
    BY <1>1, <1>2, <2>1, <2>2 DEF CurrentMembers, Members
  <2>4. visible \cap M \in Presentations(World, o)
    BY <1>6, <2>1, <2>2 DEF FocusedOutputShown
  <2>5. CASE Fullscreens(World, o) = {}
    BY <2>3, <2>4, <2>5 DEF Presentations
  <2>6. CASE Fullscreens(World, o) # {}
    <3>1. PICK f \in Fullscreens(World, o) : visible \cap M = {f}
      BY <2>4, <2>6 DEF Presentations
    <3>2. f \in visible /\ f \in M /\ f \in fullscreen
      BY <1>2, <3>1 DEF Fullscreens
    <3>3. tag[f] = Current(World, o)
      BY <1>2, <2>2, <3>2 DEF CurrentMembers, Members
    <3> QED
      BY <2>2, <3>2, <3>3
  <2> QED
    BY <2>5, <2>6
<1>8. SelectionSound
  <2>1. \A o \in plugged : Selectable(tags[o], o, tag)
    BY DEF StayInv, Kept
  <2>2. CandidatesSound /\ PreviousTagsSound
    BY <2>1 DEF CandidatesSound, PreviousTagsSound, Selectable, Choosable
  <2>3. AdaptiveTagsOccupied
    BY <1>2, <2>1 DEF AdaptiveTagsOccupied, Selectable, Members
  <2> QED
    BY <2>2, <2>3 DEF SelectionSound
<1> QED
  BY <1>3, <1>4, <1>5, <1>6, <1>7, <1>8 DEF ScreenSound

\* The parts of the invariant the steps below read.
LEMMA StayFacts ==
  ASSUME SafetyInv
  PROVE  /\ WorldOK(World) /\ Owned(World) /\ ScreenOK(World, Screen)
         /\ plugged \subseteq Outputs /\ enabled \subseteq plugged
         /\ tags \in [Outputs -> TagsType(MaxLimit)]
         /\ tag \in [Views -> Keys \cup {NONE}]
         /\ \A v \in Views : tag[v] # NONE =>
              /\ tag[v][1] \in plugged /\ tag[v][1] \in Outputs /\ tag[v][2] \in Ids
              /\ tag[v] = <<tag[v][1], tag[v][2]>>
              /\ tag[v][2] \in tags[tag[v][1]].table
         /\ focusedOutput # NONE => focusedOutput \in plugged
         /\ visible \subseteq Views
<1>1. WorldOK(World) /\ ScreenOK(World, Screen) /\ visible \subseteq Views
  BY DEF SafetyInv, ScreenInv, Settled, ScreenOK, ScreenType, Screen
<1>2. /\ plugged \subseteq Outputs /\ enabled \subseteq plugged
      /\ tags \in [Outputs -> TagsType(MaxLimit)]
      /\ tag \in [Views -> Keys \cup {NONE}]
  BY <1>1 DEF SafetyInv, OutputsOK, WorldOK, World
<1>3. Owned(World)
  BY DEF SafetyInv, OwnedTagInTable, Owned, World
<1>4. \A v \in Views : tag[v] # NONE =>
        /\ tag[v][1] \in plugged /\ tag[v][1] \in Outputs /\ tag[v][2] \in Ids
        /\ tag[v] = <<tag[v][1], tag[v][2]>>
        /\ tag[v][2] \in tags[tag[v][1]].table
  BY <1>2 DEF SafetyInv, OwnedTagInTable, Keys
<1> QED
  BY <1>1, <1>2, <1>3, <1>4, FocusedOutputPlugged

LEMMA StayFactsNext ==
  ASSUME SafetyInv'
  PROVE  WorldOK(World') /\ Owned(World')
<1>1. WorldOK(World')
  BY DEF SafetyInv
<1>2. OwnedTagInTable'
  BY DEF SafetyInv
<1>3. World'.tag = tag' /\ World'.tags = tags'
  BY DEF World
<1> QED
  BY <1>1, <1>2, <1>3 DEF OwnedTagInTable, Owned

\* Show makes a right screen the current one.
LEMMA ShowKept ==
  ASSUME Headless \notin plugged', \A o \in plugged' : Selectable(tags'[o], o, tag'),
         NEW s, s \in ScreenType, Right(World', s), Show(s)
  PROVE  Kept'
<1>1. Screen' = s
  BY DEF Screen, Show, ScreenType
<1> QED
  BY <1>1 DEF Kept

\* A step that only draws the screen again.
LEMMA RedrawKept ==
  ASSUME StayInv, NEW S, Redraw(S), \A s \in S : s \in ScreenType /\ Right(World, s)
  PROVE  Kept'
<1>1. /\ UNCHANGED <<outputVars, tags, config, tag, fullscreen, locked, crashed>>
      /\ \E s \in S : Show(s)
  BY DEF Redraw
<1>2. World' = World /\ plugged' = plugged /\ tags' = tags /\ tag' = tag
  BY <1>1 DEF World, outputVars
<1>3. PICK s \in S : Show(s)
  BY <1>1
<1>4. Right(World', s) /\ s \in ScreenType
  BY <1>2, <1>3
<1>5. Headless \notin plugged' /\ \A o \in plugged' : Selectable(tags'[o], o, tag')
  BY <1>2 DEF StayInv, Kept
<1> QED
  BY <1>3, <1>4, <1>5, ShowKept

\* A command that changes what the focused table selects, and may free an
\* empty tag.
LEMMA RetagKept ==
  ASSUME StayInv, SafetyInv', focusedOutput # NONE, NEW t, Choosable(t),
         t.initial_tags = FocusedTags.initial_tags, t.table \subseteq FocusedTags.table,
         Retag(t)
  PROVE  Kept'
<1> DEFINE f == focusedOutput
<1>1. /\ tags' = [tags EXCEPT ![f] = t]
      /\ UNCHANGED <<outputVars, config, tag, fullscreen, locked, crashed>>
      /\ \E s \in RefreshFocused(World', Screen) : Show(s)
  BY DEF Retag
<1>2. SafetyInv /\ Kept
  BY DEF StayInv
<1>3. f \in plugged /\ f \in Outputs /\ tags \in [Outputs -> TagsType(MaxLimit)]
      /\ plugged \subseteq Outputs
  BY <1>2, StayFacts
<1>4. \A p \in Outputs : tags'[p] = IF p = f THEN t ELSE tags[p]
  BY <1>1, <1>3
<1>5. \A p \in Outputs \ {f} : Current(World', p) = Current(World, p)
  BY <1>4 DEF Current, World
<1>6. World'.tag = World.tag /\ Screen.focusedOutput = f /\ Screen.visible = visible
      /\ World.tag = tag
  BY <1>1 DEF World, Screen
<1>7. HiddenBut(World', Screen, {f})
  <2>1. \A v \in visible : tag[v] # NONE => tag[v][1] \in Outputs
    BY <1>2, StayFacts
  <2> QED
    BY <1>2, <1>5, <1>6, <2>1, HiddenStays DEF Kept, Right
<1>8. Settled(World', Screen) /\ WorldOK(World') /\ Owned(World')
  BY <1>1, <1>2, ScreenStaysSettled, StayFactsNext
<1>9. PICK s \in RefreshFocused(World', Screen) : Show(s)
  BY <1>1
<1>10. Right(World', s)
  BY <1>6, <1>7, <1>8, <1>9, RefreshFocusedRight DEF Settled
<1>11. s \in ScreenType
  BY <1>8, <1>9, RefreshFocusedSettles DEF Settled, ScreenOK
<1>12. \A p \in plugged' : Selectable(tags'[p], p, tag')
  <2>1. plugged' = plugged /\ tag' = tag
    BY <1>1 DEF outputVars
  <2>2. \A p \in plugged : Selectable(tags[p], p, tag)
    BY <1>2 DEF Kept
  <2>3. Selectable(t, f, tag)
    BY <1>3, <2>2 DEF Selectable, FocusedTags
  <2> QED
    BY <1>3, <1>4, <2>1, <2>2, <2>3
<1>13. Headless \notin plugged'
  BY <1>1, <1>2 DEF Kept, outputVars
<1> QED
  BY <1>9, <1>10, <1>11, <1>12, <1>13, ShowKept

-----------------------------------------------------------------------------
(* Commands on the focused table and on the screen                         *)

\* The focused table can be chosen from.
LEMMA FocusedTableChoosable ==
  ASSUME StayInv, focusedOutput # NONE
  PROVE  GoodTable(MaxLimit, FocusedTags) /\ Choosable(FocusedTags)
<1>1. focusedOutput \in plugged
  BY FocusedOutputPlugged DEF StayInv
<1> QED
  BY <1>1, PluggedTableGood DEF StayInv, Kept, Selectable, FocusedTags

\* Without a focused output a command crashes, and leaves the screen.
LEMMA CrashKept ==
  ASSUME StayInv, Crash
  PROVE  Kept'
<1>1. /\ UNCHANGED <<outputVars, tags, config, tag, fullscreen, locked>>
      /\ UNCHANGED screenVars
  BY DEF Crash
<1>2. World' = World /\ Screen' = Screen /\ plugged' = plugged /\ tags' = tags
      /\ tag' = tag
  BY <1>1 DEF World, Screen, outputVars, screenVars
<1> QED
  BY <1>2 DEF StayInv, Kept

\* focus_next_tag and focus_previous_tag.
LEMMA FocusStepKept ==
  ASSUME StayInv, SafetyInv', NEW direction \in Directions, FocusStep(direction)
  PROVE  Kept'
<1>1. CASE focusedOutput = NONE
  BY <1>1, CrashKept DEF FocusStep
<1>2. CASE focusedOutput # NONE
  <2> DEFINE t == Step(FocusedTags, direction)
  <2>1. Choosable(t) /\ t.initial_tags = FocusedTags.initial_tags
        /\ t.table = FocusedTags.table
    BY <1>2, FocusedTableChoosable, StepChoosable
  <2>2. Retag(t)
    BY <1>2 DEF FocusStep
  <2> HIDE DEF t
  <2> QED
    BY <1>2, <2>1, <2>2, RetagKept
<1> QED
  BY <1>1, <1>2

\* focus_tag.
LEMMA FocusTagKept ==
  ASSUME StayInv, SafetyInv', NEW id \in Ids, FocusTag(id)
  PROVE  Kept'
<1>1. CASE focusedOutput = NONE
  BY <1>1, CrashKept DEF FocusTag
<1>2. CASE focusedOutput # NONE
  <2> DEFINE t == FocusId(FocusedTags, id)
  <2>1. Choosable(t) /\ t.initial_tags = FocusedTags.initial_tags
        /\ t.table = FocusedTags.table
    BY <1>2, FocusedTableChoosable, FocusIdChoosable
  <2>2. Retag(t)
    BY <1>2 DEF FocusTag
  <2> HIDE DEF t
  <2> QED
    BY <1>2, <2>1, <2>2, RetagKept
<1> QED
  BY <1>1, <1>2

\* focus_last_tag, which refreshes nothing when it only forgets the previous
\* tag.
LEMMA FocusLastTagKept ==
  ASSUME StayInv, SafetyInv', FocusLastTag
  PROVE  Kept'
<1> DEFINE f == focusedOutput
           t == FocusLast(FocusedTags)
<1>1. CASE f = NONE
  BY <1>1, CrashKept DEF FocusLastTag
<1>2. CASE f # NONE
  <2>1. /\ Choosable(t) /\ t.initial_tags = FocusedTags.initial_tags
        /\ t.table = FocusedTags.table
        /\ ~t.previous_valid =>
             /\ t.focused_id = FocusedTags.focused_id
             /\ t.focused_is_candidate = FocusedTags.focused_is_candidate
    BY <1>2, FocusedTableChoosable, FocusLastChoosable
  <2>2. IF t.previous_valid THEN Retag(t)
        ELSE /\ tags' = [tags EXCEPT ![f] = t]
             /\ UNCHANGED <<outputVars, config, tag, fullscreen, locked, screenVars,
                            crashed>>
    BY <1>2 DEF FocusLastTag, FocusedTags
  <2> HIDE DEF t
  <2>3. CASE t.previous_valid
    BY <1>2, <2>1, <2>2, <2>3, RetagKept
  <2>4. CASE ~t.previous_valid
    <3>1. /\ tags' = [tags EXCEPT ![f] = t]
          /\ UNCHANGED <<outputVars, config, tag, fullscreen, locked, screenVars,
                         crashed>>
      BY <2>2, <2>4
    <3>2. /\ f \in plugged /\ f \in Outputs /\ plugged \subseteq Outputs
          /\ tags \in [Outputs -> TagsType(MaxLimit)]
          /\ visible \subseteq Views
          /\ \A v \in Views : tag[v] # NONE => tag[v][1] \in Outputs
      BY <1>2, StayFacts DEF StayInv
    <3>3. \A p \in Outputs : tags'[p] = IF p = f THEN t ELSE tags[p]
      BY <3>1, <3>2
    <3>4. \A p \in Outputs : Current(World', p) = Current(World, p)
      BY <2>1, <2>4, <3>3 DEF Current, World, FocusedTags
    <3>5. /\ World'.tag = World.tag /\ World'.fullscreen = World.fullscreen
          /\ World'.locked = World.locked /\ World.tag = tag
          /\ Screen.focusedOutput = f /\ Screen.visible = visible
          /\ Screen' = Screen
      BY <3>1 DEF World, Screen, screenVars
    <3>6. Right(World', Screen)
      BY <3>2, <3>4, <3>5, RightStays DEF StayInv, Kept
    <3>7. plugged' = plugged /\ tag' = tag
      BY <3>1 DEF outputVars
    <3>8. \A p \in plugged : Selectable(tags'[p], p, tag)
      BY <2>1, <3>2, <3>3, SMTT(60) DEF StayInv, Kept, Selectable, FocusedTags
    <3> QED
      BY <3>5, <3>6, <3>7, <3>8 DEF StayInv, Kept
  <2> QED
    BY <2>3, <2>4
<1> QED
  BY <1>1, <1>2

\* remove_empty_tag.
LEMMA RemoveEmptyTagKept ==
  ASSUME StayInv, SafetyInv', NEW id \in Ids, RemoveEmptyTag(id)
  PROVE  Kept'
<1> DEFINE t == PruneEmpty(FocusedTags, id, TRUE)
<1>1. CASE focusedOutput = NONE
  BY <1>1, CrashKept DEF RemoveEmptyTag
<1>2. CASE focusedOutput # NONE /\ Retag(t)
  <2>1. GoodTable(MaxLimit, FocusedTags) /\ Choosable(FocusedTags)
    BY <1>2, FocusedTableChoosable
  <2>2. Choosable(t) /\ t.initial_tags = FocusedTags.initial_tags
    BY <2>1, PruneChoosable
  <2>3. t.table \subseteq FocusedTags.table
    BY <2>1 DEF PruneEmpty, GoodTable, TagsType
  <2> HIDE DEF t
  <2> QED
    BY <1>2, <2>2, <2>3, RetagKept
<1>3. CASE UNCHANGED vars
  <2>1. /\ UNCHANGED <<outputVars, tags, config, tag, fullscreen, locked>>
        /\ UNCHANGED screenVars
    BY <1>3 DEF vars
  <2>2. World' = World /\ Screen' = Screen /\ plugged' = plugged /\ tags' = tags
        /\ tag' = tag
    BY <2>1 DEF World, Screen, outputVars, screenVars
  <2> QED
    BY <2>2 DEF StayInv, Kept
<1> QED
  BY <1>1, <1>2, <1>3 DEF RemoveEmptyTag

\* set_layout and switch_layout.
LEMMA SetLayoutKept ==
  ASSUME StayInv, SafetyInv', SetLayout
  PROVE  Kept'
BY FocusedTableChoosable, RetagKept DEF SetLayout

\* Focusing a view of the current tag of the focused output.
LEMMA FocusViewKept ==
  ASSUME StayInv, ~locked, focusedOutput # NONE,
         NEW v \in CurrentMembers(World, focusedOutput),
         Redraw({FocusOn(World, Screen, v)})
  PROVE  Kept'
<1> DEFINE r == FocusOn(World, Screen, v)
<1>1. Screen.focusedOutput = focusedOutput /\ World.locked = locked
  BY DEF World, Screen
<1>2. WorldOK(World) /\ ScreenOK(World, Screen) /\ focusedOutput \in Outputs
  BY StayFacts DEF StayInv
<1>3. Right(World, r)
  BY <1>1, <1>2, FocusOnRight DEF StayInv, Kept, Right
<1>4. r \in ScreenType
  <2>1. v \in Views /\ World.tag[v] # NONE
    BY <1>2, CurrentMembersOwned
  <2> QED
    BY <1>2, <2>1, FocusOnSettles DEF ScreenOK
<1> HIDE DEF r
<1> QED
  BY <1>3, <1>4, RedrawKept DEF r

LEMMA FocusDirectionKept ==
  ASSUME StayInv, NEW v \in Views, FocusDirection(v)
  PROVE  Kept'
<1>1. v \in CurrentMembers(World, focusedOutput)
  BY DEF FocusDirection, Directional, Fullscreens
<1> QED
  BY <1>1, FocusViewKept DEF FocusDirection, CommandReady

LEMMA FocusPreviousViewKept ==
  ASSUME StayInv, NEW v \in Views, FocusPreviousView(v)
  PROVE  Kept'
BY FocusViewKept DEF FocusPreviousView, CommandReady

\* A view whose id is the focused one is on the current tag.
LEMMA FocusedIdCurrent ==
  ASSUME StayInv, NEW v \in Views, tag[v] # NONE,
         tags[tag[v][1]].focused_id = tag[v][2]
  PROVE  /\ v \in CurrentMembers(World, tag[v][1])
         /\ Current(World, tag[v][1]) = tag[v]
<1> DEFINE o == tag[v][1]
<1>1. /\ o \in plugged /\ o \in Outputs /\ tag[v] = <<o, tag[v][2]>>
      /\ tag[v][2] \in tags[o].table
  BY StayFacts DEF StayInv
<1>2. CandidateSound(tags[o])
  BY <1>1 DEF StayInv, Kept, Selectable, Choosable
<1>3. Current(World, o) = tag[v]
  BY <1>1, <1>2 DEF CandidateSound, Current, World
<1> QED
  BY <1>3 DEF CurrentMembers, Members, World

\* xdg-activation of a view of the focused output.
LEMMA DesktopActivateKept ==
  ASSUME Confined, StayInv, NEW v \in Views, DesktopActivate(v)
  PROVE  Kept'
<1>1. /\ tag[v] # NONE /\ focusedOutput # NONE /\ tag[v][1] = focusedOutput
      /\ ~locked /\ tag[v][2] = tags[focusedOutput].focused_id
      /\ Redraw({FocusOn(World, Screen, v)})
  BY DEF DesktopActivate, Confined, CommandReady, FocusedTags
<1> QED
  BY <1>1, FocusedIdCurrent, FocusViewKept

\* leme_output_set_focused of an enabled output.
LEMMA ApproachRight ==
  ASSUME StayInv, NEW o \in enabled, NEW s \in SetFocused(World, o, Screen)
  PROVE  /\ Right(World, s) /\ s.focusedOutput = o /\ ScreenOK(World, s)
         /\ o \in plugged /\ o \in Outputs /\ o # NONE
<1>1. /\ WorldOK(World) /\ Owned(World) /\ ScreenOK(World, Screen)
      /\ o \in plugged /\ o \in Outputs
  BY StayFacts DEF StayInv
<1>2. o \in World.enabled /\ HiddenBut(World, Screen, {})
  BY DEF World, StayInv, Kept, Right
<1>3. Right(World, s) /\ s.focusedOutput = o
  BY <1>1, <1>2, SetFocusedRight
<1>4. ScreenOK(World, s)
  BY <1>1, <1>2, FocusEnabledOutput DEF Settled
<1> QED
  BY <1>1, <1>3, <1>4, ViewsAssumption

LEMMA FocusOutputKept ==
  ASSUME StayInv, NEW o \in Outputs, FocusOutput(o)
  PROVE  Kept'
<1> DEFINE S == SetFocused(World, o, Screen)
<1>1. o \in enabled /\ Redraw(S)
  BY DEF FocusOutput
<1>2. \A s \in S : s \in ScreenType /\ Right(World, s)
  BY <1>1, ApproachRight DEF ScreenOK
<1> HIDE DEF S
<1> QED
  BY <1>1, <1>2, RedrawKept

\* A directional focus that crosses to another output.
LEMMA FocusAcrossOutputsKept ==
  ASSUME StayInv, NEW o \in Outputs, FocusAcrossOutputs(o)
  PROVE  Kept'
<1> DEFINE Landed(s) ==
             IF Directional(World, s, o) = {} THEN {s}
             ELSE {FocusOn(World, s, v) : v \in Directional(World, s, o)}
           S == UNION {Landed(s) : s \in SetFocused(World, o, Screen)}
<1>1. o \in enabled /\ Redraw(S) /\ ~locked
  BY DEF FocusAcrossOutputs, CommandReady
<1>2. ASSUME NEW s \in SetFocused(World, o, Screen), NEW r \in Landed(s)
      PROVE  r \in ScreenType /\ Right(World, r)
  <2>1. /\ Right(World, s) /\ s.focusedOutput = o /\ ScreenOK(World, s)
        /\ o \in plugged /\ o \in Outputs /\ o # NONE
    BY <1>1, ApproachRight
  <2>2. CASE r = s
    BY <2>1, <2>2 DEF ScreenOK
  <2>3. CASE \E v \in Directional(World, s, o) : r = FocusOn(World, s, v)
    <3>1. PICK v \in Directional(World, s, o) : r = FocusOn(World, s, v)
      BY <2>3
    <3>2. v \in CurrentMembers(World, o)
      BY DEF Directional, Fullscreens
    <3>3. WorldOK(World) /\ World.locked = locked
      BY StayFacts DEF StayInv, World
    <3>4. v \in Views /\ World.tag[v] # NONE
      BY <3>2, <3>3, CurrentMembersOwned
    <3>5. r \in ScreenType
      BY <2>1, <3>1, <3>3, <3>4, FocusOnSettles DEF ScreenOK
    <3>6. Right(World, r)
      BY <1>1, <2>1, <3>1, <3>2, <3>3, FocusOnRight DEF Right
    <3> QED
      BY <3>5, <3>6
  <2> QED
    BY <2>2, <2>3
<1>3. \A r \in S : r \in ScreenType /\ Right(World, r)
  BY <1>2
<1> HIDE DEF S
<1> QED
  BY <1>1, <1>3, RedrawKept

\* Pointer motion over an enabled output.
LEMMA PointerMotionKept ==
  ASSUME Confined, StayInv, NEW o \in Outputs, PointerMotion(o)
  PROVE  Kept'
<1> DEFINE S == Motion(World, Screen, o)
<1>1. o \in World.enabled /\ Redraw(S)
  BY DEF PointerMotion, World
<1>2. WorldOK(World) /\ Owned(World) /\ ScreenOK(World, Screen) /\ Right(World, Screen)
      /\ Settled(World, Screen)
  BY StayFacts DEF StayInv, Kept, SafetyInv, ScreenInv
<1>3. \A s \in S : s \in ScreenType /\ Right(World, s)
  BY <1>1, <1>2, MotionRight, MotionSettles DEF Settled, ScreenOK
<1> HIDE DEF S
<1> QED
  BY <1>1, <1>3, RedrawKept

-----------------------------------------------------------------------------
(* Requests of panels and clients                                          *)

\* A request focuses the output o, selects a tag of it and refreshes it.
LEMMA SelectTagRight ==
  ASSUME StayInv, SafetyInv', NEW o \in enabled, NEW id \in Ids,
         tags' = [tags EXCEPT ![o] = FocusId(@, id)],
         UNCHANGED <<outputVars, config, tag, fullscreen, locked, crashed>>,
         NEW r \in Approach(o), NEW s \in RefreshFocused(World', r)
  PROVE  /\ Right(World', s) /\ s.focusedOutput = o /\ ScreenOK(World', s)
         /\ Headless \notin plugged'
         /\ \A p \in plugged' : Selectable(tags'[p], p, tag')
<1>0. SafetyInv /\ Kept /\ o \in plugged /\ o \in Outputs /\ o # NONE
  BY StayFacts, ViewsAssumption DEF StayInv
<1>1. Right(World, r) /\ r.focusedOutput = o /\ ScreenOK(World, r)
  <2>1. CASE r = Screen /\ o = focusedOutput
    BY <1>0, <2>1, StayFacts DEF Kept, Screen
  <2>2. CASE r \in SetFocused(World, o, Screen)
    BY <2>2, ApproachRight
  <2> QED
    BY <2>1, <2>2 DEF Approach
<1>2. tags \in [Outputs -> TagsType(MaxLimit)] /\ plugged \subseteq Outputs
  BY <1>0, StayFacts
<1>3. \A p \in Outputs : tags'[p] = IF p = o THEN FocusId(tags[o], id) ELSE tags[p]
  BY <1>2
<1>4. /\ World'.tag = World.tag /\ World.tag = tag /\ plugged' = plugged
      /\ tag' = tag
  BY DEF World, outputVars
<1>5. \A p \in Outputs \ {o} : Current(World', p) = Current(World, p)
  BY <1>3 DEF Current, World
<1>6. ScreenOK(World', r)
  BY <1>1, <1>4 DEF ScreenOK
<1>7. HiddenBut(World', r, {o})
  <2>1. \A v \in r.visible : tag[v] # NONE => tag[v][1] \in Outputs
    BY <1>0, <1>1, StayFacts DEF ScreenOK, ScreenType
  <2>2. HiddenBut(World, r, {})
    BY <1>1 DEF Right
  <2> QED
    BY <1>4, <1>5, <2>1, <2>2, HiddenStays
<1>8. WorldOK(World') /\ Owned(World')
  BY StayFactsNext
<1>9. Right(World', s) /\ s.focusedOutput = o
  BY <1>0, <1>1, <1>6, <1>7, <1>8, RefreshFocusedRight
<1>10. ScreenOK(World', s)
  BY <1>0, <1>1, <1>6, <1>8, RefreshFocusedSettles DEF Settled
<1>11. Selectable(FocusId(tags[o], id), o, tag)
  <2> DEFINE t == FocusId(tags[o], id)
  <2>1. Choosable(t) /\ t.initial_tags = tags[o].initial_tags /\ t.table = tags[o].table
    BY <1>0, PluggedTableGood, FocusIdChoosable DEF Kept, Selectable
  <2> HIDE DEF t
  <2> QED
    BY <1>0, <2>1 DEF Kept, Selectable, t
<1>12. \A p \in plugged' : Selectable(tags'[p], p, tag')
  BY <1>0, <1>2, <1>3, <1>4, <1>11 DEF Kept
<1> QED
  BY <1>0, <1>4, <1>9, <1>10, <1>12 DEF Kept

LEMMA WorkspaceActivateKept ==
  ASSUME Staying, StayInv, SafetyInv', NEW o \in Outputs, NEW id \in Ids,
         WorkspaceActivate(o, id)
  PROVE  Kept'
<1>1. /\ o \in enabled
      /\ tags' = [tags EXCEPT ![o] = FocusId(@, id)]
      /\ UNCHANGED <<outputVars, config, tag, fullscreen, locked, crashed>>
      /\ \E r \in Approach(o) : \E s \in RefreshFocused(World', r) : Show(s)
  BY DEF WorkspaceActivate, Reachable, Staying, Confined
<1>2. PICK r \in Approach(o) : \E s \in RefreshFocused(World', r) : Show(s)
  BY <1>1
<1>3. PICK s \in RefreshFocused(World', r) : Show(s)
  BY <1>2
<1>4. /\ Right(World', s) /\ ScreenOK(World', s) /\ Headless \notin plugged'
      /\ \A p \in plugged' : Selectable(tags'[p], p, tag')
  BY <1>1, SelectTagRight
<1> QED
  BY <1>3, <1>4, ShowKept DEF ScreenOK

LEMMA ToplevelActivateKept ==
  ASSUME Staying, StayInv, SafetyInv', NEW v \in Views, ToplevelActivate(v)
  PROVE  Kept'
<1> DEFINE o == tag[v][1]
           id == tag[v][2]
<1>1. /\ o \in plugged /\ o \in Outputs /\ id \in Ids /\ tag[v] = <<o, id>>
      /\ id \in tags[o].table /\ tag[v] # NONE /\ ~locked
      /\ plugged \subseteq Outputs
      /\ tags \in [Outputs -> TagsType(MaxLimit)]
  BY StayFacts DEF ToplevelActivate, StayInv, CommandReady
<1>2. CASE o = focusedOutput /\ tags[o].focused_id = id
  <2>1. Redraw({FocusOn(World, Screen, v)})
    BY <1>2 DEF ToplevelActivate
  <2>2. focusedOutput # NONE
    BY <1>1, <1>2, ViewsAssumption
  <2> QED
    BY <1>1, <1>2, <2>1, <2>2, FocusedIdCurrent, FocusViewKept
<1>3. CASE ~(o = focusedOutput /\ tags[o].focused_id = id)
  <2>1. /\ o \in enabled
        /\ tags' = [tags EXCEPT ![o] = FocusId(@, id)]
        /\ UNCHANGED <<outputVars, config, tag, fullscreen, locked, crashed>>
        /\ \E r \in Approach(o) :
           \E s \in RefreshFocused(World', r) : Show(FocusOn(World', s, v))
    BY <1>3 DEF ToplevelActivate, Reachable, Staying, Confined
  <2>2. PICK r \in Approach(o) :
          \E s \in RefreshFocused(World', r) : Show(FocusOn(World', s, v))
    BY <2>1
  <2>3. PICK s \in RefreshFocused(World', r) : Show(FocusOn(World', s, v))
    BY <2>2
  <2>4. /\ Right(World', s) /\ ScreenOK(World', s) /\ Headless \notin plugged'
        /\ \A p \in plugged' : Selectable(tags'[p], p, tag')
        /\ s.focusedOutput = o
    <3> HIDE DEF o, id
    <3> QED
      BY <1>1, <2>1, SelectTagRight
  <2> DEFINE t == FocusId(tags[o], id)
  <2>5. t.focused_id = id /\ t.table = tags[o].table /\ t.focused_is_candidate = FALSE
    <3>1. GoodTable(MaxLimit, tags[o]) /\ Choosable(tags[o]) /\ id \in 1..tags[o].max_tags
      BY <1>1, PluggedTableGood DEF StayInv, Kept, Selectable, GoodTable, TableSound
    <3>2. Choosable(t) /\ t.table = tags[o].table /\ t.focused_id = id
      BY <3>1, FocusIdChoosable
    <3>3. GoodTable(MaxLimit, t)
      BY <1>1, <3>1, FocusIdGood, LimitAssumption DEF Ids
    <3> HIDE DEF t
    <3> QED
      BY <1>1, <3>2, <3>3 DEF Choosable, CandidateSound, GoodTable, TagsType
  <2>6. tags'[o] = t
    BY <1>1, <2>1, SMTT(60)
  <2> HIDE DEF t
  <2>7. v \in CurrentMembers(World', o)
    BY <1>1, <2>1, <2>5, <2>6 DEF CurrentMembers, Members, Current, World
  <2>8. World'.locked = FALSE
    BY <1>1, <2>1 DEF World, StayInv, SafetyInv, WorldOK
  <2>9. WorldOK(World') /\ o # NONE
    BY <1>1, StayFactsNext, ViewsAssumption
  <2>10. Right(World', FocusOn(World', s, v))
    BY <2>4, <2>7, <2>8, <2>9, FocusOnRight DEF Right
  <2>11. FocusOn(World', s, v) \in ScreenType
    <3>1. World'.tag[v] # NONE
      BY <1>1, <2>7, <2>9, CurrentMembersOwned
    <3> QED
      BY <2>4, <2>9, <3>1, FocusOnSettles DEF ScreenOK
  <2> QED
    BY <2>3, <2>4, <2>10, <2>11, ShowKept
<1> QED
  BY <1>2, <1>3

-----------------------------------------------------------------------------
(* Views that come, go and move                                            *)

\* A tag keeps a member through the change of the tag of v, unless v was its
\* last one.
LEMMA MemberStays ==
  ASSUME NEW v \in Views, NEW new, tag \in [Views -> Keys \cup {NONE}],
         tag' = [tag EXCEPT ![v] = new], NEW key, \E u \in Views : tag[u] = key
  PROVE  \/ \E u \in Views : tag'[u] = key
         \/ tag[v] = key /\ Others(v) = {}
<1>1. PICK u \in Views : tag[u] = key
  OBVIOUS
<1>2. CASE u # v
  BY <1>1, <1>2
<1>3. CASE u = v
  <2>1. \A x \in Others(v) : x \in Views /\ x # v /\ tag'[x] = key
    BY <1>1, <1>3 DEF Others
  <2> QED
    BY <1>1, <1>3, <2>1
<1> QED
  BY <1>2, <1>3

\* A new view joins its tag and the refresh of its output shows it.
LEMMA MapViewKept ==
  ASSUME StayInv, SafetyInv', NEW v \in Views, NEW o \in Outputs, NEW id \in Ids,
         NEW full \in BOOLEAN, MapView(v, o, id, full)
  PROVE  Kept'
<1> DEFINE key == <<o, id>>
           t == Occupy(tags[o], id)
<1>1. /\ tag[v] = NONE
      /\ Destination(o, id)
      /\ tags' = [tags EXCEPT ![o] = t]
      /\ tag' = [tag EXCEPT ![v] = key]
      /\ fullscreen' = IF full THEN fullscreen \cup {v} ELSE fullscreen
      /\ UNCHANGED <<outputVars, config, locked, crashed>>
  BY DEF MapView
<1>2. /\ WorldOK(World) /\ Owned(World) /\ ScreenOK(World, Screen)
      /\ plugged \subseteq Outputs /\ enabled \subseteq plugged
      /\ tags \in [Outputs -> TagsType(MaxLimit)]
      /\ tag \in [Views -> Keys \cup {NONE}]
      /\ \A u \in Views : tag[u] # NONE =>
           /\ tag[u][1] \in plugged /\ tag[u][1] \in Outputs
           /\ tag[u] = <<tag[u][1], tag[u][2]>>
           /\ tag[u][2] \in tags[tag[u][1]].table
      /\ visible \subseteq Views /\ fullscreen \subseteq Views
      /\ focusedOutput # NONE => focusedOutput \in Outputs
      /\ Right(World, Screen) /\ Kept
  BY StayFacts DEF StayInv, Kept, WorldOK, World
<1>3. WorldOK(World') /\ Owned(World')
  BY StayFactsNext
<1>4. key # NONE /\ key \in Keys
  BY KeysAssumption DEF Ids, Keys
<1>5. World'.tag = tag' /\ World'.tags = tags' /\ World'.locked = locked
      /\ World'.fullscreen = fullscreen'
      /\ World.tag = tag /\ World.tags = tags /\ World.locked = locked
      /\ World.fullscreen = fullscreen
      /\ Screen.visible = visible /\ Screen.focusedOutput = focusedOutput
      /\ Screen.focusedView = focusedView /\ plugged' = plugged
  BY <1>1 DEF World, Screen, outputVars
<1>6. o \in plugged /\ id \in 1..tags[o].max_tags
  <2>1. CASE \E parent \in Views : tag[parent] = key
    <3>1. PICK parent \in Views : tag[parent] = key
      BY <2>1
    <3>2. o \in plugged /\ id \in tags[o].table
      BY <1>2, <1>4, <3>1
    <3> QED
      BY <3>2, PluggedTableGood DEF StayInv, GoodTable, TableSound
  <2>2. CASE o \in enabled /\ ValidId(tags[o], id)
    BY <1>2, <2>2 DEF ValidId
  <2> QED
    BY <1>1, <2>1, <2>2 DEF Destination
<1>7. /\ Choosable(t) /\ t.initial_tags = tags[o].initial_tags
      /\ t.table = tags[o].table \cup {id}
  <2>1. GoodTable(MaxLimit, tags[o]) /\ Choosable(tags[o])
    BY <1>2, <1>6, PluggedTableGood DEF StayInv, Kept, Selectable
  <2> QED
    BY <1>6, <2>1, OccupyChoosable, OccupyGood, LimitAssumption
<1> HIDE DEF t
<1>8. \A p \in Outputs : tags'[p] = IF p = o THEN t ELSE tags[p]
  BY <1>1, <1>2
<1>9. \A u \in Views : u # v => tag'[u] = tag[u]
  BY <1>1, <1>2
<1>10. tag'[v] = key
  BY <1>1, <1>2
<1>11. ASSUME NEW p \in plugged
       PROVE  Selectable(tags'[p], p, tag')
  <2>1. Selectable(tags[p], p, tag) /\ p \in Outputs
    BY <1>2 DEF Kept
  <2>2. Choosable(tags'[p])
    BY <1>7, <1>8, <2>1 DEF Selectable
  <2>3. ASSUME NEW x \in tags'[p].table, x > tags'[p].initial_tags
        PROVE  \E u \in Views : tag'[u] = <<p, x>>
    <3>1. CASE p = o /\ x = id
      BY <1>10, <3>1
    <3>2. CASE ~(p = o /\ x = id)
      <4>1. x \in tags[p].table /\ x > tags[p].initial_tags
        BY <1>7, <1>8, <2>1, <2>3, <3>2
      <4>2. PICK u \in Views : tag[u] = <<p, x>>
        BY <2>1, <4>1 DEF Selectable
      <4>3. x \in 1..MaxLimit
        BY <1>2, <2>1, <4>1 DEF TagsType
      <4>4. <<p, x>> # NONE
        BY <2>1, <4>3, KeysAssumption
      <4>5. u # v
        BY <1>1, <4>2, <4>4
      <4> QED
        BY <1>9, <4>2, <4>5
    <3> QED
      BY <3>1, <3>2
  <2> QED
    BY <2>2, <2>3 DEF Selectable
<1>12. \A u \in visible : u # v /\ tag[u] # NONE /\ tag'[u] = tag[u] /\ tag[u][1] \in Outputs
  BY <1>1, <1>2, <1>5, <1>9 DEF Right, HiddenBut
<1> DEFINE mapped == [World' EXCEPT !.fullscreen = fullscreen]
           placed == IF o = focusedOutput /\ Current(mapped, o) = <<o, id>>
                     THEN FocusOn(mapped, Screen, v) ELSE Screen
<1>13. PICK s \in Refresh(mapped, o, placed) :
         \E r \in IF full /\ v \notin fullscreen
                  THEN RefreshFocused(World', s) ELSE {s} : Show(r)
  BY DEF MapView
<1>14. PICK r \in IF full /\ v \notin fullscreen
                  THEN RefreshFocused(World', s) ELSE {s} : Show(r)
  BY <1>13
<1>15. /\ mapped.tag = tag' /\ mapped.tags = tags' /\ mapped.locked = locked
       /\ mapped.fullscreen = fullscreen /\ mapped.enabled = World'.enabled
  BY <1>1 DEF World
<1> HIDE DEF mapped
<1>16. WorldOK(mapped) /\ Owned(mapped)
  BY <1>2, <1>3, <1>5, <1>15 DEF WorldOK, Owned
<1>17. \A p \in Outputs \ {o} : /\ Current(mapped, p) = Current(World, p)
                                /\ Current(World', p) = Current(World, p)
  BY <1>5, <1>8, <1>15 DEF Current
<1>18. ScreenOK(mapped, Screen)
  <2>1. \A u \in Views : tag[u] # NONE => tag'[u] = tag[u]
    BY <1>1, <1>9
  <2>2. NONE \notin Keys
    BY KeysAssumption DEF Keys, Ids
  <2> QED
    BY <1>2, <1>5, <1>15, <2>1, <2>2 DEF ScreenOK, ScreenType
<1>19. /\ ScreenOK(mapped, placed) /\ placed.visible = visible
       /\ placed.focusedOutput = focusedOutput
       /\ focusedOutput # o => placed = Screen
  <2>1. CASE placed = Screen
    BY <1>5, <1>18, <2>1
  <2>2. CASE o = focusedOutput /\ placed = FocusOn(mapped, Screen, v)
    <3>1. ScreenOK(mapped, placed) /\ placed.focusedOutput = focusedOutput
      BY <1>4, <1>5, <1>10, <1>15, <1>16, <1>18, <2>2, FocusOnSettles
    <3>2. placed.visible = visible
      BY <1>5, <1>18, <2>2 DEF FocusOn, ScreenOK, ScreenType
    <3> QED
      BY <2>2, <3>1, <3>2
  <2> QED
    BY <2>1, <2>2
<1> HIDE DEF placed
<1>20. HiddenBut(mapped, placed, {} \cup {o})
  <2>1. HiddenBut(World, placed, {})
    BY <1>2, <1>5, <1>19 DEF Right, HiddenBut
  <2>2. \A u \in placed.visible : tag[u] # NONE =>
          /\ tag'[u] = tag[u]
          /\ tag[u][1] = o \/ Current(mapped, tag[u][1]) = Current(World, tag[u][1])
    BY <1>12, <1>17, <1>19
  <2> QED
    BY <1>5, <1>15, <2>1, <2>2, HiddenStays
<1>21. focusedOutput # o => Focused(mapped, placed)
  <2>1. SUFFICES ASSUME focusedOutput # o PROVE Focused(mapped, Screen)
    BY <1>19
  <2>2. Focused(World, Screen)
    BY <1>2 DEF Right, Focused
  <2>3. ASSUME focusedOutput # NONE
        PROVE  /\ Current(mapped, focusedOutput) = Current(World, focusedOutput)
               /\ CurrentMembers(mapped, focusedOutput) = CurrentMembers(World, focusedOutput)
    <3>1. Current(mapped, focusedOutput) = Current(World, focusedOutput)
      BY <1>2, <1>17, <2>1, <2>3
    <3>2. Current(World, focusedOutput) # key
      BY <2>1, <1>4 DEF Current
    <3>3. Current(World, focusedOutput) # NONE =>
            Members(mapped, Current(World, focusedOutput))
              = Members(World, Current(World, focusedOutput))
      BY <1>1, <1>5, <1>9, <1>10, <1>15, <3>2 DEF Members
    <3> QED
      BY <3>1, <3>3 DEF CurrentMembers
  <2>4. focusedView # NONE => tag'[focusedView] = tag[focusedView]
    BY <1>1, <1>2, <1>5, <1>9 DEF ScreenOK, ScreenType
  <2> QED
    BY <1>5, <1>15, <2>2, <2>3, <2>4, FocusedStays
<1>22. /\ HiddenBut(mapped, s, {}) /\ Focused(mapped, s) /\ ScreenOK(mapped, s)
       /\ s.focusedOutput = focusedOutput
  <2> DEFINE none == {}
  <2>1. HiddenBut(mapped, placed, none \cup {o})
    BY <1>20
  <2> HIDE DEF none
  <2>2. /\ HiddenBut(mapped, s, none) /\ Focused(mapped, s) /\ ScreenOK(mapped, s)
        /\ s.focusedOutput = placed.focusedOutput
    BY <1>13, <1>16, <1>19, <1>21, <2>1, RefreshFocusesToo
  <2> QED
    BY <1>19, <2>2 DEF none
<1>23. HiddenBut(World', s, {}) /\ ScreenOK(World', s)
  <2>1. \A p : Current(World', p) = Current(mapped, p)
    BY <1>5, <1>15 DEF Current
  <2> QED
    BY <1>5, <1>15, <1>22, <2>1 DEF HiddenBut, ScreenOK
<1>24. Right(World', r) /\ r \in ScreenType
  <2>1. CASE full /\ v \notin fullscreen
    <3>1. r \in RefreshFocused(World', s)
      BY <1>14, <2>1
    <3>2. HiddenBut(World', s, {s.focusedOutput})
      BY <1>23 DEF HiddenBut
    <3>3. s.focusedOutput = NONE => Right(World', s)
      BY <1>5, <1>15, <1>22, <1>23 DEF Right, Focused, Drawn, OnCurrent, HasFocus
    <3>4. Right(World', r)
      BY <1>3, <1>23, <3>1, <3>2, <3>3, RefreshFocusedRight
    <3>5. ScreenOK(World', r)
      <4>1. s.focusedOutput \in Outputs \cup {NONE}
        BY <1>23 DEF ScreenOK, ScreenType
      <4> QED
        BY <1>3, <1>23, <3>1, <4>1, RefreshSettles DEF RefreshFocused
    <3> QED
      BY <3>4, <3>5 DEF ScreenOK
  <2>2. CASE ~(full /\ v \notin fullscreen)
    <3>1. r = s /\ fullscreen' = fullscreen
      BY <1>1, <1>14, <2>2
    <3>2. Focused(World', s)
      <4>1. \A p : Current(World', p) = Current(mapped, p)
        BY <1>5, <1>15 DEF Current
      <4>2. \A p : CurrentMembers(World', p) = CurrentMembers(mapped, p)
        BY <1>5, <1>15, <4>1 DEF CurrentMembers, Members
      <4> QED
        BY <1>5, <1>15, <1>22, <3>1, <4>1, <4>2, FocusedStays
    <3> QED
      BY <1>23, <3>1, <3>2 DEF Right, Focused, ScreenOK
  <2> QED
    BY <2>1, <2>2
<1> QED
  BY <1>2, <1>5, <1>11, <1>14, <1>24, ShowKept DEF Kept

\* A view that goes may free its tag, but not one that another view shows.
LEMMA UnmapViewKept ==
  ASSUME StayInv, SafetyInv', NEW v \in Views, UnmapView(v)
  PROVE  Kept'
<1> DEFINE o == tag[v][1]
           id == tag[v][2]
           empty == Others(v) = {}
           t == PruneEmpty(tags[o], id, empty)
<1>1. /\ tag[v] # NONE
      /\ tags' = [tags EXCEPT ![o] = t]
      /\ tag' = [tag EXCEPT ![v] = NONE]
      /\ UNCHANGED <<outputVars, config, fullscreen, locked, crashed>>
  BY DEF UnmapView
<1>2. /\ WorldOK(World) /\ Owned(World) /\ ScreenOK(World, Screen)
      /\ plugged \subseteq Outputs
      /\ tags \in [Outputs -> TagsType(MaxLimit)]
      /\ tag \in [Views -> Keys \cup {NONE}]
      /\ visible \subseteq Views
      /\ Right(World, Screen) /\ Kept
  BY StayFacts DEF StayInv, Kept
<1>3. /\ o \in plugged /\ o \in Outputs /\ id \in Ids /\ tag[v] = <<o, id>>
      /\ id \in tags[o].table /\ empty \in BOOLEAN
  BY <1>1, StayFacts DEF StayInv
<1>4. WorldOK(World') /\ Owned(World')
  BY StayFactsNext
<1>5. World'.tag = tag' /\ World'.tags = tags' /\ World'.locked = locked
      /\ World'.fullscreen = World.fullscreen
      /\ World.tag = tag /\ World.tags = tags /\ World.locked = locked
      /\ Screen.visible = visible /\ Screen.focusedOutput = focusedOutput
      /\ Screen.focusedView = focusedView /\ Screen.tagFocus = tagFocus
      /\ plugged' = plugged
  BY <1>1 DEF World, Screen, outputVars
<1>6. GoodTable(MaxLimit, tags[o]) /\ Choosable(tags[o])
  BY <1>2, <1>3, PluggedTableGood DEF StayInv, Kept, Selectable
<1>7. /\ Choosable(t) /\ t.initial_tags = tags[o].initial_tags
      /\ t.focused_id = tags[o].focused_id
      /\ empty /\ id > tags[o].initial_tags => id \notin t.table
  <2> HIDE DEF empty, o, id
  <2> QED
    BY <1>3, <1>6, PruneChoosable
<1>8. /\ t.table = IF id <= tags[o].initial_tags \/ ~empty THEN tags[o].table
                   ELSE tags[o].table \ {id}
      /\ id <= tags[o].initial_tags \/ ~empty \/ tags[o].focused_id # id =>
           t.focused_is_candidate = tags[o].focused_is_candidate
      /\ tags[o].initial_tags \in Nat
  BY <1>6 DEF PruneEmpty, GoodTable, TagsType
<1> HIDE DEF t
<1>9. \A p \in Outputs : tags'[p] = IF p = o THEN t ELSE tags[p]
  BY <1>1, <1>2
<1>10. \A u \in Views : tag'[u] = IF u = v THEN NONE ELSE tag[u]
  BY <1>1, <1>2
<1>11. ASSUME NEW p \in plugged
       PROVE  Selectable(tags'[p], p, tag')
  <2>1. Selectable(tags[p], p, tag) /\ p \in Outputs
    BY <1>2 DEF Kept
  <2>2. Choosable(tags'[p])
    BY <1>7, <1>9, <2>1 DEF Selectable
  <2>3. ASSUME NEW x \in tags'[p].table, x > tags'[p].initial_tags
        PROVE  \E u \in Views : tag'[u] = <<p, x>>
    <3>1. x \in tags[p].table /\ x > tags[p].initial_tags
      BY <1>7, <1>8, <1>9, <2>1, <2>3
    <3>2. \E u \in Views : tag[u] = <<p, x>>
      BY <2>1, <3>1 DEF Selectable
    <3>3. ~(tag[v] = <<p, x>> /\ Others(v) = {})
      <4>1. SUFFICES ASSUME tag[v] = <<p, x>>, empty PROVE FALSE
        OBVIOUS
      <4>2. p = o /\ x = id
        BY <4>1
      <4> QED
        BY <1>3, <1>7, <1>9, <2>3, <3>1, <4>1, <4>2
    <3> QED
      BY <1>1, <1>2, <3>2, <3>3, MemberStays
  <2> QED
    BY <2>2, <2>3 DEF Selectable
<1>12. ASSUME NEW p \in Outputs, NEW u \in Views, u # v, tag[u] = Current(World, p),
              tag[u] # NONE
       PROVE  Current(World', p) = Current(World, p)
  <2>1. CASE p # o
    BY <1>5, <1>9, <2>1 DEF Current
  <2>2. CASE p = o
    <3>1. /\ tag[u] = <<o, tags[o].focused_id>>
          /\ ~tags[o].focused_is_candidate /\ tags[o].focused_id \in tags[o].table
      BY <1>5, <1>12, <2>2 DEF Current
    <3>2. empty => tags[o].focused_id # id
      BY <1>3, <1>12, <3>1 DEF Others
    <3>3. /\ t.focused_is_candidate = tags[o].focused_is_candidate
          /\ tags[o].focused_id \in t.table
      BY <1>8, <3>1, <3>2
    <3> QED
      BY <1>5, <1>7, <1>9, <2>2, <3>1, <3>3 DEF Current
  <2> QED
    BY <2>1, <2>2
<1> DEFINE gone == [Screen EXCEPT
                      !.visible = @ \ {v},
                      !.focusedView = IF @ = v THEN NONE ELSE @]
           left == Forget(gone, v)
<1>13. PICK s \in RefreshFocused(World', left) : Show(s)
  BY DEF UnmapView
<1>14. /\ gone \in ScreenType /\ gone.visible = visible \ {v}
       /\ gone.tagFocus = tagFocus
       /\ gone.focusedView = (IF focusedView = v THEN NONE ELSE focusedView)
       /\ gone.focusedOutput = focusedOutput
  BY <1>2, <1>5 DEF ScreenOK, ScreenType
<1> HIDE DEF gone
<1>15. /\ left \in ScreenType /\ left.visible = visible \ {v}
       /\ left.tagFocus = [tagFocus EXCEPT ![tag[v]] = IF @ = v THEN NONE ELSE @]
       /\ left.focusedView = (IF focusedView = v THEN NONE ELSE focusedView)
       /\ left.focusedOutput = focusedOutput
  <2>1. tag[v] \in Keys
    BY <1>1, <1>2
  <2> QED
    BY <1>14, <2>1 DEF Forget, ScreenType
<1> HIDE DEF left
<1>16. ScreenOK(World', left)
  <2>1. tag[v] \in Keys /\ tagFocus \in [Keys -> Views \cup {NONE}]
        /\ focusedView \in Views \cup {NONE}
    BY <1>1, <1>2, <1>5 DEF ScreenOK, ScreenType
  <2>2. \A k \in Keys : left.tagFocus[k] # NONE => tag'[left.tagFocus[k]] = k
    <3>1. SUFFICES ASSUME NEW k \in Keys, left.tagFocus[k] # NONE
                   PROVE  tag'[left.tagFocus[k]] = k
      OBVIOUS
    <3>2. left.tagFocus[k] = tagFocus[k] /\ tagFocus[k] \in Views
      BY <1>15, <2>1, <3>1
    <3>3. tag[tagFocus[k]] = k
      BY <1>2, <1>5, <3>1, <3>2 DEF ScreenOK
    <3>4. tagFocus[k] # v
      BY <1>15, <2>1, <3>1, <3>2, <3>3
    <3> QED
      BY <1>10, <3>2, <3>3, <3>4
  <2>3. left.focusedView # NONE => tag'[left.focusedView] # NONE
    BY <1>2, <1>5, <1>10, <1>15, <2>1 DEF ScreenOK
  <2> QED
    BY <1>5, <1>15, <2>2, <2>3 DEF ScreenOK
<1>17. HiddenBut(World', left, {})
  <2>1. SUFFICES ASSUME NEW u \in visible \ {v}
                 PROVE  tag'[u] # NONE /\ tag'[u] = Current(World', tag'[u][1])
    BY <1>5, <1>15 DEF HiddenBut
  <2>2. u \in Views /\ u # v /\ tag[u] # NONE /\ tag[u] = Current(World, tag[u][1])
    BY <1>2, <1>5, <2>1 DEF Right, HiddenBut
  <2>3. tag[u][1] \in Outputs
    BY <2>2, StayFacts DEF StayInv
  <2> QED
    BY <1>10, <1>12, <2>2, <2>3
<1>18. left.focusedOutput = NONE => Right(World', left)
  BY <1>2, <1>5, <1>15, <1>17 DEF Right, Drawn, OnCurrent, HasFocus
<1>19. HiddenBut(World', left, {left.focusedOutput})
  BY <1>17 DEF HiddenBut
<1>20. Right(World', s)
  BY <1>4, <1>13, <1>16, <1>18, <1>19, RefreshFocusedRight
<1>21. s \in ScreenType
  <2>1. left.focusedOutput \in Outputs \cup {NONE}
    BY <1>15 DEF ScreenType
  <2> QED
    BY <1>4, <1>13, <1>16, <2>1, RefreshSettles DEF RefreshFocused, ScreenOK
<1> QED
  BY <1>2, <1>5, <1>11, <1>13, <1>20, <1>21, ShowKept DEF Kept

\* Fullscreen does not change which tag is current, and the refresh of the
\* focused output draws what it covers.
LEMMA SetFullscreenKept ==
  ASSUME StayInv, SafetyInv', NEW v \in Views, SetFullscreen(v)
  PROVE  Kept'
<1>1. /\ UNCHANGED <<outputVars, tags, config, tag, locked, crashed>>
      /\ \E s \in RefreshFocused(World', Screen) : Show(s)
  BY DEF SetFullscreen
<1>2. PICK s \in RefreshFocused(World', Screen) : Show(s)
  BY <1>1
<1>3. /\ World'.tag = World.tag /\ World'.tags = World.tags
      /\ World'.locked = World.locked /\ plugged' = plugged
      /\ tags' = tags /\ tag' = tag
  BY <1>1 DEF World, outputVars
<1>4. ScreenOK(World, Screen) /\ Right(World, Screen) /\ Kept
  BY StayFacts DEF StayInv, Kept
<1>5. ScreenOK(World', Screen)
  BY <1>3, <1>4 DEF ScreenOK
<1>6. \A p : Current(World', p) = Current(World, p)
  BY <1>3 DEF Current
<1>7. /\ HiddenBut(World', Screen, {Screen.focusedOutput})
      /\ Screen.focusedOutput = NONE => Right(World', Screen)
  BY <1>3, <1>4, <1>6 DEF Right, HiddenBut, Drawn, OnCurrent, HasFocus
<1>8. WorldOK(World') /\ Owned(World')
  BY StayFactsNext
<1>9. Right(World', s)
  BY <1>2, <1>5, <1>7, <1>8, RefreshFocusedRight
<1>10. s \in ScreenType
  <2>1. Screen.focusedOutput \in Outputs \cup {NONE}
    BY <1>5 DEF ScreenOK, ScreenType
  <2> QED
    BY <1>2, <1>5, <1>8, <2>1, RefreshSettles DEF RefreshFocused, ScreenOK
<1> QED
  BY <1>2, <1>3, <1>4, <1>9, <1>10, ShowKept DEF Kept

\* A move within the focused output: the tag that the view leaves goes with
\* its last view, and the one that it joins is no candidate, for the view had
\* the keyboard and so was on the current tag.
LEMMA MoveViewToTagKept ==
  ASSUME StayInv, SafetyInv', NEW id \in Ids, NEW follow \in BOOLEAN,
         MoveViewToTag(id, follow)
  PROVE  Kept'
<1> DEFINE v == focusedView
           o == focusedOutput
           key == <<o, id>>
           old == tag[v][2]
           empty == Others(v) = {}
           there == Materialize(FocusedTags, id)
           moved == MoveView(FocusedTags, v, id)
           t == IF follow THEN FocusId(moved, id) ELSE moved
           a == Arrive(Screen, v, key)
<1>1. SafetyInv /\ Kept /\ ~locked /\ v # NONE
  BY DEF StayInv, MoveViewToTag, CommandReady
<1>2. /\ v \in Views /\ tag[v] # NONE /\ tag[v] = <<o, old>> /\ o # NONE
      /\ o \in Outputs /\ o \in plugged /\ old \in Ids
  BY <1>1, MovePrunesOwnTable, FocusedOutputPlugged
<1>3. /\ ValidId(FocusedTags, id)
      /\ tags' = [tags EXCEPT ![o] = t]
      /\ tag' = [tag EXCEPT ![v] = key]
      /\ UNCHANGED <<outputVars, config, fullscreen, locked, crashed>>
      /\ \E s \in RefreshFocused(World', a) :
           Show(IF follow THEN FocusOn(World', s, v) ELSE s)
  BY <1>2 DEF MoveViewToTag
<1>4. /\ ScreenOK(World, Screen) /\ plugged \subseteq Outputs
      /\ tags \in [Outputs -> TagsType(MaxLimit)]
      /\ tag \in [Views -> Keys \cup {NONE}]
      /\ visible \subseteq Views /\ Right(World, Screen)
      /\ \A u \in Views : tag[u] # NONE =>
           /\ tag[u][1] \in Outputs /\ tag[u] = <<tag[u][1], tag[u][2]>>
  BY <1>1, StayFacts DEF Kept
<1>5. WorldOK(World') /\ Owned(World')
  BY StayFactsNext
<1>6. World'.tag = tag' /\ World'.tags = tags' /\ World'.locked = locked
      /\ World.tag = tag /\ World.tags = tags /\ World.locked = locked
      /\ Screen.visible = visible /\ Screen.focusedOutput = o
      /\ Screen.focusedView = v /\ plugged' = plugged
  BY <1>3 DEF World, Screen, outputVars
<1>7. GoodTable(MaxLimit, FocusedTags) /\ Choosable(FocusedTags)
  BY <1>2, FocusedTableChoosable
<1>8. ~FocusedTags.focused_is_candidate
  <2>1. tag[v] = Current(World, o)
    BY <1>1, <1>4, <1>6 DEF Right, OnCurrent
  <2> QED
    BY <1>2, <1>6, <1>7, <2>1 DEF Current, FocusedTags, GoodTable, TagsType
<1>9. /\ GoodTable(MaxLimit, moved) /\ Choosable(moved) /\ id \in moved.table
      /\ moved.initial_tags = FocusedTags.initial_tags
      /\ moved.max_tags = FocusedTags.max_tags
      /\ moved.table \subseteq FocusedTags.table \cup {id}
      /\ old # id /\ empty /\ old > FocusedTags.initial_tags => old \notin moved.table
  <2>1. GoodTable(MaxLimit, moved) /\ id \in moved.table
        /\ moved.max_tags = FocusedTags.max_tags
    BY <1>1, <1>2, <1>3, MoveViewGood, PluggedTableGood DEF FocusedTags
  <2>2. CASE tag[v] = key
    <3>1. moved = FocusedTags /\ old = id
      BY <1>2, <2>2 DEF MoveView
    <3> HIDE DEF moved, old
    <3> QED
      BY <1>7, <2>1, <3>1
  <2>3. CASE tag[v] # key
    <3>1. /\ GoodTable(MaxLimit, there) /\ there.table = FocusedTags.table \cup {id}
          /\ there.initial_tags = FocusedTags.initial_tags
      <4>1. GoodTable(MaxLimit, there) /\ there.table = FocusedTags.table \cup {id}
        BY <1>3, <1>7, MaterializeGood, LimitAssumption DEF ValidId
      <4>2. there.initial_tags = FocusedTags.initial_tags
        BY <1>7 DEF Materialize, GoodTable, TagsType
      <4> QED
        BY <4>1, <4>2
    <3>2. Choosable(there)
      BY <1>7, <1>8 DEF Materialize, Choosable, CandidateSound, PreviousSound, GoodTable,
                        TagsType
    <3>3. moved = PruneEmpty(there, old, empty) /\ empty \in BOOLEAN
      BY <2>3 DEF MoveView
    <3> HIDE DEF there, moved, empty, old
    <3>4. /\ Choosable(moved) /\ moved.initial_tags = there.initial_tags
          /\ empty /\ old > there.initial_tags => old \notin moved.table
      BY <1>2, <3>1, <3>2, <3>3, PruneChoosable
    <3>5. moved.table \subseteq there.table
      BY <3>1, <3>3 DEF PruneEmpty, GoodTable, TagsType
    <3> QED
      BY <2>1, <3>1, <3>4, <3>5
  <2> QED
    BY <2>2, <2>3
<1> HIDE DEF moved
<1>10. /\ Choosable(t) /\ t.initial_tags = FocusedTags.initial_tags
       /\ t.table = moved.table
       /\ follow => t.focused_id = id /\ ~t.focused_is_candidate
  <2>1. CASE follow
    <3> DEFINE g == FocusId(moved, id)
    <3>1. t = g
      BY <2>1
    <3>2. Choosable(g) /\ g.initial_tags = moved.initial_tags /\ g.table = moved.table
      BY <1>9, FocusIdChoosable
    <3>3. id \in 1..moved.max_tags
      BY <1>3, <1>9 DEF ValidId
    <3>4. g.focused_id = id
      BY <1>9, <3>3, FocusIdChoosable
    <3>5. GoodTable(MaxLimit, g)
      BY <1>9, FocusIdGood, LimitAssumption DEF Ids
    <3> HIDE DEF g, t
    <3>6. ~g.focused_is_candidate
      BY <1>9, <3>2, <3>4, <3>5 DEF Choosable, CandidateSound, GoodTable, TagsType
    <3> QED
      BY <1>9, <3>1, <3>2, <3>4, <3>6
  <2>2. CASE ~follow
    BY <1>9, <2>2
  <2> QED
    BY <2>1, <2>2
<1> HIDE DEF t
<1>11. \A p \in Outputs : tags'[p] = IF p = o THEN t ELSE tags[p]
  BY <1>3, <1>4
<1>12. tag'[v] = key /\ \A u \in Views : u # v => tag'[u] = tag[u]
  BY <1>2, <1>3, <1>4
<1>13. ASSUME NEW p \in plugged
       PROVE  Selectable(tags'[p], p, tag')
  <2>1. Selectable(tags[p], p, tag) /\ p \in Outputs
    BY <1>1, <1>4 DEF Kept
  <2>2. Choosable(tags'[p])
    BY <1>10, <1>11, <2>1 DEF Selectable
  <2>3. ASSUME NEW x \in tags'[p].table, x > tags'[p].initial_tags
        PROVE  \E u \in Views : tag'[u] = <<p, x>>
    <3>1. CASE p = o /\ x = id
      BY <1>2, <1>12, <3>1
    <3>2. CASE ~(p = o /\ x = id)
      <4>1. x \in tags[p].table /\ x > tags[p].initial_tags
        BY <1>9, <1>10, <1>11, <2>1, <2>3, <3>2 DEF FocusedTags
      <4>2. \E u \in Views : tag[u] = <<p, x>>
        BY <2>1, <4>1 DEF Selectable
      <4>3. ~(tag[v] = <<p, x>> /\ Others(v) = {})
        <5>1. SUFFICES ASSUME tag[v] = <<p, x>>, empty PROVE FALSE
          OBVIOUS
        <5>2. p = o /\ x = old
          BY <1>2, <5>1
        <5> HIDE DEF old, empty
        <5>3. old # id
          BY <3>2, <5>2
        <5> QED
          BY <1>9, <1>10, <1>11, <2>1, <2>3, <5>1, <5>2, <5>3 DEF FocusedTags
      <4> QED
        BY <1>2, <1>3, <1>4, <4>2, <4>3, MemberStays
    <3> QED
      BY <3>1, <3>2
  <2> QED
    BY <2>2, <2>3 DEF Selectable
<1>14. key \in Keys /\ key # NONE
  BY <1>2, KeysAssumption DEF Keys, Ids
<1>15. ScreenOK(World', a) /\ a.focusedOutput = o
  BY <1>1, <1>2, <1>3, <1>14, ArriveSettles
<1>16. a.visible = visible
  BY <1>4, <1>6 DEF Arrive, Forget, ScreenOK, ScreenType
<1> HIDE DEF a
<1>17. HiddenBut(World', a, {o})
  <2>1. \A p \in Outputs \ {o} : Current(World', p) = Current(World, p)
    BY <1>6, <1>11 DEF Current
  <2>2. HiddenBut(World, a, {})
    BY <1>4, <1>6, <1>16 DEF Right, HiddenBut
  <2>3. \A u \in a.visible : tag[u] # NONE =>
          /\ tag'[u] # NONE
          /\ \/ tag'[u][1] = o
             \/ tag'[u] = tag[u] /\ Current(World', tag[u][1]) = Current(World, tag[u][1])
    BY <1>4, <1>12, <1>14, <1>16, <2>1
  <2> QED
    BY <1>6, <2>2, <2>3, HiddenStays
<1>18. PICK s \in RefreshFocused(World', a) :
         Show(IF follow THEN FocusOn(World', s, v) ELSE s)
  BY <1>3
<1>19. Right(World', s) /\ s.focusedOutput = o
  BY <1>2, <1>5, <1>15, <1>17, <1>18, RefreshFocusedRight
<1>20. ScreenOK(World', s)
  BY <1>2, <1>5, <1>15, <1>18, RefreshFocusedSettles DEF Settled
<1> DEFINE r == IF follow THEN FocusOn(World', s, v) ELSE s
<1>21. Right(World', r) /\ r \in ScreenType
  <2>1. CASE ~follow
    BY <1>19, <1>20, <2>1 DEF ScreenOK
  <2>2. CASE follow
    <3>1. Current(World', o) = key
      BY <1>2, <1>6, <1>9, <1>10, <1>11, <2>2 DEF Current
    <3>2. v \in CurrentMembers(World', o)
      BY <1>2, <1>6, <1>12, <1>14, <3>1 DEF CurrentMembers, Members
    <3>3. Right(World', FocusOn(World', s, v))
      BY <1>1, <1>2, <1>5, <1>6, <1>19, <1>20, <3>2, FocusOnRight DEF Right
    <3>4. FocusOn(World', s, v) \in ScreenType
      <4>1. World'.tag[v] # NONE
        BY <1>6, <1>12, <1>14
      <4> QED
        BY <1>2, <1>5, <1>20, <4>1, FocusOnSettles DEF ScreenOK
    <3> QED
      BY <2>2, <3>3, <3>4
  <2> QED
    BY <2>1, <2>2
<1>22. Show(r)
  BY <1>18
<1> HIDE DEF r
<1> QED
  BY <1>1, <1>6, <1>13, <1>21, <1>22, ShowKept DEF Kept

\* A move to another output: the refresh of the output that the view left and
\* of the one that it joined set both right.
LEMMA MoveViewToOutputKept ==
  ASSUME StayInv, SafetyInv', NEW o \in Outputs, NEW follow \in BOOLEAN,
         MoveViewToOutput(o, follow)
  PROVE  Kept'
<1> DEFINE v == focusedView
           home == tag[v][1]
           old == tag[v][2]
           id == tags[o].focused_id
           key == <<o, id>>
           empty == Others(v) = {}
           there == Occupy(tags[o], id)
           here == PruneEmpty(tags[home], old, empty)
           a == Arrive(Screen, v, key)
           P == IF follow
                THEN {FocusOn(World', q, v) : q \in SetFocused(World', o, a)}
                ELSE {a}
<1>1. /\ SafetyInv /\ Kept /\ ~locked /\ v # NONE
      /\ o \in enabled /\ o # focusedOutput /\ o # home
  BY DEF StayInv, MoveViewToOutput, CommandReady
<1>2. /\ v \in Views /\ tag[v] # NONE /\ tag[v] = <<home, old>> /\ home # NONE
      /\ home = focusedOutput
      /\ home \in Outputs /\ home \in plugged /\ old \in Ids /\ empty \in BOOLEAN
  BY <1>1, MovePrunesOwnTable, FocusedOutputPlugged
<1>3. /\ tags' = [tags EXCEPT ![o] = there, ![home] = here]
      /\ tag' = [tag EXCEPT ![v] = key]
      /\ UNCHANGED <<outputVars, config, fullscreen, locked, crashed>>
      /\ \E p \in P : \E r \in Refresh(World', home, p) :
         \E s \in Refresh(World', o, r) : Show(s)
  BY DEF MoveViewToOutput
<1>4. /\ ScreenOK(World, Screen) /\ plugged \subseteq Outputs /\ o \in plugged
      /\ tags \in [Outputs -> TagsType(MaxLimit)]
      /\ tag \in [Views -> Keys \cup {NONE}]
      /\ visible \subseteq Views /\ Right(World, Screen)
      /\ \A u \in Views : tag[u] # NONE =>
           /\ tag[u][1] \in Outputs /\ tag[u] = <<tag[u][1], tag[u][2]>>
  BY <1>1, StayFacts DEF Kept
<1>5. WorldOK(World') /\ Owned(World')
  BY StayFactsNext
<1>6. World'.tag = tag' /\ World'.tags = tags' /\ World'.locked = locked
      /\ World'.enabled = enabled
      /\ World.tag = tag /\ World.tags = tags /\ World.locked = locked
      /\ Screen.visible = visible /\ plugged' = plugged
  BY <1>3 DEF World, Screen, outputVars
<1>7. /\ GoodTable(MaxLimit, tags[o]) /\ Choosable(tags[o])
      /\ GoodTable(MaxLimit, tags[home]) /\ Choosable(tags[home])
      /\ id \in 1..tags[o].max_tags /\ id \in Ids
  <2>1. \A p \in plugged : GoodTable(MaxLimit, tags[p]) /\ Choosable(tags[p])
    BY <1>1, PluggedTableGood DEF Kept, Selectable
  <2>2. GoodTable(MaxLimit, tags[o]) /\ id \in 1..tags[o].max_tags /\ id \in Ids
    BY <1>4, <2>1 DEF GoodTable, TableSound, TagsType, Ids
  <2> QED
    BY <1>2, <1>4, <2>1, <2>2
<1>8. /\ Choosable(there) /\ there.initial_tags = tags[o].initial_tags
      /\ there.focused_id = id /\ there.table = tags[o].table \cup {id}
      /\ ~there.focused_is_candidate
  <2>1. /\ Choosable(there) /\ there.initial_tags = tags[o].initial_tags
        /\ there.focused_id = id
    BY <1>7, OccupyChoosable
  <2>2. there.table = tags[o].table \cup {id} /\ GoodTable(MaxLimit, there)
    BY <1>7, OccupyGood, LimitAssumption
  <2> HIDE DEF there
  <2> QED
    BY <2>1, <2>2 DEF Choosable, CandidateSound, GoodTable, TagsType
<1>9. /\ Choosable(here) /\ here.initial_tags = tags[home].initial_tags
      /\ empty /\ old > tags[home].initial_tags => old \notin here.table
      /\ here.table \subseteq tags[home].table
  <2> HIDE DEF empty, old, home
  <2>1. /\ Choosable(here) /\ here.initial_tags = tags[home].initial_tags
        /\ empty /\ old > tags[home].initial_tags => old \notin here.table
    BY <1>2, <1>7, PruneChoosable
  <2>2. here.table \subseteq tags[home].table
    BY <1>7 DEF PruneEmpty, GoodTable, TagsType
  <2> QED
    BY <2>1, <2>2
<1> HIDE DEF there, here
<1>10. \A p \in Outputs : tags'[p] = IF p = home THEN here
                                     ELSE IF p = o THEN there ELSE tags[p]
  BY <1>1, <1>3, <1>4
<1>11. tag'[v] = key /\ \A u \in Views : u # v => tag'[u] = tag[u]
  BY <1>2, <1>3, <1>4
<1>12. key \in Keys /\ key # NONE
  BY <1>7, KeysAssumption DEF Keys, Ids
<1> HIDE DEF home, old, id
<1>13. ASSUME NEW p \in plugged
       PROVE  Selectable(tags'[p], p, tag')
  <2>1. Selectable(tags[p], p, tag) /\ p \in Outputs
    BY <1>1, <1>4 DEF Kept
  <2>2. Choosable(tags'[p])
    BY <1>8, <1>9, <1>10, <2>1 DEF Selectable
  <2>3. ASSUME NEW x \in tags'[p].table, x > tags'[p].initial_tags
        PROVE  \E u \in Views : tag'[u] = <<p, x>>
    <3>1. CASE p = o /\ x = id
      BY <1>2, <1>11, <3>1
    <3>2. CASE ~(p = o /\ x = id)
      <4>1. x \in tags[p].table /\ x > tags[p].initial_tags
        BY <1>1, <1>8, <1>9, <1>10, <2>1, <2>3, <3>2
      <4>2. \E u \in Views : tag[u] = <<p, x>>
        BY <2>1, <4>1 DEF Selectable
      <4>3. ~(tag[v] = <<p, x>> /\ Others(v) = {})
        <5>1. SUFFICES ASSUME tag[v] = <<p, x>>, empty PROVE FALSE
          OBVIOUS
        <5>2. p = home /\ x = old
          BY <1>2, <5>1
        <5> HIDE DEF empty
        <5> QED
          BY <1>9, <1>10, <2>1, <2>3, <5>1, <5>2
      <4> QED
        BY <1>2, <1>3, <1>4, <4>2, <4>3, MemberStays
    <3> QED
      BY <3>1, <3>2
  <2> QED
    BY <2>2, <2>3 DEF Selectable
<1>14. ScreenOK(World', a) /\ a.focusedOutput = home /\ a.focusedView = v
  BY <1>1, <1>2, <1>3, <1>12, ArriveSettles
<1>15. a.visible = visible
  BY <1>4, <1>6 DEF Arrive, Forget, ScreenOK, ScreenType
<1> HIDE DEF a
<1>16. HiddenBut(World', a, {home, o})
  <2>1. \A p \in Outputs \ {home, o} : Current(World', p) = Current(World, p)
    BY <1>6, <1>10 DEF Current
  <2>2. HiddenBut(World, a, {})
    BY <1>4, <1>6, <1>15 DEF Right, HiddenBut
  <2>3. \A u \in a.visible : tag[u] # NONE =>
          /\ tag'[u] # NONE
          /\ \/ tag'[u][1] \in {home, o}
             \/ tag'[u] = tag[u] /\ Current(World', tag[u][1]) = Current(World, tag[u][1])
    BY <1>4, <1>11, <1>12, <1>15, <2>1
  <2> QED
    BY <1>6, <2>2, <2>3, HiddenStays
<1>17. PICK p \in P : \E r \in Refresh(World', home, p) :
                      \E s \in Refresh(World', o, r) : Show(s)
  BY <1>3
<1>18. PICK r \in Refresh(World', home, p) :
         \E s \in Refresh(World', o, r) : Show(s)
  BY <1>17
<1>19. PICK s \in Refresh(World', o, r) : Show(s)
  BY <1>18
<1>20. /\ ScreenOK(World', p) /\ HiddenBut(World', p, {o} \cup {home})
       /\ p.focusedOutput # home => Focused(World', p)
  <2>1. CASE ~follow
    <3>1. p = a
      BY <1>17, <2>1
    <3>2. {o} \cup {home} = {home, o}
      OBVIOUS
    <3> QED
      BY <1>14, <1>16, <3>1, <3>2
  <2>2. CASE follow
    <3>1. PICK q \in SetFocused(World', o, a) : p = FocusOn(World', q, v)
      BY <1>17, <2>2
    <3> DEFINE b == [a EXCEPT !.focusedOutput = o]
    <3>2. /\ b \in ScreenType /\ b.focusedOutput = o /\ b.visible = a.visible
          /\ b.tagFocus = a.tagFocus /\ b.focusedView = a.focusedView
      BY <1>14 DEF ScreenOK, ScreenType
    <3>3. q \in Refresh(World', o, b)
      BY <1>1, <1>6, <3>1 DEF SetFocused
    <3> HIDE DEF b
    <3>4. ScreenOK(World', b) /\ HiddenBut(World', b, {home} \cup {o})
      BY <1>14, <1>16, <3>2 DEF ScreenOK, HiddenBut
    <3>5. /\ HiddenBut(World', q, {home}) /\ Focused(World', q)
          /\ ScreenOK(World', q) /\ q.focusedOutput = o
      BY <1>5, <3>2, <3>3, <3>4, RefreshFocusesToo
    <3>6. o # NONE /\ v \in CurrentMembers(World', o)
      <4>1. Current(World', o) = key
        BY <1>1, <1>6, <1>8, <1>10 DEF Current
      <4> QED
        BY <1>2, <1>6, <1>11, <1>12, <4>1, ViewsAssumption
        DEF CurrentMembers, Members
    <3>7. /\ Focused(World', p) /\ p.focusedOutput = o
          /\ HiddenBut(World', p, {home})
      BY <1>5, <3>1, <3>5, <3>6, FocusOnFocuses
    <3>8. ScreenOK(World', p)
      BY <1>2, <1>5, <1>6, <1>11, <1>12, <3>1, <3>5, FocusOnSettles
    <3> QED
      BY <3>7, <3>8 DEF HiddenBut
  <2> QED
    BY <2>1, <2>2
<1>21. /\ HiddenBut(World', r, {o}) /\ Focused(World', r) /\ ScreenOK(World', r)
  BY <1>2, <1>5, <1>18, <1>20, RefreshFocusesToo
<1>22. /\ HiddenBut(World', s, {}) /\ Focused(World', s) /\ ScreenOK(World', s)
  <2> DEFINE none == {}
  <2>1. HiddenBut(World', r, none \cup {o})
    BY <1>21
  <2> HIDE DEF none
  <2>2. HiddenBut(World', s, none) /\ Focused(World', s) /\ ScreenOK(World', s)
    BY <1>5, <1>19, <1>21, <2>1, RefreshFocusesToo
  <2> QED
    BY <2>2 DEF none
<1>23. Right(World', s) /\ s \in ScreenType
  BY <1>22 DEF Right, Focused, ScreenOK
<1> QED
  BY <1>1, <1>6, <1>13, <1>19, <1>23, ShowKept DEF Kept

-----------------------------------------------------------------------------
(* The lock, the configuration and the outputs                             *)

LEMMA LockKept ==
  ASSUME StayInv, Lock
  PROVE  Kept'
<1>1. /\ UNCHANGED <<outputVars, tags, config, tag, fullscreen>>
      /\ UNCHANGED screenVars /\ locked' = TRUE
  BY DEF Lock
<1>2. /\ World'.tag = World.tag /\ World'.tags = World.tags /\ World'.locked = TRUE
      /\ Screen' = Screen /\ plugged' = plugged /\ tags' = tags /\ tag' = tag
  BY <1>1 DEF World, Screen, outputVars, screenVars
<1>3. \A p : Current(World', p) = Current(World, p)
  BY <1>2 DEF Current
<1>4. HiddenBut(World', Screen, {})
  BY <1>2, <1>3 DEF StayInv, Kept, Right, HiddenBut
<1> QED
  BY <1>2, <1>4 DEF StayInv, Kept, Right

\* What a change of the enabled outputs, the power or the lock leaves.
LEMMA TablesKept ==
  ASSUME StayInv, SafetyInv', UNCHANGED <<plugged, tags, tag, fullscreen>>
  PROVE  /\ ScreenOK(World', Screen) /\ HiddenBut(World', Screen, {})
         /\ locked' = locked => Right(World', Screen)
         /\ WorldOK(World') /\ Owned(World')
         /\ Headless \notin plugged'
         /\ \A p \in plugged' : Selectable(tags'[p], p, tag')
<1>1. /\ World'.tag = World.tag /\ World'.tags = World.tags
      /\ World'.fullscreen = World.fullscreen
      /\ World'.locked = locked' /\ World.locked = locked
  BY DEF World
<1>2. ScreenOK(World, Screen) /\ Kept
  BY StayFacts DEF StayInv
<1>3. \A p : /\ Current(World', p) = Current(World, p)
             /\ CurrentMembers(World', p) = CurrentMembers(World, p)
  BY <1>1 DEF Current, CurrentMembers, Members
<1>4. HiddenBut(World', Screen, {}) /\ ScreenOK(World', Screen)
  BY <1>1, <1>2, <1>3 DEF Kept, Right, HiddenBut, ScreenOK
<1>5. ASSUME locked' = locked PROVE Right(World', Screen)
  <2>1. Focused(World, Screen)
    BY <1>2 DEF Kept, Right, Focused
  <2>2. Focused(World', Screen)
    BY <1>1, <1>3, <1>5, <2>1, FocusedStays
  <2> QED
    BY <1>4, <2>2 DEF Right, Focused
<1> QED
  BY <1>2, <1>4, <1>5, StayFactsNext DEF Kept

\* Unlocking restores the keyboard, and then follows the pointer.
LEMMA UnlockKept ==
  ASSUME Confined, StayInv, SafetyInv', Unlock
  PROVE  Kept'
<1>1. /\ UNCHANGED <<outputVars, tags, config, tag, fullscreen, crashed>>
      /\ plugged' = plugged /\ enabled' = enabled
      /\ \E r \in RestoreKeyboardFocus(World', Screen) :
         \E s \in {r} \cup UNION {Motion(World', r, o) : o \in enabled} : Show(s)
  BY DEF Unlock, outputVars
<1>2. /\ ScreenOK(World', Screen) /\ HiddenBut(World', Screen, {})
      /\ WorldOK(World') /\ Owned(World')
      /\ Headless \notin plugged'
      /\ \A p \in plugged' : Selectable(tags'[p], p, tag')
  BY <1>1, TablesKept
<1>3. PICK r \in RestoreKeyboardFocus(World', Screen) :
        \E s \in {r} \cup UNION {Motion(World', r, o) : o \in enabled} : Show(s)
  BY <1>1
<1>4. PICK s \in {r} \cup UNION {Motion(World', r, o) : o \in enabled} : Show(s)
  BY <1>3
<1>5. Right(World', r) /\ Settled(World', r)
  BY <1>2, <1>3, RestoreRight, RestoreSettles
<1>6. Right(World', s) /\ Settled(World', s)
  <2>1. CASE s = r
    BY <1>5, <2>1
  <2>2. CASE s # r
    <3>1. PICK o \in enabled : s \in Motion(World', r, o)
      BY <1>4, <2>2
    <3>2. o \in World'.enabled /\ o \in Outputs
      BY <1>1, <1>2 DEF World, WorldOK
    <3> QED
      BY <1>2, <1>5, <3>1, <3>2, MotionRight, MotionSettles DEF Settled
  <2> QED
    BY <2>1, <2>2
<1> QED
  BY <1>2, <1>4, <1>6, ShowKept DEF Settled, ScreenOK

\* A reload changes the focused id of an output only when no view is there.
LEMMA ReloadConfigKept ==
  ASSUME StayInv, SafetyInv', NEW next \in Configs, ReloadConfig(next)
  PROVE  Kept'
<1> DEFINE w == [World EXCEPT !.enabled = enabled']
<1>1. /\ next.max_tags \in Ids
      /\ \A o \in plugged : PrepareSetMax(tags[o], next.max_tags)
      /\ enabled' = {o \in plugged : powerOn[o]}
      /\ tags' = [o \in Outputs |-> IF o \in plugged
                                    THEN CommitSetMax(tags[o], next.max_tags)
                                    ELSE tags[o]]
      /\ UNCHANGED <<plugged, powerOn, tag, fullscreen, locked, crashed>>
      /\ \E r \in Reconcile(w, Screen) :
         \E s \in RefreshFocused(World', r) : Show(s)
  BY DEF ReloadConfig, Configs
<1>2. /\ WorldOK(World) /\ Owned(World) /\ ScreenOK(World, Screen) /\ Kept
      /\ Right(World, Screen) /\ Settled(World, Screen)
      /\ plugged \subseteq Outputs
      /\ tags \in [Outputs -> TagsType(MaxLimit)]
      /\ \A u \in Views : tag[u] # NONE => tag[u][1] \in plugged
  BY StayFacts DEF StayInv, Kept, SafetyInv, ScreenInv
<1>3. ASSUME NEW p \in plugged
      PROVE  /\ Selectable(tags'[p], p, tag')
             /\ tags'[p].table = tags[p].table
             /\ \/ /\ tags'[p].focused_id = tags[p].focused_id
                   /\ tags'[p].focused_is_candidate = tags[p].focused_is_candidate
                \/ tags[p].focused_id \notin tags[p].table
  <2> DEFINE t == CommitSetMax(tags[p], next.max_tags)
  <2>1. GoodTable(MaxLimit, tags[p]) /\ Selectable(tags[p], p, tag)
    BY <1>2, PluggedTableGood DEF StayInv, Kept
  <2>2. /\ Choosable(t) /\ t.initial_tags = tags[p].initial_tags
        /\ t.table = tags[p].table
        /\ \/ /\ t.focused_id = tags[p].focused_id
              /\ t.focused_is_candidate = tags[p].focused_is_candidate
           \/ tags[p].focused_id \notin tags[p].table
    BY <1>1, <2>1, CommitSetMaxChoosable DEF Selectable
  <2>3. tags'[p] = t
    BY <1>1, <1>2
  <2> HIDE DEF t
  <2> QED
    BY <1>1, <2>1, <2>2, <2>3 DEF Selectable
<1>4. WorldOK(World') /\ Owned(World')
  BY StayFactsNext
<1>5. /\ w.tag = World.tag /\ w.tags = World.tags /\ w.locked = World.locked
      /\ w.fullscreen = World.fullscreen /\ w.enabled = World'.enabled
      /\ w.tag = World'.tag /\ w.locked = World'.locked
      /\ World'.tags = tags' /\ World.tags = tags /\ World.tag = tag
  BY <1>1 DEF World
<1>6. PICK r \in Reconcile(w, Screen) : \E s \in RefreshFocused(World', r) : Show(s)
  BY <1>1
<1>7. PICK s \in RefreshFocused(World', r) : Show(s)
  BY <1>6
<1> HIDE DEF w
<1>8. WorldOK(w) /\ Owned(w)
  BY <1>2, <1>4, <1>5 DEF WorldOK, Owned
<1>9. Settled(w, Screen) /\ Right(w, Screen)
  <2>1. \A p : /\ Current(w, p) = Current(World, p)
               /\ CurrentMembers(w, p) = CurrentMembers(World, p)
    BY <1>5 DEF Current, CurrentMembers, Members
  <2>2. Focused(World, Screen)
    BY <1>2 DEF Right, Focused
  <2>3. Focused(w, Screen)
    BY <1>5, <2>1, <2>2, FocusedStays
  <2> QED
    BY <1>2, <1>5, <2>1, <2>3, SettledCongruence DEF Right, HiddenBut, Focused
<1>10. Right(w, r) /\ Settled(w, r)
  BY <1>6, <1>8, <1>9, ReconcileRight, ReconcileSettles DEF Settled
<1>11. ScreenOK(World', r)
  BY <1>5, <1>10 DEF Settled, ScreenOK
<1>12. HiddenBut(World', r, {})
  <2>1. SUFFICES ASSUME NEW u \in r.visible
                 PROVE  tag[u] # NONE /\ tag[u] = Current(World', tag[u][1])
    BY <1>5 DEF HiddenBut
  <2> DEFINE p == tag[u][1]
  <2>2. tag[u] # NONE /\ tag[u] = Current(w, p) /\ u \in Views
    BY <1>5, <1>10, <2>1 DEF Right, HiddenBut, Settled, ScreenOK, ScreenType
  <2>3. p \in plugged
    BY <1>2, <2>2
  <2>4. tags[p].focused_id \in tags[p].table
    BY <1>5, <2>2 DEF Current
  <2>5. Current(World', p) = Current(w, p)
    BY <1>3, <1>5, <2>3, <2>4 DEF Current
  <2> QED
    BY <2>2, <2>5
<1>13. r.focusedOutput = NONE => Right(World', r)
  BY <1>5, <1>10, <1>12 DEF Right, Drawn, OnCurrent, HasFocus
<1>14. Right(World', s)
  <2>1. HiddenBut(World', r, {r.focusedOutput})
    BY <1>12 DEF HiddenBut
  <2> QED
    BY <1>4, <1>7, <1>11, <1>13, <2>1, RefreshFocusedRight
<1>15. s \in ScreenType
  <2>1. r.focusedOutput \in Outputs \cup {NONE}
    BY <1>11 DEF ScreenOK, ScreenType
  <2> QED
    BY <1>4, <1>7, <1>11, <2>1, RefreshSettles DEF RefreshFocused, ScreenOK
<1> QED
  BY <1>1, <1>2, <1>3, <1>7, <1>14, <1>15, ShowKept DEF Kept

\* leme_output_set_power: the pointer follows the focus to another output.
LEMMA SetPowerKept ==
  ASSUME Confined, StayInv, SafetyInv', NEW o \in Outputs, NEW on \in BOOLEAN,
         SetPower(o, on)
  PROVE  Kept'
<1> DEFINE Warped(r) == IF r.focusedOutput \in {NONE, focusedOutput} THEN {}
                        ELSE Motion(World', r, r.focusedOutput)
<1>1. /\ UNCHANGED <<plugged, tags, tag, fullscreen, locked>>
      /\ \E r \in Reconcile(World', Screen) : \E s \in {r} \cup Warped(r) : Show(s)
  BY DEF SetPower
<1>2. /\ ScreenOK(World', Screen) /\ Right(World', Screen)
      /\ WorldOK(World') /\ Owned(World')
      /\ Headless \notin plugged'
      /\ \A p \in plugged' : Selectable(tags'[p], p, tag')
  BY <1>1, TablesKept
<1>3. PICK r \in Reconcile(World', Screen) : \E s \in {r} \cup Warped(r) : Show(s)
  BY <1>1
<1>4. PICK s \in {r} \cup Warped(r) : Show(s)
  BY <1>3
<1>5. Settled(World', Screen)
  BY <1>1, ScreenStaysSettled DEF StayInv
<1>6. Right(World', r) /\ Settled(World', r)
  BY <1>2, <1>3, <1>5, ReconcileRight, ReconcileSettles
<1>7. Right(World', s) /\ Settled(World', s)
  <2>1. CASE s = r
    BY <1>6, <2>1
  <2>2. CASE s # r
    <3>1. s \in Motion(World', r, r.focusedOutput) /\ r.focusedOutput # NONE
      BY <1>4, <2>2
    <3>2. r.focusedOutput \in Outputs
      BY <1>6, <3>1 DEF Settled, ScreenOK, ScreenType
    <3> QED
      BY <1>2, <1>6, <3>1, <3>2, MotionRight, MotionSettles DEF Settled
  <2> QED
    BY <2>1, <2>2
<1> QED
  BY <1>2, <1>4, <1>7, ShowKept DEF Settled, ScreenOK

LEMMA ManagerApplyKept ==
  ASSUME StayInv, SafetyInv', NEW heads \in SUBSET plugged, ManagerApply(heads)
  PROVE  Kept'
<1>1. /\ UNCHANGED <<plugged, tags, tag, fullscreen, locked>>
      /\ \E s \in Reconcile(World', Screen) : Show(s)
  BY DEF ManagerApply
<1>2. /\ ScreenOK(World', Screen) /\ Right(World', Screen)
      /\ WorldOK(World') /\ Owned(World')
      /\ Headless \notin plugged'
      /\ \A p \in plugged' : Selectable(tags'[p], p, tag')
  BY <1>1, TablesKept
<1>3. PICK s \in Reconcile(World', Screen) : Show(s)
  BY <1>1
<1>4. Settled(World', Screen)
  BY <1>1, ScreenStaysSettled DEF StayInv
<1>5. Right(World', s) /\ Settled(World', s)
  BY <1>2, <1>3, <1>4, ReconcileRight, ReconcileSettles
<1> QED
  BY <1>2, <1>3, <1>5, ShowKept DEF Settled, ScreenOK

\* A new output holds no view, and takes a focus that no output had.
LEMMA PlugKept ==
  ASSUME StayInv, SafetyInv', NEW o \in Outputs, Plug(o)
  PROVE  Kept'
<1> DEFINE T == [tags EXCEPT ![o] = FreshTags]
           on == {p \in plugged : powerOn[p]} \cup {o}
           w == [World EXCEPT !.tags = T, !.enabled = on]
<1>1. /\ WorldOK(World) /\ Owned(World) /\ ScreenOK(World, Screen) /\ Kept
      /\ Right(World, Screen) /\ Settled(World, Screen)
      /\ plugged \subseteq Outputs
      /\ tags \in [Outputs -> TagsType(MaxLimit)]
      /\ visible \subseteq Views
      /\ focusedOutput # NONE => focusedOutput \in plugged
      /\ \A u \in Views : tag[u] # NONE => tag[u][1] \in plugged
  BY StayFacts DEF StayInv, Kept, SafetyInv, ScreenInv
<1>2. o \notin plugged /\ o # Headless /\ Headless \notin plugged
  BY <1>1 DEF Plug, Kept
<1>3. PICK s \in Reconcile(w, Screen) :
        /\ plugged' = plugged \cup {o}
        /\ enabled' = on
        /\ tags' = T
        /\ UNCHANGED <<powerOn, config, tag, fullscreen, locked, crashed>>
        /\ Show(s)
  BY <1>2 DEF Plug
<1>4. \A p \in Outputs : T[p] = IF p = o THEN FreshTags ELSE tags[p]
  BY <1>1
<1> HIDE DEF T, on
<1>5. /\ w.tag = World.tag /\ w.tags = T /\ w.locked = World.locked
      /\ w.fullscreen = World.fullscreen /\ w.enabled = on
      /\ w.tag = World'.tag /\ w.tags = World'.tags /\ w.locked = World'.locked
      /\ w.fullscreen = World'.fullscreen /\ w.enabled = World'.enabled
      /\ World.tag = tag /\ World.tags = tags
      /\ Screen.visible = visible /\ Screen.focusedOutput = focusedOutput
  BY <1>3 DEF World, Screen
<1> HIDE DEF w
<1>6. WorldOK(w) /\ Owned(w)
  BY <1>5, StayFactsNext DEF WorldOK, Owned
<1>7. \A p \in plugged : Current(w, p) = Current(World, p)
  BY <1>1, <1>2, <1>4, <1>5 DEF Current
<1>8. Right(w, Screen)
  <2>1. \A u \in Screen.visible : World.tag[u] # NONE => World.tag[u][1] \in plugged
    BY <1>1, <1>5
  <2>2. Screen.focusedOutput \in plugged \cup {NONE}
    BY <1>1, <1>5
  <2>3. /\ w.tag = World.tag /\ w.fullscreen = World.fullscreen
        /\ w.locked = World.locked /\ Right(World, Screen)
    BY <1>1, <1>5
  <2> QED
    BY <1>7, <2>1, <2>2, <2>3, RightStays
<1>9. Settled(w, Screen)
  BY <1>1, <1>5, SettledCongruence
<1>10. Right(w, s) /\ Settled(w, s)
  BY <1>3, <1>6, <1>8, <1>9, ReconcileRight, ReconcileSettles DEF Settled
<1>11. Right(World', s) /\ s \in ScreenType
  <2>1. \A p : /\ Current(World', p) = Current(w, p)
               /\ CurrentMembers(World', p) = CurrentMembers(w, p)
    BY <1>5 DEF Current, CurrentMembers, Members
  <2>2. Focused(w, s)
    BY <1>10 DEF Right, Focused
  <2>3. Focused(World', s)
    BY <1>5, <2>1, <2>2, FocusedStays
  <2> QED
    BY <1>5, <1>10, <2>1, <2>3 DEF Right, HiddenBut, Focused, Settled, ScreenOK
<1>12. ASSUME NEW p \in plugged'
       PROVE  Selectable(tags'[p], p, tag')
  <2>1. CASE p = o
    <3>1. tags'[p] = FreshTags
      BY <1>3, <1>4, <2>1
    <3>2. config.initial_tags \in Ids /\ config.max_tags \in Ids
      BY DEF StayInv, SafetyInv, OutputsOK, Configs
    <3>3. Choosable(FreshTags)
      BY <3>2, TagsInitChoosable DEF FreshTags
    <3>4. \A x \in FreshTags.table : ~(x > FreshTags.initial_tags)
      BY <3>2 DEF FreshTags, TagsInit, Ids
    <3> QED
      BY <3>1, <3>3, <3>4 DEF Selectable
  <2>2. CASE p # o
    <3>1. p \in plugged /\ tags'[p] = tags[p] /\ tag' = tag
      BY <1>1, <1>3, <1>4, <2>2
    <3> QED
      BY <1>1, <3>1 DEF Kept
  <2> QED
    BY <2>1, <2>2
<1>13. Headless \notin plugged'
  BY <1>2, <1>3
<1> QED
  BY <1>3, <1>11, <1>12, <1>13, ShowKept

-----------------------------------------------------------------------------
(* The theorems                                                            *)

LEMMA InitStays ==
  ASSUME Init
  PROVE  StayInv
<1>1. Right(World, Screen)
  BY DEF Init, Right, HiddenBut, Drawn, OnCurrent, HasFocus, World, Screen
<1> QED
  BY <1>1, InitSafe DEF Init, StayInv, Kept

\* Every handler of a session whose outputs stay keeps the invariant.
LEMMA NextStays ==
  ASSUME Staying, StayInv, [Next]_vars
  PROVE  StayInv'
<1>0. SafetyInv' /\ Confined
  BY NextSafe DEF StayInv, Staying
<1>1. CASE \E v \in Views, o \in Outputs, id \in Ids, full \in BOOLEAN :
             MapView(v, o, id, full)
  BY <1>0, <1>1, MapViewKept DEF StayInv
<1>2. CASE \E v \in Views : UnmapView(v)
  BY <1>0, <1>2, UnmapViewKept DEF StayInv
<1>3. CASE \E v \in Views : SetFullscreen(v)
  BY <1>0, <1>3, SetFullscreenKept DEF StayInv
<1>4. CASE \E direction \in Directions : FocusStep(direction)
  BY <1>0, <1>4, FocusStepKept DEF StayInv
<1>5. CASE \E id \in Ids : FocusTag(id)
  BY <1>0, <1>5, FocusTagKept DEF StayInv
<1>6. CASE FocusLastTag
  BY <1>0, <1>6, FocusLastTagKept DEF StayInv
<1>7. CASE \E id \in Ids : RemoveEmptyTag(id)
  BY <1>0, <1>7, RemoveEmptyTagKept DEF StayInv
<1>8. CASE SetLayout
  BY <1>0, <1>8, SetLayoutKept DEF StayInv
<1>9. CASE \E id \in Ids, follow \in BOOLEAN : MoveViewToTag(id, follow)
  BY <1>0, <1>9, MoveViewToTagKept DEF StayInv
<1>10. CASE \E o \in Outputs : FocusOutput(o)
  BY <1>0, <1>10, FocusOutputKept DEF StayInv
<1>11. CASE \E o \in Outputs, follow \in BOOLEAN : MoveViewToOutput(o, follow)
  BY <1>0, <1>11, MoveViewToOutputKept DEF StayInv
<1>12. CASE \E v \in Views : FocusDirection(v)
  BY <1>0, <1>12, FocusDirectionKept DEF StayInv
<1>13. CASE \E o \in Outputs : FocusAcrossOutputs(o)
  BY <1>0, <1>13, FocusAcrossOutputsKept DEF StayInv
<1>14. CASE \E v \in Views : FocusPreviousView(v)
  BY <1>0, <1>14, FocusPreviousViewKept DEF StayInv
<1>15. CASE \E o \in Outputs : PointerMotion(o)
  BY <1>0, <1>15, PointerMotionKept DEF StayInv
<1>16. CASE \E o \in Outputs, id \in Ids : WorkspaceActivate(o, id)
  BY <1>0, <1>16, WorkspaceActivateKept DEF StayInv
<1>17. CASE \E v \in Views : ToplevelActivate(v)
  BY <1>0, <1>17, ToplevelActivateKept DEF StayInv
<1>18. CASE \E v \in Views : DesktopActivate(v)
  BY <1>0, <1>18, DesktopActivateKept DEF StayInv
<1>19. CASE Lock
  BY <1>0, <1>19, LockKept DEF StayInv
<1>20. CASE Unlock
  BY <1>0, <1>20, UnlockKept DEF StayInv
<1>21. CASE \E next \in Configs : ReloadConfig(next)
  BY <1>0, <1>21, ReloadConfigKept DEF StayInv
<1>22. CASE \E o \in Outputs, on \in BOOLEAN : SetPower(o, on)
  BY <1>0, <1>22, SetPowerKept DEF StayInv
<1>23. CASE \E heads \in SUBSET plugged : ManagerApply(heads)
  BY <1>0, <1>23, ManagerApplyKept DEF StayInv
<1>24. CASE \E o \in Outputs : Unplug(o)
  BY <1>24 DEF Staying, Unplug
<1>25. CASE \E o \in Outputs : Plug(o)
  BY <1>0, <1>25, PlugKept DEF StayInv
<1>26. CASE Stopped \/ UNCHANGED vars
  <2>1. /\ UNCHANGED <<outputVars, tags, config, tag, fullscreen, locked>>
        /\ UNCHANGED screenVars
    BY <1>26 DEF Stopped, vars
  <2>2. World' = World /\ Screen' = Screen /\ plugged' = plugged /\ tags' = tags
        /\ tag' = tag
    BY <2>1 DEF World, Screen, outputVars, screenVars
  <2> QED
    BY <1>0, <2>2 DEF StayInv, Kept
<1> QED
  BY <1>1, <1>2, <1>3, <1>4, <1>5, <1>6, <1>7, <1>8, <1>9, <1>10, <1>11, <1>12,
     <1>13, <1>14, <1>15, <1>16, <1>17, <1>18, <1>19, <1>20, <1>21, <1>22, <1>23,
     <1>24, <1>25, <1>26
  DEF Next

\* What is drawn, what has the keyboard and what can be selected agree, for
\* any number of outputs, views and tags.
THEOREM StayInvariant ==
  ASSUME Staying
  PROVE  Spec => []StayInv
<1>1. Init => StayInv
  BY InitStays
<1>2. StayInv /\ [Next]_vars => StayInv'
  BY NextStays
<1> QED
  BY <1>1, <1>2, PTL DEF Spec

\* The window with the keyboard is on the current tag of the focused output
\* after every handler, so nobody types into a hidden window.
THEOREM KeyboardOnCurrentTag ==
  ASSUME Staying
  PROVE  Spec => []FocusOnCurrentTag
<1>1. StayInv => FocusOnCurrentTag
  BY StayInvImplies
<1> QED
  BY <1>1, StayInvariant, PTL

\* No handler leaves the keyboard without a window while the current tag of
\* the focused output has one.
THEOREM KeyboardWhenPossible ==
  ASSUME Staying
  PROVE  Spec => []FocusWhenPossible
<1>1. StayInv => FocusWhenPossible
  BY StayInvImplies
<1> QED
  BY <1>1, StayInvariant, PTL

\* Every handler's last refresh leaves no window of a hidden tag on any screen,
\* and the current tag on the focused one.
THEOREM ScreenStaysSound ==
  ASSUME Staying
  PROVE  Spec => []ScreenSound
<1>1. StayInv => ScreenSound
  BY StayInvImplies
<1> QED
  BY <1>1, StayInvariant, PTL

\* A candidate is never a tag that has views, the previous tag can always be
\* selected again, and an adaptive tag always has a view.
THEOREM SelectionStaysSound ==
  ASSUME Staying
  PROVE  Spec => []SelectionSound
<1>1. StayInv => SelectionSound
  BY StayInvImplies
<1> QED
  BY <1>1, StayInvariant, PTL

\* Focus next and focus previous of any output that is plugged, at any moment,
\* go to the next and the previous stop of its ring, and wrap at the ends.
THEOREM StepsStayOnRing ==
  ASSUME Staying
  PROVE  Spec => []StepsOnRing
<1>1. StayInv => StepsOnRing
  BY StepIsOnRing, PluggedTableGood, LimitAssumption
     DEF StepsOnRing, StayInv, Kept, Selectable, Choosable
<1> QED
  BY <1>1, StayInvariant, PTL

=============================================================================
