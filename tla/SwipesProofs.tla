---------------------------- MODULE SwipesProofs ----------------------------
(***************************************************************************)
(* A transition has one owner and shows what it may, a window is invisible *)
(* only while a snapshot stands in for it, and a touchpad gets its setting *)
(* back, for every set of windows and devices and every scenario.          *)
(*                                                                         *)
(* A world is Still if all of it but what is drawn is as it should be, and *)
(* Drawn if the windows that are enabled and masked are the right ones:    *)
(* most operators break the second and a refresh at their end mends it.    *)
(* Owned, Tame, Watched and Within are kept apart, because the handlers    *)
(* suspend each of them between two of their steps.                        *)
(***************************************************************************)
EXTENDS SwipesProperties, DataProofs

Modes == {"single", "scrub", "free"}

Limit == CHOOSE m \in Situation(around).maxima :
           \A other \in Situation(around).maxima : other <= m
Reach == Situation(around).reach

Gestures ==
  [active : BOOLEAN, engaged : BOOLEAN, mode : Modes, pointer : Pointers \cup {"none"},
   initial : Int, center : Int, start : Int, displacement : Int, ring : SUBSET (1..Limit)]

Transitions ==
  [active : BOOLEAN, outgoing : 0..Limit, incoming : 0..Limit, ring : SUBSET (1..Limit),
   from : Int, to : Int, gesture : BOOLEAN, animation : {"none", "slide", "spring"},
   bounded : BOOLEAN, min : Int, max : Int, presented : Int, pair : BOOLEAN,
   cache : Seq(1..Limit)]

Levels == {Overridden} \cup 0..MaxReloads

Worlds ==
  [tags : TagsType(Limit), direction : Directions \cup {0}, tag : [Views -> 0..Limit],
   fullscreen : SUBSET Fullscreens, enabled : SUBSET Views, masked : SUBSET Views,
   opening : [Views -> {"no", "pending", "fading"}], gesture : Gestures,
   transition : Transitions, here : BOOLEAN, power_on : BOOLEAN, locked : BOOLEAN,
   session_active : BOOLEAN, settings : [Pointers -> Levels],
   override : Pointers \cup {"none"}, saved : Levels, mode : Modes,
   animated : BOOLEAN, version : 0..MaxReloads]

-----------------------------------------------------------------------------
(* The invariant                                                           *)

TagsGood(s) == GoodTable(Limit, s.tags) /\ CandidateSound(s.tags)

\* An opening animation runs on the focused tag only, and not while tags move.
OpeningHere(s) ==
  /\ \A v \in Views : s.opening[v] # "no" => s.tag[v] # 0 /\ s.tag[v] = CurrentTag(s)
  /\ s.transition.active \/ s.gesture.engaged => \A v \in Views : s.opening[v] = "no"

\* What is not going on has left nothing behind.
Cleared(s) ==
  /\ ~s.gesture.active => s.gesture = NoGesture
  /\ ~s.transition.active => s.transition = NoTransition

\* The snapshots a transition has, the tags it shows and where it leads.
Showing(s, tr) ==
  /\ {tr.outgoing, tr.incoming} \subseteq ToSet(tr.cache)
  /\ Len(tr.cache) <= CacheSize /\ Distinct(tr.cache)
  /\ tr.ring # {}
  /\ tr.gesture \/ tr.incoming = s.tags.focused_id
  /\ s.gesture.engaged \/ tr.animation = "spring" => tr.gesture
  /\ s.gesture.engaged => tr.ring = s.gesture.ring
  /\ tr.animation = "spring" => RingAt(tr.ring, tr.to) = s.tags.focused_id

Presented(s) == s.transition.active => Showing(s, s.transition)

Still(s) ==
  /\ s \in Worlds /\ s.masked \subseteq Mapped(s)
  /\ TagsGood(s) /\ OpeningHere(s) /\ Cleared(s) /\ Presented(s)
  /\ s.gesture.active => s.gesture.ring # {}

HiddenViews(s) == {v \in Mapped(s) : PresentationHidden(s, v)}
Members(s) == OnTag(s, CurrentTag(s)) \ OnTag(s, 0)

Visible(s) == s.enabled \subseteq Members(s)
Drawn(s) == Visible(s) /\ s.masked = HiddenViews(s)

Owned(s) ==
  s.transition.active =>
    ((s.transition.animation # "none") # (s.gesture.active /\ s.gesture.engaged))

Tame(s) ==
  /\ s.override # "none" =>
       s.gesture.active /\ s.gesture.pointer = s.override /\ s.saved = s.version
  /\ \A p \in Pointers :
       s.settings[p] = IF s.override = p THEN Overridden ELSE s.version

Watched(s) ==
  /\ s.gesture.active => ~s.locked /\ s.power_on /\ s.session_active
  /\ s.here => s.power_on
  /\ s.gesture.displacement \in -Reach..Reach

Within(s) ==
  /\ s.gesture.active => s.gesture.ring \subseteq 1..s.tags.max_tags
  /\ s.transition.active => s.transition.ring \subseteq 1..s.tags.max_tags

Safe(s) == Still(s) /\ Drawn(s) /\ Owned(s) /\ Tame(s) /\ Watched(s) /\ Within(s)

SwipeInv ==
  around \in Scenarios /\ events \in 0..Situation(around).events /\ Safe(w)
-----------------------------------------------------------------------------
(* The ring of tags                                                        *)

LEMMA SituationsAre ==
  /\ \A name : Situation(name).mode \in {name, "free"} /\ Situation(name).initial \in 1..6
  /\ \A name : Situation(name).maxima = {6} \/ Situation(name).maxima = {3, 4}
  /\ \A name : Situation(name).steps \subseteq Nat
  /\ \A name : Situation(name).reach \in Nat /\ Situation(name).events \in Nat
  /\ \A name : \A m \in Situation(name).maxima : Situation(name).initial < m
BY DEF Situation

LEMMA LimitIs ==
  /\ Limit \in Nat \ {0} /\ Limit \in Situation(around).maxima
  /\ \A m \in Situation(around).maxima : m \in 1..Limit
<1> DEFINE maxima == Situation(around).maxima
<1>1. CASE maxima = {6}
  BY <1>1 DEF Limit
<1>2. CASE maxima = {3, 4}
  <2>1. 4 \in maxima /\ \A other \in maxima : other <= 4
    BY <1>2
  <2> QED
    BY <1>2, <2>1 DEF Limit
<1> QED
  BY <1>1, <1>2, SituationsAre

\* A ring is finite, and a member has the smaller ones before it.
LEMMA RingFinite ==
  ASSUME NEW L \in Nat, NEW ring \in SUBSET (1..L)
  PROVE  /\ IsFiniteSet(ring) /\ Cardinality(ring) \in Nat
         /\ Cardinality(ring) = 0 <=> ring = {}
         /\ \A id \in ring : Index(ring, id) \in 0..Cardinality(ring) - 1
         /\ \A id, other \in ring : Index(ring, id) = Index(ring, other) => id = other
<1>1. IsFiniteSet(1..L)
  BY FS_Interval
<1>2. IsFiniteSet(ring)
  BY <1>1, FS_Subset
<1>3. Cardinality(ring) \in Nat /\ (Cardinality(ring) = 0 <=> ring = {})
  BY <1>2, FS_CardinalityType, FS_EmptySet
<1> DEFINE before(id) == {other \in ring : other < id}
<1>4. \A id : before(id) \in SUBSET ring
  OBVIOUS
<1>5. \A id : IsFiniteSet(before(id)) /\ Cardinality(before(id)) \in Nat
  BY <1>2, <1>4, FS_Subset, FS_CardinalityType
<1>6. \A id : before(id) # ring => Cardinality(before(id)) < Cardinality(ring)
  BY <1>2, <1>3, <1>4, <1>5, FS_Subset
<1>7. \A id \in ring : id \notin before(id) /\ id \in Int
  OBVIOUS
<1>8. ASSUME NEW id \in ring, NEW other \in ring, id < other
      PROVE  Cardinality(before(id)) # Cardinality(before(other))
  <2>0. \A x \in ring : x < id => x < other
    BY <1>7, <1>8
  <2>1. before(id) \in SUBSET before(other)
    BY <2>0, Zenon
  <2>2. id \in before(other) /\ id \notin before(id)
    BY <1>8
  <2> HIDE DEF before
  <2> QED
    BY <1>5, <2>1, <2>2, FS_Subset
<1>9. \A id \in ring : Index(ring, id) = Cardinality(before(id))
  BY DEF Index
<1> HIDE DEF before
<1>10. \A id \in ring : Index(ring, id) \in 0..Cardinality(ring) - 1
  <2> TAKE id \in ring
  <2>1. before(id) # ring
    BY <1>7
  <2> QED
    BY <1>3, <1>5, <1>6, <1>9, <2>1
<1> QED
  BY <1>2, <1>3, <1>7, <1>8, <1>9, <1>10

\* Every place on a ring is the place of a member.
LEMMA RingPlace ==
  ASSUME NEW L \in Nat, NEW ring \in SUBSET (1..L), NEW k \in 0..Cardinality(ring) - 1
  PROVE  \E id \in ring : Index(ring, id) = k
<1> DEFINE n == Cardinality(ring)
           f == [id \in ring |-> Index(ring, id)]
           places == 0..n - 1
<1>1. n \in Nat /\ IsFiniteSet(ring)
  BY RingFinite
<1>2. f \in [ring -> places] /\ \A id, other \in ring : f[id] = f[other] => id = other
  BY RingFinite
<1>3. f \in Injection(ring, places)
  <2> HIDE DEF f, places
  <2> QED
    BY <1>2 DEF Injection, IsInjective
<1>4. IsFiniteSet(places) /\ Cardinality(places) = n
  <2>1. n - 1 \in Int
    BY <1>1
  <2> QED
    BY <1>1, <2>1, FS_Interval
<1>5. f \in Surjection(ring, places)
  <2> HIDE DEF f, places
  <2> QED
    BY <1>1, <1>3, <1>4, FS_Injection
<1>6. \E id \in ring : f[id] = k
  <2> HIDE DEF f
  <2> QED
    BY <1>5 DEF Surjection
<1> QED
  BY <1>6

LEMMA TagInt ==
  ASSUME NEW p \in Int
  PROVE  Tag(p) \in Int /\ Floor(p) \in Int /\ Ceil(p) \in Int /\ Nearest(p) \in Int
<1>1. \A q \in Int : Tag(q) \in Int /\ Floor(q) \in Int
  BY DEF Tag, Floor, Unit
<1>2. Ceil(p) \in Int
  BY <1>1 DEF Ceil
<1>3. Nearest(p) \in Int
  <2>1. p + Unit \div 2 \in Int /\ Unit \div 2 - p \in Int
    BY DEF Unit
  <2> QED
    BY <1>1, <2>1 DEF Nearest
<1> QED
  BY <1>1, <1>2, <1>3

\* leme_tags_ring_wrap always lands on the ring.
LEMMA RingAtMember ==
  ASSUME NEW L \in Nat, NEW ring \in SUBSET (1..L), ring # {}, NEW p \in Int
  PROVE  RingAt(ring, p) \in ring
<1> DEFINE n == Cardinality(ring)
           k == Tag(p) % n
<1>1. n \in Nat \ {0}
  BY RingFinite
<1>2. k \in 0..n - 1
  <2> HIDE DEF n
  <2> QED
    BY <1>1, TagInt
<1>3. \E id \in ring : Index(ring, id) = k
  <2> HIDE DEF k
  <2> QED
    BY <1>2, RingPlace
<1> QED
  BY <1>3 DEF RingAt

-----------------------------------------------------------------------------
(* The operators that end what is going on.  Each lemma says which fields  *)
(* an operator changes, and what it keeps.                                 *)

SameScene(s, t) ==
  /\ t.tag = s.tag /\ t.fullscreen = s.fullscreen /\ t.here = s.here
  /\ t.power_on = s.power_on /\ t.locked = s.locked
  /\ t.session_active = s.session_active /\ t.mode = s.mode
  /\ t.animated = s.animated /\ t.version = s.version

SamePad(s, t) ==
  /\ t.gesture = s.gesture /\ t.settings = s.settings
  /\ t.override = s.override /\ t.saved = s.saved

SameTags(s, t) == t.tags = s.tags /\ t.direction = s.direction

SameFace(s, t) == t.enabled = s.enabled /\ t.masked = s.masked

NoOpening(s) == \A v \in Views : s.opening[v] = "no"

\* What is drawn does not matter to the rest.
LEMMA StillSame ==
  ASSUME NEW s, Still(s), NEW t \in Worlds, t.masked \subseteq Mapped(t),
         t.tags = s.tags, t.tag = s.tag, t.opening = s.opening \/ NoOpening(t),
         t.gesture = s.gesture, t.transition = s.transition
  PROVE  Still(t)
BY DEF Still, TagsGood, OpeningHere, Cleared, Presented, Showing, CurrentTag, NoOpening

LEMMA RefreshViewsIs ==
  ASSUME NEW s \in Worlds, s.masked \subseteq Mapped(s)
  PROVE  LET t == RefreshViews(s)
         IN /\ t = [s EXCEPT !.masked = HiddenViews(s)]
            /\ t \in Worlds /\ t.masked = HiddenViews(t)
            /\ SameScene(s, t) /\ SamePad(s, t) /\ SameTags(s, t)
            /\ t.enabled = s.enabled /\ t.opening = s.opening
            /\ t.transition = s.transition
<1> DEFINE hidden == HiddenViews(s)
           t == [s EXCEPT !.masked = hidden]
<1>1. hidden \in SUBSET Views
  BY DEF HiddenViews, Mapped
<1>2. RefreshViews(s) = t
  <2>1. (s.masked \ Mapped(s)) \cup hidden = hidden
    OBVIOUS
  <2>2. RefreshViews(s) = [s EXCEPT !.masked = (s.masked \ Mapped(s)) \cup hidden]
    BY DEF RefreshViews, SyncPresentation, HiddenViews
  <2> HIDE DEF hidden
  <2> QED
    BY <2>1, <2>2
<1> HIDE DEF hidden
<1>3. t \in Worlds
  BY <1>1 DEF Worlds
<1>4. /\ SameScene(s, t) /\ SamePad(s, t) /\ SameTags(s, t)
      /\ t.enabled = s.enabled /\ t.opening = s.opening
      /\ t.transition = s.transition /\ t.masked = hidden
  BY DEF Worlds, SameScene, SamePad, SameTags
<1>5. HiddenViews(t) = hidden
  BY <1>4 DEF hidden, HiddenViews, Mapped, OnTag, PresentationHidden, HidesView,
              SameScene, SameTags
<1> QED
  BY <1>2, <1>3, <1>4, <1>5 DEF hidden

\* What is kept even where the tags are between two configurations.
Loose(s) ==
  /\ s \in Worlds /\ s.masked \subseteq Mapped(s) /\ Cleared(s)
  /\ s.gesture.active => s.gesture.ring # {}

LEMMA StillLoose ==
  ASSUME NEW s, Still(s)
  PROVE  Loose(s)
BY DEF Still, Loose

LEMMA RefreshFocusLoose ==
  ASSUME NEW s, Loose(s)
  PROVE  LET t == RefreshFocus(s)
         IN /\ Loose(t) /\ Drawn(t)
            /\ SameScene(s, t) /\ SamePad(s, t) /\ SameTags(s, t)
            /\ t.opening = s.opening /\ t.transition = s.transition
<1> DEFINE here == Members(s)
           visible == IF here \cap s.fullscreen = {} THEN here
                      ELSE {CHOOSE v \in here : v \in s.fullscreen}
           u == [s EXCEPT !.enabled = visible]
           t == RefreshFocus(s)
<1>1. visible \subseteq here /\ here \subseteq Views
  BY DEF Members, OnTag
<1>2. t = RefreshViews(u)
  BY DEF RefreshFocus, Members
<1> HIDE DEF here, visible
<1>3. s \in Worlds /\ s.masked \subseteq Mapped(s)
  BY DEF Loose
<1>4. u \in Worlds
  BY <1>1, <1>3 DEF Worlds
<1>5. /\ SameScene(s, u) /\ SamePad(s, u) /\ SameTags(s, u) /\ u.enabled = visible
      /\ u.opening = s.opening /\ u.transition = s.transition /\ u.masked = s.masked
  BY <1>3 DEF Worlds, SameScene, SamePad, SameTags
<1> HIDE DEF u
<1>6. u.masked \subseteq Mapped(u)
  BY <1>3, <1>5 DEF Mapped, OnTag, SameScene
<1>7. /\ t \in Worlds /\ t.masked = HiddenViews(t)
      /\ SameScene(u, t) /\ SamePad(u, t) /\ SameTags(u, t)
      /\ t.enabled = u.enabled /\ t.opening = u.opening
      /\ t.transition = u.transition
  BY <1>2, <1>4, <1>6, RefreshViewsIs
<1> HIDE DEF t
<1>8. /\ SameScene(s, t) /\ SamePad(s, t) /\ SameTags(s, t)
      /\ t.opening = s.opening /\ t.transition = s.transition
  BY <1>5, <1>7 DEF SameScene, SamePad, SameTags
<1>9. t.masked \subseteq Mapped(t)
  BY <1>7 DEF HiddenViews
<1>10. Loose(t)
  BY <1>7, <1>8, <1>9 DEF Loose, Cleared, SamePad
<1>11. Drawn(t)
  <2>1. Members(t) = here
    BY <1>8 DEF here, Members, OnTag, CurrentTag, SameScene, SameTags
  <2> QED
    BY <1>1, <1>5, <1>7, <2>1 DEF Drawn, Visible
<1> QED
  BY <1>8, <1>10, <1>11 DEF t

LEMMA RefreshFocusIs ==
  ASSUME NEW s, Still(s)
  PROVE  LET t == RefreshFocus(s)
         IN /\ Still(t) /\ Drawn(t)
            /\ SameScene(s, t) /\ SamePad(s, t) /\ SameTags(s, t)
            /\ t.opening = s.opening /\ t.transition = s.transition
<1> DEFINE t == RefreshFocus(s)
<1>1. /\ Loose(t) /\ Drawn(t)
      /\ SameScene(s, t) /\ SamePad(s, t) /\ SameTags(s, t)
      /\ t.opening = s.opening /\ t.transition = s.transition
  BY StillLoose, RefreshFocusLoose
<1> HIDE DEF t
<1>2. Still(t)
  BY <1>1, StillSame DEF Loose, SameScene, SamePad, SameTags
<1> QED
  BY <1>1, <1>2 DEF t

\* The windows that are on the screen once no opening animation runs
Opened(s) == s.enabled \cup {v \in Mapped(s) : s.opening[v] = "fading"}

LEMMA FinishViewsLoose ==
  ASSUME NEW s, Loose(s)
  PROVE  LET t == FinishViews(s)
         IN /\ Loose(t) /\ NoOpening(t) /\ t.masked = HiddenViews(t) /\ t.enabled = Opened(s)
            /\ SameScene(s, t) /\ SamePad(s, t) /\ SameTags(s, t)
            /\ t.transition = s.transition
<1> DEFINE shown == Opened(s)
           none == [v \in Views |-> "no"]
           u == [s EXCEPT !.enabled = shown, !.opening = none]
           t == FinishViews(s)
<1>1. s \in Worlds /\ s.masked \subseteq Mapped(s)
  BY DEF Loose
<1>2. shown \in SUBSET Views
  BY <1>1 DEF Mapped, Worlds, Opened
<1>3. t = RefreshViews(u)
  BY DEF FinishViews, Opened
<1> HIDE DEF shown
<1>4. none \in [Views -> {"no", "pending", "fading"}] /\ \A v \in Views : none[v] = "no"
  OBVIOUS
<1> HIDE DEF none
<1>5. u \in Worlds
  BY <1>1, <1>2, <1>4 DEF Worlds
<1>6. /\ SameScene(s, u) /\ SamePad(s, u) /\ SameTags(s, u) /\ u.enabled = shown
      /\ u.opening = none /\ u.transition = s.transition /\ u.masked = s.masked
  BY <1>1 DEF Worlds, SameScene, SamePad, SameTags
<1> HIDE DEF u
<1>7. u.masked \subseteq Mapped(u)
  BY <1>1, <1>6 DEF Mapped, OnTag, SameScene
<1>8. /\ t \in Worlds /\ t.masked = HiddenViews(t)
      /\ SameScene(u, t) /\ SamePad(u, t) /\ SameTags(u, t)
      /\ t.enabled = u.enabled /\ t.opening = u.opening
      /\ t.transition = u.transition
  BY <1>3, <1>5, <1>7, RefreshViewsIs
<1> HIDE DEF t
<1>9. /\ SameScene(s, t) /\ SamePad(s, t) /\ SameTags(s, t)
      /\ NoOpening(t) /\ t.transition = s.transition
  BY <1>4, <1>6, <1>8 DEF SameScene, SamePad, SameTags, NoOpening
<1>10. t.masked \subseteq Mapped(t)
  BY <1>8 DEF HiddenViews
<1>11. Loose(t)
  BY <1>8, <1>9, <1>10 DEF Loose, Cleared, SamePad
<1> QED
  BY <1>6, <1>8, <1>9, <1>11 DEF t, shown

LEMMA OpenedHere ==
  ASSUME NEW s, Still(s), Visible(s)
  PROVE  Opened(s) \subseteq Members(s)
BY DEF Still, OpeningHere, Visible, Members, Mapped, OnTag, Opened, Worlds

LEMMA FinishViewsIs ==
  ASSUME NEW s, Still(s)
  PROVE  LET t == FinishViews(s)
         IN /\ Still(t) /\ (Visible(s) => Drawn(t)) /\ NoOpening(t)
            /\ SameScene(s, t) /\ SamePad(s, t) /\ SameTags(s, t)
            /\ t.transition = s.transition
<1> DEFINE t == FinishViews(s)
<1>1. /\ Loose(t) /\ NoOpening(t) /\ t.masked = HiddenViews(t) /\ t.enabled = Opened(s)
      /\ SameScene(s, t) /\ SamePad(s, t) /\ SameTags(s, t)
      /\ t.transition = s.transition
  BY StillLoose, FinishViewsLoose
<1> HIDE DEF t
<1>2. Still(t)
  BY <1>1, StillSame DEF Loose, SameScene, SamePad, SameTags
<1>3. Visible(s) => Drawn(t)
  <2>1. Members(t) = Members(s)
    BY <1>1 DEF Members, OnTag, CurrentTag, SameScene, SameTags
  <2> QED
    BY <1>1, <2>1, OpenedHere DEF Drawn, Visible
<1> QED
  BY <1>1, <1>2, <1>3 DEF t

LEMMA NothingTyped ==
  NoTransition \in Transitions /\ NoGesture \in Gestures
<1>1. <<>> \in Seq(1..Limit)
  OBVIOUS
<1>2. Limit \in Nat
  BY LimitIs
<1> QED
  BY <1>1, <1>2 DEF NoTransition, NoGesture, Transitions, Gestures, Modes

LEMMA TransitionDoneLoose ==
  ASSUME NEW s, Loose(s)
  PROVE  LET t == TransitionDone(s)
         IN /\ Loose(t) /\ t.masked = HiddenViews(t) /\ t.enabled = s.enabled
            /\ SameScene(s, t) /\ SamePad(s, t) /\ SameTags(s, t)
            /\ t.transition = NoTransition /\ t.opening = s.opening
<1> DEFINE u == [s EXCEPT !.transition = NoTransition]
           t == TransitionDone(s)
<1>1. s \in Worlds /\ s.masked \subseteq Mapped(s)
  BY DEF Loose
<1>2. t = RefreshViews(u)
  BY DEF TransitionDone
<1>3. u \in Worlds
  BY <1>1, NothingTyped DEF Worlds
<1>4. /\ SameScene(s, u) /\ SamePad(s, u) /\ SameTags(s, u) /\ SameFace(s, u)
      /\ u.opening = s.opening /\ u.transition = NoTransition
  BY <1>1 DEF Worlds, SameScene, SamePad, SameTags, SameFace
<1> HIDE DEF u
<1>5. u.masked \subseteq Mapped(u)
  BY <1>1, <1>4 DEF Mapped, OnTag, SameScene, SameFace
<1>6. /\ t \in Worlds /\ t.masked = HiddenViews(t)
      /\ SameScene(u, t) /\ SamePad(u, t) /\ SameTags(u, t)
      /\ t.enabled = u.enabled /\ t.opening = u.opening
      /\ t.transition = u.transition
  BY <1>2, <1>3, <1>5, RefreshViewsIs
<1> HIDE DEF t
<1>7. /\ SameScene(s, t) /\ SamePad(s, t) /\ SameTags(s, t)
      /\ t.opening = s.opening /\ t.transition = NoTransition /\ t.enabled = s.enabled
  BY <1>4, <1>6 DEF SameScene, SamePad, SameTags, SameFace
<1>8. t.masked \subseteq Mapped(t)
  BY <1>6 DEF HiddenViews
<1>9. Loose(t)
  BY <1>6, <1>7, <1>8 DEF Loose, Cleared, SamePad
<1> QED
  BY <1>6, <1>7, <1>9 DEF t

LEMMA TransitionDoneIs ==
  ASSUME NEW s, Still(s)
  PROVE  LET t == TransitionDone(s)
         IN /\ Still(t) /\ (Visible(s) => Drawn(t))
            /\ SameScene(s, t) /\ SamePad(s, t) /\ SameTags(s, t)
            /\ t.transition = NoTransition /\ t.opening = s.opening
<1> DEFINE t == TransitionDone(s)
<1>1. /\ Loose(t) /\ t.masked = HiddenViews(t) /\ t.enabled = s.enabled
      /\ SameScene(s, t) /\ SamePad(s, t) /\ SameTags(s, t)
      /\ t.transition = NoTransition /\ t.opening = s.opening
  BY StillLoose, TransitionDoneLoose
<1> HIDE DEF t
<1>2. ~NoTransition.active
  BY DEF NoTransition
<1>3. Still(t)
  <2>1. TagsGood(t) /\ OpeningHere(t)
    BY <1>1, <1>2 DEF Still, TagsGood, OpeningHere, CurrentTag, SameScene, SamePad, SameTags
  <2>2. Presented(t)
    BY <1>1, <1>2 DEF Presented
  <2> QED
    BY <1>1, <2>1, <2>2 DEF Still, Loose
<1>4. Visible(s) => Drawn(t)
  <2>1. Members(t) = Members(s)
    BY <1>1 DEF Members, OnTag, CurrentTag, SameScene, SameTags
  <2> QED
    BY <1>1, <2>1 DEF Drawn, Visible
<1> QED
  BY <1>1, <1>3, <1>4 DEF t

LEMMA AccelRestoreIs ==
  ASSUME NEW s \in Worlds
  PROVE  LET t == AccelRestore(s)
         IN /\ t \in Worlds /\ t.override = "none"
            /\ SameScene(s, t) /\ SameTags(s, t) /\ SameFace(s, t)
            /\ t.opening = s.opening /\ t.gesture = s.gesture /\ t.transition = s.transition
            /\ Tame(s) => \A p \in Pointers : t.settings[p] = s.version
<1> DEFINE t == AccelRestore(s)
<1>1. CASE s.override = "none"
  BY <1>1, SwipesAssumption DEF AccelRestore, Tame, SameScene, SameTags, SameFace
<1>2. CASE s.override # "none"
  <2> DEFINE settings == [s.settings EXCEPT ![s.override] = s.saved]
             none == "none"
             zero == 0
             a == [s EXCEPT !.settings[s.override] = s.saved]
             b == [s EXCEPT !.settings = settings]
             u == [[b EXCEPT !.override = none] EXCEPT !.saved = zero]
  <2>1. t = u
    <3>1. a = b
      OBVIOUS
    <3>2. t = [[a EXCEPT !.override = none] EXCEPT !.saved = zero]
      BY <1>2 DEF AccelRestore
    <3> HIDE DEF a, b
    <3> QED
      BY <3>1, <3>2
  <2>2. settings \in [Pointers -> Levels] /\ zero \in Levels /\ none \in Pointers \cup {"none"}
    <3>1. zero \in Levels
      BY SwipesAssumption DEF Levels
    <3>2. s.settings \in [Pointers -> Levels] /\ s.saved \in Levels
      BY DEF Worlds
    <3> QED
      BY <3>1, <3>2
  <2>3. Tame(s) => \A p \in Pointers : settings[p] = s.version
    <3>1. s.settings \in [Pointers -> Levels]
      BY DEF Worlds
    <3>2. Tame(s) => s.saved = s.version /\ \A p \in Pointers :
                       s.override # p => s.settings[p] = s.version
      BY <1>2 DEF Tame
    <3> QED
      BY <3>1, <3>2
  <2>4. none = "none"
    OBVIOUS
  <2> HIDE DEF settings, none, zero
  <2>5. u \in Worlds
    BY <2>2 DEF Worlds
  <2>6. /\ SameScene(s, u) /\ SameTags(s, u) /\ SameFace(s, u) /\ u.override = none
        /\ u.opening = s.opening /\ u.gesture = s.gesture /\ u.transition = s.transition
        /\ u.settings = settings
    BY DEF Worlds, SameScene, SameTags, SameFace
  <2> QED
    BY <2>1, <2>3, <2>4, <2>5, <2>6
<1> QED
  BY <1>1, <1>2

\* Whoever ends the swipe gives the device its setting back.
LEMMA GestureResetIs ==
  ASSUME NEW s \in Worlds
  PROVE  LET t == GestureReset(s)
         IN /\ t \in Worlds /\ t.gesture = NoGesture /\ t.override = "none"
            /\ SameScene(s, t) /\ SameTags(s, t) /\ SameFace(s, t)
            /\ t.opening = s.opening /\ t.transition = s.transition
            /\ (Tame(s) => Tame(t))
            /\ Still(s) => Still(t)
            /\ Drawn(s) => Drawn(t)
            /\ Visible(s) => Visible(t)
<1> DEFINE r == AccelRestore(s)
           t == GestureReset(s)
<1>1. /\ r \in Worlds /\ r.override = "none"
      /\ SameScene(s, r) /\ SameTags(s, r) /\ SameFace(s, r)
      /\ r.opening = s.opening /\ r.gesture = s.gesture /\ r.transition = s.transition
      /\ Tame(s) => \A p \in Pointers : r.settings[p] = s.version
  BY AccelRestoreIs
<1>2. t = [r EXCEPT !.gesture = NoGesture]
  BY DEF GestureReset
<1> HIDE DEF r
<1>3. t \in Worlds
  BY <1>1, <1>2, NothingTyped DEF Worlds
<1>4. /\ SameScene(r, t) /\ SameTags(r, t) /\ SameFace(r, t) /\ t.gesture = NoGesture
      /\ t.opening = r.opening /\ t.transition = r.transition
      /\ t.settings = r.settings /\ t.override = r.override
  BY <1>1, <1>2 DEF Worlds, SameScene, SameTags, SameFace
<1> HIDE DEF t
<1>5. /\ SameScene(s, t) /\ SameTags(s, t) /\ SameFace(s, t)
      /\ t.opening = s.opening /\ t.transition = s.transition /\ t.override = "none"
  BY <1>1, <1>4 DEF SameScene, SameTags, SameFace
<1>6. Tame(s) => Tame(t)
  BY <1>1, <1>4, <1>5, SwipesAssumption DEF Tame, SameScene
<1>7. ~NoGesture.active /\ ~NoGesture.engaged
  BY DEF NoGesture
<1>8. Still(s) => Still(t)
  <2> SUFFICES ASSUME Still(s) PROVE Still(t)
    OBVIOUS
  <2>1. TagsGood(t) /\ OpeningHere(t)
    BY <1>5, <1>4, <1>7 DEF Still, TagsGood, OpeningHere, CurrentTag, SameScene, SameTags
  <2>2. Cleared(t)
    BY <1>4, <1>5 DEF Still, Cleared
  <2>3. Presented(t)
    BY <1>4, <1>5, <1>7 DEF Still, Presented, Showing, SameTags
  <2>4. t.masked \subseteq Mapped(t)
    BY <1>5 DEF Still, Mapped, OnTag, SameScene, SameFace
  <2> QED
    BY <1>3, <1>4, <1>7, <2>1, <2>2, <2>3, <2>4 DEF Still
<1>9. Members(t) = Members(s) /\ HiddenViews(t) = HiddenViews(s)
  BY <1>5 DEF Members, HiddenViews, Mapped, OnTag, CurrentTag, PresentationHidden,
              HidesView, SameScene, SameTags
<1> QED
  BY <1>3, <1>4, <1>5, <1>6, <1>8, <1>9 DEF Drawn, Visible, SameFace, t

LEMMA TransitionFinishIs ==
  ASSUME NEW s, Still(s), Visible(s)
  PROVE  LET t == TransitionFinish(s)
         IN /\ Still(t) /\ Visible(t) /\ t.transition = NoTransition
            /\ SameScene(s, t) /\ SameTags(s, t) /\ t.opening = s.opening
            /\ IF s.transition.active /\ s.gesture.engaged
               THEN t.gesture = NoGesture ELSE SamePad(s, t)
            /\ (Tame(s) => Tame(t))
            /\ Drawn(s) \/ s.transition.active => Drawn(t)
<1> DEFINE engaged == s.gesture.active /\ s.gesture.engaged
           r == GestureReset(s)
           u == IF engaged THEN r ELSE s
           t == TransitionFinish(s)
<1>0. s \in Worlds /\ (s.gesture.engaged => s.gesture.active)
  BY DEF Still, Cleared, NoGesture
<1>1. CASE ~s.transition.active
  <2>1. t = s /\ s.transition = NoTransition
    BY <1>1 DEF TransitionFinish, Still, Cleared
  <2> QED
    BY <1>1, <2>1 DEF SameScene, SameTags, SamePad
<1>2. CASE s.transition.active
  <2>1. /\ Still(u) /\ Visible(u) /\ SameScene(s, u) /\ SameTags(s, u)
        /\ u.opening = s.opening /\ (Tame(s) => Tame(u))
        /\ IF engaged THEN u.gesture = NoGesture ELSE SamePad(s, u)
    <3>1. CASE engaged
      <4>1. /\ r.gesture = NoGesture /\ SameScene(s, r) /\ SameTags(s, r)
            /\ r.opening = s.opening /\ (Tame(s) => Tame(r)) /\ Still(r) /\ Visible(r)
        BY <1>0, GestureResetIs
      <4> HIDE DEF engaged, r
      <4> QED
        BY <3>1, <4>1
    <3>2. CASE ~engaged
      BY <3>2 DEF SameScene, SameTags, SamePad
    <3> QED
      BY <3>1, <3>2
  <2>2. t = TransitionDone(u)
    BY <1>2 DEF TransitionFinish
  <2>3. engaged <=> s.gesture.engaged
    BY <1>0
  <2> HIDE DEF u, engaged
  <2>4. /\ Still(t) /\ Drawn(t) /\ SameScene(u, t) /\ SamePad(u, t) /\ SameTags(u, t)
        /\ t.transition = NoTransition /\ t.opening = u.opening
    BY <2>1, <2>2, TransitionDoneIs
  <2> HIDE DEF t
  <2>5. Tame(u) => Tame(t)
    BY <2>4 DEF Tame, SamePad, SameScene
  <2>6. Visible(t)
    BY <2>4 DEF Drawn
  <2>7. /\ SameScene(s, t) /\ SameTags(s, t) /\ t.opening = s.opening
        /\ IF engaged THEN t.gesture = NoGesture ELSE SamePad(s, t)
    BY <2>1, <2>4 DEF SameScene, SameTags, SamePad
  <2> QED
    BY <1>2, <2>1, <2>3, <2>4, <2>5, <2>6, <2>7 DEF t
<1> QED
  BY <1>1, <1>2

\* What a cancelled swipe leaves, whatever it had begun.
LEMMA GestureCancelIs ==
  ASSUME NEW s, Still(s), Drawn(s)
  PROVE  LET t == GestureCancel(s)
         IN /\ Still(t) /\ Drawn(t) /\ t.gesture = NoGesture /\ t.override = "none"
            /\ SameScene(s, t) /\ SameTags(s, t) /\ t.opening = s.opening
            /\ t.transition = IF s.gesture.engaged THEN NoTransition ELSE s.transition
            /\ (Tame(s) => Tame(t))
            /\ Owned(s) => Owned(t)
<1> DEFINE r == GestureReset(s)
           f == TransitionFinish(r)
           u == IF s.gesture.active /\ s.gesture.engaged THEN f ELSE r
           t == GestureCancel(s)
<1>0. s \in Worlds /\ (s.gesture.engaged => s.gesture.active) /\ Visible(s)
  BY DEF Still, Cleared, NoGesture, Drawn
<1>1. /\ r \in Worlds /\ r.gesture = NoGesture /\ r.override = "none"
      /\ SameScene(s, r) /\ SameTags(s, r) /\ SameFace(s, r)
      /\ r.opening = s.opening /\ r.transition = s.transition
      /\ (Tame(s) => Tame(r)) /\ Still(r) /\ Drawn(r) /\ Visible(r)
  BY <1>0, GestureResetIs
<1>2. ~NoGesture.engaged
  BY DEF NoGesture
<1>3. t = IF s.gesture.active THEN RefreshFocus(u) ELSE u
  BY DEF GestureCancel
<1> HIDE DEF r
<1>4. /\ Still(f) /\ Visible(f) /\ f.transition = NoTransition
      /\ SameScene(r, f) /\ SameTags(r, f) /\ f.opening = r.opening
      /\ SamePad(r, f) /\ (Tame(r) => Tame(f)) /\ Drawn(f)
  BY <1>1, <1>2, TransitionFinishIs
<1> HIDE DEF f
<1>5. /\ Still(u) /\ Drawn(u) /\ u.gesture = NoGesture /\ u.override = "none"
      /\ SameScene(s, u) /\ SameTags(s, u) /\ u.opening = s.opening
      /\ u.transition = (IF s.gesture.engaged THEN NoTransition ELSE s.transition)
      /\ (Tame(s) => Tame(u))
  <2>1. CASE s.gesture.engaged
    <3>1. u = f
      BY <1>0, <2>1
    <3> HIDE DEF u
    <3> QED
      BY <1>1, <1>4, <2>1, <3>1 DEF SameScene, SameTags, SamePad
  <2>2. CASE ~s.gesture.engaged
    <3>1. u = r
      BY <2>2
    <3> HIDE DEF u
    <3> QED
      BY <1>1, <2>2, <3>1
  <2> QED
    BY <2>1, <2>2
<1> HIDE DEF u
<1>6. /\ Still(t) /\ Drawn(t) /\ t.gesture = NoGesture /\ t.override = "none"
      /\ SameScene(s, t) /\ SameTags(s, t) /\ t.opening = s.opening
      /\ t.transition = (IF s.gesture.engaged THEN NoTransition ELSE s.transition)
      /\ (Tame(s) => Tame(t))
  <2> DEFINE v == RefreshFocus(u)
  <2>1. /\ Still(v) /\ Drawn(v) /\ SameScene(u, v) /\ SamePad(u, v) /\ SameTags(u, v)
        /\ v.opening = u.opening /\ v.transition = u.transition
    BY <1>5, RefreshFocusIs
  <2> HIDE DEF v
  <2>2. Tame(u) => Tame(v)
    BY <2>1 DEF Tame, SamePad, SameScene
  <2>3. /\ v.gesture = NoGesture /\ v.override = "none"
        /\ SameScene(s, v) /\ SameTags(s, v) /\ v.opening = s.opening
    BY <1>5, <2>1 DEF SamePad, SameScene, SameTags
  <2>4. t = v \/ t = u
    BY <1>3 DEF v
  <2> QED
    BY <1>5, <2>1, <2>2, <2>3, <2>4
<1> HIDE DEF t
<1>7. Owned(s) => Owned(t)
  <2>1. ~NoTransition.active /\ ~NoGesture.active
    BY DEF NoTransition, NoGesture
  <2> QED
    BY <1>0, <1>6, <2>1 DEF Owned
<1> QED
  BY <1>6, <1>7 DEF t

LEMMA FinishAllIs ==
  ASSUME NEW s, Still(s), Visible(s)
  PROVE  LET t == FinishAll(s)
         IN /\ Still(t) /\ Drawn(t) /\ NoOpening(t)
            /\ SameScene(s, t) /\ SamePad(s, t) /\ SameTags(s, t)
            /\ t.transition = IF s.transition.animation # "none"
                              THEN NoTransition ELSE s.transition
<1> DEFINE q == FinishViews(s)
           d == TransitionDone(q)
           t == FinishAll(s)
<1>1. /\ Still(q) /\ Drawn(q) /\ NoOpening(q) /\ Visible(q)
      /\ SameScene(s, q) /\ SamePad(s, q) /\ SameTags(s, q)
      /\ q.transition = s.transition
  BY FinishViewsIs DEF Drawn
<1> HIDE DEF q
<1>2. /\ Still(d) /\ Drawn(d) /\ SameScene(q, d) /\ SamePad(q, d) /\ SameTags(q, d)
      /\ d.transition = NoTransition /\ d.opening = q.opening
  BY <1>1, TransitionDoneIs
<1>3. t = IF q.transition.animation # "none" THEN d ELSE q
  BY DEF FinishAll, q
<1> HIDE DEF d, t
<1>4. /\ NoOpening(d) /\ SameScene(s, d) /\ SamePad(s, d) /\ SameTags(s, d)
  BY <1>1, <1>2 DEF NoOpening, SameScene, SamePad, SameTags
<1> QED
  BY <1>1, <1>2, <1>3, <1>4 DEF t

-----------------------------------------------------------------------------
(* Tables                                                                  *)

\* A focus of an id keeps the table and knows whether the id has a tag.
LEMMA FocusIdIs ==
  ASSUME NEW t, GoodTable(Limit, t), CandidateSound(t), NEW id \in 1..Limit
  PROVE  LET r == FocusId(t, id)
         IN /\ GoodTable(Limit, r) /\ CandidateSound(r)
            /\ r.table = t.table /\ r.max_tags = t.max_tags
            /\ r.focused_id = IF id <= t.max_tags THEN id ELSE t.focused_id
<1> DEFINE r == FocusId(t, id)
<1>0. Limit \in Nat \ {0}
  BY LimitIs
<1>1. GoodTable(Limit, r) /\ r.table = t.table /\ r.max_tags = t.max_tags
  BY <1>0, FocusIdGood
<1>2. t \in TagsType(Limit)
  BY DEF GoodTable
<1>3. CASE ~ValidId(t, id)
  BY <1>1, <1>2, <1>3 DEF FocusId, ValidId, TagsType
<1>4. CASE ValidId(t, id)
  <2>1. r.focused_id = id /\ r.focused_is_candidate = (id \notin t.table)
    <3>1. CASE t.focused_id = id
      BY <1>2, <1>4, <3>1 DEF FocusId, TagsType
    <3>2. CASE t.focused_id # id
      BY <1>2, <1>4, <3>2 DEF FocusId, SetFocusState, TagsType
    <3> QED
      BY <3>1, <3>2
  <2>2. id <= t.max_tags
    BY <1>4 DEF ValidId
  <2> HIDE DEF r
  <2> QED
    BY <1>1, <2>1, <2>2 DEF CandidateSound, r
<1> QED
  BY <1>3, <1>4

-----------------------------------------------------------------------------
(* The end of all animations of an output                                  *)

\* A swipe moves the focus without a transition of its own.
LEMMA FocusQuietlyIs ==
  ASSUME NEW s, Still(s), s.gesture.engaged,
         s.transition.active => s.transition.animation # "spring",
         NEW id \in 1..Limit, NEW direction \in Directions
  PROVE  LET t == FocusQuietly(s, id, direction)
         IN /\ Still(t) /\ SameScene(s, t) /\ SamePad(s, t) /\ SameFace(s, t)
            /\ t.opening = s.opening /\ t.transition = s.transition
            /\ t.tags = FocusId(s.tags, id)
<1> DEFINE tags == FocusId(s.tags, id)
           way == IF tags.focused_id # s.tags.focused_id THEN direction ELSE s.direction
           t == FocusQuietly(s, id, direction)
<1>0. s \in Worlds /\ GoodTable(Limit, s.tags) /\ CandidateSound(s.tags)
  BY DEF Still, TagsGood
<1>1. GoodTable(Limit, tags) /\ CandidateSound(tags) /\ tags \in TagsType(Limit)
  BY <1>0, FocusIdIs DEF GoodTable
<1>2. way \in Directions \cup {0}
  BY <1>0 DEF Worlds
<1>3. t = [s EXCEPT !.tags = tags, !.direction = way]
  BY DEF FocusQuietly
<1> HIDE DEF tags, way
<1>4. t \in Worlds
  BY <1>0, <1>1, <1>2, <1>3, ZenonT(90) DEF Worlds
<1>5. /\ SameScene(s, t) /\ SamePad(s, t) /\ SameFace(s, t)
      /\ t.opening = s.opening /\ t.transition = s.transition /\ t.tags = tags
  BY <1>0, <1>3 DEF Worlds, SameScene, SamePad, SameFace
<1> HIDE DEF t
<1>6. TagsGood(t)
  BY <1>1, <1>5 DEF TagsGood
<1>7. OpeningHere(t)
  BY <1>5 DEF Still, OpeningHere, SamePad
<1>8. Cleared(t) /\ Presented(t)
  BY <1>5 DEF Still, Cleared, Presented, Showing, SamePad
<1>9. t.masked \subseteq Mapped(t)
  BY <1>5 DEF Still, Mapped, OnTag, SameScene, SameFace
<1>10. Still(t)
  BY <1>4, <1>5, <1>6, <1>7, <1>8, <1>9 DEF Still, SamePad
<1> QED
  BY <1>5, <1>10 DEF t, tags

LEMMA PositionsInt ==
  ASSUME NEW s \in Worlds
  PROVE  Shown(s) \in Int /\ s.gesture.center \in Int /\ s.gesture.initial \in Int
         /\ s.gesture.displacement \in Int
<1>1. /\ s.gesture.center \in Int /\ s.gesture.initial \in Int
      /\ s.gesture.displacement \in Int /\ s.transition.presented \in Int
  BY DEF Worlds, Gestures, Transitions
<1>2. \A raw, center \in Int : SwipePosition(raw, center) \in Int
  BY DEF SwipePosition, Unit, Band
<1> DEFINE raw == s.gesture.initial + s.gesture.displacement
<1>3. raw \in Int
  BY <1>1
<1>4. SwipePosition(raw, s.gesture.center) \in Int
  <2> HIDE DEF raw
  <2> QED
    BY <1>1, <1>2, <1>3
<1> QED
  BY <1>1, <1>3, <1>4 DEF Shown

\* leme_render_output_animations_finish leaves nothing under way.
LEMMA FocusIdTyped ==
  ASSUME NEW t \in TagsType(Limit), NEW id \in 1..Limit
  PROVE  LET r == FocusId(t, id)
         IN /\ r \in TagsType(Limit) /\ r.table = t.table /\ r.max_tags = t.max_tags
            /\ r.initial_tags = t.initial_tags
<1> DEFINE candidate == id \notin t.table
           yes == TRUE
           r == FocusId(t, id)
<1>1. candidate \in BOOLEAN /\ yes \in BOOLEAN
  OBVIOUS
<1>2. \/ r = t
      \/ r = [t EXCEPT !.focused_is_candidate = candidate]
      \/ r = Refocus(t, id, candidate, t.focused_id, t.focused_is_candidate, yes)
  <2>1. [t EXCEPT !.previous_id = t.focused_id,
                  !.previous_is_candidate = t.focused_is_candidate, !.previous_valid = yes,
                  !.focused_id = id, !.focused_is_candidate = candidate]
          = Refocus(t, id, candidate, t.focused_id, t.focused_is_candidate, yes)
    <3> HIDE DEF candidate, yes
    <3> QED
      BY Zenon DEF Refocus, TagsType
  <2> QED
    BY <2>1 DEF FocusId, SetFocusState
<1> HIDE DEF candidate, yes, r
<1>3. CASE r = t
  BY <1>3 DEF r
<1>4. CASE r = [t EXCEPT !.focused_is_candidate = candidate]
  <2>1. /\ r \in TagsType(Limit) /\ r.table = t.table /\ r.max_tags = t.max_tags
        /\ r.initial_tags = t.initial_tags
    BY <1>1, <1>4 DEF TagsType
  <2> QED
    BY <2>1 DEF r
<1>5. CASE r = Refocus(t, id, candidate, t.focused_id, t.focused_is_candidate, yes)
  <2>1. t.focused_id \in 0..Limit
    BY DEF TagsType
  <2>2. r \in TagsType(Limit)
    BY <1>1, <1>5, <2>1 DEF TagsType, Refocus
  <2>3. r.table = t.table /\ r.max_tags = t.max_tags /\ r.initial_tags = t.initial_tags
    BY <1>5 DEF TagsType, Refocus
  <2> QED
    BY <2>2, <2>3 DEF r
<1> QED
  BY <1>2, <1>3, <1>4, <1>5

LEMMA AnimationsFinishLoose ==
  ASSUME NEW s, Loose(s)
  PROVE  LET t == AnimationsFinish(s)
         IN /\ Loose(t) /\ NoOpening(t) /\ SameScene(s, t) /\ t.masked = HiddenViews(t)
            /\ t.gesture = NoGesture /\ t.transition = NoTransition
            /\ (Tame(s) => Tame(t))
            /\ (~s.gesture.engaged => SameTags(s, t) /\ t.enabled = Opened(s))
            /\ s.gesture.engaged =>
                 Visible(t) /\ \E id \in 1..Limit : t.tags = FocusId(s.tags, id)
<1> DEFINE quiet == FinishViews(s)
           stopped == IF quiet.transition.animation # "none"
                      THEN TransitionDone(quiet) ELSE quiet
           Done(u) == IF u.transition.active THEN TransitionDone(u) ELSE u
           t == AnimationsFinish(s)
<1>0. /\ s \in Worlds /\ (s.gesture.engaged => s.gesture.active)
      /\ s.gesture.ring \in SUBSET (1..Limit)
      /\ ~NoGesture.active /\ ~NoTransition.active /\ NoTransition.animation = "none"
  <2>1. ~NoGesture.active /\ ~NoTransition.active /\ NoTransition.animation = "none"
    BY DEF NoGesture, NoTransition
  <2>2. s \in Worlds
    BY DEF Loose
  <2>3. s.gesture.engaged => s.gesture.active
    BY DEF Loose, Cleared, NoGesture
  <2>4. s.gesture.ring \in SUBSET (1..Limit)
    BY <2>2 DEF Worlds, Gestures
  <2> QED
    BY <2>1, <2>2, <2>3, <2>4
<1>1. /\ Loose(quiet) /\ NoOpening(quiet) /\ quiet.masked = HiddenViews(quiet)
      /\ SameScene(s, quiet) /\ SamePad(s, quiet) /\ SameTags(s, quiet)
      /\ quiet.transition = s.transition /\ quiet.enabled = Opened(s)
  BY FinishViewsLoose
<1> HIDE DEF quiet
<1>2. /\ Loose(stopped) /\ NoOpening(stopped) /\ stopped.masked = HiddenViews(stopped)
      /\ SameScene(s, stopped) /\ SamePad(s, stopped) /\ SameTags(s, stopped)
      /\ stopped.enabled = Opened(s)
  <2> DEFINE d == TransitionDone(quiet)
  <2>1. /\ Loose(d) /\ d.masked = HiddenViews(d) /\ d.enabled = quiet.enabled
        /\ SameScene(quiet, d) /\ SamePad(quiet, d)
        /\ SameTags(quiet, d) /\ d.opening = quiet.opening
    BY <1>1, TransitionDoneLoose
  <2> HIDE DEF d
  <2>2. /\ NoOpening(d) /\ SameScene(s, d) /\ SamePad(s, d) /\ SameTags(s, d)
    BY <1>1, <2>1 DEF NoOpening, SameScene, SamePad, SameTags
  <2>3. stopped = IF quiet.transition.animation # "none" THEN d ELSE quiet
    BY DEF d
  <2> HIDE DEF stopped
  <2> QED
    BY <1>1, <2>1, <2>2, <2>3
<1>3. ASSUME NEW u, Loose(u), u.masked = HiddenViews(u)
      PROVE  /\ Loose(Done(u)) /\ Done(u).transition = NoTransition
             /\ SameScene(u, Done(u)) /\ SamePad(u, Done(u)) /\ SameTags(u, Done(u))
             /\ Done(u).opening = u.opening /\ Done(u).enabled = u.enabled
             /\ Done(u).masked = HiddenViews(Done(u))
  <2>1. CASE u.transition.active
    BY <1>3, <2>1, TransitionDoneLoose
  <2>2. CASE ~u.transition.active
    BY <1>3, <2>2 DEF Loose, Cleared, SameScene, SamePad, SameTags
  <2> QED
    BY <2>1, <2>2
<1>4. ASSUME NEW u, Loose(u), u.masked = HiddenViews(u)
      PROVE  LET r == GestureReset(u)
             IN /\ Loose(r) /\ r.gesture = NoGesture /\ SameScene(u, r) /\ SameTags(u, r)
                /\ r.opening = u.opening /\ (Tame(u) => Tame(r))
                /\ r.masked = HiddenViews(r) /\ r.enabled = u.enabled
  <2> DEFINE r == GestureReset(u)
  <2>1. u \in Worlds
    BY <1>4 DEF Loose
  <2>2. /\ r \in Worlds /\ r.gesture = NoGesture /\ SameScene(u, r) /\ SameTags(u, r)
        /\ SameFace(u, r) /\ r.opening = u.opening /\ (Tame(u) => Tame(r))
        /\ r.transition = u.transition
    BY <2>1, GestureResetIs
  <2> HIDE DEF r
  <2>3. HiddenViews(r) = HiddenViews(u) /\ Mapped(r) = Mapped(u)
    BY <2>2 DEF HiddenViews, Mapped, OnTag, PresentationHidden, HidesView, SameScene, SameTags
  <2>4. Loose(r)
    BY <1>0, <1>4, <2>2, <2>3 DEF Loose, Cleared, SameFace
  <2> QED
    BY <1>4, <2>2, <2>3, <2>4 DEF SameFace, r
<1>5. CASE s.gesture.engaged
  <2> DEFINE chosen == RingAt(s.gesture.ring, Nearest(Shown(stopped)))
             tags == FocusId(stopped.tags, chosen)
             way == IF tags.focused_id # stopped.tags.focused_id
                    THEN Forward ELSE stopped.direction
             a == [stopped EXCEPT !.tags = tags, !.direction = way]
             r == GestureReset(a)
  <2>1. t = RefreshFocus(Done(r))
    <3>1. a = FocusQuietly(stopped, chosen, Forward)
      BY DEF FocusQuietly
    <3> QED
      BY <1>0, <1>5, <3>1 DEF AnimationsFinish, quiet
  <2>2. chosen \in 1..Limit
    <3>1. stopped \in Worlds
      BY <1>2 DEF Loose
    <3> HIDE DEF stopped
    <3>2. Nearest(Shown(stopped)) \in Int
      BY <3>1, PositionsInt, TagInt
    <3>3. s.gesture.ring # {}
      BY <1>0, <1>5 DEF Loose
    <3>4. chosen \in s.gesture.ring
      BY <1>0, <3>2, <3>3, RingAtMember, LimitIs
    <3> QED
      BY <1>0, <3>4
  <2> HIDE DEF stopped, chosen
  <2>3. stopped.tags = s.tags /\ stopped \in Worlds /\ s.tags \in TagsType(Limit)
    BY <1>0, <1>2 DEF SameTags, Loose, Worlds
  <2>4. tags \in TagsType(Limit)
    BY <2>2, <2>3, FocusIdTyped
  <2>5. way \in Directions \cup {0}
    BY <2>3 DEF Worlds, Directions
  <2> HIDE DEF tags, way
  <2>6. a \in Worlds
    BY <2>3, <2>4, <2>5 DEF Worlds
  <2>7. /\ SameScene(stopped, a) /\ SamePad(stopped, a) /\ SameFace(stopped, a)
        /\ a.opening = stopped.opening /\ a.tags = tags /\ a.transition = stopped.transition
    BY <2>3 DEF Worlds, SameScene, SamePad, SameFace
  <2> HIDE DEF a
  <2>8. Loose(a)
    BY <1>2, <2>6, <2>7 DEF Loose, Cleared, Mapped, OnTag, SameScene, SamePad, SameFace
  <2>9. /\ Loose(r) /\ r.gesture = NoGesture /\ SameScene(a, r) /\ SameTags(a, r)
        /\ r.opening = a.opening /\ (Tame(a) => Tame(r)) /\ r.masked \subseteq Mapped(r)
    <3>1. /\ r \in Worlds /\ r.gesture = NoGesture /\ SameScene(a, r) /\ SameTags(a, r)
          /\ SameFace(a, r) /\ r.opening = a.opening /\ (Tame(a) => Tame(r))
          /\ r.transition = a.transition
      BY <2>6, GestureResetIs
    <3> HIDE DEF r
    <3> QED
      BY <1>0, <2>8, <3>1 DEF Loose, Cleared, Mapped, OnTag, SameScene, SameFace
  <2> HIDE DEF r
  <2>10. /\ Loose(Done(r)) /\ Done(r).transition = NoTransition
         /\ SameScene(r, Done(r)) /\ SamePad(r, Done(r)) /\ SameTags(r, Done(r))
         /\ Done(r).opening = r.opening
    <3>1. CASE r.transition.active
      BY <2>9, <3>1, TransitionDoneLoose
    <3>2. CASE ~r.transition.active
      BY <2>9, <3>2 DEF Loose, Cleared, SameScene, SamePad, SameTags
    <3> QED
      BY <3>1, <3>2
  <2> HIDE DEF Done
  <2>11. /\ Loose(t) /\ Drawn(t) /\ SameScene(Done(r), t) /\ SamePad(Done(r), t)
         /\ SameTags(Done(r), t) /\ t.opening = Done(r).opening
         /\ t.transition = Done(r).transition
    BY <2>1, <2>10, RefreshFocusLoose
  <2> HIDE DEF t
  <2>12. SameScene(s, t) /\ NoOpening(t) /\ t.gesture = NoGesture
    BY <1>2, <2>7, <2>9, <2>10, <2>11 DEF SameScene, SamePad, NoOpening
  <2>13. t.tags = FocusId(s.tags, chosen)
    BY <2>3, <2>7, <2>9, <2>10, <2>11 DEF SameTags, tags
  <2>14. Tame(s) => Tame(t)
    <3>1. Tame(s) => Tame(a)
      BY <1>2, <2>7 DEF Tame, SameScene, SamePad
    <3>2. Tame(r) => Tame(t)
      BY <2>10, <2>11 DEF Tame, SameScene, SamePad
    <3> QED
      BY <2>9, <3>1, <3>2
  <2> QED
    BY <1>5, <2>2, <2>10, <2>11, <2>12, <2>13, <2>14, SMTT(60) DEF Drawn, t
<1>6. CASE ~s.gesture.engaged
  <2> DEFINE g == GestureReset(stopped)
             r == IF s.gesture.active THEN g ELSE stopped
  <2>1. t = Done(r)
    BY <1>6 DEF AnimationsFinish, quiet
  <2> HIDE DEF stopped
  <2>2. /\ Loose(g) /\ g.gesture = NoGesture /\ SameScene(stopped, g) /\ SameTags(stopped, g)
        /\ g.opening = stopped.opening /\ (Tame(stopped) => Tame(g))
        /\ g.masked = HiddenViews(g) /\ g.enabled = stopped.enabled
    BY <1>2, <1>4
  <2> HIDE DEF g
  <2>3. /\ Loose(r) /\ r.gesture = NoGesture /\ SameScene(s, r)
        /\ SameTags(s, r) /\ NoOpening(r) /\ (Tame(s) => Tame(r))
        /\ r.masked = HiddenViews(r) /\ r.enabled = Opened(s)
    <3>1. Tame(s) => Tame(stopped)
      BY <1>2 DEF Tame, SameScene, SamePad
    <3>2. CASE s.gesture.active
      BY <1>2, <2>2, <3>1, <3>2 DEF SameScene, SameTags, NoOpening
    <3>3. CASE ~s.gesture.active
      <4>1. r = stopped /\ s.gesture = NoGesture
        BY <3>3 DEF Loose, Cleared
      <4> QED
        BY <1>2, <3>1, <4>1 DEF SamePad
    <3> QED
      BY <3>2, <3>3
  <2> HIDE DEF r
  <2>4. /\ Loose(Done(r)) /\ Done(r).transition = NoTransition
        /\ Done(r).masked = HiddenViews(Done(r)) /\ Done(r).enabled = r.enabled
        /\ SameScene(r, Done(r)) /\ SamePad(r, Done(r)) /\ SameTags(r, Done(r))
        /\ Done(r).opening = r.opening
    BY <1>3, <2>3
  <2> HIDE DEF Done, t
  <2>5. SameScene(s, t) /\ SameTags(s, t) /\ NoOpening(t) /\ t.gesture = NoGesture
    BY <2>1, <2>3, <2>4 DEF SameScene, SamePad, SameTags, NoOpening
  <2>6. Tame(s) => Tame(t)
    BY <2>1, <2>3, <2>4 DEF Tame, SameScene, SamePad
  <2> QED
    BY <1>6, <2>1, <2>3, <2>4, <2>5, <2>6 DEF t
<1> QED
  BY <1>5, <1>6

\* Nothing of a swipe or an animation is left: only the tags matter.
LEMMA QuietStill ==
  ASSUME NEW t, Loose(t), TagsGood(t), NoOpening(t), t.gesture = NoGesture,
         t.transition = NoTransition
  PROVE  Still(t)
BY DEF Still, Loose, Presented, OpeningHere, NoOpening, NoTransition

LEMMA AnimationsFinishIs ==
  ASSUME NEW s, Still(s)
  PROVE  LET t == AnimationsFinish(s)
         IN /\ Still(t) /\ (Visible(s) => Drawn(t)) /\ NoOpening(t) /\ SameScene(s, t)
            /\ t.gesture = NoGesture /\ t.transition = NoTransition
            /\ t.tags.table = s.tags.table /\ t.tags.max_tags = s.tags.max_tags
            /\ (~s.gesture.engaged => SameTags(s, t))
            /\ Tame(s) => Tame(t)
<1> DEFINE t == AnimationsFinish(s)
<1>1. /\ Loose(t) /\ NoOpening(t) /\ SameScene(s, t) /\ t.masked = HiddenViews(t)
      /\ t.gesture = NoGesture /\ t.transition = NoTransition
      /\ (Tame(s) => Tame(t))
      /\ (~s.gesture.engaged => SameTags(s, t) /\ t.enabled = Opened(s))
      /\ s.gesture.engaged =>
           Visible(t) /\ \E id \in 1..Limit : t.tags = FocusId(s.tags, id)
  BY StillLoose, AnimationsFinishLoose
<1> HIDE DEF t
<1>2. GoodTable(Limit, s.tags) /\ CandidateSound(s.tags)
  BY DEF Still, TagsGood
<1>3. TagsGood(t) /\ t.tags.table = s.tags.table /\ t.tags.max_tags = s.tags.max_tags
  <2>1. CASE s.gesture.engaged
    <3>1. PICK id \in 1..Limit : t.tags = FocusId(s.tags, id)
      BY <1>1, <2>1
    <3> QED
      BY <1>2, <3>1, FocusIdIs DEF TagsGood
  <2>2. CASE ~s.gesture.engaged
    BY <1>1, <1>2, <2>2 DEF TagsGood, SameTags
  <2> QED
    BY <2>1, <2>2
<1>4. Still(t)
  BY <1>1, <1>3, QuietStill
<1>5. Visible(s) => Drawn(t)
  <2>1. CASE s.gesture.engaged
    BY <1>1, <2>1 DEF Drawn
  <2>2. CASE ~s.gesture.engaged
    <3>1. Members(t) = Members(s)
      BY <1>1, <2>2 DEF Members, OnTag, CurrentTag, SameScene, SameTags
    <3> QED
      BY <1>1, <2>2, <3>1, OpenedHere DEF Drawn, Visible
  <2> QED
    BY <2>1, <2>2
<1> QED
  BY <1>1, <1>3, <1>4, <1>5 DEF t

-----------------------------------------------------------------------------
(* The snapshots of a transition                                           *)

Cache(c) == c \in Seq(1..Limit) /\ Distinct(c) /\ Len(c) <= CacheSize

LEMMA ToSetElements ==
  \A c : ToSet(c) = Elements(c)
BY DEF ToSet, Elements

\* A slot taken from another snapshot.
LEMMA ReplacedCache ==
  ASSUME NEW c, Cache(c), NEW i \in 1..Len(c), NEW id \in 1..Limit, id \notin ToSet(c)
  PROVE  LET r == [c EXCEPT ![i] = id]
         IN /\ Cache(r) /\ id \in ToSet(r)
            /\ \A x \in ToSet(c) : x = c[i] \/ x \in ToSet(r)
<1> DEFINE r == [c EXCEPT ![i] = id]
<1>1. c \in Seq(1..Limit) /\ Len(c) \in Nat /\ DOMAIN c = 1..Len(c) /\ Distinct(c)
  BY DEF Cache
<1>2. /\ r \in Seq(1..Limit) /\ Len(r) = Len(c) /\ DOMAIN r = DOMAIN c /\ r[i] = id
      /\ \A j \in DOMAIN c : j # i => r[j] = c[j]
  BY <1>1
<1> HIDE DEF r
<1>3. \A j \in DOMAIN c : c[j] # id
  BY DEF ToSet
<1>4. Distinct(r)
  <2>1. SUFFICES ASSUME NEW j \in DOMAIN r, NEW k \in DOMAIN r, r[j] = r[k] PROVE j = k
    BY DEF Distinct
  <2>2. \A m \in DOMAIN c : m = i \/ r[m] = c[m]
    BY <1>2
  <2>3. CASE j = i \/ k = i
    BY <1>2, <1>3, <2>1, <2>2, <2>3
  <2>4. CASE j # i /\ k # i
    BY <1>1, <1>2, <2>1, <2>4 DEF Distinct
  <2> QED
    BY <2>3, <2>4
<1>5. id \in ToSet(r)
  BY <1>1, <1>2 DEF ToSet
<1>6. \A x \in ToSet(c) : x = c[i] \/ x \in ToSet(r)
  BY <1>1, <1>2 DEF ToSet
<1> QED
  BY <1>2, <1>4, <1>5, <1>6 DEF Cache, r

\* A snapshot that is taken evicts neither the pair nor the one to keep.
LEMMA SlotIs ==
  ASSUME NEW s \in Worlds, NEW c, Cache(c), NEW id \in 1..Limit, NEW keep,
         Slot(s, c, id, keep) # <<>>
  PROVE  LET r == Slot(s, c, id, keep)
         IN /\ Cache(r) /\ id \in ToSet(r)
            /\ \A x \in ToSet(c) :
                 x \in {s.transition.outgoing, s.transition.incoming, keep} => x \in ToSet(r)
<1> DEFINE pinned == {s.transition.outgoing, s.transition.incoming, keep}
           free == {i \in 1..Len(c) : c[i] \notin pinned}
           least == CHOOSE i \in free : \A j \in free : i <= j
           r == Slot(s, c, id, keep)
<1>1. c \in Seq(1..Limit) /\ Len(c) \in Nat /\ Distinct(c) /\ Len(c) <= CacheSize
  BY DEF Cache
<1>2. CASE id \in ToSet(c)
  BY <1>2 DEF Slot
<1>3. CASE id \notin ToSet(c) /\ Len(c) < CacheSize
  <2> DEFINE a == Append(c, id)
  <2>1. r = a
    BY <1>3 DEF Slot
  <2>2. /\ a \in Seq(1..Limit) /\ Len(a) = Len(c) + 1
        /\ Elements(a) = Elements(c) \cup {id}
        /\ Distinct(a)
    <3>1. c \in Seq(1..Limit) /\ id \in 1..Limit /\ Distinct(c) /\ id \notin Elements(c)
      BY <1>1, <1>3, ToSetElements
    <3> HIDE DEF pinned, free, least, r
    <3> QED
      BY <3>1, AppendElements
  <2> HIDE DEF a, r
  <2>3. Len(a) <= CacheSize
    BY <1>1, <1>3, <2>2 DEF CacheSize
  <2> QED
    BY <2>1, <2>2, <2>3, ToSetElements DEF Cache, r
<1>4. CASE id \notin ToSet(c) /\ ~(Len(c) < CacheSize)
  <2>1. free # {} /\ r = [c EXCEPT ![least] = id]
    BY <1>4 DEF Slot
  <2>2. free \in SUBSET (0..Len(c))
    BY <1>1
  <2> HIDE DEF free
  <2>3. \E i \in free : \A j \in free : i <= j
    BY <1>1, <2>1, <2>2, LeastElement
  <2>4. least \in free
    BY <2>3
  <2> HIDE DEF least
  <2>5. least \in 1..Len(c) /\ c[least] \notin pinned
    BY <2>4 DEF free
  <2> HIDE DEF pinned, r
  <2> QED
    BY <1>4, <2>1, <2>5, ReplacedCache DEF pinned, r
<1> QED
  BY <1>2, <1>3, <1>4

LEMMA SegmentInt ==
  ASSUME NEW p \in Int, NEW bounded, NEW minimum \in Int, NEW maximum \in Int
  PROVE  Segment(p, bounded, minimum, maximum) \in Int
<1>1. Floor(p) \in Int
  BY TagInt
<1> QED
  BY <1>1 DEF Segment, Higher, Lower, Unit

\* Both tags of the new pair are in the cache, and it is still a cache.
LEMMA PairCacheIs ==
  ASSUME NEW s, Still(s), s.transition.active, NEW p \in Int, PairCache(s, p) # <<>>
  PROVE  LET tr == s.transition
             segment == Segment(p, tr.bounded, tr.min, tr.max)
             c == PairCache(s, p)
         IN /\ Cache(c)
            /\ RingAt(tr.ring, segment) \in ToSet(c) /\ RingAt(tr.ring, segment) \in 1..Limit
            /\ RingAt(tr.ring, segment + Unit) \in ToSet(c)
            /\ RingAt(tr.ring, segment + Unit) \in 1..Limit
<1> DEFINE tr == s.transition
           segment == Segment(p, tr.bounded, tr.min, tr.max)
           low == RingAt(tr.ring, segment)
           high == RingAt(tr.ring, segment + Unit)
           first == Slot(s, tr.cache, low, high)
           c == PairCache(s, p)
<1>1. s \in Worlds /\ tr.ring # {} /\ Len(tr.cache) <= CacheSize /\ Distinct(tr.cache)
  BY DEF Still, Presented, Showing
<1>2. /\ tr.ring \in SUBSET (1..Limit) /\ tr.cache \in Seq(1..Limit)
      /\ tr.min \in Int /\ tr.max \in Int
  BY <1>1 DEF Worlds, Transitions
<1>3. Cache(tr.cache)
  BY <1>1, <1>2 DEF Cache
<1>4. segment \in Int /\ segment + Unit \in Int
  BY <1>2, SegmentInt DEF Unit
<1>5. c = IF first = <<>> THEN <<>> ELSE Slot(s, first, high, low)
  BY DEF PairCache
<1> HIDE DEF segment
<1>6. low \in tr.ring /\ high \in tr.ring
  BY <1>1, <1>2, <1>4, RingAtMember, LimitIs
<1>7. low \in 1..Limit /\ high \in 1..Limit
  BY <1>2, <1>6
<1> HIDE DEF low, high, tr
<1>8. first # <<>>
  BY <1>5
<1>9. Cache(first) /\ low \in ToSet(first)
  BY <1>1, <1>3, <1>7, <1>8, SlotIs
<1> HIDE DEF first
<1>10. c = Slot(s, first, high, low) /\ c # <<>>
  BY <1>5, <1>8
<1>11. Cache(c) /\ high \in ToSet(c) /\ low \in ToSet(c)
  BY <1>1, <1>7, <1>9, <1>10, SlotIs
<1> QED
  BY <1>7, <1>11 DEF low, high, segment, tr, c

-----------------------------------------------------------------------------
(* A transition that is shown                                              *)

\* A transition takes the screen of a world in which no window opens.
LEMMA ShowIs ==
  ASSUME NEW s, Still(s), NoOpening(s), NEW tr \in Transitions, tr.active, Showing(s, tr)
  PROVE  LET t == RefreshViews([s EXCEPT !.transition = tr])
         IN /\ Still(t) /\ (Visible(s) => Drawn(t))
            /\ SameScene(s, t) /\ SamePad(s, t) /\ SameTags(s, t)
            /\ t.transition = tr /\ t.opening = s.opening
<1> DEFINE u == [s EXCEPT !.transition = tr]
           t == RefreshViews(u)
<1>1. s \in Worlds /\ s.masked \subseteq Mapped(s)
  BY DEF Still
<1>2. u \in Worlds
  BY <1>1 DEF Worlds
<1>3. /\ SameScene(s, u) /\ SamePad(s, u) /\ SameTags(s, u) /\ SameFace(s, u)
      /\ u.opening = s.opening /\ u.transition = tr
  BY <1>1 DEF Worlds, SameScene, SamePad, SameTags, SameFace
<1> HIDE DEF u
<1>4. u.masked \subseteq Mapped(u)
  BY <1>1, <1>3 DEF Mapped, OnTag, SameScene, SameFace
<1>5. /\ t \in Worlds /\ t.masked = HiddenViews(t)
      /\ SameScene(u, t) /\ SamePad(u, t) /\ SameTags(u, t)
      /\ t.enabled = u.enabled /\ t.opening = u.opening
      /\ t.transition = u.transition
  BY <1>2, <1>4, RefreshViewsIs
<1> HIDE DEF t
<1>6. /\ SameScene(s, t) /\ SamePad(s, t) /\ SameTags(s, t)
      /\ t.opening = s.opening /\ t.transition = tr /\ t.enabled = s.enabled
  BY <1>3, <1>5 DEF SameScene, SamePad, SameTags, SameFace
<1>7. t.masked \subseteq Mapped(t)
  BY <1>5 DEF HiddenViews
<1>8. Still(t)
  <2>1. TagsGood(t) /\ OpeningHere(t)
    BY <1>6 DEF Still, TagsGood, OpeningHere, NoOpening, SameScene, SamePad, SameTags
  <2>2. Cleared(t)
    BY <1>6 DEF Still, Cleared, SamePad
  <2>3. Presented(t)
    BY <1>6 DEF Presented, Showing, SamePad, SameTags
  <2> QED
    BY <1>5, <1>6, <1>7, <2>1, <2>2, <2>3 DEF Still, SamePad
<1>9. Visible(s) => Drawn(t)
  <2>1. Members(t) = Members(s)
    BY <1>6 DEF Members, OnTag, CurrentTag, SameScene, SameTags
  <2> QED
    BY <1>5, <1>6, <2>1 DEF Drawn, Visible
<1> QED
  BY <1>6, <1>8, <1>9 DEF t, u

\* A transition at another position shows the pair of that position.
LEMMA ApplyPositionIs ==
  ASSUME NEW s, Still(s), s.transition.active, s.transition.gesture, NEW p \in Int
  PROVE  LET t == ApplyPosition(s, p)
         IN /\ Still(t) /\ (Drawn(s) => Drawn(t))
            /\ SameScene(s, t) /\ SamePad(s, t) /\ SameTags(s, t)
            /\ t.opening = s.opening
            /\ t.transition.active /\ t.transition.gesture
            /\ t.transition.ring = s.transition.ring
            /\ t.transition.animation = s.transition.animation
            /\ t.transition.to = s.transition.to
<1> DEFINE tr == s.transition
           segment == Segment(p, tr.bounded, tr.min, tr.max)
           c == PairCache(s, p)
           low == RingAt(tr.ring, segment)
           high == RingAt(tr.ring, segment + Unit)
           yes == TRUE
           new == [tr EXCEPT !.outgoing = low, !.incoming = high,
                             !.cache = c, !.presented = p, !.pair = yes]
           t == ApplyPosition(s, p)
<1>1. CASE c = <<>>
  BY <1>1 DEF ApplyPosition, SameScene, SamePad, SameTags
<1>2. CASE c # <<>>
  <2>1. /\ Cache(c) /\ low \in ToSet(c) /\ low \in 1..Limit
        /\ high \in ToSet(c) /\ high \in 1..Limit
    BY <1>2, PairCacheIs
  <2>2. t = RefreshViews([s EXCEPT !.transition = new])
    BY <1>2 DEF ApplyPosition
  <2>3. NoOpening(s) /\ Showing(s, tr) /\ tr \in Transitions /\ s \in Worlds
    BY DEF Still, OpeningHere, NoOpening, Presented, Worlds
  <2>4. yes \in BOOLEAN /\ c \in Seq(1..Limit) /\ low \in 0..Limit /\ high \in 0..Limit
    BY <2>1 DEF Cache
  <2> HIDE DEF tr, c, low, high, yes
  <2>5. new \in Transitions
    BY <2>3, <2>4 DEF Transitions
  <2>6. /\ new.outgoing = low /\ new.incoming = high /\ new.cache = c
        /\ new.active = tr.active /\ new.gesture = tr.gesture /\ new.ring = tr.ring
        /\ new.animation = tr.animation /\ new.to = tr.to
    BY <2>3 DEF Transitions
  <2>7. new.active /\ new.gesture
    BY <2>6 DEF tr
  <2> HIDE DEF new
  <2>8. Showing(s, new)
    BY <2>1, <2>3, <2>6, <2>7 DEF Showing, Cache
  <2>9. /\ Still(t) /\ (Visible(s) => Drawn(t))
        /\ SameScene(s, t) /\ SamePad(s, t) /\ SameTags(s, t)
        /\ t.transition = new /\ t.opening = s.opening
    BY <2>2, <2>3, <2>5, <2>7, <2>8, ShowIs
  <2> HIDE DEF t
  <2> QED
    BY <2>6, <2>7, <2>9 DEF t, tr, Drawn
<1> QED
  BY <1>1, <1>2

\* leme_render_workspace_transition_begin_gesture
LEMMA BeginGestureIs ==
  ASSUME NEW s, Still(s), NoOpening(s), NEW tr \in Transitions, tr.active,
         {tr.outgoing, tr.incoming} \subseteq ToSet(tr.cache),
         Len(tr.cache) <= CacheSize, Distinct(tr.cache), tr.ring # {},
         s.gesture.engaged => tr.ring = s.gesture.ring
  PROVE  LET t == BeginGesture(s, tr)
         IN /\ Still(t) /\ (Visible(s) => Drawn(t))
            /\ SameScene(s, t) /\ SamePad(s, t) /\ SameTags(s, t)
            /\ t.opening = s.opening
            /\ t.transition.active /\ t.transition.gesture
            /\ t.transition.animation = "none" /\ t.transition.ring = tr.ring
<1> DEFINE yes == TRUE
           none == "none"
           new == [tr EXCEPT !.gesture = yes, !.animation = none]
           t == BeginGesture(s, tr)
<1>1. t = RefreshViews([s EXCEPT !.transition = new])
  BY DEF BeginGesture
<1>2. yes \in BOOLEAN /\ yes /\ none \in {"none", "slide", "spring"} /\ none = "none"
  OBVIOUS
<1> HIDE DEF yes, none
<1>3. new \in Transitions
  BY <1>2 DEF Transitions
<1>4. /\ new.active = tr.active /\ new.gesture = yes /\ new.animation = none
      /\ new.outgoing = tr.outgoing /\ new.incoming = tr.incoming
      /\ new.cache = tr.cache /\ new.ring = tr.ring
  BY DEF Transitions
<1> HIDE DEF new
<1>5. Showing(s, new) /\ new.active
  BY <1>2, <1>4 DEF Showing
<1>6. /\ Still(t) /\ (Visible(s) => Drawn(t))
      /\ SameScene(s, t) /\ SamePad(s, t) /\ SameTags(s, t)
      /\ t.transition = new /\ t.opening = s.opening
  BY <1>1, <1>3, <1>5, ShowIs
<1> HIDE DEF t
<1> QED
  BY <1>2, <1>4, <1>5, <1>6 DEF t

\* One step of Prewarmed.
Warmer(s, from, to, f, k) ==
  IF k = 0 THEN s.transition.cache
  ELSE LET step == IF to >= from THEN Unit ELSE -Unit
           p == Floor(from) + (k - 1) * step
           past == IF step > 0 THEN p > Nearest(to) ELSE p < Nearest(to)
           slot == Slot(s, f[k - 1], RingAt(s.transition.ring, p), 0)
       IN IF past \/ slot = <<>> THEN f[k - 1] ELSE slot

LEMMA WarmerExists ==
  ASSUME NEW s, NEW from, NEW to
  PROVE  \E f : f = [k \in 0..CacheSize |-> Warmer(s, from, to, f, k)]
<1> DEFINE places == 0..CacheSize
           W(f, k) == Warmer(s, from, to, f, k)
<1>1. places = {0, 1, 2, 3, 4}
  BY DEF CacheSize
<1>2. \A f, g : \A k \in {1, 2, 3, 4} : f[k - 1] = g[k - 1] => W(f, k) = W(g, k)
  BY DEF Warmer
<1>3. \A f : W(f, 0) = s.transition.cache
  BY SMTT(60) DEF Warmer
<1> HIDE DEF W, places
<1> DEFINE a == [k \in places |-> s.transition.cache]
<1>4. a[0] = s.transition.cache
  BY <1>1
<1> HIDE DEF a
<1> DEFINE b == [k \in places |-> IF k = 0 THEN a[0] ELSE W(a, 1)]
<1>5. b[0] = a[0] /\ b[1] = W(a, 1)
  BY <1>1
<1> HIDE DEF b
<1> DEFINE c == [k \in places |-> IF k \in {0, 1} THEN b[k] ELSE W(b, 2)]
<1>6. c[0] = b[0] /\ c[1] = b[1] /\ c[2] = W(b, 2)
  BY <1>1
<1> HIDE DEF c
<1> DEFINE d == [k \in places |-> IF k \in {0, 1, 2} THEN c[k] ELSE W(c, 3)]
<1>7. d[0] = c[0] /\ d[1] = c[1] /\ d[2] = c[2] /\ d[3] = W(c, 3)
  BY <1>1
<1> HIDE DEF d
<1> DEFINE e == [k \in places |-> IF k \in {0, 1, 2, 3} THEN d[k] ELSE W(d, 4)]
<1>8. e[0] = d[0] /\ e[1] = d[1] /\ e[2] = d[2] /\ e[3] = d[3] /\ e[4] = W(d, 4)
  BY <1>1
<1>9. e \in [places -> {e[k] : k \in places}]
  OBVIOUS
<1> HIDE DEF e
<1>10. \A k \in {0, 1, 2, 3, 4} : e[k] = W(e, k)
  <2>1. e[0] = W(e, 0)
    BY <1>3, <1>4, <1>5, <1>6, <1>7, <1>8
  <2>2. W(a, 1) = W(e, 1)
    BY <1>2, <1>5, <1>6, <1>7, <1>8
  <2>3. W(b, 2) = W(e, 2)
    BY <1>2, <1>6, <1>7, <1>8
  <2>4. W(c, 3) = W(e, 3) /\ W(d, 4) = W(e, 4)
    BY <1>2, <1>7, <1>8
  <2> QED
    BY <1>5, <1>6, <1>7, <1>8, <2>1, <2>2, <2>3, <2>4
<1>11. e = [k \in places |-> W(e, k)]
  BY <1>1, <1>9, <1>10
<1> QED
  BY <1>11 DEF W, places

\* The first pair of a settling transition stays in the cache.
LEMMA PrewarmedIs ==
  ASSUME NEW s, Still(s), s.transition.active, NEW from \in Int, NEW to \in Int
  PROVE  LET c == Prewarmed(s, from, to)
         IN Cache(c) /\ {s.transition.outgoing, s.transition.incoming} \subseteq ToSet(c)
<1> DEFINE tr == s.transition
           Kept(c) == Cache(c) /\ {tr.outgoing, tr.incoming} \subseteq ToSet(c)
           f == CHOOSE g : g = [k \in 0..CacheSize |-> Warmer(s, from, to, g, k)]
<1>1. s \in Worlds /\ tr.ring # {} /\ Kept(tr.cache) /\ tr.ring \in SUBSET (1..Limit)
  BY DEF Still, Presented, Showing, Cache, Worlds, Transitions
<1>2. f = [k \in 0..CacheSize |-> Warmer(s, from, to, f, k)]
  BY WarmerExists, ZenonT(90)
<1>3. Prewarmed(s, from, to)
        = IF Distance(Nearest(to), Nearest(from)) <= 3 * Unit THEN f[CacheSize] ELSE tr.cache
  BY DEF Prewarmed, Warmer
<1>4. 0..CacheSize = {0, 1, 2, 3, 4} /\ CacheSize = 4
  BY DEF CacheSize
<1> HIDE DEF f
<1>5. \A k \in {0, 1, 2, 3, 4} : f[k] = Warmer(s, from, to, f, k)
  BY <1>2, <1>4
<1>6. Kept(f[0])
  <2>1. f[0] = tr.cache
    BY <1>5 DEF Warmer
  <2> HIDE DEF Kept
  <2> QED
    BY <1>1, <2>1
<1>7. ASSUME NEW k \in {1, 2, 3, 4}, Kept(f[k - 1])
      PROVE  Kept(f[k])
  <2> DEFINE step == IF to >= from THEN Unit ELSE -Unit
             p == Floor(from) + (k - 1) * step
             past == IF step > 0 THEN p > Nearest(to) ELSE p < Nearest(to)
             id == RingAt(tr.ring, p)
             slot == Slot(s, f[k - 1], id, 0)
  <2>1. f[k] = IF past \/ slot = <<>> THEN f[k - 1] ELSE slot
    <3>1. f[k] = Warmer(s, from, to, f, k) /\ k # 0
      BY <1>5
    <3> QED
      BY <3>1 DEF Warmer
  <2>2. p \in Int
    <3>1. Floor(from) \in Int /\ step \in Int /\ k - 1 \in Int
      BY TagInt DEF Unit
    <3> HIDE DEF step
    <3> QED
      BY <3>1
  <2> HIDE DEF p, past
  <2>3. id \in tr.ring
    BY <1>1, <2>2, RingAtMember, LimitIs
  <2>4. id \in 1..Limit
    BY <1>1, <2>3
  <2> HIDE DEF id
  <2>5. ASSUME slot # <<>> PROVE Kept(slot)
    <3>1. /\ Cache(slot)
          /\ \A x \in ToSet(f[k - 1]) :
               x \in {tr.outgoing, tr.incoming, 0} => x \in ToSet(slot)
      BY <1>1, <1>7, <2>4, <2>5, SlotIs
    <3> HIDE DEF slot, tr
    <3> QED
      BY <1>7, <3>1
  <2> HIDE DEF slot, Kept
  <2> QED
    BY <1>7, <2>1, <2>5
<1> HIDE DEF Kept
<1>8. Kept(f[1])
  BY <1>6, <1>7
<1>9. Kept(f[2])
  BY <1>7, <1>8
<1>10. Kept(f[3])
  BY <1>7, <1>9
<1>11. Kept(f[4])
  BY <1>7, <1>10
<1>12. Kept(Prewarmed(s, from, to))
  BY <1>1, <1>3, <1>4, <1>11
<1> QED
  BY <1>12 DEF Kept

\* A transition that goes on with the same pair.
LEMMA RetunedIs ==
  ASSUME NEW s, Still(s), NEW tr \in Transitions, tr.active, s.transition.active,
         tr.outgoing = s.transition.outgoing, tr.incoming = s.transition.incoming,
         tr.gesture = s.transition.gesture, Showing(s, tr)
  PROVE  LET t == [s EXCEPT !.transition = tr]
         IN /\ Still(t) /\ (Drawn(s) => Drawn(t))
            /\ SameScene(s, t) /\ SamePad(s, t) /\ SameTags(s, t) /\ SameFace(s, t)
            /\ t.transition = tr /\ t.opening = s.opening
<1> DEFINE t == [s EXCEPT !.transition = tr]
<1>1. s \in Worlds /\ s.masked \subseteq Mapped(s)
  BY DEF Still
<1>2. t \in Worlds
  BY <1>1 DEF Worlds
<1>3. /\ SameScene(s, t) /\ SamePad(s, t) /\ SameTags(s, t) /\ SameFace(s, t)
      /\ t.opening = s.opening /\ t.transition = tr
  BY <1>1 DEF Worlds, SameScene, SamePad, SameTags, SameFace
<1> HIDE DEF t
<1>4. t.masked \subseteq Mapped(t)
  BY <1>1, <1>3 DEF Mapped, OnTag, SameScene, SameFace
<1>5. Still(t)
  <2>1. TagsGood(t) /\ OpeningHere(t)
    BY <1>3 DEF Still, TagsGood, OpeningHere, CurrentTag, SameScene, SamePad, SameTags
  <2>2. Cleared(t)
    BY <1>3 DEF Still, Cleared, SamePad
  <2>3. Presented(t)
    BY <1>3 DEF Presented, Showing, SamePad, SameTags
  <2> QED
    BY <1>2, <1>3, <1>4, <2>1, <2>2, <2>3 DEF Still, SamePad
<1>6. Members(t) = Members(s) /\ HiddenViews(t) = HiddenViews(s)
  BY <1>3 DEF Members, HiddenViews, Mapped, OnTag, CurrentTag, PresentationHidden,
              HidesView, SameScene, SameTags
<1> QED
  BY <1>3, <1>5, <1>6 DEF Drawn, Visible, SameFace, t

\* leme_render_workspace_transition_set_gesture_range
LEMMA SetRangeIs ==
  ASSUME NEW s, Still(s), s.transition.active,
         NEW bounded \in BOOLEAN, NEW minimum \in Int, NEW maximum \in Int
  PROVE  LET t == SetRange(s, bounded, minimum, maximum)
         IN /\ Still(t) /\ (Drawn(s) => Drawn(t))
            /\ SameScene(s, t) /\ SamePad(s, t) /\ SameTags(s, t) /\ SameFace(s, t)
            /\ t.opening = s.opening /\ t.transition.active
            /\ t.transition.gesture = s.transition.gesture
            /\ t.transition.ring = s.transition.ring
            /\ t.transition.animation = s.transition.animation
            /\ t.transition.presented = s.transition.presented
<1> DEFINE tr == s.transition
           low == IF bounded THEN minimum ELSE 0
           high == IF bounded THEN maximum ELSE 0
           new == [tr EXCEPT !.bounded = bounded, !.min = low, !.max = high]
           t == SetRange(s, bounded, minimum, maximum)
<1>1. s \in Worlds /\ tr \in Transitions /\ Showing(s, tr) /\ low \in Int /\ high \in Int
  BY DEF Still, Presented, Worlds
<1>2. t = [s EXCEPT !.transition = new]
  <2> DEFINE a == [s EXCEPT !.transition.bounded = bounded]
             b == [a EXCEPT !.transition.min = low]
             c == [b EXCEPT !.transition.max = high]
             ta == [tr EXCEPT !.bounded = bounded]
             tb == [ta EXCEPT !.min = low]
  <2>1. t = c
    BY DEF SetRange
  <2>2. /\ a = [s EXCEPT !.transition = ta] /\ a.transition = ta
        /\ "transition" \in DOMAIN s
    BY <1>1 DEF Worlds
  <2>3. new = [tb EXCEPT !.max = high]
    OBVIOUS
  <2> HIDE DEF low, high, new, ta, a
  <2>4. b = [s EXCEPT !.transition = tb] /\ b.transition = tb
    BY <2>2
  <2> HIDE DEF tb, b
  <2>5. c = [s EXCEPT !.transition = new]
    BY <2>3, <2>4
  <2> QED
    BY <2>1, <2>5
<1> HIDE DEF low, high
<1>3. new \in Transitions
  BY <1>1 DEF Transitions
<1>4. /\ new.active = tr.active /\ new.outgoing = tr.outgoing /\ new.incoming = tr.incoming
      /\ new.gesture = tr.gesture /\ new.ring = tr.ring /\ new.cache = tr.cache
      /\ new.animation = tr.animation /\ new.to = tr.to /\ new.presented = tr.presented
  BY <1>1 DEF Transitions
<1> HIDE DEF new
<1>5. Showing(s, new) /\ new.active
  BY <1>1, <1>4 DEF Showing
<1>6. /\ Still(t) /\ (Drawn(s) => Drawn(t))
      /\ SameScene(s, t) /\ SamePad(s, t) /\ SameTags(s, t) /\ SameFace(s, t)
      /\ t.transition = new /\ t.opening = s.opening
  BY <1>2, <1>3, <1>4, <1>5, RetunedIs
<1> HIDE DEF t
<1> QED
  BY <1>4, <1>5, <1>6 DEF t

\* leme_render_workspace_transition_settle, on the tag that has the focus.
LEMMA SettleIs ==
  ASSUME NEW s, Still(s), Drawn(s), s.gesture = NoGesture,
         NEW from \in Int, NEW to \in Int, NEW moving \in BOOLEAN,
         s.transition.active =>
           s.transition.gesture /\ RingAt(s.transition.ring, to) = s.tags.focused_id
  PROVE  LET t == Settle(s, from, to, moving)
         IN /\ Still(t) /\ Drawn(t)
            /\ SameScene(s, t) /\ SamePad(s, t) /\ SameTags(s, t) /\ t.opening = s.opening
            /\ t.transition.active =>
                 s.transition.active /\ t.transition.animation = "spring"
                 /\ t.transition.ring = s.transition.ring
<1> DEFINE t == Settle(s, from, to, moving)
           a == ApplyPosition(s, from)
<1>0. ~NoTransition.active /\ ~NoGesture.engaged /\ Visible(s)
  BY DEF NoTransition, NoGesture, Drawn
<1>1. CASE ~s.transition.active
  BY <1>1 DEF Settle, SameScene, SamePad, SameTags
<1>2. ASSUME NEW u, Still(u), Drawn(u), u.gesture = NoGesture
      PROVE  LET f == TransitionFinish(u)
             IN /\ Still(f) /\ Drawn(f) /\ f.transition = NoTransition
                /\ SameScene(u, f) /\ SameTags(u, f) /\ SamePad(u, f)
                /\ f.opening = u.opening
  BY <1>0, <1>2, TransitionFinishIs DEF Drawn
<1>3. CASE s.transition.active /\ PairCache(s, from) = <<>>
  <2>1. t = TransitionFinish(s)
    BY <1>3 DEF Settle
  <2> HIDE DEF t
  <2>2. /\ Still(t) /\ Drawn(t) /\ t.transition = NoTransition
        /\ SameScene(s, t) /\ SameTags(s, t) /\ SamePad(s, t) /\ t.opening = s.opening
    BY <1>2, <2>1
  <2> QED
    BY <1>0, <2>2 DEF t
<1>4. CASE s.transition.active /\ PairCache(s, from) # <<>>
  <2>1. /\ Still(a) /\ Drawn(a)
        /\ SameScene(s, a) /\ SamePad(s, a) /\ SameTags(s, a) /\ a.opening = s.opening
        /\ a.transition.active /\ a.transition.gesture
        /\ a.transition.ring = s.transition.ring
    BY <1>4, ApplyPositionIs
  <2>2. t = IF from = to /\ ~moving THEN TransitionFinish(a)
            ELSE [a EXCEPT !.transition.cache = Prewarmed(a, from, to),
                           !.transition.from = from, !.transition.to = to,
                           !.transition.animation = "spring"]
    BY <1>4 DEF Settle
  <2> HIDE DEF a
  <2>3. a.gesture = NoGesture
    BY <2>1 DEF SamePad
  <2>4. CASE from = to /\ ~moving
    <3>1. t = TransitionFinish(a)
      BY <2>2, <2>4
    <3> HIDE DEF t
    <3>2. /\ Still(t) /\ Drawn(t) /\ t.transition = NoTransition
          /\ SameScene(a, t) /\ SameTags(a, t) /\ SamePad(a, t) /\ t.opening = a.opening
      BY <1>2, <2>1, <2>3, <3>1
    <3> QED
      BY <1>0, <2>1, <3>2 DEF t, SameScene, SameTags, SamePad
  <2>5. CASE ~(from = to /\ ~moving)
    <3> DEFINE tr == a.transition
               c == Prewarmed(a, from, to)
               spring == "spring"
               tc == [tr EXCEPT !.cache = c]
               tf == [tc EXCEPT !.from = from]
               tt == [tf EXCEPT !.to = to]
               new == [tt EXCEPT !.animation = spring]
    <3>1. t = [a EXCEPT !.transition = new]
      <4> DEFINE ac == [a EXCEPT !.transition.cache = c]
                 af == [ac EXCEPT !.transition.from = from]
                 at == [af EXCEPT !.transition.to = to]
                 aa == [at EXCEPT !.transition.animation = spring]
      <4>1. t = aa
        BY <2>2, <2>5
      <4>2. "transition" \in DOMAIN a
        BY <2>1 DEF Still, Worlds
      <4> HIDE DEF c, spring, new
      <4>3. ac = [a EXCEPT !.transition = tc] /\ ac.transition = tc
        BY <4>2
      <4> HIDE DEF tc, ac
      <4>4. af = [a EXCEPT !.transition = tf] /\ af.transition = tf
        BY <4>2, <4>3
      <4> HIDE DEF tf, af
      <4>5. at = [a EXCEPT !.transition = tt] /\ at.transition = tt
        BY <4>2, <4>4
      <4> HIDE DEF tt, at
      <4> QED
        BY <4>1, <4>2, <4>5 DEF new
    <3>2. Cache(c) /\ {tr.outgoing, tr.incoming} \subseteq ToSet(c)
      BY <2>1, PrewarmedIs
    <3>3. c \in Seq(1..Limit) /\ spring \in {"none", "slide", "spring"} /\ spring = "spring"
      BY <3>2 DEF Cache
    <3>4. tr \in Transitions /\ Showing(a, tr)
      BY <2>1 DEF Still, Worlds, Presented
    <3>5. RingAt(tr.ring, to) = a.tags.focused_id /\ tr.active /\ tr.gesture
      BY <1>4, <2>1 DEF SameTags
    <3> HIDE DEF c, spring, tr
    <3>6. new \in Transitions
      BY <3>3, <3>4 DEF Transitions
    <3>7. /\ new.active = tr.active /\ new.outgoing = tr.outgoing /\ new.incoming = tr.incoming
          /\ new.gesture = tr.gesture /\ new.ring = tr.ring /\ new.cache = c
          /\ new.animation = spring /\ new.to = to
      BY <3>4 DEF Transitions
    <3> HIDE DEF new, t
    <3>8. Showing(a, new)
      BY <3>2, <3>4, <3>5, <3>7 DEF Showing, Cache
    <3>9. /\ Still(t) /\ Drawn(t)
          /\ SameScene(a, t) /\ SamePad(a, t) /\ SameTags(a, t)
          /\ t.transition = new /\ t.opening = a.opening
      BY <2>1, <3>1, <3>5, <3>6, <3>7, <3>8, RetunedIs DEF tr
    <3> QED
      BY <1>4, <2>1, <3>3, <3>7, <3>9 DEF t, tr, SameScene, SameTags, SamePad
  <2> QED
    BY <2>4, <2>5
<1> QED
  BY <1>1, <1>3, <1>4

-----------------------------------------------------------------------------
(* Switches of the focused tag                                             *)

\* The tags a switch moves over are those of the table.
LEMMA RingIs ==
  ASSUME NEW t, GoodTable(Limit, t), NEW direction
  PROVE  /\ Ring(t, direction) \subseteq 1..t.max_tags /\ Ring(t, direction) # {}
         /\ Ring(t, direction) \in SUBSET (1..Limit)
<1> DEFINE free == 1..t.max_tags \ t.table
           first == FirstMet(t, t.focused_id, direction, free)
           met == Met(t, t.focused_id, direction, free)
<1>1. /\ t.max_tags \in 1..Limit /\ t.initial_tags \in 1..Limit /\ 1..t.initial_tags \subseteq t.table
      /\ t.table \subseteq 1..t.max_tags /\ t.focused_id \in 1..t.max_tags
  BY DEF GoodTable, TagsType, TableSound
<1>2. met # {} => first \in free
  <2>1. t.max_tags \in Nat
    BY <1>1, LimitIs
  <2> HIDE DEF free
  <2> QED
    BY <2>1, FirstMetInGoal
<1>3. Navigable(t) \subseteq 1..t.max_tags /\ 1 \in Navigable(t)
  <2>1. 1 \in t.table
    <3>1. 1 \in 1..t.initial_tags
      BY <1>1, LimitIs
    <3> QED
      BY <1>1, <3>1
  <2>2. Navigable(t) = t.table \cup (IF t.focused_is_candidate THEN {t.focused_id} ELSE {})
    BY DEF Navigable
  <2> QED
    BY <1>1, <2>1, <2>2
<1>4. Ring(t, direction) = Navigable(t) \cup
        (IF t.focused_is_candidate \/ met = {} THEN {} ELSE {first})
  BY DEF Ring
<1> HIDE DEF first, met
<1>5. Ring(t, direction) \subseteq 1..t.max_tags /\ 1 \in Ring(t, direction)
  BY <1>2, <1>3, <1>4
<1>6. 1..t.max_tags \subseteq 1..Limit
  BY <1>1, LimitIs
<1> QED
  BY <1>5, <1>6

LEMMA IndexNat ==
  ASSUME NEW ring \in SUBSET (1..Limit), NEW id
  PROVE  Index(ring, id) \in Nat
<1> DEFINE before == {other \in ring : other < id}
<1>1. IsFiniteSet(ring)
  BY RingFinite, LimitIs
<1>2. before \in SUBSET ring
  OBVIOUS
<1> HIDE DEF before
<1>3. Cardinality(before) \in Nat
  BY <1>1, <1>2, FS_Subset, FS_CardinalityType
<1> QED
  BY <1>3 DEF Index, before

\* What a switch ends before it begins.
LEMMA PreparedIs ==
  ASSUME NEW s, Still(s), ~s.gesture.engaged
  PROVE  LET t == Prepared(s)
         IN /\ Still(t) /\ (Visible(s) => Drawn(t)) /\ NoOpening(t)
            /\ SameScene(s, t) /\ SameTags(s, t) /\ t.transition = NoTransition
            /\ t.gesture = NoGesture \/ SamePad(s, t)
            /\ ~s.transition.active => SamePad(s, t)
            /\ s.transition.active => t.gesture = NoGesture
            /\ Tame(s) => Tame(t)
<1>1. CASE s.transition.active
  <2>1. Prepared(s) = AnimationsFinish(s)
    BY <1>1 DEF Prepared
  <2> QED
    BY <1>1, <2>1, AnimationsFinishIs
<1>2. CASE ~s.transition.active
  <2> DEFINE t == FinishViews(s)
  <2>1. Prepared(s) = t /\ s.transition = NoTransition
    BY <1>2 DEF Prepared, Still, Cleared
  <2>2. /\ Still(t) /\ (Visible(s) => Drawn(t)) /\ NoOpening(t)
        /\ SameScene(s, t) /\ SamePad(s, t) /\ SameTags(s, t)
        /\ t.transition = s.transition
    BY FinishViewsIs
  <2> HIDE DEF t
  <2> QED
    BY <1>2, <2>1, <2>2 DEF Tame, SameScene, SamePad
<1> QED
  BY <1>1, <1>2

\* What a handler that starts or keeps no swipe leaves as it was.
LEMMA RestIs ==
  ASSUME NEW s, Watched(s), Within(s), NEW t, SameScene(s, t),
         t.tags.max_tags = s.tags.max_tags,
         t.gesture = NoGesture \/ t.gesture = s.gesture,
         t.transition.active => t.transition = s.transition
                                \/ t.transition.ring \subseteq 1..s.tags.max_tags
  PROVE  Watched(t) /\ Within(t)
<1>1. ~NoGesture.active /\ NoGesture.displacement \in -Reach..Reach
  BY SituationsAre DEF NoGesture, Reach
<1>2. Watched(t)
  BY <1>1 DEF Watched, SameScene
<1>3. Within(t)
  BY <1>1 DEF Within
<1> QED
  BY <1>2, <1>3

LEMMA DistinctPair ==
  ASSUME NEW a \in 1..Limit, NEW b \in 1..Limit, a # b
  PROVE  /\ <<a, b>> \in Seq(1..Limit) /\ Len(<<a, b>>) <= CacheSize
         /\ Distinct(<<a, b>>) /\ {a, b} \subseteq ToSet(<<a, b>>)
<1> DEFINE c == <<a, b>>
<1>1. c \in Seq(1..Limit) /\ Len(c) = 2 /\ c[1] = a /\ c[2] = b
  OBVIOUS
<1> HIDE DEF c
<1>2. DOMAIN c = {1, 2}
  BY <1>1
<1>3. Distinct(c)
  BY <1>1, <1>2 DEF Distinct
<1>4. {a, b} \subseteq ToSet(c)
  BY <1>1, <1>2 DEF ToSet
<1> QED
  BY <1>1, <1>3, <1>4 DEF c, CacheSize

\* A transition that can be shown goes from a tag to another of the ring.
LEMMA PrepareIs ==
  ASSUME NEW s, Still(s), NEW source \in 1..Limit, NEW destination \in 1..Limit,
         NEW direction, NEW allow_empty
  PROVE  LET r == Prepare(s, source, destination, direction, allow_empty)
         IN r = NoTransition
            \/ /\ r \in Transitions /\ r.active /\ source # destination
               /\ r.outgoing = source /\ r.incoming = destination
               /\ r.ring = Ring(s.tags, direction) /\ ~r.gesture
               /\ r.cache = <<source, destination>> /\ r.animation = "none"
               /\ Eligible(s, source, destination)
<1> DEFINE r == Prepare(s, source, destination, direction, allow_empty)
           ring == Ring(s.tags, direction)
           c == <<source, destination>>
           yes == TRUE
           no == FALSE
           none == "none"
           new == [NoTransition EXCEPT
                     !.active = yes, !.outgoing = source, !.incoming = destination,
                     !.ring = ring, !.cache = c]
<1>1. r = NoTransition \/ (r = new /\ Eligible(s, source, destination))
  BY DEF Prepare
<1>2. GoodTable(Limit, s.tags)
  BY DEF Still, TagsGood
<1>3. ring \in SUBSET (1..Limit)
  BY <1>2, RingIs
<1>4. c \in Seq(1..Limit)
  OBVIOUS
<1>5. /\ NoTransition \in Transitions /\ NoTransition.gesture = no /\ ~no
      /\ NoTransition.animation = none /\ none = "none" /\ yes \in BOOLEAN /\ yes
  BY NothingTyped DEF NoTransition
<1>6. Eligible(s, source, destination) => source # destination
  BY DEF Eligible
<1>9. source \in 0..Limit /\ destination \in 0..Limit
  BY LimitIs
<1> HIDE DEF r, ring, c, yes, no, none
<1>7. new \in Transitions
  BY <1>3, <1>4, <1>5, <1>9 DEF Transitions
<1>8. /\ new.active = yes /\ new.outgoing = source /\ new.incoming = destination
      /\ new.ring = ring /\ new.cache = c /\ new.gesture = no /\ new.animation = none
  BY <1>5 DEF Transitions
<1> HIDE DEF new
<1> QED
  BY <1>1, <1>5, <1>6, <1>7, <1>8 DEF r, ring, c

\* leme_render_workspace_transition_commit of a transition to the focused tag
LEMMA CommitIs ==
  ASSUME NEW s, Still(s), NoOpening(s), ~s.gesture.engaged,
         NEW tr \in Transitions, tr.active, ~tr.gesture, tr.ring # {},
         tr.outgoing \in 1..Limit, tr.incoming \in 1..Limit, tr.outgoing # tr.incoming,
         tr.cache = <<tr.outgoing, tr.incoming>>, tr.incoming = s.tags.focused_id,
         NEW direction
  PROVE  LET t == Commit(s, tr, direction)
         IN /\ Still(t) /\ SameScene(s, t) /\ SamePad(s, t) /\ SameTags(s, t)
            /\ t.transition.active /\ t.transition.ring = tr.ring
            /\ t.transition.animation = "slide"
<1> DEFINE from == Unit * Index(tr.ring, tr.outgoing)
           plain == Unit * Index(tr.ring, tr.incoming)
           lap == Unit * Cardinality(tr.ring)
           to == IF direction = Backward /\ plain > from THEN plain - lap
                 ELSE IF direction = Forward /\ plain < from THEN plain + lap ELSE plain
           slide == "slide"
           new == [tr EXCEPT !.from = from, !.presented = from, !.animation = slide, !.to = to]
           t == Commit(s, tr, direction)
<1>1. tr.ring \in SUBSET (1..Limit)
  BY DEF Transitions
<1>2. from \in Int /\ plain \in Int
  BY <1>1, IndexNat DEF Unit
<1>3. lap \in Int
  <2>1. Cardinality(tr.ring) \in Nat
    BY <1>1, RingFinite, LimitIs
  <2> QED
    BY <2>1 DEF Unit
<1>4. t = RefreshViews([s EXCEPT !.transition = new])
  BY DEF Commit
<1> HIDE DEF from, plain, lap
<1>5. to \in Int /\ slide \in {"none", "slide", "spring"} /\ slide = "slide"
  BY <1>2, <1>3
<1> HIDE DEF to, slide
<1>6. new \in Transitions
  BY <1>2, <1>5 DEF Transitions
<1>7. /\ new.active = tr.active /\ new.outgoing = tr.outgoing /\ new.incoming = tr.incoming
      /\ new.gesture = tr.gesture /\ new.ring = tr.ring /\ new.cache = tr.cache
      /\ new.animation = slide
  BY DEF Transitions
<1> HIDE DEF new
<1>8. Showing(s, new) /\ new.active
  <2>1. /\ Len(tr.cache) <= CacheSize /\ Distinct(tr.cache)
        /\ {tr.outgoing, tr.incoming} \subseteq ToSet(tr.cache)
    BY DistinctPair
  <2> QED
    BY <1>5, <1>7, <2>1 DEF Showing
<1>9. /\ Still(t) /\ SameScene(s, t) /\ SamePad(s, t) /\ SameTags(s, t)
      /\ t.transition = new
  BY <1>4, <1>6, <1>8, ShowIs
<1> HIDE DEF t
<1> QED
  BY <1>5, <1>7, <1>9 DEF t

\* A focus of another tag while no swipe is engaged: everything under way ends
\* and a slide may begin.
LEMMA SwitchIs ==
  ASSUME NEW s, Still(s), ~s.gesture.engaged,
         NEW tags, GoodTable(Limit, tags), CandidateSound(tags),
         tags.focused_id # s.tags.focused_id, NEW direction \in Directions, NEW allow_empty
  PROVE  LET prepared == Prepare(s, s.tags.focused_id, tags.focused_id, direction, allow_empty)
             t == Commit([Prepared(s) EXCEPT !.tags = tags, !.direction = direction],
                         prepared, direction)
         IN /\ Still(t) /\ Owned(t) /\ SameScene(s, t) /\ t.tags = tags
            /\ t.gesture = NoGesture \/ t.gesture = s.gesture
            /\ t.transition.active => t.transition.ring \subseteq 1..s.tags.max_tags
            /\ Tame(s) => Tame(t)
<1> DEFINE prepared == Prepare(s, s.tags.focused_id, tags.focused_id, direction, allow_empty)
           q == Prepared(s)
           u == [q EXCEPT !.tags = tags, !.direction = direction]
           t == Commit(u, prepared, direction)
<1>1. /\ Still(q) /\ NoOpening(q) /\ SameScene(s, q) /\ SameTags(s, q)
      /\ q.transition = NoTransition
      /\ q.gesture = NoGesture \/ SamePad(s, q)
      /\ (Tame(s) => Tame(q))
  BY PreparedIs
<1> HIDE DEF q
<1>2. q \in Worlds /\ tags \in TagsType(Limit) /\ s.tags \in TagsType(Limit)
      /\ GoodTable(Limit, s.tags)
  BY <1>1 DEF Still, GoodTable, TagsGood
<1>3. u \in Worlds
  BY <1>2 DEF Worlds
<1>4. /\ SameScene(q, u) /\ SamePad(q, u) /\ SameFace(q, u) /\ u.tags = tags
      /\ u.opening = q.opening /\ u.transition = q.transition
  BY <1>2 DEF Worlds, SameScene, SamePad, SameFace
<1> HIDE DEF u
<1>5. ~NoTransition.active /\ ~NoGesture.engaged /\ ~NoGesture.active
  BY DEF NoTransition, NoGesture
<1>6. /\ NoOpening(u) /\ SameScene(s, u) /\ u.transition = NoTransition
      /\ u.gesture = NoGesture \/ u.gesture = s.gesture
      /\ ~u.gesture.engaged /\ (Tame(s) => Tame(u))
  BY <1>1, <1>4, <1>5 DEF NoOpening, SameScene, SamePad, Tame
<1>7. Still(u)
  <2>1. TagsGood(u) /\ OpeningHere(u)
    BY <1>4, <1>6 DEF TagsGood, OpeningHere, NoOpening
  <2>2. Cleared(u) /\ Presented(u)
    BY <1>1, <1>4, <1>5, <1>6 DEF Still, Cleared, Presented, SamePad
  <2>3. u.masked \subseteq Mapped(u)
    BY <1>1, <1>4 DEF Still, Mapped, OnTag, SameScene, SameFace
  <2>4. u.gesture.active => u.gesture.ring # {}
    BY <1>1, <1>4 DEF Still, SamePad
  <2> QED
    BY <1>3, <2>1, <2>2, <2>3, <2>4 DEF Still
<1>8. CASE prepared = NoTransition
  <2>1. t = u
    BY <1>5, <1>8 DEF Commit
  <2> HIDE DEF t, prepared
  <2>2. Still(t) /\ SameScene(s, t) /\ t.tags = tags
    BY <1>4, <1>6, <1>7, <2>1
  <2>3. Owned(t) /\ ~t.transition.active
    BY <1>5, <1>6, <2>1 DEF Owned
  <2>4. (t.gesture = NoGesture \/ t.gesture = s.gesture) /\ (Tame(s) => Tame(t))
    BY <1>6, <2>1, SMTT(60)
  <2> QED
    BY <2>2, <2>3, <2>4 DEF t, u, q, prepared
<1>9. CASE prepared # NoTransition
  <2>1. s.tags.focused_id \in 1..Limit /\ tags.focused_id \in 1..Limit
    BY <1>2 DEF TagsType
  <2>2. /\ prepared \in Transitions /\ prepared.active /\ s.tags.focused_id # tags.focused_id
        /\ prepared.outgoing = s.tags.focused_id /\ prepared.incoming = tags.focused_id
        /\ prepared.ring = Ring(s.tags, direction) /\ ~prepared.gesture
        /\ prepared.cache = <<s.tags.focused_id, tags.focused_id>>
    BY <1>9, <2>1, PrepareIs
  <2>3. prepared.ring # {} /\ prepared.ring \subseteq 1..s.tags.max_tags
    BY <1>2, <2>2, RingIs
  <2> HIDE DEF prepared
  <2>4. /\ Still(t) /\ SameScene(u, t) /\ SamePad(u, t) /\ SameTags(u, t)
        /\ t.transition.active /\ t.transition.ring = prepared.ring
        /\ t.transition.animation = "slide"
    BY <1>4, <1>6, <1>7, <2>1, <2>2, <2>3, CommitIs
  <2> HIDE DEF t
  <2>5. SameScene(s, t) /\ t.tags = tags /\ t.gesture = u.gesture /\ (Tame(u) => Tame(t))
    BY <1>4, <1>6, <2>4 DEF SameScene, SamePad, SameTags, Tame
  <2>6. Owned(t)
    BY <1>6, <2>4, <2>5 DEF Owned
  <2> QED
    BY <1>6, <2>3, <2>4, <2>5, <2>6 DEF t, u, q, prepared
<1> QED
  BY <1>8, <1>9

\* Windows and tags may change under a transition as long as the focus stays.
LEMMA StillKept ==
  ASSUME NEW s, Still(s), NEW t \in Worlds, SamePad(s, t), t.transition = s.transition,
         t.tags.focused_id = s.tags.focused_id, TagsGood(t), OpeningHere(t),
         t.masked \subseteq Mapped(t)
  PROVE  Still(t)
BY DEF Still, Cleared, Presented, Showing, SamePad

\* leme_tags_set_focus_state
LEMMA ChangeFocusIs ==
  ASSUME NEW s, Still(s), Owned(s),
         NEW tags, GoodTable(Limit, tags), CandidateSound(tags), tags.table = s.tags.table,
         NEW direction \in Directions
  PROVE  LET t == ChangeFocus(s, tags, direction)
         IN /\ Still(t) /\ Owned(t) /\ SameScene(s, t) /\ t.tags = tags
            /\ t.gesture = NoGesture \/ t.gesture = s.gesture
            /\ t.transition.active => t.transition = s.transition
                                      \/ t.transition.ring \subseteq 1..s.tags.max_tags
            /\ Tame(s) => Tame(t)
<1> DEFINE t == ChangeFocus(s, tags, direction)
<1>0. s \in Worlds /\ tags \in TagsType(Limit)
  BY DEF Still, GoodTable
<1>1. CASE tags.focused_id = s.tags.focused_id
  <2>1. t = [s EXCEPT !.tags = tags]
    BY <1>1 DEF ChangeFocus
  <2>2. t \in Worlds
    BY <1>0, <2>1 DEF Worlds
  <2>3. /\ SameScene(s, t) /\ SamePad(s, t) /\ SameFace(s, t) /\ t.tags = tags
        /\ t.opening = s.opening /\ t.transition = s.transition
    BY <1>0, <2>1 DEF Worlds, SameScene, SamePad, SameFace
  <2> HIDE DEF t
  <2>4. CurrentTag(t) = CurrentTag(s)
    BY <1>1, <2>3 DEF Still, TagsGood, CandidateSound, CurrentTag
  <2>5. TagsGood(t) /\ OpeningHere(t) /\ t.masked \subseteq Mapped(t)
    BY <2>3, <2>4 DEF Still, TagsGood, OpeningHere, Mapped, OnTag, SameScene, SamePad, SameFace
  <2>6. Still(t)
    BY <1>1, <2>2, <2>3, <2>5, StillKept
  <2> QED
    BY <2>3, <2>6 DEF t, Owned, Tame, SamePad, SameScene
<1>2. CASE tags.focused_id # s.tags.focused_id /\ s.gesture.engaged
  <2>1. t = [s EXCEPT !.tags = tags, !.direction = direction]
    BY <1>2 DEF ChangeFocus
  <2>2. t \in Worlds
    BY <1>0, <2>1, ZenonT(90) DEF Worlds
  <2>3. /\ SameScene(s, t) /\ SamePad(s, t) /\ SameFace(s, t) /\ t.tags = tags
        /\ t.opening = s.opening /\ t.transition = s.transition
    BY <1>0, <2>1 DEF Worlds, SameScene, SamePad, SameFace
  <2> HIDE DEF t
  <2>4. TagsGood(t) /\ OpeningHere(t) /\ t.masked \subseteq Mapped(t)
    BY <1>2, <2>3 DEF Still, TagsGood, OpeningHere, Mapped, OnTag, SameScene, SamePad, SameFace
  <2>5. Cleared(t)
    BY <2>3 DEF Still, Cleared, SamePad
  <2>6. Presented(t)
    <3>1. s.transition.active => s.transition.animation = "none"
      BY <1>2, NothingTyped DEF Owned, Still, Cleared, NoGesture
    <3> QED
      BY <1>2, <2>3, <3>1 DEF Still, Presented, Showing, SamePad
  <2>7. Still(t)
    BY <2>2, <2>3, <2>4, <2>5, <2>6 DEF Still, SamePad
  <2> QED
    BY <2>3, <2>7 DEF t, Owned, Tame, SamePad, SameScene
<1>3. CASE tags.focused_id # s.tags.focused_id /\ ~s.gesture.engaged
  <2> DEFINE no == FALSE
             prepared == Prepare(s, s.tags.focused_id, tags.focused_id, direction, no)
             c == Commit([Prepared(s) EXCEPT !.tags = tags, !.direction = direction],
                         prepared, direction)
  <2>1. t = c
    BY <1>3, SMTT(60) DEF ChangeFocus
  <2> HIDE DEF no
  <2>2. /\ Still(c) /\ Owned(c) /\ SameScene(s, c) /\ c.tags = tags
        /\ c.gesture = NoGesture \/ c.gesture = s.gesture
        /\ c.transition.active => c.transition.ring \subseteq 1..s.tags.max_tags
        /\ (Tame(s) => Tame(c))
    BY <1>3, SwitchIs
  <2> HIDE DEF t, c
  <2> QED
    BY <2>1, <2>2 DEF t
<1> QED
  BY <1>1, <1>2, <1>3

-----------------------------------------------------------------------------
(* Tables whose focus knows whether its tag exists                         *)

LEMMA SetFocusStateIs ==
  ASSUME NEW t, GoodTable(Limit, t), NEW id \in 1..t.max_tags, NEW candidate \in BOOLEAN,
         candidate <=> id \notin t.table
  PROVE  LET r == SetFocusState(t, id, candidate)
         IN /\ GoodTable(Limit, r) /\ CandidateSound(r)
            /\ r.table = t.table /\ r.max_tags = t.max_tags /\ r.focused_id = id
<1> DEFINE r == SetFocusState(t, id, candidate)
<1>1. GoodTable(Limit, r) /\ r.table = t.table /\ r.max_tags = t.max_tags
  BY SetFocusStateGood, LimitIs
<1>2. r.focused_id = id /\ r.focused_is_candidate = candidate
  <2>1. t \in TagsType(Limit)
    BY DEF GoodTable
  <2>2. CASE t.focused_id = id /\ t.focused_is_candidate = candidate
    BY <2>2 DEF SetFocusState
  <2>3. CASE ~(t.focused_id = id /\ t.focused_is_candidate = candidate)
    BY <2>1, <2>3 DEF SetFocusState, TagsType
  <2> QED
    BY <2>2, <2>3
<1> HIDE DEF r
<1> QED
  BY <1>1, <1>2 DEF CandidateSound, r

\* leme_tags_step
LEMMA StepIs ==
  ASSUME NEW t, GoodTable(Limit, t), CandidateSound(t), NEW direction \in Directions
  PROVE  LET r == Step(t, direction)
         IN /\ GoodTable(Limit, r) /\ CandidateSound(r)
            /\ r.table = t.table /\ r.max_tags = t.max_tags
<1> DEFINE first == FirstMet(t, t.focused_id, direction, t.table)
           id == AdjacentId(t, direction)
           candidate == id \notin t.table
           no == FALSE
<1>0. t.table \subseteq 1..t.max_tags /\ t.max_tags \in Nat
  BY LimitIs DEF GoodTable, TagsType, TableSound
<1>1. CASE t.focused_is_candidate /\ Met(t, t.focused_id, direction, t.table) = {}
  BY <1>1 DEF Step
<1>2. CASE t.focused_is_candidate /\ Met(t, t.focused_id, direction, t.table) # {}
  <2>1. Step(t, direction) = SetFocusState(t, first, no)
    BY <1>2 DEF Step
  <2>2. first \in t.table
    BY <1>0, <1>2, FirstMetInGoal
  <2> HIDE DEF first
  <2>3. first \in 1..t.max_tags /\ no \in BOOLEAN /\ (no <=> first \notin t.table)
    BY <1>0, <2>2
  <2> HIDE DEF no
  <2> QED
    BY <2>1, <2>3, SetFocusStateIs
<1>3. CASE ~t.focused_is_candidate
  <2>1. Step(t, direction) = SetFocusState(t, id, candidate)
    BY <1>3 DEF Step
  <2>2. id \in 1..t.max_tags
    BY AdjacentValid, LimitIs
  <2> HIDE DEF id
  <2>3. candidate \in BOOLEAN /\ (candidate <=> id \notin t.table)
    OBVIOUS
  <2> HIDE DEF candidate
  <2> QED
    BY <2>1, <2>2, <2>3, SetFocusStateIs
<1> QED
  BY <1>1, <1>2, <1>3

\* The swap that leme_tags_focus_last makes when it moves the focus
LEMMA FocusLastIs ==
  ASSUME NEW t, GoodTable(Limit, t), FocusLast(t).focused_id # t.focused_id
  PROVE  LET r == FocusLast(t)
         IN /\ r = [t EXCEPT !.focused_id = t.previous_id,
                             !.focused_is_candidate = PreviousIsCandidate(t),
                             !.previous_id = t.focused_id,
                             !.previous_is_candidate = t.focused_is_candidate]
            /\ GoodTable(Limit, r) /\ CandidateSound(r)
            /\ r.table = t.table /\ r.max_tags = t.max_tags
            /\ r.focused_id = t.previous_id
<1> DEFINE candidate == PreviousIsCandidate(t)
           was == t.focused_is_candidate
           r == [t EXCEPT !.focused_id = t.previous_id, !.focused_is_candidate = candidate,
                          !.previous_id = t.focused_id, !.previous_is_candidate = was]
<1>0. t \in TagsType(Limit)
  BY DEF GoodTable
<1>1. /\ CanFocusLast(t)
      /\ candidate \/ t.previous_id \in t.table
  <2>1. CanFocusLast(t)
    BY DEF FocusLast
  <2>2. CASE ~candidate /\ t.previous_id \notin t.table
    BY <1>0, <2>1, <2>2 DEF FocusLast, TagsType
  <2> QED
    BY <2>1, <2>2
<1>2. FocusLast(t) = r
  BY <1>1 DEF FocusLast
<1>3. GoodTable(Limit, FocusLast(t)) /\ FocusLast(t).table = t.table
      /\ FocusLast(t).max_tags = t.max_tags
  BY FocusLastGood, LimitIs
<1>4. candidate <=> t.previous_id \notin t.table
  BY <1>1 DEF PreviousIsCandidate
<1>5. candidate \in BOOLEAN
  BY <1>0 DEF PreviousIsCandidate, TagsType
<1>6. r.focused_id = t.previous_id /\ r.focused_is_candidate = candidate
  <2> HIDE DEF candidate, was
  <2> QED
    BY <1>0 DEF TagsType
<1>7. CandidateSound(FocusLast(t))
  <2> HIDE DEF candidate, r
  <2> QED
    BY <1>2, <1>3, <1>4, <1>6 DEF CandidateSound
<1> QED
  BY <1>2, <1>3, <1>6, <1>7

-----------------------------------------------------------------------------
(* Swipes                                                                  *)

\* The device of a swipe is flat, or refuses to be.
LEMMA AccelBeginIs ==
  ASSUME NEW s \in Worlds, s.override = "none", NEW p \in Pointers,
         \A q \in Pointers : s.settings[q] = s.version,
         s.gesture.active, s.gesture.pointer = p
  PROVE  LET t == AccelBegin(s, p)
         IN /\ t \in Worlds /\ Tame(t)
            /\ SameScene(s, t) /\ SameTags(s, t) /\ SameFace(s, t)
            /\ t.opening = s.opening /\ t.gesture = s.gesture /\ t.transition = s.transition
<1> DEFINE t == AccelBegin(s, p)
<1>1. CASE p \notin Flat
  BY <1>1, SwipesAssumption DEF AccelBegin, Tame, SameScene, SameTags, SameFace
<1>2. CASE p \in Flat
  <2> DEFINE settings == [s.settings EXCEPT ![p] = Overridden]
             saved == s.settings[p]
             a == [s EXCEPT !.saved = saved]
             b == [a EXCEPT !.override = p]
             c == [b EXCEPT !.settings[p] = Overridden]
             u == [b EXCEPT !.settings = settings]
  <2>1. t = c
    BY <1>2 DEF AccelBegin
  <2>2. c = u
    <3>1. b.settings = s.settings
      BY DEF Worlds
    <3> HIDE DEF b
    <3> QED
      BY <3>1
  <2>3. /\ s.settings \in [Pointers -> Levels] /\ saved \in Levels /\ saved = s.version
        /\ Overridden \in Levels
    BY DEF Worlds, Levels
  <2>4. /\ settings \in [Pointers -> Levels] /\ settings[p] = Overridden
        /\ \A q \in Pointers : q # p => settings[q] = s.version
    BY <2>3
  <2> HIDE DEF settings, saved
  <2>5. u \in Worlds
    BY <2>3, <2>4, ZenonT(90) DEF Worlds
  <2>6. /\ SameScene(s, u) /\ SameTags(s, u) /\ SameFace(s, u)
        /\ u.opening = s.opening /\ u.gesture = s.gesture /\ u.transition = s.transition
        /\ u.override = p /\ u.saved = saved /\ u.settings = settings
    BY DEF Worlds, SameScene, SameTags, SameFace
  <2> HIDE DEF u, c, t
  <2>7. Tame(u)
    BY <2>3, <2>4, <2>6 DEF Tame, SameScene
  <2> QED
    BY <2>1, <2>2, <2>5, <2>6, <2>7 DEF t
<1> QED
  BY <1>1, <1>2

LEMMA NearestCopyInt ==
  ASSUME NEW ring \in SUBSET (1..Limit), ring # {}, NEW p \in Int, NEW near \in Int
  PROVE  NearestCopy(ring, p, near) \in Int
<1> DEFINE lap == Unit * Cardinality(ring)
           off == near - p
           up == (2 * off + lap) \div (2 * lap)
           down == (lap - 2 * off) \div (2 * lap)
           laps == IF off >= 0 THEN up ELSE -down
<1>1. Cardinality(ring) \in Nat \ {0}
  BY RingFinite, LimitIs
<1>2. lap \in Nat \ {0} /\ off \in Int
  BY <1>1 DEF Unit
<1>3. NearestCopy(ring, p, near) = p + lap * laps
  BY DEF NearestCopy
<1> HIDE DEF lap, off
<1>4. 2 * lap \in Nat \ {0} /\ 2 * off + lap \in Int /\ lap - 2 * off \in Int
  BY <1>2
<1>5. up \in Int /\ down \in Int
  BY <1>4
<1> HIDE DEF up, down
<1>6. laps \in Int
  BY <1>5
<1> HIDE DEF laps
<1> QED
  BY <1>2, <1>3, <1>6

\* The swipe is recognised and drives the transition, if there is one.
LEMMA EngageIs ==
  ASSUME NEW s, Still(s), NoOpening(s), s.gesture.active,
         s.transition.active => /\ s.transition.gesture /\ s.transition.animation = "none"
                                /\ s.transition.ring = s.gesture.ring
  PROVE  LET t == [s EXCEPT !.gesture.engaged = TRUE]
         IN /\ Still(t) /\ Owned(t) /\ (Drawn(s) => Drawn(t))
            /\ SameScene(s, t) /\ SameTags(s, t) /\ SameFace(s, t)
            /\ t.settings = s.settings /\ t.override = s.override /\ t.saved = s.saved
            /\ t.opening = s.opening /\ t.transition = s.transition
            /\ t.gesture.active /\ t.gesture.engaged
            /\ t.gesture.ring = s.gesture.ring /\ t.gesture.pointer = s.gesture.pointer
            /\ t.gesture.displacement = s.gesture.displacement
<1> DEFINE yes == TRUE
           g == [s.gesture EXCEPT !.engaged = yes]
           t == [s EXCEPT !.gesture.engaged = TRUE]
           u == [s EXCEPT !.gesture = g]
<1>1. t = u
  OBVIOUS
<1>2. s \in Worlds /\ s.gesture \in Gestures /\ yes \in BOOLEAN /\ yes
  BY DEF Still, Worlds
<1> HIDE DEF yes
<1>3. g \in Gestures
  BY <1>2 DEF Gestures
<1>4. /\ g.active = s.gesture.active /\ g.engaged = yes /\ g.ring = s.gesture.ring
      /\ g.pointer = s.gesture.pointer /\ g.displacement = s.gesture.displacement
  BY <1>2 DEF Gestures
<1> HIDE DEF g
<1>5. u \in Worlds
  BY <1>2, <1>3 DEF Worlds
<1>6. /\ SameScene(s, u) /\ SameTags(s, u) /\ SameFace(s, u) /\ u.gesture = g
      /\ u.settings = s.settings /\ u.override = s.override /\ u.saved = s.saved
      /\ u.opening = s.opening /\ u.transition = s.transition
  BY <1>2 DEF Worlds, SameScene, SameTags, SameFace
<1> HIDE DEF u
<1>7. Still(u)
  <2>1. TagsGood(u) /\ OpeningHere(u)
    BY <1>6 DEF Still, TagsGood, OpeningHere, NoOpening, SameTags
  <2>2. Cleared(u)
    BY <1>4, <1>6 DEF Still, Cleared
  <2>3. Presented(u)
    BY <1>4, <1>6 DEF Still, Presented, Showing, SameTags
  <2>4. u.masked \subseteq Mapped(u)
    BY <1>6 DEF Still, Mapped, OnTag, SameScene, SameFace
  <2>5. u.gesture.ring # {}
    BY <1>4, <1>6 DEF Still
  <2> QED
    BY <1>5, <2>1, <2>2, <2>3, <2>4, <2>5 DEF Still
<1>8. Members(u) = Members(s) /\ HiddenViews(u) = HiddenViews(s)
  BY <1>6 DEF Members, HiddenViews, Mapped, OnTag, CurrentTag, PresentationHidden,
              HidesView, SameScene, SameTags
<1>9. Drawn(s) => Drawn(u)
  BY <1>6, <1>8 DEF Drawn, Visible, SameFace
<1>10. Owned(u)
  BY <1>2, <1>4, <1>6 DEF Owned
<1> HIDE DEF t
<1> QED
  BY <1>1, <1>2, <1>4, <1>6, <1>7, <1>9, <1>10 DEF t

NewGesture(engaged, mode, p, i, c, start, r) ==
  [NoGesture EXCEPT !.active = TRUE, !.engaged = engaged,
     !.mode = mode, !.pointer = p, !.initial = i, !.center = c,
     !.start = start, !.ring = r]

LEMMA NewGestureIs ==
  ASSUME NEW engaged \in BOOLEAN, NEW mode \in Modes, NEW p \in Pointers,
         NEW i \in Int, NEW c \in Int, NEW start \in Int, NEW r \in SUBSET (1..Limit)
  PROVE  LET g == NewGesture(engaged, mode, p, i, c, start, r)
         IN /\ g \in Gestures /\ g.active /\ g.engaged = engaged /\ g.pointer = p
            /\ g.ring = r /\ g.displacement = 0
<1> DEFINE yes == TRUE
           g == [NoGesture EXCEPT !.active = yes, !.engaged = engaged,
                   !.mode = mode, !.pointer = p, !.initial = i, !.center = c,
                   !.start = start, !.ring = r]
<1>1. NoGesture \in Gestures /\ NoGesture.displacement = 0
  BY NothingTyped DEF NoGesture
<1>2. yes \in BOOLEAN /\ yes
  OBVIOUS
<1> HIDE DEF yes
<1>3. g \in Gestures
  BY <1>1, <1>2 DEF Gestures
<1>4. /\ g.active = yes /\ g.engaged = engaged /\ g.pointer = p /\ g.ring = r
      /\ g.displacement = 0
  BY <1>1 DEF Gestures
<1> HIDE DEF g
<1> QED
  BY <1>2, <1>3, <1>4 DEF g, yes, NewGesture

\* A swipe that begins with nothing to take over.
LEMMA StartedIs ==
  ASSUME NEW s, Still(s), Drawn(s), Watched(s), Within(s), s.gesture = NoGesture,
         s.transition = NoTransition, s.override = "none", Tame(s),
         ~s.locked, s.power_on, s.session_active, NEW p \in Pointers,
         NEW g \in Gestures, g.active, ~g.engaged, g.pointer = p,
         g.ring # {}, g.ring \subseteq 1..s.tags.max_tags, g.displacement = 0
  PROVE  Safe(AccelBegin([s EXCEPT !.gesture = g], p))
<1> DEFINE u == [s EXCEPT !.gesture = g]
           t == AccelBegin(u, p)
<1>1. s \in Worlds /\ ~NoTransition.active
  BY DEF Still, NoTransition
<1>2. u \in Worlds
  BY <1>1 DEF Worlds
<1>3. /\ SameScene(s, u) /\ SameTags(s, u) /\ SameFace(s, u) /\ u.gesture = g
      /\ u.settings = s.settings /\ u.override = s.override
      /\ u.opening = s.opening /\ u.transition = s.transition
  BY <1>1, ZenonT(90) DEF Worlds, SameScene, SameTags, SameFace
<1> HIDE DEF u
<1>4. u.override = "none" /\ \A q \in Pointers : u.settings[q] = u.version
  BY <1>3, SwipesAssumption DEF Tame, SameScene
<1>5. /\ t \in Worlds /\ Tame(t)
      /\ SameScene(u, t) /\ SameTags(u, t) /\ SameFace(u, t)
      /\ t.opening = u.opening /\ t.gesture = u.gesture /\ t.transition = u.transition
  BY <1>2, <1>3, <1>4, AccelBeginIs
<1> HIDE DEF t
<1>6. /\ SameScene(s, t) /\ SameTags(s, t) /\ SameFace(s, t) /\ t.gesture = g
      /\ t.opening = s.opening /\ t.transition = NoTransition
  BY <1>3, <1>5 DEF SameScene, SameTags, SameFace
<1>7. Still(t)
  <2>1. TagsGood(t) /\ OpeningHere(t)
    BY <1>1, <1>6 DEF Still, TagsGood, OpeningHere, CurrentTag, SameTags, SameScene
  <2>2. Cleared(t) /\ Presented(t) /\ (t.gesture.active => t.gesture.ring # {})
    BY <1>1, <1>6 DEF Still, Cleared, Presented
  <2>3. t.masked \subseteq Mapped(t)
    BY <1>6 DEF Still, Mapped, OnTag, SameScene, SameFace
  <2> QED
    BY <1>5, <2>1, <2>2, <2>3 DEF Still
<1>8. Drawn(t)
  <2>1. Members(t) = Members(s) /\ HiddenViews(t) = HiddenViews(s)
    BY <1>1, <1>6 DEF Members, HiddenViews, Mapped, OnTag, CurrentTag, PresentationHidden,
                      HidesView, SameScene, SameTags
  <2> QED
    BY <1>6, <2>1 DEF Drawn, Visible, SameFace
<1>9. Owned(t) /\ Within(t)
  BY <1>1, <1>6 DEF Owned, Within, SameTags
<1>10. Watched(t)
  <2>1. 0 \in -Reach..Reach
    BY SituationsAre DEF Reach
  <2> QED
    BY <1>6, <2>1 DEF Watched, SameScene
<1> QED
  BY <1>5, <1>7, <1>8, <1>9, <1>10 DEF Safe, t, u

\* A swipe that takes the running transition over.
LEMMA TakenIs ==
  ASSUME NEW s, Still(s), Drawn(s), Watched(s), Within(s), s.gesture = NoGesture,
         s.transition.active, s.override = "none", Tame(s),
         ~s.locked, s.power_on, s.session_active, NEW p \in Pointers,
         NEW g \in Gestures, g.active, g.engaged, g.pointer = p,
         g.ring = s.transition.ring, g.displacement = 0
  PROVE  LET taken == AccelBegin([s EXCEPT !.gesture = g], p)
         IN Safe(BeginGesture(taken, taken.transition))
<1> DEFINE u == [s EXCEPT !.gesture = g]
           taken == AccelBegin(u, p)
           yes == TRUE
           none == "none"
           tr == taken.transition
           new == [tr EXCEPT !.gesture = yes, !.animation = none]
           x == [taken EXCEPT !.transition = new]
           t == BeginGesture(taken, tr)
<1>1. s \in Worlds
  BY DEF Still
<1>2. u \in Worlds
  BY <1>1 DEF Worlds
<1>3. /\ SameScene(s, u) /\ SameTags(s, u) /\ SameFace(s, u) /\ u.gesture = g
      /\ u.settings = s.settings /\ u.override = s.override
      /\ u.opening = s.opening /\ u.transition = s.transition
  BY <1>1, ZenonT(90) DEF Worlds, SameScene, SameTags, SameFace
<1> HIDE DEF u
<1>4. u.override = "none" /\ \A q \in Pointers : u.settings[q] = u.version
  BY <1>3, SwipesAssumption DEF Tame, SameScene
<1>5. /\ taken \in Worlds /\ Tame(taken)
      /\ SameScene(u, taken) /\ SameTags(u, taken) /\ SameFace(u, taken)
      /\ taken.opening = u.opening /\ taken.gesture = u.gesture
      /\ taken.transition = u.transition
  BY <1>2, <1>3, <1>4, AccelBeginIs
<1>6. t = RefreshViews(x)
  BY DEF BeginGesture
<1> HIDE DEF taken
<1>7. tr \in Transitions /\ tr = s.transition /\ Showing(s, tr)
  BY <1>3, <1>5 DEF Still, Presented, Worlds
<1>8. yes \in BOOLEAN /\ yes /\ none \in {"none", "slide", "spring"} /\ none = "none"
  OBVIOUS
<1> HIDE DEF tr, yes, none
<1>9. new \in Transitions
  BY <1>7, <1>8, ZenonT(90) DEF Transitions
<1>10. /\ new.active = tr.active /\ new.gesture = yes /\ new.animation = none
       /\ new.outgoing = tr.outgoing /\ new.incoming = tr.incoming
       /\ new.cache = tr.cache /\ new.ring = tr.ring
  BY <1>7 DEF Transitions
<1> HIDE DEF new
<1>11. x \in Worlds
  BY <1>5, <1>9 DEF Worlds
<1>12. /\ SameScene(taken, x) /\ SamePad(taken, x) /\ SameTags(taken, x) /\ SameFace(taken, x)
       /\ x.opening = taken.opening /\ x.transition = new
  BY <1>5 DEF Worlds, SameScene, SamePad, SameTags, SameFace
<1> HIDE DEF x
<1>13. x.masked \subseteq Mapped(x)
  BY <1>3, <1>5, <1>12 DEF Still, Mapped, OnTag, SameScene, SameFace
<1>14. /\ t \in Worlds /\ t.masked = HiddenViews(t)
       /\ SameScene(x, t) /\ SamePad(x, t) /\ SameTags(x, t)
       /\ t.enabled = x.enabled /\ t.opening = x.opening
       /\ t.transition = x.transition
  BY <1>6, <1>11, <1>13, RefreshViewsIs
<1> HIDE DEF t
<1>15. /\ SameScene(s, t) /\ SameTags(s, t) /\ t.gesture = g /\ Tame(t)
       /\ t.opening = s.opening /\ t.transition = new /\ t.enabled = s.enabled
  <2>1. Tame(t)
    BY <1>5, <1>12, <1>14 DEF Tame, SameScene, SamePad
  <2> QED
    BY <1>3, <1>5, <1>12, <1>14, <2>1 DEF SameScene, SamePad, SameTags, SameFace
<1>16. Still(t)
  <2>1. TagsGood(t)
    BY <1>15 DEF Still, TagsGood, SameTags
  <2>2. OpeningHere(t)
    BY <1>15 DEF Still, OpeningHere
  <2>3. Cleared(t)
    BY <1>7, <1>10, <1>15 DEF Cleared
  <2>4. Presented(t)
    BY <1>7, <1>8, <1>10, <1>15, ZenonT(90) DEF Presented, Showing, SameTags
  <2>5. t.masked \subseteq Mapped(t)
    BY <1>14 DEF HiddenViews
  <2>6. t.gesture.ring # {}
    BY <1>7, <1>15 DEF Showing
  <2> QED
    BY <1>14, <2>1, <2>2, <2>3, <2>4, <2>5, <2>6 DEF Still
<1>17. Drawn(t)
  <2>1. Members(t) = Members(s)
    BY <1>15 DEF Members, OnTag, CurrentTag, SameScene, SameTags
  <2> QED
    BY <1>14, <1>15, <2>1 DEF Drawn, Visible
<1>18. Owned(t) /\ Within(t)
  BY <1>7, <1>8, <1>10, <1>15 DEF Owned, Within, SameTags
<1>19. Watched(t)
  <2>1. 0 \in -Reach..Reach
    BY SituationsAre DEF Reach
  <2> QED
    BY <1>15, <2>1 DEF Watched, SameScene
<1> QED
  BY <1>15, <1>16, <1>17, <1>18, <1>19 DEF Safe, t, tr, taken, u

\* leme_input_handle_swipe_begin past its refusals
LEMMA BegunIs ==
  ASSUME NEW s, Safe(s), s.gesture = NoGesture, s.override = "none",
         ~s.locked, s.here, s.session_active, NEW p \in Pointers
  PROVE  Safe(Begun(s, p))
<1> DEFINE mode == s.mode
           fresh(u) == Ring(u.tags, Forward)
           start == s.tags.focused_id
           found == s.transition.active
           ring == IF found THEN s.transition.ring ELSE fresh(s)
           initial == IF found THEN s.transition.presented ELSE Unit * Index(ring, start)
           center == NearestCopy(ring, Unit * Index(ring, start), initial)
           fits == /\ mode = "single" => Distance(initial, center) <= Unit
                   /\ RangeFits(s.transition, mode = "single", center - Unit, center + Unit)
           gesture(u, r, i, c) ==
             [NoGesture EXCEPT !.active = TRUE, !.engaged = u.transition.active,
                !.mode = mode, !.pointer = p, !.initial = i, !.center = c,
                !.start = u.tags.focused_id, !.ring = r]
           small == Cardinality(ring) < 2 \/ start \notin ring
           t == Begun(s, p)
<1>1. /\ s \in Worlds /\ GoodTable(Limit, s.tags) /\ s.power_on /\ mode \in Modes
      /\ Still(s) /\ Drawn(s) /\ Visible(s) /\ Tame(s) /\ Watched(s) /\ Within(s)
      /\ start \in 1..Limit
  <2>1. s \in Worlds /\ GoodTable(Limit, s.tags) /\ s.power_on /\ Visible(s)
    BY DEF Safe, Still, TagsGood, Watched, Drawn
  <2>2. start \in 1..Limit
    BY <2>1 DEF GoodTable, TagsType
  <2>3. mode \in Modes
    BY <2>1 DEF Worlds
  <2> QED
    BY <2>1, <2>2, <2>3 DEF Safe
<1>2. start \in Int
  BY <1>1
<1>3. CASE small
  BY <1>3 DEF Begun
<1>4. CASE ~small /\ found /\ fits
  <2> DEFINE single == mode = "single"
             low == center - Unit
             high == center + Unit
             ranged == SetRange(s, single, low, high)
             g == gesture(s, ring, initial, center)
             taken == AccelBegin([ranged EXCEPT !.gesture = g], p)
  <2>1. t = BeginGesture(taken, taken.transition)
    BY <1>4 DEF Begun
  <2>2. ring \in SUBSET (1..Limit) /\ initial \in Int /\ ring # {} /\ found \in BOOLEAN
    BY <1>1, <1>4, SMTT(60) DEF Still, Presented, Showing, Worlds, Transitions
  <2>3. Unit * Index(ring, start) \in Int
    BY <2>2, IndexNat DEF Unit
  <2>4. center \in Int
    BY <2>2, <2>3, NearestCopyInt
  <2>5. /\ g \in Gestures /\ g.active /\ g.engaged = found /\ g.pointer = p
        /\ g.ring = ring /\ g.displacement = 0
    <3> DEFINE h == NewGesture(found, mode, p, initial, center, start, ring)
    <3>1. g = h
      BY DEF NewGesture
    <3> HIDE DEF g, center, ring, initial, found, start, mode
    <3>2. /\ h \in Gestures /\ h.active /\ h.engaged = found /\ h.pointer = p
          /\ h.ring = ring /\ h.displacement = 0
      BY <1>1, <1>2, <2>2, <2>4, NewGestureIs
    <3> HIDE DEF h
    <3> QED
      BY <3>1, <3>2
  <2>6. low \in Int /\ high \in Int /\ single \in BOOLEAN
    BY <2>4 DEF Unit
  <2>7. s.transition.active
    BY <1>4
  <2>13. g.engaged /\ g.ring = s.transition.ring
    BY <1>4, <2>5
  <2> HIDE DEF g, single, low, high, center
  <2>8. /\ Still(ranged) /\ (Drawn(s) => Drawn(ranged))
        /\ SameScene(s, ranged) /\ SamePad(s, ranged) /\ SameTags(s, ranged)
        /\ ranged.transition.active /\ ranged.transition.ring = s.transition.ring
    BY <1>1, <2>6, <2>7, SetRangeIs
  <2> HIDE DEF ranged
  <2>9. Tame(ranged) /\ Drawn(ranged)
    <3>1. Tame(ranged)
      BY <1>1, <2>8 DEF Tame, SameScene, SamePad
    <3> QED
      BY <1>1, <2>8, <3>1
  <2>10. Watched(ranged) /\ Within(ranged)
    <3>1. ranged.transition.ring \subseteq 1..s.tags.max_tags
      BY <1>1, <2>7, <2>8 DEF Within
    <3>2. ranged.gesture = s.gesture /\ ranged.tags.max_tags = s.tags.max_tags
      BY <2>8 DEF SamePad, SameTags
    <3> QED
      BY <1>1, <2>8, <3>1, <3>2, RestIs
  <2>11. /\ ranged.gesture = NoGesture /\ ranged.override = "none" /\ ~ranged.locked
         /\ ranged.power_on /\ ranged.session_active
    BY <1>1, <2>8 DEF SameScene, SamePad
  <2>12. Safe(BeginGesture(taken, taken.transition))
    BY <2>5, <2>8, <2>9, <2>10, <2>11, <2>13, TakenIs
  <2> HIDE DEF t, taken
  <2> QED
    BY <2>1, <2>12 DEF t
<1>5. CASE ~small /\ ~(found /\ fits)
  <2> DEFINE alone == TransitionFinish(s)
             r == fresh(alone)
             at == Unit * Index(r, start)
             g == gesture(alone, r, at, at)
  <2>1. t = IF Cardinality(r) < 2 THEN alone
            ELSE AccelBegin([alone EXCEPT !.gesture = g], p)
    BY <1>5 DEF Begun
  <2>2. /\ Still(alone) /\ Visible(alone) /\ alone.transition = NoTransition
        /\ SameScene(s, alone) /\ SameTags(s, alone)
        /\ SamePad(s, alone) /\ (Tame(s) => Tame(alone)) /\ Drawn(alone)
    BY <1>1, TransitionFinishIs DEF NoGesture
  <2> HIDE DEF alone
  <2>3. r \in SUBSET (1..Limit) /\ r # {} /\ r \subseteq 1..alone.tags.max_tags
    BY <1>1, <2>2, RingIs DEF SameTags
  <2> HIDE DEF fresh
  <2>4. at \in Int
    BY <2>3, IndexNat DEF Unit
  <2> HIDE DEF at
  <2>5. alone.transition.active = FALSE /\ alone.tags.focused_id \in Int
    BY <1>1, <1>2, <2>2 DEF NoTransition, SameTags
  <2> HIDE DEF r
  <2>6. /\ g \in Gestures /\ g.active /\ ~g.engaged /\ g.pointer = p
        /\ g.ring = r /\ g.displacement = 0
    <3> DEFINE engaged == alone.transition.active
               first == alone.tags.focused_id
    <3>1. engaged \in BOOLEAN /\ ~engaged
      BY <2>5
    <3>2. first \in Int
      BY <2>5
    <3> DEFINE h == NewGesture(engaged, mode, p, at, at, first, r)
    <3>3. g = h
      BY DEF NewGesture
    <3> HIDE DEF engaged, first, mode, g, found, start
    <3>4. /\ engaged \in BOOLEAN /\ mode \in Modes /\ p \in Pointers /\ at \in Int
          /\ first \in Int /\ r \in SUBSET (1..Limit)
      BY <1>1, <2>3, <2>4, <3>1, <3>2
    <3>5. /\ h \in Gestures /\ h.active /\ h.engaged = engaged /\ h.pointer = p
          /\ h.ring = r /\ h.displacement = 0
      <4> DEFINE yes == TRUE
                 k == [NoGesture EXCEPT !.active = yes, !.engaged = engaged,
                         !.mode = mode, !.pointer = p, !.initial = at, !.center = at,
                         !.start = first, !.ring = r]
      <4>1. NoGesture \in Gestures /\ NoGesture.displacement = 0
        BY NothingTyped DEF NoGesture
      <4>2. yes \in BOOLEAN /\ yes
        OBVIOUS
      <4>3. h = k
        BY DEF NewGesture
      <4> HIDE DEF yes, h
      <4>4. /\ k \in Gestures /\ k.active = yes /\ k.engaged = engaged /\ k.pointer = p
            /\ k.ring = r /\ k.displacement = 0
        BY <3>4, <4>1, <4>2, ZenonT(90) DEF Gestures
      <4> HIDE DEF k
      <4> QED
        BY <4>2, <4>3, <4>4
    <3> HIDE DEF h
    <3> QED
      BY <3>1, <3>3, <3>5
  <2> HIDE DEF g
  <2>7. Watched(alone) /\ Within(alone) /\ Tame(alone) /\ alone.gesture = NoGesture
        /\ alone.override = "none" /\ ~alone.locked /\ alone.power_on /\ alone.session_active
    <3>1. ~NoTransition.active
      BY DEF NoTransition
    <3> QED
      BY <1>1, <2>2, <3>1 DEF Watched, Within, SameScene, SamePad, SameTags
  <2>8. Safe(alone)
    BY <2>2, <2>7 DEF Safe, Owned, NoTransition
  <2>9. Safe(AccelBegin([alone EXCEPT !.gesture = g], p))
    BY <2>2, <2>3, <2>6, <2>7, StartedIs
  <2> HIDE DEF t
  <2> QED
    BY <2>1, <2>8, <2>9, SMTT(60) DEF t
<1> HIDE DEF small, fits, found
<1> QED
  BY <1>3, <1>4, <1>5

\* An update of an engaged swipe.
LEMMA MovedIs ==
  ASSUME NEW s, Safe(s), s.gesture.engaged, NEW delta \in Int,
         s.gesture.displacement + delta \in -Reach..Reach
  PROVE  Safe(Moved(s, delta))
<1> DEFINE displacement == s.gesture.displacement + delta
           raw == s.gesture.initial + displacement
           visual == IF s.gesture.mode = "single"
                     THEN SwipePosition(raw, s.gesture.center) ELSE raw
           g == [s.gesture EXCEPT !.displacement = displacement]
           u == [s EXCEPT !.gesture = g]
           a == ApplyPosition(u, visual)
           t == Moved(s, delta)
<1>1. s \in Worlds /\ s.gesture \in Gestures /\ s.gesture.active
  BY DEF Safe, Still, Worlds, Cleared, NoGesture
<1>2. displacement \in Int /\ raw \in Int /\ visual \in Int
  <2>1. s.gesture.displacement \in Int /\ s.gesture.initial \in Int /\ s.gesture.center \in Int
    BY <1>1 DEF Gestures
  <2>2. displacement \in Int
    BY <2>1
  <2>3. raw \in Int
    BY <2>1, <2>2
  <2> HIDE DEF raw
  <2>4. SwipePosition(raw, s.gesture.center) \in Int
    BY <2>1, <2>3 DEF SwipePosition, Unit, Band
  <2> QED
    BY <2>2, <2>3, <2>4
<1>3. t = IF u.transition.active THEN a ELSE u
  BY DEF Moved
<1> HIDE DEF visual, raw
<1>4. g \in Gestures
  BY <1>1, <1>2 DEF Gestures
<1>5. /\ g.active = s.gesture.active /\ g.engaged = s.gesture.engaged
      /\ g.ring = s.gesture.ring /\ g.pointer = s.gesture.pointer
      /\ g.displacement = displacement
  BY <1>1 DEF Gestures
<1>6. displacement \in -Reach..Reach
  OBVIOUS
<1> HIDE DEF displacement, g
<1>7. u \in Worlds
  BY <1>1, <1>4 DEF Worlds
<1>8. /\ SameScene(s, u) /\ SameTags(s, u) /\ SameFace(s, u) /\ u.gesture = g
      /\ u.settings = s.settings /\ u.override = s.override /\ u.saved = s.saved
      /\ u.opening = s.opening /\ u.transition = s.transition
  BY <1>1 DEF Worlds, SameScene, SameTags, SameFace
<1> HIDE DEF u
<1>9. Still(u)
  <2>0. Still(s)
    BY DEF Safe
  <2>1. TagsGood(u) /\ OpeningHere(u)
    BY <1>5, <1>8, <2>0 DEF Still, TagsGood, OpeningHere, CurrentTag, SameTags, SameScene
  <2>2. Cleared(u)
    BY <1>1, <1>5, <1>8, <2>0 DEF Still, Cleared
  <2>3. Presented(u)
    BY <1>5, <1>8, <2>0 DEF Still, Presented, Showing, SameTags
  <2>4. u.masked \subseteq Mapped(u)
    BY <1>8, <2>0 DEF Still, Mapped, OnTag, SameScene, SameFace
  <2>5. u.gesture.ring # {}
    BY <1>1, <1>5, <1>8, <2>0 DEF Still
  <2> QED
    BY <1>7, <2>1, <2>2, <2>3, <2>4, <2>5 DEF Still
<1>10. Drawn(u)
  <2>1. Members(u) = Members(s) /\ HiddenViews(u) = HiddenViews(s)
    BY <1>8 DEF Members, HiddenViews, Mapped, OnTag, CurrentTag, PresentationHidden,
                HidesView, SameScene, SameTags
  <2> QED
    BY <1>8, <2>1 DEF Safe, Drawn, Visible, SameFace
<1>11. Tame(u)
  BY <1>5, <1>8 DEF Safe, Tame, SameScene
<1>12. Owned(u) /\ Within(u)
  BY <1>5, <1>8 DEF Safe, Owned, Within, SameTags
<1>13. Watched(u)
  BY <1>5, <1>6, <1>8 DEF Safe, Watched, SameScene
<1>14. CASE ~u.transition.active
  <2>1. t = u
    BY <1>3, <1>14
  <2> QED
    BY <1>9, <1>10, <1>11, <1>12, <1>13, <2>1 DEF Safe
<1>15. CASE u.transition.active
  <2>1. u.transition.gesture
    BY <1>5, <1>8, <1>9, <1>15 DEF Still, Presented, Showing
  <2>2. /\ Still(a) /\ (Drawn(u) => Drawn(a))
        /\ SameScene(u, a) /\ SamePad(u, a) /\ SameTags(u, a)
        /\ a.transition.active
        /\ a.transition.ring = u.transition.ring
        /\ a.transition.animation = u.transition.animation
    BY <1>2, <1>9, <1>15, <2>1, ApplyPositionIs
  <2>3. t = a
    BY <1>3, <1>15
  <2> HIDE DEF a, t
  <2>4. Drawn(a)
    BY <1>10, <2>2
  <2>5. Tame(a)
    BY <1>11, <2>2 DEF Tame, SameScene, SamePad
  <2>6. Owned(a) /\ Within(a)
    BY <1>12, <1>15, <2>2 DEF Owned, Within, SamePad, SameTags
  <2>7. Watched(a)
    BY <1>13, <2>2 DEF Watched, SameScene, SamePad
  <2> QED
    BY <2>2, <2>3, <2>4, <2>5, <2>6, <2>7 DEF Safe, t
<1> QED
  BY <1>14, <1>15

\* A handler is done when the invariants it suspended hold again.
LEMMA SafeFrom ==
  ASSUME NEW s, Watched(s), Within(s), NEW t, SameScene(s, t),
         t.tags.max_tags = s.tags.max_tags,
         t.gesture = NoGesture \/ t.gesture = s.gesture,
         t.transition.active => t.transition = s.transition
                                \/ t.transition.ring \subseteq 1..s.tags.max_tags,
         Still(t), Drawn(t), Owned(t), Tame(t)
  PROVE  Safe(t)
BY RestIs DEF Safe

\* The recognition of a horizontal swipe, with or without a transition.
LEMMA EngagedIs ==
  ASSUME NEW s, Safe(s), s.gesture.active, ~s.gesture.engaged,
         ~s.transition.active \/ Eligible(s, s.gesture.start, Ahead(s))
  PROVE  LET t == Engaged(s)
         IN /\ Safe(t)
            /\ t.gesture.engaged => t.gesture.displacement = s.gesture.displacement
<1> DEFINE g == s.gesture
           ahead == Ahead(s)
           allow == TRUE
           prepared == Prepare(s, g.start, ahead, Forward, allow)
           at == Unit * Index(prepared.ring, prepared.outgoing)
           placed == [prepared EXCEPT !.presented = at]
           quiet == Prepared(s)
           begun == BeginGesture(quiet, placed)
           single == g.mode = "single"
           low == g.center - Unit
           high == g.center + Unit
           ranged == SetRange(begun, single, low, high)
           engaged(u) == [u EXCEPT !.gesture.engaged = TRUE]
           t == Engaged(s)
<1>1. /\ s \in Worlds /\ GoodTable(Limit, s.tags) /\ g \in Gestures
      /\ Still(s) /\ Drawn(s) /\ Visible(s) /\ Owned(s) /\ Tame(s) /\ Watched(s) /\ Within(s)
      /\ g.ring \in SUBSET (1..Limit) /\ g.ring # {} /\ g.center \in Int
  <2>1. s \in Worlds /\ GoodTable(Limit, s.tags) /\ Visible(s) /\ g.ring # {}
    BY DEF Safe, Still, TagsGood, Drawn
  <2>2. g \in Gestures
    BY <2>1 DEF Worlds
  <2>3. g.ring \in SUBSET (1..Limit) /\ g.center \in Int
    BY <2>2 DEF Gestures
  <2> QED
    BY <2>1, <2>2, <2>3 DEF Safe
<1>2. t = IF ~prepared.active THEN engaged(quiet)
          ELSE IF prepared.ring # quiet.gesture.ring THEN GestureCancel(TransitionFinish(begun))
          ELSE engaged(ranged)
  BY DEF Engaged
<1>3. /\ Still(quiet) /\ (Visible(s) => Drawn(quiet)) /\ NoOpening(quiet)
      /\ SameScene(s, quiet) /\ SameTags(s, quiet) /\ quiet.transition = NoTransition
      /\ quiet.gesture = NoGesture \/ SamePad(s, quiet)
      /\ ~s.transition.active => SamePad(s, quiet)
      /\ s.transition.active => quiet.gesture = NoGesture
      /\ (Tame(s) => Tame(quiet))
  BY <1>1, PreparedIs
<1>4. /\ ~NoTransition.active /\ ~NoGesture.engaged /\ ~NoGesture.active
      /\ NoGesture.ring = {}
  BY DEF NoTransition, NoGesture
<1>5. ahead \in 1..Limit
  <2>1. g.center + Unit \in Int
    BY <1>1 DEF Unit
  <2>2. ahead \in g.ring
    BY <1>1, <2>1, RingAtMember, LimitIs DEF Ahead
  <2> QED
    BY <1>1, <2>2
<1> HIDE DEF quiet, ahead
<1>6. \/ prepared = NoTransition
      \/ /\ prepared \in Transitions /\ prepared.active /\ g.start # ahead
         /\ prepared.outgoing = g.start /\ prepared.incoming = ahead
         /\ prepared.ring = Ring(s.tags, Forward) /\ ~prepared.gesture
         /\ prepared.cache = <<g.start, ahead>> /\ g.start \in 1..Limit
  <2>1. CASE g.start \in 1..Limit
    <3> HIDE DEF allow
    <3> QED
      BY <1>1, <1>5, <2>1, PrepareIs
  <2>2. CASE g.start \notin 1..Limit
    <3>1. s.tags.max_tags \in 1..Limit
      BY <1>1 DEF GoodTable, TagsType
    <3>2. ~ValidId(s.tags, g.start)
      BY <2>2, <3>1, LimitIs DEF ValidId
    <3> QED
      BY <3>2 DEF Prepare, Eligible
  <2> QED
    BY <2>1, <2>2
<1>7. Drawn(quiet) /\ Tame(quiet) /\ quiet.tags = s.tags
  BY <1>1, <1>3 DEF SameTags
<1>8. CASE ~prepared.active
  <2>1. ~s.transition.active
    <3>1. Eligible(s, g.start, ahead) => prepared.active
      BY DEF Prepare
    <3> QED
      BY <1>8, <3>1 DEF ahead
  <2>2. SamePad(s, quiet)
    BY <1>3, <2>1
  <2>3. quiet.gesture.active /\ ~quiet.transition.active
    BY <1>3, <1>4, <2>2 DEF SamePad
  <2> DEFINE e == [quiet EXCEPT !.gesture.engaged = TRUE]
  <2>4. /\ Still(e) /\ Owned(e) /\ (Drawn(quiet) => Drawn(e))
        /\ SameScene(quiet, e) /\ SameTags(quiet, e)
        /\ e.settings = quiet.settings /\ e.override = quiet.override /\ e.saved = quiet.saved
        /\ e.transition = quiet.transition
        /\ e.gesture.active /\ e.gesture.engaged
        /\ e.gesture.ring = quiet.gesture.ring /\ e.gesture.pointer = quiet.gesture.pointer
        /\ e.gesture.displacement = quiet.gesture.displacement
    BY <1>3, <2>3, EngageIs
  <2>5. t = e
    BY <1>2, <1>8
  <2> HIDE DEF e, t, prepared
  <2>6. Tame(e)
    BY <1>7, <2>3, <2>4 DEF Tame, SameScene
  <2>7. Watched(e)
    BY <1>1, <1>3, <2>2, <2>4 DEF Watched, SameScene, SamePad
  <2>8. Within(e)
    BY <1>1, <1>3, <1>4, <2>2, <2>4 DEF Within, SameTags, SamePad
  <2> QED
    BY <1>7, <2>2, <2>4, <2>5, <2>6, <2>7, <2>8 DEF Safe, SamePad, t
<1>9. ASSUME prepared.active
      PROVE  /\ Still(begun) /\ Drawn(begun)
             /\ SameScene(quiet, begun) /\ SamePad(quiet, begun) /\ SameTags(quiet, begun)
             /\ begun.opening = quiet.opening
             /\ begun.transition.active /\ begun.transition.gesture
             /\ begun.transition.animation = "none"
             /\ begun.transition.ring = prepared.ring
             /\ prepared.ring # {} /\ prepared.ring \subseteq 1..s.tags.max_tags
  <2>1. /\ prepared \in Transitions /\ g.start # ahead
        /\ prepared.outgoing = g.start /\ prepared.incoming = ahead
        /\ prepared.ring = Ring(s.tags, Forward)
        /\ prepared.cache = <<g.start, ahead>> /\ g.start \in 1..Limit
    BY <1>4, <1>6, <1>9
  <2>2. prepared.ring # {} /\ prepared.ring \subseteq 1..s.tags.max_tags
        /\ prepared.ring \in SUBSET (1..Limit)
    BY <1>1, <2>1, RingIs
  <2> HIDE DEF prepared
  <2>3. at \in Int
    BY <2>2, IndexNat DEF Unit
  <2> HIDE DEF at
  <2>4. placed \in Transitions
    BY <2>1, <2>3 DEF Transitions
  <2>5. /\ placed.active = prepared.active /\ placed.outgoing = prepared.outgoing
        /\ placed.incoming = prepared.incoming /\ placed.ring = prepared.ring
        /\ placed.cache = prepared.cache
    BY <2>1 DEF Transitions
  <2> HIDE DEF placed
  <2>6. /\ Len(placed.cache) <= CacheSize /\ Distinct(placed.cache)
        /\ {placed.outgoing, placed.incoming} \subseteq ToSet(placed.cache)
    BY <1>5, <2>1, <2>5, DistinctPair
  <2>7. ~quiet.gesture.engaged
    BY <1>3, <1>4 DEF SamePad
  <2>9. /\ placed.active /\ placed.ring # {}
        /\ quiet.gesture.engaged => placed.ring = quiet.gesture.ring
    BY <1>9, <2>2, <2>5, <2>7
  <2>8. /\ Still(begun) /\ (Visible(quiet) => Drawn(begun))
        /\ SameScene(quiet, begun) /\ SamePad(quiet, begun) /\ SameTags(quiet, begun)
        /\ begun.opening = quiet.opening
        /\ begun.transition.active /\ begun.transition.gesture
        /\ begun.transition.animation = "none" /\ begun.transition.ring = placed.ring
    BY <1>3, <2>4, <2>6, <2>9, BeginGestureIs
  <2> HIDE DEF begun
  <2> QED
    BY <1>7, <2>2, <2>5, <2>8 DEF Drawn
<1> HIDE DEF begun, prepared
<1>10. CASE prepared.active /\ prepared.ring # quiet.gesture.ring
  <2> DEFINE f == TransitionFinish(begun)
             c == GestureCancel(f)
  <2>1. Visible(begun) /\ Still(begun) /\ Tame(begun) /\ SameScene(s, begun) /\ SameTags(s, begun)
        /\ ~begun.gesture.engaged
    BY <1>3, <1>4, <1>7, <1>9, <1>10 DEF Drawn, Tame, SameScene, SamePad, SameTags
  <2>2. /\ Still(f) /\ f.transition = NoTransition /\ SameScene(begun, f) /\ SameTags(begun, f)
        /\ (Tame(begun) => Tame(f)) /\ (Drawn(begun) \/ begun.transition.active => Drawn(f))
    BY <2>1, TransitionFinishIs
  <2> HIDE DEF f
  <2>3. Drawn(f) /\ Tame(f) /\ Owned(f)
    BY <1>4, <1>9, <1>10, <2>1, <2>2 DEF Owned
  <2>4. /\ Still(c) /\ Drawn(c) /\ c.gesture = NoGesture
        /\ SameScene(f, c) /\ SameTags(f, c)
        /\ c.transition = (IF f.gesture.engaged THEN NoTransition ELSE f.transition)
        /\ (Tame(f) => Tame(c)) /\ (Owned(f) => Owned(c))
    BY <2>2, <2>3, GestureCancelIs
  <2>5. t = c
    BY <1>2, <1>10 DEF f
  <2> HIDE DEF c, t
  <2>6. SameScene(s, c) /\ c.tags = s.tags /\ ~c.transition.active
    BY <1>4, <2>1, <2>2, <2>4 DEF SameScene, SameTags
  <2>7. Safe(c)
    BY <1>1, <2>3, <2>4, <2>6, SafeFrom
  <2> QED
    BY <1>4, <2>4, <2>5, <2>7 DEF t
<1>11. CASE prepared.active /\ prepared.ring = quiet.gesture.ring
  <2> DEFINE e == [ranged EXCEPT !.gesture.engaged = TRUE]
  <2>1. quiet.gesture # NoGesture
    BY <1>4, <1>9, <1>11
  <2>2. SamePad(s, quiet)
    BY <1>3, <2>1
  <2>3. low \in Int /\ high \in Int /\ single \in BOOLEAN
    BY <1>1 DEF Unit
  <2>4. t = e
    BY <1>2, <1>11
  <2> HIDE DEF low, high, single
  <2>5. /\ Still(ranged) /\ (Drawn(begun) => Drawn(ranged))
        /\ SameScene(begun, ranged) /\ SamePad(begun, ranged) /\ SameTags(begun, ranged)
        /\ ranged.opening = begun.opening /\ ranged.transition.active
        /\ ranged.transition.gesture = begun.transition.gesture
        /\ ranged.transition.ring = begun.transition.ring
        /\ ranged.transition.animation = begun.transition.animation
    BY <1>9, <1>11, <2>3, SetRangeIs
  <2> HIDE DEF ranged
  <2>6. /\ NoOpening(ranged) /\ ranged.gesture.active /\ Drawn(ranged)
        /\ ranged.transition.gesture /\ ranged.transition.animation = "none"
        /\ ranged.transition.ring = ranged.gesture.ring
    BY <1>3, <1>9, <1>11, <2>2, <2>5 DEF NoOpening, SamePad
  <2>7. /\ Still(e) /\ Owned(e) /\ (Drawn(ranged) => Drawn(e))
        /\ SameScene(ranged, e) /\ SameTags(ranged, e)
        /\ e.settings = ranged.settings /\ e.override = ranged.override /\ e.saved = ranged.saved
        /\ e.transition = ranged.transition
        /\ e.gesture.active /\ e.gesture.engaged
        /\ e.gesture.ring = ranged.gesture.ring /\ e.gesture.pointer = ranged.gesture.pointer
        /\ e.gesture.displacement = ranged.gesture.displacement
    BY <2>5, <2>6, EngageIs
  <2> HIDE DEF e, t
  <2>8. SameScene(s, ranged) /\ SamePad(s, ranged) /\ SameTags(s, ranged)
    BY <1>3, <1>9, <1>11, <2>2, <2>5 DEF SameScene, SamePad, SameTags
  <2>9. Tame(e)
    BY <1>1, <2>7, <2>8 DEF Tame, SameScene, SamePad
  <2>10. Watched(e)
    BY <1>1, <2>7, <2>8 DEF Watched, SameScene, SamePad
  <2>11. Within(e)
    BY <1>1, <1>9, <1>11, <2>5, <2>7, <2>8 DEF Within, SameTags, SamePad
  <2> QED
    BY <2>4, <2>6, <2>7, <2>8, <2>9, <2>10, <2>11 DEF Safe, SamePad, t
<1> QED
  BY <1>8, <1>10, <1>11

LEMMA TargetInt ==
  ASSUME NEW g \in Gestures, g.ring # {}, NEW visual \in Int, NEW projection \in Int,
         NEW cancelled \in BOOLEAN
  PROVE  Target(g, visual, projection, cancelled) \in Int
<1> DEFINE forward == projection >= g.initial
           held == Higher(Floor(visual), Lower(projection, Ceil(visual)))
           back == NearestCopy(g.ring, g.center, visual)
           near == SwipeTarget(projection, g.center)
           pair == ContinuousTarget(held, forward)
           far == ContinuousTarget(projection, forward)
<1>1. g.center \in Int /\ g.ring \in SUBSET (1..Limit)
  BY DEF Gestures
<1>2. back \in Int
  BY <1>1, NearestCopyInt
<1>3. near \in Int
  BY <1>1, SwipesAssumption DEF SwipeTarget, Unit
<1>4. held \in Int
  <2>1. Floor(visual) \in Int /\ Ceil(visual) \in Int
    BY TagInt
  <2> QED
    BY <2>1 DEF Higher, Lower
<1>5. ASSUME NEW q \in Int, NEW way PROVE ContinuousTarget(q, way) \in Int
  <2>1. Floor(q) \in Int
    BY TagInt
  <2> QED
    BY <2>1 DEF ContinuousTarget, Unit
<1>6. pair \in Int /\ far \in Int
  <2> HIDE DEF held, forward
  <2> QED
    BY <1>4, <1>5
<1>7. Target(g, visual, projection, cancelled) \in {g.center, back, near, pair, far}
  <2> HIDE DEF back, near, pair, far
  <2>1. CASE cancelled
    BY <2>1 DEF Target, back
  <2>2. CASE ~cancelled /\ g.mode = "single"
    BY <2>2 DEF Target, near
  <2>3. CASE ~cancelled /\ g.mode = "scrub"
    BY <2>3 DEF Target, pair, held, forward
  <2>4. CASE ~cancelled /\ g.mode # "single" /\ g.mode # "scrub"
    BY <2>4 DEF Target, far, forward
  <2> QED
    BY <2>1, <2>2, <2>3, <2>4
<1> HIDE DEF back, near, pair, far
<1> QED
  BY <1>1, <1>2, <1>3, <1>6, <1>7

\* A swipe that is cancelled leaves a safe world, and so does one let go.
LEMMA CancelSafe ==
  ASSUME NEW s, Safe(s)
  PROVE  LET t == GestureCancel(s)
         IN /\ Safe(t) /\ t.gesture = NoGesture /\ t.override = "none"
            /\ SameScene(s, t) /\ SameTags(s, t)
<1> DEFINE t == GestureCancel(s)
<1>1. /\ Still(t) /\ Drawn(t) /\ t.gesture = NoGesture /\ t.override = "none"
      /\ SameScene(s, t) /\ SameTags(s, t)
      /\ t.transition = (IF s.gesture.engaged THEN NoTransition ELSE s.transition)
      /\ (Tame(s) => Tame(t)) /\ (Owned(s) => Owned(t))
  BY GestureCancelIs DEF Safe
<1> HIDE DEF t
<1>2. ~NoTransition.active
  BY DEF NoTransition
<1>3. Watched(s) /\ Within(s) /\ Owned(s) /\ Tame(s)
  BY DEF Safe
<1>4. t.tags.max_tags = s.tags.max_tags
  BY <1>1 DEF SameTags
<1>5. Safe(t)
  BY <1>1, <1>2, <1>3, <1>4, SafeFrom
<1> QED
  BY <1>1, <1>5 DEF t

\* leme_input_handle_swipe_end past its refusals
LEMMA ReleasedIs ==
  ASSUME NEW s, Safe(s), s.gesture.engaged, NEW flick \in Int, NEW cancelled \in BOOLEAN
  PROVE  Safe(Released(s, flick, cancelled))
<1> DEFINE g == s.gesture
           visual == Shown(s)
           projection == g.initial + g.displacement + flick
           target == Target(g, visual, projection, cancelled)
           bounded == g.mode # "free" /\ (cancelled => g.mode = "single")
           minimum == IF g.mode = "single" THEN g.center - Unit ELSE Floor(visual)
           maximum == IF g.mode = "single" THEN g.center + Unit ELSE Ceil(visual)
           direction == IF target > g.center THEN Forward
                        ELSE IF target < g.center THEN Backward
                        ELSE IF visual >= g.center THEN Backward ELSE Forward
           id == RingAt(g.ring, target)
           ranged == IF s.transition.active
                     THEN SetRange(s, bounded, minimum, maximum) ELSE s
           chosen == FocusQuietly(ranged, id, direction)
           reset == GestureReset(chosen)
           fresh == RefreshFocus(reset)
           moving == flick # 0 /\ ~cancelled
           c == Settle(fresh, visual, target, moving)
           t == Released(s, flick, cancelled)
<1>1. /\ s \in Worlds /\ GoodTable(Limit, s.tags) /\ CandidateSound(s.tags) /\ g \in Gestures
      /\ g.active /\ g.ring # {} /\ g.ring \in SUBSET (1..Limit)
      /\ g.ring \subseteq 1..s.tags.max_tags
      /\ Still(s) /\ Drawn(s) /\ Owned(s) /\ Tame(s) /\ Watched(s) /\ Within(s)
  <2>1. s \in Worlds /\ GoodTable(Limit, s.tags) /\ CandidateSound(s.tags) /\ g.active
    BY DEF Safe, Still, TagsGood, Cleared, NoGesture
  <2>2. g \in Gestures
    BY <2>1 DEF Worlds
  <2>3. g.ring # {} /\ g.ring \subseteq 1..s.tags.max_tags
    BY <2>1 DEF Safe, Still, Within
  <2>4. g.ring \in SUBSET (1..Limit)
    BY <2>2 DEF Gestures
  <2> QED
    BY <2>1, <2>2, <2>3, <2>4 DEF Safe
<1>2. visual \in Int /\ g.center \in Int /\ g.initial \in Int /\ g.displacement \in Int
  BY <1>1, PositionsInt
<1>3. projection \in Int
  BY <1>2
<1>4. t = IF s.transition.active /\ ~RangeFits(s.transition, bounded, minimum, maximum)
          THEN GestureCancel(s) ELSE c
  BY DEF Released
<1> HIDE DEF visual, projection
<1>5. target \in Int
  BY <1>1, <1>2, <1>3, TargetInt
<1>6. /\ bounded \in BOOLEAN /\ minimum \in Int /\ maximum \in Int
      /\ direction \in Directions /\ moving \in BOOLEAN
  <2>1. Floor(visual) \in Int /\ Ceil(visual) \in Int
    BY <1>2, TagInt
  <2> QED
    BY <1>2, <2>1 DEF Directions, Unit
<1> HIDE DEF target, bounded, minimum, maximum, direction, moving
<1>7. id \in g.ring
  BY <1>1, <1>5, RingAtMember, LimitIs
<1>8. id \in 1..Limit /\ id \in 1..s.tags.max_tags
  BY <1>1, <1>7
<1>9. s.transition.active => /\ s.transition.gesture /\ s.transition.ring = g.ring
                             /\ s.transition.animation = "none"
  BY <1>1 DEF Still, Presented, Showing, Owned
<1> HIDE DEF id
<1>10. /\ Still(ranged) /\ SameScene(s, ranged) /\ SamePad(s, ranged) /\ SameTags(s, ranged)
       /\ ranged.transition.active <=> s.transition.active
       /\ s.transition.active => /\ ranged.transition.gesture
                                 /\ ranged.transition.ring = g.ring
                                 /\ ranged.transition.animation = "none"
  <2>1. CASE s.transition.active
    <3> DEFINE r == SetRange(s, bounded, minimum, maximum)
    <3>1. /\ Still(r) /\ SameScene(s, r) /\ SamePad(s, r) /\ SameTags(s, r)
          /\ r.transition.active
          /\ r.transition.gesture = s.transition.gesture
          /\ r.transition.ring = s.transition.ring
          /\ r.transition.animation = s.transition.animation
      <4>1. /\ Still(s) /\ s.transition.active
            /\ bounded \in BOOLEAN /\ minimum \in Int /\ maximum \in Int
        BY <1>1, <1>6, <2>1
      <4> QED
        BY <4>1, SetRangeIs
    <3>2. ranged = r
      BY <2>1
    <3> HIDE DEF r, ranged
    <3> QED
      BY <1>9, <2>1, <3>1, <3>2
  <2>2. CASE ~s.transition.active
    BY <1>1, <2>2 DEF SameScene, SamePad, SameTags
  <2> QED
    BY <2>1, <2>2
<1> HIDE DEF ranged
<1>11. /\ Still(chosen) /\ SameScene(ranged, chosen) /\ SamePad(ranged, chosen)
       /\ chosen.transition = ranged.transition
       /\ chosen.tags = FocusId(ranged.tags, id)
  <2>1. /\ ranged.gesture.engaged
        /\ ranged.transition.active => ranged.transition.animation # "spring"
    BY <1>10 DEF SamePad
  <2> QED
    BY <1>6, <1>8, <1>10, <2>1, FocusQuietlyIs
<1> HIDE DEF chosen
<1>12. chosen \in Worlds
  BY <1>11 DEF Still
<1>13. /\ reset.gesture = NoGesture /\ SameScene(chosen, reset) /\ SameTags(chosen, reset)
       /\ reset.transition = chosen.transition /\ (Tame(chosen) => Tame(reset))
       /\ Still(reset)
  BY <1>11, <1>12, GestureResetIs
<1> HIDE DEF reset
<1>14. /\ Still(fresh) /\ Drawn(fresh)
       /\ SameScene(reset, fresh) /\ SamePad(reset, fresh) /\ SameTags(reset, fresh)
       /\ fresh.transition = reset.transition
  BY <1>13, RefreshFocusIs
<1> HIDE DEF fresh
<1>15. /\ SameScene(s, fresh) /\ fresh.gesture = NoGesture /\ fresh.transition = ranged.transition
       /\ fresh.tags = FocusId(s.tags, id) /\ Tame(fresh)
  <2>1. Tame(chosen)
    BY <1>1, <1>10, <1>11 DEF Tame, SameScene, SamePad
  <2>2. Tame(fresh)
    BY <1>13, <1>14, <2>1 DEF Tame, SameScene, SamePad
  <2> QED
    BY <1>10, <1>11, <1>13, <1>14, <2>2 DEF SameScene, SamePad, SameTags
<1>16. fresh.tags.focused_id = id /\ fresh.tags.max_tags = s.tags.max_tags
  <2>1. id <= s.tags.max_tags
    BY <1>8
  <2> QED
    BY <1>1, <1>8, <1>15, <2>1, FocusIdIs
<1>17. /\ Still(c) /\ Drawn(c)
       /\ SameScene(fresh, c) /\ SamePad(fresh, c) /\ SameTags(fresh, c)
       /\ c.transition.active =>
            fresh.transition.active /\ c.transition.animation = "spring"
            /\ c.transition.ring = fresh.transition.ring
  <2>1. fresh.transition.active =>
          fresh.transition.gesture /\ RingAt(fresh.transition.ring, target) = fresh.tags.focused_id
    BY <1>10, <1>15, <1>16 DEF id
  <2> QED
    BY <1>2, <1>5, <1>6, <1>14, <1>15, <2>1, SettleIs
<1> HIDE DEF c, t
<1>18. Safe(c)
  <2>1. SameScene(s, c) /\ c.gesture = NoGesture /\ c.tags.max_tags = s.tags.max_tags /\ Tame(c)
    BY <1>15, <1>16, <1>17 DEF Tame, SameScene, SamePad, SameTags
  <2>2. c.transition.active => c.transition.ring \subseteq 1..s.tags.max_tags
    BY <1>1, <1>10, <1>15, <1>17
  <2>3. Owned(c)
    BY <1>17, <2>1 DEF Owned, NoGesture
  <2> QED
    BY <1>1, <1>17, <2>1, <2>2, <2>3, SafeFrom
<1> QED
  BY <1>4, <1>18, CancelSafe DEF t

-----------------------------------------------------------------------------
(* One lemma per action: the swipe and the animation manager               *)

LEMMA SwipeBeginSafe ==
  ASSUME Safe(w), NEW p \in Pointers, SwipeBegin(p)
  PROVE  Safe(w')
<1> DEFINE alone == GestureCancel(w)
<1>1. w' = (IF w.locked \/ ~w.here THEN alone ELSE Begun(alone, p)) /\ w.session_active
  BY DEF SwipeBegin
<1>2. /\ Safe(alone) /\ alone.gesture = NoGesture /\ alone.override = "none"
      /\ SameScene(w, alone)
  BY CancelSafe
<1> HIDE DEF alone
<1>3. CASE w.locked \/ ~w.here
  BY <1>1, <1>2, <1>3
<1>4. CASE ~(w.locked \/ ~w.here)
  <2>1. ~alone.locked /\ alone.here /\ alone.session_active
    BY <1>1, <1>2, <1>4 DEF SameScene
  <2>2. Safe(Begun(alone, p))
    BY <1>2, <2>1, BegunIs
  <2> QED
    BY <1>1, <1>4, <2>2
<1> QED
  BY <1>3, <1>4

LEMMA SwipeUpdateSafe ==
  ASSUME Safe(w), Surprises = {}, NEW kind, NEW delta \in Int, SwipeUpdate(kind, delta)
  PROVE  Safe(w')
<1> DEFINE engaged == Engaged(w)
<1>1. /\ w.session_active /\ w.gesture.active
      /\ w.gesture.displacement + delta \in -Reach..Reach
      /\ ~w.transition.active \/ w.gesture.engaged \/ Eligible(w, w.gesture.start, Ahead(w))
  BY DEF SwipeUpdate, Reach
<1>2. w' = IF ~w.here \/ w.locked THEN GestureCancel(w)
           ELSE IF w.gesture.engaged THEN Moved(w, delta)
           ELSE IF kind = "short" THEN w
           ELSE IF kind = "vertical" THEN GestureReset(w)
           ELSE IF engaged.gesture.engaged THEN Moved(engaged, delta) ELSE engaged
  BY DEF SwipeUpdate
<1>3. Safe(GestureCancel(w))
  BY CancelSafe
<1>4. w.gesture.engaged => Safe(Moved(w, delta))
  BY <1>1, MovedIs
<1>5. ~w.gesture.engaged => Safe(GestureReset(w))
  <2> DEFINE r == GestureReset(w)
  <2>1. w \in Worlds /\ Still(w) /\ Drawn(w) /\ Owned(w) /\ Tame(w) /\ Watched(w) /\ Within(w)
    BY DEF Safe, Still
  <2>2. /\ r.gesture = NoGesture /\ SameScene(w, r) /\ SameTags(w, r)
        /\ r.transition = w.transition
        /\ (Tame(w) => Tame(r)) /\ (Still(w) => Still(r)) /\ (Drawn(w) => Drawn(r))
    BY <2>1, GestureResetIs
  <2> HIDE DEF r
  <2>3. ~w.gesture.engaged => Owned(r)
    BY <2>1, <2>2 DEF Owned, NoGesture
  <2>4. r.tags.max_tags = w.tags.max_tags
    BY <2>2 DEF SameTags
  <2> QED
    BY <2>1, <2>2, <2>3, <2>4, SafeFrom DEF r
<1>6. ~w.gesture.engaged =>
        /\ Safe(engaged)
        /\ engaged.gesture.engaged =>
             engaged.gesture.displacement = w.gesture.displacement
  BY <1>1, EngagedIs
<1> HIDE DEF engaged
<1>7. ~w.gesture.engaged /\ engaged.gesture.engaged => Safe(Moved(engaged, delta))
  <2> SUFFICES ASSUME ~w.gesture.engaged, engaged.gesture.engaged
               PROVE  Safe(Moved(engaged, delta))
    OBVIOUS
  <2>1. Safe(engaged) /\ engaged.gesture.displacement + delta \in -Reach..Reach
    BY <1>1, <1>6
  <2> QED
    BY <2>1, MovedIs
<1> QED
  BY <1>2, <1>3, <1>4, <1>5, <1>6, <1>7

LEMMA SwipeEndSafe ==
  ASSUME Safe(w), NEW flick \in Int, NEW cancelled \in BOOLEAN, SwipeEnd(flick, cancelled)
  PROVE  Safe(w')
<1>1. w' = IF Handled THEN Released(w, flick, cancelled) ELSE GestureCancel(w)
  BY DEF SwipeEnd
<1>2. CASE Handled
  <2>1. w.gesture.engaged
    BY <1>2 DEF Handled
  <2>2. Safe(Released(w, flick, cancelled))
    BY <2>1, ReleasedIs
  <2> QED
    BY <1>1, <1>2, <2>2
<1>3. CASE ~Handled
  BY <1>1, <1>3, CancelSafe
<1> QED
  BY <1>2, <1>3

LEMMA ReplugSafe ==
  ASSUME Safe(w), NEW p \in Pointers, Replug(p)
  PROVE  Safe(w')
<1> DEFINE c == GestureCancel(w)
           s == IF w.gesture.pointer = p THEN c ELSE w
           settings == [s.settings EXCEPT ![p] = s.version]
           t == [s EXCEPT !.settings = settings]
<1>1. w' = [s EXCEPT !.settings[p] = s.version]
  BY DEF Replug, Become
<1>2. /\ Safe(c) /\ c.gesture = NoGesture /\ c.override = "none" /\ SameScene(w, c)
  BY CancelSafe
<1> HIDE DEF c
<1>3. Safe(s) /\ s.override # p
  <2>1. CASE w.gesture.pointer = p
    BY <1>2, <2>1, SwipesAssumption
  <2>2. CASE w.gesture.pointer # p
    BY <2>2, SwipesAssumption DEF Safe, Tame
  <2> QED
    BY <2>1, <2>2
<1> HIDE DEF s
<1>4. s \in Worlds /\ s.version \in Levels
  BY <1>3 DEF Safe, Still, Worlds, Levels
<1>5. w' = t
  BY <1>1, <1>4 DEF Worlds
<1>6. settings \in [Pointers -> Levels]
  BY <1>4 DEF Worlds
<1>7. \A q \in Pointers : settings[q] = IF s.override = q THEN Overridden ELSE s.version
  BY <1>3, <1>4 DEF Safe, Tame, Worlds
<1> HIDE DEF settings
<1>8. t \in Worlds
  BY <1>4, <1>6 DEF Worlds
<1>9. /\ SameScene(s, t) /\ SameTags(s, t) /\ SameFace(s, t) /\ t.gesture = s.gesture
      /\ t.settings = settings /\ t.override = s.override /\ t.saved = s.saved
      /\ t.opening = s.opening /\ t.transition = s.transition
  BY <1>4 DEF Worlds, SameScene, SameTags, SameFace
<1> HIDE DEF t
<1>10. Still(t)
  BY <1>3, <1>8, <1>9 DEF Safe, Still, TagsGood, OpeningHere, CurrentTag, Cleared, Presented,
                          Showing, Mapped, OnTag, SameScene, SameTags, SameFace
<1>11. Members(t) = Members(s) /\ HiddenViews(t) = HiddenViews(s)
  BY <1>9 DEF Members, HiddenViews, Mapped, OnTag, CurrentTag, PresentationHidden,
              HidesView, SameScene, SameTags
<1>12. Drawn(t) /\ Owned(t) /\ Tame(t)
  <2>1. Drawn(t)
    BY <1>3, <1>9, <1>11 DEF Safe, Drawn, Visible, SameFace
  <2>2. Owned(t)
    BY <1>3, <1>9 DEF Safe, Owned
  <2>3. Tame(t)
    BY <1>3, <1>7, <1>9 DEF Safe, Tame, SameScene
  <2> QED
    BY <2>1, <2>2, <2>3
<1>13. Watched(s) /\ Within(s) /\ t.tags.max_tags = s.tags.max_tags
  BY <1>3, <1>9 DEF Safe, SameTags
<1>14. Safe(t)
  BY <1>9, <1>10, <1>12, <1>13, SafeFrom
<1> QED
  BY <1>5, <1>14

LEMMA TickSafe ==
  ASSUME Safe(w), Tick
  PROVE  Safe(w')
<1> DEFINE tr == w.transition
<1>1. /\ w \in Worlds /\ Still(w) /\ Drawn(w) /\ Owned(w) /\ Tame(w) /\ Watched(w) /\ Within(w)
      /\ tr \in Transitions
  BY DEF Safe, Still, Worlds
<1>2. tr.active
  BY <1>1, NothingTyped DEF Tick, Still, Cleared, NoTransition
<1>3. Showing(w, tr)
  BY <1>1, <1>2 DEF Still, Presented
<1>4. PICK p \in FramePositions(tr) :
        w' = IF tr.animation = "spring" THEN ApplyPosition(w, p)
             ELSE [w EXCEPT !.transition.presented = p, !.transition.pair = FALSE]
  BY DEF Tick
<1>5. p \in Int
  BY <1>1 DEF FramePositions
<1>6. CASE tr.animation = "spring"
  <2> DEFINE t == ApplyPosition(w, p)
  <2>1. tr.gesture
    BY <1>3, <1>6 DEF Showing
  <2>2. /\ Still(t) /\ (Drawn(w) => Drawn(t))
        /\ SameScene(w, t) /\ SamePad(w, t) /\ SameTags(w, t)
        /\ t.transition.active /\ t.transition.ring = tr.ring
        /\ t.transition.animation = tr.animation
    BY <1>1, <1>2, <1>5, <2>1, ApplyPositionIs
  <2>3. w' = t
    BY <1>4, <1>6
  <2> HIDE DEF t
  <2>4. Owned(t) /\ Tame(t) /\ t.gesture = w.gesture /\ t.tags.max_tags = w.tags.max_tags
    BY <1>1, <1>2, <2>2 DEF Owned, Tame, SameScene, SamePad, SameTags
  <2>5. t.transition.ring \subseteq 1..w.tags.max_tags
    BY <1>1, <1>2, <2>2 DEF Within
  <2> QED
    BY <1>1, <2>2, <2>3, <2>4, <2>5, SafeFrom
<1>7. CASE tr.animation # "spring"
  <2> DEFINE no == FALSE
             tp == [tr EXCEPT !.presented = p]
             new == [tp EXCEPT !.pair = no]
             t == [w EXCEPT !.transition = new]
  <2>1. w' = t
    <3> DEFINE a == [w EXCEPT !.transition.presented = p]
    <3>1. w' = [a EXCEPT !.transition.pair = no]
      BY <1>4, <1>7
    <3>2. a = [w EXCEPT !.transition = tp] /\ a.transition = tp
      BY <1>1 DEF Worlds
    <3> HIDE DEF a, no, tp
    <3> QED
      BY <3>1, <3>2
  <2>2. no \in BOOLEAN
    OBVIOUS
  <2> HIDE DEF no, tr
  <2>3. new \in Transitions
    BY <1>1, <1>5, <2>2 DEF Transitions
  <2>4. /\ new.active = tr.active /\ new.outgoing = tr.outgoing /\ new.incoming = tr.incoming
        /\ new.gesture = tr.gesture /\ new.ring = tr.ring /\ new.cache = tr.cache
        /\ new.animation = tr.animation /\ new.to = tr.to
    BY <1>1 DEF Transitions
  <2> HIDE DEF new
  <2>5. Showing(w, new) /\ new.active
    BY <1>2, <1>3, <2>4 DEF Showing
  <2>6. /\ Still(t) /\ (Drawn(w) => Drawn(t))
        /\ SameScene(w, t) /\ SamePad(w, t) /\ SameTags(w, t)
        /\ t.transition = new
    BY <1>1, <1>2, <2>3, <2>4, <2>5, RetunedIs DEF tr
  <2> HIDE DEF t
  <2>7. Owned(t) /\ Tame(t) /\ t.gesture = w.gesture /\ t.tags.max_tags = w.tags.max_tags
    BY <1>1, <1>2, <2>4, <2>6 DEF Owned, Tame, SameScene, SamePad, SameTags, tr
  <2>8. t.transition.ring \subseteq 1..w.tags.max_tags
    BY <1>1, <1>2, <2>4, <2>6 DEF Within, tr
  <2> QED
    BY <1>1, <2>1, <2>6, <2>7, <2>8, SafeFrom
<1> QED
  BY <1>6, <1>7

LEMMA AnimationEndSafe ==
  ASSUME Safe(w), AnimationEnd
  PROVE  Safe(w')
<1> DEFINE t == TransitionDone(w)
<1>1. Still(w) /\ Drawn(w) /\ Visible(w) /\ Tame(w) /\ Watched(w) /\ Within(w)
  BY DEF Safe, Drawn
<1>2. w' = t
  BY DEF AnimationEnd
<1>3. /\ Still(t) /\ (Visible(w) => Drawn(t))
      /\ SameScene(w, t) /\ SamePad(w, t) /\ SameTags(w, t)
      /\ t.transition = NoTransition
  BY <1>1, TransitionDoneIs
<1> HIDE DEF t
<1>4. ~t.transition.active /\ t.gesture = w.gesture /\ t.tags.max_tags = w.tags.max_tags
  BY <1>3 DEF NoTransition, SamePad, SameTags
<1>5. Owned(t) /\ Tame(t)
  BY <1>1, <1>3, <1>4 DEF Owned, Tame, SameScene, SamePad
<1> QED
  BY <1>1, <1>2, <1>3, <1>4, <1>5, SafeFrom

-----------------------------------------------------------------------------
(* The commands                                                            *)

\* A command ends with the windows of the focused tag.
LEMMA RefreshSafe ==
  ASSUME NEW s, Watched(s), Within(s), NEW u, SameScene(s, u),
         u.tags.max_tags = s.tags.max_tags,
         u.gesture = NoGesture \/ u.gesture = s.gesture,
         u.transition.active => u.transition = s.transition
                                \/ u.transition.ring \subseteq 1..s.tags.max_tags,
         Still(u), Owned(u), Tame(u)
  PROVE  Safe(RefreshFocus(u))
<1> DEFINE t == RefreshFocus(u)
<1>1. /\ Still(t) /\ Drawn(t)
      /\ SameScene(u, t) /\ SamePad(u, t) /\ SameTags(u, t)
      /\ t.transition = u.transition
  BY RefreshFocusIs
<1> HIDE DEF t
<1>2. Owned(t) /\ Tame(t)
  BY <1>1 DEF Owned, Tame, SameScene, SamePad
<1>3. /\ SameScene(s, t) /\ t.tags.max_tags = s.tags.max_tags
      /\ t.gesture = NoGesture \/ t.gesture = s.gesture
  BY <1>1 DEF SameScene, SamePad, SameTags
<1>4. t.transition.active => t.transition = s.transition
                             \/ t.transition.ring \subseteq 1..s.tags.max_tags
  BY <1>1
<1> QED
  BY <1>1, <1>2, <1>3, <1>4, SafeFrom DEF t

LEMMA FocusTagSafe ==
  ASSUME Safe(w), NEW id \in 1..Limit, FocusTag(id)
  PROVE  Safe(w')
<1> DEFINE direction == IF id > w.tags.focused_id THEN Forward ELSE Backward
           tags == FocusId(w.tags, id)
           s == ChangeFocus(w, tags, direction)
<1>1. /\ Still(w) /\ Owned(w) /\ Tame(w) /\ Watched(w) /\ Within(w)
      /\ GoodTable(Limit, w.tags) /\ CandidateSound(w.tags)
  BY DEF Safe, Still, TagsGood
<1>2. w' = RefreshFocus(s)
  BY DEF FocusTag, Become
<1>3. direction \in Directions
  BY DEF Directions
<1>4. /\ GoodTable(Limit, tags) /\ CandidateSound(tags)
      /\ tags.table = w.tags.table /\ tags.max_tags = w.tags.max_tags
  BY <1>1, FocusIdIs
<1> HIDE DEF direction, tags
<1>5. /\ Still(s) /\ Owned(s) /\ SameScene(w, s) /\ s.tags = tags
      /\ s.gesture = NoGesture \/ s.gesture = w.gesture
      /\ s.transition.active => s.transition = w.transition
                                \/ s.transition.ring \subseteq 1..w.tags.max_tags
      /\ (Tame(w) => Tame(s))
  BY <1>1, <1>3, <1>4, ChangeFocusIs
<1> HIDE DEF s
<1> QED
  BY <1>1, <1>2, <1>4, <1>5, RefreshSafe

LEMMA StepTagSafe ==
  ASSUME Safe(w), NEW direction \in Directions, StepTag(direction)
  PROVE  Safe(w')
<1> DEFINE tags == Step(w.tags, direction)
           s == ChangeFocus(w, tags, direction)
<1>1. /\ Still(w) /\ Owned(w) /\ Tame(w) /\ Watched(w) /\ Within(w)
      /\ GoodTable(Limit, w.tags) /\ CandidateSound(w.tags)
  BY DEF Safe, Still, TagsGood
<1>2. w' = RefreshFocus(s)
  BY DEF StepTag, Become
<1>3. /\ GoodTable(Limit, tags) /\ CandidateSound(tags)
      /\ tags.table = w.tags.table /\ tags.max_tags = w.tags.max_tags
  BY <1>1, StepIs
<1> HIDE DEF tags
<1>4. /\ Still(s) /\ Owned(s) /\ SameScene(w, s) /\ s.tags = tags
      /\ s.gesture = NoGesture \/ s.gesture = w.gesture
      /\ s.transition.active => s.transition = w.transition
                                \/ s.transition.ring \subseteq 1..w.tags.max_tags
      /\ (Tame(w) => Tame(s))
  BY <1>1, <1>3, ChangeFocusIs
<1> HIDE DEF s
<1> QED
  BY <1>1, <1>2, <1>3, <1>4, RefreshSafe

LEMMA FocusLastTagSafe ==
  ASSUME Safe(w), Surprises = {}, FocusLastTag
  PROVE  Safe(w')
<1> DEFINE source == w.tags.focused_id
           destination == w.tags.previous_id
           direction == IF w.direction # 0 THEN -w.direction
                        ELSE IF destination > source THEN Forward ELSE Backward
           no == FALSE
           q == Prepared(w)
           tags == FocusLast(w.tags)
           prepared == Prepare(w, source, tags.focused_id, direction, no)
           s == Commit([q EXCEPT !.tags = tags, !.direction = direction], prepared, direction)
<1>1. /\ Still(w) /\ Tame(w) /\ Watched(w) /\ Within(w)
      /\ GoodTable(Limit, w.tags) /\ w.direction \in Directions \cup {0}
  BY DEF Safe, Still, TagsGood, Worlds
<1>2. ~w.gesture.engaged /\ FocusLast(w.tags).focused_id # w.tags.focused_id
  BY DEF FocusLastTag
<1>3. direction \in Directions
  BY <1>1 DEF Directions, Forward, Backward
<1>4. q.tags = w.tags
  BY <1>1, <1>2, PreparedIs DEF SameTags
<1>5. /\ tags = [w.tags EXCEPT !.focused_id = w.tags.previous_id,
                   !.focused_is_candidate = PreviousIsCandidate(w.tags),
                   !.previous_id = w.tags.focused_id,
                   !.previous_is_candidate = w.tags.focused_is_candidate]
      /\ GoodTable(Limit, tags) /\ CandidateSound(tags)
      /\ tags.table = w.tags.table /\ tags.max_tags = w.tags.max_tags
      /\ tags.focused_id = destination
  BY <1>1, <1>2, FocusLastIs
<1>6. w' = RefreshFocus(s)
  <2> DEFINE moved == [q.tags EXCEPT !.focused_id = q.tags.previous_id,
                         !.focused_is_candidate = PreviousIsCandidate(w.tags),
                         !.previous_id = q.tags.focused_id,
                         !.previous_is_candidate = q.tags.focused_is_candidate]
             first == Prepare(w, source, destination, direction, no)
  <2>1. w' = RefreshFocus(Commit([q EXCEPT !.tags = moved, !.direction = direction],
                                 first, direction))
    BY DEF FocusLastTag, Become
  <2>2. moved = tags
    <3> HIDE DEF tags, q
    <3> QED
      BY <1>4, <1>5
  <2>3. first = prepared
    BY <1>5
  <2> HIDE DEF moved, first, tags, prepared
  <2> QED
    BY <2>1, <2>2, <2>3
<1> HIDE DEF direction, tags, no, q
<1>7. /\ Still(s) /\ Owned(s) /\ SameScene(w, s) /\ s.tags = tags
      /\ s.gesture = NoGesture \/ s.gesture = w.gesture
      /\ s.transition.active => s.transition.ring \subseteq 1..w.tags.max_tags
      /\ (Tame(w) => Tame(s))
  <2> DEFINE first == Prepare(w, w.tags.focused_id, tags.focused_id, direction, no)
             c == Commit([Prepared(w) EXCEPT !.tags = tags, !.direction = direction],
                         first, direction)
  <2>1. /\ Still(w) /\ ~w.gesture.engaged /\ GoodTable(Limit, tags) /\ CandidateSound(tags)
        /\ tags.focused_id # w.tags.focused_id /\ direction \in Directions
    BY <1>1, <1>2, <1>3, <1>5, SMTT(60) DEF tags
  <2>2. /\ Still(c) /\ Owned(c) /\ SameScene(w, c) /\ c.tags = tags
        /\ c.gesture = NoGesture \/ c.gesture = w.gesture
        /\ c.transition.active => c.transition.ring \subseteq 1..w.tags.max_tags
        /\ (Tame(w) => Tame(c))
    BY <2>1, SwitchIs
  <2>3. s = c
    BY DEF q
  <2> HIDE DEF s, c
  <2> QED
    BY <2>2, <2>3
<1> HIDE DEF s
<1> QED
  BY <1>1, <1>5, <1>6, <1>7, RefreshSafe

LEMMA RefreshedSafe ==
  ASSUME NEW u, Still(u), Owned(u), Tame(u), Watched(u), Within(u)
  PROVE  Safe(RefreshFocus(u))
<1>1. SameScene(u, u)
  BY DEF SameScene
<1> QED
  BY <1>1, RefreshSafe

\* The screen, the session and the fullscreen windows do not matter to most.
LEMMA FlagsIs ==
  ASSUME NEW s, Safe(s), NEW t \in Worlds, SamePad(s, t), SameTags(s, t), SameFace(s, t),
         t.tag = s.tag, t.opening = s.opening, t.transition = s.transition,
         t.version = s.version
  PROVE  Still(t) /\ Drawn(t) /\ Owned(t) /\ Tame(t) /\ Within(t)
<1>1. Still(s) /\ Drawn(s) /\ Owned(s) /\ Tame(s) /\ Within(s)
  BY DEF Safe
<1>2. Still(t)
  BY <1>1 DEF Still, TagsGood, OpeningHere, CurrentTag, Cleared, Presented, Showing, Mapped,
              OnTag, SamePad, SameTags, SameFace
<1>3. Members(t) = Members(s) /\ HiddenViews(t) = HiddenViews(s)
  BY DEF Members, HiddenViews, Mapped, OnTag, CurrentTag, PresentationHidden, HidesView, SameTags
<1>4. Drawn(t)
  BY <1>1, <1>3 DEF Drawn, Visible, SameFace
<1>5. Owned(t) /\ Tame(t) /\ Within(t)
  BY <1>1 DEF Owned, Tame, Within, SamePad, SameTags
<1> QED
  BY <1>2, <1>4, <1>5

\* What takes the screen away ends the swipe and every animation.
LEMMA TakenAwaySafe ==
  ASSUME NEW u, Still(u), Drawn(u), Owned(u), Tame(u), u.here => u.power_on
  PROVE  Safe(FinishAll(GestureCancel(u)))
<1> DEFINE c == GestureCancel(u)
           t == FinishAll(c)
<1>1. /\ Still(c) /\ Drawn(c) /\ c.gesture = NoGesture
      /\ SameScene(u, c) /\ Tame(c) /\ Owned(c)
  BY GestureCancelIs
<1> HIDE DEF c
<1>2. Visible(c)
  BY <1>1 DEF Drawn
<1>3. /\ Still(t) /\ Drawn(t) /\ SameScene(c, t) /\ SamePad(c, t)
      /\ t.transition = (IF c.transition.animation # "none" THEN NoTransition ELSE c.transition)
  BY <1>1, <1>2, FinishAllIs
<1> HIDE DEF t
<1>4. ~NoGesture.active /\ NoGesture.displacement = 0 /\ ~NoTransition.active
  BY DEF NoGesture, NoTransition
<1>5. ~t.transition.active
  BY <1>1, <1>3, <1>4 DEF Owned
<1>6. t.gesture = NoGesture
  BY <1>1, <1>3 DEF SamePad
<1>7. Reach \in Nat
  BY SituationsAre DEF Reach
<1>8. Owned(t) /\ Tame(t) /\ Within(t)
  <2>1. Owned(t)
    BY <1>5 DEF Owned
  <2>2. Tame(t)
    BY <1>1, <1>3 DEF Tame, SameScene, SamePad
  <2>3. Within(t)
    BY <1>4, <1>5, <1>6 DEF Within
  <2> QED
    BY <2>1, <2>2, <2>3
<1>9. Watched(t)
  <2>1. t.here => t.power_on
    BY <1>1, <1>3 DEF SameScene
  <2>2. ~t.gesture.active /\ t.gesture.displacement = 0
    BY <1>4, <1>6
  <2>3. 0 \in -Reach..Reach
    BY <1>7
  <2> QED
    BY <2>1, <2>2, <2>3 DEF Watched
<1> QED
  BY <1>3, <1>8, <1>9 DEF Safe, t, c

LEMMA LockSafe ==
  ASSUME Safe(w), Lock
  PROVE  Safe(w')
<1> DEFINE yes == TRUE
           u == [w EXCEPT !.locked = yes]
<1>1. w' = FinishAll(GestureCancel(u))
  BY DEF Lock, Become
<1>2. w \in Worlds /\ yes \in BOOLEAN /\ Watched(w)
  BY DEF Safe, Still
<1> HIDE DEF yes
<1>3. u \in Worlds
  BY <1>2 DEF Worlds
<1>4. /\ SamePad(w, u) /\ SameTags(w, u) /\ SameFace(w, u)
      /\ u.tag = w.tag /\ u.opening = w.opening /\ u.transition = w.transition
      /\ u.version = w.version /\ u.here = w.here /\ u.power_on = w.power_on
  BY <1>2 DEF Worlds, SamePad, SameTags, SameFace
<1> HIDE DEF u
<1>5. Still(u) /\ Drawn(u) /\ Owned(u) /\ Tame(u)
  BY <1>3, <1>4, FlagsIs
<1>6. u.here => u.power_on
  BY <1>2, <1>4 DEF Watched
<1> QED
  BY <1>1, <1>5, <1>6, TakenAwaySafe

LEMMA UnlockSafe ==
  ASSUME Safe(w), Unlock
  PROVE  Safe(w')
<1> DEFINE no == FALSE
           u == [w EXCEPT !.locked = no]
<1>1. w' = RefreshFocus(u)
  BY DEF Unlock, Become
<1>2. w \in Worlds /\ no \in BOOLEAN /\ Watched(w) /\ w.locked
  BY DEF Safe, Still, Unlock
<1> HIDE DEF no
<1>3. u \in Worlds
  BY <1>2 DEF Worlds
<1>4. /\ SamePad(w, u) /\ SameTags(w, u) /\ SameFace(w, u)
      /\ u.tag = w.tag /\ u.opening = w.opening /\ u.transition = w.transition
      /\ u.version = w.version /\ u.here = w.here /\ u.power_on = w.power_on
  BY <1>2 DEF Worlds, SamePad, SameTags, SameFace
<1> HIDE DEF u
<1>5. Still(u) /\ Owned(u) /\ Tame(u) /\ Within(u)
  BY <1>3, <1>4, FlagsIs
<1>6. Watched(u)
  BY <1>2, <1>4 DEF Watched, SamePad
<1> QED
  BY <1>1, <1>5, <1>6, RefreshedSafe

LEMMA LeaveSessionSafe ==
  ASSUME Safe(w), LeaveSession
  PROVE  Safe(w')
<1> DEFINE no == FALSE
           u == [w EXCEPT !.session_active = no]
<1>1. w' = FinishAll(GestureCancel(u))
  BY DEF LeaveSession, Become
<1>2. w \in Worlds /\ no \in BOOLEAN /\ Watched(w)
  BY DEF Safe, Still
<1> HIDE DEF no
<1>3. u \in Worlds
  BY <1>2 DEF Worlds
<1>4. /\ SamePad(w, u) /\ SameTags(w, u) /\ SameFace(w, u)
      /\ u.tag = w.tag /\ u.opening = w.opening /\ u.transition = w.transition
      /\ u.version = w.version /\ u.here = w.here /\ u.power_on = w.power_on
  BY <1>2 DEF Worlds, SamePad, SameTags, SameFace
<1> HIDE DEF u
<1>5. Still(u) /\ Drawn(u) /\ Owned(u) /\ Tame(u)
  BY <1>3, <1>4, FlagsIs
<1>6. u.here => u.power_on
  BY <1>2, <1>4 DEF Watched
<1> QED
  BY <1>1, <1>5, <1>6, TakenAwaySafe

LEMMA EnterSessionSafe ==
  ASSUME Safe(w), EnterSession
  PROVE  Safe(w')
<1> DEFINE yes == TRUE
           u == [w EXCEPT !.session_active = yes]
<1>1. w' = u
  BY DEF EnterSession, Become
<1>2. w \in Worlds /\ yes \in BOOLEAN /\ Watched(w) /\ ~w.session_active
  BY DEF Safe, Still, EnterSession
<1> HIDE DEF yes
<1>3. u \in Worlds
  BY <1>2 DEF Worlds
<1>4. /\ SamePad(w, u) /\ SameTags(w, u) /\ SameFace(w, u)
      /\ u.tag = w.tag /\ u.opening = w.opening /\ u.transition = w.transition
      /\ u.version = w.version /\ u.here = w.here /\ u.power_on = w.power_on
  BY <1>2 DEF Worlds, SamePad, SameTags, SameFace
<1> HIDE DEF u
<1>5. Still(u) /\ Drawn(u) /\ Owned(u) /\ Tame(u) /\ Within(u)
  BY <1>3, <1>4, FlagsIs
<1>6. Watched(u)
  BY <1>2, <1>4 DEF Watched, SamePad
<1> QED
  BY <1>1, <1>5, <1>6 DEF Safe

LEMMA FocusOutputSafe ==
  ASSUME Safe(w), FocusOutput
  PROVE  Safe(w')
<1> DEFINE here == ~w.here
           u == [w EXCEPT !.here = here]
<1>1. w' = u
  BY DEF FocusOutput, Become
<1>2. w \in Worlds /\ here \in BOOLEAN /\ Watched(w) /\ w.power_on
  BY DEF Safe, Still, FocusOutput
<1> HIDE DEF here
<1>3. u \in Worlds
  BY <1>2 DEF Worlds
<1>4. /\ SamePad(w, u) /\ SameTags(w, u) /\ SameFace(w, u)
      /\ u.tag = w.tag /\ u.opening = w.opening /\ u.transition = w.transition
      /\ u.version = w.version /\ u.locked = w.locked /\ u.power_on = w.power_on
      /\ u.session_active = w.session_active
  BY <1>2 DEF Worlds, SamePad, SameTags, SameFace
<1> HIDE DEF u
<1>5. Still(u) /\ Drawn(u) /\ Owned(u) /\ Tame(u) /\ Within(u)
  BY <1>3, <1>4, FlagsIs
<1>6. Watched(u)
  BY <1>2, <1>4 DEF Watched, SamePad
<1> QED
  BY <1>1, <1>5, <1>6 DEF Safe

LEMMA FinishedSafe ==
  ASSUME Safe(w)
  PROVE  LET t == AnimationsFinish(w)
         IN Safe(t) /\ t.gesture = NoGesture /\ t.transition = NoTransition
<1> DEFINE t == AnimationsFinish(w)
<1>1. Still(w) /\ Visible(w) /\ Tame(w) /\ Watched(w) /\ Within(w)
  BY DEF Safe, Drawn
<1>2. /\ Still(t) /\ (Visible(w) => Drawn(t)) /\ SameScene(w, t)
      /\ t.gesture = NoGesture /\ t.transition = NoTransition
      /\ t.tags.max_tags = w.tags.max_tags /\ (Tame(w) => Tame(t))
  BY <1>1, AnimationsFinishIs
<1> HIDE DEF t
<1>3. ~NoTransition.active
  BY DEF NoTransition
<1>4. Owned(t)
  BY <1>2, <1>3 DEF Owned
<1>5. Safe(t)
  BY <1>1, <1>2, <1>3, <1>4, SafeFrom
<1> QED
  BY <1>2, <1>5 DEF t

LEMMA SwitchPowerSafe ==
  ASSUME Safe(w), SwitchPower
  PROVE  Safe(w')
<1> DEFINE yes == TRUE
           no == FALSE
           s == AnimationsFinish(w)
           off == [s EXCEPT !.power_on = no, !.here = no]
           on == [w EXCEPT !.power_on = yes]
<1>1. w' = IF w.power_on THEN off ELSE on
  BY DEF SwitchPower, Become
<1>2. w \in Worlds /\ yes \in BOOLEAN /\ no \in BOOLEAN /\ Watched(w) /\ ~no /\ yes
  BY DEF Safe, Still
<1> HIDE DEF yes, no
<1>3. Safe(s) /\ s.gesture = NoGesture
  BY FinishedSafe
<1> HIDE DEF s
<1>4. s \in Worlds /\ Watched(s)
  BY <1>3 DEF Safe, Still
<1>5. off \in Worlds /\ on \in Worlds
  BY <1>2, <1>4, ZenonT(90) DEF Worlds
<1>6. /\ SamePad(s, off) /\ SameTags(s, off) /\ SameFace(s, off)
      /\ off.tag = s.tag /\ off.opening = s.opening /\ off.transition = s.transition
      /\ off.version = s.version /\ off.here = no
  BY <1>4 DEF Worlds, SamePad, SameTags, SameFace
<1>7. /\ SamePad(w, on) /\ SameTags(w, on) /\ SameFace(w, on)
      /\ on.tag = w.tag /\ on.opening = w.opening /\ on.transition = w.transition
      /\ on.version = w.version /\ on.power_on = yes /\ on.locked = w.locked
      /\ on.session_active = w.session_active
  BY <1>2 DEF Worlds, SamePad, SameTags, SameFace
<1> HIDE DEF off, on
<1>8. Still(off) /\ Drawn(off) /\ Owned(off) /\ Tame(off) /\ Within(off)
  BY <1>3, <1>5, <1>6, FlagsIs
<1>9. Still(on) /\ Drawn(on) /\ Owned(on) /\ Tame(on) /\ Within(on)
  BY <1>5, <1>7, FlagsIs
<1>10. Watched(off)
  BY <1>2, <1>3, <1>4, <1>6 DEF Watched, SamePad, NoGesture
<1>11. Watched(on)
  BY <1>2, <1>7 DEF Watched, SamePad
<1> QED
  BY <1>1, <1>8, <1>9, <1>10, <1>11 DEF Safe

LEMMA SetFullscreenSafe ==
  ASSUME Safe(w), NEW v \in Views, SetFullscreen(v)
  PROVE  Safe(w')
<1> DEFINE s == AnimationsFinish(w)
           full == IF v \in s.fullscreen THEN s.fullscreen \ {v} ELSE s.fullscreen \cup {v}
           u == [s EXCEPT !.fullscreen = full]
<1>1. w' = RefreshFocus(u) /\ v \in Fullscreens
  BY DEF SetFullscreen, Become
<1>2. Safe(s)
  BY FinishedSafe
<1> HIDE DEF s
<1>3. s \in Worlds /\ Watched(s)
  BY <1>2 DEF Safe, Still
<1>4. full \in SUBSET Fullscreens
  BY <1>1, <1>3 DEF Worlds
<1> HIDE DEF full
<1>5. u \in Worlds
  BY <1>3, <1>4 DEF Worlds
<1>6. /\ SamePad(s, u) /\ SameTags(s, u) /\ SameFace(s, u)
      /\ u.tag = s.tag /\ u.opening = s.opening /\ u.transition = s.transition
      /\ u.version = s.version /\ u.here = s.here /\ u.power_on = s.power_on
      /\ u.locked = s.locked /\ u.session_active = s.session_active
  BY <1>3 DEF Worlds, SamePad, SameTags, SameFace
<1> HIDE DEF u
<1>7. Still(u) /\ Owned(u) /\ Tame(u) /\ Within(u)
  BY <1>2, <1>5, <1>6, FlagsIs
<1>8. Watched(u)
  BY <1>3, <1>6 DEF Watched, SamePad
<1> QED
  BY <1>1, <1>7, <1>8, RefreshedSafe

-----------------------------------------------------------------------------
(* Windows that come and go                                                *)

LEMMA OccupyIs ==
  ASSUME NEW t, GoodTable(Limit, t), CandidateSound(t)
  PROVE  LET r == Occupy(t, t.focused_id)
         IN /\ GoodTable(Limit, r) /\ CandidateSound(r) /\ r.max_tags = t.max_tags
            /\ r.focused_id = t.focused_id /\ ~r.focused_is_candidate
<1> DEFINE r == Occupy(t, t.focused_id)
           no == FALSE
           more == t.table \cup {t.focused_id}
<1>1. t.focused_id \in 1..t.max_tags /\ t \in TagsType(Limit)
  BY DEF GoodTable, TableSound
<1>2. GoodTable(Limit, r) /\ r.table = more /\ r.max_tags = t.max_tags
  BY <1>1, OccupyGood, LimitIs
<1>3. r = [[t EXCEPT !.table = more] EXCEPT !.focused_is_candidate = no]
  BY <1>1 DEF Occupy, Materialize, TagsType
<1>4. ~no
  OBVIOUS
<1> HIDE DEF no, more
<1>5. r.focused_id = t.focused_id /\ r.focused_is_candidate = no
  BY <1>1, <1>3 DEF TagsType
<1> HIDE DEF r
<1>6. CandidateSound(r)
  BY <1>2, <1>4, <1>5 DEF CandidateSound, more
<1> QED
  BY <1>2, <1>4, <1>5, <1>6 DEF r

LEMMA MaterializeIs ==
  ASSUME NEW t, GoodTable(Limit, t), CandidateSound(t), NEW id \in 1..t.max_tags,
         id # t.focused_id
  PROVE  LET r == Materialize(t, id)
         IN /\ GoodTable(Limit, r) /\ CandidateSound(r) /\ r.max_tags = t.max_tags
            /\ r.focused_id = t.focused_id
            /\ r.focused_is_candidate = t.focused_is_candidate
<1> DEFINE r == Materialize(t, id)
           more == t.table \cup {id}
<1>1. GoodTable(Limit, r) /\ r.table = more /\ r.max_tags = t.max_tags
  BY MaterializeGood, LimitIs
<1>2. r = [t EXCEPT !.table = more] /\ t \in TagsType(Limit)
  BY DEF Materialize, GoodTable
<1> HIDE DEF more
<1>3. r.focused_id = t.focused_id /\ r.focused_is_candidate = t.focused_is_candidate
  BY <1>2 DEF TagsType
<1> HIDE DEF r
<1>4. CandidateSound(r)
  BY <1>1, <1>3 DEF CandidateSound, more
<1> QED
  BY <1>1, <1>3, <1>4 DEF r

LEMMA PruneIs ==
  ASSUME NEW t, GoodTable(Limit, t), CandidateSound(t), NEW id \in 1..Limit,
         NEW empty \in BOOLEAN
  PROVE  LET r == PruneEmpty(t, id, empty)
         IN /\ GoodTable(Limit, r) /\ CandidateSound(r) /\ r.max_tags = t.max_tags
            /\ r.focused_id = t.focused_id
            /\ ~(empty /\ id = t.focused_id) =>
                 (r.focused_is_candidate <=> t.focused_is_candidate)
<1> DEFINE r == PruneEmpty(t, id, empty)
<1>1. GoodTable(Limit, r) /\ r.max_tags = t.max_tags
  BY PruneGood, LimitIs
<1>2. CASE id <= t.initial_tags \/ ~empty
  <2>1. r = t
    BY <1>2 DEF PruneEmpty
  <2> QED
    BY <1>1, <2>1
<1>3. CASE ~(id <= t.initial_tags \/ ~empty)
  <2> DEFINE focused == t.focused_is_candidate \/ t.focused_id = id
             previous == \/ t.previous_is_candidate
                         \/ t.previous_valid /\ t.previous_id = id
             less == t.table \ {id}
  <2>1. r = [t EXCEPT !.focused_is_candidate = focused,
                      !.previous_is_candidate = previous, !.table = less]
    BY <1>3 DEF PruneEmpty
  <2>2. t \in TagsType(Limit)
    BY DEF GoodTable
  <2> HIDE DEF focused, previous, less
  <2>3. r.focused_id = t.focused_id /\ r.focused_is_candidate = focused /\ r.table = less
    BY <2>1, <2>2 DEF TagsType
  <2>4. focused <=> t.focused_is_candidate \/ t.focused_id = id
    BY DEF focused
  <2>5. t.focused_id \in less <=> t.focused_id \in t.table /\ t.focused_id # id
    BY DEF less
  <2> HIDE DEF r
  <2>6. r.focused_is_candidate <=> r.focused_id \notin r.table
    BY <2>3, <2>4, <2>5 DEF CandidateSound
  <2>7. ~(empty /\ id = t.focused_id) =>
          (r.focused_is_candidate <=> t.focused_is_candidate)
    BY <1>3, <2>3, <2>4
  <2> QED
    BY <1>1, <2>3, <2>6, <2>7 DEF CandidateSound, r
<1> QED
  BY <1>2, <1>3

\* Synchronising the one window that changed leaves all of them as they should be.
LEMMA SyncOneIs ==
  ASSUME NEW s \in Worlds, s.masked = HiddenViews(s), NEW v \in Views, s.tag[v] # 0,
         NEW u \in Worlds, u.masked = s.masked, u.tag = s.tag, u.tags = s.tags,
         u.transition = s.transition,
         \A x \in Views : x # v => u.opening[x] = s.opening[x]
  PROVE  LET t == SyncPresentation(u, {v})
         IN /\ t \in Worlds /\ t.masked = HiddenViews(t)
            /\ SameScene(u, t) /\ SamePad(u, t) /\ SameTags(u, t)
            /\ t.enabled = u.enabled /\ t.opening = u.opening
            /\ t.transition = u.transition
<1> DEFINE masked == (u.masked \ {v}) \cup {x \in {v} : PresentationHidden(u, x)}
           t == SyncPresentation(u, {v})
<1>1. t = [u EXCEPT !.masked = masked]
  BY DEF SyncPresentation
<1>2. masked = HiddenViews(u)
  <2>1. Mapped(u) = Mapped(s) /\ v \in Mapped(s)
    BY DEF Mapped, OnTag
  <2>2. \A x \in Views : x # v => (PresentationHidden(u, x) <=> PresentationHidden(s, x))
    BY DEF PresentationHidden, HidesView
  <2> QED
    BY <2>1, <2>2 DEF HiddenViews, Mapped
<1>3. masked \in SUBSET Views
  BY <1>2 DEF HiddenViews, Mapped
<1> HIDE DEF masked
<1>4. t \in Worlds
  BY <1>1, <1>3, ZenonT(90) DEF Worlds
<1>5. /\ SameScene(u, t) /\ SamePad(u, t) /\ SameTags(u, t)
      /\ t.enabled = u.enabled /\ t.opening = u.opening
      /\ t.transition = u.transition /\ t.masked = masked
  BY <1>1 DEF Worlds, SameScene, SamePad, SameTags
<1> HIDE DEF t
<1>6. HiddenViews(t) = HiddenViews(u)
  BY <1>5 DEF HiddenViews, Mapped, OnTag, PresentationHidden, HidesView, SameScene, SameTags
<1> QED
  BY <1>2, <1>4, <1>5, <1>6 DEF t

\* An opening animation begins, goes on or ends.
LEMMA OpeningSafe ==
  ASSUME NEW s, Safe(s), NEW v \in Views,
         NEW t \in Worlds, SameScene(s, t), SamePad(s, t), SameTags(s, t),
         t.transition = s.transition,
         \A x \in Views : x # v => t.opening[x] = s.opening[x],
         \/ t.opening[v] = "no"
         \/ /\ s.tag[v] # 0 /\ s.tag[v] = CurrentTag(s)
            /\ ~s.transition.active /\ ~s.gesture.engaged,
         t.masked = HiddenViews(t), t.enabled \subseteq Members(s)
  PROVE  Safe(t)
<1>1. Still(s) /\ Owned(s) /\ Tame(s) /\ Watched(s) /\ Within(s)
  BY DEF Safe
<1>2. CurrentTag(t) = CurrentTag(s)
  BY DEF CurrentTag, SameTags
<1>3. OpeningHere(t)
  BY <1>1, <1>2 DEF Still, OpeningHere, SameScene, SamePad
<1>4. TagsGood(t) /\ t.masked \subseteq Mapped(t) /\ t.tags.focused_id = s.tags.focused_id
  BY <1>1 DEF Still, TagsGood, HiddenViews, SameTags
<1>5. Still(t)
  BY <1>1, <1>3, <1>4, StillKept
<1>6. Members(t) = Members(s)
  BY <1>2 DEF Members, OnTag, SameScene
<1>7. Drawn(t)
  BY <1>6 DEF Drawn, Visible
<1>8. Owned(t) /\ Tame(t) /\ t.gesture = s.gesture /\ t.tags.max_tags = s.tags.max_tags
  BY <1>1 DEF Owned, Tame, SameScene, SamePad, SameTags
<1> QED
  BY <1>1, <1>5, <1>7, <1>8, SafeFrom

LEMMA OpenEndsSafe ==
  ASSUME Safe(w), NEW v \in Views, OpenEnds(v)
  PROVE  Safe(w')
<1> DEFINE stop == "no"
           opening == [w.opening EXCEPT ![v] = stop]
           enabled == w.enabled \cup {v}
           u == [w EXCEPT !.opening = opening, !.enabled = enabled]
           t == SyncPresentation(u, {v})
<1>1. w \in Worlds /\ Still(w) /\ Drawn(w)
  BY DEF Safe, Still
<1>2. w' = t
  <2>1. w' = SyncPresentation([w EXCEPT !.opening[v] = stop, !.enabled = enabled], {v})
    BY DEF OpenEnds
  <2>2. [w EXCEPT !.opening[v] = stop, !.enabled = enabled] = u
    <3> HIDE DEF stop, enabled
    <3> QED
      BY <1>1 DEF Worlds
  <2> HIDE DEF u
  <2> QED
    BY <2>1, <2>2
<1>3. /\ w.tag[v] # 0 /\ w.tag[v] = CurrentTag(w)
      /\ ~w.transition.active /\ ~w.gesture.engaged
  BY <1>1 DEF OpenEnds, Still, OpeningHere
<1>4. opening \in [Views -> {"no", "pending", "fading"}] /\ opening[v] = "no"
      /\ \A x \in Views : x # v => opening[x] = w.opening[x]
  BY <1>1 DEF Worlds
<1>5. enabled \subseteq Members(w) /\ enabled \in SUBSET Views
  BY <1>1, <1>3 DEF Drawn, Visible, Members, OnTag, Worlds
<1> HIDE DEF opening, enabled
<1>6. u \in Worlds
  BY <1>1, <1>4, <1>5 DEF Worlds
<1>7. /\ SameScene(w, u) /\ SamePad(w, u) /\ SameTags(w, u)
      /\ u.enabled = enabled /\ u.opening = opening /\ u.masked = w.masked
      /\ u.transition = w.transition
  BY <1>1 DEF Worlds, SameScene, SamePad, SameTags
<1> HIDE DEF u
<1>8. u.tag = w.tag /\ u.tags = w.tags /\ w.masked = HiddenViews(w)
      /\ \A x \in Views : x # v => u.opening[x] = w.opening[x]
  BY <1>1, <1>4, <1>7 DEF SameScene, SameTags, Drawn
<1>9. /\ t \in Worlds /\ t.masked = HiddenViews(t)
      /\ SameScene(u, t) /\ SamePad(u, t) /\ SameTags(u, t)
      /\ t.enabled = u.enabled /\ t.opening = u.opening
      /\ t.transition = u.transition
  BY <1>1, <1>3, <1>6, <1>7, <1>8, SyncOneIs
<1> HIDE DEF t
<1>10. /\ SameScene(w, t) /\ SamePad(w, t) /\ SameTags(w, t)
       /\ t.transition = w.transition /\ t.opening = opening /\ t.enabled = enabled
  BY <1>7, <1>9 DEF SameScene, SamePad, SameTags
<1> QED
  BY <1>2, <1>4, <1>5, <1>9, <1>10, OpeningSafe

LEMMA OpenReadySafe ==
  ASSUME Safe(w), NEW v \in Views, OpenReady(v)
  PROVE  Safe(w')
<1> DEFINE stop == "no"
           fading == "fading"
           opening == [w.opening EXCEPT ![v] = stop]
           u == [w EXCEPT !.opening = opening]
           s == SyncPresentation(u, {v})
           later == [s.opening EXCEPT ![v] = fading]
           less == s.enabled \ {v}
           more == s.enabled \cup {v}
           fades == [s EXCEPT !.opening = later, !.enabled = less]
           shows == [s EXCEPT !.enabled = more]
<1>1. w \in Worlds /\ Still(w) /\ Drawn(w)
  BY DEF Safe, Still
<1>3. /\ w.tag[v] # 0 /\ w.tag[v] = CurrentTag(w)
      /\ ~w.transition.active /\ ~w.gesture.engaged
  BY <1>1 DEF OpenReady, Still, OpeningHere
<1>4. opening \in [Views -> {"no", "pending", "fading"}] /\ opening[v] = "no"
      /\ \A x \in Views : x # v => opening[x] = w.opening[x]
  BY <1>1 DEF Worlds
<1>2. w' = fades \/ w' = shows
  <2> DEFINE r == SyncPresentation([w EXCEPT !.opening[v] = stop], {v})
  <2>1. \/ w' = [r EXCEPT !.opening[v] = fading, !.enabled = r.enabled \ {v}]
        \/ w' = [r EXCEPT !.enabled = r.enabled \cup {v}]
    BY DEF OpenReady
  <2>2. [w EXCEPT !.opening[v] = stop] = u
    BY <1>1 DEF Worlds
  <2>3. r = s
    <3> HIDE DEF u
    <3> QED
      BY <2>2
  <2> HIDE DEF r, s, fading
  <2> QED
    BY <2>1, <2>3
<1> HIDE DEF opening
<1>6. u \in Worlds
  BY <1>1, <1>4 DEF Worlds
<1>7. /\ SameScene(w, u) /\ SamePad(w, u) /\ SameTags(w, u)
      /\ u.enabled = w.enabled /\ u.opening = opening /\ u.masked = w.masked
      /\ u.transition = w.transition
  BY <1>1 DEF Worlds, SameScene, SamePad, SameTags
<1> HIDE DEF u
<1>8. u.tag = w.tag /\ u.tags = w.tags /\ w.masked = HiddenViews(w)
      /\ \A x \in Views : x # v => u.opening[x] = w.opening[x]
  BY <1>1, <1>4, <1>7 DEF SameScene, SameTags, Drawn
<1>9. /\ s \in Worlds /\ s.masked = HiddenViews(s)
      /\ SameScene(u, s) /\ SamePad(u, s) /\ SameTags(u, s)
      /\ s.enabled = u.enabled /\ s.opening = u.opening
      /\ s.transition = u.transition
  BY <1>1, <1>3, <1>6, <1>7, <1>8, SyncOneIs
<1> HIDE DEF s
<1>10. /\ SameScene(w, s) /\ SamePad(w, s) /\ SameTags(w, s)
       /\ s.transition = w.transition /\ s.opening = opening /\ s.enabled = w.enabled
  BY <1>7, <1>9 DEF SameScene, SamePad, SameTags
<1>11. /\ less \subseteq Members(w) /\ more \subseteq Members(w)
       /\ less \in SUBSET Views /\ more \in SUBSET Views
  BY <1>1, <1>3, <1>10 DEF Drawn, Visible, Members, OnTag, Worlds
<1>12. /\ later \in [Views -> {"no", "pending", "fading"}] /\ later[v] # "pending"
       /\ \A x \in Views : x # v => later[x] = w.opening[x]
  BY <1>4, <1>10
<1> HIDE DEF less, more, later
<1>13. Safe(fades)
  <2>1. fades \in Worlds
    BY <1>9, <1>11, <1>12 DEF Worlds
  <2>2. /\ SameScene(s, fades) /\ SamePad(s, fades) /\ SameTags(s, fades)
        /\ fades.transition = s.transition /\ fades.opening = later
        /\ fades.enabled = less /\ fades.masked = s.masked
    BY <1>9 DEF Worlds, SameScene, SamePad, SameTags
  <2> HIDE DEF fades
  <2>3. /\ SameScene(w, fades) /\ SamePad(w, fades) /\ SameTags(w, fades)
        /\ fades.transition = w.transition
    BY <1>10, <2>2 DEF SameScene, SamePad, SameTags
  <2>4. HiddenViews(fades) = HiddenViews(s)
    <3>1. \A x \in Views : fades.opening[x] = "pending" <=> s.opening[x] = "pending"
      BY <1>4, <1>10, <1>12, <2>2
    <3> QED
      BY <2>2, <3>1 DEF HiddenViews, Mapped, OnTag, PresentationHidden, HidesView,
                        SameScene, SameTags
  <2>5. fades.masked = HiddenViews(fades) /\ fades.enabled \subseteq Members(w)
        /\ \A x \in Views : x # v => fades.opening[x] = w.opening[x]
    BY <1>9, <1>11, <1>12, <2>2, <2>4
  <2> QED
    BY <1>3, <2>1, <2>3, <2>5, OpeningSafe
<1>14. Safe(shows)
  <2>1. shows \in Worlds
    BY <1>9, <1>11 DEF Worlds
  <2>2. /\ SameScene(s, shows) /\ SamePad(s, shows) /\ SameTags(s, shows)
        /\ shows.transition = s.transition /\ shows.opening = s.opening
        /\ shows.enabled = more /\ shows.masked = s.masked
    BY <1>9 DEF Worlds, SameScene, SamePad, SameTags
  <2> HIDE DEF shows
  <2>3. /\ SameScene(w, shows) /\ SamePad(w, shows) /\ SameTags(w, shows)
        /\ shows.transition = w.transition
    BY <1>10, <2>2 DEF SameScene, SamePad, SameTags
  <2>4. HiddenViews(shows) = HiddenViews(s)
    BY <2>2 DEF HiddenViews, Mapped, OnTag, PresentationHidden, HidesView,
                SameScene, SameTags
  <2>5. shows.masked = HiddenViews(shows) /\ shows.enabled \subseteq Members(w)
        /\ shows.opening[v] = "no"
        /\ \A x \in Views : x # v => shows.opening[x] = w.opening[x]
    BY <1>4, <1>9, <1>10, <1>11, <2>2, <2>4
  <2> QED
    BY <2>1, <2>3, <2>5, OpeningSafe
<1> HIDE DEF fades, shows
<1> QED
  BY <1>2, <1>13, <1>14

LEMMA MapSafe ==
  ASSUME Safe(w), Surprises = {}, NEW v \in Views, Map(v)
  PROVE  Safe(w')
<1> DEFINE focused == w.tags.focused_id
           pending == "pending"
           place == [w.tag EXCEPT ![v] = focused]
           tags == Occupy(w.tags, focused)
           q == [w EXCEPT !.tag = place, !.tags = tags]
           s == RefreshFocus(q)
           opening == [s.opening EXCEPT ![v] = pending]
           u == [s EXCEPT !.opening = opening]
           animated == ~HidesView(s, v) /\ ~s.locked /\ v \in s.enabled
           shown == SyncPresentation(s, {v})
           opens == SyncPresentation(u, {v})
<1>1. /\ w \in Worlds /\ Still(w) /\ Owned(w) /\ Tame(w) /\ Watched(w) /\ Within(w)
      /\ GoodTable(Limit, w.tags) /\ CandidateSound(w.tags)
  BY DEF Safe, Still, TagsGood
<1>2. w.tag[v] = 0 /\ (~w.gesture.engaged \/ w.transition.active)
  BY DEF Map
<1>3. w' = IF animated THEN opens ELSE shown
  <2> DEFINE r == RefreshFocus([w EXCEPT !.tag[v] = w.tags.focused_id,
                                         !.tags = Occupy(w.tags, w.tags.focused_id)])
  <2>1. w' = SyncPresentation(
               IF ~HidesView(r, v) /\ ~r.locked /\ v \in r.enabled
               THEN [r EXCEPT !.opening[v] = pending] ELSE r, {v})
    BY DEF Map, Become
  <2>2. [w EXCEPT !.tag[v] = w.tags.focused_id,
                  !.tags = Occupy(w.tags, w.tags.focused_id)] = q
    BY <1>1 DEF Worlds
  <2>3. r = s
    <3> HIDE DEF q, tags
    <3>1. [w EXCEPT !.tag[v] = w.tags.focused_id,
                    !.tags = Occupy(w.tags, w.tags.focused_id)] = q
      BY <2>2
    <3> QED
      BY <3>1
  <2> HIDE DEF r, s, pending
  <2>4. w' = SyncPresentation(
               IF animated THEN [s EXCEPT !.opening[v] = pending] ELSE s, {v})
    BY <2>1, <2>3
  <2>5. [s EXCEPT !.opening[v] = pending] = u
    OBVIOUS
  <2> HIDE DEF u, animated
  <2> QED
    BY <2>4, <2>5
<1>4. /\ GoodTable(Limit, tags) /\ CandidateSound(tags) /\ tags.max_tags = w.tags.max_tags
      /\ tags.focused_id = focused /\ ~tags.focused_is_candidate
  BY <1>1, OccupyIs
<1> HIDE DEF tags
<1>5. focused \in 1..Limit /\ tags \in TagsType(Limit)
  BY <1>1, <1>4 DEF GoodTable, TagsType
<1>6. /\ place \in [Views -> 0..Limit] /\ place[v] = focused
      /\ \A x \in Views : x # v => place[x] = w.tag[x]
  BY <1>1, <1>5, LimitIs DEF Worlds
<1> HIDE DEF place
<1>7. q \in Worlds
  BY <1>1, <1>5, <1>6 DEF Worlds
<1>8. /\ q.tag = place /\ q.tags = tags /\ q.enabled = w.enabled /\ q.masked = w.masked
      /\ q.opening = w.opening /\ SamePad(w, q) /\ q.transition = w.transition
      /\ q.here = w.here /\ q.power_on = w.power_on /\ q.locked = w.locked
      /\ q.session_active = w.session_active /\ q.version = w.version
  BY <1>1 DEF Worlds, SamePad
<1> HIDE DEF q
<1>9. OpeningHere(q)
  <2>1. ASSUME NEW x \in Views, q.opening[x] # "no"
        PROVE  q.tag[x] # 0 /\ q.tag[x] = CurrentTag(q)
    <3>1. w.tag[x] # 0 /\ w.tag[x] = CurrentTag(w)
      BY <1>1, <1>8, <2>1 DEF Still, OpeningHere
    <3>2. w.tag[x] = focused /\ x # v
      BY <1>2, <3>1 DEF CurrentTag
    <3> QED
      BY <1>4, <1>6, <1>8, <3>1, <3>2 DEF CurrentTag
  <2>2. q.transition.active \/ q.gesture.engaged => \A x \in Views : q.opening[x] = "no"
    BY <1>1, <1>8 DEF Still, OpeningHere, SamePad
  <2> QED
    BY <2>1, <2>2 DEF OpeningHere
<1>10. Still(q)
  <2>1. q.masked \subseteq Mapped(q)
    <3>1. \A x \in Views : w.tag[x] # 0 => place[x] # 0
      BY <1>2, <1>6
    <3> QED
      BY <1>1, <1>8, <3>1 DEF Still, Mapped, OnTag, Worlds
  <2>2. TagsGood(q) /\ q.tags.focused_id = w.tags.focused_id
    BY <1>4, <1>8 DEF TagsGood
  <2> QED
    BY <1>1, <1>7, <1>8, <1>9, <2>1, <2>2, StillKept
<1>11. Owned(q) /\ Tame(q)
  BY <1>1, <1>8 DEF Owned, Tame, SamePad
<1>12. Watched(q) /\ Within(q)
  BY <1>1, <1>4, <1>8 DEF Watched, Within, SamePad
<1>13. Safe(s)
  BY <1>10, <1>11, <1>12, RefreshedSafe
<1>14. /\ SameScene(q, s) /\ SamePad(q, s) /\ SameTags(q, s)
       /\ s.opening = q.opening /\ s.transition = q.transition
  BY <1>10, RefreshFocusIs
<1> HIDE DEF s
<1>15. s \in Worlds /\ Still(s) /\ Drawn(s)
  BY <1>13 DEF Safe, Still
<1>16. /\ s.tag[v] = focused /\ s.tag[v] # 0 /\ s.tag[v] = CurrentTag(s)
       /\ s.tags.focused_id = focused
  BY <1>4, <1>5, <1>6, <1>8, <1>14 DEF CurrentTag, SameScene, SameTags
<1>17. Safe(shown)
  <2>1. s.masked = HiddenViews(s) /\ s.enabled \subseteq Members(s)
    BY <1>15 DEF Drawn, Visible
  <2>2. /\ shown \in Worlds /\ shown.masked = HiddenViews(shown)
        /\ SameScene(s, shown) /\ SamePad(s, shown) /\ SameTags(s, shown)
        /\ shown.enabled = s.enabled /\ shown.opening = s.opening
        /\ shown.transition = s.transition
    BY <1>15, <1>16, <2>1, SyncOneIs
  <2>3. s.opening[v] = "no"
    BY <1>1, <1>2, <1>8, <1>14 DEF Still, OpeningHere
  <2> HIDE DEF shown
  <2> QED
    BY <1>13, <2>1, <2>2, <2>3, OpeningSafe
<1>18. CASE ~animated
  BY <1>3, <1>17, <1>18
<1>19. CASE animated
  <2>1. ~s.transition.active
    <3>1. ~HidesView(s, v)
      BY <1>19
    <3>2. s.transition.active => s.transition.gesture \/ s.transition.incoming = focused
      BY <1>15, <1>16 DEF Still, Presented, Showing
    <3> QED
      BY <1>16, <3>1, <3>2 DEF HidesView
  <2>2. ~s.gesture.engaged
    BY <1>2, <1>8, <1>14, <2>1 DEF SamePad
  <2>3. /\ opening \in [Views -> {"no", "pending", "fading"}]
        /\ \A x \in Views : x # v => opening[x] = s.opening[x]
    BY <1>15 DEF Worlds
  <2>4. w' = opens
    BY <1>3, <1>19
  <2> HIDE DEF opening, animated
  <2>5. u \in Worlds
    BY <1>15, <2>3 DEF Worlds
  <2>6. /\ SameScene(s, u) /\ SamePad(s, u) /\ SameTags(s, u)
        /\ u.enabled = s.enabled /\ u.opening = opening /\ u.masked = s.masked
        /\ u.transition = s.transition
    BY <1>15 DEF Worlds, SameScene, SamePad, SameTags
  <2> HIDE DEF u
  <2>7. /\ u.tag = s.tag /\ u.tags = s.tags /\ s.masked = HiddenViews(s)
        /\ s.enabled \subseteq Members(s)
        /\ \A x \in Views : x # v => u.opening[x] = s.opening[x]
    BY <1>15, <2>3, <2>6 DEF SameScene, SameTags, Drawn, Visible
  <2>8. /\ opens \in Worlds /\ opens.masked = HiddenViews(opens)
        /\ SameScene(u, opens) /\ SamePad(u, opens) /\ SameTags(u, opens)
        /\ opens.enabled = u.enabled /\ opens.opening = u.opening
        /\ opens.transition = u.transition
    BY <1>15, <1>16, <2>5, <2>6, <2>7, SyncOneIs
  <2> HIDE DEF opens
  <2>9. /\ SameScene(s, opens) /\ SamePad(s, opens) /\ SameTags(s, opens)
        /\ opens.transition = s.transition /\ opens.enabled = s.enabled
        /\ \A x \in Views : x # v => opens.opening[x] = s.opening[x]
    BY <2>6, <2>7, <2>8 DEF SameScene, SamePad, SameTags
  <2>10. Safe(opens)
    BY <1>13, <1>16, <2>1, <2>2, <2>7, <2>8, <2>9, OpeningSafe
  <2> QED
    BY <2>4, <2>10
<1> QED
  BY <1>18, <1>19

LEMMA UnmapSafe ==
  ASSUME Safe(w), NEW v \in Views, Unmap(v)
  PROVE  Safe(w')
<1> DEFINE id == w.tag[v]
           nowhere == 0
           stop == "no"
           empty == OnTag(w, id) = {v}
           tags == PruneEmpty(w.tags, id, empty)
           place == [w.tag EXCEPT ![v] = nowhere]
           opening == [w.opening EXCEPT ![v] = stop]
           enabled == w.enabled \ {v}
           masked == w.masked \ {v}
           full == w.fullscreen \ {v}
           u == [w EXCEPT !.tag = place, !.tags = tags, !.opening = opening,
                          !.enabled = enabled, !.masked = masked, !.fullscreen = full]
<1>1. /\ w \in Worlds /\ Still(w) /\ Owned(w) /\ Tame(w) /\ Watched(w) /\ Within(w)
      /\ GoodTable(Limit, w.tags) /\ CandidateSound(w.tags)
  BY DEF Safe, Still, TagsGood
<1>2. id # 0 /\ id \in 1..Limit /\ empty \in BOOLEAN
  BY <1>1, LimitIs DEF Unmap, Worlds
<1>3. w' = RefreshFocus(u)
  <2>1. w' = RefreshFocus([w EXCEPT !.tag[v] = nowhere, !.tags = tags, !.opening[v] = stop,
                                    !.enabled = enabled, !.masked = masked,
                                    !.fullscreen = full])
    BY DEF Unmap, Become
  <2>2. [w EXCEPT !.tag[v] = nowhere, !.tags = tags, !.opening[v] = stop,
                  !.enabled = enabled, !.masked = masked, !.fullscreen = full] = u
    <3> HIDE DEF tags, enabled, masked, full, nowhere, stop
    <3> QED
      BY <1>1 DEF Worlds
  <2> HIDE DEF u, tags, enabled, masked, full, nowhere, stop
  <2> QED
    BY <2>1, <2>2
<1> HIDE DEF empty
<1>4. /\ GoodTable(Limit, tags) /\ CandidateSound(tags) /\ tags.max_tags = w.tags.max_tags
      /\ tags.focused_id = w.tags.focused_id
      /\ ~(empty /\ id = w.tags.focused_id) =>
           (tags.focused_is_candidate <=> w.tags.focused_is_candidate)
  BY <1>1, <1>2, PruneIs
<1> HIDE DEF tags
<1>5. tags \in TagsType(Limit)
  BY <1>4 DEF GoodTable
<1>6. /\ place \in [Views -> 0..Limit] /\ place[v] = 0
      /\ \A x \in Views : x # v => place[x] = w.tag[x]
  BY <1>1, LimitIs DEF Worlds
<1>7. /\ opening \in [Views -> {"no", "pending", "fading"}] /\ opening[v] = "no"
      /\ \A x \in Views : x # v => opening[x] = w.opening[x]
  BY <1>1 DEF Worlds
<1>8. enabled \in SUBSET Views /\ masked \in SUBSET Views /\ full \in SUBSET Fullscreens
  BY <1>1 DEF Worlds
<1> HIDE DEF place, opening, enabled, full
<1>9. u \in Worlds
  BY <1>1, <1>5, <1>6, <1>7, <1>8, ZenonT(90) DEF Worlds
<1>10. /\ u.tag = place /\ u.tags = tags /\ u.enabled = enabled /\ u.masked = masked
       /\ u.opening = opening /\ SamePad(w, u) /\ u.transition = w.transition
       /\ u.here = w.here /\ u.power_on = w.power_on /\ u.locked = w.locked
       /\ u.session_active = w.session_active /\ u.version = w.version
  BY <1>1 DEF Worlds, SamePad
<1> HIDE DEF u
<1>11. OpeningHere(u)
  <2>1. ASSUME NEW x \in Views, u.opening[x] # "no"
        PROVE  u.tag[x] # 0 /\ u.tag[x] = CurrentTag(u)
    <3>1. x # v /\ w.opening[x] # "no"
      BY <1>7, <1>10, <2>1
    <3>2. w.tag[x] # 0 /\ w.tag[x] = CurrentTag(w)
      BY <1>1, <3>1 DEF Still, OpeningHere
    <3>3. w.tag[x] = w.tags.focused_id /\ ~w.tags.focused_is_candidate
      BY <3>2 DEF CurrentTag
    <3>4. ~(empty /\ id = w.tags.focused_id)
      BY <3>1, <3>3 DEF empty, OnTag
    <3> QED
      BY <1>4, <1>6, <1>10, <3>1, <3>2, <3>3, <3>4 DEF CurrentTag
  <2>2. u.transition.active \/ u.gesture.engaged => \A x \in Views : u.opening[x] = "no"
    BY <1>1, <1>7, <1>10 DEF Still, OpeningHere, SamePad
  <2> QED
    BY <2>1, <2>2 DEF OpeningHere
<1>12. Still(u)
  <2>1. u.masked \subseteq Mapped(u)
    BY <1>1, <1>6, <1>10 DEF Still, Mapped, OnTag, masked
  <2>2. TagsGood(u) /\ u.tags.focused_id = w.tags.focused_id
    BY <1>4, <1>10 DEF TagsGood
  <2> QED
    BY <1>1, <1>9, <1>10, <1>11, <2>1, <2>2, StillKept
<1>13. Owned(u) /\ Tame(u)
  BY <1>1, <1>10 DEF Owned, Tame, SamePad
<1>14. Watched(u) /\ Within(u)
  BY <1>1, <1>4, <1>10 DEF Watched, Within, SamePad
<1> QED
  BY <1>3, <1>12, <1>13, <1>14, RefreshedSafe

LEMMA MoveToTagSafe ==
  ASSUME Safe(w), Surprises = {}, NEW v \in Views, NEW id \in 1..Limit, NEW follow \in BOOLEAN,
         MoveToTag(v, id, follow)
  PROVE  Safe(w')
<1> DEFINE left == w.tag[v]
           empty == OnTag(w, left) = {v}
           more == Materialize(w.tags, id)
           tags == PruneEmpty(more, left, empty)
           place == [w.tag EXCEPT ![v] = id]
           u == [w EXCEPT !.tag = place, !.tags = tags]
           direction == IF id > tags.focused_id THEN Forward ELSE Backward
           moved == FocusId(tags, id)
           c == ChangeFocus(u, moved, direction)
<1>1. /\ w \in Worlds /\ Still(w) /\ Owned(w) /\ Tame(w) /\ Watched(w) /\ Within(w)
      /\ GoodTable(Limit, w.tags) /\ CandidateSound(w.tags)
  BY DEF Safe, Still, TagsGood
<1>2. /\ left # 0 /\ left = CurrentTag(w) /\ id # left /\ id \in 1..w.tags.max_tags
      /\ w.opening[v] = "no"
  BY DEF MoveToTag, Leaves, ValidId
<1>3. /\ left = w.tags.focused_id /\ ~w.tags.focused_is_candidate
      /\ left \in 1..Limit /\ empty \in BOOLEAN /\ direction \in Directions
  BY <1>1, <1>2 DEF CurrentTag, GoodTable, TagsType, Directions
<1>4. w' = IF follow THEN RefreshFocus(c) ELSE RefreshFocus(u)
  <2>1. w' = RefreshFocus(IF follow
                          THEN ChangeFocus([w EXCEPT !.tag[v] = id, !.tags = tags],
                                           moved, direction)
                          ELSE [w EXCEPT !.tag[v] = id, !.tags = tags])
    BY DEF MoveToTag, Become
  <2>2. [w EXCEPT !.tag[v] = id, !.tags = tags] = u
    <3> HIDE DEF tags
    <3> QED
      BY <1>1 DEF Worlds
  <2> HIDE DEF u, tags, moved, direction
  <2> QED
    BY <2>1, <2>2
<1> HIDE DEF direction, empty
<1>5. /\ GoodTable(Limit, more) /\ CandidateSound(more) /\ more.max_tags = w.tags.max_tags
      /\ more.focused_id = w.tags.focused_id
      /\ more.focused_is_candidate = w.tags.focused_is_candidate
  BY <1>1, <1>2, <1>3, MaterializeIs
<1> HIDE DEF more
<1>6. /\ GoodTable(Limit, tags) /\ CandidateSound(tags) /\ tags.max_tags = more.max_tags
      /\ tags.focused_id = more.focused_id
      /\ ~(empty /\ left = more.focused_id) =>
           (tags.focused_is_candidate <=> more.focused_is_candidate)
  <2> HIDE DEF left
  <2> QED
    BY <1>3, <1>5, PruneIs, SMTT(60)
<1> HIDE DEF tags
<1>7. tags \in TagsType(Limit)
  BY <1>6 DEF GoodTable
<1>8. /\ place \in [Views -> 0..Limit] /\ place[v] = id
      /\ \A x \in Views : x # v => place[x] = w.tag[x]
  BY <1>1, LimitIs DEF Worlds
<1> HIDE DEF place
<1>9. u \in Worlds
  BY <1>1, <1>7, <1>8 DEF Worlds
<1>10. /\ u.tag = place /\ u.tags = tags /\ u.enabled = w.enabled /\ u.masked = w.masked
       /\ u.opening = w.opening /\ SamePad(w, u) /\ u.transition = w.transition
       /\ u.here = w.here /\ u.power_on = w.power_on /\ u.locked = w.locked
       /\ u.session_active = w.session_active /\ u.version = w.version
  BY <1>1 DEF Worlds, SamePad
<1> HIDE DEF u
<1>11. OpeningHere(u)
  <2>1. ASSUME NEW x \in Views, u.opening[x] # "no"
        PROVE  u.tag[x] # 0 /\ u.tag[x] = CurrentTag(u)
    <3>1. x # v /\ w.opening[x] # "no"
      BY <1>2, <1>10, <2>1
    <3>2. w.tag[x] # 0 /\ w.tag[x] = CurrentTag(w)
      BY <1>1, <3>1 DEF Still, OpeningHere
    <3>3. ~empty
      BY <1>2, <3>1, <3>2 DEF empty, OnTag
    <3> QED
      BY <1>3, <1>5, <1>6, <1>8, <1>10, <3>1, <3>2, <3>3 DEF CurrentTag
  <2>2. u.transition.active \/ u.gesture.engaged => \A x \in Views : u.opening[x] = "no"
    BY <1>1, <1>10 DEF Still, OpeningHere, SamePad
  <2> QED
    BY <2>1, <2>2 DEF OpeningHere
<1>12. Still(u)
  <2>1. u.masked \subseteq Mapped(u)
    <3>1. \A x \in Views : w.tag[x] # 0 => place[x] # 0
      BY <1>8
    <3> QED
      BY <1>1, <1>10, <3>1 DEF Still, Mapped, OnTag, Worlds
  <2>2. TagsGood(u) /\ u.tags.focused_id = w.tags.focused_id
    BY <1>5, <1>6, <1>10 DEF TagsGood
  <2> QED
    BY <1>1, <1>9, <1>10, <1>11, <2>1, <2>2, StillKept
<1>13. Owned(u) /\ Tame(u)
  BY <1>1, <1>10 DEF Owned, Tame, SamePad
<1>14. Watched(u) /\ Within(u)
  BY <1>1, <1>5, <1>6, <1>10 DEF Watched, Within, SamePad
<1>15. CASE ~follow
  BY <1>4, <1>12, <1>13, <1>14, <1>15, RefreshedSafe
<1>16. CASE follow
  <2>1. /\ GoodTable(Limit, moved) /\ CandidateSound(moved)
        /\ moved.table = tags.table /\ moved.max_tags = tags.max_tags
    BY <1>6, FocusIdIs
  <2> HIDE DEF moved
  <2>2. moved.table = u.tags.table /\ moved.max_tags = u.tags.max_tags
    BY <1>10, <2>1
  <2>3. /\ Still(c) /\ Owned(c) /\ SameScene(u, c) /\ c.tags = moved
        /\ c.gesture = NoGesture \/ c.gesture = u.gesture
        /\ c.transition.active => c.transition = u.transition
                                  \/ c.transition.ring \subseteq 1..u.tags.max_tags
        /\ (Tame(u) => Tame(c))
    BY <1>3, <1>12, <1>13, <2>1, <2>2, ChangeFocusIs
  <2>4. w' = RefreshFocus(c)
    BY <1>4, <1>16
  <2> HIDE DEF c
  <2>5. Tame(c) /\ c.tags.max_tags = u.tags.max_tags
    BY <1>13, <2>2, <2>3
  <2> QED
    BY <1>14, <2>3, <2>4, <2>5, RefreshSafe
<1> QED
  BY <1>15, <1>16

-----------------------------------------------------------------------------
(* A reload                                                                *)

\* The pointers are configured once no swipe is left.
LEMMA ConfiguredSafe ==
  ASSUME NEW s, Still(s), Owned(s), Tame(s), Watched(s),
         Drawn(s) \/ s.gesture = NoGesture, s.version < MaxReloads,
         LET r == RefreshFocus(ApplyPointerConfig([s EXCEPT !.version = @ + 1]))
         IN r.transition.ring \subseteq 1..s.tags.max_tags
  PROVE  Safe(RefreshFocus(ApplyPointerConfig([s EXCEPT !.version = @ + 1])))
<1> DEFINE version == s.version + 1
           v == [s EXCEPT !.version = version]
           c == GestureCancel(v)
           settings == [p \in Pointers |-> version]
           u == [c EXCEPT !.settings = settings]
<1>1. s \in Worlds
  BY DEF Still
<1>2. version \in 0..MaxReloads /\ version \in Levels
  BY <1>1, SwipesAssumption DEF Worlds, Levels
<1> HIDE DEF version
<1>3. v \in Worlds
  BY <1>1, <1>2 DEF Worlds
<1>4. /\ SamePad(s, v) /\ SameTags(s, v) /\ SameFace(s, v) /\ v.tag = s.tag
      /\ v.opening = s.opening /\ v.transition = s.transition /\ v.version = version
      /\ v.here = s.here /\ v.power_on = s.power_on
  BY <1>1 DEF Worlds, SamePad, SameTags, SameFace
<1>5. ApplyPointerConfig([s EXCEPT !.version = @ + 1]) = u
  <2>1. ApplyPointerConfig(v) = [c EXCEPT !.settings = [p \in Pointers |-> v.version]]
    BY DEF ApplyPointerConfig
  <2>2. v.version = version
    BY <1>4
  <2>3. [s EXCEPT !.version = @ + 1] = v
    BY DEF version
  <2> HIDE DEF v, c
  <2> QED
    BY <2>1, <2>2, <2>3
<1> HIDE DEF v
<1>6. Still(v) /\ Owned(v) /\ (Drawn(s) => Drawn(v))
  <2>1. Still(v)
    BY <1>3, <1>4 DEF Still, TagsGood, OpeningHere, CurrentTag, Cleared, Presented, Showing,
                      Mapped, OnTag, SamePad, SameTags, SameFace
  <2>2. Members(v) = Members(s) /\ HiddenViews(v) = HiddenViews(s)
    BY <1>4 DEF Members, HiddenViews, Mapped, OnTag, CurrentTag, PresentationHidden,
                HidesView, SameTags
  <2>3. Drawn(s) => Drawn(v)
    BY <1>4, <2>2 DEF Drawn, Visible, SameFace
  <2> QED
    BY <1>4, <2>1, <2>3 DEF Owned, SamePad
<1>7. /\ Still(c) /\ Owned(c) /\ c.gesture = NoGesture /\ c.override = "none"
      /\ SameScene(v, c) /\ SameTags(v, c)
  <2>1. CASE Drawn(s)
    <3> HIDE DEF c
    <3> QED
      BY <1>6, <2>1, GestureCancelIs DEF c
  <2>2. CASE s.gesture = NoGesture
    <3>1. v.gesture = NoGesture /\ v.override = "none" /\ ~NoGesture.active
      BY <1>4, <2>2 DEF Tame, SamePad, NoGesture
    <3>2. [v EXCEPT !.gesture = NoGesture] = v
      BY <1>3, <3>1 DEF Worlds
    <3>3. c = v
      BY <3>1, <3>2 DEF GestureCancel, GestureReset, AccelRestore
    <3> QED
      BY <1>6, <3>1, <3>3 DEF SameScene, SameTags
  <2> QED
    BY <2>1, <2>2
<1> HIDE DEF c
<1>8. c \in Worlds /\ c.version = version /\ settings \in [Pointers -> Levels]
      /\ \A p \in Pointers : settings[p] = version
  BY <1>2, <1>4, <1>7 DEF Still, SameScene
<1> HIDE DEF settings
<1>9. u \in Worlds
  BY <1>8 DEF Worlds
<1>10. /\ SameScene(c, u) /\ SameTags(c, u) /\ SameFace(c, u) /\ u.gesture = c.gesture
       /\ u.settings = settings /\ u.override = c.override
       /\ u.opening = c.opening /\ u.transition = c.transition
  BY <1>8 DEF Worlds, SameScene, SameTags, SameFace
<1> HIDE DEF u
<1>11. Still(u) /\ Owned(u)
  BY <1>7, <1>9, <1>10 DEF Still, TagsGood, OpeningHere, CurrentTag, Cleared, Presented,
       Showing, Mapped, OnTag, Owned, SameScene, SameTags, SameFace
<1>12. Tame(u)
  BY <1>7, <1>8, <1>10, SwipesAssumption DEF Tame, SameScene
<1>13. Watched(u)
  <2>1. ~u.gesture.active /\ u.gesture.displacement = 0
    BY <1>7, <1>10 DEF NoGesture
  <2>2. u.here => u.power_on
    BY <1>4, <1>7, <1>10 DEF Watched, SameScene
  <2>3. 0 \in -Reach..Reach
    BY SituationsAre DEF Reach
  <2> QED
    BY <2>1, <2>2, <2>3 DEF Watched
<1>14. Within(u)
  <2> DEFINE r == RefreshFocus(u)
  <2>1. r.transition = u.transition
    BY <1>11, RefreshFocusIs
  <2>2. r.transition.ring \subseteq 1..s.tags.max_tags
    BY <1>5
  <2> HIDE DEF r
  <2>3. u.tags.max_tags = s.tags.max_tags
    BY <1>4, <1>7, <1>10 DEF SameTags
  <2>4. ~u.gesture.active
    BY <1>7, <1>10 DEF NoGesture
  <2> QED
    BY <2>1, <2>2, <2>3, <2>4 DEF Within
<1>15. Safe(RefreshFocus(u))
  BY <1>11, <1>12, <1>13, <1>14, RefreshedSafe
<1> QED
  BY <1>5, <1>15

\* leme_tags_commit_set_max: the new maximum, and the previous tag it forgets
Limited(t, maximum, valid) == [t EXCEPT !.max_tags = maximum, !.previous_valid = valid]

LEMMA LimitedIs ==
  ASSUME NEW t, GoodTable(Limit, t), NEW maximum \in 1..Limit, PrepareSetMax(t, maximum),
         NEW valid \in BOOLEAN
  PROVE  LET r == Limited(t, maximum, valid)
         IN /\ r \in TagsType(Limit) /\ r.table = t.table /\ r.max_tags = maximum
            /\ r.initial_tags = t.initial_tags /\ r.focused_id = t.focused_id
            /\ r.focused_is_candidate = t.focused_is_candidate
            /\ r.table \subseteq 1..maximum /\ r.initial_tags <= maximum
            /\ 1..r.initial_tags \subseteq r.table /\ 1 \in r.table
<1>1. t \in TagsType(Limit) /\ 1..t.initial_tags \subseteq t.table /\ t.table \subseteq 1..maximum
  BY DEF GoodTable, TableSound, PrepareSetMax, CanSetMax
<1>2. t.initial_tags \in 1..t.initial_tags /\ 1 \in 1..t.initial_tags
  BY <1>1 DEF TagsType
<1>3. t.initial_tags <= maximum
  BY <1>1, <1>2
<1>4. Limited(t, maximum, valid) \in TagsType(Limit)
  BY <1>1 DEF TagsType, Limited
<1>5. LET r == Limited(t, maximum, valid)
      IN /\ r.table = t.table /\ r.max_tags = maximum
         /\ r.initial_tags = t.initial_tags /\ r.focused_id = t.focused_id
         /\ r.focused_is_candidate = t.focused_is_candidate
  BY <1>1 DEF TagsType, Limited
<1> QED
  BY <1>1, <1>2, <1>3, <1>4, <1>5

\* The focus above the new maximum goes to the first tag.
FirstTag(t, candidate) ==
  [t EXCEPT !.focused_id = CHOOSE id \in t.table : \A other \in t.table : id <= other,
            !.focused_is_candidate = candidate]

LEMMA FirstTagIs ==
  ASSUME NEW t \in TagsType(Limit), t.table \subseteq 1..t.max_tags,
         t.initial_tags <= t.max_tags, 1..t.initial_tags \subseteq t.table,
         NEW candidate \in BOOLEAN, ~candidate
  PROVE  LET r == FirstTag(t, candidate)
         IN /\ GoodTable(Limit, r) /\ CandidateSound(r) /\ r.max_tags = t.max_tags
<1> DEFINE first == CHOOSE id \in t.table : \A other \in t.table : id <= other
           r == FirstTag(t, candidate)
<1>1. 1 \in t.table /\ t.max_tags \in 1..Limit
  BY DEF TagsType
<1>2. first \in t.table
  <2>1. \A other \in t.table : 1 <= other
    BY <1>1
  <2> QED
    BY <1>1, <2>1
<1>3. first \in 1..t.max_tags /\ first \in 1..Limit
  <2> HIDE DEF first
  <2> QED
    BY <1>1, <1>2, LimitIs
<1>4. r = [t EXCEPT !.focused_id = first, !.focused_is_candidate = candidate]
  BY DEF FirstTag
<1> HIDE DEF first, r
<1>5. r \in TagsType(Limit)
  BY <1>3, <1>4 DEF TagsType
<1>6. /\ r.table = t.table /\ r.max_tags = t.max_tags /\ r.initial_tags = t.initial_tags
      /\ r.focused_id = first /\ r.focused_is_candidate = candidate
  BY <1>4 DEF TagsType
<1> QED
  BY <1>2, <1>3, <1>5, <1>6 DEF GoodTable, TableSound, CandidateSound, r

LEMMA ReloadSafe ==
  ASSUME Safe(w), Surprises = {}, NEW maximum \in 1..Limit, Reload(maximum)
  PROVE  Safe(w')
<1> DEFINE valid == w.tags.previous_valid /\ w.tags.previous_id <= maximum
           tags == Limited(w.tags, maximum, valid)
           limited == [w EXCEPT !.tags = tags]
           above == w.tags.focused_id > maximum
           t == AnimationsFinish(limited)
           no == FALSE
           nowhere == 0
           lowered == FirstTag(t.tags, no)
           moved == [t EXCEPT !.direction = nowhere, !.tags = lowered]
           r == IF above THEN moved ELSE limited
           reloaded == RefreshFocus(ApplyPointerConfig([r EXCEPT !.version = @ + 1]))
<1>1. /\ w \in Worlds /\ Still(w) /\ Drawn(w) /\ Owned(w) /\ Tame(w) /\ Watched(w)
      /\ GoodTable(Limit, w.tags) /\ CandidateSound(w.tags) /\ valid \in BOOLEAN
      /\ PrepareSetMax(w.tags, maximum) /\ w.version < MaxReloads
  BY DEF Safe, Still, TagsGood, Reload
<1>2. w' = reloaded /\ reloaded.transition.ring \subseteq 1..maximum
  <2> DEFINE a == [w EXCEPT !.tags.max_tags = maximum, !.tags.previous_valid = valid]
             s == IF above THEN AnimationsFinish(a) ELSE a
             first == CHOOSE id \in s.tags.table : \A other \in s.tags.table : id <= other
             b == IF above THEN [s EXCEPT !.direction = nowhere, !.tags.focused_id = first,
                                          !.tags.focused_is_candidate = no]
                  ELSE s
             d == RefreshFocus(ApplyPointerConfig([b EXCEPT !.version = @ + 1]))
  <2>1. w' = d /\ d.transition.ring \subseteq 1..maximum
    BY DEF Reload, Become
  <2>2. a = limited
    <3> HIDE DEF valid
    <3> QED
      BY <1>1 DEF Worlds, Limited
  <2> HIDE DEF a
  <2>3. s = IF above THEN t ELSE limited
    <3> HIDE DEF limited
    <3> QED
      BY <2>2
  <2>4. above => b = moved
    <3> SUFFICES ASSUME above PROVE b = moved
      OBVIOUS
    <3>1. s = t
      BY <2>3
    <3> HIDE DEF s, t
    <3>2. b = [t EXCEPT !.direction = nowhere, !.tags.focused_id = first,
                        !.tags.focused_is_candidate = no]
      BY <3>1
    <3>3. lowered = [t.tags EXCEPT !.focused_id = first, !.focused_is_candidate = no]
      BY <3>1 DEF FirstTag
    <3> HIDE DEF b, first, no, nowhere, lowered
    <3>4. [t EXCEPT !.direction = nowhere, !.tags.focused_id = first,
                    !.tags.focused_is_candidate = no]
            = [t EXCEPT !.direction = nowhere,
                        !.tags = [t.tags EXCEPT !.focused_id = first,
                                                !.focused_is_candidate = no]]
      OBVIOUS
    <3> QED
      BY <3>2, <3>3, <3>4
  <2>5. ~above => b = limited
    <3> HIDE DEF limited
    <3> QED
      BY <2>3
  <2>6. b = r
    <3> HIDE DEF b, moved, limited, above
    <3> QED
      BY <2>4, <2>5
  <2>7. d = reloaded
    <3> HIDE DEF b, r
    <3> QED
      BY <2>6
  <2> HIDE DEF d, reloaded
  <2> QED
    BY <2>1, <2>7, SMTT(60)
<1> HIDE DEF valid
<1>3. /\ tags \in TagsType(Limit) /\ tags.table = w.tags.table /\ tags.max_tags = maximum
      /\ tags.initial_tags = w.tags.initial_tags /\ tags.focused_id = w.tags.focused_id
      /\ tags.focused_is_candidate = w.tags.focused_is_candidate
      /\ tags.table \subseteq 1..maximum /\ tags.initial_tags <= maximum
      /\ 1..tags.initial_tags \subseteq tags.table /\ 1 \in tags.table
  BY <1>1, LimitedIs
<1> HIDE DEF tags
<1>4. limited \in Worlds
  BY <1>1, <1>3 DEF Worlds
<1>5. /\ SameScene(w, limited) /\ SamePad(w, limited) /\ SameFace(w, limited)
      /\ limited.tags = tags /\ limited.opening = w.opening
      /\ limited.transition = w.transition
  BY <1>1 DEF Worlds, SameScene, SamePad, SameFace
<1> HIDE DEF limited
<1>6. Tame(limited)
  BY <1>1, <1>5 DEF Tame, SameScene, SamePad
<1>7. /\ Still(r) /\ Owned(r) /\ Tame(r) /\ Watched(r) /\ r.tags.max_tags = maximum
      /\ Drawn(r) \/ r.gesture = NoGesture
      /\ r.version = w.version
  <2>1. CASE ~above
    <3>1. r = limited
      BY <2>1
    <3>2. CurrentTag(limited) = CurrentTag(w)
      BY <1>3, <1>5 DEF CurrentTag
    <3>3. TagsGood(limited)
      <4>1. tags.focused_id \in 1..maximum
        BY <1>1, <1>3, <2>1 DEF GoodTable, TagsType
      <4> QED
        BY <1>1, <1>3, <1>5, <4>1 DEF TagsGood, GoodTable, TableSound, CandidateSound
    <3>4. OpeningHere(limited) /\ limited.masked \subseteq Mapped(limited)
      BY <1>1, <1>5, <3>2 DEF Still, OpeningHere, Mapped, OnTag, SameScene, SamePad, SameFace
    <3>5. Still(limited)
      BY <1>1, <1>3, <1>4, <1>5, <3>3, <3>4, StillKept
    <3>6. Members(limited) = Members(w) /\ HiddenViews(limited) = HiddenViews(w)
      BY <1>3, <1>5, <3>2 DEF Members, HiddenViews, Mapped, OnTag, PresentationHidden,
                              HidesView, SameScene
    <3>7. Drawn(limited)
      BY <1>1, <1>5, <3>6 DEF Drawn, Visible, SameFace
    <3>8. Owned(limited) /\ Watched(limited)
      BY <1>1, <1>5 DEF Owned, Watched, SameScene, SamePad
    <3> HIDE DEF r
    <3> QED
      BY <1>3, <1>5, <1>6, <3>1, <3>5, <3>7, <3>8 DEF SameScene
  <2>2. CASE above
    <3>1. r = moved
      BY <2>2
    <3>2. Loose(limited)
      BY <1>1, <1>4, <1>5 DEF Still, Loose, Cleared, Mapped, OnTag, SameScene, SamePad, SameFace
    <3>3. /\ Loose(t) /\ NoOpening(t) /\ SameScene(limited, t)
          /\ t.gesture = NoGesture /\ t.transition = NoTransition
          /\ (Tame(limited) => Tame(t))
          /\ (~limited.gesture.engaged => SameTags(limited, t))
          /\ limited.gesture.engaged =>
               \E id \in 1..Limit : t.tags = FocusId(limited.tags, id)
      BY <3>2, AnimationsFinishLoose
    <3> HIDE DEF r, t
    <3>4. /\ t.tags \in TagsType(Limit) /\ t.tags.table = tags.table
          /\ t.tags.max_tags = maximum /\ t.tags.initial_tags = tags.initial_tags
      <4>1. CASE limited.gesture.engaged
        <5>1. PICK id \in 1..Limit : t.tags = FocusId(tags, id)
          BY <1>5, <3>3, <4>1
        <5> QED
          BY <1>3, <5>1, FocusIdTyped
      <4>2. CASE ~limited.gesture.engaged
        BY <1>3, <1>5, <3>3, <4>2 DEF SameTags
      <4> QED
        BY <4>1, <4>2
    <3>5. no \in BOOLEAN /\ ~no /\ nowhere \in Directions \cup {0}
      OBVIOUS
    <3> HIDE DEF no, nowhere
    <3>6. /\ GoodTable(Limit, lowered) /\ CandidateSound(lowered) /\ lowered.max_tags = maximum
      BY <1>3, <3>4, <3>5, FirstTagIs
    <3> HIDE DEF lowered
    <3>7. t \in Worlds /\ lowered \in TagsType(Limit)
      BY <3>3, <3>6 DEF Loose, GoodTable
    <3>8. moved \in Worlds
      BY <3>5, <3>7 DEF Worlds
    <3>9. /\ SameScene(t, moved) /\ SamePad(t, moved) /\ SameFace(t, moved)
          /\ moved.tags = lowered /\ moved.opening = t.opening
          /\ moved.transition = t.transition
      BY <3>7 DEF Worlds, SameScene, SamePad, SameFace
    <3> HIDE DEF moved
    <3>10. Loose(moved) /\ NoOpening(moved) /\ TagsGood(moved)
      BY <3>3, <3>6, <3>8, <3>9 DEF Loose, Cleared, Mapped, OnTag, NoOpening, TagsGood,
                                    SameScene, SamePad, SameFace
    <3>11. moved.gesture = NoGesture /\ moved.transition = NoTransition
      BY <3>3, <3>9 DEF SamePad
    <3>12. Still(moved)
      BY <3>10, <3>11, QuietStill
    <3>13. Owned(moved)
      BY <3>11 DEF Owned, NoTransition
    <3>14. Tame(moved)
      BY <1>6, <3>3, <3>9 DEF Tame, SameScene, SamePad
    <3>15. SameScene(w, moved)
      BY <1>5, <3>3, <3>9 DEF SameScene
    <3>16. Watched(moved)
      <4>1. ~moved.gesture.active /\ moved.gesture.displacement = 0
        BY <3>11 DEF NoGesture
      <4>2. moved.here => moved.power_on
        BY <1>1, <3>15 DEF Watched, SameScene
      <4>3. 0 \in -Reach..Reach
        BY SituationsAre DEF Reach
      <4> QED
        BY <4>1, <4>2, <4>3 DEF Watched
    <3> QED
      BY <3>1, <3>6, <3>9, <3>11, <3>12, <3>13, <3>14, <3>15, <3>16 DEF SameScene
  <2> QED
    BY <2>1, <2>2
<1> HIDE DEF r
<1>8. Safe(reloaded)
  BY <1>1, <1>2, <1>7, ConfiguredSafe
<1> QED
  BY <1>2, <1>8

-----------------------------------------------------------------------------
(* The whole                                                               *)

\* What is safe does not depend on the step, which keeps the scenario.
LEMMA SafePrime ==
  ASSUME Safe(w'), around' = around
  PROVE  Safe(w)'
<1>1. Limit' = Limit /\ Reach' = Reach
  BY DEF Limit, Reach
<1>2. Worlds' = Worlds
  BY <1>1 DEF Worlds, Gestures, Transitions
<1> HIDE DEF Limit, Reach, Worlds
<1>3. Still(w)'
  BY <1>1, <1>2 DEF Safe, Still, TagsGood
<1>4. Watched(w)'
  BY <1>1 DEF Safe, Watched
<1> QED
  BY <1>3, <1>4 DEF Safe

\* The session on tag id, with the windows in their places
FirstWorld(scenario, maximum, id, place) ==
  LET situation == Situation(scenario)
      tags == TagsInit(situation.initial, maximum)
  IN [tags |-> FocusId(tags, id), direction |-> IF id = 1 THEN 0 ELSE Forward,
      tag |-> place, fullscreen |-> {},
      enabled |-> {v \in Views : place[v] = id},
      masked |-> {}, opening |-> [v \in Views |-> "no"],
      gesture |-> NoGesture, transition |-> NoTransition,
      here |-> TRUE, power_on |-> TRUE, locked |-> FALSE, session_active |-> TRUE,
      settings |-> [p \in Pointers |-> 0], override |-> "none", saved |-> 0,
      mode |-> situation.mode, animated |-> TRUE, version |-> 0]

LEMMA StartSafe ==
  ASSUME Init
  PROVE  SwipeInv
<1>1. PICK scenario \in Scenarios :
         \E maximum \in Situation(scenario).maxima : \E id \in {1, maximum} :
           \E place \in [Views -> 0..1] :
             around = scenario /\ events = 0 /\ w = FirstWorld(scenario, maximum, id, place)
  <2> DEFINE Begins(name, maximum, id, place) ==
               around = name /\ events = 0 /\ w = FirstWorld(name, maximum, id, place)
  <2>1. \E scenario \in Scenarios : \E maximum \in Situation(scenario).maxima :
          \E id \in {1, maximum} : \E tag \in [Views -> 0..1] :
            Begins(scenario, maximum, id, tag)
    BY Zenon DEF Init, FirstWorld
  <2> QED
    BY <2>1
<1>2. around \in Scenarios /\ events = 0
      /\ \E maximum \in Situation(around).maxima : \E id \in {1, maximum} :
           \E place \in [Views -> 0..1] : w = FirstWorld(around, maximum, id, place)
  BY <1>1
<1>3. PICK maximum \in Situation(around).maxima :
        \E id \in {1, maximum} : \E place \in [Views -> 0..1] :
          w = FirstWorld(around, maximum, id, place)
  BY <1>2
<1>4. PICK id \in {1, maximum} : \E place \in [Views -> 0..1] :
        w = FirstWorld(around, maximum, id, place)
  BY <1>3
<1>5. PICK place \in [Views -> 0..1] : w = FirstWorld(around, maximum, id, place)
  BY <1>4
<1> DEFINE initial == Situation(around).initial
           table == TagsInit(initial, maximum)
           tags == FocusId(table, id)
           enabled == {v \in Views : place[v] = id}
           opening == [v \in Views |-> "no"]
           settings == [p \in Pointers |-> 0]
<1>6. /\ initial \in 1..6 /\ initial < maximum /\ maximum \in 1..Limit /\ id \in 1..Limit
      /\ initial \in 1..Limit /\ initial <= maximum
  BY SituationsAre, LimitIs
<1> HIDE DEF initial
<1>7. GoodTable(Limit, table) /\ CandidateSound(table) /\ table.max_tags = maximum
      /\ table.table = 1..initial
  <2>1. GoodTable(Limit, table)
    BY <1>6, TagsInitGood, LimitIs
  <2>2. CandidateSound(table) /\ table.max_tags = maximum /\ table.table = 1..initial
    BY <1>6 DEF TagsInit, CandidateSound
  <2> QED
    BY <2>1, <2>2
<1> HIDE DEF table
<1>8. /\ GoodTable(Limit, tags) /\ CandidateSound(tags) /\ tags.max_tags = maximum
      /\ tags.table = 1..initial /\ tags.focused_id = id
  <2>1. /\ GoodTable(Limit, tags) /\ CandidateSound(tags) /\ tags.max_tags = table.max_tags
        /\ tags.table = table.table
        /\ tags.focused_id = IF id <= table.max_tags THEN id ELSE table.focused_id
    BY <1>6, <1>7, FocusIdIs
  <2>2. id <= maximum
    BY <1>6
  <2> QED
    BY <1>7, <2>1, <2>2
<1>9. /\ w.tags = tags /\ w.tag = place /\ w.fullscreen = {} /\ w.enabled = enabled
      /\ w.masked = {} /\ w.opening = opening /\ w.gesture = NoGesture
      /\ w.transition = NoTransition /\ w.here /\ w.power_on
      /\ w.settings = settings /\ w.override = "none" /\ w.version = 0
  BY <1>5 DEF FirstWorld, table, initial
<1> HIDE DEF tags
<1>10. w \in Worlds
  <2>1. w.mode \in Modes
    BY <1>2, <1>5, SwipesAssumption DEF FirstWorld, Modes, Situation
  <2>2. place \in [Views -> 0..Limit] /\ enabled \in SUBSET Views
    BY LimitIs
  <2>3. tags \in TagsType(Limit)
    BY <1>8 DEF GoodTable
  <2>4. settings \in [Pointers -> Levels] /\ 0 \in Levels /\ 0 \in 0..MaxReloads
    BY SwipesAssumption DEF Levels
  <2>5. opening \in [Views -> {"no", "pending", "fading"}]
    OBVIOUS
  <2>6. w.direction \in Directions \cup {0} /\ w.saved = 0
    BY <1>5 DEF FirstWorld, Directions
  <2>7. w = [tags |-> w.tags, direction |-> w.direction, tag |-> w.tag,
             fullscreen |-> w.fullscreen, enabled |-> w.enabled, masked |-> w.masked,
             opening |-> w.opening, gesture |-> w.gesture, transition |-> w.transition,
             here |-> w.here, power_on |-> w.power_on, locked |-> w.locked,
             session_active |-> w.session_active, settings |-> w.settings,
             override |-> w.override, saved |-> w.saved, mode |-> w.mode,
             animated |-> w.animated, version |-> w.version]
    BY <1>5 DEF FirstWorld
  <2>8. w.locked \in BOOLEAN /\ w.here \in BOOLEAN /\ w.power_on \in BOOLEAN
        /\ w.session_active \in BOOLEAN /\ w.animated \in BOOLEAN
    BY <1>5 DEF FirstWorld
  <2> HIDE DEF opening, enabled, settings
  <2> QED
    BY <1>9, <2>1, <2>2, <2>3, <2>4, <2>5, <2>6, <2>7, <2>8, NothingTyped, ZenonT(90) DEF Worlds
<1>11. NoOpening(w)
  BY <1>9 DEF NoOpening
<1>12. Still(w)
  <2>1. Loose(w)
    BY <1>9, <1>10 DEF Loose, Cleared, NoGesture
  <2>2. TagsGood(w)
    BY <1>8, <1>9 DEF TagsGood
  <2> QED
    BY <1>9, <1>11, <2>1, <2>2, QuietStill
<1>13. Drawn(w)
  <2>1. HiddenViews(w) = {}
    BY <1>9, <1>11 DEF HiddenViews, Mapped, OnTag, PresentationHidden, HidesView, NoTransition,
                      NoOpening
  <2>2. ASSUME NEW v \in Views, place[v] = id
        PROVE  v \in Members(w)
    <3>1. id = 1 /\ 1 \in 1..initial
      BY <1>6, <2>2
    <3>2. ~tags.focused_is_candidate
      BY <1>8, <3>1 DEF CandidateSound
    <3> QED
      BY <1>8, <1>9, <2>2, <3>1, <3>2 DEF Members, OnTag, CurrentTag
  <2> QED
    BY <1>9, <2>1, <2>2 DEF Drawn, Visible
<1>14. Owned(w) /\ Within(w)
  BY <1>9 DEF Owned, Within, NoTransition, NoGesture
<1>15. Tame(w)
  BY <1>9, SwipesAssumption DEF Tame
<1>16. Watched(w)
  <2>1. 0 \in -Reach..Reach
    BY SituationsAre DEF Reach
  <2> QED
    BY <1>9, <2>1 DEF Watched, NoGesture
<1>17. events \in 0..Situation(around).events
  BY <1>2, SituationsAre
<1> QED
  BY <1>2, <1>12, <1>13, <1>14, <1>15, <1>16, <1>17 DEF SwipeInv, Safe

\* A command is counted, and nothing else is.
LEMMA Counted ==
  ASSUME events \in 0..Situation(around).events,
         \/ UNCHANGED <<events, around>>
         \/ \E s : Become(s)
         \/ events < Situation(around).events /\ events' = events + 1 /\ around' = around
  PROVE  around' = around /\ (events \in 0..Situation(around).events)'
<1>1. CASE UNCHANGED <<events, around>>
  BY <1>1
<1>2. CASE events < Situation(around).events /\ events' = events + 1 /\ around' = around
  BY <1>2, SituationsAre
<1>3. CASE \E s : Become(s)
  BY <1>2, <1>3 DEF Become
<1> QED
  BY <1>1, <1>2, <1>3

LEMMA StepSafe ==
  ASSUME SwipeInv, Surprises = {}, Next
  PROVE  SwipeInv'
<1>1. /\ Safe(w) /\ around \in Scenarios /\ events \in 0..Situation(around).events
      /\ GoodTable(Limit, w.tags)
  BY DEF SwipeInv, Safe, Still, TagsGood
<1>2. ASSUME Safe(w'),
             \/ UNCHANGED <<events, around>>
             \/ \E s : Become(s)
             \/ events < Situation(around).events /\ events' = events + 1 /\ around' = around
      PROVE  SwipeInv'
  <2>1. around' = around /\ (events \in 0..Situation(around).events)'
    BY <1>1, <1>2, Counted
  <2>2. Safe(w)'
    BY <1>2, <2>1, SafePrime
  <2> QED
    BY <1>1, <2>1, <2>2 DEF SwipeInv
<1>3. ASSUME NEW p \in Pointers, SwipeBegin(p) PROVE SwipeInv'
  BY <1>1, <1>2, <1>3, SwipeBeginSafe DEF SwipeBegin
<1>4. ASSUME NEW p \in Pointers, Replug(p) PROVE SwipeInv'
  BY <1>1, <1>2, <1>4, ReplugSafe DEF Replug
<1>5. ASSUME NEW kind, NEW delta \in Int, SwipeUpdate(kind, delta) PROVE SwipeInv'
  BY <1>1, <1>2, <1>5, SwipeUpdateSafe DEF SwipeUpdate
<1>6. ASSUME NEW flick \in Int, NEW cancelled \in BOOLEAN, SwipeEnd(flick, cancelled)
      PROVE  SwipeInv'
  BY <1>1, <1>2, <1>6, SwipeEndSafe DEF SwipeEnd
<1>7. CASE Tick
  BY <1>1, <1>2, <1>7, TickSafe DEF Tick
<1>8. CASE AnimationEnd
  BY <1>1, <1>2, <1>8, AnimationEndSafe DEF AnimationEnd
<1>9. \A id \in w.tags.table \cup {w.tags.max_tags} : id \in 1..Limit
  BY <1>1 DEF GoodTable, TagsType
<1>10. ASSUME NEW id \in 1..Limit, FocusTag(id) PROVE SwipeInv'
  BY <1>1, <1>2, <1>10, FocusTagSafe DEF FocusTag
<1>11. ASSUME NEW direction \in Directions, StepTag(direction) PROVE SwipeInv'
  BY <1>1, <1>2, <1>11, StepTagSafe DEF StepTag
<1>12. CASE FocusLastTag
  BY <1>1, <1>2, <1>12, FocusLastTagSafe DEF FocusLastTag
<1>13. ASSUME NEW v \in Views, Map(v) PROVE SwipeInv'
  BY <1>1, <1>2, <1>13, MapSafe DEF Map
<1>14. ASSUME NEW v \in Views, OpenReady(v) PROVE SwipeInv'
  BY <1>1, <1>2, <1>14, OpenReadySafe DEF OpenReady
<1>15. ASSUME NEW v \in Views, OpenEnds(v) PROVE SwipeInv'
  BY <1>1, <1>2, <1>15, OpenEndsSafe, ZenonT(90) DEF OpenEnds
<1>16. ASSUME NEW v \in Views, Unmap(v) PROVE SwipeInv'
  BY <1>1, <1>2, <1>16, UnmapSafe DEF Unmap
<1>17. ASSUME NEW v \in Views, SetFullscreen(v) PROVE SwipeInv'
  BY <1>1, <1>2, <1>17, SetFullscreenSafe, SMTT(60) DEF SetFullscreen
<1>18. ASSUME NEW v \in Views, NEW id \in 1..Limit, NEW follow \in BOOLEAN,
              MoveToTag(v, id, follow)
       PROVE  SwipeInv'
  BY <1>1, <1>2, <1>18, MoveToTagSafe DEF MoveToTag
<1>19. CASE Lock
  BY <1>1, <1>2, <1>19, LockSafe DEF Lock
<1>20. CASE Unlock
  BY <1>1, <1>2, <1>20, UnlockSafe DEF Unlock
<1>21. CASE LeaveSession
  BY <1>1, <1>2, <1>21, LeaveSessionSafe DEF LeaveSession
<1>22. CASE EnterSession
  BY <1>1, <1>2, <1>22, EnterSessionSafe DEF EnterSession
<1>23. CASE FocusOutput
  BY <1>1, <1>2, <1>23, FocusOutputSafe DEF FocusOutput
<1>24. CASE SwitchPower
  BY <1>1, <1>2, <1>24, SwitchPowerSafe, SMTT(60) DEF SwitchPower
<1>25. ASSUME NEW maximum \in 1..Limit, Reload(maximum) PROVE SwipeInv'
  BY <1>1, <1>2, <1>25, ReloadSafe DEF Reload
<1>26. /\ \A delta \in EitherWay(Situation(around).steps) : delta \in Int
       /\ \A flick \in EitherWay(Flicks) : flick \in Int
       /\ \A maximum \in Situation(around).maxima : maximum \in 1..Limit
       /\ 0 \in Int /\ TRUE \in BOOLEAN /\ FALSE \in BOOLEAN
  BY SituationsAre, SwipesAssumption, LimitIs DEF EitherWay
<1> QED
  BY <1>3, <1>4, <1>5, <1>6, <1>7, <1>8, <1>9, <1>10, <1>11, <1>12, <1>13, <1>14, <1>15,
     <1>16, <1>17, <1>18, <1>19, <1>20, <1>21, <1>22, <1>23, <1>24, <1>25, <1>26 DEF Next

LEMMA KeptSafe ==
  ASSUME SwipeInv, Surprises = {}, [Next]_vars
  PROVE  SwipeInv'
<1>1. CASE Next
  BY <1>1, StepSafe
<1>2. CASE UNCHANGED vars
  <2>1. w' = w /\ events' = events /\ around' = around
    BY <1>2 DEF vars
  <2>2. Safe(w)'
    BY <2>1, SafePrime DEF SwipeInv
  <2> QED
    BY <2>1, <2>2 DEF SwipeInv
<1> QED
  BY <1>1, <1>2

\* The invariant holds in every session without the interleavings that are
\* looked at apart.
LEMMA AlwaysSafe == Surprises = {} => (Spec => []SwipeInv)
<1>1. Init => SwipeInv
  BY StartSafe
<1>2. ASSUME Surprises = {}
      PROVE  SwipeInv /\ [Next]_vars => SwipeInv'
  BY <1>2, KeptSafe
<1>3. ASSUME Surprises = {}
      PROVE  Spec => []SwipeInv
  BY <1>1, <1>2, <1>3, PTL DEF Spec
<1> QED
  BY <1>3

LEMMA TypeHolds ==
  ASSUME SwipeInv
  PROVE  TypeOK
<1> DEFINE situation == Situation(around)
           limit == CHOOSE m \in situation.maxima : \A other \in situation.maxima : other <= m
<1>1. limit = Limit /\ situation.reach = Reach
  BY DEF Limit, Reach
<1>2. /\ w \in Worlds /\ w.gesture.displacement \in -Reach..Reach
      /\ w.gesture \in Gestures /\ w.transition \in Transitions
  BY DEF SwipeInv, Safe, Still, Watched, Worlds
<1>3. /\ w.tags \in TagsType(Limit) /\ w.tag \in [Views -> 0..Limit]
      /\ w.enabled \subseteq Views /\ w.masked \subseteq Views
      /\ w.fullscreen \subseteq Fullscreens
      /\ w.opening \in [Views -> {"no", "pending", "fading"}]
      /\ w.override \in Pointers \cup {"none"}
      /\ w.settings \in [Pointers -> {Overridden} \cup 0..MaxReloads]
  BY <1>2 DEF Worlds, Levels
<1>4. /\ w.gesture.pointer \in Pointers \cup {"none"}
      /\ w.gesture.ring \subseteq 1..Limit /\ w.transition.ring \subseteq 1..Limit
      /\ w.transition.animation \in {"none", "slide", "spring"}
  BY <1>2 DEF Gestures, Transitions
<1> HIDE DEF situation, limit
<1>5. TypeOK <=>
        /\ w.tags \in TagsType(limit) /\ w.tag \in [Views -> 0..limit]
        /\ w.enabled \subseteq Views /\ w.masked \subseteq Views
        /\ w.fullscreen \subseteq Fullscreens
        /\ w.opening \in [Views -> {"no", "pending", "fading"}]
        /\ w.gesture.pointer \in Pointers \cup {"none"} /\ w.gesture.ring \subseteq 1..limit
        /\ w.gesture.displacement \in -situation.reach..situation.reach
        /\ w.transition.ring \subseteq 1..limit
        /\ w.transition.animation \in {"none", "slide", "spring"}
        /\ w.override \in Pointers \cup {"none"}
        /\ w.settings \in [Pointers -> {Overridden} \cup 0..MaxReloads]
        /\ events \in 0..situation.events
  BY DEF TypeOK, situation, limit
<1>6. events \in 0..situation.events
  BY DEF SwipeInv, situation
<1> QED
  BY <1>1, <1>2, <1>3, <1>4, <1>5, <1>6

LEMMA PairHolds ==
  ASSUME SwipeInv
  PROVE  PairCached
<1> DEFINE cache == w.transition.cache
<1>1. cache \in Seq(1..Limit)
  BY DEF SwipeInv, Safe, Still, Worlds, Transitions
<1>2. SUFFICES ASSUME w.transition.active
      PROVE  /\ {w.transition.outgoing, w.transition.incoming} \subseteq ToSet(cache)
             /\ Len(cache) <= CacheSize /\ Cardinality(ToSet(cache)) = Len(cache)
  BY DEF PairCached
<1>3. Showing(w, w.transition)
  BY <1>2 DEF SwipeInv, Safe, Still, Presented
<1>4. /\ {w.transition.outgoing, w.transition.incoming} \subseteq ToSet(cache)
      /\ Len(cache) <= CacheSize /\ Distinct(cache)
  BY <1>3 DEF Showing
<1> HIDE DEF cache
<1>5. ToSet(cache) = Elements(cache)
  BY DEF ToSet, Elements
<1> QED
  BY <1>1, <1>4, <1>5, DistinctLength

LEMMA SettleHolds ==
  ASSUME SwipeInv
  PROVE  SettlesOnFocus
<1> SUFFICES ASSUME w.transition.animation = "spring"
    PROVE  RingAt(w.transition.ring, w.transition.to) = w.tags.focused_id
  BY DEF SettlesOnFocus
<1>1. w.transition.active
  <2>1. NoTransition.animation # "spring"
    BY DEF NoTransition
  <2> QED
    BY <2>1 DEF SwipeInv, Safe, Still, Cleared
<1> QED
  BY <1>1 DEF SwipeInv, Safe, Still, Presented, Showing

LEMMA EngagedActive ==
  ASSUME SwipeInv
  PROVE  w.gesture.engaged => w.gesture.active
<1>1. NoGesture.engaged = FALSE
  BY DEF NoGesture
<1> QED
  BY <1>1 DEF SwipeInv, Safe, Still, Cleared

\* A transition has exactly one owner, an animation or the engaged swipe; a swipe
\* goes on only on a screen that is lit, unlocked and ours; both tags of the pair
\* are cached once each, and a spring leads to the tag in focus
\* (render/workspace_transition.c, input/pointer.c).
THEOREM TransitionsStaySound == Surprises = {} => (Spec => []TransitionSound)
<1>1. SwipeInv => TypeOK /\ PairCached /\ SettlesOnFocus
  BY TypeHolds, PairHolds, SettleHolds
<1>2. SwipeInv => SwipesOnScreen
  BY EngagedActive DEF SwipeInv, Safe, Watched, SwipesOnScreen
<1>3. SwipeInv => TransitionOwned
  BY DEF SwipeInv, Safe, Owned, TransitionOwned
<1>4. SwipeInv => TransitionSound
  BY <1>1, <1>2, <1>3 DEF TransitionSound
<1> QED
  BY <1>4, AlwaysSafe, PTL

\* A window is transparent exactly while a snapshot stands in for it, and only the
\* windows of the focused tag are on the screen (render/view.c).
THEOREM WindowsStaySound == Surprises = {} => (Spec => []WindowsSound)
<1>1. SwipeInv => MasksAgree
  BY DEF SwipeInv, Safe, Drawn, HiddenViews, MasksAgree
<1>2. SwipeInv => HiddenTagsHidden
  BY DEF SwipeInv, Safe, Drawn, Visible, Members, OnTag, HiddenTagsHidden
<1>3. SwipeInv => WindowsSound
  BY <1>1, <1>2 DEF WindowsSound
<1> QED
  BY <1>3, AlwaysSafe, PTL

\* A touchpad is flat during its swipe alone, and afterwards has the settings of the
\* configuration in force, reloaded meanwhile or not (input/gesture_accel.c).
THEOREM AccelerationRestored == Surprises = {} => (Spec => []AccelRestored)
<1>1. SwipeInv => AccelRestored
  BY DEF SwipeInv, Safe, Tame, AccelRestored
<1> QED
  BY <1>1, AlwaysSafe, PTL
=============================================================================
