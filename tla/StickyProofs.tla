---------------------------- MODULE StickyProofs ----------------------------
(***************************************************************************)
(* The records of sticky groups are sound, groups stay on outputs that are *)
(* on, the keyboard stays within reach and nothing strays, for every       *)
(* number of windows, outputs and tags, and for every preparation that may *)
(* fail.  As in the run, the surprises of Sticky do not happen.            *)
(*                                                                         *)
(* The invariant is stated of a state s, so that it can be followed        *)
(* through the operations of one handler; a change of outputs breaks parts *)
(* of it until its last step, so the parts are separate.                   *)
(***************************************************************************)
EXTENDS StickyProperties, DataProofs, SequenceTheorems

Groups == [root : Views \cup {NONE}, members : Seq(Views),
           parent : [Views -> Views \cup {NONE}], pending : BOOLEAN]

Desks ==
  [list : Seq(Outputs), on : SUBSET Outputs, power : SUBSET Outputs,
   fo : Outputs \cup {NONE}, panel : SUBSET Outputs,
   current : [Outputs -> Tags], table : [Outputs -> SUBSET Tags],
   view : [Views -> Owned], groups : Seq(Groups), focused : Views \cup {NONE},
   dead : BOOLEAN, failed : BOOLEAN]

\* A group as it is linked: roots first, dialogs after their parents; one that
\* waits may have lost all its windows.
Linked(g) ==
  /\ \A i, j \in DOMAIN g.members : g.members[i] = g.members[j] => i = j
  /\ g.members = <<>> => g.pending
  /\ g.pending <=> g.root = NONE
  /\ ~g.pending => g.members[1] = g.root /\ g.parent[g.root] = NONE
  /\ \A i \in DOMAIN g.members :
       g.parent[g.members[i]] = NONE
       \/ \E j \in 1 .. (i - 1) : g.members[j] = g.parent[g.members[i]]

In(s, v, k) == v \in Elements(s.groups[k].members)

\* Every sticky window is in one group, and no two groups with windows wait.
Grouped(s) ==
  /\ \A k \in DOMAIN s.groups : Linked(s.groups[k])
  /\ \A v \in Views : s.view[v].kind = "sticky" <=> \E k \in DOMAIN s.groups : In(s, v, k)
  /\ \A j, k \in DOMAIN s.groups : \A v \in Views : In(s, v, j) /\ In(s, v, k) => j = k
  /\ \A j, k \in DOMAIN s.groups :
       WindowsWait(s.groups[j]) /\ WindowsWait(s.groups[k]) => j = k

\* The windows of a group are on one output; a group that waits is on none.
Gathered(s) ==
  \A k \in DOMAIN s.groups : \A u, v \in Views :
    /\ In(s, u, k) /\ In(s, v, k) => s.view[u].output = s.view[v].output
    /\ In(s, v, k) /\ s.groups[k].pending => s.view[v].output = NONE

\* What is drawn, by the kind of window.
Seen(s) ==
  \A v \in Views :
    /\ s.view[v].kind = "none" => ~s.view[v].shown
    /\ s.view[v].kind = "tag" => s.view[v].output \in Outputs /\ s.view[v].tag \in Tags
    /\ s.view[v].kind = "sticky" => (s.view[v].shown <=> s.view[v].output # NONE)

\* The keyboard is with a window that is drawn; a window of a tag has it only
\* on the output that has the focus.
Keyed(s) ==
  s.focused # NONE =>
    /\ s.view[s.focused].shown
    /\ s.view[s.focused].kind = "tag" => s.view[s.focused].output = s.fo

\* What every operation keeps, those in the middle of a change of outputs too.
Core(s) == /\ s \in Desks /\ ~s.dead
           /\ Grouped(s) /\ Gathered(s) /\ Seen(s) /\ Keyed(s)

Anchored(s) ==
  \A v \in Views : s.view[v].kind = "sticky" /\ s.view[v].output \in s.on
                   => s.view[v].anchor = Area(s, s.view[v].output)

\* A sticky window that is not on an output that is on is suspended, or follows
\* the focus to the successor of an output that was unplugged.
Housed(s) ==
  \A v \in Views : s.view[v].kind = "sticky" => s.view[v].output \in s.on \cup {s.fo, NONE}

\* The output that has the focus is on, unless every output is off.
Lit(s) ==
  /\ s.on \subseteq Elements(s.list)
  /\ s.fo = NONE => s.on = {}
  /\ s.fo # NONE => s.fo \in Elements(s.list) /\ (s.fo \in s.on \/ (s.on = {} /\ s.failed))

\* Why a group may be suspended.
Excused(s) ==
  \A k \in DOMAIN s.groups : \A v \in Views :
    In(s, v, k) /\ s.view[v].output = NONE
    => s.on = {} \/ s.failed \/ (s.groups[k].pending /\ "unmap" \in Faults)

Sound(s) == Core(s) /\ Anchored(s) /\ Housed(s) /\ Lit(s) /\ Excused(s)

\* A group that has lost its windows.
Empty(s) == \E k \in DOMAIN s.groups : s.groups[k].members = <<>>

IInv ==
  /\ Sound(w)
  /\ plugs \in 0 .. MaxPlugs
  /\ asked \in [op : {"outputs", "other"}, ok : BOOLEAN]
  /\ asked.ok \/ Empty(w)

-----------------------------------------------------------------------------
(* Lists.                                                                  *)

\* Linking an element in front.
LEMMA PushedIs ==
  ASSUME NEW V, NEW q \in Seq(V), NEW x \in V
  PROVE  /\ <<x>> \o q \in Seq(V) /\ Len(<<x>> \o q) = Len(q) + 1
         /\ (<<x>> \o q)[1] = x
         /\ \A i \in 2 .. Len(q) + 1 : (<<x>> \o q)[i] = q[i - 1]
<1> QED
  OBVIOUS

\* Unlinking the element at a place.
LEMMA RemovedAtIs ==
  ASSUME NEW V, NEW q \in Seq(V), NEW k \in DOMAIN q
  PROVE  /\ RemoveAt(q, k) \in Seq(V) /\ Len(RemoveAt(q, k)) = Len(q) - 1
         /\ \A i \in 1 .. Len(q) - 1 : RemoveAt(q, k)[i] = IF i < k THEN q[i] ELSE q[i + 1]
<1> DEFINE a == SubSeq(q, 1, k - 1)
           b == SubSeq(q, k + 1, Len(q))
<1>1. Len(q) \in Nat /\ k \in 1 .. Len(q) /\ k \in Nat
  OBVIOUS
<1>2. a \in Seq(V) /\ Len(a) = k - 1 /\ \A i \in 1 .. k - 1 : a[i] = q[i]
  BY <1>1, SubSeqProperties
<1>3. b \in Seq(V) /\ Len(b) = Len(q) - k /\ \A i \in 1 .. Len(q) - k : b[i] = q[k + i]
  BY <1>1, SubSeqProperties
<1> HIDE DEF a, b
<1>4. a \o b \in Seq(V) /\ Len(a \o b) = Len(q) - 1
  BY <1>1, <1>2, <1>3, ConcatProperties
<1>5. \A i \in 1 .. Len(q) - 1 : (a \o b)[i] = IF i < k THEN q[i] ELSE q[i + 1]
  <2>1. TAKE i \in 1 .. Len(q) - 1
  <2>5. Len(a) + Len(b) = Len(q) - 1
    BY <1>1, <1>2, <1>3
  <2>2. (a \o b)[i] = IF i <= Len(a) THEN a[i] ELSE b[i - Len(a)]
    BY <1>1, <1>2, <1>3, <2>5, ConcatProperties, SMTT(90)
  <2>3. CASE i < k
    BY <1>1, <1>2, <2>2, <2>3
  <2>4. CASE ~(i < k)
    <3>1. i - (k - 1) \in 1 .. Len(q) - k /\ k + (i - (k - 1)) = i + 1
      BY <1>1, <2>4
    <3> QED
      BY <1>1, <1>2, <1>3, <2>2, <2>4, <3>1, SMTT(60)
  <2> QED
    BY <2>3, <2>4
<1> QED
  BY <1>4, <1>5 DEF RemoveAt, a, b

\* The list r is q with x linked at the place k.
Inserted(V, q, r, k, x) ==
  /\ r \in Seq(V) /\ Len(r) = Len(q) + 1
  /\ \A i \in 1 .. Len(q) + 1 : r[i] = IF i < k THEN q[i] ELSE IF i = k THEN x ELSE q[i - 1]

LEMMA InsertedAtIs ==
  ASSUME NEW V, NEW q \in Seq(V), NEW x \in V, NEW k \in 1 .. Len(q) + 1
  PROVE  Inserted(V, q, InsertAt(q, k, x), k, x)
<1> DEFINE a == SubSeq(q, 1, k - 1)
           b == SubSeq(q, k, Len(q))
           c == a \o <<x>>
<1>1. Len(q) \in Nat /\ k \in Nat
  OBVIOUS
<1>2. a \in Seq(V) /\ Len(a) = k - 1 /\ \A i \in 1 .. k - 1 : a[i] = q[i]
  BY <1>1, SubSeqProperties
<1>3. b \in Seq(V) /\ Len(b) = Len(q) - k + 1
      /\ \A i \in 1 .. Len(q) - k + 1 : b[i] = q[k + i - 1]
  BY <1>1, SubSeqProperties
<1>4. <<x>> \in Seq(V) /\ Len(<<x>>) = 1 /\ <<x>>[1] = x
  OBVIOUS
<1> HIDE DEF a, b
<1>5. c \in Seq(V) /\ Len(c) = k /\ c[k] = x /\ \A i \in 1 .. k - 1 : c[i] = q[i]
  BY <1>1, <1>2, <1>4, ConcatProperties
<1> HIDE DEF c
<1>6. c \o b \in Seq(V) /\ Len(c \o b) = Len(q) + 1
  BY <1>1, <1>3, <1>5, ConcatProperties
<1>7. \A i \in 1 .. Len(q) + 1 :
        (c \o b)[i] = IF i < k THEN q[i] ELSE IF i = k THEN x ELSE q[i - 1]
  <2>1. TAKE i \in 1 .. Len(q) + 1
  <2>2. (c \o b)[i] = IF i <= Len(c) THEN c[i] ELSE b[i - Len(c)]
    BY <1>1, <1>3, <1>5, ConcatProperties
  <2>3. CASE i <= k
    BY <1>1, <1>5, <2>2, <2>3
  <2>4. CASE ~(i <= k)
    <3>1. i - k \in 1 .. Len(q) - k + 1 /\ k + (i - k) - 1 = i - 1
      BY <1>1, <2>4
    <3> QED
      BY <1>1, <1>3, <1>5, <2>2, <2>4, <3>1
  <2> QED
    BY <2>3, <2>4
<1> QED
  BY <1>6, <1>7 DEF Inserted, InsertAt, a, b, c

-----------------------------------------------------------------------------
(* What the operators change.                                              *)

SameRooms(s, u) == /\ u.list = s.list /\ u.on = s.on /\ u.power = s.power
                   /\ u.panel = s.panel /\ u.dead = s.dead /\ u.failed = s.failed
SameTags(s, u) == u.current = s.current /\ u.table = s.table
SameKeys(s, u) == u.fo = s.fo /\ u.focused = s.focused

LEMMA DeskFields ==
  ASSUME NEW s \in Desks
  PROVE  /\ s.list \in Seq(Outputs) /\ s.on \subseteq Outputs /\ s.power \subseteq Outputs
         /\ s.fo \in Outputs \cup {NONE} /\ s.panel \subseteq Outputs
         /\ s.current \in [Outputs -> Tags] /\ s.table \in [Outputs -> SUBSET Tags]
         /\ s.view \in [Views -> Owned] /\ s.groups \in Seq(Groups)
         /\ s.focused \in Views \cup {NONE} /\ s.dead \in BOOLEAN /\ s.failed \in BOOLEAN
<1> QED
  BY DEF Desks

LEMMA ViewFields ==
  ASSUME NEW s \in Desks, NEW v \in Views
  PROVE  /\ s.view[v] \in Owned /\ s.view[v].kind \in {"none", "tag", "sticky"}
         /\ s.view[v].output \in Outputs \cup {NONE} /\ s.view[v].tag \in Tags \cup {0}
         /\ s.view[v].shown \in BOOLEAN
<1>1. s.view[v] \in Owned
  BY DeskFields
<1> QED
  BY <1>1 DEF Owned

LEMMA GroupFields ==
  ASSUME NEW s \in Desks, NEW k \in DOMAIN s.groups
  PROVE  /\ s.groups[k] \in Groups
         /\ s.groups[k].root \in Views \cup {NONE} /\ s.groups[k].members \in Seq(Views)
         /\ s.groups[k].parent \in [Views -> Views \cup {NONE}]
         /\ s.groups[k].pending \in BOOLEAN
         /\ Elements(s.groups[k].members) \subseteq Views
<1>1. s.groups[k] \in Groups
  BY DeskFields
<1>2. s.groups[k].members \in Seq(Views)
  BY <1>1 DEF Groups
<1>3. \A i \in DOMAIN s.groups[k].members : s.groups[k].members[i] \in Views
  BY <1>2
<1> QED
  BY <1>1, <1>2, <1>3 DEF Groups, Elements

\* What an edit leaves of a window.
LEMMA OwnedEdits ==
  ASSUME NEW x \in Owned, NEW o, NEW b, NEW a, NEW t
  PROVE  /\ LET y == [x EXCEPT !.anchor = a]
            IN y.kind = x.kind /\ y.output = x.output /\ y.tag = x.tag /\ y.shown = x.shown
               /\ y.anchor = a
         /\ LET y == [x EXCEPT !.output = o, !.shown = b]
            IN y.kind = x.kind /\ y.output = o /\ y.tag = x.tag /\ y.shown = b
               /\ y.anchor = x.anchor
         /\ LET y == [x EXCEPT !.kind = "tag", !.output = o, !.tag = t, !.anchor = a]
            IN y.kind = "tag" /\ y.output = o /\ y.tag = t /\ y.shown = x.shown /\ y.anchor = a
         /\ LET y == [x EXCEPT !.shown = b]
            IN y.kind = x.kind /\ y.output = x.output /\ y.tag = x.tag /\ y.shown = b
               /\ y.anchor = x.anchor
         /\ LET y == [x EXCEPT !.output = o]
            IN y.kind = x.kind /\ y.output = o /\ y.tag = x.tag /\ y.shown = x.shown
               /\ y.anchor = x.anchor
<1> QED
  BY DEF Owned

\* A state with other windows.
LEMMA ViewsEdit ==
  ASSUME NEW s \in Desks, NEW f \in [Views -> Owned]
  PROVE  LET u == [s EXCEPT !.view = f]
         IN u \in Desks /\ SameRooms(s, u) /\ SameTags(s, u) /\ SameKeys(s, u)
            /\ u.groups = s.groups /\ u.view = f
<1> QED
  BY DEF Desks, SameRooms, SameTags, SameKeys

\* In u, the windows of vs are on the output o, anchored to the area a.
Houses(s, u, vs, o, a) ==
  /\ u \in Desks /\ SameRooms(s, u) /\ SameTags(s, u) /\ SameKeys(s, u) /\ u.groups = s.groups
  /\ \A v \in Views :
       IF v \in vs
       THEN /\ u.view[v].kind = s.view[v].kind /\ u.view[v].tag = s.view[v].tag
            /\ u.view[v].output = o /\ (u.view[v].shown <=> o # NONE)
            /\ o # NONE => u.view[v].anchor = a
       ELSE u.view[v] = s.view[v]

\* In u, the windows of vs are on the output o, or suspended.
Presents(s, u, vs, o) ==
  /\ u \in Desks /\ SameRooms(s, u) /\ SameTags(s, u) /\ SameKeys(s, u) /\ u.groups = s.groups
  /\ \A v \in Views : u.view[v] =
       IF v \in vs THEN [s.view[v] EXCEPT !.output = o, !.shown = o # NONE] ELSE s.view[v]

LEMMA PresentIs ==
  ASSUME NEW s \in Desks, NEW vs, NEW o \in Outputs \cup {NONE}
  PROVE  Presents(s, Present(s, vs, o), vs, o)
<1> DEFINE f == [v \in Views |->
                   IF v \in vs THEN [s.view[v] EXCEPT !.output = o, !.shown = o # NONE]
                   ELSE s.view[v]]
<1>1. f \in [Views -> Owned]
  <2>1. SUFFICES ASSUME NEW v \in Views PROVE f[v] \in Owned
    OBVIOUS
  <2>2. s.view[v] \in Owned
    BY ViewFields
  <2> QED
    BY <2>2 DEF Owned
<1>2. Present(s, vs, o) = [s EXCEPT !.view = f]
  BY DEF Present
<1>3. \A v \in Views : f[v] = IF v \in vs
                              THEN [s.view[v] EXCEPT !.output = o, !.shown = o # NONE]
                              ELSE s.view[v]
  OBVIOUS
<1> HIDE DEF f
<1> DEFINE u == [s EXCEPT !.view = f]
<1>4. /\ u \in Desks /\ SameRooms(s, u) /\ SameTags(s, u) /\ SameKeys(s, u)
      /\ u.groups = s.groups /\ u.view = f
  BY <1>1, ViewsEdit
<1> HIDE DEF u
<1>5. Presents(s, u, vs, o)
  BY <1>3, <1>4 DEF Presents
<1> QED
  BY <1>2, <1>5 DEF u

\* In u, the windows of vs are anchored to the area a.
Anchors(s, u, vs, a) ==
  /\ u \in Desks /\ SameRooms(s, u) /\ SameTags(s, u) /\ SameKeys(s, u) /\ u.groups = s.groups
  /\ \A v \in Views : u.view[v] =
       IF v \in vs THEN [s.view[v] EXCEPT !.anchor = a] ELSE s.view[v]

LEMMA AnchorIs ==
  ASSUME NEW s \in Desks, NEW vs, NEW a \in (Outputs \cup {NONE}) \X BOOLEAN
  PROVE  Anchors(s, Anchor(s, vs, a), vs, a)
<1> DEFINE f == [v \in Views |-> IF v \in vs THEN [s.view[v] EXCEPT !.anchor = a] ELSE s.view[v]]
<1>1. f \in [Views -> Owned]
  <2>1. SUFFICES ASSUME NEW v \in Views PROVE f[v] \in Owned
    OBVIOUS
  <2>2. s.view[v] \in Owned
    BY ViewFields
  <2> QED
    BY <2>2 DEF Owned
<1>2. Anchor(s, vs, a) = [s EXCEPT !.view = f]
  BY DEF Anchor
<1>3. \A v \in Views : f[v] = IF v \in vs THEN [s.view[v] EXCEPT !.anchor = a] ELSE s.view[v]
  OBVIOUS
<1> HIDE DEF f
<1> QED
  BY <1>1, <1>2, <1>3, ViewsEdit DEF Anchors

\* The windows of a group are suspended.
LEMMA PresentHouses ==
  ASSUME NEW s \in Desks, NEW vs, NEW a
  PROVE  Houses(s, Present(s, vs, NONE), vs, NONE, a)
<1> DEFINE p == Present(s, vs, NONE)
<1>0. Presents(s, p, vs, NONE)
  BY PresentIs
<1> HIDE DEF p
<1>1. /\ p \in Desks /\ SameRooms(s, p) /\ SameTags(s, p) /\ SameKeys(s, p)
      /\ p.groups = s.groups
      /\ \A v \in Views : p.view[v] =
              IF v \in vs THEN [s.view[v] EXCEPT !.output = NONE, !.shown = NONE # NONE]
              ELSE s.view[v]
  BY <1>0 DEF Presents
<1>2. ASSUME NEW v \in Views, v \in vs
      PROVE  /\ p.view[v].kind = s.view[v].kind /\ p.view[v].tag = s.view[v].tag
             /\ p.view[v].output = NONE /\ ~p.view[v].shown
  <2>1. s.view[v] \in Owned
    BY ViewFields
  <2>2. p.view[v] = [s.view[v] EXCEPT !.output = NONE, !.shown = FALSE]
    BY <1>1, <1>2
  <2> QED
    BY <2>1, <2>2, OwnedEdits
<1>3. Houses(s, p, vs, NONE, a)
  BY <1>1, <1>2 DEF Houses
<1> QED
  BY <1>3 DEF p

\* The windows of a group are presented on an output.
LEMMA AnchorHouses ==
  ASSUME NEW s \in Desks, NEW vs, NEW o \in Outputs,
         NEW a \in (Outputs \cup {NONE}) \X BOOLEAN
  PROVE  Houses(s, Anchor(Present(s, vs, o), vs, a), vs, o, a)
<1> DEFINE p == Present(s, vs, o)
           u == Anchor(p, vs, a)
<1>10. Presents(s, p, vs, o)
  BY PresentIs
<1> HIDE DEF p
<1>1. /\ p \in Desks /\ SameRooms(s, p) /\ SameTags(s, p) /\ SameKeys(s, p)
      /\ p.groups = s.groups
      /\ \A v \in Views : p.view[v] =
              IF v \in vs THEN [s.view[v] EXCEPT !.output = o, !.shown = o # NONE]
              ELSE s.view[v]
  BY <1>10 DEF Presents
<1>11. Anchors(p, u, vs, a)
  BY <1>1, AnchorIs
<1> HIDE DEF u
<1>2. /\ u \in Desks /\ SameRooms(p, u) /\ SameTags(p, u) /\ SameKeys(p, u)
      /\ u.groups = p.groups
      /\ \A v \in Views : u.view[v] =
              IF v \in vs THEN [p.view[v] EXCEPT !.anchor = a] ELSE p.view[v]
  BY <1>11 DEF Anchors
<1>4. o # NONE
  BY StickyAssumption
<1>3. ASSUME NEW v \in Views, v \in vs
      PROVE  /\ u.view[v].kind = s.view[v].kind /\ u.view[v].tag = s.view[v].tag
             /\ u.view[v].output = o /\ u.view[v].shown /\ u.view[v].anchor = a
  <2>1. s.view[v] \in Owned /\ p.view[v] \in Owned
    BY <1>1, ViewFields
  <2>3. p.view[v] = [s.view[v] EXCEPT !.output = o, !.shown = TRUE]
    BY <1>1, <1>3, <1>4
  <2>4. /\ p.view[v].kind = s.view[v].kind /\ p.view[v].tag = s.view[v].tag
        /\ p.view[v].output = o /\ p.view[v].shown
    BY <2>1, <2>3, OwnedEdits
  <2>5. u.view[v] = [p.view[v] EXCEPT !.anchor = a]
    BY <1>2, <1>3
  <2> QED
    BY <2>1, <2>4, <2>5, OwnedEdits
<1>5. \A v \in Views : v \notin vs => u.view[v] = s.view[v]
  BY <1>1, <1>2
<1>6. SameRooms(s, u) /\ SameTags(s, u) /\ SameKeys(s, u) /\ u.groups = s.groups
  BY <1>1, <1>2 DEF SameRooms, SameTags, SameKeys
<1>7. Houses(s, u, vs, o, a)
  BY <1>2, <1>3, <1>4, <1>5, <1>6 DEF Houses
<1> QED
  BY <1>7 DEF u, p

\* In u, the windows of vs are windows of the tag t of o.
Attaches(s, u, vs, o, t) ==
  /\ u \in Desks /\ SameRooms(s, u) /\ SameKeys(s, u) /\ u.groups = s.groups
  /\ u.current = s.current /\ u.table = [s.table EXCEPT ![o] = @ \cup {t}]
  /\ \A v \in Views :
       IF v \in vs
       THEN /\ u.view[v].kind = "tag" /\ u.view[v].output = o /\ u.view[v].tag = t
            /\ u.view[v].shown = s.view[v].shown
       ELSE u.view[v] = s.view[v]

LEMMA AttachIs ==
  ASSUME NEW s \in Desks, NEW vs, NEW o \in Outputs, NEW t \in Tags
  PROVE  Attaches(s, Attach(s, vs, o, t), vs, o, t)
<1> DEFINE f == [v \in Views |->
                   IF v \in vs THEN [s.view[v] EXCEPT !.kind = "tag", !.output = o, !.tag = t,
                                                      !.anchor = NoArea]
                   ELSE s.view[v]]
           g == [s.table EXCEPT ![o] = @ \cup {t}]
           u == [s EXCEPT !.table = g, !.view = f]
<1>1. f \in [Views -> Owned]
  <2>1. SUFFICES ASSUME NEW v \in Views PROVE f[v] \in Owned
    OBVIOUS
  <2>2. s.view[v] \in Owned
    BY ViewFields
  <2>3. NoArea \in (Outputs \cup {NONE}) \X BOOLEAN
    BY DEF NoArea
  <2> HIDE DEF NoArea
  <2> QED
    BY <2>2, <2>3 DEF Owned
<1>2. g \in [Outputs -> SUBSET Tags]
  BY DeskFields
<1>3. Attach(s, vs, o, t) = u
  BY DEF Attach
<1>4. ASSUME NEW v \in Views
      PROVE  IF v \in vs
             THEN /\ f[v].kind = "tag" /\ f[v].output = o /\ f[v].tag = t
                  /\ f[v].shown = s.view[v].shown
             ELSE f[v] = s.view[v]
  <2>1. s.view[v] \in Owned
    BY ViewFields
  <2>2. CASE v \in vs
    <3>1. f[v] = [s.view[v] EXCEPT !.kind = "tag", !.output = o, !.tag = t, !.anchor = NoArea]
      BY <2>2
    <3> HIDE DEF f
    <3> QED
      BY <2>1, <2>2, <3>1, OwnedEdits
  <2> QED
    BY <2>2
<1>5. g = [s.table EXCEPT ![o] = @ \cup {t}]
  OBVIOUS
<1> HIDE DEF f, g
<1>6. /\ u \in Desks /\ SameRooms(s, u) /\ SameKeys(s, u) /\ u.groups = s.groups
      /\ u.current = s.current /\ u.table = g /\ u.view = f
  BY <1>1, <1>2 DEF Desks, SameRooms, SameKeys
<1> HIDE DEF u
<1> QED
  BY <1>3, <1>4, <1>5, <1>6 DEF Attaches

-----------------------------------------------------------------------------
(* Groups and their windows.                                               *)

LEMMA GroupOfIs ==
  ASSUME NEW s \in Desks, NEW v \in Views
  PROVE  \/ GroupOf(s, v) = 0 /\ \A k \in DOMAIN s.groups : ~In(s, v, k)
         \/ GroupOf(s, v) # 0 /\ GroupOf(s, v) \in DOMAIN s.groups /\ In(s, v, GroupOf(s, v))
<1> DEFINE at == {k \in DOMAIN s.groups : v \in Elements(s.groups[k].members)}
<1>1. GroupOf(s, v) = IF at = {} THEN 0 ELSE CHOOSE k \in at : TRUE
  BY DEF GroupOf
<1>2. \A k \in DOMAIN s.groups : k # 0 /\ (k \in at <=> In(s, v, k))
  <2>1. s.groups \in Seq(Groups)
    BY DeskFields
  <2> QED
    BY <2>1 DEF In
<1>3. at # {} => (CHOOSE k \in at : TRUE) \in at
  <2> HIDE DEF at
  <2> QED
    OBVIOUS
<1>4. at \subseteq DOMAIN s.groups
  OBVIOUS
<1> HIDE DEF at
<1> QED
  BY <1>1, <1>2, <1>3, <1>4

LEMMA GroupOfMember ==
  ASSUME NEW s \in Desks, Grouped(s), NEW k \in DOMAIN s.groups, NEW v \in Views, In(s, v, k)
  PROVE  GroupOf(s, v) = k
<1> QED
  BY GroupOfIs DEF Grouped

\* The windows that belong to a group are the sticky ones.
LEMMA GroupOfSticky ==
  ASSUME NEW s \in Desks, Grouped(s), NEW v \in Views
  PROVE  /\ GroupOf(s, v) # 0 <=> s.view[v].kind = "sticky"
         /\ IsSticky(s, v) <=> s.view[v].kind = "sticky"
         /\ s.view[v].kind = "sticky" =>
              GroupOf(s, v) \in DOMAIN s.groups /\ In(s, v, GroupOf(s, v))
<1> QED
  BY GroupOfIs DEF Grouped, IsSticky

\* The root of a group that does not wait is its first window.
LEMMA RootIs ==
  ASSUME NEW s \in Desks, Grouped(s), NEW k \in DOMAIN s.groups, ~s.groups[k].pending
  PROVE  s.groups[k].root \in Views /\ In(s, s.groups[k].root, k)
<1>1. Linked(s.groups[k]) /\ s.groups[k].members \in Seq(Views)
      /\ s.groups[k].root \in Views \cup {NONE}
  BY GroupFields DEF Grouped
<1>2. s.groups[k].members # <<>> /\ s.groups[k].members[1] = s.groups[k].root
      /\ s.groups[k].root # NONE
  BY <1>1 DEF Linked
<1>3. 1 \in DOMAIN s.groups[k].members
  BY <1>1, <1>2
<1> QED
  BY <1>1, <1>2, <1>3 DEF In, Elements

\* A group follows the output that its windows are on.
LEMMA FollowedIs ==
  ASSUME NEW s \in Desks, Grouped(s), Gathered(s), NEW v \in Views
  PROVE  Followed(s, v) = IF s.view[v].kind = "sticky" THEN s.view[v].output ELSE NONE
<1>1. CASE s.view[v].kind # "sticky"
  BY <1>1, GroupOfSticky DEF Followed
<1>2. CASE s.view[v].kind = "sticky"
  <2> DEFINE k == GroupOf(s, v)
  <2>1. k # 0 /\ k \in DOMAIN s.groups /\ In(s, v, k)
    BY <1>2, GroupOfSticky
  <2>2. Followed(s, v) = OutputOf(s, s.groups[k].root)
    BY <2>1 DEF Followed
  <2> HIDE DEF k
  <2>3. CASE s.groups[k].pending
    <3>1. s.groups[k].root = NONE
      BY <2>1, <2>3 DEF Grouped, Linked
    <3>2. s.view[v].output = NONE
      BY <2>1, <2>3 DEF Gathered
    <3> QED
      BY <1>2, <2>2, <3>1, <3>2 DEF OutputOf
  <2>4. CASE ~s.groups[k].pending
    <3>1. s.groups[k].root \in Views /\ In(s, s.groups[k].root, k)
      BY <2>1, <2>4, RootIs
    <3>2. s.view[s.groups[k].root].output = s.view[v].output
      BY <2>1, <3>1 DEF Gathered
    <3>3. s.groups[k].root # NONE
      BY <3>1, StickyAssumption
    <3> QED
      BY <1>2, <2>2, <3>2, <3>3 DEF OutputOf
  <2> QED
    BY <2>3, <2>4
<1> QED
  BY <1>1, <1>2

LEMMA AreaIn ==
  ASSUME NEW s, NEW o \in Outputs
  PROVE  Area(s, o) \in (Outputs \cup {NONE}) \X BOOLEAN
<1>1. (o \in s.panel) \in BOOLEAN
  OBVIOUS
<1> DEFINE b == o \in s.panel
<1>2. Area(s, o) = <<o, b>> /\ b \in BOOLEAN
  BY <1>1 DEF Area
<1> HIDE DEF b
<1> QED
  BY <1>2

\* In u, the groups on the outputs of outs are anchored to their areas.
Follows(s, u, outs) ==
  /\ u \in Desks /\ SameRooms(s, u) /\ SameTags(s, u) /\ SameKeys(s, u) /\ u.groups = s.groups
  /\ \A v \in Views :
       /\ u.view[v].kind = s.view[v].kind /\ u.view[v].output = s.view[v].output
       /\ u.view[v].tag = s.view[v].tag /\ u.view[v].shown = s.view[v].shown
       /\ IF s.view[v].kind = "sticky" /\ s.view[v].output \in outs
          THEN u.view[v].anchor = Area(s, s.view[v].output)
          ELSE u.view[v].anchor = s.view[v].anchor

LEMMA FollowAreaIs ==
  ASSUME NEW s \in Desks, Grouped(s), Gathered(s), NEW outs, outs \subseteq Outputs
  PROVE  Follows(s, FollowArea(s, outs), outs)
<1> DEFINE f == [v \in Views |-> IF Followed(s, v) \in outs
                                 THEN [s.view[v] EXCEPT !.anchor = Area(s, Followed(s, v))]
                                 ELSE s.view[v]]
<1>1. ASSUME NEW v \in Views
      PROVE  /\ f[v] \in Owned
             /\ f[v].kind = s.view[v].kind /\ f[v].output = s.view[v].output
             /\ f[v].tag = s.view[v].tag /\ f[v].shown = s.view[v].shown
             /\ IF s.view[v].kind = "sticky" /\ s.view[v].output \in outs
                THEN f[v].anchor = Area(s, s.view[v].output)
                ELSE f[v].anchor = s.view[v].anchor
  <2>1. s.view[v] \in Owned
    BY ViewFields
  <2>2. Followed(s, v) = IF s.view[v].kind = "sticky" THEN s.view[v].output ELSE NONE
    BY FollowedIs
  <2>3. NONE \notin outs
    BY StickyAssumption
  <2>4. CASE Followed(s, v) \in outs
    <3> DEFINE a == Area(s, Followed(s, v))
    <3>1. f[v] = [s.view[v] EXCEPT !.anchor = a]
      BY <2>4
    <3>2. a \in (Outputs \cup {NONE}) \X BOOLEAN
      BY <2>4, AreaIn
    <3>3. s.view[v].kind = "sticky" /\ s.view[v].output \in outs /\ a = Area(s, s.view[v].output)
      BY <2>2, <2>3, <2>4
    <3> HIDE DEF f, a
    <3>4. [s.view[v] EXCEPT !.anchor = a] \in Owned
      BY <2>1, <3>2 DEF Owned
    <3> QED
      BY <2>1, <3>1, <3>3, <3>4, OwnedEdits
  <2>5. CASE Followed(s, v) \notin outs
    <3>1. f[v] = s.view[v]
      BY <2>5
    <3> HIDE DEF f
    <3> QED
      BY <2>1, <2>2, <2>5, <3>1
  <2> QED
    BY <2>4, <2>5
<1>2. FollowArea(s, outs) = [s EXCEPT !.view = f]
  BY DEF FollowArea
<1>3. f \in [Views -> Owned]
  BY <1>1
<1> HIDE DEF f
<1> DEFINE u == [s EXCEPT !.view = f]
<1>4. /\ u \in Desks /\ SameRooms(s, u) /\ SameTags(s, u) /\ SameKeys(s, u)
      /\ u.groups = s.groups /\ u.view = f
  BY <1>3, ViewsEdit
<1> HIDE DEF u
<1>5. Follows(s, u, outs)
  BY <1>1, <1>4 DEF Follows
<1> QED
  BY <1>2, <1>5 DEF u

\* Grouped and Gathered depend on the groups and on kinds and outputs only.
LEMMA GroupsKept ==
  ASSUME NEW s, NEW u, Grouped(s), Gathered(s), u.groups = s.groups,
         \A v \in Views : u.view[v].kind = s.view[v].kind,
         \A v \in Views : s.view[v].kind = "sticky" => u.view[v].output = s.view[v].output
  PROVE  Grouped(u) /\ Gathered(u)
<1>1. Grouped(u)
  BY DEF Grouped, In
<1>2. \A k \in DOMAIN s.groups : \A v \in Views : In(s, v, k) => s.view[v].kind = "sticky"
  BY DEF Grouped
<1>3. \A k : \A v : In(u, v, k) <=> In(s, v, k)
  BY DEF In
<1>4. Gathered(u)
  BY <1>2, <1>3 DEF Gathered
<1> QED
  BY <1>1, <1>4

-----------------------------------------------------------------------------
(* Tags and focus.                                                         *)

\* What holds while the focus is being settled.
Sturdy(s) == /\ s \in Desks /\ ~s.dead /\ Grouped(s) /\ Gathered(s) /\ Seen(s)
             /\ Anchored(s) /\ Housed(s) /\ Lit(s) /\ Excused(s)

LEMMA SturdyKeyed ==
  ASSUME NEW s
  PROVE  Sound(s) <=> Sturdy(s) /\ Keyed(s)
<1> QED
  BY DEF Sound, Core, Sturdy

\* In u, windows of tags are drawn or not as tags require, and the focus moved.
TagsOnly(s, u) ==
  /\ u \in Desks /\ SameRooms(s, u) /\ SameTags(s, u) /\ u.groups = s.groups
  /\ \A v \in Views :
       /\ s.view[v].kind # "tag" => u.view[v] = s.view[v]
       /\ u.view[v].kind = s.view[v].kind /\ u.view[v].output = s.view[v].output
       /\ u.view[v].tag = s.view[v].tag

LEMMA TagsOnlySturdy ==
  ASSUME NEW s, NEW u, Sturdy(s), TagsOnly(s, u),
         u.fo = s.fo \/ u.fo \in s.on
  PROVE  Sturdy(u)
<1>1. Grouped(u) /\ Gathered(u)
  BY GroupsKept DEF Sturdy, TagsOnly
<1>2. Seen(u)
  BY DEF Sturdy, TagsOnly, Seen
<1>3. Anchored(u)
  BY DEF Sturdy, TagsOnly, SameRooms, Anchored, Area
<1>4. Lit(u)
  <2>1. NONE \notin s.on
    <3>1. s.on \subseteq Outputs
      BY DeskFields DEF Sturdy
    <3> QED
      BY <3>1, StickyAssumption
  <2>2. Lit(s) /\ u.on = s.on /\ u.list = s.list /\ u.failed = s.failed
    BY DEF Sturdy, TagsOnly, SameRooms
  <2> QED
    BY <2>1, <2>2 DEF Lit
<1>5. Housed(u)
  <2>1. s.fo # NONE => u.fo = s.fo \/ s.fo \in s.on
    BY DEF Sturdy, Lit
  <2> QED
    BY <2>1 DEF Sturdy, TagsOnly, SameRooms, Housed
<1>6. Excused(u)
  BY DEF Sturdy, TagsOnly, SameRooms, Excused, In
<1> QED
  BY <1>1, <1>2, <1>3, <1>4, <1>5, <1>6 DEF Sturdy, TagsOnly, SameRooms

\* Another window gets the keyboard.
LEMMA FocusedIs ==
  ASSUME NEW s, Sturdy(s), NEW x \in Views \cup {NONE}
  PROVE  LET u == [s EXCEPT !.focused = x]
         IN /\ TagsOnly(s, u) /\ Sturdy(u) /\ u.fo = s.fo /\ u.focused = x /\ u.view = s.view
<1> DEFINE u == [s EXCEPT !.focused = x]
<1>1. s \in Desks
  BY DEF Sturdy
<1>2. /\ u \in Desks /\ SameRooms(s, u) /\ SameTags(s, u) /\ u.groups = s.groups
      /\ u.view = s.view /\ u.fo = s.fo /\ u.focused = x
  BY <1>1 DEF Desks, SameRooms, SameTags
<1> HIDE DEF u
<1>3. TagsOnly(s, u)
  BY <1>2 DEF TagsOnly
<1>4. Sturdy(u)
  BY <1>2, <1>3, TagsOnlySturdy
<1> QED
  BY <1>2, <1>3, <1>4 DEF u

LEMMA ShowingIs ==
  ASSUME NEW s, NEW o, NEW v \in Views
  PROVE  v \in Showing(s, o) <=> /\ s.current[o] \in s.table[o] /\ s.view[v].kind = "tag"
                                 /\ s.view[v].output = o /\ s.view[v].tag = s.current[o]
<1> QED
  BY DEF Showing, Members

LEMMA ShowingViews ==
  ASSUME NEW s, NEW o
  PROVE  Showing(s, o) \subseteq Views
<1> QED
  BY DEF Showing, Members

\* What leme_tags_refresh_visibility of o leaves.
Refreshes(s, u, o) ==
  /\ TagsOnly(s, u) /\ u.fo = s.fo
  /\ \A v \in Views :
       u.view[v].shown = IF s.view[v].kind = "tag" /\ s.view[v].output = o
                         THEN v \in Showing(s, o) ELSE s.view[v].shown
  /\ IF s.fo # o THEN u.focused = s.focused
     ELSE IF Showing(s, o) = {} THEN u.focused = NONE ELSE u.focused \in Showing(s, o)

LEMMA RefreshIs ==
  ASSUME NEW s \in Desks, NEW o \in Outputs, NEW r \in Refresh(s, o)
  PROVE  Refreshes(s, r, o)
<1> DEFINE sh == Showing(s, o)
           f == [v \in Views |-> IF s.view[v].kind = "tag" /\ s.view[v].output = o
                                 THEN [s.view[v] EXCEPT !.shown = v \in sh] ELSE s.view[v]]
           u == [s EXCEPT !.view = f]
<1>1. ASSUME NEW v \in Views
      PROVE  /\ f[v] \in Owned
             /\ s.view[v].kind # "tag" => f[v] = s.view[v]
             /\ f[v].kind = s.view[v].kind /\ f[v].output = s.view[v].output
             /\ f[v].tag = s.view[v].tag
             /\ f[v].shown = IF s.view[v].kind = "tag" /\ s.view[v].output = o
                             THEN v \in sh ELSE s.view[v].shown
  <2>1. s.view[v] \in Owned
    BY ViewFields
  <2>2. CASE s.view[v].kind = "tag" /\ s.view[v].output = o
    <3> DEFINE b == v \in sh
    <3>1. f[v] = [s.view[v] EXCEPT !.shown = b] /\ b \in BOOLEAN
      BY <2>2
    <3>2. b = (v \in sh)
      OBVIOUS
    <3> HIDE DEF f, b, sh
    <3>3. [s.view[v] EXCEPT !.shown = b] \in Owned
      BY <2>1, <3>1 DEF Owned
    <3>4. f[v].shown = b
      BY <2>1, <3>1, OwnedEdits
    <3> QED
      BY <2>1, <2>2, <3>1, <3>2, <3>3, <3>4, OwnedEdits
  <2>3. CASE ~(s.view[v].kind = "tag" /\ s.view[v].output = o)
    <3>1. f[v] = s.view[v]
      BY <2>3
    <3> HIDE DEF f, sh
    <3> QED
      BY <2>1, <2>3, <3>1
  <2> QED
    BY <2>2, <2>3
<1>2. r \in IF s.fo # o THEN {u}
            ELSE IF sh = {} THEN {[u EXCEPT !.focused = NONE]}
            ELSE {[u EXCEPT !.focused = v] : v \in sh}
  BY DEF Refresh
<1>3. f \in [Views -> Owned]
  BY <1>1
<1>4. sh \subseteq Views
  BY ShowingViews
<1> HIDE DEF f, sh
<1>5. /\ u \in Desks /\ SameRooms(s, u) /\ SameTags(s, u) /\ SameKeys(s, u)
      /\ u.groups = s.groups /\ u.view = f
  BY <1>3, ViewsEdit
<1> HIDE DEF u
<1>6. /\ r \in Desks /\ SameRooms(s, r) /\ SameTags(s, r) /\ r.groups = s.groups
      /\ r.view = f /\ r.fo = s.fo
      /\ IF s.fo # o THEN r.focused = s.focused
         ELSE IF sh = {} THEN r.focused = NONE ELSE r.focused \in sh
  <2>1. CASE s.fo # o
    BY <1>2, <1>5, <2>1 DEF SameKeys
  <2>2. CASE s.fo = o
    <3>1. PICK x : /\ r = [u EXCEPT !.focused = x] /\ x \in Views \cup {NONE}
                   /\ IF sh = {} THEN x = NONE ELSE x \in sh
      <4>1. CASE sh = {}
        BY <1>2, <2>2, <4>1
      <4>2. CASE sh # {}
        BY <1>2, <1>4, <2>2, <4>2
      <4> QED
        BY <4>1, <4>2
    <3>2. /\ r \in Desks /\ SameRooms(u, r) /\ SameTags(u, r) /\ r.groups = u.groups
          /\ r.view = u.view /\ r.fo = u.fo /\ r.focused = x
      BY <1>5, <3>1 DEF Desks, SameRooms, SameTags
    <3> QED
      BY <1>5, <2>2, <3>1, <3>2 DEF SameRooms, SameTags, SameKeys
  <2> QED
    BY <2>1, <2>2
<1>7. TagsOnly(s, r)
  BY <1>1, <1>6 DEF TagsOnly
<1> QED
  BY <1>1, <1>6, <1>7 DEF Refreshes, sh

\* A refresh gives the focus of its output back to what is shown.
LEMMA RefreshKeyed ==
  ASSUME NEW s \in Desks, NEW o \in Outputs, Keyed(s) \/ s.fo = o, NEW r, Refreshes(s, r, o)
  PROVE  Keyed(r)
<1>1. CASE s.fo # o
  <2>1. Keyed(s) /\ r.focused = s.focused
    BY <1>1 DEF Refreshes
  <2>2. SUFFICES ASSUME s.focused # NONE
                 PROVE  /\ r.view[s.focused].shown
                        /\ r.view[s.focused].kind = "tag" => r.view[s.focused].output = s.fo
    BY <2>1 DEF Keyed, Refreshes
  <2>3. s.focused \in Views
    BY <2>2, DeskFields
  <2> QED
    BY <1>1, <2>1, <2>2, <2>3 DEF Keyed, Refreshes, TagsOnly
<1>2. CASE s.fo = o
  <2>1. SUFFICES ASSUME r.focused # NONE
                 PROVE  /\ r.view[r.focused].shown
                        /\ r.view[r.focused].kind = "tag" => r.view[r.focused].output = s.fo
    BY DEF Keyed, Refreshes
  <2>2. r.focused \in Showing(s, o) /\ r.focused \in Views
    BY <1>2, <2>1, ShowingViews DEF Refreshes
  <2>3. s.view[r.focused].kind = "tag" /\ s.view[r.focused].output = o
    BY <2>2, ShowingIs
  <2> QED
    BY <1>2, <2>2, <2>3 DEF Refreshes, TagsOnly
<1> QED
  BY <1>1, <1>2

\* A refresh keeps the invariant, and gives it back to the focus of its output.
LEMMA RefreshKeeps ==
  ASSUME NEW s, Sturdy(s), NEW o \in Outputs, Keyed(s) \/ s.fo = o, NEW r \in Refresh(s, o)
  PROVE  Sturdy(r) /\ Keyed(r) /\ Refreshes(s, r, o)
<1>0. s \in Desks
  BY DEF Sturdy
<1>1. Refreshes(s, r, o)
  BY <1>0, RefreshIs
<1>2. Sturdy(r)
  BY <1>1, TagsOnlySturdy DEF Refreshes
<1>3. Keyed(r)
  BY <1>0, <1>1, RefreshKeyed
<1> QED
  BY <1>1, <1>2, <1>3

\* leme_output_set_focused of an output that is on
LEMMA SetFocusedKeeps ==
  ASSUME NEW s, Sturdy(s), NEW o \in Outputs, o \in s.on, NEW r \in SetFocused(s, o)
  PROVE  Sturdy(r) /\ Keyed(r) /\ TagsOnly(s, r) /\ r.fo = o
<1> DEFINE p == [s EXCEPT !.fo = o]
<1>1. s \in Desks
  BY DEF Sturdy
<1>2. /\ p \in Desks /\ SameRooms(s, p) /\ SameTags(s, p) /\ p.groups = s.groups
      /\ p.view = s.view /\ p.fo = o
  BY <1>1 DEF Desks, SameRooms, SameTags
<1>3. r \in Refresh(p, o)
  BY DEF SetFocused
<1> HIDE DEF p
<1>4. TagsOnly(s, p)
  BY <1>2 DEF TagsOnly
<1>5. Sturdy(p)
  BY <1>2, <1>4, TagsOnlySturdy
<1>6. Sturdy(r) /\ Keyed(r) /\ Refreshes(p, r, o)
  BY <1>2, <1>3, <1>5, RefreshKeeps
<1>7. TagsOnly(s, r)
  BY <1>2, <1>6 DEF Refreshes, TagsOnly, SameRooms, SameTags
<1> QED
  BY <1>2, <1>6, <1>7 DEF Refreshes

\* leme_view_refresh_tag_focus: as the refresh, or a sticky window on the output.
LEMMA TagFocusKeeps ==
  ASSUME NEW s, Sturdy(s), Keyed(s) \/ s.fo # NONE, NEW r \in RefreshTagFocus(s)
  PROVE  /\ Sturdy(r) /\ Keyed(r) /\ TagsOnly(s, r) /\ r.fo = s.fo
         /\ \A v \in Views : s.view[v].kind = "tag" =>
              r.view[v].shown = IF s.view[v].output = s.fo THEN v \in Showing(s, s.fo)
                                ELSE s.view[v].shown
<1>0. s \in Desks /\ Seen(s)
  BY DEF Sturdy
<1>1. PICK u \in RefreshFocused(s) :
        r \in IF u.focused # NONE \/ Candidates(u) = {} THEN {u}
              ELSE {[u EXCEPT !.focused = v] : v \in Candidates(u)}
  BY DEF RefreshTagFocus
<1>2. /\ Sturdy(u) /\ Keyed(u) /\ TagsOnly(s, u) /\ u.fo = s.fo
      /\ \A v \in Views : s.view[v].kind = "tag" =>
           u.view[v].shown = IF s.view[v].output = s.fo THEN v \in Showing(s, s.fo)
                             ELSE s.view[v].shown
  <2>1. CASE s.fo = NONE
    <3>1. u = s
      BY <2>1 DEF RefreshFocused
    <3>2. TagsOnly(s, s)
      BY <1>0 DEF TagsOnly, SameRooms, SameTags
    <3>3. \A v \in Views : s.view[v].kind = "tag" => s.view[v].output # NONE
      BY <1>0, StickyAssumption DEF Seen
    <3> QED
      BY <2>1, <3>1, <3>2, <3>3
  <2>2. CASE s.fo # NONE
    <3>1. s.fo \in Outputs /\ u \in Refresh(s, s.fo)
      BY <1>0, <2>2, DeskFields DEF RefreshFocused
    <3>2. Sturdy(u) /\ Keyed(u) /\ Refreshes(s, u, s.fo)
      BY <3>1, RefreshKeeps
    <3> QED
      BY <3>2 DEF Refreshes
  <2> QED
    BY <2>1, <2>2
<1>3. CASE u.focused # NONE \/ Candidates(u) = {}
  BY <1>1, <1>2, <1>3
<1>4. CASE ~(u.focused # NONE \/ Candidates(u) = {})
  <2>1. PICK x \in Candidates(u) : r = [u EXCEPT !.focused = x]
    BY <1>1, <1>4
  <2>2. x \in Views /\ u.fo # NONE /\ IsSticky(u, x) /\ u.view[x].output = u.fo
    BY DEF Candidates
  <2>3. /\ TagsOnly(u, r) /\ Sturdy(r) /\ r.fo = u.fo /\ r.focused = x /\ r.view = u.view
    BY <1>2, <2>1, <2>2, FocusedIs
  <2>4. u.view[x].kind = "sticky" /\ u.view[x].shown
    BY <1>2, <2>2 DEF IsSticky, Sturdy, Seen
  <2>5. Keyed(r)
    BY <2>3, <2>4 DEF Keyed
  <2>6. TagsOnly(s, r)
    BY <1>2, <2>3 DEF TagsOnly, SameRooms, SameTags
  <2> QED
    BY <1>2, <2>3, <2>5, <2>6
<1> QED
  BY <1>3, <1>4

-----------------------------------------------------------------------------
(* Steps that leave the groups alone.                                      *)

Quiet == asked' = [op |-> "other", ok |-> TRUE] /\ UNCHANGED plugs

\* Of the tags of o, the windows of the current one are drawn and no others.
Clean(u, o) ==
  \A v \in Views : u.view[v].kind = "tag" /\ u.view[v].output = o
                  => (u.view[v].shown <=> v \in Showing(u, o))

\* What is to be shown of a step that is not about outputs.
Good(s, u) ==
  /\ Sound(u)
  /\ \A o \in u.on : u.current[o] # s.current[o] => Clean(u, o)

\* A step that does not change the current tags.
LEMMA GoodLoose ==
  ASSUME NEW s, NEW u, Sturdy(u), Keyed(u), u.current = s.current
  PROVE  Good(s, u)
<1> QED
  BY SturdyKeyed DEF Good

\* What is shown of a tag does not depend on what is drawn.
LEMMA ShowingKept ==
  ASSUME NEW s, NEW u, TagsOnly(s, u), NEW o, NEW v \in Views
  PROVE  v \in Showing(u, o) <=> v \in Showing(s, o)
<1> QED
  BY ShowingIs DEF TagsOnly, SameTags

LEMMA QuietlyIs ==
  ASSUME NEW S, Quietly(S)
  PROVE  w' \in S /\ Quiet
<1> QED
  BY DEF Quietly, Become, Quiet

\* In u, the window v is x, and the tables are t.
Edited(s, u, v, x, t) ==
  /\ Sturdy(u) /\ SameRooms(s, u) /\ SameKeys(s, u) /\ u.groups = s.groups
  /\ u.current = s.current /\ u.table = t
  /\ u.view[v] = x /\ \A y \in Views \ {v} : u.view[y] = s.view[y]

\* A window that no group has opens, closes or changes its tag.
LEMMA OneView ==
  ASSUME NEW s, Sturdy(s), NEW v \in Views, s.view[v].kind # "sticky",
         NEW x \in Owned, x.kind # "sticky", x.kind = "none" => ~x.shown,
         x.kind = "tag" => x.output \in Outputs /\ x.tag \in Tags,
         NEW t \in [Outputs -> SUBSET Tags]
  PROVE  Edited(s, [s EXCEPT !.view[v] = x, !.table = t], v, x, t)
<1> DEFINE u == [s EXCEPT !.view[v] = x, !.table = t]
<1>1. s \in Desks /\ s.view \in [Views -> Owned]
  BY DeskFields DEF Sturdy
<1>2. /\ u \in Desks /\ SameRooms(s, u) /\ SameKeys(s, u) /\ u.groups = s.groups
      /\ u.current = s.current /\ u.table = t /\ u.view = [s.view EXCEPT ![v] = x]
  BY <1>1 DEF Desks, SameRooms, SameKeys
<1> HIDE DEF u
<1>3. u.view[v] = x /\ \A y \in Views \ {v} : u.view[y] = s.view[y]
  BY <1>1, <1>2
<1>4. \A y \in Views : s.view[y].kind = "sticky" => u.view[y] = s.view[y]
  BY <1>3
<1>5. \A y \in Views : u.view[y].kind = "sticky" => y # v
  BY <1>3
<1>6. Grouped(u)
  <2>1. \A k \in DOMAIN u.groups : Linked(u.groups[k])
    BY <1>2 DEF Sturdy, Grouped
  <2>2. \A y \in Views : u.view[y].kind = "sticky" <=> s.view[y].kind = "sticky"
    BY <1>3
  <2> QED
    BY <1>2, <2>1, <2>2 DEF Sturdy, Grouped, In
<1>7. \A k \in DOMAIN s.groups : \A y \in Views : In(s, y, k) => u.view[y] = s.view[y]
  BY <1>4 DEF Sturdy, Grouped
<1>8. Gathered(u) /\ Excused(u)
  <2>1. \A k : \A y : In(u, y, k) <=> In(s, y, k)
    BY <1>2 DEF In
  <2> QED
    BY <1>2, <1>7, <2>1 DEF Sturdy, Gathered, Excused, SameRooms
<1>9. Seen(u)
  BY <1>3 DEF Sturdy, Seen
<1>10. Anchored(u) /\ Housed(u) /\ Lit(u)
  BY <1>2, <1>3 DEF Sturdy, Anchored, Housed, Lit, SameRooms, SameKeys, Area
<1>11. Sturdy(u)
  BY <1>2, <1>6, <1>8, <1>9, <1>10 DEF Sturdy, SameRooms
<1>12. Edited(s, u, v, x, t)
  BY <1>2, <1>3, <1>11 DEF Edited
<1> QED
  BY <1>12 DEF u

\* leme_view_map
LEMMA MapGood ==
  ASSUME Sound(w), NEW v \in Views, Map(v)
  PROVE  Good(w, w') /\ Quiet
<1> DEFINE o == w.fo
           t == w.current[o]
           x == [Gone EXCEPT !.kind = "tag", !.output = o, !.tag = t]
           tb == [w.table EXCEPT ![o] = @ \cup {t}]
           s == [w EXCEPT !.view[v] = x, !.table = tb]
<1>1. w.view[v].kind = "none" /\ o # NONE
  BY DEF Map
<1>2. [w EXCEPT !.view[v] = x, !.table[o] = @ \cup {t}] = s
  OBVIOUS
<1>3. Quietly({u \in Refresh(s, o) : u.focused = v})
  BY <1>2 DEF Map
<1>4. w' \in Refresh(s, o) /\ Quiet
  BY <1>3, QuietlyIs
<1>5. Sturdy(w) /\ w \in Desks
  BY SturdyKeyed DEF Sturdy
<1>6. o \in Outputs /\ t \in Tags /\ tb \in [Outputs -> SUBSET Tags]
  BY <1>1, <1>5, DeskFields
<1>7. x \in Owned /\ x.kind = "tag" /\ x.output \in Outputs /\ x.tag \in Tags
  BY <1>6 DEF Gone, Owned, NoArea
<1> HIDE DEF x, tb
<1>11. Edited(w, s, v, x, tb)
  BY <1>1, <1>5, <1>6, <1>7, OneView
<1> HIDE DEF s
<1>8. /\ Sturdy(s) /\ SameKeys(w, s)
      /\ s.view[v] = x /\ \A y \in Views \ {v} : s.view[y] = w.view[y]
  BY <1>11 DEF Edited
<1>9. Sturdy(w') /\ Keyed(w') /\ Refreshes(s, w', o)
  BY <1>4, <1>6, <1>8, RefreshKeeps DEF SameKeys
<1>10. w'.current = w.current
  BY <1>9, <1>11 DEF Edited, Refreshes, TagsOnly, SameTags
<1> QED
  BY <1>4, <1>9, <1>10, GoodLoose

\* The commands that change the current tag
LEMMA FocusTagGood ==
  ASSUME Sound(w), NEW t \in Tags, FocusTag(t)
  PROVE  Good(w, w') /\ Quiet
<1> DEFINE c == [w.current EXCEPT ![w.fo] = t]
           s == [w EXCEPT !.current = c]
<1>1. w.fo # NONE
  BY DEF FocusTag
<1>2. [w EXCEPT !.current[w.fo] = t] = s
  OBVIOUS
<1>3. w' \in RefreshTagFocus(s) /\ Quiet
  <2>1. Quietly(RefreshTagFocus(s))
    BY <1>2 DEF FocusTag
  <2> HIDE DEF s
  <2> QED
    BY <2>1, QuietlyIs
<1>4. Sturdy(w) /\ w \in Desks /\ Grouped(w) /\ Gathered(w)
  BY SturdyKeyed DEF Sturdy
<1>5. c \in [Outputs -> Tags]
  BY <1>4, DeskFields
<1> HIDE DEF c
<1>6. /\ s \in Desks /\ SameRooms(w, s) /\ SameKeys(w, s) /\ s.groups = w.groups
      /\ s.view = w.view /\ s.current = c
  BY <1>4, <1>5 DEF Desks, SameRooms, SameKeys
<1> HIDE DEF s
<1>7. Sturdy(s)
  <2>1. Grouped(s) /\ Gathered(s)
    BY <1>4, <1>6, GroupsKept
  <2>2. Seen(s) /\ Anchored(s) /\ Housed(s) /\ Lit(s) /\ Excused(s)
    BY <1>4, <1>6 DEF Sturdy, Seen, Anchored, Area, Housed, Lit, Excused, In,
                      SameRooms, SameKeys
  <2> QED
    BY <1>4, <1>6, <2>1, <2>2 DEF Sturdy, SameRooms
<1>8. /\ Sturdy(w') /\ Keyed(w') /\ TagsOnly(s, w')
      /\ \A v \in Views : s.view[v].kind = "tag" =>
           w'.view[v].shown = IF s.view[v].output = s.fo THEN v \in Showing(s, s.fo)
                              ELSE s.view[v].shown
  BY <1>1, <1>3, <1>6, <1>7, TagFocusKeeps DEF SameKeys
<1>9. Clean(w', s.fo)
  BY <1>8, ShowingKept DEF Clean, TagsOnly
<1>10. ASSUME NEW o \in w'.on, w'.current[o] # w.current[o]
       PROVE  Clean(w', o)
  <2>1. w'.current = [w.current EXCEPT ![w.fo] = t] /\ w.current \in [Outputs -> Tags]
        /\ o \in Outputs /\ s.fo = w.fo
    BY <1>4, <1>6, <1>8, DeskFields DEF TagsOnly, SameTags, SameKeys, c, Sturdy
  <2>2. o = s.fo
    BY <1>10, <2>1
  <2> QED
    BY <1>9, <2>2
<1> QED
  BY <1>3, <1>8, <1>10, SturdyKeyed DEF Good

\* The window v of the output that has the focus gets the keyboard.
LEMMA FocusedKeyed ==
  ASSUME NEW u, Sturdy(u), NEW v \in Views, u.view[v].shown, u.view[v].output = u.fo
  PROVE  LET r == [u EXCEPT !.focused = v]
         IN Sturdy(r) /\ Keyed(r) /\ TagsOnly(u, r) /\ r.view = u.view
<1> DEFINE r == [u EXCEPT !.focused = v]
<1>1. TagsOnly(u, r) /\ Sturdy(r) /\ r.fo = u.fo /\ r.focused = v /\ r.view = u.view
  BY FocusedIs
<1> HIDE DEF r
<1>2. Keyed(r)
  BY <1>1 DEF Keyed
<1> QED
  BY <1>1, <1>2 DEF r

\* leme_view_focus
LEMMA FocusViewGood ==
  ASSUME Sound(w), NEW v \in Views, FocusView(v)
  PROVE  Good(w, w') /\ Quiet
<1> DEFINE o == w.view[v].output
<1>1. o \in w.on /\ (IsSticky(w, v) \/ v \in Showing(w, o))
      /\ Quietly({[u EXCEPT !.focused = v] : u \in SetFocused(w, o)})
  BY DEF FocusView
<1>2. w' \in {[u EXCEPT !.focused = v] : u \in SetFocused(w, o)} /\ Quiet
  BY <1>1, QuietlyIs
<1>3. PICK u \in SetFocused(w, o) : w' = [u EXCEPT !.focused = v]
  BY <1>2
<1>4. Sturdy(w) /\ w \in Desks /\ Seen(w) /\ o \in Outputs
  BY <1>1, SturdyKeyed, DeskFields DEF Sturdy
<1>5. u \in Refresh([w EXCEPT !.fo = o], o)
  BY <1>1, <1>3 DEF SetFocused
<1>6. Sturdy(u) /\ Keyed(u) /\ TagsOnly(w, u) /\ u.fo = o
  BY <1>1, <1>3, <1>4, SetFocusedKeeps
<1>7. u.view[v].shown
  <2>1. CASE IsSticky(w, v)
    <3>1. w.view[v].kind = "sticky" /\ u.view[v] = w.view[v] /\ o # NONE
      BY <1>4, <1>6, <2>1, StickyAssumption DEF IsSticky, TagsOnly
    <3> QED
      BY <1>4, <3>1 DEF Seen
  <2>2. CASE v \in Showing(w, o)
    <3> DEFINE p == [w EXCEPT !.fo = o]
    <3>1. p \in Desks /\ p.view = w.view /\ p.current = w.current /\ p.table = w.table
      BY <1>4 DEF Desks
    <3> HIDE DEF p
    <3>2. Refreshes(p, u, o)
      BY <1>4, <1>5, <3>1, RefreshIs DEF p
    <3>3. v \in Showing(p, o) /\ p.view[v].kind = "tag" /\ p.view[v].output = o
      BY <2>2, <3>1, ShowingIs
    <3> QED
      BY <3>2, <3>3 DEF Refreshes
  <2> QED
    BY <1>1, <2>1, <2>2
<1>8. Sturdy(w') /\ Keyed(w') /\ TagsOnly(u, w')
  BY <1>3, <1>6, <1>7, FocusedKeyed DEF TagsOnly
<1>9. w'.current = w.current
  BY <1>6, <1>8 DEF TagsOnly, SameTags
<1> QED
  BY <1>2, <1>8, <1>9, GoodLoose

\* leme_sticky_handle_usable_area
LEMMA ArrangeLayersGood ==
  ASSUME Sound(w), NEW o \in Outputs, ArrangeLayers(o)
  PROVE  Good(w, w') /\ Quiet
<1> DEFINE n == IF o \in w.panel THEN w.panel \ {o} ELSE w.panel \cup {o}
           s == [w EXCEPT !.panel = n]
<1>1. [w EXCEPT !.panel = IF o \in @ THEN @ \ {o} ELSE @ \cup {o}] = s
  OBVIOUS
<1>2. Quietly({FollowArea(s, {o})})
  BY <1>1 DEF ArrangeLayers
<1>3. Sturdy(w) /\ Keyed(w) /\ w \in Desks /\ Grouped(w) /\ Gathered(w)
  BY SturdyKeyed DEF Sturdy
<1>4. n \subseteq Outputs /\ \A p \in Outputs \ {o} : p \in n <=> p \in w.panel
  BY <1>3, DeskFields
<1> HIDE DEF n
<1>5. /\ s \in Desks /\ s.list = w.list /\ s.on = w.on /\ s.dead = w.dead
      /\ s.failed = w.failed /\ SameKeys(w, s) /\ s.groups = w.groups /\ s.view = w.view
      /\ s.panel = n /\ s.current = w.current
  BY <1>3, <1>4 DEF Desks, SameKeys
<1> HIDE DEF s
<1>6. Grouped(s) /\ Gathered(s)
  BY <1>3, <1>5, GroupsKept
<1> DEFINE r == FollowArea(s, {o})
<1>7. w' = r /\ Quiet
  BY <1>2, QuietlyIs
<1>8. Follows(s, r, {o})
  BY <1>5, <1>6, FollowAreaIs
<1> HIDE DEF r
<1>9. /\ r \in Desks /\ SameRooms(s, r) /\ SameKeys(s, r) /\ r.groups = s.groups
      /\ \A v \in Views :
           /\ r.view[v].kind = w.view[v].kind /\ r.view[v].output = w.view[v].output
           /\ r.view[v].tag = w.view[v].tag /\ r.view[v].shown = w.view[v].shown
           /\ IF w.view[v].kind = "sticky" /\ w.view[v].output = o
              THEN r.view[v].anchor = Area(s, o)
              ELSE r.view[v].anchor = w.view[v].anchor
  BY <1>5, <1>8 DEF Follows
<1>10. Grouped(r) /\ Gathered(r)
  BY <1>5, <1>6, <1>9, GroupsKept
<1>11. Anchored(r)
  <2>1. SUFFICES ASSUME NEW v \in Views, w.view[v].kind = "sticky", w.view[v].output \in w.on
                 PROVE  r.view[v].anchor = Area(r, w.view[v].output)
    BY <1>5, <1>9 DEF Anchored, SameRooms
  <2>2. \A p : Area(r, p) = Area(s, p)
    BY <1>9 DEF Area, SameRooms
  <2>3. w.view[v].output \in Outputs
    BY <1>3, <2>1, DeskFields
  <2>4. w.view[v].output # o => Area(s, w.view[v].output) = Area(w, w.view[v].output)
    BY <1>4, <1>5, <2>3 DEF Area
  <2>5. w.view[v].anchor = Area(w, w.view[v].output)
    BY <1>3, <2>1 DEF Sturdy, Anchored
  <2> QED
    BY <1>9, <2>1, <2>2, <2>4, <2>5
<1>12. Seen(r) /\ Housed(r) /\ Lit(r) /\ Excused(r)
  BY <1>3, <1>5, <1>9 DEF Sturdy, Seen, Housed, Lit, Excused, In, SameRooms, SameKeys
<1>13. Sturdy(r)
  BY <1>3, <1>5, <1>9, <1>10, <1>11, <1>12 DEF Sturdy, SameRooms
<1>14. Keyed(r)
  <2>1. SUFFICES ASSUME r.focused # NONE
                 PROVE  /\ r.view[r.focused].shown
                        /\ r.view[r.focused].kind = "tag" => r.view[r.focused].output = r.fo
    BY DEF Keyed
  <2>2. r.focused = w.focused /\ r.fo = w.fo /\ w.focused \in Views
    BY <1>3, <1>5, <1>9, <2>1, DeskFields DEF SameKeys
  <2> QED
    BY <1>3, <1>9, <2>1, <2>2 DEF Keyed
<1>15. w'.current = w.current
  BY <1>5, <1>7, <1>8 DEF Follows, SameTags
<1> QED
  BY <1>7, <1>13, <1>14, <1>15, GoodLoose

-----------------------------------------------------------------------------
(* Groups that go.                                                         *)

\* The groups of u are those of s that h picks.
Picks(s, u, h) ==
  /\ h \in [DOMAIN u.groups -> DOMAIN s.groups]
  /\ \A i \in DOMAIN u.groups : u.groups[i] = s.groups[h[i]]
  /\ \A i, j \in DOMAIN u.groups : h[i] = h[j] => i = j

\* What is left of the groups is sound, if the windows of the others go to tags.
LEMMA PickedGroups ==
  ASSUME NEW s, Grouped(s), Gathered(s), NEW u, NEW h, Picks(s, u, h),
         \A i \in DOMAIN u.groups : \A v \in Views : In(s, v, h[i]) =>
           u.view[v].kind = "sticky" /\ u.view[v].output = s.view[v].output,
         \A v \in Views : u.view[v].kind = "sticky" =>
           \E i \in DOMAIN u.groups : In(s, v, h[i])
  PROVE  /\ Grouped(u) /\ Gathered(u)
         /\ Excused(s) /\ u.on = s.on /\ u.failed = s.failed => Excused(u)
<1>1. \A i \in DOMAIN u.groups : h[i] \in DOMAIN s.groups /\ u.groups[i] = s.groups[h[i]]
  BY DEF Picks
<1>2. \A i \in DOMAIN u.groups : \A v : In(u, v, i) <=> In(s, v, h[i])
  BY <1>1 DEF In
<1>3. \A k \in DOMAIN u.groups : Linked(u.groups[k])
  BY <1>1 DEF Grouped
<1>4. \A v \in Views : u.view[v].kind = "sticky" <=> \E k \in DOMAIN u.groups : In(u, v, k)
  BY <1>2
<1>5. \A j, k \in DOMAIN u.groups : \A v \in Views : In(u, v, j) /\ In(u, v, k) => j = k
  BY <1>1, <1>2 DEF Grouped, Picks
<1>6. \A j, k \in DOMAIN u.groups :
        WindowsWait(u.groups[j]) /\ WindowsWait(u.groups[k]) => j = k
  BY <1>1 DEF Grouped, Picks
<1>7. Grouped(u)
  BY <1>3, <1>4, <1>5, <1>6 DEF Grouped
<1>8. Gathered(u)
  BY <1>1, <1>2 DEF Gathered
<1>9. ASSUME Excused(s), u.on = s.on, u.failed = s.failed
      PROVE  Excused(u)
  BY <1>1, <1>2, <1>9 DEF Excused
<1> QED
  BY <1>7, <1>8, <1>9

\* In u, the group at k is gone.
Drops(s, u, k) ==
  /\ u \in Desks /\ SameRooms(s, u) /\ SameTags(s, u) /\ SameKeys(s, u) /\ u.view = s.view
  /\ \E h : Picks(s, u, h) /\ \A j \in DOMAIN s.groups :
              j # k <=> \E i \in DOMAIN u.groups : h[i] = j

LEMMA DropGroupIs ==
  ASSUME NEW s \in Desks, NEW k \in DOMAIN s.groups
  PROVE  Drops(s, DropGroup(s, k), k)
<1> DEFINE q == s.groups
           r == RemoveAt(q, k)
           u == [s EXCEPT !.groups = r]
           h == [i \in DOMAIN r |-> IF i < k THEN i ELSE i + 1]
<1>1. q \in Seq(Groups) /\ Len(q) \in Nat /\ DOMAIN q = 1 .. Len(q)
  BY DeskFields
<1>2. /\ r \in Seq(Groups) /\ Len(r) = Len(q) - 1
      /\ \A i \in 1 .. Len(q) - 1 : r[i] = IF i < k THEN q[i] ELSE q[i + 1]
  BY <1>1, RemovedAtIs
<1>3. DropGroup(s, k) = u
  BY DEF DropGroup
<1> HIDE DEF r
<1>4. /\ u \in Desks /\ SameRooms(s, u) /\ SameTags(s, u) /\ SameKeys(s, u)
      /\ u.view = s.view /\ u.groups = r
  BY <1>2 DEF Desks, SameRooms, SameTags, SameKeys
<1> HIDE DEF u
<1>5. DOMAIN r = 1 .. Len(q) - 1 /\ k \in 1 .. Len(q)
  BY <1>1, <1>2
<1>6. \A i \in DOMAIN r : h[i] = IF i < k THEN i ELSE i + 1
  OBVIOUS
<1>7. h \in [DOMAIN r -> DOMAIN q]
  BY <1>1, <1>5
<1> HIDE DEF h, q
<1>8. \A i \in DOMAIN r : r[i] = q[h[i]]
  BY <1>2, <1>5, <1>6
<1>9. \A i, j \in DOMAIN r : h[i] = h[j] => i = j
  BY <1>5, <1>6
<1>10. ASSUME NEW j \in DOMAIN q
       PROVE  j # k <=> \E i \in DOMAIN r : h[i] = j
  <2>1. ASSUME j # k PROVE \E i \in DOMAIN r : h[i] = j
    <3>1. CASE j < k
      <4>1. j \in DOMAIN r /\ h[j] = j
        BY <1>1, <1>5, <1>6, <3>1
      <4> QED
        BY <4>1
    <3>2. CASE ~(j < k)
      <4>1. j - 1 \in DOMAIN r /\ ~(j - 1 < k) /\ j - 1 + 1 = j
        BY <1>1, <1>5, <2>1, <3>2
      <4>2. h[j - 1] = j
        BY <1>6, <4>1
      <4> QED
        BY <4>1, <4>2
    <3> QED
      BY <3>1, <3>2
  <2>2. \A i \in DOMAIN r : h[i] # k
    BY <1>5, <1>6
  <2> QED
    BY <2>1, <2>2
<1>11. Picks(s, u, h)
  BY <1>4, <1>7, <1>8, <1>9 DEF Picks, q
<1>12. Drops(s, u, k)
  BY <1>4, <1>10, <1>11 DEF Drops, q
<1> QED
  BY <1>3, <1>12

\* The windows of vs leave the group at k for a tag, or close; the others stay.
LEMMA DropSturdy ==
  ASSUME NEW s, Sturdy(s), NEW k \in DOMAIN s.groups, NEW u \in Desks, SameRooms(s, u),
         u.fo = s.fo, NEW h, Picks(s, u, h),
         \A j \in DOMAIN s.groups : j # k <=> \E i \in DOMAIN u.groups : h[i] = j,
         \A v \in Views : ~In(s, v, k) => u.view[v] = s.view[v],
         \A v \in Views : In(s, v, k) =>
           /\ u.view[v].kind # "sticky"
           /\ u.view[v].kind = "none" => ~u.view[v].shown
           /\ u.view[v].kind = "tag" => u.view[v].output \in Outputs /\ u.view[v].tag \in Tags
  PROVE  Sturdy(u)
<1>1. Grouped(s) /\ Gathered(s) /\ Seen(s) /\ Anchored(s) /\ Housed(s) /\ Lit(s) /\ Excused(s)
      /\ ~s.dead
  BY DEF Sturdy
<1>2. \A i \in DOMAIN u.groups : h[i] \in DOMAIN s.groups /\ h[i] # k
  BY DEF Picks
<1>3. \A i \in DOMAIN u.groups : \A v \in Views : In(s, v, h[i]) =>
        u.view[v].kind = "sticky" /\ u.view[v].output = s.view[v].output
  BY <1>1, <1>2 DEF Grouped
<1>4. \A v \in Views : u.view[v].kind = "sticky" => \E i \in DOMAIN u.groups : In(s, v, h[i])
  <2>1. TAKE v \in Views
  <2>2. HAVE u.view[v].kind = "sticky"
  <2>3. ~In(s, v, k) /\ s.view[v].kind = "sticky"
    BY <2>2
  <2>4. PICK j \in DOMAIN s.groups : In(s, v, j)
    BY <1>1, <2>3 DEF Grouped
  <2>5. j # k
    BY <2>3, <2>4
  <2> QED
    BY <2>4, <2>5
<1>5. Grouped(u) /\ Gathered(u) /\ Excused(u)
  BY <1>1, <1>3, <1>4, PickedGroups DEF SameRooms
<1>6. Seen(u)
  BY <1>1 DEF Seen
<1>7. \A v \in Views : u.view[v].kind = "sticky" => u.view[v] = s.view[v]
  OBVIOUS
<1>8. Anchored(u) /\ Housed(u)
  BY <1>1, <1>7 DEF Anchored, Housed, Area, SameRooms
<1>9. Lit(u)
  BY <1>1 DEF Lit, SameRooms
<1> QED
  BY <1>1, <1>5, <1>6, <1>8, <1>9 DEF Sturdy, SameRooms

\* The group at k settles on the tag t of its output o.
Settles(s, u, k, o, t) ==
  /\ Sturdy(u) /\ SameRooms(s, u) /\ SameKeys(s, u)
  /\ u.current = s.current /\ t \in u.table[o]
  /\ \A v \in Views : IF In(s, v, k)
                      THEN /\ u.view[v].kind = "tag" /\ u.view[v].output = o
                           /\ u.view[v].tag = t /\ u.view[v].shown
                      ELSE u.view[v] = s.view[v]

\* leme_sticky_leave
LEMMA SettleIs ==
  ASSUME NEW s, Sturdy(s), NEW v \in Views, s.view[v].kind = "sticky",
         s.view[v].output # NONE, NEW t \in Tags
  PROVE  Settles(s, Settle(s, v, t), GroupOf(s, v), s.view[v].output, t)
<1> DEFINE k == GroupOf(s, v)
           o == s.view[v].output
           vs == Elements(s.groups[k].members)
           a == Attach(s, vs, o, t)
           u == DropGroup(a, k)
<1>1. s \in Desks /\ Grouped(s) /\ Gathered(s) /\ Seen(s)
  BY DEF Sturdy
<1>2. k \in DOMAIN s.groups /\ In(s, v, k) /\ o \in Outputs
  BY <1>1, GroupOfSticky, ViewFields
<1>3. Settle(s, v, t) = u
  BY DEF Settle
<1> HIDE DEF k
<1>4. \A x : x \in vs <=> In(s, x, k)
  BY DEF In
<1>5. Attaches(s, a, vs, o, t)
  BY <1>1, <1>2, AttachIs
<1>6. \A x \in Views : In(s, x, k) => s.view[x].shown /\ s.view[x].output = o
  <2>1. \A x \in Views : In(s, x, k) => s.view[x].output = o /\ s.view[x].kind = "sticky"
    BY <1>1, <1>2 DEF Gathered, Grouped
  <2> QED
    BY <1>1, <2>1 DEF Seen
<1> HIDE DEF vs, a, o
<1>7. /\ a \in Desks /\ SameRooms(s, a) /\ SameKeys(s, a) /\ a.groups = s.groups
      /\ a.current = s.current /\ t \in a.table[o]
      /\ \A x \in Views : IF In(s, x, k)
                          THEN /\ a.view[x].kind = "tag" /\ a.view[x].output = o
                               /\ a.view[x].tag = t /\ a.view[x].shown
                          ELSE a.view[x] = s.view[x]
  <2>1. a.table = [s.table EXCEPT ![o] = @ \cup {t}]
    BY <1>5 DEF Attaches
  <2>2. t \in a.table[o]
    BY <1>1, <1>2, <2>1, DeskFields
  <2> QED
    BY <1>4, <1>5, <1>6, <2>2 DEF Attaches
<1>8. Drops(a, u, k)
  BY <1>2, <1>7, DropGroupIs
<1> HIDE DEF u
<1>9. PICK h : Picks(a, u, h) /\ \A j \in DOMAIN a.groups :
                 j # k <=> \E i \in DOMAIN u.groups : h[i] = j
  BY <1>8 DEF Drops
<1>10. Picks(s, u, h) /\ \A j \in DOMAIN s.groups : j # k <=> \E i \in DOMAIN u.groups : h[i] = j
  BY <1>7, <1>9 DEF Picks
<1>11. /\ u \in Desks /\ SameRooms(s, u) /\ SameKeys(s, u) /\ u.current = s.current
       /\ t \in u.table[o] /\ u.view = a.view
  BY <1>7, <1>8 DEF Drops, SameRooms, SameKeys, SameTags
<1>12. Sturdy(u)
  BY <1>2, <1>7, <1>10, <1>11, DropSturdy DEF SameKeys
<1>13. Settles(s, u, k, o, t)
  BY <1>7, <1>11, <1>12 DEF Settles
<1> QED
  BY <1>3, <1>13 DEF k, o

\* The window that a command acts on.
LEMMA SubjectIs ==
  ASSUME Sound(w), Subject # NONE
  PROVE  /\ Subject \in Views /\ w.focused \in Views /\ w.view[w.focused].shown
         /\ IsSticky(w, Subject) =>
              /\ w.view[Subject].kind = "sticky" /\ GroupOf(w, Subject) \in DOMAIN w.groups
              /\ In(w, Subject, GroupOf(w, Subject)) /\ In(w, w.focused, GroupOf(w, Subject))
         /\ ~IsSticky(w, Subject) =>
              /\ Subject = w.focused /\ w.view[Subject].kind = "tag"
              /\ w.view[Subject].output = w.fo
<1>1. w \in Desks /\ Grouped(w) /\ Seen(w) /\ Keyed(w)
  BY DEF Sound, Core
<1>2. w.focused \in Views \cup {NONE} /\ NONE \notin Views
  BY <1>1, DeskFields, StickyAssumption
<1>3. w.focused # NONE
  BY DEF Subject
<1>4. w.focused \in Views /\ w.view[w.focused].shown
  BY <1>1, <1>2, <1>3 DEF Keyed
<1>5. CASE IsDependent(w, w.focused)
  <2> DEFINE k == GroupOf(w, w.focused)
  <2>1. Subject = w.groups[k].root /\ k # 0
    BY <1>3, <1>5 DEF Subject, IsDependent
  <2>2. k \in DOMAIN w.groups /\ In(w, w.focused, k)
    BY <1>1, <1>4, <2>1, GroupOfIs
  <2> HIDE DEF k
  <2>3. ~w.groups[k].pending
    BY <1>1, <2>1, <2>2 DEF Grouped, Linked
  <2>4. Subject \in Views /\ In(w, Subject, k)
    BY <1>1, <2>1, <2>2, <2>3, RootIs
  <2>5. GroupOf(w, Subject) = k
    BY <1>1, <2>2, <2>4, GroupOfMember
  <2>6. w.view[Subject].kind = "sticky" /\ IsSticky(w, Subject)
    BY <1>1, <2>2, <2>4, GroupOfSticky DEF Grouped
  <2> QED
    BY <1>4, <2>2, <2>4, <2>5, <2>6
<1>6. CASE ~IsDependent(w, w.focused)
  <2>1. Subject = w.focused
    BY <1>6 DEF Subject
  <2>2. CASE IsSticky(w, Subject)
    BY <1>1, <1>4, <2>1, <2>2, GroupOfSticky
  <2>3. CASE ~IsSticky(w, Subject)
    <3>1. w.view[Subject].kind # "sticky"
      BY <1>1, <1>4, <2>1, <2>3, GroupOfSticky
    <3>2. w.view[Subject].kind # "none"
      BY <1>1, <1>4, <2>1 DEF Seen
    <3>3. w.view[Subject].kind = "tag"
      BY <1>1, <1>4, <2>1, <3>1, <3>2, ViewFields
    <3> QED
      BY <1>1, <1>3, <1>4, <2>1, <2>3, <3>3 DEF Keyed
  <2> QED
    BY <2>2, <2>3
<1> QED
  BY <1>5, <1>6

\* A group that settles on a tag of the output that has the focus.
LEMMA SettledGood ==
  ASSUME Sound(w), NEW v \in Views, w.view[v].kind = "sticky", w.view[v].output # NONE,
         w.view[v].output = w.fo, NEW t \in Tags, NEW u,
         Settles(w, u, GroupOf(w, v), w.view[v].output, t)
  PROVE  Good(w, u)
<1> DEFINE k == GroupOf(w, v)
           o == w.view[v].output
<1>1. w \in Desks /\ Keyed(w) /\ Grouped(w)
  BY DEF Sound, Core
<1>2. /\ Sturdy(u) /\ SameKeys(w, u) /\ u.current = w.current
      /\ \A x \in Views : IF In(w, x, k)
                          THEN /\ u.view[x].kind = "tag" /\ u.view[x].output = o
                               /\ u.view[x].shown
                          ELSE u.view[x] = w.view[x]
  BY DEF Settles
<1>3. Keyed(u)
  <2>1. SUFFICES ASSUME u.focused # NONE
                 PROVE  /\ u.view[u.focused].shown
                        /\ u.view[u.focused].kind = "tag" => u.view[u.focused].output = u.fo
    BY DEF Keyed
  <2>2. u.focused = w.focused /\ u.fo = w.fo /\ w.focused \in Views
    BY <1>1, <1>2, <2>1, DeskFields DEF SameKeys
  <2> HIDE DEF k
  <2> QED
    BY <1>1, <1>2, <2>1, <2>2 DEF Keyed
<1> QED
  BY <1>2, <1>3, GoodLoose

\* In u, the window v of a tag is sticky, in a group of its own.
Enters(s, u, v) ==
  /\ Sturdy(u) /\ SameKeys(s, u) /\ u.current = s.current /\ u.view[v].kind = "sticky"
  /\ u.view[v].output = s.view[v].output /\ u.view[v].shown = s.view[v].shown
  /\ \A x \in Views \ {v} : u.view[x] = s.view[x]

\* leme_tags_prune_empty
LEMMA PruneIs ==
  ASSUME NEW s \in Desks, NEW o \in Outputs \cup {NONE}, NEW t
  PROVE  LET u == Prune(s, o, t)
         IN /\ u \in Desks /\ SameRooms(s, u) /\ SameKeys(s, u) /\ u.current = s.current
            /\ u.groups = s.groups /\ u.view = s.view
            /\ \A p \in Outputs : /\ u.table[p] \subseteq s.table[p]
                                  /\ s.table[p] \subseteq u.table[p] \cup {t}
                                  /\ Members(s, p, t) # {} => u.table[p] = s.table[p]
<1> DEFINE u == Prune(s, o, t)
<1>0. s.table \in [Outputs -> SUBSET Tags]
  BY DeskFields
<1>1. CASE t # 1 /\ o # NONE /\ Members(s, o, t) = {}
  <2> DEFINE tb == [s.table EXCEPT ![o] = @ \ {t}]
  <2>1. o \in Outputs
    BY <1>1
  <2>2. tb \in [Outputs -> SUBSET Tags] /\ tb[o] = s.table[o] \ {t}
        /\ \A p \in Outputs \ {o} : tb[p] = s.table[p]
    BY <1>0, <2>1
  <2>3. u = [s EXCEPT !.table = tb]
    BY <1>1 DEF Prune
  <2> HIDE DEF tb, u
  <2>4. /\ u \in Desks /\ SameRooms(s, u) /\ SameKeys(s, u) /\ u.current = s.current
        /\ u.groups = s.groups /\ u.view = s.view /\ u.table = tb
    BY <2>2, <2>3 DEF Desks, SameRooms, SameKeys
  <2>5. ASSUME NEW p \in Outputs
        PROVE  /\ u.table[p] \subseteq s.table[p]
               /\ s.table[p] \subseteq u.table[p] \cup {t}
               /\ Members(s, p, t) # {} => u.table[p] = s.table[p]
    BY <1>0, <1>1, <2>2, <2>4
  <2> QED
    BY <2>4, <2>5 DEF u
<1>2. CASE ~(t # 1 /\ o # NONE /\ Members(s, o, t) = {})
  <2>1. u = s
    BY <1>2 DEF Prune
  <2> QED
    BY <1>0, <2>1 DEF SameRooms, SameKeys
<1> QED
  BY <1>1, <1>2

\* The tables may change under the groups.
LEMMA TablesSturdy ==
  ASSUME NEW s, Sturdy(s), NEW u \in Desks, SameRooms(s, u), u.fo = s.fo,
         u.groups = s.groups, u.view = s.view
  PROVE  Sturdy(u)
<1>1. Grouped(u) /\ Gathered(u)
  BY GroupsKept DEF Sturdy
<1>2. Seen(u) /\ Anchored(u) /\ Housed(u) /\ Lit(u) /\ Excused(u)
  BY DEF Sturdy, Seen, Anchored, Area, Housed, Lit, Excused, In, SameRooms
<1> QED
  BY <1>1, <1>2 DEF Sturdy, SameRooms

\* leme_sticky_enter
LEMMA EnterIs ==
  ASSUME NEW s, Sturdy(s), NEW v \in Views, s.view[v].kind = "tag", s.view[v].shown,
         s.view[v].output = s.fo
  PROVE  Enters(s, Enter(s, v), v)
<1> DEFINE o == s.view[v].output
           t == s.view[v].tag
           g == [root |-> v, members |-> <<v>>, parent |-> [y \in Views |-> NONE],
                 pending |-> FALSE]
           x == [Gone EXCEPT !.kind = "sticky", !.output = o, !.shown = s.view[v].shown,
                             !.anchor = Area(s, o)]
           q == <<g>> \o s.groups
           u == [s EXCEPT !.view[v] = x, !.groups = q]
<1>1. s \in Desks /\ Grouped(s) /\ Gathered(s) /\ Seen(s) /\ Anchored(s) /\ Housed(s)
      /\ Lit(s) /\ Excused(s) /\ ~s.dead
  BY DEF Sturdy
<1>2. o \in Outputs /\ s.view \in [Views -> Owned] /\ s.groups \in Seq(Groups)
  BY <1>1, DeskFields DEF Seen
<1>3. g \in Groups /\ Linked(g) /\ Elements(g.members) = {v} /\ ~g.pending
  <2>1. g \in Groups
    BY DEF Groups
  <2>2. v # NONE
    BY StickyAssumption
  <2>3. Linked(g)
    BY <2>2 DEF Linked
  <2>4. Elements(g.members) = {v}
    BY DEF Elements
  <2> QED
    BY <2>1, <2>3, <2>4
<1>4. Enter(s, v) = Prune(u, o, t)
  BY DEF Enter
<1>5. /\ x \in Owned /\ x.kind = "sticky" /\ x.output = o /\ x.shown /\ x.anchor = Area(s, o)
      /\ x.shown = s.view[v].shown
  <2> DEFINE a == Area(s, o)
  <2>1. a \in (Outputs \cup {NONE}) \X BOOLEAN
    BY <1>2, AreaIn
  <2> HIDE DEF a
  <2>2. s.view[v].shown = TRUE
    BY <1>1, ViewFields
  <2>4. a = Area(s, o)
    BY DEF a
  <2> HIDE DEF o
  <2> DEFINE y == [Gone EXCEPT !.kind = "sticky", !.output = o, !.shown = TRUE, !.anchor = a]
  <2>3. y = x
    BY <2>2, <2>4
  <2>5. y \in Owned /\ y.kind = "sticky" /\ y.output = o /\ y.shown = TRUE /\ y.anchor = a
    BY <1>2, <2>1 DEF Gone, Owned, NoArea
  <2> HIDE DEF x, y
  <2> QED
    BY <2>2, <2>3, <2>4, <2>5
<1> HIDE DEF g, x
<1>6. /\ q \in Seq(Groups) /\ Len(q) = Len(s.groups) + 1 /\ q[1] = g
      /\ \A i \in 2 .. Len(s.groups) + 1 : q[i] = s.groups[i - 1]
  BY <1>2, <1>3, PushedIs
<1> HIDE DEF q
<1>7. /\ u \in Desks /\ SameRooms(s, u) /\ SameTags(s, u) /\ SameKeys(s, u)
      /\ u.groups = q /\ u.view[v] = x /\ \A y \in Views \ {v} : u.view[y] = s.view[y]
  BY <1>1, <1>2, <1>5, <1>6 DEF Desks, SameRooms, SameTags, SameKeys
<1> HIDE DEF u
<1>8. DOMAIN q = 1 .. Len(s.groups) + 1 /\ DOMAIN s.groups = 1 .. Len(s.groups)
      /\ Len(s.groups) \in Nat
  BY <1>2, <1>6
<1>9. \A y : In(u, y, 1) <=> y = v
  BY <1>3, <1>6, <1>7 DEF In
<1>10. \A i \in DOMAIN q : i # 1 => i - 1 \in DOMAIN s.groups /\ q[i] = s.groups[i - 1]
  BY <1>6, <1>8
<1>11. \A i \in DOMAIN q : i # 1 => \A y : In(u, y, i) <=> In(s, y, i - 1)
  BY <1>7, <1>10 DEF In
<1>12. \A k \in DOMAIN s.groups : \A y \in Views : In(s, y, k) =>
         y # v /\ s.view[y].kind = "sticky"
  BY <1>1 DEF Grouped
<1>13. \A k \in DOMAIN s.groups : k + 1 \in DOMAIN q /\ k + 1 # 1 /\ k + 1 - 1 = k
  BY <1>8
<1>14. Grouped(u)
  <2>1. \A k \in DOMAIN q : Linked(q[k])
    BY <1>1, <1>3, <1>6, <1>10 DEF Grouped
  <2>2. ASSUME NEW y \in Views
        PROVE  u.view[y].kind = "sticky" <=> \E k \in DOMAIN q : In(u, y, k)
    <3>1. CASE y = v
      <4>1. 1 \in DOMAIN q
        BY <1>8
      <4> QED
        BY <1>5, <1>7, <1>9, <3>1, <4>1
    <3>2. CASE y # v
      <4>1. u.view[y] = s.view[y]
        BY <1>7, <3>2
      <4>2. ASSUME s.view[y].kind = "sticky" PROVE \E k \in DOMAIN q : In(u, y, k)
        <5>1. PICK k \in DOMAIN s.groups : In(s, y, k)
          BY <1>1, <4>2 DEF Grouped
        <5>3. k + 1 \in DOMAIN q /\ k + 1 # 1
          BY <1>13
        <5>4. q[k + 1] = s.groups[k]
          BY <1>6, <1>8
        <5>2. k + 1 \in DOMAIN q /\ In(u, y, k + 1)
          BY <1>7, <5>1, <5>3, <5>4 DEF In
        <5> QED
          BY <5>2
      <4>3. ASSUME NEW k \in DOMAIN q, In(u, y, k) PROVE s.view[y].kind = "sticky"
        <5>1. k # 1
          BY <1>9, <3>2, <4>3
        <5>2. k - 1 \in DOMAIN s.groups /\ In(s, y, k - 1)
          BY <1>10, <1>11, <4>3, <5>1
        <5> QED
          BY <1>12, <5>2
      <4> QED
        BY <4>1, <4>2, <4>3
    <3> QED
      BY <3>1, <3>2
  <2>3. ASSUME NEW j \in DOMAIN q, NEW k \in DOMAIN q, NEW y \in Views, In(u, y, j), In(u, y, k)
        PROVE  j = k
    <3>1. CASE y = v
      BY <1>10, <1>11, <1>12, <2>3, <3>1
    <3>2. CASE y # v
      <4>1. j # 1 /\ k # 1
        BY <1>9, <2>3, <3>2
      <4>2. /\ j - 1 \in DOMAIN s.groups /\ In(s, y, j - 1)
            /\ k - 1 \in DOMAIN s.groups /\ In(s, y, k - 1)
        BY <1>10, <1>11, <2>3, <4>1
      <4>3. j - 1 = k - 1
        BY <1>1, <4>2 DEF Grouped
      <4> QED
        BY <1>8, <4>3
    <3> QED
      BY <3>1, <3>2
  <2>4. ASSUME NEW j \in DOMAIN q, NEW k \in DOMAIN q, WindowsWait(q[j]), WindowsWait(q[k])
        PROVE  j = k
    <3>1. j # 1 /\ k # 1
      BY <1>3, <1>6, <2>4 DEF WindowsWait
    <3>2. /\ j - 1 \in DOMAIN s.groups /\ WindowsWait(s.groups[j - 1])
          /\ k - 1 \in DOMAIN s.groups /\ WindowsWait(s.groups[k - 1])
      BY <1>10, <2>4, <3>1
    <3>3. j - 1 = k - 1
      BY <1>1, <3>2 DEF Grouped
    <3> QED
      BY <1>8, <3>3
  <2> QED
    BY <1>7, <2>1, <2>2, <2>3, <2>4 DEF Grouped
<1>15. Gathered(u)
  <2>1. SUFFICES ASSUME NEW k \in DOMAIN q, NEW y \in Views, NEW z \in Views, In(u, y, k)
                 PROVE  /\ In(u, z, k) => u.view[y].output = u.view[z].output
                        /\ q[k].pending => u.view[y].output = NONE
    BY <1>7 DEF Gathered
  <2>2. CASE k = 1
    BY <1>3, <1>6, <1>9, <2>1, <2>2
  <2>3. CASE k # 1
    <3>1. k - 1 \in DOMAIN s.groups /\ In(s, y, k - 1) /\ q[k] = s.groups[k - 1]
          /\ (In(u, z, k) => In(s, z, k - 1))
      BY <1>10, <1>11, <2>1, <2>3
    <3>2. u.view[y] = s.view[y] /\ (In(u, z, k) => u.view[z] = s.view[z])
      BY <1>7, <1>12, <3>1
    <3> QED
      BY <1>1, <3>1, <3>2 DEF Gathered
  <2> QED
    BY <2>2, <2>3
<1>16. Excused(u)
  <2>1. SUFFICES ASSUME NEW k \in DOMAIN q, NEW y \in Views, In(u, y, k),
                        u.view[y].output = NONE
                 PROVE  s.on = {} \/ s.failed \/ (q[k].pending /\ "unmap" \in Faults)
    BY <1>7 DEF Excused, SameRooms
  <2>2. k # 1
    BY <1>2, <1>5, <1>7, <1>9, <2>1, StickyAssumption
  <2>3. k - 1 \in DOMAIN s.groups /\ In(s, y, k - 1) /\ q[k] = s.groups[k - 1]
    BY <1>10, <1>11, <2>1, <2>2
  <2>4. u.view[y] = s.view[y]
    BY <1>7, <1>12, <2>3
  <2> QED
    BY <1>1, <2>1, <2>3, <2>4 DEF Excused
<1>17. Seen(u) /\ Anchored(u) /\ Lit(u)
  <2>1. o # NONE
    BY <1>2, StickyAssumption
  <2> QED
    BY <1>1, <1>5, <1>7, <2>1 DEF Seen, Anchored, Area, Lit, SameRooms, SameKeys
<1>18. Housed(u)
  BY <1>1, <1>5, <1>7 DEF Housed, SameRooms, SameKeys
<1>19. Sturdy(u)
  BY <1>1, <1>7, <1>14, <1>15, <1>16, <1>17, <1>18 DEF Sturdy, SameRooms
<1> DEFINE r == Prune(u, o, t)
<1>20. /\ r \in Desks /\ SameRooms(u, r) /\ SameKeys(u, r) /\ r.current = u.current
       /\ r.groups = u.groups /\ r.view = u.view
  BY <1>2, <1>7, PruneIs
<1> HIDE DEF r
<1>21. Sturdy(r)
  BY <1>19, <1>20, TablesSturdy DEF SameKeys
<1>22. Enters(s, r, v)
  BY <1>5, <1>7, <1>20, <1>21 DEF Enters, SameKeys, SameTags
<1> QED
  BY <1>4, <1>22 DEF r

\* leme_sticky_toggle
LEMMA ToggleStickyGood ==
  ASSUME Surprises = {}, Sound(w), ToggleSticky
  PROVE  Good(w, w') /\ Quiet
<1> DEFINE v == Subject
<1>1. v # NONE
  BY DEF ToggleSticky
<1>2. Sturdy(w) /\ Keyed(w) /\ w \in Desks
  BY SturdyKeyed DEF Sturdy
<1>3. CASE IsSticky(w, v)
  <2> DEFINE o == w.view[v].output
  <2>1. o # NONE /\ o = w.fo /\ w' = Settle(w, v, w.current[o]) /\ Quiet
    BY <1>3, QuietlyIs DEF ToggleSticky
  <2>2. v \in Views /\ w.view[v].kind = "sticky"
    BY <1>1, <1>3, SubjectIs
  <2>3. o \in Outputs /\ w.current[o] \in Tags
    BY <1>2, <2>1, <2>2, DeskFields, ViewFields
  <2> HIDE DEF v
  <2>4. Settles(w, w', GroupOf(w, v), o, w.current[o])
    BY <1>2, <2>1, <2>2, <2>3, SettleIs
  <2> QED
    BY <2>1, <2>2, <2>3, <2>4, SettledGood
<1>4. CASE ~IsSticky(w, v)
  <2>1. w' = Enter(w, v) /\ Quiet
    BY <1>4, QuietlyIs DEF ToggleSticky
  <2>2. v \in Views /\ v = w.focused /\ w.view[v].kind = "tag" /\ w.view[v].output = w.fo
        /\ w.view[v].shown
    BY <1>1, <1>4, SubjectIs
  <2> HIDE DEF v
  <2>3. Enters(w, w', v)
    BY <1>2, <2>1, <2>2, EnterIs
  <2>4. Keyed(w')
    BY <2>2, <2>3 DEF Enters, SameKeys, Keyed
  <2> QED
    BY <2>1, <2>3, <2>4, GoodLoose DEF Enters
<1> QED
  BY <1>3, <1>4

\* In u, the group at k of s is shown on the tag t of its output o, which has the focus.
Landed(s, u, k, o, t) ==
  /\ Sturdy(u) /\ u.fo = o /\ u.current = [s.current EXCEPT ![o] = t]
  /\ \A x \in Views : In(s, x, k) => u.view[x].output = o /\ u.view[x].shown
  /\ o \in u.on => Clean(u, o)

LEMMA LandedGood ==
  ASSUME NEW s \in Desks, NEW u, NEW k, NEW o, NEW t, Landed(s, u, k, o, t),
         NEW f \in Views, In(s, f, k)
  PROVE  Good(s, [u EXCEPT !.focused = f])
<1> DEFINE r == [u EXCEPT !.focused = f]
<1>1. Sturdy(u) /\ u.view[f].shown /\ u.view[f].output = u.fo
  BY DEF Landed
<1>2. Sturdy(r) /\ Keyed(r) /\ TagsOnly(u, r) /\ r.view = u.view
  BY <1>1, FocusedKeyed
<1> HIDE DEF r
<1>3. ASSUME NEW p \in r.on, r.current[p] # s.current[p]
      PROVE  Clean(r, p)
  <2>1. r.current = [s.current EXCEPT ![o] = t] /\ r.on = u.on
    BY <1>2 DEF Landed, TagsOnly, SameTags, SameRooms
  <2>2. p \in Outputs /\ s.current \in [Outputs -> Tags]
    BY <1>2, DeskFields DEF Sturdy
  <2>3. p = o
    BY <1>3, <2>1, <2>2
  <2>4. Clean(u, p)
    BY <2>1, <2>3 DEF Landed
  <2> QED
    BY <1>2, <2>4, ShowingKept DEF Clean
<1> QED
  BY <1>2, <1>3, SturdyKeyed DEF Good, r

\* leme_sticky_move_to_tag
LEMMA MoveToTagGood ==
  ASSUME Surprises = {}, Sound(w), NEW t \in Tags, NEW follow \in BOOLEAN, MoveToTag(t, follow)
  PROVE  Good(w, w') /\ Quiet
<1> DEFINE v == Subject
           o == w.view[v].output
           k == GroupOf(w, v)
           s == Settle(w, v, t)
           c == [s.current EXCEPT ![o] = t]
           p == [s EXCEPT !.current = c]
<1>1. v # NONE /\ IsSticky(w, v) /\ o # NONE
  BY DEF MoveToTag
<1>2. CASE ~follow
  <2>1. o = w.fo /\ w' = s /\ Quiet
    BY <1>2, QuietlyIs DEF MoveToTag
  <2>2. v \in Views /\ w.view[v].kind = "sticky" /\ Sturdy(w)
    BY <1>1, SubjectIs, SturdyKeyed
  <2> HIDE DEF v
  <2>3. Settles(w, s, k, o, t)
    BY <1>1, <2>2, SettleIs
  <2> HIDE DEF s
  <2> QED
    BY <1>1, <2>1, <2>2, <2>3, SettledGood
<1>3. CASE follow
  <2>1. [s EXCEPT !.current[o] = t] = p
    OBVIOUS
  <2>2. PICK u \in SetFocused(p, o) : w' = [u EXCEPT !.focused = w.focused]
    BY <1>3, <2>1, QuietlyIs DEF MoveToTag
  <2>3. Quiet
    BY <1>3, <2>1, QuietlyIs DEF MoveToTag
  <2>4. /\ v \in Views /\ w.view[v].kind = "sticky" /\ Sturdy(w) /\ w \in Desks
        /\ Grouped(w) /\ Housed(w) /\ k \in DOMAIN w.groups /\ In(w, v, k)
        /\ w.focused \in Views /\ In(w, w.focused, k)
    BY <1>1, SubjectIs, SturdyKeyed DEF Sturdy
  <2>5. o \in Outputs
    BY <1>1, <2>4, ViewFields
  <2> HIDE DEF v
  <2>6. Settles(w, s, k, o, t)
    BY <1>1, <2>4, SettleIs
  <2> HIDE DEF s
  <2>7. s \in Desks /\ c \in [Outputs -> Tags] /\ c[o] = t
        /\ c = [w.current EXCEPT ![o] = t]
    BY <2>5, <2>6, DeskFields DEF Settles, Sturdy
  <2> HIDE DEF c
  <2>8. /\ p \in Desks /\ SameRooms(s, p) /\ p.fo = s.fo /\ p.groups = s.groups
        /\ p.view = s.view /\ p.current = c /\ p.table = s.table
    BY <2>7 DEF Desks, SameRooms
  <2> HIDE DEF p
  <2>9. Sturdy(p)
    BY <2>6, <2>8, TablesSturdy DEF Settles
  <2> HIDE DEF k
  <2>10. Landed(w, u, k, o, t)
    <3>1. \A x \in Views : IF In(w, x, k)
                           THEN /\ p.view[x].kind = "tag" /\ p.view[x].output = o
                                /\ p.view[x].tag = t /\ p.view[x].shown
                           ELSE p.view[x] = w.view[x]
      BY <2>6, <2>8 DEF Settles
    <3>2. /\ p.current[o] = t /\ t \in p.table[o] /\ p.on = w.on /\ p.fo = w.fo
          /\ p.current = [w.current EXCEPT ![o] = t]
      BY <2>6, <2>7, <2>8 DEF Settles, SameRooms, SameKeys
    <3>3. CASE o \in p.on
      <4> DEFINE n == [p EXCEPT !.fo = o]
      <4>1. n \in Desks /\ n.view = p.view /\ n.current = p.current /\ n.table = p.table
        BY <2>5, <2>8 DEF Desks
      <4>2. u \in Refresh(n, o)
        BY <3>3 DEF SetFocused
      <4> HIDE DEF n
      <4>3. Refreshes(n, u, o)
        BY <2>5, <4>1, <4>2, RefreshIs
      <4>4. Sturdy(u) /\ u.fo = o /\ TagsOnly(p, u)
        BY <2>5, <2>9, <3>3, SetFocusedKeeps
      <4>11. n.current[o] = t /\ t \in n.table[o]
        BY <3>2, <4>1
      <4>5. ASSUME NEW x \in Views, In(w, x, k) PROVE x \in Showing(n, o)
        <5>1. n.view[x].kind = "tag" /\ n.view[x].output = o /\ n.view[x].tag = t
          BY <3>1, <4>1, <4>5
        <5> QED
          BY <2>5, <4>1, <4>11, <5>1, ShowingIs
      <4>9. \A x \in Views : x \in Showing(u, o) <=> x \in Showing(n, o)
        BY <4>1, <4>4, ShowingIs DEF TagsOnly, SameTags
      <4>6. \A x \in Views : u.view[x].shown = IF p.view[x].kind = "tag" /\ p.view[x].output = o
                                               THEN x \in Showing(n, o) ELSE p.view[x].shown
        <5>1. \A x \in Views :
                u.view[x].shown = IF n.view[x].kind = "tag" /\ n.view[x].output = o
                                  THEN x \in Showing(n, o) ELSE n.view[x].shown
          BY <4>3 DEF Refreshes
        <5> QED
          BY <4>1, <5>1
      <4>7. /\ u.current = p.current /\ u.table = p.table
            /\ \A x \in Views : /\ u.view[x].kind = p.view[x].kind /\ u.view[x].tag = p.view[x].tag
                               /\ u.view[x].output = p.view[x].output
        BY <4>4 DEF TagsOnly, SameTags
      <4> HIDE DEF o
      <4>8. ASSUME NEW x \in Views, In(w, x, k)
            PROVE  u.view[x].output = o /\ u.view[x].shown
        BY <3>1, <4>5, <4>6, <4>7, <4>8
      <4>10. Clean(u, o)
        BY <4>6, <4>7, <4>9 DEF Clean
      <4> QED
        BY <3>2, <4>4, <4>7, <4>8, <4>10 DEF Landed
    <3>4. CASE o \notin p.on
      <4>1. u = p
        BY <3>4 DEF SetFocused
      <4>2. o = w.fo
        BY <1>1, <2>4, <3>2, <3>4 DEF Housed, o
      <4> QED
        BY <2>9, <3>1, <3>2, <3>4, <4>1, <4>2 DEF Landed
    <3> QED
      BY <3>3, <3>4
  <2>11. Good(w, w')
    BY <2>2, <2>4, <2>10, LandedGood
  <2> QED
    BY <2>3, <2>11
<1> QED
  BY <1>2, <1>3

\* A group goes to an output that is on.
LEMMA HousedSturdy ==
  ASSUME NEW s, Sturdy(s), NEW k \in DOMAIN s.groups, ~s.groups[k].pending,
         NEW o \in Outputs, o \in s.on, NEW u,
         Houses(s, u, Elements(s.groups[k].members), o, Area(s, o))
  PROVE  Sturdy(u)
<1> DEFINE vs == Elements(s.groups[k].members)
<1>1. s \in Desks /\ ~s.dead /\ Grouped(s) /\ Gathered(s) /\ Seen(s) /\ Anchored(s) /\ Housed(s)
      /\ Lit(s) /\ Excused(s)
  BY DEF Sturdy
<1>2. o # NONE
  BY StickyAssumption
<1>3. /\ u \in Desks /\ SameRooms(s, u) /\ SameKeys(s, u) /\ u.groups = s.groups
      /\ \A v \in Views :
           IF In(s, v, k)
           THEN /\ u.view[v].kind = s.view[v].kind /\ u.view[v].output = o
                /\ u.view[v].shown /\ u.view[v].anchor = Area(s, o)
           ELSE u.view[v] = s.view[v]
  BY <1>2 DEF Houses, In
<1>4. \A v \in Views : u.view[v].kind = s.view[v].kind
  BY <1>3
<1>5. \A v \in Views : In(s, v, k) => s.view[v].kind = "sticky"
  BY <1>1 DEF Grouped
<1>6. Grouped(u)
  BY <1>1, <1>3, <1>4 DEF Grouped, In
<1>7. Gathered(u)
  <2>1. SUFFICES ASSUME NEW j \in DOMAIN s.groups, NEW x \in Views, NEW y \in Views, In(s, x, j)
                 PROVE  /\ In(s, y, j) => u.view[x].output = u.view[y].output
                        /\ s.groups[j].pending => u.view[x].output = NONE
    BY <1>3 DEF Gathered, In
  <2>2. CASE j = k
    BY <1>3, <2>1, <2>2
  <2>3. CASE j # k
    <3>1. ~In(s, x, k) /\ (In(s, y, j) => ~In(s, y, k))
      BY <1>1, <2>1, <2>3 DEF Grouped
    <3> QED
      BY <1>1, <1>3, <2>1, <3>1 DEF Gathered
  <2> QED
    BY <2>2, <2>3
<1>8. Seen(u)
  BY <1>1, <1>2, <1>3, <1>5 DEF Seen
<1>9. Anchored(u) /\ Housed(u) /\ Lit(u)
  BY <1>1, <1>3 DEF Anchored, Housed, Lit, Area, SameRooms, SameKeys
<1>10. Excused(u)
  BY <1>1, <1>2, <1>3 DEF Excused, In, SameRooms
<1> QED
  BY <1>1, <1>3, <1>6, <1>7, <1>8, <1>9, <1>10 DEF Sturdy, SameRooms

\* leme_sticky_move_to_output
LEMMA MoveToOutputGood ==
  ASSUME Sound(w), NEW o \in Outputs, NEW follow \in BOOLEAN, MoveToOutput(o, follow)
  PROVE  Good(w, w') /\ Quiet
<1> DEFINE v == Subject
           k == GroupOf(w, v)
           vs == Elements(w.groups[k].members)
           a == Area(w, o)
           s == Anchor(Present(w, vs, o), vs, a)
<1>1. v # NONE /\ IsSticky(w, v) /\ w.view[v].output # NONE /\ o \in w.on
  BY DEF MoveToOutput
<1>2. /\ v \in Views /\ w.view[v].kind = "sticky" /\ Sturdy(w) /\ w \in Desks
      /\ Grouped(w) /\ Gathered(w) /\ k \in DOMAIN w.groups /\ In(w, v, k)
      /\ w.focused \in Views /\ In(w, w.focused, k)
  BY <1>1, SubjectIs, SturdyKeyed DEF Sturdy
<1>3. w' \in (IF follow THEN {[u EXCEPT !.focused = v] : u \in SetFocused(s, o)} ELSE {s})
      /\ Quiet
  <2>1. Quietly(IF follow THEN {[u EXCEPT !.focused = v] : u \in SetFocused(s, o)} ELSE {s})
    BY DEF MoveToOutput
  <2> HIDE DEF s, v
  <2> QED
    BY <2>1, QuietlyIs
<1> HIDE DEF v, k
<1>4. ~w.groups[k].pending
  BY <1>1, <1>2 DEF Gathered
<1>5. Houses(w, s, vs, o, a)
  BY <1>2, AreaIn, AnchorHouses
<1> HIDE DEF s
<1>6. Sturdy(s)
  BY <1>1, <1>2, <1>4, <1>5, HousedSturdy
<1>7. /\ SameRooms(w, s) /\ SameKeys(w, s)
      /\ \A x \in Views : s.view[x].kind = w.view[x].kind
      /\ \A x \in Views : In(w, x, k) => s.view[x].shown /\ s.view[x].output = o
  <2>1. o # NONE
    BY StickyAssumption
  <2> QED
    BY <1>5, <2>1 DEF Houses, In
<1>8. \A x \in Views : In(w, x, k) => w.view[x].kind = "sticky"
  BY <1>2 DEF Grouped
<1>9. CASE follow
  <2>1. PICK u \in SetFocused(s, o) : w' = [u EXCEPT !.focused = v]
    BY <1>3, <1>9
  <2>2. Sturdy(u) /\ TagsOnly(s, u) /\ u.fo = o
    BY <1>1, <1>6, <1>7, <2>1, SetFocusedKeeps DEF SameRooms
  <2>3. u.view[v].shown /\ u.view[v].output = o
    BY <1>2, <1>7, <2>2 DEF TagsOnly
  <2>4. Sturdy(w') /\ Keyed(w') /\ TagsOnly(u, w')
    BY <1>2, <2>1, <2>2, <2>3, FocusedKeyed
  <2>5. w'.current = w.current
    BY <1>5, <2>2, <2>4 DEF TagsOnly, Houses, SameTags
  <2> QED
    BY <1>3, <2>4, <2>5, GoodLoose
<1>10. CASE ~follow
  <2>1. w' = s
    BY <1>3, <1>10
  <2>2. Keyed(s)
    BY <1>2, <1>7, <1>8 DEF Keyed, SameKeys
  <2>3. w'.current = w.current
    BY <1>5, <2>1 DEF Houses, SameTags
  <2> QED
    BY <1>3, <1>6, <2>1, <2>2, <2>3, GoodLoose
<1> QED
  BY <1>9, <1>10

-----------------------------------------------------------------------------
(* Groups that change.                                                     *)

\* In u, the group at k of s is g.
Swaps(s, u, k, g) ==
  /\ u.groups \in Seq(Groups) /\ DOMAIN u.groups = DOMAIN s.groups
  /\ u.groups[k] = g /\ \A j \in DOMAIN s.groups : j # k => u.groups[j] = s.groups[j]
  /\ \A j \in DOMAIN s.groups : \A v :
       In(u, v, j) <=> IF j = k THEN v \in Elements(g.members) ELSE In(s, v, j)

LEMMA SwapIs ==
  ASSUME NEW s \in Desks, NEW k \in DOMAIN s.groups, NEW g \in Groups,
         NEW u, u.groups = [s.groups EXCEPT ![k] = g]
  PROVE  Swaps(s, u, k, g)
<1>1. s.groups \in Seq(Groups)
  BY DeskFields
<1>2. /\ u.groups \in Seq(Groups) /\ DOMAIN u.groups = DOMAIN s.groups
      /\ u.groups[k] = g /\ \A j \in DOMAIN s.groups : j # k => u.groups[j] = s.groups[j]
  BY <1>1
<1> QED
  BY <1>2 DEF Swaps, In

\* A group that gains windows no group has, or loses some, is linked like the others.
LEMMA SwapGrouped ==
  ASSUME NEW s, Grouped(s), NEW k \in DOMAIN s.groups, NEW g, Linked(g), NEW u, Swaps(s, u, k, g),
         WindowsWait(g) => \A j \in DOMAIN s.groups : WindowsWait(s.groups[j]) => j = k,
         \A v \in Views : v \in Elements(g.members) => In(s, v, k) \/ s.view[v].kind # "sticky",
         \A v \in Views : u.view[v].kind = "sticky" <=>
           v \in Elements(g.members) \/ (s.view[v].kind = "sticky" /\ ~In(s, v, k))
  PROVE  Grouped(u)
<1>1. /\ DOMAIN u.groups = DOMAIN s.groups /\ u.groups[k] = g
      /\ \A j \in DOMAIN s.groups : j # k => u.groups[j] = s.groups[j]
      /\ \A j \in DOMAIN s.groups : \A v :
           In(u, v, j) <=> IF j = k THEN v \in Elements(g.members) ELSE In(s, v, j)
  BY DEF Swaps
<1>2. \A j \in DOMAIN s.groups : Linked(u.groups[j])
  BY <1>1 DEF Grouped
<1>3. \A v \in Views : \A i, j \in DOMAIN s.groups : In(s, v, i) /\ In(s, v, j) => i = j
  BY DEF Grouped
<1>4. \A v \in Views : u.view[v].kind = "sticky" <=> \E j \in DOMAIN s.groups : In(u, v, j)
  <2>1. TAKE v \in Views
  <2>2. \A j \in DOMAIN s.groups : In(u, v, j) => u.view[v].kind = "sticky"
    BY <1>1, <1>3 DEF Grouped
  <2>3. CASE v \in Elements(g.members)
    BY <1>1, <2>3
  <2>4. CASE v \notin Elements(g.members)
    <3>1. SUFFICES ASSUME s.view[v].kind = "sticky", ~In(s, v, k)
                   PROVE  \E j \in DOMAIN s.groups : In(u, v, j)
      BY <2>2, <2>4
    <3>2. PICK j \in DOMAIN s.groups : In(s, v, j)
      BY <3>1 DEF Grouped
    <3> QED
      BY <1>1, <3>1, <3>2
  <2> QED
    BY <2>3, <2>4
<1>5. \A i, j \in DOMAIN s.groups : \A v \in Views : In(u, v, i) /\ In(u, v, j) => i = j
  BY <1>1, <1>3 DEF Grouped
<1>6. \A i, j \in DOMAIN s.groups :
        WindowsWait(u.groups[i]) /\ WindowsWait(u.groups[j]) => i = j
  BY <1>1 DEF Grouped
<1> QED
  BY <1>1, <1>2, <1>4, <1>5, <1>6 DEF Grouped

\* leme_sticky_descendant_tail is behind the window itself.
LEMMA TailIs ==
  ASSUME NEW g \in Groups, NEW p \in Elements(g.members)
  PROVE  /\ Tail_(g, p) \in DOMAIN g.members
         /\ \A j \in DOMAIN g.members : g.members[j] = p => j <= Tail_(g, p)
<1> DEFINE m == g.members
           best(at) == CHOOSE i \in at : \A j \in at : j <= i
           cut(D) == {i \in DOMAIN m : m[i] = p \/ D[m[i]]}
<1>1. \E D : Tail_(g, p) = best(cut(D))
  BY DEF Tail_
<1>2. PICK D : Tail_(g, p) = best(cut(D))
  BY <1>1
<1>3. m \in Seq(Views)
  BY DEF Groups
<1> HIDE DEF m
<1>4. cut(D) \subseteq 0 .. Len(m) /\ Len(m) \in Nat
  BY <1>3
<1>5. cut(D) # {}
  BY DEF Elements, m
<1> DEFINE c == cut(D)
<1>6. PICK i \in c : \A j \in c : j <= i
  <2> HIDE DEF c
  <2>1. c \in SUBSET (0 .. Len(m)) /\ c # {}
    BY <1>4, <1>5 DEF c
  <2> QED
    BY <1>4, <2>1, GreatestElement
<1>7. best(c) \in c /\ \A j \in c : j <= best(c)
  <2> HIDE DEF c
  <2> QED
    BY <1>6
<1> QED
  BY <1>2, <1>7 DEF m

\* leme_sticky_commit_transient
LEMMA LinkingIs ==
  ASSUME NEW g \in Groups, Linked(g), NEW p \in Elements(g.members), NEW v \in Views,
         v \notin Elements(g.members)
  PROVE  LET h == Linking(g, p, v)
         IN h \in Groups /\ Linked(h) /\ Elements(h.members) = Elements(g.members) \cup {v}
            /\ h.pending = g.pending
<1> DEFINE m == g.members
           T == Tail_(g, p)
           r == InsertAt(m, T + 1, v)
           h == [g EXCEPT !.members = r, !.parent[v] = p]
<1>1. m \in Seq(Views) /\ Len(m) \in Nat /\ DOMAIN m = 1 .. Len(m)
      /\ g.parent \in [Views -> Views \cup {NONE}]
  BY DEF Groups
<1>2. T \in 1 .. Len(m) /\ \A j \in DOMAIN m : m[j] = p => j <= T
  BY <1>1, TailIs
<1>3. Linking(g, p, v) = h
  BY DEF Linking
<1> HIDE DEF T
<1>4. Inserted(Views, m, r, T + 1, v)
  BY <1>1, <1>2, InsertedAtIs
<1> HIDE DEF r
<1>5. r \in Seq(Views) /\ Len(r) = Len(m) + 1 /\ DOMAIN r = 1 .. Len(m) + 1
      /\ \A i \in 1 .. Len(m) + 1 :
           r[i] = IF i < T + 1 THEN m[i] ELSE IF i = T + 1 THEN v ELSE m[i - 1]
  BY <1>4 DEF Inserted
<1>6. p \in Views
  BY <1>1 DEF Elements
<1>7. /\ h \in Groups /\ h.members = r /\ h.root = g.root /\ h.pending = g.pending
      /\ h.parent[v] = p /\ \A y \in Views : y # v => h.parent[y] = g.parent[y]
  BY <1>1, <1>5, <1>6 DEF Groups
<1> HIDE DEF h
<1>8. \A i \in 1 .. Len(m) : m[i] # v /\ m[i] \in Views
  BY <1>1 DEF Elements
<1> DEFINE at(i) == IF i < T + 1 THEN i ELSE i - 1
<1>9. \A i \in 1 .. Len(m) + 1 : i # T + 1 => at(i) \in 1 .. Len(m) /\ r[i] = m[at(i)]
  BY <1>2, <1>5
<1>10. \A j \in 1 .. Len(m) : IF j <= T THEN r[j] = m[j] ELSE r[j + 1] = m[j]
  BY <1>2, <1>5
<1>11. r[T + 1] = v /\ T + 1 \in 1 .. Len(m) + 1
  BY <1>2, <1>5
<1>12. Elements(r) = Elements(m) \cup {v}
  <2>1. ASSUME NEW y \in Elements(r) PROVE y \in Elements(m) \cup {v}
    BY <1>1, <1>5, <1>9, <1>11 DEF Elements
  <2>2. ASSUME NEW y \in Elements(m) PROVE y \in Elements(r)
    <3>1. PICK j \in 1 .. Len(m) : m[j] = y
      BY <1>1 DEF Elements
    <3>2. CASE j <= T
      <4>1. j \in DOMAIN r /\ r[j] = y
        BY <1>1, <1>5, <1>10, <3>1, <3>2
      <4> QED
        BY <4>1 DEF Elements
    <3>3. CASE ~(j <= T)
      <4>1. j + 1 \in DOMAIN r /\ r[j + 1] = y
        BY <1>1, <1>5, <1>10, <3>1, <3>3
      <4> QED
        BY <4>1 DEF Elements
    <3> QED
      BY <3>2, <3>3
  <2>3. v \in Elements(r)
    BY <1>5, <1>11 DEF Elements
  <2> QED
    BY <2>1, <2>2, <2>3
<1>13. Linked(h)
  <2>1. \A i, j \in DOMAIN r : r[i] = r[j] => i = j
    <3>1. TAKE i, j \in DOMAIN r
    <3>2. HAVE r[i] = r[j]
    <3>3. CASE i = T + 1 \/ j = T + 1
      BY <1>5, <1>8, <1>9, <1>11, <3>2, <3>3
    <3>4. CASE i # T + 1 /\ j # T + 1
      <4>1. at(i) \in DOMAIN m /\ at(j) \in DOMAIN m /\ m[at(i)] = m[at(j)]
        BY <1>1, <1>5, <1>9, <3>2, <3>4
      <4>2. at(i) = at(j)
        <5> HIDE DEF at
        <5> QED
          BY <4>1 DEF Linked, m
      <4> QED
        BY <1>2, <1>5, <3>4, <4>2
    <3> QED
      BY <3>3, <3>4
  <2>2. r # <<>>
    BY <1>1, <1>5
  <2>6. r = <<>> => h.pending
    BY <2>2
  <2>3. g.pending <=> g.root = NONE
    BY DEF Linked
  <2>4. ASSUME ~g.pending PROVE r[1] = g.root /\ h.parent[g.root] = NONE
    <3>1. m[1] = g.root /\ g.parent[g.root] = NONE
      BY <2>4 DEF Linked, m
    <3>2. r[1] = m[1] /\ 1 \in 1 .. Len(m)
      BY <1>1, <1>2, <1>5
    <3> QED
      BY <1>7, <1>8, <3>1, <3>2
  <2>5. ASSUME NEW i \in DOMAIN r
        PROVE  h.parent[r[i]] = NONE \/ \E j \in 1 .. (i - 1) : r[j] = h.parent[r[i]]
    <3>1. CASE i = T + 1
      <4>1. h.parent[r[i]] = p
        BY <1>7, <1>11, <3>1
      <4>2. PICK j \in 1 .. Len(m) : m[j] = p
        BY <1>1 DEF Elements
      <4>3. j <= T /\ r[j] = p
        BY <1>1, <1>2, <1>10, <4>2
      <4>4. j \in 1 .. (i - 1)
        BY <1>2, <3>1, <4>2, <4>3
      <4> QED
        BY <4>1, <4>3, <4>4
    <3>2. CASE i # T + 1
      <4> DEFINE n == at(i)
      <4>1. n \in 1 .. Len(m) /\ r[i] = m[n] /\ h.parent[r[i]] = g.parent[m[n]]
        BY <1>5, <1>7, <1>8, <1>9, <3>2
      <4>5. i \in 1 .. Len(m) + 1 /\ (i < T + 1 => n = i) /\ (~(i < T + 1) => n = i - 1 /\ i > T + 1)
        BY <1>2, <1>5, <3>2
      <4> HIDE DEF n
      <4>2. g.parent[m[n]] = NONE \/ \E j \in 1 .. (n - 1) : m[j] = g.parent[m[n]]
        BY <1>1, <4>1 DEF Linked, m
      <4>3. ASSUME NEW j \in 1 .. (n - 1), m[j] = g.parent[m[n]]
            PROVE  \E l \in 1 .. (i - 1) : r[l] = g.parent[m[n]]
        <5>1. j \in 1 .. Len(m)
          BY <1>1, <4>1
        <5>2. CASE j <= T
          <6>1. j \in 1 .. (i - 1) /\ r[j] = m[j]
            BY <1>1, <1>2, <1>10, <4>1, <4>5, <5>1, <5>2
          <6> QED
            BY <4>3, <6>1
        <5>3. CASE ~(j <= T)
          <6>1. j + 1 \in 1 .. (i - 1) /\ r[j + 1] = m[j]
            BY <1>1, <1>2, <1>10, <4>1, <4>5, <5>1, <5>3
          <6> QED
            BY <4>3, <6>1
        <5> QED
          BY <5>2, <5>3
      <4> QED
        BY <4>1, <4>2, <4>3
    <3> QED
      BY <3>1, <3>2
  <2> QED
    BY <1>7, <2>1, <2>3, <2>4, <2>5, <2>6 DEF Linked
<1> QED
  BY <1>3, <1>7, <1>12, <1>13 DEF h, m

\* leme_sticky_commit_transient of a dialog of p
LEMMA MapDialogGood ==
  ASSUME Sound(w), NEW p \in Views, NEW v \in Views, MapDialog(p, v)
  PROVE  Good(w, w') /\ Quiet
<1> DEFINE k == GroupOf(w, p)
           o == w.view[p].output
           b == o # NONE
           a == IF o = NONE THEN w.view[p].anchor ELSE Area(w, o)
           x == [Gone EXCEPT !.kind = "sticky", !.output = o, !.shown = b, !.anchor = a]
           g == w.groups[k]
           h == Linking(g, p, v)
           f == [w.view EXCEPT ![v] = x]
           q == [w.groups EXCEPT ![k] = h]
           s == [w EXCEPT !.view = f, !.groups = q]
<1>1. w.view[v].kind = "none" /\ IsSticky(w, p) /\ w' = s /\ Quiet
  BY QuietlyIs DEF MapDialog, Join
<1>2. /\ Sturdy(w) /\ Keyed(w) /\ w \in Desks /\ ~w.dead
      /\ Grouped(w) /\ Gathered(w) /\ Seen(w) /\ Anchored(w) /\ Housed(w)
      /\ Lit(w) /\ Excused(w)
  BY SturdyKeyed DEF Sturdy
<1>3. w.view[p].kind = "sticky" /\ k \in DOMAIN w.groups /\ In(w, p, k)
  BY <1>1, <1>2, GroupOfSticky
<1> HIDE DEF k
<1>4. o \in Outputs \cup {NONE} /\ b \in BOOLEAN /\ (b <=> o # NONE)
  BY <1>2, ViewFields
<1>5. a \in (Outputs \cup {NONE}) \X BOOLEAN /\ (o # NONE => a = Area(w, o))
  <2>1. w.view[p] \in Owned
    BY <1>2, ViewFields
  <2>2. w.view[p].anchor \in (Outputs \cup {NONE}) \X BOOLEAN
    BY <2>1 DEF Owned
  <2>3. o # NONE => Area(w, o) \in (Outputs \cup {NONE}) \X BOOLEAN
    BY <1>4, AreaIn
  <2> QED
    BY <2>2, <2>3
<1> HIDE DEF a, b
<1>6. x \in Owned /\ x.kind = "sticky" /\ x.output = o /\ x.shown = b /\ x.anchor = a
  <2> HIDE DEF o
  <2> QED
    BY <1>4, <1>5 DEF Gone, Owned, NoArea
<1> HIDE DEF x
<1>7. g \in Groups /\ Linked(g) /\ (v \notin Elements(g.members)) /\ p \in Elements(g.members)
  BY <1>1, <1>2, <1>3, GroupFields DEF Grouped, In
<1>8. h \in Groups /\ Linked(h) /\ Elements(h.members) = Elements(g.members) \cup {v}
      /\ h.pending = g.pending
  BY <1>7, LinkingIs
<1> HIDE DEF h
<1>9. f \in [Views -> Owned] /\ f[v] = x /\ \A y \in Views \ {v} : f[y] = w.view[y]
  BY <1>2, <1>6, DeskFields
<1> HIDE DEF f
<1>10. q \in Seq(Groups)
  BY <1>2, <1>3, <1>8, DeskFields
<1>11. /\ s \in Desks /\ SameRooms(w, s) /\ SameTags(w, s) /\ SameKeys(w, s)
       /\ s.groups = q /\ s.view = f
  <2> HIDE DEF q
  <2> QED
    BY <1>2, <1>9, <1>10 DEF Desks, SameRooms, SameTags, SameKeys
<1> HIDE DEF s
<1>12. Swaps(w, s, k, h)
  BY <1>2, <1>3, <1>8, <1>11, SwapIs
<1> HIDE DEF q
<1>13. \A y \in Views : In(w, y, k) <=> y \in Elements(g.members)
  BY DEF In
<1>14. \A y \in Views \ {v} : s.view[y] = w.view[y]
  BY <1>9, <1>11
<1>15. s.view[v] = x
  BY <1>9, <1>11
<1>16. Grouped(s)
  <2>1. \A y \in Views : s.view[y].kind = "sticky" <=>
          y \in Elements(h.members) \/ (w.view[y].kind = "sticky" /\ ~In(w, y, k))
    BY <1>2, <1>3, <1>6, <1>8, <1>13, <1>14, <1>15 DEF Grouped
  <2>2. \A y \in Views : y \in Elements(h.members) => In(w, y, k) \/ w.view[y].kind # "sticky"
    BY <1>1, <1>8, <1>13
  <2>3. WindowsWait(h) => \A j \in DOMAIN w.groups : WindowsWait(w.groups[j]) => j = k
    <3>1. g.members # <<>>
      BY <1>7 DEF Elements
    <3>2. WindowsWait(h) => WindowsWait(w.groups[k])
      BY <1>8, <3>1 DEF WindowsWait
    <3> QED
      BY <1>2, <1>3, <3>2 DEF Grouped
  <2> QED
    BY <1>2, <1>3, <1>8, <1>12, <2>1, <2>2, <2>3, SwapGrouped
<1>17. /\ DOMAIN s.groups = DOMAIN w.groups
       /\ \A j \in DOMAIN w.groups : s.groups[j].pending = w.groups[j].pending
       /\ \A j \in DOMAIN w.groups : \A y \in Views \ {v} : In(s, y, j) <=> In(w, y, j)
       /\ \A j \in DOMAIN w.groups : In(s, v, j) => j = k
  <2>1. \A j \in DOMAIN w.groups : ~In(w, v, j)
    BY <1>1, <1>2 DEF Grouped
  <2> QED
    BY <1>8, <1>12, <1>13, <2>1 DEF Swaps
<1>18. \A y \in Views : In(s, y, k) => s.view[y].output = o
  BY <1>2, <1>3, <1>6, <1>14, <1>15, <1>17 DEF Gathered
<1>19. Gathered(s)
  <2>1. SUFFICES ASSUME NEW j \in DOMAIN w.groups, NEW y \in Views, NEW z \in Views, In(s, y, j)
                 PROVE  /\ In(s, z, j) => s.view[y].output = s.view[z].output
                        /\ w.groups[j].pending => s.view[y].output = NONE
    BY <1>17 DEF Gathered
  <2>2. CASE j = k
    BY <1>2, <1>3, <1>18, <2>1, <2>2 DEF Gathered
  <2>3. CASE j # k
    <3>1. y # v /\ In(w, y, j) /\ s.view[y] = w.view[y]
          /\ (In(s, z, j) => In(w, z, j) /\ s.view[z] = w.view[z])
      BY <1>14, <1>17, <2>1, <2>3
    <3> QED
      BY <1>2, <2>1, <3>1 DEF Gathered
  <2> QED
    BY <2>2, <2>3
<1>20. Seen(s)
  BY <1>2, <1>4, <1>6, <1>14, <1>15 DEF Seen
<1>21. Anchored(s)
  <2>1. NONE \notin w.on
    BY <1>2, DeskFields, StickyAssumption
  <2> QED
    BY <1>2, <1>5, <1>6, <1>11, <1>14, <1>15, <2>1 DEF Anchored, Area, SameRooms
<1>22. Housed(s) /\ Lit(s)
  BY <1>2, <1>3, <1>6, <1>11, <1>14, <1>15 DEF Housed, Lit, SameRooms, SameKeys
<1>23. Excused(s)
  <2>1. SUFFICES ASSUME NEW j \in DOMAIN w.groups, NEW y \in Views, In(s, y, j),
                        s.view[y].output = NONE
                 PROVE  w.on = {} \/ w.failed \/ (w.groups[j].pending /\ "unmap" \in Faults)
    BY <1>11, <1>17 DEF Excused, SameRooms
  <2>2. CASE y = v
    <3>1. j = k /\ o = NONE
      BY <1>6, <1>15, <1>17, <2>1, <2>2
    <3> QED
      BY <1>2, <1>3, <3>1 DEF Excused, o
  <2>3. CASE y # v
    <3>1. In(w, y, j) /\ w.view[y].output = NONE
      BY <1>14, <1>17, <2>1, <2>3
    <3> QED
      BY <1>2, <3>1 DEF Excused
  <2> QED
    BY <2>2, <2>3
<1>24. Sturdy(s)
  BY <1>2, <1>11, <1>16, <1>19, <1>20, <1>21, <1>22, <1>23 DEF Sturdy, SameRooms
<1>25. Keyed(s)
  <2>1. SUFFICES ASSUME s.focused # NONE
                 PROVE  /\ s.view[s.focused].shown
                        /\ s.view[s.focused].kind = "tag" => s.view[s.focused].output = s.fo
    BY DEF Keyed
  <2>2. s.focused = w.focused /\ s.fo = w.fo /\ w.focused \in Views
    BY <1>2, <1>11, <2>1, DeskFields DEF SameKeys
  <2>3. w.focused # v
    BY <1>1, <1>2, <2>1, <2>2 DEF Seen, Keyed
  <2> QED
    BY <1>2, <1>14, <2>1, <2>2, <2>3 DEF Keyed
<1>26. s.current = w.current
  BY <1>11 DEF SameTags
<1> QED
  BY <1>1, <1>24, <1>25, <1>26, GoodLoose

-----------------------------------------------------------------------------
(* Windows that close.                                                     *)

\* The list r is m without v: in order, each element from its own place.
Shortened(V, m, r, v, h) ==
  /\ r \in Seq(V) /\ Elements(r) = Elements(m) \ {v}
  /\ h \in [DOMAIN r -> DOMAIN m] /\ \A i \in DOMAIN r : r[i] = m[h[i]]
  /\ \A i, j \in DOMAIN r : i < j <=> h[i] < h[j]
  /\ \A i, j \in DOMAIN r : h[i] = h[j] => i = j
  /\ \A n \in DOMAIN m : m[n] # v => \E i \in DOMAIN r : h[i] = n

LEMMA WithoutIs ==
  ASSUME NEW V, NEW m \in Seq(V), NEW v
  PROVE  \E h : Shortened(V, m, Without(m, v), v, h)
<1> DEFINE S == Elements(m) \ {v}
           r == Selected(m, S)
<1>1. Without(m, v) = r
  BY DEF Without
<1>2. r \in Seq(V) /\ Elements(r) = Elements(m) \cap S
  BY SelectedElements
<1>3. Sifted(m, S, Len(m), r)
  BY SelectedOrder
<1>4. \A n \in DOMAIN m : m[n] # v => m[n] \in S
  BY DEF Elements
<1>5. Elements(r) = Elements(m) \ {v}
  BY <1>2
<1> HIDE DEF r, S
<1>6. PICK h \in [DOMAIN r -> 1 .. Len(m)] :
        /\ \A i \in DOMAIN r : r[i] = m[h[i]]
        /\ \A i, j \in DOMAIN r : i < j => h[i] < h[j]
        /\ \A n \in 1 .. Len(m) : m[n] \in S => \E i \in DOMAIN r : h[i] = n
  BY <1>3 DEF Sifted
<1>7. DOMAIN m = 1 .. Len(m) /\ Len(m) \in Nat /\ DOMAIN r \subseteq Nat
  BY <1>2
<1>8. \A i, j \in DOMAIN r : i < j \/ i = j \/ j < i
  BY <1>7
<1>9. \A i, j \in DOMAIN r : h[i] \in Int /\ h[j] \in Int
  BY <1>7
<1>10. \A i, j \in DOMAIN r : (i < j <=> h[i] < h[j]) /\ (h[i] = h[j] => i = j)
  <2>1. TAKE i, j \in DOMAIN r
  <2>2. (i < j => h[i] < h[j]) /\ (j < i => h[j] < h[i]) /\ (i < j \/ i = j \/ j < i)
    BY <1>6, <1>8
  <2>3. h[i] \in Int /\ h[j] \in Int /\ i \in Nat /\ j \in Nat
    BY <1>7, <1>9
  <2> QED
    BY <2>2, <2>3
<1>11. Shortened(V, m, r, v, h)
  BY <1>2, <1>4, <1>5, <1>6, <1>7, <1>10 DEF Shortened
<1> QED
  BY <1>1, <1>11

\* The dialogs of a dialog that closes get its parent.
LEMMA LeavingIs ==
  ASSUME NEW g \in Groups, Linked(g), NEW v \in Elements(g.members), g.root # v
  PROVE  LET h == Leaving(g, v)
         IN h \in Groups /\ Linked(h) /\ Elements(h.members) = Elements(g.members) \ {v}
            /\ h.pending = g.pending
<1> DEFINE m == g.members
           r == Without(m, v)
           f == [x \in Views |-> IF x = v THEN NONE
                                 ELSE IF g.parent[x] = v THEN g.parent[v] ELSE g.parent[x]]
           l == [g EXCEPT !.members = r, !.parent = f]
<1>1. m \in Seq(Views) /\ DOMAIN m = 1 .. Len(m) /\ Len(m) \in Nat
      /\ g.parent \in [Views -> Views \cup {NONE}]
  BY DEF Groups
<1>2. Leaving(g, v) = l
  BY DEF Leaving
<1>3. PICK h : Shortened(Views, m, r, v, h)
  BY <1>1, WithoutIs
<1> HIDE DEF r
<1>4. /\ r \in Seq(Views) /\ Elements(r) = Elements(m) \ {v}
      /\ h \in [DOMAIN r -> DOMAIN m] /\ \A i \in DOMAIN r : r[i] = m[h[i]]
      /\ \A i, j \in DOMAIN r : i < j <=> h[i] < h[j]
      /\ \A i, j \in DOMAIN r : h[i] = h[j] => i = j
      /\ \A n \in DOMAIN m : m[n] # v => \E i \in DOMAIN r : h[i] = n
  BY <1>3 DEF Shortened
<1>5. v \in Views
  BY <1>1 DEF Elements
<1>6. f \in [Views -> Views \cup {NONE}]
      /\ \A x \in Views : f[x] = IF x = v THEN NONE
                                 ELSE IF g.parent[x] = v THEN g.parent[v] ELSE g.parent[x]
  BY <1>1, <1>5
<1> HIDE DEF f
<1>7. l \in Groups /\ l.members = r /\ l.parent = f /\ l.root = g.root /\ l.pending = g.pending
  BY <1>4, <1>6 DEF Groups
<1> HIDE DEF l
<1>8. \A i, j \in DOMAIN m : m[i] = m[j] => i = j
  BY DEF Linked
<1>9. DOMAIN r = 1 .. Len(r) /\ Len(r) \in Nat
  BY <1>4
<1>10. \A i \in DOMAIN r : r[i] \in Views /\ r[i] # v
  BY <1>4 DEF Elements
<1>15. m # <<>>
  BY <1>1 DEF Elements
<1>11. ASSUME ~g.pending PROVE r # <<>>
  <2>1. 1 \in DOMAIN m /\ m[1] # v
    BY <1>1, <1>11, <1>15 DEF Linked
  <2>2. PICK i \in DOMAIN r : h[i] = 1
    BY <1>4, <2>1
  <2> QED
    BY <1>9, <2>2
<1>12. ASSUME ~g.pending
       PROVE  r[1] = g.root /\ f[g.root] = NONE
  <2>1. m[1] = g.root /\ g.parent[g.root] = NONE /\ 1 \in DOMAIN m
    BY <1>1, <1>12, <1>15 DEF Linked
  <2>2. PICK i \in DOMAIN r : h[i] = 1
    BY <1>4, <2>1
  <2>3. 1 \in DOMAIN r /\ h[1] \in DOMAIN m
    BY <1>4, <1>9, <1>11, <1>12, <2>2
  <2>4. ~(1 < i)
    <3>1. ~(h[1] < h[i])
      BY <1>1, <2>2, <2>3
    <3> QED
      BY <1>4, <2>3, <3>1
  <2>5. i = 1
    BY <1>9, <2>2, <2>4
  <2>6. r[1] = g.root
    BY <1>4, <2>1, <2>2, <2>5
  <2>7. g.root \in Views /\ v # NONE
    BY <1>5, <1>10, <2>3, <2>6, StickyAssumption
  <2> QED
    BY <1>6, <2>1, <2>6, <2>7
<1>13. ASSUME NEW i \in DOMAIN r
       PROVE  f[r[i]] = NONE \/ \E j \in 1 .. (i - 1) : r[j] = f[r[i]]
  \* A parent that stays is still in front.
  <2>1. ASSUME NEW n \in DOMAIN m, n < h[i], m[n] # v
        PROVE  \E j \in 1 .. (i - 1) : r[j] = m[n]
    <3>1. PICK j \in DOMAIN r : h[j] = n
      BY <1>4, <2>1
    <3>2. j < i /\ r[j] = m[n]
      BY <1>4, <2>1, <3>1
    <3>3. j \in 1 .. (i - 1)
      BY <1>9, <3>1, <3>2
    <3> QED
      BY <3>2, <3>3
  <2> DEFINE x == r[i]
  <2>2. x \in Views /\ x # v /\ h[i] \in DOMAIN m /\ m[h[i]] = x
    BY <1>4, <1>10
  <2>3. ASSUME NEW n \in DOMAIN m
        PROVE  g.parent[m[n]] = NONE \/ \E j \in 1 .. (n - 1) : m[j] = g.parent[m[n]]
    BY DEF Linked
  <2> HIDE DEF x
  <2>4. CASE g.parent[x] # v
    <3>1. f[x] = g.parent[x]
      BY <1>6, <2>2, <2>4
    <3>2. g.parent[x] = NONE \/ \E j \in 1 .. (h[i] - 1) : m[j] = g.parent[x]
      BY <2>2, <2>3
    <3>3. ASSUME NEW j \in 1 .. (h[i] - 1), m[j] = g.parent[x]
          PROVE  \E n \in 1 .. (i - 1) : r[n] = f[x]
      <4>1. j \in DOMAIN m /\ j < h[i]
        BY <1>1, <2>2
      <4> QED
        BY <2>1, <2>4, <3>1, <3>3, <4>1
    <3> QED
      BY <3>1, <3>2, <3>3 DEF x
  <2>5. CASE g.parent[x] = v
    <3>1. f[x] = g.parent[v]
      BY <1>6, <2>2, <2>5
    <3>2. PICK n \in 1 .. (h[i] - 1) : m[n] = v
      <4>1. v # NONE
        BY <1>5, StickyAssumption
      <4> QED
        BY <2>2, <2>3, <2>5, <4>1
    <3>3. n \in DOMAIN m /\ n < h[i] /\ n \in Nat /\ h[i] \in Nat
      BY <1>1, <2>2, <3>2
    <3>4. g.parent[v] = NONE \/ \E j \in 1 .. (n - 1) : m[j] = g.parent[v]
      BY <2>3, <3>2, <3>3
    <3>5. ASSUME NEW j \in 1 .. (n - 1), m[j] = g.parent[v]
          PROVE  \E e \in 1 .. (i - 1) : r[e] = f[x]
      <4>1. j \in DOMAIN m /\ j < h[i] /\ j # n
        BY <1>1, <3>3
      <4>2. m[j] # v
        BY <1>8, <3>2, <3>3, <4>1
      <4> QED
        BY <2>1, <3>1, <3>5, <4>1, <4>2
    <3> QED
      BY <3>1, <3>4, <3>5 DEF x
  <2> QED
    BY <2>4, <2>5
<1>14. Linked(l)
  <2>1. \A i, j \in DOMAIN r : r[i] = r[j] => i = j
    BY <1>4, <1>8
  <2>2. g.pending <=> g.root = NONE
    BY DEF Linked
  <2> QED
    BY <1>7, <1>11, <1>12, <1>13, <2>1, <2>2 DEF Linked
<1> QED
  BY <1>2, <1>4, <1>7, <1>14

\* The dialogs of a root that closes wait.
LEMMA WaitingIs ==
  ASSUME NEW g \in Groups, Linked(g), NEW v \in Elements(g.members)
  PROVE  LET h == Waiting(g, v)
         IN h \in Groups /\ Linked(h) /\ Elements(h.members) = Elements(g.members) \ {v}
            /\ h.pending
<1> DEFINE m == g.members
           r == Without(m, v)
           l == Waiting(g, v)
<1>1. m \in Seq(Views) /\ DOMAIN m = 1 .. Len(m) /\ Len(m) \in Nat
  BY DEF Groups
<1>3. PICK h : Shortened(Views, m, r, v, h)
  BY <1>1, WithoutIs
<1>2. l.root = NONE /\ l.members = r /\ l.parent = [x \in Views |-> NONE] /\ l.pending = TRUE
  BY DEF Waiting
<1>4. r \in Seq(Views) => l \in Groups
  BY DEF Waiting, Groups
<1> HIDE DEF r, l
<1>5. /\ r \in Seq(Views) /\ Elements(r) = Elements(m) \ {v}
      /\ h \in [DOMAIN r -> DOMAIN m] /\ \A i \in DOMAIN r : r[i] = m[h[i]]
      /\ \A i, j \in DOMAIN r : h[i] = h[j] => i = j
      /\ \A n \in DOMAIN m : m[n] # v => \E i \in DOMAIN r : h[i] = n
  BY <1>3 DEF Shortened
<1>6. \A i, j \in DOMAIN m : m[i] = m[j] => i = j
  BY DEF Linked
<1>8. Linked(l)
  <2>1. \A i, j \in DOMAIN r : r[i] = r[j] => i = j
    BY <1>5, <1>6
  <2>2. \A i \in DOMAIN r : l.parent[r[i]] = NONE
    BY <1>2, <1>5
  <2> QED
    BY <1>2, <2>1, <2>2 DEF Linked
<1> QED
  BY <1>2, <1>4, <1>5, <1>8 DEF l

\* In u, the window v is closed.
Closed(s, u, v) ==
  /\ Sturdy(u) /\ SameRooms(s, u) /\ u.fo = s.fo /\ u.focused \in {s.focused, NONE}
  /\ u.view[v] = Gone /\ u.current = s.current

\* The windows of the group at k, but v, stay, or all of them are suspended.
Shrinks(s, u, k, g, v) ==
  /\ Swaps(s, u, k, g) /\ u.view[v] = Gone
  /\ \/ /\ \A y \in Views \ {v} : u.view[y] = s.view[y]
        /\ g.pending = s.groups[k].pending
     \/ /\ \A y \in Views \ {v} :
             IF In(s, y, k)
             THEN u.view[y].kind = "sticky" /\ u.view[y].output = NONE /\ ~u.view[y].shown
             ELSE u.view[y] = s.view[y]
        /\ g.pending
        /\ WindowsWait(g) => \A j \in DOMAIN s.groups : WindowsWait(s.groups[j]) => j = k
        /\ s.on = {} \/ s.failed \/ "unmap" \in Faults

LEMMA ShrinkClosed ==
  ASSUME NEW s, Sturdy(s), NEW k \in DOMAIN s.groups, NEW v \in Views, In(s, v, k),
         NEW g, Linked(g), Elements(g.members) = Elements(s.groups[k].members) \ {v},
         NEW u \in Desks, SameRooms(s, u), u.fo = s.fo, u.focused \in {s.focused, NONE},
         u.current = s.current, Shrinks(s, u, k, g, v)
  PROVE  Closed(s, u, v)
<1>1. s \in Desks /\ ~s.dead /\ Grouped(s) /\ Gathered(s) /\ Seen(s) /\ Anchored(s) /\ Housed(s)
      /\ Lit(s) /\ Excused(s)
  BY DEF Sturdy
<1>2. Swaps(s, u, k, g) /\ u.view[v] = Gone
  BY DEF Shrinks
<1>3. Gone.kind = "none" /\ ~Gone.shown
  BY DEF Gone
<1>4. \A y \in Views : y \in Elements(g.members) <=> In(s, y, k) /\ y # v
  BY DEF In
<1>5. \A y \in Views : In(s, y, k) => s.view[y].kind = "sticky"
  BY <1>1 DEF Grouped
<1>6. \A y \in Views \ {v} : ~In(s, y, k) => u.view[y] = s.view[y]
  BY DEF Shrinks
<1>7. \A y \in Views \ {v} : In(s, y, k) => u.view[y].kind = "sticky"
  BY <1>5 DEF Shrinks
<1>8. /\ DOMAIN u.groups = DOMAIN s.groups /\ u.groups[k] = g
      /\ \A j \in DOMAIN s.groups : j # k => u.groups[j] = s.groups[j]
      /\ \A j \in DOMAIN s.groups : \A y \in Views :
           In(u, y, j) <=> In(s, y, j) /\ y # v
  <2>1. \A j \in DOMAIN s.groups : In(s, v, j) => j = k
    BY <1>1 DEF Grouped
  <2> QED
    BY <1>2, <1>4, <2>1 DEF Swaps
<1>9. Grouped(u)
  <2>1. \A y \in Views : u.view[y].kind = "sticky" <=>
          y \in Elements(g.members) \/ (s.view[y].kind = "sticky" /\ ~In(s, y, k))
    BY <1>2, <1>3, <1>4, <1>6, <1>7
  <2>3. g \in Groups /\ s.groups[k] \in Groups
    BY <1>1, <1>2, DeskFields DEF Swaps
  <2>4. WindowsWait(g) /\ s.groups[k].pending => WindowsWait(s.groups[k])
    BY DEF WindowsWait, In, Elements
  <2>2. WindowsWait(g) => \A j \in DOMAIN s.groups : WindowsWait(s.groups[j]) => j = k
    BY <1>1, <2>4 DEF Shrinks, Grouped, WindowsWait
  <2> QED
    BY <1>1, <1>2, <1>4, <2>1, <2>2, SwapGrouped
<1>10. ASSUME NEW j \in DOMAIN s.groups, NEW y \in Views, In(u, y, j)
       PROVE  /\ \A z \in Views : In(u, z, j) => u.view[y].output = u.view[z].output
              /\ u.groups[j].pending => u.view[y].output = NONE
              /\ u.view[y].output = NONE
                 => s.on = {} \/ s.failed \/ (u.groups[j].pending /\ "unmap" \in Faults)
  <2>1. In(s, y, j) /\ y # v
    BY <1>8, <1>10
  <2>2. CASE j # k
    <3>1. \A z \in Views : In(s, z, j) => ~In(s, z, k)
      BY <1>1, <2>2 DEF Grouped
    <3>2. u.view[y] = s.view[y] /\ u.groups[j] = s.groups[j]
      BY <1>6, <1>8, <2>1, <2>2, <3>1
    <3>3. \A z \in Views : In(u, z, j) => In(s, z, j) /\ u.view[z] = s.view[z]
      BY <1>6, <1>8, <3>1
    <3> QED
      BY <1>1, <2>1, <3>2, <3>3 DEF Gathered, Excused
  <2>3. CASE j = k /\ \A x \in Views \ {v} : u.view[x] = s.view[x]
                   /\ g.pending = s.groups[k].pending
    <3>1. u.view[y] = s.view[y] /\ u.groups[j].pending = s.groups[j].pending
      BY <1>8, <2>1, <2>3
    <3>2. \A z \in Views : In(u, z, j) => In(s, z, j) /\ u.view[z] = s.view[z]
      BY <1>8, <2>3
    <3> QED
      BY <1>1, <2>1, <3>1, <3>2 DEF Gathered, Excused
  <2>4. CASE /\ j = k /\ g.pending /\ (s.on = {} \/ s.failed \/ "unmap" \in Faults)
             /\ \A x \in Views \ {v} : In(s, x, k) => u.view[x].output = NONE
    BY <1>8, <2>1, <2>4
  <2> QED
    BY <2>2, <2>3, <2>4 DEF Shrinks
<1>11. Gathered(u) /\ Excused(u)
  BY <1>8, <1>10 DEF Gathered, Excused, SameRooms
<1>12. \A y \in Views : u.view[y] = s.view[y] \/ y = v
          \/ (u.view[y].kind = "sticky" /\ u.view[y].output = NONE /\ ~u.view[y].shown)
  BY DEF Shrinks
<1>13. Seen(u)
  BY <1>1, <1>2, <1>3, <1>12 DEF Seen
<1>14. Anchored(u) /\ Housed(u) /\ Lit(u)
  <2>1. NONE \notin s.on
    BY <1>1, DeskFields, StickyAssumption
  <2> QED
    BY <1>1, <1>2, <1>3, <1>12, <2>1 DEF Anchored, Housed, Lit, Area, SameRooms
<1>15. Sturdy(u)
  BY <1>1, <1>9, <1>11, <1>13, <1>14 DEF Sturdy, SameRooms
<1> QED
  BY <1>2, <1>15 DEF Closed

\* leme_sticky_handle_unmap of a dependent
LEMMA LeaveGroupClosed ==
  ASSUME NEW s, Sturdy(s), NEW v \in Views, GroupOf(s, v) # 0,
         s.groups[GroupOf(s, v)].root # v
  PROVE  Closed(s, LeaveGroup(s, v), v)
<1> DEFINE k == GroupOf(s, v)
           g == s.groups[k]
           h == Leaving(g, v)
           q == [s.groups EXCEPT ![k] = h]
           f == [s.view EXCEPT ![v] = Gone]
           u == [s EXCEPT !.groups = q, !.view = f]
<1>1. s \in Desks /\ Grouped(s)
  BY DEF Sturdy
<1>2. LeaveGroup(s, v) = u
  BY DEF LeaveGroup
<1>3. k \in DOMAIN s.groups /\ In(s, v, k)
  BY <1>1, GroupOfIs
<1> HIDE DEF k
<1>4. g \in Groups /\ Linked(g) /\ v \in Elements(g.members) /\ g.root # v
  BY <1>1, <1>3, GroupFields DEF Grouped, In, k
<1>5. h \in Groups /\ Linked(h) /\ Elements(h.members) = Elements(g.members) \ {v}
      /\ h.pending = g.pending
  BY <1>4, LeavingIs
<1> HIDE DEF h
<1>6. Gone \in Owned
  BY DEF Gone, Owned, NoArea
<1>7. f \in [Views -> Owned] /\ f[v] = Gone /\ \A y \in Views \ {v} : f[y] = s.view[y]
  BY <1>1, <1>6, DeskFields
<1>8. q \in Seq(Groups)
  BY <1>1, <1>3, <1>5, DeskFields
<1> HIDE DEF f
<1>9. u \in Desks /\ SameRooms(s, u) /\ SameKeys(s, u) /\ u.groups = q /\ u.view = f
      /\ u.current = s.current
  <2> HIDE DEF q
  <2> QED
    BY <1>1, <1>7, <1>8 DEF Desks, SameRooms, SameKeys
<1> HIDE DEF u
<1>10. Swaps(s, u, k, h)
  BY <1>1, <1>3, <1>5, <1>9, SwapIs
<1>11. Shrinks(s, u, k, h, v)
  BY <1>5, <1>7, <1>9, <1>10 DEF Shrinks
<1>12. Closed(s, u, v)
  BY <1>3, <1>5, <1>9, <1>11, ShrinkClosed DEF SameKeys
<1> QED
  BY <1>2, <1>12

\* In u, the group at k waits without v, and its windows are suspended.
Hides(s, u, k, v) ==
  /\ u \in Desks /\ SameRooms(s, u) /\ u.fo = s.fo /\ u.focused \in {s.focused, NONE}
  /\ u.current = s.current
  /\ u.groups = [s.groups EXCEPT ![k] = Waiting(s.groups[k], v)] /\ u.view[v] = Gone
  /\ \A y \in Views \ {v} :
       IF In(s, y, k)
       THEN u.view[y].kind = "sticky" /\ u.view[y].output = NONE /\ ~u.view[y].shown
       ELSE u.view[y] = s.view[y]

\* leme_sticky_hide_pending_group
LEMMA HidePendingIs ==
  ASSUME NEW s, Sturdy(s), NEW k \in DOMAIN s.groups, NEW v \in Views, In(s, v, k)
  PROVE  Hides(s, HidePending(s, k, v), k, v)
<1> DEFINE g == s.groups[k]
           vs == Elements(g.members)
           rest == vs \ {v}
           h == Waiting(g, v)
           c == IF s.focused \in vs THEN [s EXCEPT !.focused = NONE] ELSE s
           p == Present(c, rest, NONE)
           q == [p.groups EXCEPT ![k] = h]
           f == [p.view EXCEPT ![v] = Gone]
           u == [p EXCEPT !.groups = q, !.view = f]
<1>1. s \in Desks /\ Grouped(s) /\ Excused(s)
  BY DEF Sturdy
<1>2. HidePending(s, k, v) = u
  BY DEF HidePending
<1>3. g \in Groups /\ Linked(g) /\ v \in Elements(g.members)
  BY <1>1, GroupFields DEF Grouped, In
<1>4. h \in Groups /\ Linked(h) /\ Elements(h.members) = Elements(g.members) \ {v} /\ h.pending
  BY <1>3, WaitingIs
<1> HIDE DEF h
<1>5. c \in Desks /\ SameRooms(s, c) /\ c.fo = s.fo /\ c.groups = s.groups /\ c.view = s.view
      /\ c.focused \in {s.focused, NONE} /\ c.current = s.current
  BY <1>1 DEF Desks, SameRooms
<1> HIDE DEF c
<1>6. Houses(c, p, rest, NONE, NoArea)
  BY <1>5, PresentHouses
<1> HIDE DEF p
<1>7. /\ p \in Desks /\ SameRooms(s, p) /\ p.fo = s.fo /\ p.groups = s.groups
      /\ p.focused \in {s.focused, NONE} /\ p.current = s.current
      /\ \A y \in Views : IF y \in rest
           THEN p.view[y].kind = s.view[y].kind /\ p.view[y].output = NONE /\ ~p.view[y].shown
           ELSE p.view[y] = s.view[y]
  BY <1>5, <1>6 DEF Houses, SameRooms, SameKeys, SameTags
<1>8. Gone \in Owned
  BY DEF Gone, Owned, NoArea
<1>9. f \in [Views -> Owned] /\ f[v] = Gone /\ \A y \in Views \ {v} : f[y] = p.view[y]
  BY <1>7, <1>8, DeskFields
<1>10. q \in Seq(Groups) /\ q = [s.groups EXCEPT ![k] = h]
  BY <1>1, <1>4, <1>7, DeskFields
<1> HIDE DEF f, q
<1>11. u \in Desks /\ SameRooms(s, u) /\ u.fo = s.fo /\ u.groups = q /\ u.view = f
       /\ u.focused \in {s.focused, NONE} /\ u.current = s.current
  BY <1>7, <1>9, <1>10 DEF Desks, SameRooms
<1> HIDE DEF u
<1>13. \A y \in Views \ {v} : IF In(s, y, k)
         THEN u.view[y].kind = "sticky" /\ u.view[y].output = NONE /\ ~u.view[y].shown
         ELSE u.view[y] = s.view[y]
  <2>1. \A y \in Views : In(s, y, k) => s.view[y].kind = "sticky"
    BY <1>1 DEF Grouped
  <2>2. \A y \in Views \ {v} : y \in rest <=> In(s, y, k)
    BY DEF In
  <2> HIDE DEF rest
  <2> QED
    BY <1>7, <1>9, <1>11, <2>1, <2>2
<1>16. Hides(s, u, k, v)
  BY <1>9, <1>10, <1>11, <1>13 DEF Hides, h
<1> QED
  BY <1>2, <1>16

\* No other group waits with windows.
LEMMA HidePendingClosed ==
  ASSUME NEW s, Sturdy(s), NEW k \in DOMAIN s.groups, NEW v \in Views, In(s, v, k),
         WindowsWait(Waiting(s.groups[k], v)) =>
           \A j \in DOMAIN s.groups : ~(j # k /\ WindowsWait(s.groups[j])),
         s.view[v].output = NONE \/ "unmap" \in Faults,
         ~s.groups[k].pending, NEW u, Hides(s, u, k, v)
  PROVE  Closed(s, u, v)
<1> DEFINE g == s.groups[k]
           h == Waiting(g, v)
<1>1. s \in Desks /\ Grouped(s) /\ Excused(s)
  BY DEF Sturdy
<1>2. g \in Groups /\ Linked(g) /\ v \in Elements(g.members)
  BY <1>1, GroupFields DEF Grouped, In
<1>3. h \in Groups /\ Linked(h) /\ Elements(h.members) = Elements(g.members) \ {v} /\ h.pending
  BY <1>2, WaitingIs
<1>4. u \in Desks /\ SameRooms(s, u) /\ u.fo = s.fo /\ u.focused \in {s.focused, NONE}
      /\ u.current = s.current /\ u.groups = [s.groups EXCEPT ![k] = h] /\ u.view[v] = Gone
  BY DEF Hides
<1> HIDE DEF h
<1>5. Swaps(s, u, k, h)
  BY <1>1, <1>3, <1>4, SwapIs
<1>6. s.on = {} \/ s.failed \/ "unmap" \in Faults
  BY <1>1 DEF Excused
<1>7. Shrinks(s, u, k, h, v)
  BY <1>3, <1>4, <1>5, <1>6 DEF Shrinks, Hides
<1> QED
  BY <1>3, <1>4, <1>7, ShrinkClosed

\* The group at k goes: its windows, but v, are windows of a tag.
LEMMA DropClosed ==
  ASSUME NEW s, Sturdy(s), NEW k \in DOMAIN s.groups, NEW v \in Views, In(s, v, k),
         NEW a \in Desks, SameRooms(s, a), SameKeys(s, a), a.groups = s.groups,
         a.current = s.current,
         \A y \in Views \ {v} :
           IF In(s, y, k)
           THEN /\ a.view[y].kind = "tag" /\ a.view[y].output \in Outputs
                /\ a.view[y].tag \in Tags
           ELSE a.view[y] = s.view[y]
  PROVE  Closed(s, [DropGroup(a, k) EXCEPT !.view[v] = Gone], v)
<1> DEFINE d == DropGroup(a, k)
           f == [d.view EXCEPT ![v] = Gone]
           u == [d EXCEPT !.view = f]
<1>1. Drops(a, d, k)
  BY DropGroupIs
<1> HIDE DEF d
<1>2. d \in Desks /\ SameRooms(a, d) /\ SameTags(a, d) /\ SameKeys(a, d) /\ d.view = a.view
  BY <1>1 DEF Drops
<1>3. PICK h : Picks(a, d, h) /\ \A j \in DOMAIN a.groups :
                 j # k <=> \E i \in DOMAIN d.groups : h[i] = j
  BY <1>1 DEF Drops
<1>4. Gone \in Owned /\ Gone.kind = "none" /\ ~Gone.shown
  BY DEF Gone, Owned, NoArea
<1>5. f \in [Views -> Owned] /\ f[v] = Gone /\ \A y \in Views \ {v} : f[y] = a.view[y]
  BY <1>2, <1>4, DeskFields
<1> HIDE DEF f
<1>6. u \in Desks /\ SameRooms(d, u) /\ SameTags(d, u) /\ SameKeys(d, u) /\ u.groups = d.groups
      /\ u.view = f
  BY <1>2, <1>5, ViewsEdit
<1>7. [d EXCEPT !.view[v] = Gone] = u
  BY DEF f
<1> HIDE DEF u
<1>8. SameRooms(s, u) /\ SameKeys(s, u) /\ SameTags(a, u)
  BY <1>2, <1>6 DEF SameRooms, SameKeys, SameTags
<1>9. Picks(s, u, h) /\ \A j \in DOMAIN s.groups : j # k <=> \E i \in DOMAIN u.groups : h[i] = j
  BY <1>3, <1>6 DEF Picks
<1>10. Sturdy(u)
  <2>1. \A y \in Views : ~In(s, y, k) => u.view[y] = s.view[y]
    BY <1>5, <1>6
  <2>2. \A y \in Views : In(s, y, k) =>
          /\ u.view[y].kind # "sticky"
          /\ u.view[y].kind = "none" => ~u.view[y].shown
          /\ u.view[y].kind = "tag" => u.view[y].output \in Outputs /\ u.view[y].tag \in Tags
    BY <1>4, <1>5, <1>6
  <2>3. u.fo = s.fo
    BY <1>8 DEF SameKeys
  <2> QED
    BY <1>6, <1>8, <1>9, <2>1, <2>2, <2>3, DropSturdy
<1>12. Closed(s, u, v)
  BY <1>5, <1>6, <1>8, <1>10 DEF Closed, SameKeys, SameTags
<1> QED
  BY <1>7, <1>12 DEF d

\* Two members of a set of at most one.
LEMMA AtMostOne ==
  ASSUME NEW S, IsFiniteSet(S), ~(Cardinality(S) > 1), NEW a \in S, NEW b \in S
  PROVE  a = b
<1>1. SUFFICES ASSUME a # b PROVE FALSE
  OBVIOUS
<1>2. Cardinality({a}) = 1 /\ IsFiniteSet({a})
  BY FS_Singleton
<1>6. b \notin {a}
  BY <1>1
<1> DEFINE A == {a}
<1> HIDE DEF A
<1>7. IsFiniteSet(A) /\ Cardinality(A) = 1 /\ b \notin A
  BY <1>2, <1>6 DEF A
<1>8. IsFiniteSet(A \cup {b}) /\ Cardinality(A \cup {b}) = 2
  BY <1>7, FS_AddElement
<1>3. IsFiniteSet({a} \cup {b}) /\ Cardinality({a} \cup {b}) = 2
  BY <1>8 DEF A
<1>4. {a} \cup {b} \subseteq S
  OBVIOUS
<1>5. Cardinality({a} \cup {b}) <= Cardinality(S) /\ Cardinality(S) \in Nat
  BY <1>4, FS_Subset, FS_CardinalityType
<1> QED
  BY <1>3, <1>5

\* While no output has the focus, no window has it.
LEMMA NoFocus ==
  ASSUME NEW s, Sound(s), s.fo = NONE
  PROVE  s.focused = NONE
<1>1. s \in Desks /\ Keyed(s) /\ Seen(s) /\ Housed(s) /\ Lit(s)
  BY DEF Sound, Core
<1>2. SUFFICES ASSUME s.focused \in Views PROVE FALSE
  BY <1>1, DeskFields
<1>3. s.view[s.focused].shown /\ s.focused # NONE
  BY <1>1, <1>2, StickyAssumption DEF Keyed
<1>4. CASE s.view[s.focused].kind = "sticky"
  BY <1>1, <1>2, <1>3, <1>4 DEF Seen, Housed, Lit
<1>5. CASE s.view[s.focused].kind = "tag"
  BY <1>1, <1>2, <1>3, <1>5, StickyAssumption DEF Keyed, Seen
<1> QED
  BY <1>1, <1>2, <1>3, <1>4, <1>5, ViewFields DEF Seen

\* What comes of the focus after a window closed.
LEMMA ClosedGood ==
  ASSUME Sound(w), NEW v \in Views, NEW t, Closed(w, t, v), NEW r \in RefreshTagFocus(t)
  PROVE  Good(w, r)
<1>1. Sturdy(t) /\ t.fo = w.fo /\ t.focused \in {w.focused, NONE}
  BY DEF Closed
<1>2. Keyed(t) \/ t.fo # NONE
  BY <1>1, NoFocus DEF Keyed
<1>3. /\ Sturdy(r) /\ Keyed(r) /\ TagsOnly(t, r) /\ r.fo = t.fo
      /\ \A y \in Views : t.view[y].kind = "tag" =>
           r.view[y].shown = IF t.view[y].output = t.fo THEN y \in Showing(t, t.fo)
                             ELSE t.view[y].shown
  BY <1>1, <1>2, TagFocusKeeps
<1>4. r.current = w.current
  BY <1>3 DEF Closed, TagsOnly, SameTags
<1> QED
  BY <1>3, <1>4, GoodLoose

\* leme_sticky_handle_unmap of a root with dialogs whose output is there
LEMMA SettleDialogsClosed ==
  ASSUME NEW s, Sturdy(s), NEW k \in DOMAIN s.groups, NEW v \in Views, In(s, v, k),
         s.view[v].output \in Outputs
  PROVE  LET o == s.view[v].output
             rest == Elements(s.groups[k].members) \ {v}
         IN Closed(s, [DropGroup(Attach(s, rest, o, s.current[o]), k) EXCEPT !.view[v] = Gone], v)
<1> DEFINE o == s.view[v].output
           t == s.current[o]
           rest == Elements(s.groups[k].members) \ {v}
           a == Attach(s, rest, o, t)
<1>1. s \in Desks /\ Grouped(s) /\ Gathered(s) /\ Seen(s)
  BY DEF Sturdy
<1>2. o \in Outputs /\ t \in Tags /\ o # NONE
  BY <1>1, DeskFields, StickyAssumption
<1>3. Attaches(s, a, rest, o, t)
  BY <1>1, <1>2, AttachIs
<1>4. \A y \in Views \ {v} : y \in rest <=> In(s, y, k)
  BY DEF In
<1> HIDE DEF rest, a, o, t
<1>6. a \in Desks /\ SameRooms(s, a) /\ SameKeys(s, a) /\ a.groups = s.groups
      /\ a.current = s.current
  BY <1>3 DEF Attaches
<1>8. ASSUME NEW y \in Views \ {v}
      PROVE  IF In(s, y, k)
             THEN /\ a.view[y].kind = "tag" /\ a.view[y].output \in Outputs
                  /\ a.view[y].tag \in Tags
             ELSE a.view[y] = s.view[y]
  BY <1>2, <1>3, <1>4 DEF Attaches
<1>9. Closed(s, [DropGroup(a, k) EXCEPT !.view[v] = Gone], v)
  BY <1>6, <1>8, DropClosed
<1> QED
  BY <1>9 DEF a, rest, o, t

\* leme_sticky_handle_unmap: at most one group with windows waits after it.
LEMMA HandleUnmapClosed ==
  ASSUME NEW s, Sturdy(s), NEW v \in Views, GroupOf(s, v) # 0, NEW fails \in BOOLEAN,
         fails => "unmap" \in Faults,
         NEW u, u = HandleUnmap(s, v, fails)
  PROVE  /\ u \in Desks /\ u.view[v] = Gone
         /\ ~(Cardinality({k \in DOMAIN u.groups : WindowsWait(u.groups[k])}) > 1)
            => Closed(s, u, v)
<1> DEFINE k == GroupOf(s, v)
           g == s.groups[k]
           o == s.view[v].output
<1>1. s \in Desks /\ Grouped(s)
  BY DEF Sturdy
<1>2. k \in DOMAIN s.groups /\ In(s, v, k) /\ Linked(g)
  BY <1>1, GroupOfIs DEF Grouped
<1>3. o \in Outputs \cup {NONE} /\ v # NONE
  BY <1>1, ViewFields, StickyAssumption
<1>4. CASE g.root # v
  <2>2. u = LeaveGroup(s, v)
    BY <1>4 DEF HandleUnmap
  <2>3. Closed(s, u, v)
    BY <1>4, <2>2, LeaveGroupClosed
  <2> QED
    BY <2>3 DEF Closed, Sturdy
<1>5. CASE g.root = v
  <2>0. ~g.pending
    BY <1>2, <1>3, <1>5 DEF Linked
  <2>1. CASE g.members = <<v>>
    <3>1. u = [DropGroup(s, k) EXCEPT !.view[v] = Gone]
      BY <1>5, <2>1 DEF HandleUnmap
    <3>2. \A y \in Views \ {v} : ~In(s, y, k)
      BY <2>1 DEF In, Elements
    <3> HIDE DEF k
    <3>3. SameRooms(s, s) /\ SameKeys(s, s)
      BY DEF SameRooms, SameKeys
    <3>4. Closed(s, u, v)
      BY <1>1, <1>2, <3>1, <3>2, <3>3, DropClosed
    <3> QED
      BY <3>4 DEF Closed, Sturdy
  <2>2. CASE g.members # <<v>> /\ (o = NONE \/ fails)
    <3>1. u = HidePending(s, k, v)
      BY <1>5, <2>2 DEF HandleUnmap
    <3> HIDE DEF k
    <3>2. Hides(s, u, k, v)
      BY <1>2, <3>1, HidePendingIs
    <3>3. u \in Desks /\ u.view[v] = Gone /\ u.groups = [s.groups EXCEPT ![k] = Waiting(g, v)]
      BY <3>2 DEF Hides
    <3>5. s.groups \in Seq(Groups)
      BY <1>1, DeskFields
    <3>6. DOMAIN u.groups = DOMAIN s.groups /\ u.groups[k] = Waiting(g, v)
          /\ \A j \in DOMAIN s.groups : j # k => u.groups[j] = s.groups[j]
      BY <1>2, <3>3, <3>5
    <3> DEFINE S == {j \in DOMAIN u.groups : WindowsWait(u.groups[j])}
    <3>7. ASSUME ~(Cardinality(S) > 1), WindowsWait(Waiting(g, v)), NEW j \in DOMAIN s.groups
          PROVE  ~(j # k /\ WindowsWait(s.groups[j]))
      <4>1. SUFFICES ASSUME j # k, WindowsWait(s.groups[j]) PROVE FALSE
        OBVIOUS
      <4>2. j \in S /\ k \in S
        BY <1>2, <3>6, <3>7, <4>1
      <4>3. IsFiniteSet(S)
        <5>1. Len(s.groups) \in Nat /\ S \subseteq 1 .. Len(s.groups)
          BY <3>5, <3>6
        <5>2. IsFiniteSet(1 .. Len(s.groups))
          BY <5>1, FS_Interval
        <5> QED
          BY <5>1, <5>2, FS_Subset
      <4> HIDE DEF S
      <4> QED
        BY <3>7, <4>1, <4>2, <4>3, AtMostOne
    <3>8. o = NONE \/ "unmap" \in Faults
      BY <2>2
    <3>9. ASSUME ~(Cardinality(S) > 1) PROVE Closed(s, u, v)
      BY <1>2, <2>0, <3>2, <3>7, <3>8, <3>9, HidePendingClosed
    <3> QED
      BY <3>3, <3>9
  <2>3. CASE g.members # <<v>> /\ ~(o = NONE \/ fails)
    <3>1. u = [DropGroup(Attach(s, Elements(g.members) \ {v}, o, s.current[o]), k)
                 EXCEPT !.view[v] = Gone]
      BY <1>5, <2>3 DEF HandleUnmap
    <3>2. o \in Outputs
      BY <1>3, <2>3
    <3> HIDE DEF k
    <3>4. Closed(s, [DropGroup(Attach(s, Elements(g.members) \ {v}, o, s.current[o]), k)
                       EXCEPT !.view[v] = Gone], v)
      BY <1>2, <3>2, SettleDialogsClosed
    <3>3. Closed(s, u, v)
      BY <3>1, <3>4
    <3> QED
      BY <3>3 DEF Closed, Sturdy
  <2> QED
    BY <2>1, <2>2, <2>3
<1> QED
  BY <1>4, <1>5

\* leme_view_unmap
LEMMA UnmapGood ==
  ASSUME Surprises = {}, Sound(w), NEW v \in Views, Unmap(v)
  PROVE  Good(w, w') /\ Quiet
<1> DEFINE k == GroupOf(w, v)
           z(fails) == HandleUnmap(w, v, fails)
           c(fails) == IF z(fails).focused = v THEN [z(fails) EXCEPT !.focused = NONE] ELSE z(fails)
           t(fails) == Prune([c(fails) EXCEPT !.view[v] = Gone],
                             c(fails).view[v].output, c(fails).view[v].tag)
           few(q) == ~(Cardinality({j \in DOMAIN q : WindowsWait(q[j])}) > 1)
<1>1. w.view[v].kind # "none"
  BY DEF Unmap
<1>2. PICK fails \in {FALSE} \cup {b \in {TRUE} : "unmap" \in Faults} :
        few(t(fails).groups) /\ Quietly(RefreshTagFocus(t(fails)))
  BY DEF Unmap
<1>3. fails \in BOOLEAN /\ (fails => "unmap" \in Faults)
  BY <1>2
<1> DEFINE s == z(fails)
           u == c(fails)
           r == t(fails)
<1>4. few(r.groups) /\ w' \in RefreshTagFocus(r) /\ Quiet
  BY <1>2, QuietlyIs
<1>5. Sturdy(w) /\ w \in Desks /\ Grouped(w)
  BY SturdyKeyed DEF Sturdy
<1>6. s = HandleUnmap(w, v, fails)
  OBVIOUS
<1>7. u = IF s.focused = v THEN [s EXCEPT !.focused = NONE] ELSE s
  OBVIOUS
<1>8. r = Prune([u EXCEPT !.view[v] = Gone], u.view[v].output, u.view[v].tag)
  OBVIOUS
<1> HIDE DEF s, u, r, few
<1>9. CASE k = 0
  <2>1. w.view[v].kind = "tag"
    BY <1>1, <1>5, <1>9, GroupOfSticky, ViewFields
  <2>2. s = w
    BY <1>6, <1>9 DEF HandleUnmap
  <2> HIDE DEF k
  <2>3. /\ Sturdy(u) /\ SameRooms(w, u) /\ u.fo = w.fo /\ u.focused \in {w.focused, NONE}
        /\ u.view = w.view /\ u \in Desks /\ u.current = w.current
    <3>1. CASE s.focused = v
      <4>1. u = [w EXCEPT !.focused = NONE]
        BY <1>7, <2>2, <3>1
      <4>2. TagsOnly(w, u) /\ Sturdy(u) /\ u.fo = w.fo /\ u.focused = NONE /\ u.view = w.view
        BY <1>5, <4>1, FocusedIs
      <4> QED
        BY <4>2 DEF TagsOnly, SameTags
    <3>2. CASE s.focused # v
      BY <1>5, <1>7, <2>2, <3>2 DEF SameRooms
    <3> QED
      BY <3>1, <3>2
  <2> DEFINE x == [u EXCEPT !.view[v] = Gone, !.table = u.table]
  <2>4. [u EXCEPT !.view[v] = Gone] = x
    BY <2>3 DEF Desks
  <2>5. Gone \in Owned /\ Gone.kind = "none" /\ ~Gone.shown
    BY DEF Gone, Owned, NoArea
  <2>6. Edited(u, x, v, Gone, u.table)
    <3>1. u.table \in [Outputs -> SUBSET Tags]
      BY <2>3, DeskFields
    <3> QED
      BY <2>1, <2>3, <2>5, <3>1, OneView
  <2> HIDE DEF x
  <2>7. /\ Sturdy(x) /\ SameRooms(u, x) /\ SameKeys(u, x) /\ x.view[v] = Gone
        /\ x.current = u.current
        /\ \A y \in Views \ {v} : x.view[y] = u.view[y]
    BY <2>6 DEF Edited
  <2>8. r = Prune(x, u.view[v].output, u.view[v].tag)
    BY <1>8, <2>4
  <2>9. u.view[v].output \in Outputs \cup {NONE} /\ x \in Desks
    BY <2>3, <2>7, ViewFields DEF Sturdy
  <2>10. /\ r \in Desks /\ SameRooms(x, r) /\ SameKeys(x, r) /\ r.groups = x.groups
         /\ r.view = x.view /\ r.current = x.current
    BY <2>8, <2>9, PruneIs
  <2>11. Sturdy(r)
    BY <2>7, <2>10, TablesSturdy DEF SameKeys
  <2>13. Closed(w, r, v)
    BY <2>3, <2>7, <2>10, <2>11 DEF Closed, SameRooms, SameKeys
  <2> QED
    BY <1>4, <2>13, ClosedGood
<1>10. CASE k # 0
  <2>1. /\ s \in Desks /\ s.view[v] = Gone
        /\ few(s.groups) => Closed(w, s, v)
    BY <1>3, <1>5, <1>6, <1>10, HandleUnmapClosed DEF few
  <2> HIDE DEF k
  <2>2. u \in Desks /\ u.groups = s.groups /\ u.view = s.view
    BY <1>7, <2>1 DEF Desks
  <2>3. [u EXCEPT !.view[v] = Gone] = u
    <3>1. [u.view EXCEPT ![v] = Gone] = u.view
      BY <2>1, <2>2, DeskFields
    <3>2. [u EXCEPT !.view[v] = Gone] = [u EXCEPT !.view = [u.view EXCEPT ![v] = Gone]]
      OBVIOUS
    <3>3. [u EXCEPT !.view = u.view] = u
      BY <2>2 DEF Desks
    <3> QED
      BY <3>1, <3>2, <3>3
  <2>4. r = Prune(u, NONE, 0)
    <3>1. u.view[v].output = NONE /\ u.view[v].tag = 0
      BY <2>1, <2>2 DEF Gone
    <3> QED
      BY <1>8, <2>3, <3>1
  <2>5. r = u
    BY <2>4 DEF Prune
  <2>6. Closed(w, s, v)
    BY <1>4, <2>1, <2>2, <2>5
  <2>7. Closed(w, r, v)
    <3>1. CASE s.focused = v
      <4>1. Sturdy(s)
        BY <2>6 DEF Closed
      <4>2. u = [s EXCEPT !.focused = NONE]
        BY <1>7, <3>1
      <4>3. TagsOnly(s, u) /\ Sturdy(u) /\ u.fo = s.fo /\ u.focused = NONE
        BY <4>1, <4>2, FocusedIs
      <4> QED
        BY <2>1, <2>2, <2>5, <2>6, <4>3 DEF Closed, TagsOnly, SameRooms, SameTags
    <3>2. CASE s.focused # v
      BY <1>7, <2>5, <2>6, <3>2
    <3> QED
      BY <3>1, <3>2
  <2> QED
    BY <1>4, <2>7, ClosedGood
<1> QED
  BY <1>9, <1>10

-----------------------------------------------------------------------------
(* Outputs change: the plan for the groups is carried out entry by entry.  *)

\* The two loops of leme_sticky_commit_outputs, one step of each.
PresentStep(s, plan, f, n) ==
  IF n = 0 THEN {s} ELSE UNION {PresentEntry(u, plan[n]) : u \in f[n - 1]}
AttachStep(s, plan, f, n) == IF n = 0 THEN s ELSE AttachEntry(f[n - 1], plan[n])

LEMMA PresentsExist ==
  ASSUME NEW s, NEW plan, Len(plan) \in Nat
  PROVE  \E f : f = [n \in 0 .. Len(plan) |-> PresentStep(s, plan, f, n)]
<1> DEFINE Reached(k) == \E f : f = [n \in 0 .. k |-> PresentStep(s, plan, f, n)]
           bad == {k \in Nat : ~Reached(k)}
<1>1. SUFFICES ASSUME Len(plan) \in bad PROVE FALSE
  OBVIOUS
<1>2. PICK k \in bad : \A m \in bad : k <= m
  <2> HIDE DEF bad
  <2>1. bad \subseteq Nat
    BY DEF bad
  <2>2. Len(plan) \in bad
    BY <1>1
  <2> QED
    BY <2>1, <2>2, LeastNatural
<1>3. k # 0
  <2>1. SUFFICES ASSUME k = 0 PROVE Reached(0)
    BY <1>2
  <2> DEFINE f == [n \in 0 .. 0 |-> {s}]
  <2>2. f = [n \in 0 .. 0 |-> PresentStep(s, plan, f, n)]
    BY DEF PresentStep
  <2> QED
    BY <2>2
<1>4. k \in Nat /\ k - 1 \in Nat /\ ~Reached(k)
  BY <1>2, <1>3
<1>5. Reached(k - 1)
  <2> HIDE DEF Reached
  <2>1. k - 1 \notin bad
    BY <1>2, <1>4
  <2> QED
    BY <1>4, <2>1
<1>6. PICK f : f = [n \in 0 .. k - 1 |-> PresentStep(s, plan, f, n)]
  BY <1>5
<1> DEFINE g == [n \in 0 .. k |-> IF n < k THEN f[n] ELSE PresentStep(s, plan, f, k)]
<1>7. ASSUME NEW n \in 0 .. k PROVE g[n] = PresentStep(s, plan, g, n)
  <2>1. n \in Nat /\ n <= k
    BY <1>4, <1>7
  <2>2. n # 0 => g[n - 1] = f[n - 1]
    BY <1>4, <2>1
  <2>3. PresentStep(s, plan, g, n) = PresentStep(s, plan, f, n)
    BY <2>2 DEF PresentStep
  <2>4. CASE n < k
    <3>1. n \in 0 .. k - 1
      BY <1>4, <2>1, <2>4
    <3>2. f[n] = PresentStep(s, plan, f, n)
      BY <1>6, <3>1
    <3> QED
      BY <2>3, <2>4, <3>2
  <2>5. CASE n = k
    BY <2>3, <2>5
  <2> QED
    BY <1>4, <2>1, <2>4, <2>5
<1>8. g = [n \in 0 .. k |-> PresentStep(s, plan, g, n)]
  <2> DEFINE h == [n \in 0 .. k |-> PresentStep(s, plan, g, n)]
  <2>1. \A n \in 0 .. k : g[n] = h[n]
    BY <1>7
  <2>2. g = [n \in 0 .. k |-> g[n]] /\ h = [n \in 0 .. k |-> h[n]]
    OBVIOUS
  <2> HIDE DEF g, h
  <2>3. [n \in 0 .. k |-> g[n]] = [n \in 0 .. k |-> h[n]]
    BY <2>1
  <2>4. g = h
    BY <2>2, <2>3
  <2> QED
    BY <2>4 DEF h
<1> QED
  <2> HIDE DEF g
  <2>1. Reached(k)
    BY <1>8
  <2> QED
    BY <1>4, <2>1

LEMMA AttachesExist ==
  ASSUME NEW s, NEW plan, Len(plan) \in Nat
  PROVE  \E f : f = [n \in 0 .. Len(plan) |-> AttachStep(s, plan, f, n)]
<1> DEFINE Reached(k) == \E f : f = [n \in 0 .. k |-> AttachStep(s, plan, f, n)]
           bad == {k \in Nat : ~Reached(k)}
<1>1. SUFFICES ASSUME Len(plan) \in bad PROVE FALSE
  OBVIOUS
<1>2. PICK k \in bad : \A m \in bad : k <= m
  <2> HIDE DEF bad
  <2>1. bad \subseteq Nat
    BY DEF bad
  <2>2. Len(plan) \in bad
    BY <1>1
  <2> QED
    BY <2>1, <2>2, LeastNatural
<1>3. k # 0
  <2>1. SUFFICES ASSUME k = 0 PROVE Reached(0)
    BY <1>2
  <2> DEFINE f == [n \in 0 .. 0 |-> s]
  <2>2. f = [n \in 0 .. 0 |-> AttachStep(s, plan, f, n)]
    BY DEF AttachStep
  <2> QED
    BY <2>2
<1>4. k \in Nat /\ k - 1 \in Nat /\ ~Reached(k)
  BY <1>2, <1>3
<1>5. Reached(k - 1)
  <2> HIDE DEF Reached
  <2>1. k - 1 \notin bad
    BY <1>2, <1>4
  <2> QED
    BY <1>4, <2>1
<1>6. PICK f : f = [n \in 0 .. k - 1 |-> AttachStep(s, plan, f, n)]
  BY <1>5
<1> DEFINE g == [n \in 0 .. k |-> IF n < k THEN f[n] ELSE AttachStep(s, plan, f, k)]
<1>7. ASSUME NEW n \in 0 .. k PROVE g[n] = AttachStep(s, plan, g, n)
  <2>1. n \in Nat /\ n <= k
    BY <1>4, <1>7
  <2>2. n # 0 => g[n - 1] = f[n - 1]
    BY <1>4, <2>1
  <2>3. AttachStep(s, plan, g, n) = AttachStep(s, plan, f, n)
    BY <2>2 DEF AttachStep
  <2>4. CASE n < k
    <3>1. n \in 0 .. k - 1
      BY <1>4, <2>1, <2>4
    <3>2. f[n] = AttachStep(s, plan, f, n)
      BY <1>6, <3>1
    <3> QED
      BY <2>3, <2>4, <3>2
  <2>5. CASE n = k
    BY <2>3, <2>5
  <2> QED
    BY <1>4, <2>1, <2>4, <2>5
<1>8. g = [n \in 0 .. k |-> AttachStep(s, plan, g, n)]
  <2> DEFINE h == [n \in 0 .. k |-> AttachStep(s, plan, g, n)]
  <2>1. \A n \in 0 .. k : g[n] = h[n]
    BY <1>7
  <2>2. g = [n \in 0 .. k |-> g[n]] /\ h = [n \in 0 .. k |-> h[n]]
    OBVIOUS
  <2> HIDE DEF g, h
  <2>3. [n \in 0 .. k |-> g[n]] = [n \in 0 .. k |-> h[n]]
    BY <2>1
  <2>4. g = h
    BY <2>2, <2>3
  <2> QED
    BY <2>4 DEF h
<1> QED
  <2> HIDE DEF g
  <2>1. Reached(k)
    BY <1>8
  <2> QED
    BY <1>4, <2>1

LEMMA PresentedSteps ==
  ASSUME NEW s, NEW plan, Len(plan) \in Nat
  PROVE  \E f : /\ Presented(s, plan) = f[Len(plan)]
               /\ \A n \in 0 .. Len(plan) : f[n] = PresentStep(s, plan, f, n)
<1> DEFINE F == CHOOSE f : f = [n \in 0 .. Len(plan) |-> PresentStep(s, plan, f, n)]
<1>1. \E f : f = [n \in 0 .. Len(plan) |-> PresentStep(s, plan, f, n)]
  BY PresentsExist
<1>2. Presented(s, plan) = F[Len(plan)]
  BY DEF Presented, PresentStep
<1>3. F = [n \in 0 .. Len(plan) |-> PresentStep(s, plan, F, n)]
  BY <1>1
<1> HIDE DEF F
<1>4. \A n \in 0 .. Len(plan) : F[n] = PresentStep(s, plan, F, n)
  BY <1>3
<1> QED
  BY <1>2, <1>4

\* The groups that are left when the plan is carried out.
Kept(s, plan) == {g \in Elements(s.groups) :
                    ~g.pending \/ \E k \in DOMAIN plan : plan[k].group = g /\ ~plan[k].attach}
Regrouped(x, s, plan) == [x EXCEPT !.groups = Selected(@, Kept(s, plan))]

LEMMA AttachedSteps ==
  ASSUME NEW s, NEW plan, Len(plan) \in Nat
  PROVE  \E f : /\ Attached(s, plan) = Regrouped(f[Len(plan)], s, plan)
               /\ \A n \in 0 .. Len(plan) : f[n] = AttachStep(s, plan, f, n)
<1> DEFINE F == CHOOSE f : f = [n \in 0 .. Len(plan) |-> AttachStep(s, plan, f, n)]
<1>1. \E f : f = [n \in 0 .. Len(plan) |-> AttachStep(s, plan, f, n)]
  BY AttachesExist
<1>2. Attached(s, plan) = Regrouped(F[Len(plan)], s, plan)
  BY DEF Attached, AttachStep, Regrouped, Kept
<1>3. F = [n \in 0 .. Len(plan) |-> AttachStep(s, plan, F, n)]
  BY <1>1
<1> HIDE DEF F
<1>4. \A n \in 0 .. Len(plan) : F[n] = AttachStep(s, plan, F, n)
  BY <1>3
<1> QED
  BY <1>2, <1>4


\* The plan for the groups of s, of the outputs that will be on.
Plans(s, plan) ==
  /\ Len(plan) = Len(s.groups) /\ DOMAIN plan = DOMAIN s.groups
  /\ \A k \in DOMAIN s.groups :
       /\ plan[k].group = s.groups[k] /\ plan[k].output \in s.on \cup {NONE}
       /\ plan[k].output = NONE => s.on = {}
       /\ plan[k].attach <=> s.groups[k].pending /\ plan[k].output # NONE
       /\ plan[k].owned <=> /\ plan[k].output # NONE
                            /\ s.current[plan[k].output] \notin s.table[plan[k].output]

\* leme_sticky_choose_snapshot
LEMMA ChooseIs ==
  ASSUME NEW s \in Desks, NEW on, on \subseteq Elements(s.list), NEW o
  PROVE  /\ Choose(s, on, o) \in on \cup {NONE}
         /\ Choose(s, on, o) = NONE => on = {}
<1> DEFINE usable == Selected(s.list, on)
<1>1. s.list \in Seq(Outputs)
  BY DeskFields
<1>2. usable # <<>> => usable[1] \in on
  BY <1>1, SelectedFirst
<1>3. usable = <<>> => on = {}
  <2>1. usable = <<>> => Elements(s.list) \cap on = {}
    BY <1>1, SelectedNone
  <2> QED
    BY <2>1
<1>4. Elements(s.list) \subseteq Outputs
  BY <1>1 DEF Elements
<1>5. Choose(s, on, o) = IF o \in on THEN o ELSE IF s.fo \in on THEN s.fo
                         ELSE IF usable = <<>> THEN NONE ELSE usable[1]
  BY DEF Choose
<1> HIDE DEF usable
<1>6. NONE \notin on
  BY <1>4, StickyAssumption
<1> QED
  BY <1>2, <1>3, <1>5, <1>6

\* leme_sticky_prepare_outputs
LEMMA PlanIs ==
  ASSUME NEW s \in Desks, NEW on, on \subseteq Elements(s.list),
         NEW u, u.groups = s.groups, u.on = on, SameTags(s, u)
  PROVE  Plans(u, Plan(s, on))
<1> DEFINE plan == Plan(s, on)
           O(k) == Choose(s, on, OutputOf(s, s.groups[k].root))
           n == Len(s.groups)
<1>1. DOMAIN s.groups = 1 .. n /\ n \in Nat
  BY DeskFields
<1>2. DOMAIN plan = DOMAIN s.groups
  BY DEF Plan
<1>3. Len(plan) = n
  <2> DEFINE S == {plan[k] : k \in 1 .. n}
  <2>1. plan = [k \in 1 .. n |-> plan[k]]
    BY <1>1 DEF Plan
  <2> HIDE DEF plan
  <2>2. [k \in 1 .. n |-> plan[k]] \in [1 .. n -> S]
    OBVIOUS
  <2>3. plan \in [1 .. n -> S]
    BY <2>1, <2>2
  <2> HIDE DEF S
  <2>4. plan \in Seq(S)
    BY <1>1, <2>3
  <2> QED
    BY <1>1, <2>3, <2>4
<1>4. ASSUME NEW k \in DOMAIN s.groups
      PROVE  /\ plan[k].group = s.groups[k] /\ plan[k].output = O(k)
             /\ plan[k].attach = (s.groups[k].pending /\ O(k) # NONE)
             /\ plan[k].owned = (O(k) # NONE /\ s.current[O(k)] \notin s.table[O(k)])
  BY DEF Plan
<1>5. \A k \in DOMAIN s.groups : O(k) \in on \cup {NONE} /\ (O(k) = NONE => on = {})
  BY ChooseIs
<1> HIDE DEF plan, O
<1>6. Plans(u, plan)
  BY <1>1, <1>2, <1>3, <1>4, <1>5 DEF Plans, SameTags
<1> QED
  BY <1>6 DEF plan

\* The keyboard is where it was, with nobody or with a window of a tag, and the
\* windows of tags stay that.
Stray(s, u) ==
  /\ u.focused \in {NONE, s.focused} \/ u.view[u.focused].kind = "tag"
  /\ \A v \in Views : s.view[v].kind = "tag" => u.view[v].kind = "tag"

LEMMA StrayChain ==
  ASSUME NEW s, NEW u, NEW r, Stray(s, u), Stray(u, r), u.focused \in Views \cup {NONE}
  PROVE  Stray(s, r)
<1> QED
  BY DEF Stray

\* In u, the groups of s up to the place j are where the plan puts them, those
\* that go to a tag left out.
Presenting(s, u, plan, j) ==
  /\ u \in Desks /\ SameRooms(s, u) /\ SameTags(s, u) /\ u.groups = s.groups /\ Keyed(u)
  /\ u.fo \in {s.fo} \cup s.on /\ Stray(s, u)
  /\ \A v \in Views :
       /\ u.view[v].kind = s.view[v].kind
       /\ s.view[v].kind = "none" => u.view[v] = s.view[v]
       /\ s.view[v].kind = "tag" => u.view[v].output = s.view[v].output
                                    /\ u.view[v].tag = s.view[v].tag
  /\ \A i \in DOMAIN s.groups : \A v \in Views :
       In(s, v, i) => IF i <= j /\ ~plan[i].attach
                      THEN /\ u.view[v].output = plan[i].output
                           /\ u.view[v].shown <=> plan[i].output # NONE
                      ELSE u.view[v] = s.view[v]

\* One entry of the first loop.
LEMMA PresentEntryIs ==
  ASSUME NEW s \in Desks, Grouped(s), NEW plan, Plans(s, plan), NEW j \in DOMAIN s.groups,
         NEW u, Presenting(s, u, plan, j - 1), NEW r \in PresentEntry(u, plan[j])
  PROVE  Presenting(s, r, plan, j)
<1> DEFINE e == plan[j]
           o == e.output
           vs == Elements(e.group.members)
           p == Present(u, vs, o)
           a == IF o = NONE THEN p ELSE Anchor(p, vs, <<o, FALSE>>)
<1>1. /\ u \in Desks /\ SameRooms(s, u) /\ SameTags(s, u) /\ u.groups = s.groups /\ Keyed(u)
      /\ u.fo \in {s.fo} \cup s.on /\ Stray(s, u)
      /\ \A v \in Views :
           /\ u.view[v].kind = s.view[v].kind
           /\ s.view[v].kind = "none" => u.view[v] = s.view[v]
           /\ s.view[v].kind = "tag" => u.view[v].output = s.view[v].output
                                        /\ u.view[v].tag = s.view[v].tag
      /\ \A i \in DOMAIN s.groups : \A v \in Views :
           In(s, v, i) => IF i <= j - 1 /\ ~plan[i].attach
                          THEN /\ u.view[v].output = plan[i].output
                               /\ u.view[v].shown <=> plan[i].output # NONE
                          ELSE u.view[v] = s.view[v]
  BY DEF Presenting
<1>2. /\ e.group = s.groups[j] /\ o \in s.on \cup {NONE}
      /\ e.attach <=> s.groups[j].pending /\ o # NONE
  BY DEF Plans
<1>3. \A v : v \in vs <=> In(s, v, j)
  BY <1>2 DEF In
<1>4. j \in Nat /\ \A i \in DOMAIN s.groups : i \in Nat /\ (i <= j <=> i <= j - 1 \/ i = j)
  BY DeskFields
<1>5. r \in IF e.attach THEN {u}
            ELSE IF o = NONE /\ u.focused \in vs THEN {[a EXCEPT !.focused = NONE]}
            ELSE IF e.preserve_focus THEN SetFocused(a, o)
            ELSE {a}
  BY DEF PresentEntry
<1>6. CASE e.attach
  <2>1. r = u
    BY <1>5, <1>6
  <2>2. \A i \in DOMAIN s.groups : (i <= j /\ ~plan[i].attach) => i <= j - 1
    BY <1>4, <1>6
  <2>3. \A i \in DOMAIN s.groups : (i <= j - 1) => i <= j
    BY <1>4
  <2> QED
    BY <1>1, <2>1, <2>2, <2>3 DEF Presenting
<1>7. CASE ~e.attach
  <2>1. o \in Outputs \cup {NONE} /\ (o # NONE => o \in Outputs /\ o \in s.on)
    BY <1>2, DeskFields
  <2>2. Houses(u, a, vs, o, <<o, FALSE>>)
    <3>1. CASE o = NONE
      BY <1>1, <3>1, PresentHouses
    <3>2. CASE o # NONE
      <4>1. <<o, FALSE>> \in (Outputs \cup {NONE}) \X BOOLEAN
        BY <2>1, <3>2
      <4> QED
        BY <1>1, <2>1, <3>2, <4>1, AnchorHouses
    <3> QED
      BY <3>1, <3>2
  <2> HIDE DEF a, p
  <2>3. /\ a \in Desks /\ SameRooms(u, a) /\ SameTags(u, a) /\ SameKeys(u, a)
        /\ a.groups = u.groups
        /\ \A v \in Views : IF In(s, v, j)
             THEN /\ a.view[v].kind = u.view[v].kind /\ a.view[v].output = o
                  /\ a.view[v].shown <=> o # NONE
             ELSE a.view[v] = u.view[v]
    BY <1>3, <2>2 DEF Houses
  <2> HIDE DEF o, vs
  <2>4. \A v \in Views : In(s, v, j) => s.view[v].kind = "sticky"
    BY DEF Grouped
  <2>5. /\ \A v \in Views :
             /\ a.view[v].kind = s.view[v].kind
             /\ s.view[v].kind = "none" => a.view[v] = s.view[v]
             /\ s.view[v].kind = "tag" => a.view[v].output = s.view[v].output
                                          /\ a.view[v].tag = s.view[v].tag
        /\ \A i \in DOMAIN s.groups : \A v \in Views :
             In(s, v, i) => IF i <= j /\ ~plan[i].attach
                            THEN /\ a.view[v].output = plan[i].output
                                 /\ a.view[v].shown <=> plan[i].output # NONE
                            ELSE a.view[v] = s.view[v]
    <3>1. \A v \in Views :
             /\ a.view[v].kind = s.view[v].kind
             /\ s.view[v].kind = "none" => a.view[v] = s.view[v]
             /\ s.view[v].kind = "tag" => a.view[v].output = s.view[v].output
                                          /\ a.view[v].tag = s.view[v].tag
      BY <1>1, <2>3, <2>4
    <3>2. ASSUME NEW i \in DOMAIN s.groups, NEW v \in Views, In(s, v, i)
          PROVE  IF i <= j /\ ~plan[i].attach
                 THEN /\ a.view[v].output = plan[i].output
                      /\ a.view[v].shown <=> plan[i].output # NONE
                 ELSE a.view[v] = s.view[v]
      <4>1. CASE i = j
        BY <1>4, <1>7, <2>3, <3>2, <4>1 DEF o
      <4>2. CASE i # j
        <5>1. ~In(s, v, j)
          BY <3>2, <4>2 DEF Grouped
        <5>2. a.view[v] = u.view[v]
          BY <2>3, <5>1
        <5>3. i <= j <=> i <= j - 1
          BY <1>4, <4>2
        <5> QED
          BY <1>1, <3>2, <5>2, <5>3
      <4> QED
        BY <4>1, <4>2
    <3> QED
      BY <3>1, <3>2
  \* What the focus is after the windows were moved.
  <2>6. ASSUME /\ r \in Desks /\ SameRooms(a, r) /\ SameTags(a, r) /\ r.groups = a.groups
               /\ Keyed(r) /\ r.fo \in {a.fo} \cup s.on
               /\ \A v \in Views :
                    /\ a.view[v].kind # "tag" => r.view[v] = a.view[v]
                    /\ r.view[v].kind = a.view[v].kind /\ r.view[v].output = a.view[v].output
                    /\ r.view[v].tag = a.view[v].tag
               /\ r.focused \in {NONE, u.focused} \/ r.view[r.focused].kind = "tag"
        PROVE  Presenting(s, r, plan, j)
    <3>1. \A v \in Views :
             /\ r.view[v].kind = s.view[v].kind
             /\ s.view[v].kind = "none" => r.view[v] = s.view[v]
             /\ s.view[v].kind = "tag" => r.view[v].output = s.view[v].output
                                          /\ r.view[v].tag = s.view[v].tag
      BY <2>5, <2>6
    <3>2. \A i \in DOMAIN s.groups : \A v \in Views : In(s, v, i) => r.view[v] = a.view[v]
      BY <2>5, <2>6 DEF Grouped
    <3>3. \A i \in DOMAIN s.groups : \A v \in Views :
             In(s, v, i) => IF i <= j /\ ~plan[i].attach
                            THEN /\ r.view[v].output = plan[i].output
                                 /\ r.view[v].shown <=> plan[i].output # NONE
                            ELSE r.view[v] = s.view[v]
      BY <2>5, <3>2
    <3>4. SameRooms(s, r) /\ SameTags(s, r) /\ r.groups = s.groups
      BY <1>1, <2>3, <2>6 DEF SameRooms, SameTags
    <3>5. r.fo \in {s.fo} \cup s.on
      BY <1>1, <2>3, <2>6 DEF SameKeys
    <3>6. Stray(s, r)
      <4>1. Stray(u, r)
        BY <1>1, <2>6, <3>1 DEF Stray
      <4>2. u.focused \in Views \cup {NONE}
        BY <1>1, DeskFields
      <4> QED
        BY <1>1, <4>1, <4>2, StrayChain
    <3> QED
      BY <2>6, <3>1, <3>3, <3>4, <3>5, <3>6 DEF Presenting
  <2>7. CASE o = NONE /\ u.focused \in vs
    <3>1. r = [a EXCEPT !.focused = NONE]
      BY <1>5, <1>7, <2>7
    <3>2. /\ r \in Desks /\ SameRooms(a, r) /\ SameTags(a, r) /\ r.groups = a.groups
          /\ r.view = a.view /\ r.fo = a.fo /\ r.focused = NONE
      BY <2>3, <3>1 DEF Desks, SameRooms, SameTags
    <3>3. Keyed(r)
      BY <3>2 DEF Keyed
    <3> QED
      BY <2>6, <3>2, <3>3
  <2>8. Keyed(a) \/ (o = NONE /\ u.focused \in vs)
    <3>1. SUFFICES ASSUME ~(o = NONE /\ u.focused \in vs), a.focused # NONE
                   PROVE  /\ a.view[a.focused].shown
                          /\ a.view[a.focused].kind = "tag" => a.view[a.focused].output = a.fo
      BY DEF Keyed
    <3>2. a.focused = u.focused /\ a.fo = u.fo /\ u.focused \in Views
      BY <1>1, <2>3, <3>1, DeskFields DEF SameKeys
    <3>3. CASE In(s, u.focused, j)
      BY <1>1, <1>3, <2>3, <2>4, <3>1, <3>2, <3>3 DEF vs
    <3>4. CASE ~In(s, u.focused, j)
      BY <1>1, <2>3, <3>1, <3>2, <3>4 DEF Keyed
    <3> QED
      BY <3>3, <3>4
  <2>9. CASE ~(o = NONE /\ u.focused \in vs) /\ r = a
    <3>1. SameRooms(a, a) /\ SameTags(a, a)
      BY DEF SameRooms, SameTags
    <3>2. a.focused = u.focused
      BY <2>3 DEF SameKeys
    <3> QED
      BY <2>3, <2>6, <2>8, <2>9, <3>1, <3>2
  <2>10. CASE ~(o = NONE /\ u.focused \in vs) /\ r # a
    <3>1. r \in SetFocused(a, o)
      BY <1>5, <1>7, <2>10
    <3>2. o \in a.on
      BY <2>10, <3>1 DEF SetFocused
    <3>3. o \in Outputs /\ o \in s.on
      BY <1>1, <2>3, <3>2, DeskFields DEF SameRooms
    <3> DEFINE n == [a EXCEPT !.fo = o]
    <3>4. r \in Refresh(n, o)
      BY <3>1, <3>2 DEF SetFocused
    <3>5. /\ n \in Desks /\ SameRooms(a, n) /\ SameTags(a, n) /\ n.groups = a.groups
          /\ n.view = a.view /\ n.fo = o
      BY <2>3, <3>3 DEF Desks, SameRooms, SameTags
    <3> HIDE DEF n
    <3>6. Refreshes(n, r, o)
      BY <3>3, <3>4, <3>5, RefreshIs
    <3>7. Keyed(r)
      BY <3>3, <3>5, <3>6, RefreshKeyed
    <3>8. TagsOnly(n, r) /\ r.fo = o
          /\ (IF Showing(n, o) = {} THEN r.focused = NONE ELSE r.focused \in Showing(n, o))
      BY <3>5, <3>6 DEF Refreshes
    <3>9. r.focused = NONE \/ r.view[r.focused].kind = "tag"
      <4>1. SUFFICES ASSUME r.focused \in Showing(n, o) PROVE r.view[r.focused].kind = "tag"
        BY <3>8
      <4>2. r.focused \in Views
        BY <4>1, ShowingViews
      <4>3. n.view[r.focused].kind = "tag"
        BY <4>1, <4>2, ShowingIs
      <4> QED
        BY <3>8, <4>2, <4>3 DEF TagsOnly
    <3> QED
      BY <2>6, <3>3, <3>5, <3>7, <3>8, <3>9 DEF TagsOnly, SameRooms, SameTags
  <2> QED
    BY <2>7, <2>9, <2>10
<1> QED
  BY <1>6, <1>7

\* The first loop puts every group where the plan says.
LEMMA PresentedIs ==
  ASSUME NEW s \in Desks, Grouped(s), Keyed(s), NEW plan, Plans(s, plan),
         NEW u \in Presented(s, plan)
  PROVE  Presenting(s, u, plan, Len(s.groups))
<1> DEFINE N == Len(s.groups)
<1>1. N \in Nat /\ Len(plan) = N /\ DOMAIN s.groups = 1 .. N
  BY DeskFields DEF Plans
<1>2. PICK f : /\ Presented(s, plan) = f[N]
               /\ \A n \in 0 .. N : f[n] = PresentStep(s, plan, f, n)
  BY <1>1, PresentedSteps
<1> DEFINE bad == {k \in 0 .. N : ~(\A x \in f[k] : Presenting(s, x, plan, k))}
<1>3. SUFFICES ASSUME bad # {} PROVE FALSE
  BY <1>1, <1>2
<1>4. PICK k \in bad : \A m \in bad : k <= m
  <2> HIDE DEF bad
  <2>1. bad \subseteq Nat
    BY <1>1 DEF bad
  <2> QED
    BY <1>3, <2>1, LeastNatural
<1>5. k \in 0 .. N /\ f[k] = PresentStep(s, plan, f, k)
  BY <1>2, <1>4
<1>6. PICK x \in f[k] : ~Presenting(s, x, plan, k)
  BY <1>4
<1>7. CASE k = 0
  <2>1. x = s
    BY <1>5, <1>6, <1>7 DEF PresentStep
  <2>2. \A i \in DOMAIN s.groups : ~(i <= 0)
    BY <1>1
  <2>3. Presenting(s, s, plan, 0)
    BY <2>2 DEF Presenting, SameRooms, SameTags, Stray
  <2> QED
    BY <1>6, <1>7, <2>1, <2>3
<1>8. CASE k # 0
  <2>1. k \in 1 .. N /\ k - 1 \in 0 .. N /\ ~(k <= k - 1)
    BY <1>1, <1>5, <1>8
  <2>2. PICK y \in f[k - 1] : x \in PresentEntry(y, plan[k])
    BY <1>5, <1>6, <1>8 DEF PresentStep
  <2>3. Presenting(s, y, plan, k - 1)
    BY <1>4, <2>1
  <2> HIDE DEF bad
  <2>4. Presenting(s, x, plan, k)
    BY <1>1, <2>1, <2>2, <2>3, PresentEntryIs
  <2> QED
    BY <1>6, <2>4
<1> QED
  BY <1>7, <1>8

\* The group at i has become windows of a tag.
Attached_(plan, i, j) == i <= j /\ plan[i].attach

\* In x, the groups of u up to the place j that go to a tag are there.
Attaching(u, x, plan, j) ==
  /\ x \in Desks /\ SameRooms(u, x) /\ SameKeys(u, x) /\ x.groups = u.groups
  /\ x.current = u.current
  /\ (\A i \in DOMAIN u.groups : ~Attached_(plan, i, j)) => x.table = u.table
  /\ \A v \in Views :
       IF \E i \in DOMAIN u.groups : Attached_(plan, i, j) /\ In(u, v, i)
       THEN /\ x.view[v].kind = "tag" /\ x.view[v].output \in Outputs
            /\ x.view[v].tag \in Tags /\ x.view[v].shown
       ELSE x.view[v] = u.view[v]

\* One entry of the second loop.
LEMMA AttachEntryIs ==
  ASSUME NEW u \in Desks, Grouped(u), Prepares(u), NEW plan, Plans(u, plan),
         NEW j \in DOMAIN u.groups, NEW x, Attaching(u, x, plan, j - 1)
  PROVE  Attaching(u, AttachEntry(x, plan[j]), plan, j)
<1> DEFINE e == plan[j]
           o == e.output
           vs == Elements(e.group.members)
           t == x.current[o]
           p == Present(x, vs, o)
           r == Attach(p, vs, o, t)
<1>1. /\ x \in Desks /\ SameRooms(u, x) /\ SameKeys(u, x) /\ x.groups = u.groups
      /\ x.current = u.current
      /\ (\A i \in DOMAIN u.groups : ~Attached_(plan, i, j - 1)) => x.table = u.table
      /\ \A v \in Views :
           IF \E i \in DOMAIN u.groups : Attached_(plan, i, j - 1) /\ In(u, v, i)
           THEN /\ x.view[v].kind = "tag" /\ x.view[v].output \in Outputs
                /\ x.view[v].tag \in Tags /\ x.view[v].shown
           ELSE x.view[v] = u.view[v]
  BY DEF Attaching
<1>2. \A i \in DOMAIN u.groups : Attached_(plan, i, j) <=>
        Attached_(plan, i, j - 1) \/ (i = j /\ e.attach)
  <2>1. j \in Nat /\ \A i \in DOMAIN u.groups : i \in Nat /\ (i <= j <=> i <= j - 1 \/ i = j)
    BY DeskFields
  <2>2. ~(j <= j - 1)
    BY <2>1
  <2> QED
    BY <2>1, <2>2 DEF Attached_
<1>3. CASE ~e.attach
  <2>1. AttachEntry(x, e) = x
    BY <1>3 DEF AttachEntry
  <2>2. \A i \in DOMAIN u.groups : Attached_(plan, i, j) <=> Attached_(plan, i, j - 1)
    BY <1>2, <1>3
  <2> HIDE DEF e
  <2> QED
    BY <1>1, <2>1, <2>2 DEF Attaching, e
<1>4. CASE e.attach
  <2>1. /\ e.group = u.groups[j] /\ u.groups[j].pending /\ o \in Outputs
        /\ e.owned <=> u.current[o] \notin u.table[o]
    BY <1>4, DeskFields DEF Plans
  <2>2. \A i \in DOMAIN u.groups : ~Attached_(plan, i, j - 1)
    <3>1. SUFFICES ASSUME NEW i \in DOMAIN u.groups, i <= j - 1, plan[i].attach PROVE FALSE
      BY DEF Attached_
    <3>2. u.groups[i].pending
      BY <3>1 DEF Plans
    <3>3. WindowsWait(u.groups[i]) /\ WindowsWait(u.groups[j])
      BY <2>1, <3>2 DEF WindowsWait, Prepares
    <3>4. i = j
      BY <3>3 DEF Grouped
    <3> QED
      BY <3>1, <3>4, DeskFields
  <2>3. x.table = u.table /\ \A v \in Views : x.view[v] = u.view[v]
    BY <1>1, <2>2
  <2>4. ~(e.owned /\ t \in x.table[o])
    BY <1>1, <2>1, <2>3
  <2>5. AttachEntry(x, e) = r
    BY <1>4, <2>4 DEF AttachEntry
  <2>6. \A v : v \in vs <=> In(u, v, j)
    BY <2>1 DEF In
  <2>7. Presents(x, p, vs, o)
    BY <1>1, <2>1, PresentIs
  <2>8. t \in Tags
    BY <1>1, <2>1, DeskFields
  <2> HIDE DEF p
  <2>9. p \in Desks
    BY <2>7 DEF Presents
  <2>10. Attaches(p, r, vs, o, t)
    BY <2>1, <2>8, <2>9, AttachIs
  <2> HIDE DEF r, o, t, vs, e
  <2>11. \A v \in vs : v \in Views => p.view[v].shown
    <3>1. o # NONE
      BY <2>1, StickyAssumption
    <3>2. SUFFICES ASSUME NEW v \in Views, v \in vs PROVE p.view[v].shown
      OBVIOUS
    <3>3. p.view[v] = [x.view[v] EXCEPT !.output = o, !.shown = TRUE]
      BY <2>7, <3>1, <3>2 DEF Presents
    <3>4. x.view[v] \in Owned
      BY <1>1, ViewFields
    <3> QED
      BY <3>3, <3>4, OwnedEdits
  <2>12. ASSUME NEW v \in Views
         PROVE  IF \E i \in DOMAIN u.groups : Attached_(plan, i, j) /\ In(u, v, i)
                THEN /\ r.view[v].kind = "tag" /\ r.view[v].output \in Outputs
                     /\ r.view[v].tag \in Tags /\ r.view[v].shown
                ELSE r.view[v] = u.view[v]
    <3>1. (\E i \in DOMAIN u.groups : Attached_(plan, i, j) /\ In(u, v, i)) <=> v \in vs
      BY <1>2, <1>4, <2>2, <2>6
    <3>2. CASE v \in vs
      BY <2>1, <2>8, <2>10, <2>11, <3>1, <3>2 DEF Attaches
    <3>3. CASE v \notin vs
      BY <2>3, <2>7, <2>10, <3>1, <3>3 DEF Attaches, Presents
    <3> QED
      BY <3>2, <3>3
  <2>13. Attached_(plan, j, j)
    BY <1>2, <1>4
  <2>14. /\ r \in Desks /\ SameRooms(u, r) /\ SameKeys(u, r) /\ r.groups = u.groups
         /\ r.current = u.current
    BY <1>1, <2>7, <2>10 DEF Presents, Attaches, SameRooms, SameKeys, SameTags
  <2>15. Attaching(u, r, plan, j)
    BY <2>12, <2>13, <2>14 DEF Attaching
  <2> QED
    BY <2>5, <2>15 DEF e
<1> QED
  BY <1>3, <1>4

\* The second loop makes the groups that wait windows of a tag.
LEMMA AttachedIs ==
  ASSUME NEW u \in Desks, Grouped(u), Prepares(u), NEW plan, Plans(u, plan)
  PROVE  \E x : /\ Attaching(u, x, plan, Len(u.groups))
                /\ Attached(u, plan) = Regrouped(x, u, plan)
<1> DEFINE N == Len(u.groups)
<1>1. N \in Nat /\ Len(plan) = N /\ DOMAIN u.groups = 1 .. N
  BY DeskFields DEF Plans
<1>2. PICK f : /\ Attached(u, plan) = Regrouped(f[N], u, plan)
               /\ \A n \in 0 .. N : f[n] = AttachStep(u, plan, f, n)
  BY <1>1, AttachedSteps
<1> DEFINE bad == {k \in 0 .. N : ~Attaching(u, f[k], plan, k)}
<1>3. SUFFICES ASSUME bad # {} PROVE FALSE
  BY <1>1, <1>2
<1>4. PICK k \in bad : \A m \in bad : k <= m
  <2> HIDE DEF bad
  <2>1. bad \subseteq Nat
    BY <1>1 DEF bad
  <2> QED
    BY <1>3, <2>1, LeastNatural
<1>5. k \in 0 .. N /\ f[k] = AttachStep(u, plan, f, k) /\ ~Attaching(u, f[k], plan, k)
  BY <1>2, <1>4
<1>6. CASE k = 0
  <2>1. f[k] = u
    BY <1>5, <1>6 DEF AttachStep
  <2>2. \A i \in DOMAIN u.groups : ~Attached_(plan, i, 0)
    BY <1>1 DEF Attached_
  <2>3. Attaching(u, u, plan, 0)
    BY <2>2 DEF Attaching, SameRooms, SameKeys
  <2> QED
    BY <1>5, <1>6, <2>1, <2>3
<1>7. CASE k # 0
  <2>1. k \in 1 .. N /\ k - 1 \in 0 .. N /\ ~(k <= k - 1)
    BY <1>1, <1>5, <1>7
  <2>2. f[k] = AttachEntry(f[k - 1], plan[k])
    BY <1>5, <1>7 DEF AttachStep
  <2>3. Attaching(u, f[k - 1], plan, k - 1)
    BY <1>4, <2>1
  <2> HIDE DEF bad
  <2>4. Attaching(u, f[k], plan, k)
    BY <1>1, <2>1, <2>2, <2>3, AttachEntryIs
  <2> QED
    BY <1>5, <2>4
<1> QED
  BY <1>6, <1>7

\* In r, the groups of s are left that do not go to a tag.
Leaves(s, x, r, plan) ==
  /\ r \in Desks /\ SameRooms(x, r) /\ SameTags(x, r) /\ SameKeys(x, r) /\ r.view = x.view
  /\ \E h : Picks(s, r, h) /\ \A i \in DOMAIN s.groups :
              ~plan[i].attach <=> \E m \in DOMAIN r.groups : h[m] = i

LEMMA SameGroup ==
  ASSUME NEW s \in Desks, Grouped(s), Prepares(s), NEW i \in DOMAIN s.groups,
         NEW j \in DOMAIN s.groups, s.groups[i] = s.groups[j]
  PROVE  i = j
<1> DEFINE v == s.groups[i].members[1]
<1>1. s.groups[i].members \in Seq(Views) /\ s.groups[i].members # <<>>
  BY GroupFields DEF Prepares
<1>2. 1 \in DOMAIN s.groups[i].members /\ v \in Views
  BY <1>1
<1>3. In(s, v, i) /\ In(s, v, j)
  BY <1>2 DEF In, Elements
<1> QED
  BY <1>2, <1>3 DEF Grouped

LEMMA RegroupedIs ==
  ASSUME NEW s \in Desks, Grouped(s), Prepares(s), NEW plan, Plans(s, plan),
         NEW x \in Desks, x.groups = s.groups
  PROVE  Leaves(s, x, Regrouped(x, s, plan), plan)
<1> DEFINE S == Kept(s, plan)
           q == Selected(s.groups, S)
           r == Regrouped(x, s, plan)
<1>1. s.groups \in Seq(Groups) /\ DOMAIN s.groups = 1 .. Len(s.groups)
  BY DeskFields
<1>2. q \in Seq(Groups) /\ Elements(q) = Elements(s.groups) \cap S
  BY <1>1, SelectedElements
<1>3. Sifted(s.groups, S, Len(s.groups), q)
  BY <1>1, SelectedOrder
<1>4. r = [x EXCEPT !.groups = q]
  BY DEF Regrouped
<1> HIDE DEF q, S
<1>5. PICK h \in [DOMAIN q -> DOMAIN s.groups] :
         /\ \A i \in DOMAIN q : q[i] = s.groups[h[i]]
         /\ \A i, j \in DOMAIN q : i < j => h[i] < h[j]
         /\ \A m \in DOMAIN s.groups : s.groups[m] \in S => \E i \in DOMAIN q : h[i] = m
  BY <1>1, <1>3 DEF Sifted
<1> HIDE DEF r
<1>6. /\ r \in Desks /\ SameRooms(x, r) /\ SameTags(x, r) /\ SameKeys(x, r) /\ r.view = x.view
      /\ r.groups = q
  BY <1>2, <1>4 DEF Desks, SameRooms, SameTags, SameKeys
<1>7. \A i, j \in DOMAIN q : h[i] = h[j] => i = j
  <2>1. SUFFICES ASSUME NEW i \in DOMAIN q, NEW j \in DOMAIN q, h[i] = h[j], i < j
                 PROVE  FALSE
    BY <1>2
  <2>2. h[i] < h[j] /\ h[i] \in Nat
    BY <1>1, <1>5, <2>1
  <2> QED
    BY <2>1, <2>2
<1>8. \A i \in DOMAIN s.groups : s.groups[i] \in S <=> ~plan[i].attach
  <2> SUFFICES ASSUME NEW i \in DOMAIN s.groups
               PROVE  s.groups[i] \in S <=> ~plan[i].attach
    OBVIOUS
  <2>1. s.groups[i] \in Elements(s.groups) /\ DOMAIN plan = DOMAIN s.groups
        /\ (plan[i].attach => s.groups[i].pending)
    BY DEF Elements, Plans
  <2>2. \A k \in DOMAIN plan : plan[k].group = s.groups[i] => k = i
    BY <2>1, SameGroup DEF Plans
  <2>3. plan[i].group = s.groups[i]
    BY DEF Plans
  <2> QED
    BY <2>1, <2>2, <2>3 DEF S, Kept
<1>9. \A i \in DOMAIN s.groups : ~plan[i].attach <=> \E m \in DOMAIN q : h[m] = i
  <2>1. ASSUME NEW m \in DOMAIN q PROVE s.groups[h[m]] \in S
    BY <1>2, <1>5 DEF Elements
  <2> QED
    BY <1>5, <1>8, <2>1
<1>10. Picks(s, r, h)
  BY <1>5, <1>6, <1>7 DEF Picks
<1>11. Leaves(s, x, r, plan)
  BY <1>6, <1>9, <1>10 DEF Leaves
<1> QED
  BY <1>11 DEF r

\* What leme_sticky_commit_outputs comes to.
Committed(s, u) ==
  /\ u \in Desks /\ SameRooms(s, u) /\ u.fo \in {s.fo} \cup s.on
  /\ Grouped(u) /\ Gathered(u) /\ Seen(u) /\ Keyed(u) /\ Stray(s, u) /\ Prepares(u)
  /\ \A v \in Views : u.view[v].kind = "sticky" =>
       u.view[v].output \in s.on \cup {NONE} /\ (u.view[v].output = NONE => s.on = {})

\* The first loop: a group that does not go to a tag is on an output that is on.
LEMMA PresentedGroups ==
  ASSUME NEW s \in Desks, Grouped(s), Gathered(s), Seen(s), NEW plan, Plans(s, plan),
         NEW u, Presenting(s, u, plan, Len(s.groups))
  PROVE  /\ Plans(u, plan) /\ Grouped(u) /\ Gathered(u) /\ Seen(u)
         /\ \A i \in DOMAIN u.groups : \A v \in Views : In(u, v, i) =>
              IF plan[i].attach THEN u.view[v].output = NONE
              ELSE u.view[v].output \in s.on \cup {NONE}
                   /\ (u.view[v].output = NONE => s.on = {})
<1>1. /\ u \in Desks /\ SameRooms(s, u) /\ SameTags(s, u) /\ u.groups = s.groups
      /\ \A v \in Views :
           /\ u.view[v].kind = s.view[v].kind
           /\ s.view[v].kind = "none" => u.view[v] = s.view[v]
           /\ s.view[v].kind = "tag" => u.view[v].output = s.view[v].output
                                        /\ u.view[v].tag = s.view[v].tag
      /\ \A i \in DOMAIN s.groups : \A v \in Views :
           In(s, v, i) => IF i <= Len(s.groups) /\ ~plan[i].attach
                          THEN /\ u.view[v].output = plan[i].output
                               /\ u.view[v].shown <=> plan[i].output # NONE
                          ELSE u.view[v] = s.view[v]
  BY DEF Presenting
<1>2. \A i \in DOMAIN s.groups : i <= Len(s.groups)
  BY DeskFields
<1>3. \A i \in DOMAIN s.groups : \A v \in Views : In(s, v, i) =>
        IF plan[i].attach THEN u.view[v] = s.view[v]
        ELSE /\ u.view[v].output = plan[i].output
             /\ u.view[v].shown <=> plan[i].output # NONE
  BY <1>1, <1>2
<1>4. \A v, k : In(u, v, k) <=> In(s, v, k)
  BY <1>1 DEF In
<1>5. Plans(u, plan)
  BY <1>1 DEF Plans, SameRooms, SameTags
<1>6. Grouped(u)
  BY <1>1, <1>4 DEF Grouped
<1>7. Gathered(u)
  <2> SUFFICES ASSUME NEW k \in DOMAIN s.groups
               PROVE  \A x, y \in Views :
                        /\ In(s, x, k) /\ In(s, y, k) => u.view[x].output = u.view[y].output
                        /\ In(s, y, k) /\ s.groups[k].pending => u.view[y].output = NONE
    BY <1>1, <1>4 DEF Gathered
  <2>1. CASE plan[k].attach
    BY <1>3, <2>1 DEF Gathered
  <2>2. CASE ~plan[k].attach
    <3>1. s.groups[k].pending => plan[k].output = NONE
      BY <2>2 DEF Plans
    <3> QED
      BY <1>3, <2>2, <3>1
  <2> QED
    BY <2>1, <2>2
<1>8. Seen(u)
  <2> SUFFICES ASSUME NEW v \in Views
               PROVE  /\ u.view[v].kind = "none" => ~u.view[v].shown
                      /\ u.view[v].kind = "tag" => u.view[v].output \in Outputs
                                                   /\ u.view[v].tag \in Tags
                      /\ u.view[v].kind = "sticky" =>
                           (u.view[v].shown <=> u.view[v].output # NONE)
    BY DEF Seen
  <2>1. CASE u.view[v].kind = "sticky"
    <3>1. PICK i \in DOMAIN s.groups : In(s, v, i)
      BY <1>1, <2>1 DEF Grouped
    <3> QED
      BY <1>1, <1>3, <2>1, <3>1 DEF Seen
  <2>2. CASE u.view[v].kind # "sticky"
    BY <1>1, <2>2 DEF Seen
  <2> QED
    BY <2>1, <2>2
<1>9. ASSUME NEW i \in DOMAIN u.groups, NEW v \in Views, In(u, v, i)
      PROVE  IF plan[i].attach THEN u.view[v].output = NONE
             ELSE u.view[v].output \in s.on \cup {NONE}
                  /\ (u.view[v].output = NONE => s.on = {})
  <2>1. CASE plan[i].attach
    <3>1. s.groups[i].pending
      BY <1>1, <1>9, <2>1 DEF Plans
    <3> QED
      BY <1>1, <1>3, <1>4, <1>9, <2>1, <3>1 DEF Gathered
  <2>2. CASE ~plan[i].attach
    <3>1. plan[i].output \in s.on \cup {NONE} /\ (plan[i].output = NONE => s.on = {})
      BY <1>1, <1>9 DEF Plans
    <3> QED
      BY <1>1, <1>3, <1>4, <1>9, <2>2, <3>1
  <2> QED
    BY <2>1, <2>2
<1> QED
  BY <1>5, <1>6, <1>7, <1>8, <1>9

LEMMA CommitIs ==
  ASSUME NEW s \in Desks, Grouped(s), Gathered(s), Seen(s), Keyed(s), Prepares(s),
         NEW plan, Plans(s, plan), NEW u \in CommitOutputs(s, plan)
  PROVE  Committed(s, u)
<1> DEFINE N == Len(s.groups)
<1>1. PICK p \in Presented(s, plan) : u = Attached(p, plan)
  BY DEF CommitOutputs
<1>2. Presenting(s, p, plan, N)
  BY <1>1, PresentedIs
<1>3. /\ p \in Desks /\ SameRooms(s, p) /\ p.groups = s.groups /\ Keyed(p)
      /\ p.fo \in {s.fo} \cup s.on /\ Stray(s, p)
  BY <1>2 DEF Presenting
<1>4. /\ Plans(p, plan) /\ Grouped(p) /\ Gathered(p) /\ Seen(p)
      /\ \A i \in DOMAIN p.groups : \A v \in Views : In(p, v, i) =>
           IF plan[i].attach THEN p.view[v].output = NONE
           ELSE p.view[v].output \in s.on \cup {NONE}
                /\ (p.view[v].output = NONE => s.on = {})
  BY <1>2, PresentedGroups
<1>20. Prepares(p)
  BY <1>3 DEF Prepares
<1>5. PICK x : Attaching(p, x, plan, Len(p.groups)) /\ Attached(p, plan) = Regrouped(x, p, plan)
  BY <1>3, <1>4, <1>20, AttachedIs
<1>6. \A i \in DOMAIN p.groups : Attached_(plan, i, Len(p.groups)) <=> plan[i].attach
  BY <1>3, DeskFields DEF Attached_
<1>7. /\ x \in Desks /\ SameRooms(p, x) /\ SameKeys(p, x) /\ x.groups = p.groups
      /\ \A v \in Views :
           IF \E i \in DOMAIN p.groups : plan[i].attach /\ In(p, v, i)
           THEN /\ x.view[v].kind = "tag" /\ x.view[v].output \in Outputs
                /\ x.view[v].tag \in Tags /\ x.view[v].shown
           ELSE x.view[v] = p.view[v]
  BY <1>5, <1>6 DEF Attaching
<1>8. Leaves(p, x, u, plan)
  BY <1>1, <1>3, <1>4, <1>5, <1>7, <1>20, RegroupedIs
<1>9. PICK h : Picks(p, u, h) /\ \A i \in DOMAIN p.groups :
                 ~plan[i].attach <=> \E m \in DOMAIN u.groups : h[m] = i
  BY <1>8 DEF Leaves
<1>10. u \in Desks /\ SameRooms(s, u) /\ SameKeys(p, u) /\ u.view = x.view
  BY <1>3, <1>7, <1>8 DEF Leaves, SameRooms, SameKeys
<1>11. \A i \in DOMAIN u.groups : h[i] \in DOMAIN p.groups /\ ~plan[h[i]].attach
  BY <1>9 DEF Picks
<1>12. \A i \in DOMAIN u.groups : \A v \in Views : In(p, v, h[i]) =>
         u.view[v] = p.view[v] /\ u.view[v].kind = "sticky"
  <2> SUFFICES ASSUME NEW i \in DOMAIN u.groups, NEW v \in Views, In(p, v, h[i])
               PROVE  u.view[v] = p.view[v] /\ u.view[v].kind = "sticky"
    OBVIOUS
  <2>1. p.view[v].kind = "sticky" /\ \A j \in DOMAIN p.groups : In(p, v, j) => j = h[i]
    BY <1>4, <1>11 DEF Grouped
  <2>2. ~\E j \in DOMAIN p.groups : plan[j].attach /\ In(p, v, j)
    BY <1>11, <2>1
  <2> QED
    BY <1>7, <1>10, <2>1, <2>2
<1>13. ASSUME NEW v \in Views, u.view[v].kind = "sticky"
       PROVE  u.view[v] = p.view[v] /\ \E i \in DOMAIN u.groups : In(p, v, h[i])
  <2>1. ~\E j \in DOMAIN p.groups : plan[j].attach /\ In(p, v, j)
    BY <1>7, <1>10, <1>13
  <2>2. u.view[v] = p.view[v]
    BY <1>7, <1>10, <2>1
  <2>3. PICK k \in DOMAIN p.groups : In(p, v, k)
    BY <1>4, <1>13, <2>2 DEF Grouped
  <2> QED
    BY <1>9, <2>1, <2>2, <2>3
<1>14. Grouped(u) /\ Gathered(u)
  BY <1>4, <1>9, <1>12, <1>13, PickedGroups
<1>15. Seen(u)
  BY <1>4, <1>7, <1>10 DEF Seen
<1>16. \A v \in Views : u.view[v].kind = "sticky" =>
         u.view[v].output \in s.on \cup {NONE} /\ (u.view[v].output = NONE => s.on = {})
  BY <1>4, <1>11, <1>13
<1>17. Keyed(u)
  <2>1. SUFFICES ASSUME u.focused # NONE
                 PROVE  /\ u.view[u.focused].shown
                        /\ u.view[u.focused].kind = "tag" => u.view[u.focused].output = u.fo
    BY DEF Keyed
  <2>2. u.focused = p.focused /\ u.fo = p.fo /\ p.focused \in Views
    BY <1>3, <1>10, <2>1, DeskFields DEF SameKeys
  <2>3. p.view[p.focused].shown
    BY <1>3, <2>1, <2>2 DEF Keyed
  <2>4. ~\E i \in DOMAIN p.groups : plan[i].attach /\ In(p, p.focused, i)
    <3>1. SUFFICES ASSUME NEW i \in DOMAIN p.groups, plan[i].attach, In(p, p.focused, i)
                   PROVE  FALSE
      OBVIOUS
    <3>2. p.view[p.focused].output = NONE /\ p.view[p.focused].kind = "sticky"
      BY <1>4, <2>2, <3>1 DEF Grouped
    <3> QED
      BY <1>4, <2>2, <2>3, <3>2 DEF Seen
  <2> QED
    BY <1>3, <1>7, <1>10, <2>1, <2>2, <2>4 DEF Keyed
<1>18. Stray(s, u)
  <2>1. Stray(p, u)
    <3>1. \A v \in Views : p.view[v].kind = "tag" => u.view[v].kind = "tag"
      BY <1>7, <1>10
    <3> QED
      BY <1>10, <3>1 DEF Stray, SameKeys
  <2>2. p.focused \in Views \cup {NONE}
    BY <1>3, DeskFields
  <2> QED
    BY <1>3, <2>1, <2>2, StrayChain
<1>19. u.fo \in {s.fo} \cup s.on
  BY <1>3, <1>10 DEF SameKeys
<1>21. Prepares(u)
  BY <1>9, <1>20 DEF Picks, Prepares
<1> QED
  BY <1>10, <1>14, <1>15, <1>16, <1>17, <1>18, <1>19, <1>21 DEF Committed

\* What a change of outputs that succeeds comes to.
Caught(s, u, on) ==
  /\ Sound(u) /\ Stray(s, u) /\ Prepares(u) /\ u.on = on /\ ~u.failed
  /\ u.list = s.list /\ u.power = s.power /\ u.panel = s.panel

\* The focused output and the areas after the groups were moved.
HandsOver(u, a, on) ==
  /\ a \in Desks /\ SameRooms(u, a) /\ a.groups = u.groups /\ a.focused = u.focused
  /\ a.fo = (IF u.fo \in on THEN u.fo ELSE IF on = {} THEN NONE ELSE a.fo)
  /\ a.fo = NONE => on = {}
  /\ a.fo # NONE => a.fo \in on
  /\ \A v \in Views :
       /\ a.view[v].kind = u.view[v].kind /\ a.view[v].output = u.view[v].output
       /\ a.view[v].tag = u.view[v].tag /\ a.view[v].shown = u.view[v].shown
       /\ u.view[v].kind = "sticky" /\ u.view[v].output \in on =>
            a.view[v].anchor = Area(u, u.view[v].output)

LEMMA HandoverIs ==
  ASSUME NEW u \in Desks, Grouped(u), Gathered(u), NEW on, on \subseteq Elements(u.list)
  PROVE  HandsOver(u, Handover(u, on), on)
<1> DEFINE first == Selected(u.list, on)
           f == IF u.fo \in on THEN u
                ELSE [u EXCEPT !.fo = IF first = <<>> THEN NONE ELSE first[1]]
           a == FollowArea(f, on)
<1>1. u.list \in Seq(Outputs)
  BY DeskFields
<1>2. first # <<>> => first[1] \in on
  BY <1>1, SelectedFirst
<1>3. first = <<>> => on = {}
  <2>1. first = <<>> => Elements(u.list) \cap on = {}
    BY <1>1, SelectedNone
  <2> QED
    BY <2>1
<1>4. on \subseteq Outputs /\ NONE \notin on
  BY <1>1, StickyAssumption DEF Elements
<1> HIDE DEF first
<1>5. /\ f \in Desks /\ SameRooms(u, f) /\ SameTags(u, f) /\ f.groups = u.groups
      /\ f.focused = u.focused /\ f.view = u.view
      /\ f.fo = IF u.fo \in on THEN u.fo ELSE IF first = <<>> THEN NONE ELSE first[1]
  BY <1>2, <1>4 DEF Desks, SameRooms, SameTags
<1>6. Handover(u, on) = a
  BY DEF Handover, first
<1> HIDE DEF f
<1>7. Grouped(f) /\ Gathered(f)
  BY <1>5, GroupsKept
<1>8. Follows(f, a, on)
  BY <1>4, <1>5, <1>7, FollowAreaIs
<1> HIDE DEF a
<1>9. Area(f, NONE) = Area(u, NONE) /\ \A o : Area(f, o) = Area(u, o)
  BY <1>5 DEF Area, SameRooms
<1>10. HandsOver(u, a, on)
  <2>1. a.fo = f.fo /\ a.focused = f.focused /\ SameRooms(f, a) /\ a.groups = f.groups
    BY <1>8 DEF Follows, SameKeys
  <2>2. f.fo = NONE => on = {}
    BY <1>2, <1>3, <1>4, <1>5
  <2>3. f.fo # NONE => f.fo \in on
    BY <1>2, <1>5
  <2>4. f.fo = (IF u.fo \in on THEN u.fo ELSE IF on = {} THEN NONE ELSE f.fo)
    BY <1>2, <1>5
  <2>5. SameRooms(u, a)
    BY <1>5, <2>1 DEF SameRooms
  <2>6. \A v \in Views :
          /\ a.view[v].kind = u.view[v].kind /\ a.view[v].output = u.view[v].output
          /\ a.view[v].tag = u.view[v].tag /\ a.view[v].shown = u.view[v].shown
          /\ u.view[v].kind = "sticky" /\ u.view[v].output \in on =>
               a.view[v].anchor = Area(u, u.view[v].output)
    BY <1>5, <1>8, <1>9 DEF Follows
  <2>7. a \in Desks
    BY <1>8 DEF Follows
  <2> QED
    BY <1>5, <2>1, <2>2, <2>3, <2>4, <2>5, <2>6, <2>7 DEF HandsOver
<1> QED
  BY <1>6, <1>10

\* After the outputs of s changed to u and the groups were moved, everything
\* but the keyboard is as it must be.
LEMMA HandsOverSturdy ==
  ASSUME NEW s, ~s.dead, NEW u, Committed(s, u), NEW on, on = s.on,
         on \subseteq Elements(s.list), NEW a, HandsOver(u, a, on)
  PROVE  Sturdy(a) /\ Stray(s, a) /\ Prepares(a)
<1>1. /\ u \in Desks /\ SameRooms(s, u)
      /\ Grouped(u) /\ Gathered(u) /\ Seen(u) /\ Keyed(u) /\ Stray(s, u)
      /\ \A v \in Views : u.view[v].kind = "sticky" =>
           u.view[v].output \in on \cup {NONE} /\ (u.view[v].output = NONE => on = {})
  BY DEF Committed
<1>2. /\ a \in Desks /\ SameRooms(u, a) /\ a.groups = u.groups /\ a.focused = u.focused
      /\ a.fo = NONE => on = {}
      /\ a.fo # NONE => a.fo \in on
      /\ \A v \in Views :
           /\ a.view[v].kind = u.view[v].kind /\ a.view[v].output = u.view[v].output
           /\ a.view[v].tag = u.view[v].tag /\ a.view[v].shown = u.view[v].shown
           /\ u.view[v].kind = "sticky" /\ u.view[v].output \in on =>
                a.view[v].anchor = Area(u, u.view[v].output)
  BY DEF HandsOver
<1>3. a.on = on /\ a.list = s.list /\ ~a.dead /\ a.panel = u.panel
  BY <1>1, <1>2 DEF SameRooms
<1>4. Grouped(a) /\ Gathered(a)
  BY <1>1, <1>2, GroupsKept
<1>5. Seen(a)
  BY <1>1, <1>2 DEF Seen
<1>6. Anchored(a)
  BY <1>2, <1>3 DEF Anchored, Area
<1>7. Housed(a)
  BY <1>1, <1>2, <1>3 DEF Housed
<1>8. Lit(a)
  BY <1>2, <1>3 DEF Lit
<1>9. Excused(a)
  <2>1. \A k \in DOMAIN a.groups : \A v \in Views :
          In(a, v, k) => a.view[v].kind = "sticky"
    BY <1>4 DEF Grouped
  <2> QED
    BY <1>1, <1>2, <1>3, <2>1 DEF Excused
<1>10. Stray(s, a)
  <2>1. \A v \in Views : s.view[v].kind = "tag" => a.view[v].kind = "tag"
    BY <1>1, <1>2 DEF Stray
  <2>2. a.focused \in Views \cup {NONE}
    BY <1>2, DeskFields
  <2>3. u.focused \in {NONE, s.focused} \/ u.view[u.focused].kind = "tag"
    BY <1>1 DEF Stray
  <2>4. a.focused \in {NONE, s.focused} \/ a.view[a.focused].kind = "tag"
    BY <1>2, <2>2, <2>3
  <2> QED
    BY <2>1, <2>4 DEF Stray
<1>11. Prepares(a)
  BY <1>2 DEF Committed, Prepares
<1> QED
  BY <1>2, <1>3, <1>4, <1>5, <1>6, <1>7, <1>8, <1>9, <1>10, <1>11 DEF Sturdy

\* leme_output_reconcile
LEMMA ReconcileIs ==
  ASSUME NEW s, Core(s), ~s.failed, Prepares(s), NEW on, on \subseteq Elements(s.list),
         NEW plan, Plans([s EXCEPT !.on = on], plan), NEW r \in Reconcile(s, on, plan)
  PROVE  Caught(s, r, on)
<1> DEFINE z == [s EXCEPT !.on = on]
           after(a) == IF a.fo = s.fo THEN {a}
                       ELSE IF a.fo = NONE THEN {[a EXCEPT !.focused = NONE]}
                       ELSE Refresh(a, a.fo)
<1>1. s \in Desks /\ ~s.dead /\ Grouped(s) /\ Gathered(s) /\ Seen(s) /\ Keyed(s)
  BY DEF Core
<1>2. on \subseteq Outputs
  BY <1>1, DeskFields DEF Elements
<1>3. /\ z \in Desks /\ z.on = on /\ z.list = s.list /\ z.power = s.power /\ z.panel = s.panel
      /\ z.groups = s.groups /\ z.view = s.view /\ z.fo = s.fo /\ z.focused = s.focused
      /\ ~z.dead /\ ~z.failed
  BY <1>1, <1>2 DEF Desks
<1>4. PICK u \in CommitOutputs(z, plan) : r \in after(Handover(u, on))
  BY DEF Reconcile
<1> HIDE DEF z
<1>5. Grouped(z) /\ Gathered(z) /\ Seen(z) /\ Keyed(z) /\ Prepares(z)
  <2>1. Grouped(z) /\ Gathered(z)
    BY <1>1, <1>3, GroupsKept
  <2> QED
    BY <1>1, <1>3, <2>1 DEF Seen, Keyed, Prepares
<1>6. Committed(z, u)
  BY <1>3, <1>4, <1>5, CommitIs DEF z
<1> DEFINE a == Handover(u, on)
<1>7. /\ u \in Desks /\ SameRooms(z, u) /\ u.fo \in {s.fo} \cup on
      /\ Grouped(u) /\ Gathered(u) /\ Keyed(u)
  BY <1>3, <1>6 DEF Committed
<1>8. HandsOver(u, a, on)
  <2>1. u.list = s.list
    BY <1>3, <1>7 DEF SameRooms
  <2> QED
    BY <1>7, <2>1, HandoverIs
<1>9. r \in after(a)
  BY <1>4
<1> HIDE DEF a
<1>10. Sturdy(a) /\ Stray(z, a) /\ Prepares(a)
  BY <1>3, <1>6, <1>8, HandsOverSturdy
<1>11. /\ a \in Desks /\ SameRooms(u, a) /\ a.focused = u.focused
       /\ a.fo = (IF u.fo \in on THEN u.fo ELSE IF on = {} THEN NONE ELSE a.fo)
       /\ a.fo = NONE => on = {}
       /\ a.fo # NONE => a.fo \in on
       /\ \A v \in Views :
            /\ a.view[v].kind = u.view[v].kind /\ a.view[v].output = u.view[v].output
            /\ a.view[v].shown = u.view[v].shown
  BY <1>8 DEF HandsOver
<1>12. Stray(s, a)
  BY <1>3, <1>10 DEF Stray
<1>13. SameRooms(z, a)
  BY <1>7, <1>11 DEF SameRooms
<1>14. ASSUME Sturdy(r), Keyed(r), SameRooms(a, r), r.groups = a.groups,
              \A v \in Views : r.view[v].kind = a.view[v].kind,
              r.focused \in {NONE, a.focused} \/ r.view[r.focused].kind = "tag"
       PROVE  Caught(s, r, on)
  <2>1. Sound(r)
    BY <1>14, SturdyKeyed
  <2>2. Stray(a, r)
    BY <1>14 DEF Stray
  <2>3. a.focused \in Views \cup {NONE}
    BY <1>11, DeskFields
  <2>4. Stray(s, r)
    BY <1>12, <2>2, <2>3, StrayChain
  <2>5. Prepares(r)
    BY <1>10, <1>14 DEF Prepares
  <2> QED
    BY <1>3, <1>13, <1>14, <2>1, <2>4, <2>5 DEF Caught, SameRooms
<1>15. CASE a.fo = s.fo
  <2>1. r = a
    BY <1>9, <1>15
  <2>2. a.fo = u.fo
    BY <1>7, <1>11, <1>15
  <2>3. Keyed(a)
    <3>1. a.focused \in Views \cup {NONE}
      BY <1>11, DeskFields
    <3> QED
      BY <1>7, <1>11, <2>2, <3>1 DEF Keyed
  <2>4. SameRooms(a, a)
    BY DEF SameRooms
  <2> QED
    BY <1>10, <1>14, <2>1, <2>3, <2>4
<1>16. CASE a.fo # s.fo /\ a.fo = NONE
  <2> DEFINE n == [a EXCEPT !.focused = NONE]
  <2>1. r = n
    BY <1>9, <1>16
  <2>2. TagsOnly(a, n) /\ Sturdy(n) /\ n.focused = NONE /\ n.view = a.view
    BY <1>10, FocusedIs
  <2> HIDE DEF n
  <2>3. Keyed(n)
    BY <2>2 DEF Keyed
  <2> QED
    BY <1>14, <2>1, <2>2, <2>3 DEF TagsOnly
<1>17. CASE a.fo # s.fo /\ a.fo # NONE
  <2>1. r \in Refresh(a, a.fo) /\ a.fo \in Outputs
    BY <1>2, <1>9, <1>11, <1>17
  <2>2. Sturdy(r) /\ Keyed(r) /\ Refreshes(a, r, a.fo)
    BY <1>10, <2>1, RefreshKeeps
  <2>3. TagsOnly(a, r)
        /\ (IF Showing(a, a.fo) = {} THEN r.focused = NONE ELSE r.focused \in Showing(a, a.fo))
    BY <2>2 DEF Refreshes
  <2>4. r.focused = NONE \/ r.view[r.focused].kind = "tag"
    <3>1. SUFFICES ASSUME r.focused \in Showing(a, a.fo) PROVE r.view[r.focused].kind = "tag"
      BY <2>3
    <3>2. r.focused \in Views
      BY <3>1, ShowingViews
    <3>3. a.view[r.focused].kind = "tag"
      BY <3>1, <3>2, ShowingIs
    <3> QED
      BY <2>3, <3>2, <3>3 DEF TagsOnly
  <2> QED
    BY <1>14, <2>2, <2>3, <2>4 DEF TagsOnly
<1> QED
  BY <1>15, <1>16, <1>17

\* A state that is sound once a change of outputs failed.
Loose(s) ==
  /\ Core(s) /\ Anchored(s) /\ Housed(s) /\ s.on \subseteq Elements(s.list)
  /\ s.fo = NONE => s.on = {}
  /\ s.fo # NONE => s.fo \in Elements(s.list) /\ (s.fo \in s.on \/ s.on = {})

\* The change of outputs failed.
Loosened(s, u) ==
  /\ Loose(s) => Sound(u)
  /\ u \in Desks /\ u.failed /\ SameTags(s, u) /\ SameKeys(s, u)
  /\ u.list = s.list /\ u.on = s.on /\ u.power = s.power /\ u.panel = s.panel
  /\ u.view = s.view /\ u.groups = s.groups /\ u.dead = s.dead

LEMMA SoundLoose ==
  ASSUME NEW s, Sound(s)
  PROVE  Loose(s)
<1> QED
  BY DEF Sound, Loose, Lit

LEMMA LoosenedIs ==
  ASSUME NEW s \in Desks
  PROVE  Loosened(s, [s EXCEPT !.failed = TRUE])
<1> DEFINE u == [s EXCEPT !.failed = TRUE]
<1>1. /\ u \in Desks /\ u.failed /\ SameTags(s, u) /\ SameKeys(s, u)
      /\ u.list = s.list /\ u.on = s.on /\ u.power = s.power /\ u.panel = s.panel
      /\ u.view = s.view /\ u.groups = s.groups /\ u.dead = s.dead
  BY DEF Desks, SameTags, SameKeys
<1> HIDE DEF u
<1>2. ASSUME Loose(s) PROVE Sound(u)
  <2>1. Grouped(s) /\ Gathered(s) /\ Seen(s) /\ Keyed(s) /\ ~s.dead
    BY <1>2 DEF Loose, Core
  <2>2. Grouped(u) /\ Gathered(u)
    BY <1>1, <2>1, GroupsKept
  <2>3. Seen(u) /\ Keyed(u)
    BY <1>1, <2>1 DEF Seen, Keyed, SameKeys
  <2>4. Core(u)
    BY <1>1, <2>1, <2>2, <2>3 DEF Core
  <2>5. Anchored(u)
    BY <1>1, <1>2 DEF Loose, Anchored, Area
  <2>6. Housed(u)
    BY <1>1, <1>2 DEF Loose, Housed, SameKeys
  <2>7. Lit(u)
    BY <1>1, <1>2 DEF Loose, Lit, SameKeys
  <2>8. Excused(u)
    BY <1>1 DEF Excused
  <2> QED
    BY <2>4, <2>5, <2>6, <2>7, <2>8 DEF Sound
<1>3. Loosened(s, u)
  BY <1>1, <1>2 DEF Loosened
<1> QED
  BY <1>3 DEF u

\* leme_output_commit_and_reconcile
LEMMA ReconfiguredIs ==
  ASSUME NEW s, Core(s), NEW on, on \subseteq Elements(s.list), NEW fails \in BOOLEAN,
         NEW r \in Reconfigured(s, on, fails)
  PROVE  IF fails \/ ~Prepares(s) THEN Loosened(s, r) ELSE Caught(s, r, on)
<1>1. s \in Desks /\ Grouped(s)
  BY DEF Core
<1>3. CASE fails \/ ~Prepares(s)
  <2>1. r = [s EXCEPT !.failed = TRUE]
    BY <1>3 DEF Reconfigured
  <2> QED
    BY <1>1, <1>3, <2>1, LoosenedIs
<1>4. CASE ~(fails \/ ~Prepares(s))
  <2> DEFINE z == [s EXCEPT !.failed = FALSE]
             y == [z EXCEPT !.on = on]
  <2>1. r \in Reconcile(z, on, Plan(s, on))
    BY <1>4 DEF Reconfigured
  <2>2. /\ z \in Desks /\ ~z.failed /\ z.dead = s.dead /\ z.groups = s.groups /\ z.view = s.view
        /\ z.list = s.list /\ z.power = s.power /\ z.panel = s.panel
        /\ z.fo = s.fo /\ z.focused = s.focused /\ SameTags(s, z)
    BY <1>1 DEF Desks, SameTags
  <2> HIDE DEF z
  <2>3. y.groups = s.groups /\ y.on = on /\ SameTags(s, y)
    BY <2>2 DEF Desks, SameTags
  <2> HIDE DEF y
  <2>4. Plans(y, Plan(s, on))
    BY <1>1, <2>3, PlanIs
  <2>5. Grouped(z) /\ Gathered(z)
    BY <2>2, GroupsKept DEF Core
  <2>6. Core(z)
    BY <2>2, <2>5 DEF Core, Seen, Keyed
  <2>8. Prepares(z)
    BY <1>4, <2>2 DEF Prepares
  <2>7. Caught(z, r, on)
    BY <2>1, <2>2, <2>4, <2>6, <2>8, ReconcileIs DEF y
  <2> QED
    BY <1>4, <2>2, <2>7 DEF Caught, Stray
<1> QED
  BY <1>3, <1>4

\* leme_output_apply_config
LEMMA ApplyConfigIs ==
  ASSUME NEW s, Core(s), s.list # <<>>, NEW fails \in BOOLEAN, NEW r \in ApplyConfig(s, fails)
  PROVE  IF fails \/ ~Prepares(s) THEN Loosened(s, r)
         ELSE Caught(s, r, s.power \cap Elements(s.list))
<1>1. r \in Reconfigured(s, s.power \cap Elements(s.list), fails)
  BY DEF ApplyConfig
<1> QED
  BY <1>1, ReconfiguredIs

Changed(s, u) == Sound(u) /\ Stray(s, u) /\ (Empty(s) => Empty(u))

LEMMA EmptyIs ==
  ASSUME NEW s
  PROVE  Empty(s) <=> ~Prepares(s)
<1> QED
  BY DEF Empty, Prepares

LEMMA EmptyKept ==
  ASSUME NEW s, NEW u, u.groups = s.groups
  PROVE  (Empty(u) <=> Empty(s)) /\ (Prepares(u) <=> Prepares(s))
<1> QED
  BY DEF Empty, Prepares

LEMMA LoosenedChanged ==
  ASSUME NEW s, NEW u, Loose(s), Loosened(s, u)
  PROVE  Changed(s, u)
<1>1. Empty(u) <=> Empty(s)
  BY EmptyKept DEF Loosened
<1> QED
  BY <1>1 DEF Loosened, Changed, Stray, SameKeys

LEMMA PowerIs ==
  ASSUME NEW s, NEW u, Changed(s, u), NEW P, P \subseteq Outputs
  PROVE  Changed(s, [u EXCEPT !.power = P])
<1> DEFINE r == [u EXCEPT !.power = P]
<1>1. Core(u) /\ u \in Desks
  BY DEF Changed, Sound, Core
<1>2. /\ r \in Desks /\ r.list = u.list /\ r.on = u.on /\ r.panel = u.panel /\ r.dead = u.dead
      /\ r.failed = u.failed /\ r.fo = u.fo /\ r.focused = u.focused /\ r.view = u.view
      /\ r.groups = u.groups
  BY <1>1 DEF Desks
<1> HIDE DEF r
<1>3. Grouped(r) /\ Gathered(r)
  BY <1>1, <1>2, GroupsKept DEF Core
<1>4. Core(r)
  BY <1>1, <1>2, <1>3 DEF Core, Seen, Keyed
<1>5. Anchored(u) /\ Housed(u) /\ Lit(u) /\ Excused(u) /\ Stray(s, u)
  BY DEF Changed, Sound
<1>6. \A v, k : In(r, v, k) <=> In(u, v, k)
  BY <1>2 DEF In
<1>7. Anchored(r) /\ Housed(r) /\ Lit(r)
  BY <1>2, <1>5 DEF Anchored, Housed, Lit, Area
<1>8. Excused(r)
  BY <1>2, <1>5, <1>6 DEF Excused
<1>10. Empty(s) => Empty(r)
  BY <1>2, EmptyKept DEF Changed
<1>9. Changed(s, r)
  BY <1>2, <1>4, <1>5, <1>7, <1>8, <1>10 DEF Changed, Sound, Stray
<1> QED
  BY <1>9 DEF r

\* A step that changes the outputs.
Changes ==
  /\ Changed(w, w') /\ asked' \in [op : {"outputs"}, ok : BOOLEAN]
  /\ asked'.ok \/ Empty(w')
  /\ plugs' \in 0 .. MaxPlugs

LEMMA SetPowerGood ==
  ASSUME Sound(w), plugs \in 0 .. MaxPlugs, NEW o \in Outputs, NEW on \in BOOLEAN, SetPower(o, on)
  PROVE  Changes
<1> DEFINE enabled == IF on THEN w.on \cup {o} ELSE w.on \ {o}
<1>1. /\ o \in Elements(w.list) /\ plugs' = plugs
      /\ \E fails \in Failing : \E s \in Reconfigured(w, enabled, fails) :
           Become(IF s.on = enabled
                  THEN [s EXCEPT !.power = IF on THEN @ \cup {o} ELSE @ \ {o}] ELSE s,
                  "outputs", fails \/ s.on = enabled)
  BY DEF SetPower
<1> HIDE DEF enabled
<1>0. PICK fails \in Failing : \E s \in Reconfigured(w, enabled, fails) :
        Become(IF s.on = enabled
               THEN [s EXCEPT !.power = IF on THEN @ \cup {o} ELSE @ \ {o}] ELSE s,
               "outputs", fails \/ s.on = enabled)
  BY <1>1
<1>2. PICK s \in Reconfigured(w, enabled, fails) :
        Become(IF s.on = enabled
               THEN [s EXCEPT !.power = IF on THEN @ \cup {o} ELSE @ \ {o}] ELSE s,
               "outputs", fails \/ s.on = enabled)
  BY <1>0
<1>3. fails \in BOOLEAN
  BY DEF Failing
<1>4. Core(w) /\ w.on \subseteq Elements(w.list)
  BY DEF Sound, Lit
<1>5. enabled \subseteq Elements(w.list)
  BY <1>1, <1>4 DEF enabled
<1>6. IF fails \/ ~Prepares(w) THEN Loosened(w, s) ELSE Caught(w, s, enabled)
  BY <1>2, <1>3, <1>4, <1>5, ReconfiguredIs
<1>7. Changed(w, s) /\ (fails \/ s.on = enabled \/ Empty(s))
  <2>1. CASE fails \/ ~Prepares(w)
    BY <1>6, <2>1, SoundLoose, LoosenedChanged, EmptyIs DEF Changed
  <2>2. CASE ~(fails \/ ~Prepares(w))
    BY <1>6, <2>2, EmptyIs DEF Changed, Caught
  <2> QED
    BY <2>1, <2>2
<1>8. /\ w' = (IF s.on = enabled
               THEN [s EXCEPT !.power = IF on THEN @ \cup {o} ELSE @ \ {o}] ELSE s)
      /\ asked' = [op |-> "outputs", ok |-> fails \/ s.on = enabled]
  BY <1>2 DEF Become
<1> DEFINE P == IF on THEN s.power \cup {o} ELSE s.power \ {o}
<1>9. w' = IF s.on = enabled THEN [s EXCEPT !.power = P] ELSE s
  BY <1>8
<1>10. P \subseteq Outputs
  <2>1. s \in Desks
    BY <1>7 DEF Changed, Sound, Core
  <2> QED
    BY <2>1, DeskFields
<1> HIDE DEF P
<1>11. Changed(w, w')
  BY <1>7, <1>9, <1>10, PowerIs
<1>12. asked' \in [op : {"outputs"}, ok : BOOLEAN]
  BY <1>3, <1>8
<1>13. asked'.ok \/ Empty(w')
  <2>1. CASE fails \/ s.on = enabled
    BY <1>8, <2>1
  <2>2. CASE ~(fails \/ s.on = enabled)
    BY <1>7, <1>9, <2>2
  <2> QED
    BY <2>1, <2>2
<1> QED
  BY <1>1, <1>11, <1>12, <1>13 DEF Changes

-----------------------------------------------------------------------------
(* An output goes.                                                         *)

LEMMA WithoutFirst ==
  ASSUME NEW V, NEW q \in Seq(V), q # <<>>, NEW o, o \notin Elements(q)
  PROVE  Without(q, o) # <<>> /\ Without(q, o)[1] = q[1]
<1> DEFINE S == Elements(q) \ {o}
           r == Selected(q, S)
<1>1. Sifted(q, S, Len(q), r) /\ r \in Seq(V)
  BY SelectedOrder, SelectedElements
<1> HIDE DEF r
<1>2. PICK h \in [DOMAIN r -> 1 .. Len(q)] :
         /\ \A i \in DOMAIN r : r[i] = q[h[i]]
         /\ \A i, j \in DOMAIN r : i < j => h[i] < h[j]
         /\ \A m \in 1 .. Len(q) : q[m] \in S => \E i \in DOMAIN r : h[i] = m
  BY <1>1 DEF Sifted
<1>3. 1 \in 1 .. Len(q) /\ q[1] \in S
  BY DEF Elements
<1>4. PICK i \in DOMAIN r : h[i] = 1
  BY <1>2, <1>3
<1>5. i = 1
  <2>1. SUFFICES ASSUME i # 1 PROVE FALSE
    OBVIOUS
  <2>2. 1 \in DOMAIN r /\ 1 < i
    BY <1>1, <2>1
  <2>3. h[1] < 1 /\ h[1] \in 1 .. Len(q)
    BY <1>2, <1>4, <2>2
  <2> QED
    BY <2>3
<1>6. r # <<>> /\ r[1] = q[1]
  BY <1>1, <1>2, <1>4, <1>5
<1> QED
  BY <1>6 DEF r, Without

\* leme_output_surviving
Survives(s, o, x) ==
  /\ x \in (Elements(s.list) \ {o}) \cup {NONE}
  /\ x = NONE => Elements(s.list) \subseteq {o}
  /\ x \notin s.on => (Elements(s.list) \ {o}) \cap s.on = {}

LEMMA SurvivingIs ==
  ASSUME NEW s \in Desks, NEW o
  PROVE  Survives(s, o, Surviving(s, o))
<1> DEFINE others == Without(s.list, o)
           lit == Selected(others, s.on)
<1>1. s.list \in Seq(Outputs)
  BY DeskFields
<1>2. others \in Seq(Outputs) /\ Elements(others) = Elements(s.list) \ {o}
  BY <1>1, WithoutElements
<1>3. Surviving(s, o) = IF lit # <<>> THEN lit[1] ELSE IF others # <<>> THEN others[1] ELSE NONE
  BY DEF Surviving
<1> HIDE DEF others
<1>4. lit # <<>> => lit[1] \in Elements(others) \cap s.on
  BY <1>2, SelectedFirst
<1>5. lit = <<>> => Elements(others) \cap s.on = {}
  BY <1>2, SelectedNone
<1> HIDE DEF lit
<1>6. others # <<>> => others[1] \in Elements(others)
  BY <1>2 DEF Elements
<1>7. others = <<>> => Elements(others) = {}
  BY DEF Elements
<1> QED
  <2>1. NONE \notin Elements(others)
    BY <1>2, StickyAssumption DEF Elements
  <2>2. CASE lit # <<>>
    BY <1>2, <1>3, <1>4, <2>1, <2>2 DEF Survives
  <2>3. CASE lit = <<>>
    BY <1>2, <1>3, <1>5, <1>6, <1>7, <2>1, <2>3 DEF Survives
  <2> QED
    BY <2>2, <2>3

\* While no output is on, the one that takes over stays the same.
LEMMA SurvivingKept ==
  ASSUME NEW s \in Desks, NEW o, NEW u, u.list = Without(s.list, o), u.on = s.on \ {o},
         Surviving(s, o) # NONE, Surviving(s, o) \notin s.on
  PROVE  Surviving(u, o) = Surviving(s, o)
<1> DEFINE others == Without(s.list, o)
           lit == Selected(others, s.on)
           rest == Without(others, o)
           now == Selected(rest, u.on)
<1>1. s.list \in Seq(Outputs)
  BY DeskFields
<1>2. others \in Seq(Outputs) /\ Elements(others) = Elements(s.list) \ {o}
  BY <1>1, WithoutElements
<1>3. Surviving(s, o) = IF lit # <<>> THEN lit[1] ELSE IF others # <<>> THEN others[1] ELSE NONE
  BY DEF Surviving
<1>4. Surviving(u, o) = IF now # <<>> THEN now[1] ELSE IF rest # <<>> THEN rest[1] ELSE NONE
  BY DEF Surviving
<1> HIDE DEF others
<1>5. rest \in Seq(Outputs) /\ Elements(rest) = Elements(others) \ {o}
  BY <1>2, WithoutElements
<1>6. lit # <<>> => lit[1] \in Elements(others) \cap s.on
  BY <1>2, SelectedFirst
<1>7. lit = <<>> => Elements(others) \cap s.on = {}
  BY <1>2, SelectedNone
<1>8. others # <<>> /\ Elements(others) \cap s.on = {} /\ Surviving(s, o) = others[1]
  BY <1>3, <1>6, <1>7
<1>9. rest # <<>> /\ rest[1] = others[1]
  BY <1>2, <1>8, WithoutFirst
<1> HIDE DEF rest
<1>10. now # <<>> => now[1] \in Elements(rest) \cap u.on
  BY <1>5, SelectedFirst
<1> HIDE DEF now
<1>11. now = <<>>
  BY <1>5, <1>8, <1>10
<1> QED
  BY <1>4, <1>8, <1>9, <1>11

\* The groups of the output o went to the output x, or wait.
Departs(s, d, o, x) ==
  /\ d \in Desks /\ SameRooms(s, d) /\ SameTags(s, d) /\ d.groups = s.groups /\ d.fo = s.fo
  /\ d.focused \in {s.focused, NONE}
  /\ Grouped(d) /\ Gathered(d) /\ Seen(d) /\ Keyed(d)
  /\ \A v \in Views :
       IF s.view[v].kind = "sticky" /\ s.view[v].output = o
       THEN /\ d.view[v].kind = "sticky" /\ d.view[v].output = x
            /\ x # NONE => d.view[v].anchor = Area(s, x)
       ELSE d.view[v] = s.view[v]

\* leme_sticky_handle_output_destroy
LEMMA OutputDestroyedIs ==
  ASSUME NEW s, Core(s), NEW o \in Outputs, NEW x \in Outputs \cup {NONE}
  PROVE  Departs(s, OutputDestroyed(s, o, x), o, x)
<1> DEFINE hit == {k \in DOMAIN s.groups : OutputOf(s, s.groups[k].root) = o}
           vs == UNION {Elements(s.groups[k].members) : k \in hit}
           p == IF x = NONE THEN Present(s, vs, NONE)
                ELSE Anchor(Present(s, vs, x), vs, Area(s, x))
           d == OutputDestroyed(s, o, x)
<1>1. s \in Desks /\ Grouped(s) /\ Gathered(s) /\ Seen(s) /\ Keyed(s)
  BY DEF Core
<1>2. o # NONE
  BY StickyAssumption
<1>3. Houses(s, p, vs, x, Area(s, x))
  <2>1. CASE x = NONE
    BY <1>1, <2>1, PresentHouses
  <2>2. CASE x # NONE
    BY <1>1, <2>2, AnchorHouses, AreaIn
  <2> QED
    BY <2>1, <2>2
<1>4. d = IF x = NONE /\ s.focused \in vs THEN [p EXCEPT !.focused = NONE] ELSE p
  BY DEF OutputDestroyed
<1>5. \A v \in Views : v \in vs <=> s.view[v].kind = "sticky" /\ s.view[v].output = o
  <2>1. ASSUME NEW k \in DOMAIN s.groups, NEW v \in Views, In(s, v, k)
        PROVE  k \in hit <=> s.view[v].output = o
    <3>1. CASE s.groups[k].pending
      <4>1. s.groups[k].root = NONE
        BY <1>1, <3>1 DEF Grouped, Linked
      <4> QED
        BY <1>1, <1>2, <2>1, <3>1, <4>1 DEF OutputOf, Gathered
    <3>2. CASE ~s.groups[k].pending
      <4>1. s.groups[k].root \in Views /\ In(s, s.groups[k].root, k)
        BY <1>1, <3>2, RootIs
      <4>2. s.groups[k].root # NONE
        BY <4>1, StickyAssumption
      <4>3. s.view[s.groups[k].root].output = s.view[v].output
        BY <1>1, <2>1, <4>1 DEF Gathered
      <4> QED
        BY <4>2, <4>3 DEF OutputOf
    <3> QED
      BY <3>1, <3>2
  <2>2. \A v \in Views : v \in vs <=> \E k \in hit : In(s, v, k)
    BY DEF In
  <2>3. hit \subseteq DOMAIN s.groups
    OBVIOUS
  <2> HIDE DEF hit, vs
  <2> QED
    BY <1>1, <2>1, <2>2, <2>3 DEF Grouped
<1> HIDE DEF p, vs, d
<1>6. /\ p \in Desks /\ SameRooms(s, p) /\ SameTags(s, p) /\ SameKeys(s, p)
      /\ p.groups = s.groups
      /\ \A v \in Views :
           IF s.view[v].kind = "sticky" /\ s.view[v].output = o
           THEN /\ p.view[v].kind = "sticky" /\ p.view[v].output = x
                /\ p.view[v].shown <=> x # NONE
                /\ x # NONE => p.view[v].anchor = Area(s, x)
           ELSE p.view[v] = s.view[v]
  BY <1>3, <1>5 DEF Houses
<1>7. /\ d \in Desks /\ SameRooms(s, d) /\ SameTags(s, d) /\ d.groups = s.groups /\ d.fo = s.fo
      /\ d.view = p.view
      /\ d.focused = IF x = NONE /\ s.focused \in vs THEN NONE ELSE s.focused
  BY <1>4, <1>6 DEF Desks, SameRooms, SameTags, SameKeys
<1>8. \A v, k : In(d, v, k) <=> In(s, v, k)
  BY <1>7 DEF In
<1>9. \A v \in Views : d.view[v].kind = s.view[v].kind
  BY <1>6, <1>7
<1>10. Grouped(d)
  BY <1>1, <1>7, <1>8, <1>9 DEF Grouped
<1>11. Gathered(d)
  <2> SUFFICES ASSUME NEW k \in DOMAIN s.groups, NEW y \in Views, NEW z \in Views
               PROVE  /\ In(s, y, k) /\ In(s, z, k) => d.view[y].output = d.view[z].output
                      /\ In(s, z, k) /\ s.groups[k].pending => d.view[z].output = NONE
    BY <1>7, <1>8 DEF Gathered
  <2>1. /\ In(s, y, k) /\ In(s, z, k) => s.view[y].output = s.view[z].output
        /\ In(s, z, k) /\ s.groups[k].pending => s.view[z].output = NONE
        /\ In(s, y, k) => s.view[y].kind = "sticky"
        /\ In(s, z, k) => s.view[z].kind = "sticky"
    BY <1>1 DEF Gathered, Grouped
  <2> QED
    BY <1>2, <1>6, <1>7, <2>1
<1>12. Seen(d)
  BY <1>1, <1>6, <1>7 DEF Seen
<1>13. Keyed(d)
  <2>1. SUFFICES ASSUME d.focused # NONE
                 PROVE  /\ d.view[d.focused].shown
                        /\ d.view[d.focused].kind = "tag" => d.view[d.focused].output = d.fo
    BY DEF Keyed
  <2>2. d.focused = s.focused /\ s.focused \in Views /\ ~(x = NONE /\ s.focused \in vs)
    BY <1>1, <1>7, <2>1, DeskFields
  <2> QED
    BY <1>1, <1>5, <1>6, <1>7, <2>1, <2>2 DEF Keyed
<1>14. Departs(s, d, o, x)
  BY <1>6, <1>7, <1>10, <1>11, <1>12, <1>13 DEF Departs
<1> QED
  BY <1>14 DEF d

\* The output o is off the list, x has its groups.
Retires(s, g, o, x) ==
  /\ Core(g) /\ Stray(s, g) /\ g.fo = s.fo /\ g.groups = s.groups
  /\ g.list = Without(s.list, o) /\ g.on = s.on \ {o} /\ g.power = s.power \ {o}
  /\ g.panel = s.panel \ {o}
  /\ \A v \in Views :
       IF s.view[v].kind = "sticky" /\ s.view[v].output = o
       THEN g.view[v].output = x /\ (x # NONE => g.view[v].anchor = Area(s, x))
       ELSE g.view[v] = s.view[v]

LEMMA RetiresIs ==
  ASSUME NEW s, Core(s), NEW o, NEW x, NEW d, Departs(s, d, o, x)
  PROVE  Retires(s, [d EXCEPT !.list = Without(@, o), !.on = @ \ {o}, !.power = @ \ {o},
                              !.panel = @ \ {o}], o, x)
<1> DEFINE g == [d EXCEPT !.list = Without(@, o), !.on = @ \ {o}, !.power = @ \ {o},
                          !.panel = @ \ {o}]
<1>1. /\ d \in Desks /\ SameRooms(s, d) /\ SameTags(s, d) /\ d.groups = s.groups /\ d.fo = s.fo
      /\ d.focused \in {s.focused, NONE}
      /\ Grouped(d) /\ Gathered(d) /\ Seen(d) /\ Keyed(d)
      /\ \A v \in Views :
           IF s.view[v].kind = "sticky" /\ s.view[v].output = o
           THEN /\ d.view[v].kind = "sticky" /\ d.view[v].output = x
                /\ x # NONE => d.view[v].anchor = Area(s, x)
           ELSE d.view[v] = s.view[v]
  BY DEF Departs
<1>2. d.list \in Seq(Outputs) /\ Without(d.list, o) \in Seq(Outputs)
  BY <1>1, DeskFields, WithoutElements
<1>3. /\ g \in Desks /\ g.list = Without(d.list, o) /\ g.on = d.on \ {o}
      /\ g.power = d.power \ {o} /\ g.panel = d.panel \ {o} /\ g.view = d.view
      /\ g.groups = d.groups /\ g.fo = d.fo /\ g.focused = d.focused /\ g.dead = d.dead
  BY <1>1, <1>2 DEF Desks
<1> HIDE DEF g
<1>4. Grouped(g) /\ Gathered(g)
  BY <1>1, <1>3, GroupsKept
<1>5. Core(g)
  BY <1>1, <1>3, <1>4 DEF Core, Seen, Keyed, SameRooms
<1>6. Stray(s, g)
  <2>1. \A v \in Views : s.view[v].kind = "tag" => g.view[v].kind = "tag"
    BY <1>1, <1>3
  <2> QED
    BY <1>1, <1>3, <2>1 DEF Stray
<1>7. Retires(s, g, o, x)
  BY <1>1, <1>3, <1>5, <1>6 DEF Retires, SameRooms
<1> QED
  BY <1>7 DEF g

\* The start of leme_output_handle_new
Adds(s, a, o) ==
  /\ Core(a) /\ Stray(s, a) /\ Elements(a.list) = Elements(s.list) \cup {o} /\ a.list # <<>>
  /\ a.on = s.on /\ a.fo = s.fo /\ a.focused = s.focused /\ a.panel = s.panel
  /\ a.power = s.power \cup {o} /\ a.view = s.view /\ a.groups = s.groups

LEMMA AddOutputIs ==
  ASSUME NEW s, Core(s), NEW o \in Outputs
  PROVE  Adds(s, AddOutput(s, o), o)
<1> DEFINE a == AddOutput(s, o)
           q == Append(s.list, o)
<1>1. s \in Desks /\ s.list \in Seq(Outputs)
  BY DeskFields DEF Core
<1>2. q \in Seq(Outputs) /\ q # <<>> /\ Elements(q) = Elements(s.list) \cup {o}
  <2>1. q \in Seq(Outputs) /\ Len(q) = Len(s.list) + 1 /\ q[Len(s.list) + 1] = o
        /\ \A i \in 1 .. Len(s.list) : q[i] = s.list[i]
    BY <1>1
  <2> HIDE DEF q
  <2>2. DOMAIN q = 1 .. Len(s.list) + 1 /\ DOMAIN s.list = 1 .. Len(s.list)
        /\ Len(s.list) \in Nat
    BY <1>1, <2>1
  <2>3. \A i \in DOMAIN q : i \in DOMAIN s.list \/ i = Len(s.list) + 1
    BY <2>2
  <2>4. \A i \in DOMAIN s.list : i \in DOMAIN q
    BY <2>2
  <2>5. Len(s.list) + 1 \in DOMAIN q
    BY <2>2
  <2> QED
    BY <2>1, <2>2, <2>3, <2>4, <2>5 DEF Elements
<1> HIDE DEF q
<1>3. 1 \in Tags
  BY StickyAssumption
<1>4. a = [s EXCEPT !.list = q, !.power = @ \cup {o}, !.current[o] = 1, !.table[o] = {1}]
  BY DEF AddOutput, q
<1> HIDE DEF a
<1>5. /\ a \in Desks /\ a.list = q /\ a.on = s.on /\ a.fo = s.fo /\ a.focused = s.focused
      /\ a.panel = s.panel /\ a.power = s.power \cup {o} /\ a.view = s.view
      /\ a.groups = s.groups /\ a.dead = s.dead
  BY <1>1, <1>2, <1>3, <1>4 DEF Desks
<1>6. Grouped(a) /\ Gathered(a)
  BY <1>5, GroupsKept DEF Core
<1>7. Core(a)
  BY <1>5, <1>6 DEF Core, Seen, Keyed
<1>8. Adds(s, a, o)
  BY <1>2, <1>5, <1>7 DEF Adds, Stray
<1> QED
  BY <1>8 DEF a

\* leme_output_migrate_views, and the focus of the output that goes.
Moved(u, o, y) ==
  LET m == Migrate(u, o, y) IN IF m.fo = o THEN [m EXCEPT !.fo = y] ELSE m
Moves(u, n, o, y) ==
  /\ Core(n) /\ SameRooms(u, n) /\ Stray(u, n) /\ n.fo = (IF u.fo = o THEN y ELSE u.fo)
  /\ n.groups = u.groups
  /\ \A v \in Views :
       /\ n.view[v].kind = u.view[v].kind
       /\ u.view[v].kind = "sticky" => n.view[v] = u.view[v]

LEMMA MovedIs ==
  ASSUME NEW u, Core(u), NEW o \in Outputs, NEW y \in Outputs
  PROVE  Moves(u, Moved(u, o, y), o, y)
<1> DEFINE moved == {v \in Views : u.view[v].kind = "tag" /\ u.view[v].output = o}
           f == [v \in Views |-> IF v \in moved THEN [u.view[v] EXCEPT !.output = y]
                                 ELSE u.view[v]]
           t == [u.table EXCEPT ![y] = u.table[y] \cup {u.view[v].tag : v \in moved}, ![o] = {}]
           n == Moved(u, o, y)
<1>1. u \in Desks /\ Grouped(u) /\ Gathered(u) /\ Seen(u) /\ Keyed(u)
  BY DEF Core
<1>2. u.view \in [Views -> Owned] /\ u.table \in [Outputs -> SUBSET Tags]
  BY <1>1, DeskFields
<1>3. f \in [Views -> Owned]
  <2>1. ASSUME NEW v \in Views
        PROVE  (IF v \in moved THEN [u.view[v] EXCEPT !.output = y] ELSE u.view[v]) \in Owned
    <3>1. u.view[v] \in Owned
      BY <1>2
    <3> HIDE DEF moved
    <3> QED
      BY <3>1 DEF Owned
  <2> QED
    BY <2>1
<1>4. t \in [Outputs -> SUBSET Tags]
  <2>1. {u.view[v].tag : v \in moved} \subseteq Tags
    BY <1>1 DEF Seen
  <2> QED
    BY <1>2, <2>1
<1>5. n = [u EXCEPT !.view = f, !.table = t, !.fo = IF u.fo = o THEN y ELSE u.fo]
  <2>1. Migrate(u, o, y) = [u EXCEPT !.view = f, !.table = t]
    BY DEF Migrate
  <2> HIDE DEF f, t
  <2>2. Migrate(u, o, y).fo = u.fo
    BY <1>1, <2>1 DEF Desks
  <2>3. CASE u.fo = o
    BY <1>1, <2>1, <2>2, <2>3 DEF Moved, Desks
  <2>4. CASE u.fo # o
    <3>1. n = [u EXCEPT !.view = f, !.table = t]
      BY <2>1, <2>2, <2>4 DEF Moved
    <3>2. [u EXCEPT !.view = f, !.table = t]
          = [u EXCEPT !.view = f, !.table = t, !.fo = u.fo]
      BY <1>1 DEF Desks
    <3> QED
      BY <2>4, <3>1, <3>2
  <2> QED
    BY <2>3, <2>4
<1>6. \A v \in Views : f[v] = IF u.view[v].kind = "tag" /\ u.view[v].output = o
                              THEN [u.view[v] EXCEPT !.output = y] ELSE u.view[v]
  OBVIOUS
<1> HIDE DEF n, f, t, moved
<1>7. /\ n \in Desks /\ SameRooms(u, n) /\ n.view = f /\ n.groups = u.groups
      /\ n.focused = u.focused /\ n.fo = IF u.fo = o THEN y ELSE u.fo
  BY <1>1, <1>3, <1>4, <1>5 DEF Desks, SameRooms
<1>8. \A v \in Views :
        /\ n.view[v].kind = u.view[v].kind /\ n.view[v].tag = u.view[v].tag
        /\ n.view[v].shown = u.view[v].shown
        /\ n.view[v].output = IF u.view[v].kind = "tag" /\ u.view[v].output = o THEN y
                              ELSE u.view[v].output
        /\ u.view[v].kind = "sticky" => n.view[v] = u.view[v]
  <2> SUFFICES ASSUME NEW v \in Views
               PROVE  /\ f[v].kind = u.view[v].kind /\ f[v].tag = u.view[v].tag
                      /\ f[v].shown = u.view[v].shown
                      /\ f[v].output = IF u.view[v].kind = "tag" /\ u.view[v].output = o THEN y
                                       ELSE u.view[v].output
                      /\ u.view[v].kind = "sticky" => f[v] = u.view[v]
    BY <1>7
  <2>1. CASE u.view[v].kind = "tag" /\ u.view[v].output = o
    <3>1. f[v] = [u.view[v] EXCEPT !.output = y] /\ u.view[v] \in Owned
      BY <1>2, <1>6, <2>1
    <3> QED
      BY <2>1, <3>1, OwnedEdits
  <2>2. CASE ~(u.view[v].kind = "tag" /\ u.view[v].output = o)
    BY <1>6, <2>2
  <2> QED
    BY <2>1, <2>2
<1>9. Grouped(n) /\ Gathered(n)
  BY <1>1, <1>7, <1>8, GroupsKept
<1>10. Seen(n)
  BY <1>1, <1>8 DEF Seen
<1>11. Keyed(n)
  <2>1. n.focused \in Views \cup {NONE}
    BY <1>7, DeskFields
  <2> QED
    BY <1>1, <1>7, <1>8, <2>1 DEF Keyed
<1>12. Core(n)
  BY <1>7, <1>9, <1>10, <1>11 DEF Core, SameRooms
<1>13. Stray(u, n)
  BY <1>7, <1>8 DEF Stray
<1>14. Moves(u, n, o, y)
  BY <1>7, <1>8, <1>12, <1>13 DEF Moves
<1> QED
  BY <1>14 DEF n

\* The parts of leme_output_handle_destroy.
LEMMA DestroyedParts ==
  ASSUME NEW s, Core(s), NEW o \in Outputs, NEW first \in BOOLEAN, NEW fails \in BOOLEAN,
         NEW r \in Destroyed(s, o, first, fails)
  PROVE  \E g : /\ Retires(s, g, o, Surviving(s, o))
               /\ \E u \in IF Surviving(s, o) # NONE THEN {g}
                           ELSE ApplyConfig(AddOutput(g, Fallback), first) :
                    r \in ApplyConfig(Moved(u, o, Surviving(u, o)), fails)
<1> DEFINE x == Surviving(s, o)
           d == OutputDestroyed(s, o, x)
           g == [d EXCEPT !.list = Without(@, o), !.on = @ \ {o}, !.power = @ \ {o},
                          !.panel = @ \ {o}]
           left == IF x # NONE THEN {g} ELSE ApplyConfig(AddOutput(g, Fallback), first)
<1>1. s \in Desks
  BY DEF Core
<1>2. x \in Outputs \cup {NONE}
  <2>1. Survives(s, o, x)
    BY <1>1, SurvivingIs
  <2>2. Elements(s.list) \subseteq Outputs
    BY <1>1, DeskFields DEF Elements
  <2> QED
    BY <2>1, <2>2 DEF Survives
<1>3. \E u \in left : r \in ApplyConfig(Moved(u, o, Surviving(u, o)), fails)
  BY DEF Destroyed, Moved
<1> HIDE DEF x
<1>4. Departs(s, d, o, x)
  BY <1>2, OutputDestroyedIs
<1> HIDE DEF d
<1>5. Retires(s, g, o, x)
  BY <1>4, RetiresIs
<1> HIDE DEF g
<1> QED
  BY <1>3, <1>5 DEF x

LEMMA CaughtChanged ==
  ASSUME NEW s, NEW n, NEW r, NEW on, Stray(s, n), n.focused \in Views \cup {NONE},
         Empty(s) => Empty(n), (Caught(n, r, on) /\ ~Empty(n)) \/ Changed(n, r)
  PROVE  Changed(s, r)
<1> QED
  BY StrayChain DEF Caught, Changed

\* Another output takes over.
LEMMA OthersLoose ==
  ASSUME NEW s, Sound(s), NEW o \in Outputs, NEW x, x = Surviving(s, o), x # NONE,
         NEW g, Retires(s, g, o, x), NEW y, y = Surviving(g, o), NEW n, Moves(g, n, o, y)
  PROVE  Loose(n) /\ Stray(s, n)
<1>1. Core(s) /\ s \in Desks /\ Anchored(s) /\ Housed(s) /\ Lit(s) /\ o # NONE
  BY StickyAssumption DEF Sound, Core
<1>2. /\ Core(g) /\ g \in Desks /\ Stray(s, g) /\ g.fo = s.fo
      /\ g.list = Without(s.list, o) /\ g.on = s.on \ {o} /\ g.panel = s.panel \ {o}
      /\ \A v \in Views :
           IF s.view[v].kind = "sticky" /\ s.view[v].output = o
           THEN g.view[v].output = x /\ (x # NONE => g.view[v].anchor = Area(s, x))
           ELSE g.view[v] = s.view[v]
  BY DEF Retires, Core
<1>3. /\ Core(n) /\ n \in Desks /\ SameRooms(g, n) /\ Stray(g, n)
      /\ n.fo = (IF s.fo = o THEN y ELSE s.fo)
      /\ \A v \in Views :
           /\ n.view[v].kind = g.view[v].kind
           /\ g.view[v].kind = "sticky" => n.view[v] = g.view[v]
  BY <1>2 DEF Moves, Core
<1>4. n.on = s.on \ {o} /\ n.list = Without(s.list, o) /\ n.panel = s.panel \ {o}
  BY <1>2, <1>3 DEF SameRooms
<1>5. Elements(n.list) = Elements(s.list) \ {o}
  BY <1>1, <1>4, DeskFields, WithoutElements
<1>6. /\ s.on \subseteq Elements(s.list)
      /\ s.fo = NONE => s.on = {}
      /\ s.fo # NONE => s.fo \in Elements(s.list) /\ (s.fo \in s.on \/ s.on = {})
  BY <1>1 DEF Lit
<1>7. /\ x \in Elements(s.list) \ {o}
      /\ x \notin s.on => (Elements(s.list) \ {o}) \cap s.on = {}
  BY <1>1, SurvivingIs DEF Survives
<1>8. /\ y \in Elements(s.list) \ {o}
      /\ y \notin n.on => n.on = {}
  <2>1. Survives(g, o, y)
    BY <1>2, SurvivingIs
  <2>2. Elements(g.list) = Elements(s.list) \ {o}
    BY <1>2, <1>4, <1>5
  <2>3. g.on = n.on /\ n.on \subseteq Elements(g.list) \ {o}
    BY <1>2, <1>4, <1>6, <2>2
  <2> QED
    BY <1>7, <2>1, <2>2, <2>3 DEF Survives
<1>9. x \notin s.on => y = x
  BY <1>1, <1>2, SurvivingKept
<1>10. NONE \notin Elements(s.list)
  BY <1>1, DeskFields, StickyAssumption DEF Elements
<1>11. \A v \in Views : n.view[v].kind = "sticky" =>
         /\ s.view[v].kind = "sticky"
         /\ IF s.view[v].output = o
            THEN n.view[v].output = x /\ n.view[v].anchor = Area(s, x)
            ELSE n.view[v] = s.view[v]
  <2> SUFFICES ASSUME NEW v \in Views, n.view[v].kind = "sticky"
               PROVE  /\ s.view[v].kind = "sticky"
                      /\ IF s.view[v].output = o
                         THEN n.view[v].output = x /\ n.view[v].anchor = Area(s, x)
                         ELSE n.view[v] = s.view[v]
    OBVIOUS
  <2>1. g.view[v].kind = "sticky" /\ n.view[v] = g.view[v]
    BY <1>3
  <2>2. CASE s.view[v].kind = "sticky"
    BY <1>2, <2>1, <2>2
  <2>3. CASE s.view[v].kind # "sticky"
    BY <1>2, <2>1, <2>3
  <2> QED
    BY <2>2, <2>3
<1>12. Anchored(n)
  <2>1. \A p : p # o => Area(n, p) = Area(s, p)
    BY <1>4 DEF Area
  <2>2. SUFFICES ASSUME NEW v \in Views, n.view[v].kind = "sticky", n.view[v].output \in n.on
                 PROVE  n.view[v].anchor = Area(n, n.view[v].output)
    BY DEF Anchored
  <2>3. n.view[v].output # o /\ n.view[v].output \in s.on
    BY <1>4, <2>2
  <2> QED
    BY <1>1, <1>11, <2>1, <2>2, <2>3 DEF Anchored
<1>13. Housed(n)
  <2> SUFFICES ASSUME NEW v \in Views, n.view[v].kind = "sticky"
               PROVE  n.view[v].output \in n.on \cup {n.fo, NONE}
    BY DEF Housed
  <2>1. s.view[v].kind = "sticky" /\ s.view[v].output \in s.on \cup {s.fo, NONE}
    BY <1>1, <1>11 DEF Housed
  <2>2. CASE s.view[v].output = o
    <3>1. n.view[v].output = x
      BY <1>11, <2>2
    <3>2. CASE x \in s.on
      BY <1>4, <1>7, <3>1, <3>2
    <3>3. CASE x \notin s.on
      <4>1. s.fo = o
        BY <1>1, <1>6, <1>7, <2>1, <2>2, <3>3
      <4> QED
        BY <1>3, <1>9, <3>1, <3>3, <4>1
    <3> QED
      BY <3>2, <3>3
  <2>3. CASE s.view[v].output # o
    BY <1>3, <1>4, <1>11, <2>1, <2>3
  <2> QED
    BY <2>2, <2>3
<1>14. n.on \subseteq Elements(n.list)
  BY <1>4, <1>5, <1>6
<1>15. n.fo = NONE => n.on = {}
  BY <1>3, <1>4, <1>6, <1>8, <1>10
<1>16. n.fo # NONE => n.fo \in Elements(n.list) /\ (n.fo \in n.on \/ n.on = {})
  BY <1>3, <1>4, <1>5, <1>6, <1>8
<1>17. Stray(s, n)
  <2>1. g.focused \in Views \cup {NONE}
    BY <1>2, DeskFields
  <2> QED
    BY <1>2, <1>3, <2>1, StrayChain
<1> QED
  BY <1>3, <1>12, <1>13, <1>14, <1>15, <1>16, <1>17 DEF Loose

LEMMA DestroyedOthers ==
  ASSUME NEW s, Sound(s), NEW o \in Outputs, NEW first \in BOOLEAN, NEW fails \in BOOLEAN,
         NEW r \in Destroyed(s, o, first, fails), Surviving(s, o) # NONE
  PROVE  /\ Changed(s, r)
         /\ ~fails /\ ~Empty(s) => r.on = (s.power \ {o}) \cap (Elements(s.list) \ {o})
         /\ fails => r.on = s.on \ {o}
<1>1. Core(s) /\ s \in Desks
  BY DEF Sound, Core
<1>2. PICK g : /\ Retires(s, g, o, Surviving(s, o))
              /\ r \in ApplyConfig(Moved(g, o, Surviving(g, o)), fails)
  BY <1>1, DestroyedParts
<1> DEFINE y == Surviving(g, o)
           n == Moved(g, o, y)
<1>3. Core(g) /\ g \in Desks /\ g.list = Without(s.list, o) /\ g.power = s.power \ {o}
  BY <1>2 DEF Retires, Core
<1>4. Elements(g.list) = Elements(s.list) \ {o} /\ Elements(g.list) \subseteq Outputs
  <2>1. s.list \in Seq(Outputs)
    BY <1>1, DeskFields
  <2>2. Elements(s.list) \subseteq Outputs
    BY <2>1 DEF Elements
  <2> QED
    BY <1>3, <2>1, <2>2, WithoutElements
<1>5. y \in Outputs
  <2>1. Survives(g, o, y) /\ Survives(s, o, Surviving(s, o))
    BY <1>1, <1>3, SurvivingIs
  <2> QED
    BY <1>4, <2>1 DEF Survives
<1>6. Moves(g, n, o, y)
  BY <1>3, <1>5, MovedIs
<1>7. r \in ApplyConfig(n, fails)
  BY <1>2
<1> HIDE DEF n
<1>8. Loose(n) /\ Stray(s, n)
  BY <1>2, <1>6, OthersLoose
<1>9. Core(n) /\ n \in Desks /\ n.list = g.list /\ n.power = g.power
  BY <1>6 DEF Moves, Core, SameRooms
<1>15. (Empty(n) <=> Empty(s)) /\ (Prepares(n) <=> ~Empty(n))
  BY <1>2, <1>6, EmptyKept, EmptyIs DEF Retires, Moves
<1>10. n.list # <<>>
  <2>1. Survives(s, o, Surviving(s, o))
    BY <1>1, SurvivingIs
  <2>2. Elements(n.list) # {}
    BY <1>4, <1>9, <2>1 DEF Survives
  <2> QED
    BY <2>2 DEF Elements
<1>11. IF fails \/ Empty(n) THEN Loosened(n, r) ELSE Caught(n, r, n.power \cap Elements(n.list))
  BY <1>7, <1>9, <1>10, <1>15, ApplyConfigIs
<1>12. n.focused \in Views \cup {NONE}
  BY <1>9, DeskFields
<1>13. Changed(s, r)
  BY <1>8, <1>11, <1>12, <1>15, CaughtChanged, LoosenedChanged
<1>14. /\ ~fails /\ ~Empty(s) => r.on = n.power \cap Elements(n.list)
       /\ fails => r.on = n.on
  BY <1>11, <1>15 DEF Caught, Loosened
<1>16. n.on = s.on \ {o}
  BY <1>2, <1>6 DEF Retires, Moves, SameRooms
<1> QED
  BY <1>3, <1>4, <1>9, <1>13, <1>14, <1>16

\* The last output went and the headless one takes over.
LEMMA LastLoose ==
  ASSUME NEW s, Sound(s), NEW o \in Outputs, o # Fallback, Elements(s.list) \subseteq {o},
         NEW g, Retires(s, g, o, NONE), NEW a, Adds(g, a, Fallback), NEW u, Loosened(a, u),
         NEW n, Moves(u, n, o, Fallback)
  PROVE  Loose(n)
<1>1. /\ s \in Desks /\ Housed(s) /\ s.on \subseteq {o} /\ s.fo \in {o, NONE}
  BY DEF Sound, Core, Lit
<1>2. /\ g.list = Without(s.list, o) /\ g.on = s.on \ {o} /\ g.fo = s.fo
      /\ \A v \in Views :
           IF s.view[v].kind = "sticky" /\ s.view[v].output = o
           THEN g.view[v].output = NONE ELSE g.view[v] = s.view[v]
  BY DEF Retires
<1>3. /\ Elements(a.list) = Elements(g.list) \cup {Fallback}
      /\ a.on = g.on /\ a.fo = g.fo /\ a.view = g.view
  BY DEF Adds
<1>4. u.list = a.list /\ u.on = a.on /\ u.fo = a.fo /\ u.view = a.view
  BY DEF Loosened, SameKeys
<1>5. /\ Core(n) /\ SameRooms(u, n) /\ n.fo = (IF u.fo = o THEN Fallback ELSE u.fo)
      /\ \A v \in Views :
           /\ n.view[v].kind = u.view[v].kind
           /\ u.view[v].kind = "sticky" => n.view[v] = u.view[v]
  BY DEF Moves
<1>6. n.on = {} /\ Fallback \in Elements(n.list)
  BY <1>1, <1>2, <1>3, <1>4, <1>5 DEF SameRooms
<1>7. n.fo \in {Fallback, NONE}
  BY <1>1, <1>2, <1>3, <1>4, <1>5
<1>8. Housed(n)
  <2> SUFFICES ASSUME NEW v \in Views, n.view[v].kind = "sticky"
               PROVE  n.view[v].output = NONE
    BY DEF Housed
  <2>1. n.view[v] = g.view[v] /\ g.view[v].kind = "sticky"
    BY <1>3, <1>4, <1>5
  <2>2. CASE s.view[v].kind = "sticky" /\ s.view[v].output = o
    BY <1>2, <2>1, <2>2
  <2>3. CASE ~(s.view[v].kind = "sticky" /\ s.view[v].output = o)
    <3>1. g.view[v] = s.view[v]
      BY <1>2, <2>3
    <3> QED
      BY <1>1, <2>1, <2>3, <3>1 DEF Housed
  <2> QED
    BY <2>2, <2>3
<1>9. Anchored(n)
  BY <1>6 DEF Anchored
<1> QED
  BY <1>5, <1>6, <1>7, <1>8, <1>9 DEF Loose

LEMMA LoosenedCore ==
  ASSUME NEW s, Core(s), NEW u, Loosened(s, u)
  PROVE  Core(u)
<1>1. /\ u \in Desks /\ SameKeys(s, u) /\ u.view = s.view /\ u.groups = s.groups
      /\ u.dead = s.dead
  BY DEF Loosened
<1>2. Grouped(u) /\ Gathered(u)
  BY <1>1, GroupsKept DEF Core
<1> QED
  BY <1>1, <1>2 DEF Core, Seen, Keyed, SameKeys

\* The headless output is on before the windows of the last one come to it.
LEMMA LastLit ==
  ASSUME NEW u, Sound(u), NEW o \in Outputs, o # Fallback, Elements(u.list) = {Fallback},
         NEW n, Moves(u, n, o, Fallback)
  PROVE  Loose(n)
<1>1. o # NONE
  BY StickyAssumption
<1>2. u.fo # o /\ Anchored(u) /\ Housed(u) /\ Lit(u)
  BY <1>1 DEF Sound, Lit
<1>3. /\ Core(n) /\ n.fo = u.fo /\ n.on = u.on /\ n.list = u.list /\ n.panel = u.panel
      /\ \A v \in Views :
           /\ n.view[v].kind = u.view[v].kind
           /\ u.view[v].kind = "sticky" => n.view[v] = u.view[v]
  BY <1>2 DEF Moves, SameRooms
<1>4. Anchored(n) /\ Housed(n)
  BY <1>2, <1>3 DEF Anchored, Housed, Area
<1> QED
  BY <1>2, <1>3, <1>4 DEF Loose, Lit

LEMMA DestroyedLast ==
  ASSUME NEW s, Sound(s), NEW o \in Outputs, o # Fallback, NEW first \in BOOLEAN,
         NEW fails \in BOOLEAN, NEW r \in Destroyed(s, o, first, fails), Surviving(s, o) = NONE
  PROVE  Changed(s, r) /\ Elements(s.list) \subseteq {o}
<1>1. Core(s) /\ s \in Desks
  BY DEF Sound, Core
<1>2. PICK g : /\ Retires(s, g, o, NONE)
              /\ \E u \in ApplyConfig(AddOutput(g, Fallback), first) :
                   r \in ApplyConfig(Moved(u, o, Surviving(u, o)), fails)
  BY <1>1, DestroyedParts
<1>3. PICK u \in ApplyConfig(AddOutput(g, Fallback), first) :
        r \in ApplyConfig(Moved(u, o, Surviving(u, o)), fails)
  BY <1>2
<1>4. Fallback \in Outputs
  BY StickyAssumption
<1>5. Elements(s.list) \subseteq {o}
  BY <1>1, SurvivingIs DEF Survives
<1>6. Core(g) /\ g \in Desks /\ g.list = Without(s.list, o) /\ Stray(s, g)
  BY <1>2 DEF Retires, Core
<1>7. Elements(g.list) = {}
  BY <1>1, <1>5, <1>6, DeskFields, WithoutElements
<1> DEFINE a == AddOutput(g, Fallback)
<1>8. Adds(g, a, Fallback)
  BY <1>4, <1>6, AddOutputIs
<1>9. u \in ApplyConfig(a, first)
  BY <1>3
<1> HIDE DEF a
<1>10. Core(a) /\ a \in Desks /\ a.list # <<>> /\ Elements(a.list) = {Fallback} /\ Stray(g, a)
  BY <1>7, <1>8 DEF Adds, Core
<1>11. IF first \/ Empty(a) THEN Loosened(a, u) ELSE Caught(a, u, a.power \cap Elements(a.list))
  BY <1>9, <1>10, ApplyConfigIs, EmptyIs
<1>12. Core(u) /\ u \in Desks /\ u.list = a.list /\ Stray(a, u)
  <2>1. CASE first \/ Empty(a)
    BY <1>10, <1>11, <2>1, LoosenedCore DEF Loosened, Core, Stray, SameKeys
  <2>2. CASE ~(first \/ Empty(a))
    BY <1>11, <2>2 DEF Caught, Sound, Core
  <2> QED
    BY <2>1, <2>2
<1> DEFINE y == Surviving(u, o)
           n == Moved(u, o, y)
<1>13. y = Fallback
  <2>1. Survives(u, o, y)
    BY <1>12, SurvivingIs
  <2> QED
    BY <1>10, <1>12, <2>1 DEF Survives
<1>14. Moves(u, n, o, Fallback)
  BY <1>4, <1>12, <1>13, MovedIs
<1>15. r \in ApplyConfig(n, fails)
  BY <1>3
<1> HIDE DEF n, y
<1>16. Core(n) /\ n \in Desks /\ Stray(u, n) /\ n.list # <<>>
  BY <1>10, <1>12, <1>14 DEF Moves, Core, SameRooms
<1>17. IF fails \/ Empty(n) THEN Loosened(n, r) ELSE Caught(n, r, n.power \cap Elements(n.list))
  BY <1>15, <1>16, ApplyConfigIs, EmptyIs
<1>22. (Empty(a) <=> Empty(s)) /\ (Empty(n) <=> Empty(u))
  BY <1>2, <1>8, <1>14, EmptyKept DEF Retires, Adds, Moves
<1>23. (Empty(a) => Empty(u)) /\ Loose(n)
  <2>1. CASE first \/ Empty(a)
    BY <1>2, <1>5, <1>8, <1>11, <1>14, <2>1, EmptyKept, LastLoose DEF Loosened
  <2>2. CASE ~(first \/ Empty(a))
    <3>1. Sound(u)
      BY <1>11, <2>2 DEF Caught
    <3> QED
      BY <1>10, <1>12, <1>14, <2>2, <3>1, LastLit
  <2> QED
    BY <2>1, <2>2
<1>19. Stray(s, n)
  <2>1. /\ g.focused \in Views \cup {NONE} /\ a.focused \in Views \cup {NONE}
        /\ u.focused \in Views \cup {NONE}
    BY <1>6, <1>10, <1>12, DeskFields
  <2>2. Stray(s, a)
    BY <1>6, <1>10, <2>1, StrayChain
  <2>3. Stray(s, u)
    BY <1>12, <2>1, <2>2, StrayChain
  <2> QED
    BY <1>16, <2>1, <2>3, StrayChain
<1>20. n.focused \in Views \cup {NONE}
  BY <1>16, DeskFields
<1>21. Changed(s, r)
  BY <1>17, <1>19, <1>20, <1>22, <1>23, CaughtChanged, LoosenedChanged
<1> QED
  BY <1>5, <1>21

\* leme_output_handle_destroy
LEMMA DestroyedIs ==
  ASSUME NEW s, Sound(s), NEW o \in Outputs, o # Fallback \/ ~(Elements(s.list) \subseteq {o}),
         NEW first \in BOOLEAN, NEW fails \in BOOLEAN, NEW r \in Destroyed(s, o, first, fails)
  PROVE  /\ Changed(s, r)
         /\ ~(Elements(s.list) \subseteq {o})
            => /\ ~fails /\ ~Empty(s) => r.on = (s.power \ {o}) \cap (Elements(s.list) \ {o})
               /\ fails => r.on = s.on \ {o}
<1>1. CASE Surviving(s, o) # NONE
  BY <1>1, DestroyedOthers
<1>2. CASE Surviving(s, o) = NONE
  <2>1. Elements(s.list) \subseteq {o}
    <3>1. s \in Desks
      BY DEF Sound, Core
    <3> QED
      BY <1>2, <3>1, SurvivingIs DEF Survives
  <2> QED
    BY <1>2, <2>1, DestroyedLast
<1> QED
  BY <1>1, <1>2

LEMMA UnplugGood ==
  ASSUME Sound(w), plugs \in 0 .. MaxPlugs, NEW o \in Outputs, Unplug(o)
  PROVE  Changes
<1>1. o # Fallback /\ plugs' = plugs
      /\ \E first, fails \in Failing : \E s \in Destroyed(w, o, first, fails) :
           Become(s, "outputs", TRUE)
  BY DEF Unplug
<1>2. PICK first \in Failing, fails \in Failing :
        \E s \in Destroyed(w, o, first, fails) : Become(s, "outputs", TRUE)
  BY <1>1
<1>3. PICK s \in Destroyed(w, o, first, fails) : Become(s, "outputs", TRUE)
  BY <1>2
<1>4. first \in BOOLEAN /\ fails \in BOOLEAN
  BY DEF Failing
<1>5. Changed(w, s)
  BY <1>1, <1>3, <1>4, DestroyedIs
<1> QED
  BY <1>1, <1>3, <1>5 DEF Changes, Become

LEMMA PlugGood ==
  ASSUME Sound(w), plugs \in 0 .. MaxPlugs, NEW o \in Outputs, Plug(o)
  PROVE  Changes
<1>1. /\ o \notin Elements(w.list) \cup {Fallback} /\ plugs < MaxPlugs /\ plugs' = plugs + 1
      /\ \E fails, late \in Failing : \E s \in ApplyConfig(AddOutput(w, o), fails) :
           \E u \in IF Fallback \in Elements(s.list) THEN Destroyed(s, Fallback, FALSE, late) ELSE {s} :
             Become(u, "outputs", fails \/ o \in u.on)
  BY DEF Plug
<1> DEFINE a == AddOutput(w, o)
<1>2. PICK fails \in Failing, late \in Failing : \E s \in ApplyConfig(a, fails) :
        \E u \in IF Fallback \in Elements(s.list) THEN Destroyed(s, Fallback, FALSE, late) ELSE {s} :
          Become(u, "outputs", fails \/ o \in u.on)
  BY <1>1
<1>3. PICK s \in ApplyConfig(a, fails) :
        \E u \in IF Fallback \in Elements(s.list) THEN Destroyed(s, Fallback, FALSE, late) ELSE {s} :
          Become(u, "outputs", fails \/ o \in u.on)
  BY <1>2
<1>4. PICK u \in IF Fallback \in Elements(s.list) THEN Destroyed(s, Fallback, FALSE, late) ELSE {s} :
        Become(u, "outputs", fails \/ o \in u.on)
  BY <1>3
<1>5. fails \in BOOLEAN /\ late \in BOOLEAN /\ Fallback \in Outputs
  BY StickyAssumption DEF Failing
<1>6. Core(w) /\ w \in Desks
  BY DEF Sound, Core
<1>7. Adds(w, a, o)
  BY <1>6, AddOutputIs
<1> HIDE DEF a
<1>8. /\ Core(a) /\ a \in Desks /\ Stray(w, a) /\ Elements(a.list) = Elements(w.list) \cup {o}
      /\ a.list # <<>> /\ a.on = w.on /\ a.fo = w.fo /\ a.panel = w.panel
      /\ a.power = w.power \cup {o} /\ a.view = w.view
  BY <1>7 DEF Adds, Core
<1>9. Loose(a)
  BY <1>8 DEF Loose, Sound, Anchored, Housed, Lit, Area
<1>16. Empty(a) <=> Empty(w)
  BY <1>7, EmptyKept DEF Adds
<1>10. IF fails \/ Empty(a) THEN Loosened(a, s) ELSE Caught(a, s, a.power \cap Elements(a.list))
  BY <1>3, <1>5, <1>8, ApplyConfigIs, EmptyIs
<1>11. /\ Changed(a, s) /\ s.list = a.list /\ s.power = a.power
       /\ ~fails /\ ~Empty(w) => s.on = a.power \cap Elements(a.list) /\ ~Empty(s)
  <2>1. CASE fails \/ Empty(a)
    BY <1>9, <1>10, <1>16, <2>1, LoosenedChanged DEF Loosened
  <2>2. CASE ~(fails \/ Empty(a))
    BY <1>10, <2>2, EmptyIs DEF Caught, Changed
  <2> QED
    BY <2>1, <2>2
<1>12. a.focused \in Views \cup {NONE}
  BY <1>8, DeskFields
<1>13. Changed(w, s) /\ Sound(s) /\ s \in Desks
  BY <1>8, <1>11, <1>12, <1>16, CaughtChanged DEF Changed, Sound, Core
<1>14. Changed(w, u) /\ (fails \/ o \in u.on \/ Empty(w))
  <2>1. CASE Fallback \in Elements(s.list)
    <3>1. u \in Destroyed(s, Fallback, FALSE, late)
      BY <1>4, <2>1
    <3>2. ~(Elements(s.list) \subseteq {Fallback})
      BY <1>1, <1>8, <1>11
    <3>3. /\ Changed(s, u)
          /\ ~late /\ ~Empty(s) => u.on = (s.power \ {Fallback}) \cap (Elements(s.list) \ {Fallback})
          /\ late => u.on = s.on \ {Fallback}
      BY <1>5, <1>13, <3>1, <3>2, DestroyedIs
    <3>4. s.focused \in Views \cup {NONE}
      BY <1>13, DeskFields
    <3>5. Changed(w, u)
      BY <1>13, <3>3, <3>4, CaughtChanged DEF Changed
    <3> QED
      BY <1>1, <1>8, <1>11, <3>3, <3>5
  <2>2. CASE Fallback \notin Elements(s.list)
    BY <1>4, <1>8, <1>11, <1>13, <2>2
  <2> QED
    BY <2>1, <2>2
<1>15. plugs' \in 0 .. MaxPlugs
  BY <1>1, StickyAssumption
<1>17. w' = u /\ asked' = [op |-> "outputs", ok |-> fails \/ o \in u.on]
  BY <1>4 DEF Become
<1>18. asked'.ok \/ Empty(w')
  BY <1>14, <1>17 DEF Changed
<1> QED
  BY <1>5, <1>14, <1>15, <1>17, <1>18 DEF Changes

-----------------------------------------------------------------------------
(* The invariant, and what it gives.                                       *)

LEMMA StepIs ==
  ASSUME Next
  PROVE  \/ \E v \in Views : Map(v)
         \/ \E v \in Views : Unmap(v)
         \/ \E v \in Views : FocusView(v)
         \/ \E p, v \in Views : MapDialog(p, v)
         \/ ToggleSticky
         \/ \E t \in Tags : FocusTag(t)
         \/ \E t \in Tags : \E follow \in BOOLEAN : MoveToTag(t, follow)
         \/ \E o \in Outputs : \E follow \in BOOLEAN : MoveToOutput(o, follow)
         \/ \E o \in Outputs : ArrangeLayers(o)
         \/ \E o \in Outputs : Plug(o)
         \/ \E o \in Outputs : Unplug(o)
         \/ \E o \in Outputs : \E on \in BOOLEAN : SetPower(o, on)
<1> QED
  BY ZenonT(60) DEF Next

\* A step either leaves the outputs alone, or is a change of outputs.
LEMMA StepSorts ==
  ASSUME Surprises = {}, IInv, Next
  PROVE  (Good(w, w') /\ Quiet) \/ Changes
<1>1. Sound(w) /\ plugs \in 0 .. MaxPlugs
  BY DEF IInv
<1>2. ASSUME NEW v \in Views, Map(v) PROVE Good(w, w') /\ Quiet
  BY <1>1, <1>2, MapGood
<1>3. ASSUME NEW v \in Views, Unmap(v) PROVE Good(w, w') /\ Quiet
  BY <1>1, <1>3, UnmapGood
<1>4. ASSUME NEW v \in Views, FocusView(v) PROVE Good(w, w') /\ Quiet
  BY <1>1, <1>4, FocusViewGood
<1>5. ASSUME NEW p \in Views, NEW v \in Views, MapDialog(p, v) PROVE Good(w, w') /\ Quiet
  BY <1>1, <1>5, MapDialogGood
<1>6. ASSUME ToggleSticky PROVE Good(w, w') /\ Quiet
  BY <1>1, <1>6, ToggleStickyGood
<1>7. ASSUME NEW t \in Tags, FocusTag(t) PROVE Good(w, w') /\ Quiet
  BY <1>1, <1>7, FocusTagGood
<1>8. ASSUME NEW t \in Tags, NEW follow \in BOOLEAN, MoveToTag(t, follow)
      PROVE  Good(w, w') /\ Quiet
  BY <1>1, <1>8, MoveToTagGood
<1>9. ASSUME NEW o \in Outputs, NEW follow \in BOOLEAN, MoveToOutput(o, follow)
      PROVE  Good(w, w') /\ Quiet
  BY <1>1, <1>9, MoveToOutputGood
<1>10. ASSUME NEW o \in Outputs, ArrangeLayers(o) PROVE Good(w, w') /\ Quiet
  BY <1>1, <1>10, ArrangeLayersGood
<1>11. ASSUME NEW o \in Outputs, Plug(o) PROVE Changes
  BY <1>1, <1>11, PlugGood
<1>12. ASSUME NEW o \in Outputs, Unplug(o) PROVE Changes
  BY <1>1, <1>12, UnplugGood
<1>13. ASSUME NEW o \in Outputs, NEW on \in BOOLEAN, SetPower(o, on) PROVE Changes
  BY <1>1, <1>13, SetPowerGood
<1> QED
  BY <1>2, <1>3, <1>4, <1>5, <1>6, <1>7, <1>8, <1>9, <1>10, <1>11, <1>12, <1>13, StepIs

LEMMA InitSound ==
  ASSUME Init
  PROVE  IInv
<1>1. PICK o \in Outputs \ {Fallback} :
        /\ w = [list |-> <<o>>, on |-> {o}, power |-> {o}, fo |-> o, panel |-> {},
                current |-> [p \in Outputs |-> 1],
                table |-> [p \in Outputs |-> IF p = o THEN {1} ELSE {}],
                view |-> [v \in Views |-> Gone], groups |-> <<>>, focused |-> NONE,
                dead |-> FALSE, failed |-> FALSE]
        /\ asked = [op |-> "other", ok |-> TRUE]
        /\ plugs = 1
  BY DEF Init
<1>2. /\ 1 \in Tags /\ <<o>> \in Seq(Outputs) /\ <<>> \in Seq(Groups) /\ Elements(<<o>>) = {o}
      /\ o # NONE /\ MaxPlugs \in Nat \ {0}
  BY StickyAssumption DEF Elements
<1>3. Gone \in Owned /\ Gone.kind = "none" /\ ~Gone.shown
  BY DEF Gone, Owned, NoArea
<1>4. [v \in Views |-> Gone] \in [Views -> Owned]
  BY <1>3
<1>5. w \in Desks
  BY <1>1, <1>2, <1>4 DEF Desks
<1>6. /\ w.list = <<o>> /\ w.on = {o} /\ w.fo = o /\ w.groups = <<>> /\ w.focused = NONE
      /\ ~w.dead /\ DOMAIN w.groups = {} /\ \A v \in Views : w.view[v] = Gone
  BY <1>1
<1>7. Grouped(w) /\ Gathered(w) /\ Seen(w) /\ Keyed(w)
  BY <1>3, <1>6 DEF Grouped, Gathered, Seen, Keyed
<1>8. Anchored(w) /\ Housed(w) /\ Lit(w) /\ Excused(w)
  BY <1>2, <1>3, <1>6 DEF Anchored, Housed, Lit, Excused
<1>9. Sound(w)
  BY <1>5, <1>6, <1>7, <1>8 DEF Sound, Core
<1>10. plugs \in 0 .. MaxPlugs
  BY <1>1, <1>2
<1> QED
  BY <1>1, <1>9, <1>10 DEF IInv

LEMMA StepSound ==
  ASSUME Surprises = {}, IInv, [Next]_vars
  PROVE  IInv'
<1>1. CASE Next
  <2>1. CASE Good(w, w') /\ Quiet
    BY <2>1 DEF IInv, Good, Quiet
  <2>2. CASE Changes
    BY <2>2 DEF IInv, Changes, Changed
  <2> QED
    BY <1>1, <2>1, <2>2, StepSorts
<1>2. CASE UNCHANGED vars
  BY <1>2 DEF IInv, vars
<1> QED
  BY <1>1, <1>2

LEMMA SoundRecords ==
  ASSUME IInv
  PROVE  StickySound
<1>1. /\ w \in Desks /\ ~w.dead /\ Grouped(w) /\ Gathered(w) /\ Seen(w) /\ Anchored(w) /\ Lit(w)
  BY DEF IInv, Sound, Core
<1>2. TypeOK
  <2>1. /\ w.list \in Seq(Outputs) /\ w.on \subseteq Elements(w.list) /\ w.power \subseteq Outputs
        /\ w.fo \in Elements(w.list) \cup {NONE}
        /\ w.current \in [Outputs -> Tags] /\ w.table \in [Outputs -> SUBSET Tags]
        /\ w.panel \subseteq Outputs
        /\ w.view \in [Views -> Owned] /\ w.focused \in Views \cup {NONE}
        /\ w.dead \in BOOLEAN /\ w.failed \in BOOLEAN
    BY <1>1, DeskFields DEF Lit
  <2>2. \A k \in DOMAIN w.groups :
          /\ w.groups[k].root \in Views \cup {NONE}
          /\ w.groups[k].members \in Seq(Views)
          /\ w.groups[k].parent \in [Views -> Views \cup {NONE}]
    BY <1>1, GroupFields
  <2>3. /\ plugs \in 0 .. MaxPlugs /\ asked.ok \in BOOLEAN
        /\ asked.op \in {"outputs", "other"}
    BY DEF IInv
  <2> QED
    BY <2>1, <2>2, <2>3 DEF TypeOK
<1>3. GroupsSound
  <2>1. \A v \in Views : w.view[v].kind = "sticky" <=> GroupOf(w, v) # 0
    BY <1>1, GroupOfSticky
  <2>2. \A j, k \in DOMAIN w.groups : j # k => MembersOf(j) \cap MembersOf(k) = {}
    <3>1. \A k \in DOMAIN w.groups : MembersOf(k) \subseteq Views
      BY <1>1, GroupFields DEF MembersOf
    <3> QED
      BY <1>1, <3>1 DEF Grouped, In, MembersOf
  <2>3. ASSUME NEW k \in DOMAIN w.groups
        PROVE  LET g == w.groups[k]
               IN /\ IsInjective(g.members) /\ (g.members = <<>> => g.pending)
                  /\ g.pending <=> g.root = NONE
                  /\ ~g.pending => g.members[1] = g.root /\ g.parent[g.root] = NONE
                  /\ \A i \in DOMAIN g.members :
                       LET p == g.parent[g.members[i]]
                       IN p = NONE \/ \E j \in 1..(i - 1) : g.members[j] = p
    <3> DEFINE g == w.groups[k]
    <3>1. Linked(g)
      BY <1>1, <2>3 DEF Grouped
    <3> HIDE DEF g
    <3>2. IsInjective(g.members)
      BY <3>1 DEF Linked, IsInjective
    <3>3. /\ g.members = <<>> => g.pending
          /\ g.pending <=> g.root = NONE
          /\ ~g.pending => g.members[1] = g.root /\ g.parent[g.root] = NONE
          /\ \A i \in DOMAIN g.members :
               LET p == g.parent[g.members[i]]
               IN p = NONE \/ \E j \in 1..(i - 1) : g.members[j] = p
      BY <3>1 DEF Linked
    <3> QED
      BY <3>2, <3>3 DEF g
  <2> QED
    BY <2>1, <2>2, <2>3 DEF GroupsSound
<1>4. DrawnAgrees
  BY <1>1 DEF Seen, DrawnAgrees
<1>5. AnchorsFresh
  BY <1>1 DEF Anchored, AnchorsFresh
<1> QED
  BY <1>2, <1>3, <1>4, <1>5 DEF StickySound

\* A window that is presented is on an output that is on, or a change failed.
LEMMA SoundHouse ==
  ASSUME NEW s, Sound(s), NEW v \in Views, s.view[v].kind = "sticky", s.view[v].output # NONE
  PROVE  s.failed \/ s.view[v].output \in s.on
<1> QED
  BY DEF Sound, Housed, Lit

LEMMA SoundOutputs ==
  ASSUME IInv
  PROVE  OutputsSound
<1>1. Sound(w) /\ Grouped(w) /\ Gathered(w) /\ Excused(w) /\ w \in Desks
  BY DEF IInv, Sound, Core
<1>2. ASSUME NEW k \in DOMAIN w.groups
      PROVE  /\ \A u, v \in MembersOf(k) : w.view[u].output = w.view[v].output
             /\ \A v \in MembersOf(k) :
                  IF w.view[v].output = NONE
                  THEN w.on = {} \/ w.failed \/ (w.groups[k].pending /\ "unmap" \in Faults)
                  ELSE w.failed \/ w.view[v].output \in w.on
  <2>1. \A v \in MembersOf(k) : v \in Views /\ In(w, v, k)
    BY <1>1, GroupFields DEF MembersOf, In
  <2>2. \A v \in MembersOf(k) : w.view[v].kind = "sticky"
    BY <1>1, <2>1 DEF Grouped
  <2>3. \A u, v \in MembersOf(k) : w.view[u].output = w.view[v].output
    BY <1>1, <2>1 DEF Gathered
  <2>4. \A v \in MembersOf(k) : w.view[v].output = NONE =>
          w.on = {} \/ w.failed \/ (w.groups[k].pending /\ "unmap" \in Faults)
    BY <1>1, <2>1 DEF Excused
  <2>5. \A v \in MembersOf(k) : w.view[v].output # NONE =>
          w.failed \/ w.view[v].output \in w.on
    BY <1>1, <2>1, <2>2, SoundHouse
  <2> QED
    BY <2>3, <2>4, <2>5
<1>3. GroupsTogether
  BY <1>2 DEF GroupsTogether
<1>4. WakeUnlessEmpty
  BY DEF IInv, Empty, WakeUnlessEmpty
<1> QED
  BY <1>3, <1>4 DEF OutputsSound

LEMMA SoundFocus ==
  ASSUME IInv
  PROVE  FocusReachable
<1>1. /\ Sound(w) /\ w \in Desks /\ Seen(w) /\ Keyed(w) /\ Lit(w)
  BY DEF IInv, Sound, Core
<1>2. SUFFICES ASSUME w.focused # NONE
               PROVE  /\ w.view[w.focused].shown
                      /\ w.failed \/ w.view[w.focused].output \in w.on
  BY DEF FocusReachable
<1>3. w.focused \in Views /\ w.view[w.focused].shown
  BY <1>1, <1>2, DeskFields DEF Keyed
<1>4. CASE w.view[w.focused].kind = "tag"
  <2>1. w.view[w.focused].output = w.fo /\ w.fo \in Outputs
    BY <1>1, <1>2, <1>3, <1>4 DEF Keyed, Seen
  <2>2. w.fo # NONE
    BY <2>1, StickyAssumption
  <2> QED
    BY <1>1, <1>3, <2>1, <2>2 DEF Lit
<1>5. CASE w.view[w.focused].kind = "sticky"
  <2>1. w.view[w.focused].output # NONE
    BY <1>1, <1>3, <1>5 DEF Seen
  <2> QED
    BY <1>1, <1>3, <1>5, <2>1, SoundHouse
<1>6. CASE w.view[w.focused].kind = "none"
  BY <1>1, <1>3, <1>6 DEF Seen
<1> QED
  BY <1>1, <1>3, <1>4, <1>5, <1>6, ViewFields

LEMMA StepStrays ==
  ASSUME Surprises = {}, IInv, [Next]_vars
  PROVE  [NoStolenFocus /\ SwitchesClean]_vars
<1>1. SUFFICES ASSUME Next PROVE NoStolenFocus /\ SwitchesClean
  OBVIOUS
<1>2. CASE Good(w, w') /\ Quiet
  <2>1. asked'.op = "other"
    BY <1>2 DEF Quiet
  <2>2. NoStolenFocus
    BY <2>1 DEF NoStolenFocus
  <2>3. SwitchesClean
    BY <1>2 DEF Good, Clean, SwitchesClean
  <2> QED
    BY <2>2, <2>3
<1>3. CASE Changes
  <2>1. asked'.op # "other"
    BY <1>3 DEF Changes
  <2>2. NoStolenFocus
    BY <1>3 DEF Changes, Changed, Stray, NoStolenFocus
  <2>3. SwitchesClean
    BY <2>1 DEF SwitchesClean
  <2> QED
    BY <2>2, <2>3
<1> QED
  BY <1>1, <1>2, <1>3, StepSorts

\* The invariant holds of every state of every session without surprises.
THEOREM Invariance ==
  ASSUME Surprises = {}
  PROVE  Spec => []IInv
<1>1. Init => IInv
  BY InitSound
<1>2. IInv /\ [Next]_vars => IInv'
  BY StepSound
<1> QED
  BY <1>1, <1>2, PTL DEF Spec

\* Whatever opens, closes, moves or changes outputs, every sticky window is in
\* one group, once, behind its parent; it is drawn exactly when its group is on
\* an output, and is anchored to the area of that output as it is now
\* (leme_sticky_commit_transient, _handle_unmap, _commit_outputs and
\* _handle_usable_area).
THEOREM StickyHolds ==
  ASSUME Surprises = {}
  PROVE  Spec => []StickySound
<1>1. IInv => StickySound
  BY SoundRecords
<1> QED
  BY <1>1, Invariance, PTL

\* A group stays together on an output that is on, and is suspended only while no
\* output is on, a change of outputs failed or its root closed and the move to a
\* tag failed; no group that has a window keeps an output from being woken or
\* plugged in (leme_sticky_prepare_outputs, _commit_outputs and
\* _handle_output_destroy).
THEOREM OutputsHold ==
  ASSUME Surprises = {}
  PROVE  Spec => []OutputsSound
<1>1. IInv => OutputsSound
  BY SoundOutputs
<1> QED
  BY <1>1, Invariance, PTL

\* The keyboard is never with a window that is suspended, not drawn or on an
\* output that is off (leme_sticky_hide_pending_group, leme_output_reconcile).
THEOREM FocusHolds ==
  ASSUME Surprises = {}
  PROVE  Spec => []FocusReachable
<1>1. IInv => FocusReachable
  BY SoundFocus
<1> QED
  BY <1>1, Invariance, PTL

\* No change of outputs hands the keyboard to a sticky window, and no change of tag
\* leaves windows of a hidden tag on the screen, those neither that a move to a
\* tag left drawn (leme_output_reconcile, leme_tags_refresh_visibility).
THEOREM NothingStrays ==
  ASSUME Surprises = {}
  PROVE  Spec => NothingStray
<1>1. IInv /\ [Next]_vars => [NoStolenFocus /\ SwitchesClean]_vars
  BY StepStrays
<1> QED
  BY <1>1, Invariance, PTL DEF Spec, NothingStray

=============================================================================
