-------------------------- MODULE ScratchpadProofs --------------------------
(***************************************************************************)
(* The scratchpads are sound for any number of windows, outputs, tags and  *)
(* names: the invariants of ScratchpadProperties and LockKeepsShown.       *)
(*                                                                         *)
(* The handlers derive Pads from Pads, so most of the inductive invariant  *)
(* is a predicate on a value p of Pads and on the world w it is in.  The   *)
(* lemmas say what each C function does to them; one lemma per action      *)
(* combines those.                                                         *)
(***************************************************************************)
EXTENDS ScratchpadProperties, DataProofs

-----------------------------------------------------------------------------
(* The inductive invariant                                                 *)

Owners == OwnerType(Keys, Outputs)

PadsType ==
  [owner : [Views -> Owners], fullscreen : SUBSET Views,
   claim : [Views -> Names \cup {NONE}], pool : Seq(Views),
   shown : Views \cup {NONE}, focusedView : Views \cup {NONE},
   history : Seq(Views)]

WorldType ==
  [plugged : SUBSET Outputs, enabled : SUBSET Outputs,
   powered : SUBSET Outputs, current : [Outputs -> TagIds],
   focusedOutput : Outputs \cup {NONE}, locked : BOOLEAN]

\* The pool lists the scratchpads, each once, and the one that is shown is
\* the one with an output.
PoolKept(p) ==
  /\ Elements(p.pool) = {v \in Views : IsPad(p, v)}
  /\ Distinct(p.pool)
  /\ \A v \in Views : IsPad(p, v) => (p.owner[v].output # NONE <=> v = p.shown)
  /\ p.shown # NONE => IsPad(p, p.shown)

\* A name is claimed once, by a scratchpad.
ClaimsKept(p) ==
  \A v \in Views : p.claim[v] # NONE =>
    IsPad(p, v) /\ \A u \in Views : p.claim[u] = p.claim[v] => u = v

PadsOK(p) == p \in PadsType /\ PoolKept(p) /\ ClaimsKept(p)

\* The shown scratchpad is on an output that can show it.
ShownValid(w, p) ==
  p.shown # NONE => OutputValid(w, p.owner[p.shown].output)

\* Outside the lock the keyboard is on a window that can be seen.
FocusKept(w, p) ==
  ~w.locked /\ p.focusedView # NONE => Eligible(p.owner[p.focusedView])

\* Who claims a name has the identity the definitions d give to it.
ClaimsMatch(d, ids, p) ==
  \A v \in Views : p.claim[v] # NONE => d[p.claim[v]] = ids[v]

\* The launches l wait for names that nobody claims, each name once, with the
\* identity of its definition and for an output that is there.
LaunchesKept(d, w, p, l) ==
  /\ l \in Seq(Requests)
  /\ Distinct(l)
  /\ \A r, t \in Elements(l) : r.name = t.name => r = t
  /\ \A r \in Elements(l) :
       /\ d[r.name] = r.identity
       /\ r.destination \in w.plugged \cup {NONE}
       /\ \A v \in Views : p.claim[v] # r.name

\* One name at most is defined for an identity.
DefinitionsOK(d) ==
  /\ d \in [Names -> Identities \cup {NONE}]
  /\ \A m, n \in Names : d[m] = d[n] /\ d[m] # NONE => m = n

WorldOK(w) == w \in WorldType /\ w.enabled \subseteq w.plugged

Sound(d, ids, w, p, l) ==
  /\ DefinitionsOK(d) /\ ids \in [Views -> Identities]
  /\ WorldOK(w)
  /\ PadsOK(p) /\ ShownValid(w, p) /\ FocusKept(w, p)
  /\ ClaimsMatch(d, ids, p) /\ LaunchesKept(d, w, p, l)

PadsInv ==
  /\ session \in Sessions
  /\ definition \in Definitions
  /\ Sound(definition, identity, World, Pads, pending)

-----------------------------------------------------------------------------
(* Owners                                                                  *)

\* leme_ownership_present_durable keeps the reason and gives a valid owner.
LEMMA PresentedOwner ==
  ASSUME NEW x \in Owners, x.kind = "durable", NEW o \in Outputs \cup {NONE}
  PROVE  /\ Presented(x, o) \in Owners
         /\ Presented(x, o).kind = "durable"
         /\ Presented(x, o).reason = x.reason
         /\ Presented(x, o).output = o
<1>1. PICK reason \in Reasons, output \in Outputs \cup {NONE} :
        x = DurableOwner(reason, output)
  BY DEF Owners, OwnerType, NoOwner, TagOwner
<1>2. Presented(x, o) = DurableOwner(reason, o)
  BY <1>1 DEF Presented, DurableOwner
<1>3. DurableOwner(reason, o) \in Owners
  BY DEF Owners, OwnerType
<1> QED
  BY <1>1, <1>2, <1>3 DEF DurableOwner

LEMMA NewOwners ==
  /\ NoOwner \in Owners /\ NoOwner.kind = "none" /\ NoOwner.output = NONE
  /\ \A key \in Keys : TagOwner(key) \in Owners /\ TagOwner(key).kind = "tag"
  /\ \A o \in Outputs \cup {NONE} :
       /\ DurableOwner(Scratch, o) \in Owners
       /\ IsDurable(DurableOwner(Scratch, o), Scratch)
       /\ DurableOwner(Scratch, o).kind = "durable"
       /\ DurableOwner(Scratch, o).output = o
<1>1. NoOwner \in Owners /\ NoOwner.kind = "none" /\ NoOwner.output = NONE
  BY DEF Owners, OwnerType, NoOwner
<1>2. \A key \in Keys : TagOwner(key) \in Owners
  BY DEF Owners, OwnerType
<1>3. \A key : TagOwner(key).kind = "tag"
  BY DEF TagOwner
<1>4. \A o \in Outputs \cup {NONE} : DurableOwner(Scratch, o) \in Owners
  BY DEF Owners, OwnerType, Reasons
<1>5. \A o : /\ IsDurable(DurableOwner(Scratch, o), Scratch)
             /\ DurableOwner(Scratch, o).kind = "durable"
             /\ DurableOwner(Scratch, o).output = o
  BY DEF DurableOwner, IsDurable
<1> QED
  BY <1>1, <1>2, <1>3, <1>4, <1>5

\* Where the window is told apart: a tag's has a key, a durable one an output.
LEMMA OwnerCases ==
  ASSUME NEW x \in Owners
  PROVE  /\ x.output \in Outputs \cup {NONE}
         /\ x.kind = "tag" => x.tag \in Keys /\ x = TagOwner(x.tag)
<1> QED
  BY DEF Owners, OwnerType, NoOwner, TagOwner, DurableOwner

-----------------------------------------------------------------------------
(* Lists                                                                   *)

\* leme_scratchpad_promote links the view once, in front.
LEMMA PromoteElements ==
  ASSUME NEW s \in Seq(Views), NEW v \in Views
  PROVE  /\ Promote(s, v) \in Seq(Views)
         /\ Elements(Promote(s, v)) = Elements(s) \cup {v}
         /\ Distinct(s) => Distinct(Promote(s, v))
<1> DEFINE r == Without(s, v)
<1>1. /\ r \in Seq(Views) /\ Elements(r) = Elements(s) \ {v}
      /\ Distinct(s) => Distinct(r)
  BY WithoutElements
<1> HIDE DEF r
<1>2. /\ <<v>> \o r \in Seq(Views) /\ Elements(<<v>> \o r) = Elements(r) \cup {v}
      /\ Distinct(r) /\ v \notin Elements(r) => Distinct(<<v>> \o r)
  BY <1>1, PushElements
<1>3. Promote(s, v) = <<v>> \o r
  BY DEF Promote, r
<1> QED
  BY <1>1, <1>2, <1>3

-----------------------------------------------------------------------------
(* Keyboard focus                                                          *)

\* Nothing but the focus and its history differ.
FocusOnly(p, q) ==
  /\ q \in PadsType
  /\ q.owner = p.owner /\ q.fullscreen = p.fullscreen /\ q.claim = p.claim
  /\ q.pool = p.pool /\ q.shown = p.shown

LEMMA FocusOnlyKeeps ==
  ASSUME NEW p, NEW q, PadsOK(p), FocusOnly(p, q)
  PROVE  /\ PadsOK(q)
         /\ \A w : ShownValid(w, p) => ShownValid(w, q)
<1>1. q \in PadsType /\ PoolKept(q)
  BY DEF FocusOnly, PadsOK, PoolKept, IsPad
<1>2. ClaimsKept(q)
  BY DEF FocusOnly, PadsOK, ClaimsKept, IsPad
<1>3. \A w : ShownValid(w, p) => ShownValid(w, q)
  BY DEF FocusOnly, ShownValid
<1> QED
  BY <1>1, <1>2, <1>3 DEF PadsOK

LEMMA FocusSound ==
  ASSUME NEW w, NEW p \in PadsType, NEW v \in Views
  PROVE  /\ FocusOnly(p, Focus(w, p, v))
         /\ FocusKept(w, p) => FocusKept(w, Focus(w, p, v))
         /\ Eligible(p.owner[v]) => FocusKept(w, Focus(w, p, v))
<1>1. CASE w.locked \/ ~Eligible(p.owner[v])
  BY <1>1 DEF Focus, FocusOnly, FocusKept
<1>2. CASE ~w.locked /\ Eligible(p.owner[v])
  <2> DEFINE h == IF p.owner[v].kind = "tag" THEN Promote(p.history, v)
                  ELSE p.history
             q == [p EXCEPT !.focusedView = v, !.history = h]
  <2>1. h \in Seq(Views)
    BY PromoteElements DEF PadsType
  <2>2. Focus(w, p, v) = q
    BY <1>2 DEF Focus
  <2> HIDE DEF h
  <2>3. FocusOnly(p, q)
    BY <2>1 DEF FocusOnly, PadsType
  <2>4. FocusKept(w, q)
    BY <1>2 DEF FocusKept, PadsType
  <2> QED
    BY <2>2, <2>3, <2>4
<1> QED
  BY <1>1, <1>2

LEMMA ClearFocusSound ==
  ASSUME NEW w, NEW p \in PadsType
  PROVE  FocusOnly(p, ClearFocus(p)) /\ FocusKept(w, ClearFocus(p))
<1> QED
  BY DEF ClearFocus, FocusOnly, FocusKept, PadsType

\* leme_tags_refresh_visibility of the focused output leaves the keyboard on a
\* window of the current tag or on none.
LEMMA RefreshSound ==
  ASSUME NEW w, NEW p \in PadsType, NEW o, NEW q \in Refresh(w, p, o)
  PROVE  /\ FocusOnly(p, q)
         /\ FocusKept(w, p) => FocusKept(w, q)
         /\ o # NONE /\ o = w.focusedOutput => FocusKept(w, q)
<1>1. CASE o = NONE \/ o # w.focusedOutput
  BY <1>1 DEF Refresh, FocusOnly
<1>2. CASE ~(o = NONE \/ o # w.focusedOutput) /\ Targets(w, p, o) = {}
  BY <1>2, ClearFocusSound DEF Refresh
<1>3. CASE ~(o = NONE \/ o # w.focusedOutput) /\ Targets(w, p, o) # {}
  <2>1. PICK v \in Targets(w, p, o) : q = Focus(w, p, v)
    BY <1>3 DEF Refresh
  <2>2. v \in Views /\ Eligible(p.owner[v])
    BY DEF Targets, CurrentMembers, Eligible
  <2> QED
    BY <2>1, <2>2, FocusSound
<1> QED
  BY <1>1, <1>2, <1>3

LEMMA RestoreKeyboardFocusSound ==
  ASSUME NEW w, NEW p \in PadsType, NEW q \in RestoreKeyboardFocus(w, p)
  PROVE  FocusOnly(p, q) /\ FocusKept(w, q)
<1>1. CASE w.locked
  BY <1>1 DEF RestoreKeyboardFocus, FocusOnly, FocusKept
<1>2. CASE ~w.locked /\ w.focusedOutput = NONE
  BY <1>2, ClearFocusSound DEF RestoreKeyboardFocus
<1>3. CASE ~w.locked /\ w.focusedOutput # NONE
  <2>1. q \in Refresh(w, p, w.focusedOutput)
    BY <1>3 DEF RestoreKeyboardFocus
  <2> QED
    BY <1>3, <2>1, RefreshSound
<1> QED
  BY <1>1, <1>2, <1>3

LEMMA RestoreTagFocusSound ==
  ASSUME NEW w, NEW p \in PadsType, NEW q \in RestoreTagFocus(w, p)
  PROVE  FocusOnly(p, q) /\ FocusKept(w, q)
<1>1. CASE w.focusedOutput = NONE
  BY <1>1, ClearFocusSound DEF RestoreTagFocus
<1>2. CASE w.focusedOutput # NONE
  <2> DEFINE targets == Targets(w, p, w.focusedOutput)
             recent == Selected(p.history, targets)
  <2>1. CASE recent # <<>> /\ targets \cap p.fullscreen = {}
    <3>1. q = Focus(w, p, recent[1])
      BY <1>2, <2>1 DEF RestoreTagFocus
    <3>2. recent[1] \in targets
      <4>1. p.history \in Seq(Views)
        BY DEF PadsType
      <4> HIDE DEF targets
      <4> QED
        BY <2>1, <4>1, SelectedFirst
    <3>3. recent[1] \in Views /\ Eligible(p.owner[recent[1]])
      <4> HIDE DEF recent
      <4> QED
        BY <3>2 DEF Targets, CurrentMembers, Eligible
    <3> QED
      BY <3>1, <3>3, FocusSound
  <2>2. CASE ~(recent # <<>> /\ targets \cap p.fullscreen = {})
    <3>1. q \in Refresh(w, p, w.focusedOutput)
      BY <1>2, <2>2 DEF RestoreTagFocus
    <3> QED
      BY <1>2, <3>1, RefreshSound
  <2> QED
    BY <2>1, <2>2
<1> QED
  BY <1>1, <1>2

LEMMA PointSound ==
  ASSUME NEW w, NEW p \in PadsType, NEW o, NEW q \in Point(w, p, o)
  PROVE  FocusOnly(p, q) /\ (FocusKept(w, p) => FocusKept(w, q))
<1>1. CASE q = p
  BY <1>1 DEF FocusOnly
<1>2. CASE q # p
  <2>1. PICK v \in Views : q = Focus(w, p, v)
    BY <1>2 DEF Point, Hit, CurrentMembers
  <2> QED
    BY <2>1, FocusSound
<1> QED
  BY <1>1, <1>2

-----------------------------------------------------------------------------
(* Hiding and showing                                                      *)

\* The same windows are scratchpads, with the same names, and the windows
\* other than those of A have the same owners.
Shuffled(p, q, A) ==
  /\ q.claim = p.claim
  /\ \A u \in Views : /\ q.owner[u].kind = p.owner[u].kind
                      /\ IsPad(q, u) <=> IsPad(p, u)
                      /\ u \notin A => q.owner[u] = p.owner[u]

LEMMA FocusOnlyShuffles ==
  ASSUME NEW p, NEW q, NEW r, NEW A, Shuffled(p, q, A), FocusOnly(q, r)
  PROVE  Shuffled(p, r, A)
<1> QED
  BY DEF Shuffled, FocusOnly, IsPad

\* leme_scratchpad_hide of the shown scratchpad.
LEMMA HideSound ==
  ASSUME NEW w, NEW p, PadsOK(p), NEW promote \in BOOLEAN,
         p.shown # NONE, NEW q \in Hide(w, p, p.shown, promote)
  PROVE  /\ PadsOK(q) /\ q.shown = NONE
         /\ Shuffled(p, q, {p.shown})
         /\ FocusKept(w, p) => FocusKept(w, q)
<1> DEFINE v == p.shown
           own == [p.owner EXCEPT ![v] = Presented(p.owner[v], NONE)]
           pl == IF promote THEN Promote(p.pool, v) ELSE p.pool
           hs == Without(p.history, v)
           h == [p EXCEPT !.shown = NONE, !.owner = own, !.pool = pl,
                          !.history = hs]
<1>1. /\ p \in PadsType /\ v \in Views /\ IsPad(p, v)
      /\ p.owner[v] \in Owners /\ p.owner[v].kind = "durable"
  BY DEF PadsOK, PoolKept, PadsType, IsPad, IsDurable
<1>2. /\ own \in [Views -> Owners]
      /\ \A u \in Views : u # v => own[u] = p.owner[u]
      /\ own[v].kind = "durable" /\ own[v].output = NONE
      /\ own[v].reason = p.owner[v].reason
  <2>1. /\ Presented(p.owner[v], NONE) \in Owners
        /\ Presented(p.owner[v], NONE).kind = "durable"
        /\ Presented(p.owner[v], NONE).reason = p.owner[v].reason
        /\ Presented(p.owner[v], NONE).output = NONE
    BY <1>1, PresentedOwner
  <2> QED
    BY <1>1, <2>1 DEF PadsType
<1>3. /\ pl \in Seq(Views) /\ Elements(pl) = Elements(p.pool) /\ Distinct(pl)
  <2>1. p.pool \in Seq(Views) /\ v \in Elements(p.pool) /\ Distinct(p.pool)
    BY <1>1 DEF PadsOK, PoolKept, PadsType
  <2>2. /\ Promote(p.pool, v) \in Seq(Views)
        /\ Elements(Promote(p.pool, v)) = Elements(p.pool) \cup {v}
        /\ Distinct(Promote(p.pool, v))
    BY <1>1, <2>1, PromoteElements
  <2> QED
    BY <2>1, <2>2
<1>4. hs \in Seq(Views)
  BY <1>1, WithoutElements DEF PadsType
<1>5. q \in (IF p.focusedView = v THEN RestoreTagFocus(w, h) ELSE {h})
  BY <1>1 DEF Hide, PadsType
<1> HIDE DEF own, pl, hs
<1>6. h \in PadsType
  BY <1>1, <1>2, <1>3, <1>4 DEF PadsType
<1>7. /\ h.owner = own /\ h.pool = pl /\ h.shown = NONE /\ h.claim = p.claim
      /\ h.focusedView = p.focusedView
  BY <1>1 DEF PadsType
<1> HIDE DEF h
<1>8. \A u \in Views : IsPad(h, u) <=> IsPad(p, u)
  BY <1>1, <1>2, <1>7 DEF IsPad, IsDurable
<1>9. PoolKept(h)
  <2>1. Elements(h.pool) = {u \in Views : IsPad(h, u)} /\ Distinct(h.pool)
    BY <1>3, <1>7, <1>8 DEF PadsOK, PoolKept
  <2>2. \A u \in Views : IsPad(h, u) => h.owner[u].output = NONE
    BY <1>1, <1>2, <1>7, <1>8 DEF PadsOK, PoolKept
  <2> QED
    BY <1>7, <2>1, <2>2, ViewsAssumption DEF PoolKept
<1>10. PadsOK(h)
  BY <1>6, <1>7, <1>8, <1>9 DEF PadsOK, ClaimsKept
<1>11. Shuffled(p, h, {v})
  BY <1>1, <1>2, <1>7, <1>8 DEF Shuffled
<1>12. CASE p.focusedView = v
  <2>1. FocusOnly(h, q) /\ FocusKept(w, q)
    BY <1>5, <1>6, <1>12, RestoreTagFocusSound
  <2> QED
    BY <1>7, <1>10, <1>11, <2>1, FocusOnlyKeeps, FocusOnlyShuffles DEF FocusOnly
<1>13. CASE p.focusedView # v
  <2>1. FocusKept(w, p) => FocusKept(w, h)
    <3>1. p.focusedView # NONE => p.focusedView \in Views
      BY <1>1 DEF PadsType
    <3> QED
      BY <1>2, <1>7, <1>13, <3>1 DEF FocusKept
  <2> QED
    BY <1>5, <1>7, <1>10, <1>11, <1>13, <2>1
<1> QED
  BY <1>12, <1>13

\* leme_scratchpad_show of a scratchpad on an output that is there.
LEMMA ShowSound ==
  ASSUME NEW w, NEW p, PadsOK(p), NEW v \in Views, IsPad(p, v),
         NEW o \in Outputs, NEW q \in Show(w, p, v, o)
  PROVE  /\ PadsOK(q) /\ q.shown = v /\ q.owner[v].output = o
         /\ Shuffled(p, q, {p.shown, v})
         /\ FocusKept(w, p) => FocusKept(w, q)
<1> DEFINE own(r) == [r.owner EXCEPT ![v] = Presented(r.owner[v], o)]
           pl(r) == Promote(r.pool, v)
           h(r) == [r EXCEPT !.owner = own(r), !.fullscreen = r.fullscreen \ {v},
                             !.shown = v, !.pool = pl(r)]
           ready == IF p.shown \in {NONE, v} THEN {p}
                    ELSE Hide(w, p, p.shown, FALSE)
<1>1. PICK r \in ready : q = Focus(w, h(r), v)
  BY DEF Show
<1>2. /\ PadsOK(r) /\ r.shown \in {NONE, v} /\ Shuffled(p, r, {p.shown})
      /\ FocusKept(w, p) => FocusKept(w, r)
  <2>1. CASE p.shown \in {NONE, v}
    BY <1>1, <2>1 DEF Shuffled
  <2>2. CASE p.shown \notin {NONE, v}
    <3>1. r \in Hide(w, p, p.shown, FALSE) /\ p.shown # NONE
      BY <1>1, <2>2
    <3> QED
      BY <3>1, HideSound
  <2> QED
    BY <2>1, <2>2
<1>3. /\ r \in PadsType /\ IsPad(r, v)
      /\ r.owner[v] \in Owners /\ r.owner[v].kind = "durable"
  BY <1>2 DEF PadsOK, PadsType, IsPad, IsDurable, Shuffled
<1>4. /\ own(r) \in [Views -> Owners]
      /\ \A u \in Views : u # v => own(r)[u] = r.owner[u]
      /\ own(r)[v].kind = "durable" /\ own(r)[v].output = o
      /\ own(r)[v].reason = r.owner[v].reason
  <2>1. /\ Presented(r.owner[v], o) \in Owners
        /\ Presented(r.owner[v], o).kind = "durable"
        /\ Presented(r.owner[v], o).reason = r.owner[v].reason
        /\ Presented(r.owner[v], o).output = o
    BY <1>3, PresentedOwner
  <2> QED
    BY <1>3, <2>1 DEF PadsType
<1>5. pl(r) \in Seq(Views) /\ Elements(pl(r)) = Elements(r.pool) /\ Distinct(pl(r))
  <2>1. r.pool \in Seq(Views) /\ v \in Elements(r.pool) /\ Distinct(r.pool)
    BY <1>2, <1>3 DEF PadsOK, PoolKept, PadsType
  <2>2. /\ Promote(r.pool, v) \in Seq(Views)
        /\ Elements(Promote(r.pool, v)) = Elements(r.pool) \cup {v}
        /\ Distinct(Promote(r.pool, v))
    BY <2>1, PromoteElements
  <2> QED
    BY <2>1, <2>2
<1> HIDE DEF own, pl
<1>6. h(r) \in PadsType
  BY <1>3, <1>4, <1>5 DEF PadsType
<1>7. /\ h(r).owner = own(r) /\ h(r).pool = pl(r) /\ h(r).shown = v
      /\ h(r).claim = r.claim /\ h(r).focusedView = r.focusedView
  BY <1>3 DEF PadsType
<1> DEFINE x == h(r)
<1> HIDE DEF h
<1>8. x \in PadsType /\ x.owner = own(r) /\ x.pool = pl(r) /\ x.shown = v
      /\ x.claim = r.claim /\ x.focusedView = r.focusedView
  BY <1>6, <1>7
<1> HIDE DEF x
<1>9. \A u \in Views : IsPad(x, u) <=> IsPad(r, u)
  BY <1>3, <1>4, <1>8 DEF IsPad, IsDurable
<1>10. PoolKept(x)
  <2>1. Elements(x.pool) = {u \in Views : IsPad(x, u)} /\ Distinct(x.pool)
    BY <1>2, <1>5, <1>8, <1>9 DEF PadsOK, PoolKept
  <2>2. \A u \in Views : IsPad(x, u) => (x.owner[u].output # NONE <=> u = v)
    BY <1>2, <1>4, <1>8, <1>9, ViewsAssumption DEF PadsOK, PoolKept
  <2> QED
    BY <1>3, <1>8, <1>9, <2>1, <2>2 DEF PoolKept
<1>11. PadsOK(x)
  BY <1>2, <1>8, <1>9, <1>10 DEF PadsOK, ClaimsKept
<1>12. Shuffled(p, x, {p.shown, v})
  BY <1>2, <1>3, <1>4, <1>8, <1>9 DEF Shuffled
<1>13. FocusKept(w, r) => FocusKept(w, x)
  <2>1. r.focusedView # NONE => r.focusedView \in Views
    BY <1>3 DEF PadsType
  <2>2. Eligible(own(r)[v])
    BY <1>4, ViewsAssumption DEF Eligible
  <2> QED
    BY <1>4, <1>8, <2>1, <2>2 DEF FocusKept
<1>14. FocusOnly(x, q) /\ (FocusKept(w, x) => FocusKept(w, q))
  BY <1>1, <1>8, FocusSound DEF x
<1>15. q.shown = v /\ q.owner[v].output = o
  BY <1>4, <1>8, <1>14 DEF FocusOnly
<1> QED
  BY <1>2, <1>11, <1>12, <1>13, <1>14, <1>15, FocusOnlyKeeps, FocusOnlyShuffles

\* The windows but v have the owners they had, and v has the name given.
Renamed(p, q, v, name) ==
  /\ q.claim = [p.claim EXCEPT ![v] = name]
  /\ \A u \in Views : u # v => q.owner[u] = p.owner[u]

\* A window of a tag that joins the pool.
LEMMA PooledSound ==
  ASSUME NEW w, NEW p, PadsOK(p), NEW v \in Views, p.owner[v].kind = "tag",
         NEW name \in Names \cup {NONE},
         \A u \in Views : name # NONE => p.claim[u] # name,
         NEW q \in Pooled(w, p, v, name)
  PROVE  /\ PadsOK(q) /\ q.shown = p.shown /\ p.shown # v
         /\ IsPad(q, v) /\ Renamed(p, q, v, name)
         /\ FocusKept(w, q)
<1> DEFINE own == [p.owner EXCEPT ![v] = DurableOwner(Scratch, NONE)]
           cl == [p.claim EXCEPT ![v] = name]
           pl == Promote(p.pool, v)
           hs == Without(p.history, v)
           h == [p EXCEPT !.owner = own, !.fullscreen = p.fullscreen \ {v},
                          !.claim = cl, !.pool = pl, !.history = hs]
<1>1. p \in PadsType /\ ~IsPad(p, v) /\ p.shown # v
  BY ViewsAssumption DEF PadsOK, PoolKept, IsPad, IsDurable
<1>2. /\ own \in [Views -> Owners]
      /\ \A u \in Views : u # v => own[u] = p.owner[u]
      /\ IsDurable(own[v], Scratch) /\ own[v].output = NONE
  BY <1>1, NewOwners DEF PadsType
<1>3. /\ cl \in [Views -> Names \cup {NONE}]
      /\ cl[v] = name /\ \A u \in Views : u # v => cl[u] = p.claim[u]
  BY <1>1 DEF PadsType
<1>4. /\ pl \in Seq(Views) /\ Elements(pl) = Elements(p.pool) \cup {v}
      /\ Distinct(pl)
  <2>1. p.pool \in Seq(Views) /\ Distinct(p.pool)
    BY DEF PadsOK, PoolKept, PadsType
  <2> QED
    BY <2>1, PromoteElements
<1>5. hs \in Seq(Views)
  BY <1>1, WithoutElements DEF PadsType
<1>6. q \in RestoreTagFocus(w, h)
  BY <1>1 DEF Pooled, PadsType
<1> HIDE DEF own, pl, hs
<1>7. h \in PadsType
  BY <1>1, <1>2, <1>3, <1>4, <1>5 DEF PadsType
<1>8. h.owner = own /\ h.pool = pl /\ h.shown = p.shown /\ h.claim = cl
  BY <1>1 DEF PadsType
<1> HIDE DEF h
<1>9. \A u \in Views : IsPad(h, u) <=> IsPad(p, u) \/ u = v
  BY <1>2, <1>8 DEF IsPad
<1>10. PoolKept(h)
  <2>1. Elements(h.pool) = {u \in Views : IsPad(h, u)} /\ Distinct(h.pool)
    BY <1>4, <1>8, <1>9 DEF PadsOK, PoolKept
  <2>2. \A u \in Views :
          IsPad(h, u) => (h.owner[u].output # NONE <=> u = h.shown)
    BY <1>1, <1>2, <1>8, <1>9 DEF PadsOK, PoolKept
  <2>3. h.shown # NONE => IsPad(h, h.shown)
    BY <1>1, <1>8, <1>9 DEF PadsOK, PoolKept, PadsType
  <2> QED
    BY <2>1, <2>2, <2>3 DEF PoolKept
<1>11. ClaimsKept(h)
  <2>1. SUFFICES ASSUME NEW u \in Views, h.claim[u] # NONE
                 PROVE  /\ IsPad(h, u)
                        /\ \A x \in Views : h.claim[x] = h.claim[u] => x = u
    BY DEF ClaimsKept
  <2>2. IsPad(h, u)
    BY <1>3, <1>8, <1>9, <2>1 DEF PadsOK, ClaimsKept
  <2>3. ASSUME NEW x \in Views, h.claim[x] = h.claim[u] PROVE x = u
    <3> HIDE DEF cl
    <3> QED
      BY <1>3, <1>8, <2>1, <2>3 DEF PadsOK, ClaimsKept
  <2> QED
    BY <2>2, <2>3
<1>12. PadsOK(h)
  BY <1>7, <1>10, <1>11 DEF PadsOK
<1>13. FocusOnly(h, q) /\ FocusKept(w, q)
  BY <1>6, <1>7, RestoreTagFocusSound
<1>14. IsPad(q, v) /\ Renamed(p, q, v, name) /\ q.shown = p.shown
  BY <1>2, <1>8, <1>9, <1>13 DEF FocusOnly, Renamed, IsPad
<1> QED
  BY <1>1, <1>12, <1>13, <1>14, FocusOnlyKeeps

\* A window that leaves the pool, or was not in it, and stays out: for a tag,
\* or because it unmaps.
LEMMA LeavesSound ==
  ASSUME NEW w, NEW p, PadsOK(p), NEW v \in Views, NEW x \in Owners,
         x.kind # "durable", NEW q \in PadsType,
         q.owner = [p.owner EXCEPT ![v] = x],
         q.claim = [p.claim EXCEPT ![v] = NONE],
         q.shown = IF p.shown = v THEN NONE ELSE p.shown,
         Elements(q.pool) = Elements(p.pool) \ {v}, Distinct(q.pool),
         q.focusedView = p.focusedView \/ q.focusedView = NONE,
         q.focusedView = v => Eligible(x)
  PROVE  /\ PadsOK(q) /\ Renamed(p, q, v, NONE)
         /\ FocusKept(w, p) => FocusKept(w, q)
<1>1. p \in PadsType /\ PoolKept(p) /\ ClaimsKept(p)
  BY DEF PadsOK
<1>2. /\ q.owner[v] = x /\ \A u \in Views : u # v => q.owner[u] = p.owner[u]
      /\ q.claim[v] = NONE /\ \A u \in Views : u # v => q.claim[u] = p.claim[u]
  BY <1>1 DEF PadsType
<1>3. \A u \in Views : IsPad(q, u) <=> IsPad(p, u) /\ u # v
  BY <1>2 DEF IsPad, IsDurable
<1>4. PoolKept(q)
  <2>1. Elements(q.pool) = {u \in Views : IsPad(q, u)}
    BY <1>1, <1>3 DEF PoolKept
  <2>2. \A u \in Views :
          IsPad(q, u) => (q.owner[u].output # NONE <=> u = q.shown)
    BY <1>1, <1>2, <1>3, ViewsAssumption DEF PoolKept
  <2>3. q.shown # NONE => IsPad(q, q.shown)
    BY <1>1, <1>3 DEF PoolKept, PadsType
  <2> QED
    BY <2>1, <2>2, <2>3 DEF PoolKept
<1>5. ClaimsKept(q)
  BY <1>1, <1>2, <1>3 DEF ClaimsKept
<1>6. FocusKept(w, p) => FocusKept(w, q)
  <2>1. p.focusedView # NONE => p.focusedView \in Views
    BY <1>1 DEF PadsType
  <2> QED
    BY <1>2, <2>1 DEF FocusKept
<1> QED
  BY <1>2, <1>4, <1>5, <1>6 DEF PadsOK, Renamed

\* The pool that leme_scratchpad_retrieve leaves.
LEMMA RetagSound ==
  ASSUME NEW w, NEW p, PadsOK(p), NEW v \in Views, IsPad(p, v),
         p.shown \in {NONE, v}, NEW key \in Keys
  PROVE  /\ PadsOK(Retag(p, v, key)) /\ Retag(p, v, key).shown = NONE
         /\ Renamed(p, Retag(p, v, key), v, NONE)
         /\ Retag(p, v, key).owner[v].kind = "tag"
         /\ FocusKept(w, p) => FocusKept(w, Retag(p, v, key))
<1> DEFINE q == Retag(p, v, key)
           x == TagOwner(key)
           pl == Without(p.pool, v)
<1>1. p \in PadsType /\ Distinct(p.pool) /\ p.pool \in Seq(Views)
  BY DEF PadsOK, PoolKept, PadsType
<1>2. x \in Owners /\ x.kind = "tag"
  BY NewOwners
<1>3. /\ pl \in Seq(Views) /\ Elements(pl) = Elements(p.pool) \ {v}
      /\ Distinct(pl)
  BY <1>1, WithoutElements
<1>4. q = [p EXCEPT !.owner = [p.owner EXCEPT ![v] = x],
                    !.claim = [p.claim EXCEPT ![v] = NONE],
                    !.pool = pl, !.shown = NONE]
  BY <1>1 DEF Retag, PadsType
<1> HIDE DEF q, x, pl
<1>5. /\ q \in PadsType /\ q.owner = [p.owner EXCEPT ![v] = x]
      /\ q.claim = [p.claim EXCEPT ![v] = NONE]
      /\ q.pool = pl /\ q.shown = NONE /\ q.focusedView = p.focusedView
  BY <1>1, <1>2, <1>3, <1>4 DEF PadsType
<1>6. Eligible(x) /\ x.kind # "durable"
  BY <1>2 DEF Eligible
<1>7. /\ PadsOK(q) /\ Renamed(p, q, v, NONE)
      /\ FocusKept(w, p) => FocusKept(w, q)
  BY <1>2, <1>3, <1>5, <1>6, LeavesSound
<1>8. q.owner[v].kind = "tag"
  BY <1>1, <1>2, <1>5 DEF PadsType
<1> QED
  BY <1>5, <1>7, <1>8 DEF q

\* leme_view_unmap of a mapped window.
LEMMA DepartedSound ==
  ASSUME NEW w, NEW p, PadsOK(p), NEW v \in Views
  PROVE  /\ PadsOK(Departed(p, v)) /\ Renamed(p, Departed(p, v), v, NONE)
         /\ Departed(p, v).shown = IF p.shown = v THEN NONE ELSE p.shown
         /\ Departed(p, v).owner[v] = NoOwner
         /\ FocusKept(w, p) => FocusKept(w, Departed(p, v))
<1> DEFINE q == Departed(p, v)
           pl == IF IsPad(p, v) THEN Without(p.pool, v) ELSE p.pool
           cl == [p.claim EXCEPT ![v] = NONE]
           hs == Without(p.history, v)
<1>1. /\ p \in PadsType /\ Distinct(p.pool) /\ p.pool \in Seq(Views)
      /\ p.history \in Seq(Views)
  BY DEF PadsOK, PoolKept, PadsType
<1>2. NoOwner \in Owners /\ NoOwner.kind = "none"
  BY NewOwners
<1>3. /\ pl \in Seq(Views) /\ Elements(pl) = Elements(p.pool) \ {v}
      /\ Distinct(pl)
  BY <1>1, WithoutElements DEF PadsOK, PoolKept
<1>4. hs \in Seq(Views)
  BY <1>1, WithoutElements
<1>5. cl = [p.claim EXCEPT ![v] = IF IsPad(p, v) THEN NONE ELSE p.claim[v]]
  BY DEF PadsOK, ClaimsKept
<1>6. q = [p EXCEPT !.owner = [p.owner EXCEPT ![v] = NoOwner],
                    !.claim = cl, !.pool = pl,
                    !.shown = IF p.shown = v THEN NONE ELSE p.shown,
                    !.focusedView =
                       IF p.focusedView = v THEN NONE ELSE p.focusedView,
                    !.history = hs]
  BY <1>1, <1>5 DEF Departed, PadsType
<1>7. cl \in [Views -> Names \cup {NONE}]
  BY <1>1 DEF PadsType
<1> HIDE DEF q, pl, hs, cl
<1>8. /\ q \in PadsType /\ q.owner = [p.owner EXCEPT ![v] = NoOwner]
      /\ q.claim = cl /\ q.pool = pl
      /\ q.shown = IF p.shown = v THEN NONE ELSE p.shown
      /\ q.focusedView = IF p.focusedView = v THEN NONE ELSE p.focusedView
  BY <1>1, <1>2, <1>3, <1>4, <1>6, <1>7, ZenonT(90) DEF PadsType
<1>9. /\ PadsOK(q) /\ Renamed(p, q, v, NONE)
      /\ FocusKept(w, p) => FocusKept(w, q)
  <2>1. q.focusedView # v
    BY <1>8, ViewsAssumption
  <2>2. q.focusedView = p.focusedView \/ q.focusedView = NONE
    BY <1>8
  <2> QED
    BY <1>2, <1>3, <1>8, <2>1, <2>2, LeavesSound DEF cl
<1>10. q.owner[v] = NoOwner
  BY <1>1, <1>8 DEF PadsType
<1> QED
  BY <1>8, <1>9, <1>10 DEF q

-----------------------------------------------------------------------------
(* Outputs                                                                 *)

\* leme_scratchpad_reconcile_outputs hides the shown scratchpad only if its
\* output cannot show it.
LEMMA ReconcileSound ==
  ASSUME NEW w, NEW p, PadsOK(p), NEW q \in ReconcileOutputs(w, p)
  PROVE  /\ PadsOK(q) /\ ShownValid(w, q) /\ Shuffled(p, q, {p.shown})
         /\ FocusKept(w, p) => FocusKept(w, q)
         /\ \/ q.shown = p.shown
            \/ ~OutputValid(w, p.owner[p.shown].output)
<1>1. p.shown # NONE =>
        EffectiveOutput(p.owner[p.shown]) = p.owner[p.shown].output
  BY DEF PadsOK, PoolKept, IsPad, IsDurable, EffectiveOutput
<1>2. CASE p.shown # NONE /\ ~OutputValid(w, EffectiveOutput(p.owner[p.shown]))
  <2>1. q \in Hide(w, p, p.shown, FALSE)
    BY <1>2 DEF ReconcileOutputs
  <2>2. /\ PadsOK(q) /\ q.shown = NONE /\ Shuffled(p, q, {p.shown})
        /\ FocusKept(w, p) => FocusKept(w, q)
    BY <1>2, <2>1, HideSound
  <2> QED
    BY <1>1, <1>2, <2>2 DEF ShownValid
<1>3. CASE ~(p.shown # NONE /\ ~OutputValid(w, EffectiveOutput(p.owner[p.shown])))
  <2>1. q = p
    BY <1>3 DEF ReconcileOutputs
  <2> QED
    BY <1>1, <1>3, <2>1 DEF ShownValid, Shuffled
<1> QED
  BY <1>2, <1>3

\* leme_output_reconcile: besides, the focus goes to an output that is enabled.
LEMMA SettleSound ==
  ASSUME NEW w, WorldOK(w), NEW p, PadsOK(p), NEW s \in Settle(w, p)
  PROVE  /\ s[1] \in Outputs \cup {NONE}
         /\ PadsOK(s[2]) /\ ShownValid(w, s[2]) /\ Shuffled(p, s[2], {p.shown})
         /\ FocusKept(w, p) => FocusKept(w, s[2])
         /\ \/ s[2].shown = p.shown
            \/ ~OutputValid(w, p.owner[p.shown].output)
<1> DEFINE kept == w.focusedOutput \in w.enabled \/
                     (w.focusedOutput = NONE /\ w.enabled = {})
           at(f) == [w EXCEPT !.focusedOutput = f]
           successors == IF w.enabled = {} THEN {NONE} ELSE w.enabled
<1>1. PICK q \in ReconcileOutputs(w, p) :
        s \in IF kept THEN {<<w.focusedOutput, q>>}
              ELSE UNION {{<<f, r>> : r \in RestoreKeyboardFocus(at(f), q)} :
                          f \in successors}
  BY DEF Settle
<1>2. /\ PadsOK(q) /\ ShownValid(w, q) /\ Shuffled(p, q, {p.shown})
      /\ FocusKept(w, p) => FocusKept(w, q)
      /\ \/ q.shown = p.shown
         \/ ~OutputValid(w, p.owner[p.shown].output)
  BY <1>1, ReconcileSound
<1>3. w \in WorldType /\ w.enabled \subseteq Outputs
  BY DEF WorldOK, WorldType
<1>4. CASE kept
  <2>1. s = <<w.focusedOutput, q>>
    BY <1>1, <1>4
  <2>2. s[1] \in Outputs \cup {NONE} /\ s[2] = q
    BY <1>3, <2>1 DEF WorldType
  <2> QED
    BY <1>2, <2>2
<1>5. CASE ~kept
  <2>0. PICK f \in successors :
          \E r \in RestoreKeyboardFocus(at(f), q) : s = <<f, r>>
    BY <1>1, <1>5, ZenonT(90)
  <2>1. PICK r \in RestoreKeyboardFocus(at(f), q) : s = <<f, r>>
    BY <2>0
  <2>2. s[1] \in Outputs \cup {NONE} /\ s[2] = r
    BY <1>3, <2>1
  <2>3. FocusOnly(q, r) /\ FocusKept(at(f), r)
    <3> HIDE DEF at
    <3>1. q \in PadsType
      BY <1>2 DEF PadsOK
    <3> QED
      BY <2>1, <3>1, RestoreKeyboardFocusSound
  <2>4. at(f).locked = w.locked
    BY <1>3 DEF WorldType
  <2>5. FocusKept(w, r)
    BY <2>3, <2>4 DEF FocusKept
  <2>6. PadsOK(r) /\ ShownValid(w, r) /\ Shuffled(p, r, {p.shown})
    BY <1>2, <2>3, FocusOnlyKeeps, FocusOnlyShuffles
  <2>7. r.shown = q.shown
    BY <2>3 DEF FocusOnly
  <2> QED
    BY <1>2, <2>2, <2>5, <2>6, <2>7
<1> QED
  BY <1>4, <1>5

-----------------------------------------------------------------------------
(* What a step installs                                                    *)

LEMMA Installed ==
  ASSUME NEW p \in PadsType, Install(p)
  PROVE  Pads' = p
<1> QED
  BY DEF Install, Pads, PadsType

LEMMA DefinitionsSound ==
  ASSUME definition \in Definitions
  PROVE  DefinitionsOK(definition)
<1> QED
  BY DEF Definitions, DefinitionsOK

\* Names are given up, none is claimed.
ClaimsWithin(p, q) == \A u \in Views : q.claim[u] \in {NONE, p.claim[u]}

LEMMA ClaimsShrink ==
  ASSUME NEW p \in PadsType, NEW q \in PadsType
  PROVE  /\ \A A : Shuffled(p, q, A) => ClaimsWithin(p, q)
         /\ FocusOnly(p, q) => ClaimsWithin(p, q)
         /\ \A v \in Views : Renamed(p, q, v, NONE) => ClaimsWithin(p, q)
<1>1. q.claim = p.claim => ClaimsWithin(p, q)
  BY DEF ClaimsWithin
<1>2. ASSUME NEW v \in Views, Renamed(p, q, v, NONE) PROVE ClaimsWithin(p, q)
  <2>1. p.claim \in [Views -> Names \cup {NONE}]
    BY DEF PadsType
  <2>2. q.claim = [p.claim EXCEPT ![v] = NONE]
    BY <1>2 DEF Renamed
  <2> QED
    BY <2>1, <2>2 DEF ClaimsWithin
<1>3. \A A : Shuffled(p, q, A) => q.claim = p.claim
  BY DEF Shuffled
<1>4. FocusOnly(p, q) => q.claim = p.claim
  BY DEF FocusOnly
<1> QED
  BY <1>1, <1>2, <1>3, <1>4

LEMMA NamesShrink ==
  ASSUME NEW d, NEW ids, NEW w, NEW x, NEW p, NEW q, NEW l,
         ClaimsMatch(d, ids, p), LaunchesKept(d, w, p, l),
         ClaimsWithin(p, q), x.plugged = w.plugged
  PROVE  ClaimsMatch(d, ids, q) /\ LaunchesKept(d, x, q, l)
<1>1. ClaimsMatch(d, ids, q)
  BY DEF ClaimsMatch, ClaimsWithin
<1>2. \A r \in Elements(l) : r.name # NONE
  <2>1. \A i \in DOMAIN l : l[i] \in Requests
    BY DEF LaunchesKept
  <2>2. \A r \in Requests : r.name # NONE
    BY NamesAssumption DEF Requests
  <2> QED
    BY <2>1, <2>2 DEF Elements
<1>3. LaunchesKept(d, x, q, l)
  BY <1>2 DEF LaunchesKept, ClaimsWithin
<1> QED
  BY <1>1, <1>3

\* Launches that end leave the others as they are.
LEMMA LaunchesShrink ==
  ASSUME NEW d, NEW w, NEW p, NEW l, LaunchesKept(d, w, p, l), NEW S
  PROVE  LaunchesKept(d, w, p, Selected(l, S))
<1> DEFINE k == Selected(l, S)
<1>1. l \in Seq(Requests) /\ Distinct(l)
  BY DEF LaunchesKept
<1>2. k \in Seq(Requests) /\ Elements(k) = Elements(l) \cap S /\ Distinct(k)
  BY <1>1, SelectedElements
<1> HIDE DEF k
<1>3. LaunchesKept(d, w, p, k)
  BY <1>2 DEF LaunchesKept
<1> QED
  BY <1>3 DEF k

\* What LockKeepsShown asks of a step under the lock.
ShownKept ==
  shown # NONE =>
    \/ shown' = shown
    \/ owner'[shown] = NoOwner
    \/ ~OutputValid(World', owner[shown].output)
    \/ Len(pending') < Len(pending) /\ shown' # NONE

\* A step that changes windows, outputs and the lock, and claims no name.
LEMMA WindowsStep ==
  ASSUME PadsInv, UNCHANGED <<session, configVars, pending, plugged>>,
         NEW p, Install(p), WorldOK(World'),
         PadsOK(p), ShownValid(World', p), FocusKept(World', p),
         ClaimsWithin(Pads, p)
  PROVE  PadsInv'
<1>1. Pads' = p
  BY Installed DEF PadsOK
<1>2. World'.plugged = World.plugged
  BY DEF World
<1>3. /\ ClaimsMatch(definition, identity, Pads)
      /\ LaunchesKept(definition, World, Pads, pending)
  BY DEF PadsInv, Sound
<1>4. /\ ClaimsMatch(definition, identity, p)
      /\ LaunchesKept(definition, World', p, pending)
  BY <1>2, <1>3, NamesShrink
<1>5. definition' = definition /\ identity' = identity /\ pending' = pending
  BY DEF configVars
<1>6. session' \in Sessions /\ definition' \in Definitions'
  BY <1>5 DEF PadsInv, Definitions
<1>7. Sound(definition', identity', World', Pads', pending')
  BY <1>1, <1>4, <1>5 DEF PadsInv, Sound
<1> QED
  BY <1>6, <1>7 DEF PadsInv

\* A step that leaves the outputs and the lock alone too.
LEMMA PadsStep ==
  ASSUME PadsInv,
         UNCHANGED <<session, outputVars, locked, configVars, pending>>,
         NEW p, Install(p),
         PadsOK(p), ShownValid(World, p), FocusKept(World, p),
         ClaimsWithin(Pads, p)
  PROVE  PadsInv'
<1>1. World' = World /\ plugged' = plugged
  BY DEF World, outputVars
<1>2. WorldOK(World)
  BY DEF PadsInv, Sound
<1> QED
  BY <1>1, <1>2, WindowsStep

\* The parts of the invariant, for the handlers.
LEMMA Given ==
  ASSUME PadsInv
  PROVE  /\ PadsOK(Pads) /\ Pads \in PadsType
         /\ ShownValid(World, Pads) /\ FocusKept(World, Pads)
         /\ WorldOK(World) /\ World \in WorldType
         /\ shown = Pads.shown /\ owner = Pads.owner /\ claim = Pads.claim
         /\ pool = Pads.pool /\ history = Pads.history
         /\ shown # NONE => shown \in Views /\ IsPad(Pads, shown)
         /\ focusedView # NONE => focusedView \in Views
<1>1. /\ PadsOK(Pads) /\ ShownValid(World, Pads) /\ FocusKept(World, Pads)
      /\ WorldOK(World)
  BY DEF PadsInv, Sound
<1>2. Pads \in PadsType /\ World \in WorldType
  BY <1>1 DEF PadsOK, WorldOK
<1>3. /\ shown = Pads.shown /\ owner = Pads.owner /\ claim = Pads.claim
      /\ pool = Pads.pool /\ history = Pads.history
      /\ focusedView = Pads.focusedView
  BY DEF Pads
<1>4. shown # NONE => shown \in Views /\ IsPad(Pads, shown)
  BY <1>1, <1>2, <1>3 DEF PadsOK, PoolKept, PadsType
<1>5. focusedView # NONE => focusedView \in Views
  BY <1>2, <1>3 DEF PadsType
<1> QED
  BY <1>1, <1>2, <1>3, <1>4, <1>5

\* The first scratchpad of the pool with some attribute.
LEMMA PoolFirst ==
  ASSUME NEW p, PadsOK(p), NEW S, Selected(p.pool, S) # <<>>
  PROVE  /\ Selected(p.pool, S)[1] \in S \cap Views
         /\ IsPad(p, Selected(p.pool, S)[1])
<1>1. p.pool \in Seq(Views) /\ Elements(p.pool) = {v \in Views : IsPad(p, v)}
  BY DEF PadsOK, PadsType, PoolKept
<1>2. Selected(p.pool, S)[1] \in Elements(p.pool) \cap S
  BY <1>1, SelectedFirst
<1> QED
  BY <1>1, <1>2

-----------------------------------------------------------------------------
(* Commands                                                                *)

LEMMA SendSound ==
  ASSUME PadsInv, UNCHANGED session, Send
  PROVE  PadsInv'
<1>1. UNCHANGED <<session, outputVars, locked, configVars, pending>>
  BY DEF Send
<1>2. CASE focusedView = shown /\ \E p \in Hide(World, Pads, shown, TRUE) : Install(p)
  <2>1. PICK p \in Hide(World, Pads, shown, TRUE) : Install(p)
    BY <1>2
  <2>2. Pads.shown # NONE /\ p \in Hide(World, Pads, Pads.shown, TRUE)
    BY <1>2, <2>1, Given DEF Send
  <2>3. /\ PadsOK(p) /\ p.shown = NONE /\ Shuffled(Pads, p, {Pads.shown})
        /\ FocusKept(World, p)
    BY <2>2, Given, HideSound
  <2>4. ShownValid(World, p) /\ ClaimsWithin(Pads, p)
    BY <2>3, Given, ClaimsShrink DEF ShownValid, PadsOK
  <2> QED
    BY <1>1, <2>1, <2>3, <2>4, PadsStep
<1>3. CASE /\ owner[focusedView].kind = "tag" /\ claim[focusedView] = NONE
           /\ \E p \in Pooled(World, Pads, focusedView, NONE) : Install(p)
  <2> DEFINE v == focusedView
  <2>1. v \in Views /\ Pads.owner[v].kind = "tag"
    BY <1>3, Given DEF Send
  <2>2. PICK p \in Pooled(World, Pads, v, NONE) : Install(p)
    BY <1>3
  <2> HIDE DEF v
  <2>3. /\ PadsOK(p) /\ p.shown = Pads.shown /\ Pads.shown # v
        /\ Renamed(Pads, p, v, NONE) /\ FocusKept(World, p)
    BY <2>1, <2>2, Given, PooledSound
  <2>4. ClaimsWithin(Pads, p)
    BY <2>1, <2>3, Given, ClaimsShrink DEF PadsOK
  <2>5. ShownValid(World, p)
    BY <2>3, Given DEF ShownValid, Renamed
  <2> QED
    BY <1>1, <2>2, <2>3, <2>4, <2>5, PadsStep
<1> QED
  BY <1>2, <1>3 DEF Send

\* A scratchpad that is shown on the focused output.
LEMMA ShowStep ==
  ASSUME PadsInv, UNCHANGED <<session, outputVars, locked, configVars, pending>>,
         NEW v \in Views, IsPad(Pads, v), NEW o, OutputValid(World, o),
         NEW p \in Show(World, Pads, v, o), Install(p)
  PROVE  PadsInv'
<1>1. o \in Outputs
  BY Given DEF WorldType, OutputValid
<1>2. /\ PadsOK(p) /\ p.shown = v /\ p.owner[v].output = o
      /\ Shuffled(Pads, p, {Pads.shown, v}) /\ FocusKept(World, p)
  <2>1. PadsOK(Pads) /\ FocusKept(World, Pads)
    BY Given
  <2> QED
    BY <1>1, <2>1, ShowSound, SMTT(60)
<1>3. ClaimsWithin(Pads, p)
  BY <1>2, Given, ClaimsShrink DEF PadsOK
<1>4. ShownValid(World, p)
  BY <1>2 DEF ShownValid
<1> QED
  BY <1>2, <1>3, <1>4, PadsStep

LEMMA HideStep ==
  ASSUME PadsInv, UNCHANGED <<session, outputVars, locked, configVars, pending>>,
         shown # NONE, NEW p \in Hide(World, Pads, shown, FALSE), Install(p)
  PROVE  PadsInv'
<1>1. Pads.shown # NONE /\ p \in Hide(World, Pads, Pads.shown, FALSE)
  BY Given
<1>2. /\ PadsOK(p) /\ p.shown = NONE /\ Shuffled(Pads, p, {Pads.shown})
      /\ FocusKept(World, p)
  BY <1>1, Given, HideSound
<1>3. ShownValid(World, p) /\ ClaimsWithin(Pads, p)
  BY <1>2, Given, ClaimsShrink DEF ShownValid, PadsOK
<1> QED
  BY <1>2, <1>3, PadsStep

LEMMA ToggleUnnamedSound ==
  ASSUME PadsInv, UNCHANGED session, ToggleUnnamed
  PROVE  PadsInv'
<1>1. /\ UNCHANGED <<session, outputVars, locked, configVars, pending>>
      /\ OutputValid(World, focusedOutput)
  BY DEF ToggleUnnamed
<1>2. CASE shown # NONE /\ claim[shown] = NONE
  <2>1. shown \in Views /\ IsPad(Pads, shown)
    BY <1>2, Given
  <2>2. \/ \E p \in Hide(World, Pads, shown, FALSE) : Install(p)
        \/ \E p \in Show(World, Pads, shown, focusedOutput) : Install(p)
    BY <1>2 DEF ToggleUnnamed
  <2>3. ASSUME NEW p \in Hide(World, Pads, shown, FALSE), Install(p)
        PROVE  PadsInv'
    BY <1>1, <1>2, <2>3, HideStep
  <2>4. ASSUME NEW p \in Show(World, Pads, shown, focusedOutput), Install(p)
        PROVE  PadsInv'
    BY <1>1, <2>1, <2>4, ShowStep
  <2> QED
    BY <2>2, <2>3, <2>4
<1>3. CASE ~(shown # NONE /\ claim[shown] = NONE)
  <2> DEFINE v == Unnamed(Pads)[1]
  <2>1. v \in Views /\ IsPad(Pads, v)
    BY <1>3, Given, PoolFirst DEF ToggleUnnamed, Unnamed
  <2>2. PICK p \in Show(World, Pads, v, focusedOutput) : Install(p)
    BY <1>3 DEF ToggleUnnamed
  <2> HIDE DEF v
  <2> QED
    BY <1>1, <2>1, <2>2, ShowStep
<1> QED
  BY <1>2, <1>3

LEMMA RetrieveSound ==
  ASSUME PadsInv, UNCHANGED session, Retrieve
  PROVE  PadsInv'
<1> DEFINE v == IF shown # NONE THEN shown ELSE Unnamed(Pads)[1]
           key == <<focusedOutput, current[focusedOutput]>>
           q == Retag(Pads, v, key)
<1>1. /\ UNCHANGED <<session, outputVars, locked, configVars, pending>>
      /\ OutputValid(World, focusedOutput)
      /\ Install(Focus(World, q, v))
  BY DEF Retrieve
<1>2. v \in Views /\ IsPad(Pads, v) /\ Pads.shown \in {NONE, v}
  <2>1. CASE shown # NONE
    BY <2>1, Given
  <2>2. CASE shown = NONE
    BY <2>2, Given, PoolFirst DEF Retrieve, Unnamed
  <2> QED
    BY <2>1, <2>2
<1>3. key \in Keys
  <2>1. World.focusedOutput \in Outputs \cup {NONE} /\ World.plugged \subseteq Outputs
        /\ World.current \in [Outputs -> TagIds]
    BY Given DEF WorldType
  <2>2. focusedOutput \in Outputs /\ current \in [Outputs -> TagIds]
    BY <1>1, <2>1 DEF OutputValid, World
  <2> QED
    BY <2>2 DEF Keys
<1> HIDE DEF v, key
<1>4. /\ PadsOK(q) /\ q.shown = NONE /\ Renamed(Pads, q, v, NONE)
      /\ FocusKept(World, q)
  BY <1>2, <1>3, Given, RetagSound
<1> HIDE DEF q
<1> DEFINE p == Focus(World, q, v)
<1>5. FocusOnly(q, p) /\ FocusKept(World, p)
  BY <1>2, <1>4, FocusSound DEF PadsOK
<1>6. PadsOK(p) /\ p.shown = NONE /\ Renamed(Pads, p, v, NONE)
  BY <1>4, <1>5, FocusOnlyKeeps DEF FocusOnly, Renamed
<1> HIDE DEF p
<1>7. ShownValid(World, p) /\ ClaimsWithin(Pads, p)
  BY <1>2, <1>6, Given, ClaimsShrink DEF ShownValid, PadsOK
<1> QED
  BY <1>1, <1>5, <1>6, <1>7, PadsStep DEF p

-----------------------------------------------------------------------------
(* Names                                                                   *)

\* A step that may change anything but the session.
LEMMA SoundStep ==
  ASSUME PadsInv, UNCHANGED session, NEW p, Install(p),
         definition' \in Definitions,
         Sound(definition', identity', World', p, pending')
  PROVE  PadsInv'
<1>1. Pads' = p
  BY Installed DEF Sound, PadsOK
<1>2. session' \in Sessions /\ definition' \in Definitions'
  BY DEF PadsInv, Definitions
<1> QED
  BY <1>1, <1>2 DEF PadsInv

\* A window v takes a name that no launch waits for.
LEMMA NameTaken ==
  ASSUME NEW d, NEW ids, NEW w, NEW p \in PadsType, NEW q, NEW l,
         NEW v \in Views, NEW name \in Names,
         ClaimsMatch(d, ids, p), LaunchesKept(d, w, p, l),
         q.claim = [p.claim EXCEPT ![v] = name],
         d[name] = ids[v], \A r \in Elements(l) : r.name # name
  PROVE  ClaimsMatch(d, ids, q) /\ LaunchesKept(d, w, q, l)
<1>1. q.claim[v] = name /\ \A u \in Views : u # v => q.claim[u] = p.claim[u]
  BY DEF PadsType
<1>2. ClaimsMatch(d, ids, q)
  BY <1>1 DEF ClaimsMatch
<1>3. LaunchesKept(d, w, q, l)
  BY <1>1 DEF LaunchesKept
<1> QED
  BY <1>2, <1>3

\* Launches whose destinations change.
LEMMA LaunchesMove ==
  ASSUME NEW d, NEW w, NEW x, NEW p, NEW l, NEW k,
         LaunchesKept(d, w, p, l), k \in [DOMAIN l -> Requests],
         \A i \in DOMAIN l : /\ k[i].name = l[i].name
                             /\ k[i].identity = l[i].identity
                             /\ k[i].destination \in x.plugged \cup {NONE}
  PROVE  LaunchesKept(d, x, p, k)
<1>1. /\ l \in Seq(Requests) /\ Distinct(l)
      /\ \A r, t \in Elements(l) : r.name = t.name => r = t
      /\ \A r \in Elements(l) : d[r.name] = r.identity
      /\ \A r \in Elements(l) : \A v \in Views : p.claim[v] # r.name
  BY DEF LaunchesKept
<1>2. k \in Seq(Requests)
  BY <1>1
<1>3. \A i \in DOMAIN l : l[i] \in Elements(l)
  BY DEF Elements
<1>4. DOMAIN k = DOMAIN l
  OBVIOUS
<1>5. \A i, j \in DOMAIN k : k[i].name = k[j].name => i = j
  BY <1>1, <1>3, <1>4 DEF Distinct
<1>6. Distinct(k) /\ \A r, t \in Elements(k) : r.name = t.name => r = t
  BY <1>5 DEF Distinct, Elements
<1>7. \A i \in DOMAIN k : /\ d[k[i].name] = k[i].identity
                          /\ k[i].destination \in x.plugged \cup {NONE}
                          /\ \A v \in Views : p.claim[v] # k[i].name
  BY <1>1, <1>3, <1>4
<1> QED
  BY <1>2, <1>6, <1>7 DEF LaunchesKept, Elements

\* A launch more, for a name that nobody has.
LEMMA LaunchAdded ==
  ASSUME NEW d, NEW w, NEW p, NEW l, NEW r \in Requests,
         LaunchesKept(d, w, p, l), \A t \in Elements(l) : t.name # r.name,
         d[r.name] = r.identity, r.destination \in w.plugged \cup {NONE},
         \A v \in Views : p.claim[v] # r.name
  PROVE  LaunchesKept(d, w, p, <<r>> \o l)
<1> DEFINE k == <<r>> \o l
<1>1. l \in Seq(Requests) /\ Distinct(l) /\ r \notin Elements(l)
  BY DEF LaunchesKept
<1>2. k \in Seq(Requests) /\ Elements(k) = Elements(l) \cup {r} /\ Distinct(k)
  BY <1>1, PushElements
<1> HIDE DEF k
<1>3. \A s, t \in Elements(k) : s.name = t.name => s = t
  BY <1>2 DEF LaunchesKept
<1>4. \A t \in Elements(k) : /\ d[t.name] = t.identity
                             /\ t.destination \in w.plugged \cup {NONE}
                             /\ \A v \in Views : p.claim[v] # t.name
  BY <1>2 DEF LaunchesKept
<1>5. LaunchesKept(d, w, p, k)
  BY <1>2, <1>3, <1>4 DEF LaunchesKept
<1> QED
  BY <1>5 DEF k

\* A window of a tag that joins the pool under a name and is shown.
LEMMA PooledShown ==
  ASSUME NEW w, NEW p, PadsOK(p), NEW v \in Views, p.owner[v].kind = "tag",
         NEW name \in Names, \A u \in Views : p.claim[u] # name,
         NEW o \in Outputs, OutputValid(w, o),
         NEW q \in Pooled(w, p, v, name), NEW x \in Show(w, q, v, o)
  PROVE  /\ PadsOK(x) /\ ShownValid(w, x) /\ FocusKept(w, x)
         /\ x.shown = v /\ x.claim = [p.claim EXCEPT ![v] = name]
<1>1. /\ PadsOK(q) /\ IsPad(q, v) /\ Renamed(p, q, v, name) /\ FocusKept(w, q)
  BY PooledSound
<1>2. /\ PadsOK(x) /\ x.shown = v /\ x.owner[v].output = o
      /\ Shuffled(q, x, {q.shown, v}) /\ FocusKept(w, x)
  BY <1>1, ShowSound
<1>3. x.claim = [p.claim EXCEPT ![v] = name]
  BY <1>1, <1>2 DEF Renamed, Shuffled
<1> QED
  BY <1>2, <1>3 DEF ShownValid

-----------------------------------------------------------------------------
(* scratchpad_toggle NAME                                                  *)

\* When no member of the pool has the name, nobody has.
LEMMA Unclaimed ==
  ASSUME PadsInv, NEW name \in Names,
         shown \notin {v \in Views : claim[v] = name}, HiddenClaim(name) = <<>>
  PROVE  \A u \in Views : claim[u] # name
<1>1. SUFFICES ASSUME NEW u \in Views, claim[u] = name PROVE FALSE
  OBVIOUS
<1>2. /\ PadsOK(Pads) /\ pool = Pads.pool /\ claim = Pads.claim
      /\ pool \in Seq(Views)
  BY Given DEF PadsType
<1>3. IsPad(Pads, u) /\ u \in Elements(pool)
  BY <1>1, <1>2, NamesAssumption DEF PadsOK, ClaimsKept, PoolKept
<1>4. Hidden(u)
  BY <1>1, <1>3 DEF Hidden
<1>5. Elements(pool) \cap {v \in Views : Hidden(v) /\ claim[v] = name} = {}
  BY <1>2, SelectedNone DEF HiddenClaim
<1> QED
  BY <1>1, <1>3, <1>4, <1>5

LEMMA RedirectSound ==
  ASSUME PadsInv, NEW name \in Names, OutputValid(World, focusedOutput),
         UNCHANGED <<session, outputVars, locked, configVars, padVars>>,
         Redirect(name)
  PROVE  PadsInv'
<1>1. LaunchesKept(definition, World, Pads, pending) /\ pending \in Seq(Requests)
  BY DEF PadsInv, Sound, LaunchesKept
<1>2. \A i \in DOMAIN pending : pending[i] \in Elements(pending)
  BY DEF Elements
<1>3. focusedOutput \in World.plugged /\ focusedOutput \in Outputs
  BY Given DEF OutputValid, WorldType
<1>4. pending' \in [DOMAIN pending -> Requests]
  <2>1. \A i \in DOMAIN pending : pending[i] \in Requests
    BY <1>1
  <2>2. \A r \in Requests : [r EXCEPT !.destination = focusedOutput] \in Requests
    BY <1>3 DEF Requests
  <2> QED
    BY <2>1, <2>2 DEF Redirect
<1>5. \A i \in DOMAIN pending :
        /\ pending'[i].name = pending[i].name
        /\ pending'[i].identity = pending[i].identity
        /\ pending'[i].destination \in World.plugged \cup {NONE}
  BY <1>1, <1>2, <1>3 DEF Redirect, Requests, LaunchesKept
<1>6. LaunchesKept(definition, World, Pads, pending')
  BY <1>1, <1>4, <1>5, LaunchesMove
<1>7. /\ definition' = definition /\ identity' = identity
      /\ World' = World /\ Install(Pads)
  BY DEF outputVars, configVars, padVars, World, Install, Pads
<1>8. definition \in Definitions
  BY DEF PadsInv
<1>9. Sound(definition, identity, World, Pads, pending')
  BY <1>6 DEF PadsInv, Sound
<1> QED
  BY <1>7, <1>8, <1>9, SoundStep

LEMMA ShowHiddenSound ==
  ASSUME PadsInv, NEW name \in Names, NEW v \in Views, IsPad(Pads, v),
         claim[v] \in {NONE, name}, \A u \in Views : claim[u] = name => u = v,
         definition[name] = identity[v], name \notin PendingNames,
         OutputValid(World, focusedOutput), ShowHidden(name, v),
         UNCHANGED <<session, outputVars, locked, configVars>>
  PROVE  PadsInv'
<1> DEFINE q == [Pads EXCEPT !.claim = [Pads.claim EXCEPT ![v] = name]]
<1>1. PICK p \in Show(World, q, v, focusedOutput) : Install(p)
  BY Given DEF ShowHidden, PadsType
<1>2. /\ q \in PadsType /\ q.claim = [Pads.claim EXCEPT ![v] = name]
      /\ q.owner = Pads.owner /\ q.pool = Pads.pool /\ q.shown = Pads.shown
      /\ q.focusedView = Pads.focusedView
  BY Given DEF PadsType
<1> HIDE DEF q
<1>3. q.claim[v] = name /\ \A u \in Views : u # v => q.claim[u] = Pads.claim[u]
  BY <1>2, Given DEF PadsType
<1>4. PadsOK(q) /\ IsPad(q, v) /\ FocusKept(World, q)
  <2>1. PoolKept(q) /\ IsPad(q, v)
    BY <1>2, Given DEF PadsOK, PoolKept, IsPad
  <2>2. ClaimsKept(q)
    BY <1>2, <1>3, Given DEF PadsOK, ClaimsKept, IsPad
  <2>3. FocusKept(World, q)
    BY <1>2, Given DEF FocusKept
  <2> QED
    BY <1>2, <2>1, <2>2, <2>3 DEF PadsOK
<1>5. focusedOutput \in Outputs
  BY Given DEF OutputValid, WorldType
<1>6. /\ PadsOK(p) /\ p.shown = v /\ p.owner[v].output = focusedOutput
      /\ Shuffled(q, p, {q.shown, v}) /\ FocusKept(World, p)
  BY <1>1, <1>4, <1>5, ShowSound
<1>7. ShownValid(World, p) /\ p.claim = [Pads.claim EXCEPT ![v] = name]
  BY <1>2, <1>6 DEF ShownValid, Shuffled
<1>8. \A r \in Elements(pending) : r.name # name
  BY DEF PendingNames, Elements
<1>9. /\ ClaimsMatch(definition, identity, Pads)
      /\ LaunchesKept(definition, World, Pads, pending)
  BY DEF PadsInv, Sound
<1>10. /\ ClaimsMatch(definition, identity, p)
       /\ LaunchesKept(definition, World, p, pending)
  BY <1>7, <1>8, <1>9, Given, NameTaken
<1>11. Sound(definition, identity, World, p, pending)
  BY <1>6, <1>7, <1>10 DEF PadsInv, Sound
<1>12. /\ definition' = definition /\ identity' = identity
       /\ World' = World /\ pending' = pending
  BY DEF outputVars, configVars, World, ShowHidden
<1>13. definition \in Definitions
  BY DEF PadsInv
<1> QED
  BY <1>1, <1>11, <1>12, <1>13, SoundStep

LEMMA ClaimTaggedSound ==
  ASSUME PadsInv, NEW name \in Names, NEW v \in Views, owner[v].kind = "tag",
         \A u \in Views : claim[u] # name,
         definition[name] = identity[v], name \notin PendingNames,
         OutputValid(World, focusedOutput), ClaimTagged(name, v),
         UNCHANGED <<session, outputVars, locked, configVars>>
  PROVE  PadsInv'
<1>1. PICK q \in Pooled(World, Pads, v, name) :
        \E p \in Show(World, q, v, focusedOutput) : Install(p)
  BY DEF ClaimTagged
<1>2. PICK p \in Show(World, q, v, focusedOutput) : Install(p)
  BY <1>1
<1>3. focusedOutput \in Outputs
  BY Given DEF OutputValid, WorldType
<1>4. /\ PadsOK(Pads) /\ Pads.owner[v].kind = "tag"
      /\ \A u \in Views : Pads.claim[u] # name
  BY Given
<1>5. /\ PadsOK(p) /\ ShownValid(World, p) /\ FocusKept(World, p)
      /\ p.claim = [Pads.claim EXCEPT ![v] = name]
  BY <1>2, <1>3, <1>4, PooledShown
<1>6. \A r \in Elements(pending) : r.name # name
  BY DEF PendingNames, Elements
<1>7. /\ ClaimsMatch(definition, identity, Pads)
      /\ LaunchesKept(definition, World, Pads, pending)
  BY DEF PadsInv, Sound
<1>8. /\ ClaimsMatch(definition, identity, p)
      /\ LaunchesKept(definition, World, p, pending)
  BY <1>5, <1>6, <1>7, Given, NameTaken
<1>9. Sound(definition, identity, World, p, pending)
  BY <1>5, <1>8 DEF PadsInv, Sound
<1>10. /\ definition' = definition /\ identity' = identity
       /\ World' = World /\ pending' = pending
  BY DEF outputVars, configVars, World, ClaimTagged
<1>11. definition \in Definitions
  BY DEF PadsInv
<1> QED
  BY <1>2, <1>9, <1>10, <1>11, SoundStep

LEMMA PendingCreateSound ==
  ASSUME PadsInv, NEW name \in Names, definition[name] # NONE,
         \A u \in Views : claim[u] # name, name \notin PendingNames,
         OutputValid(World, focusedOutput), PendingCreate(name),
         UNCHANGED <<session, outputVars, locked, configVars, padVars>>
  PROVE  PadsInv'
<1> DEFINE r == [name |-> name, identity |-> definition[name],
                 destination |-> focusedOutput]
<1>1. LaunchesKept(definition, World, Pads, pending)
  BY DEF PadsInv, Sound
<1>2. focusedOutput \in World.plugged /\ focusedOutput \in Outputs
  BY Given DEF OutputValid, WorldType
<1>3. definition[name] \in Identities
  BY DEF PadsInv, Definitions
<1>4. /\ r \in Requests /\ r.name = name /\ r.identity = definition[name]
      /\ r.destination = focusedOutput
  BY <1>2, <1>3 DEF Requests
<1>5. pending' \in {pending, <<r>> \o pending}
  BY DEF PendingCreate
<1> HIDE DEF r
<1>6. \A t \in Elements(pending) : t.name # name
  BY DEF PendingNames, Elements
<1>7. \A u \in Views : Pads.claim[u] # name
  BY Given
<1>8. LaunchesKept(definition, World, Pads, <<r>> \o pending)
  BY <1>1, <1>2, <1>4, <1>6, <1>7, LaunchAdded
<1>9. LaunchesKept(definition, World, Pads, pending')
  BY <1>1, <1>5, <1>8
<1>10. /\ definition' = definition /\ identity' = identity
       /\ World' = World /\ Install(Pads)
  BY DEF outputVars, configVars, padVars, World, Install, Pads
<1>11. definition \in Definitions
  BY DEF PadsInv
<1>12. Sound(definition, identity, World, Pads, pending')
  BY <1>9 DEF PadsInv, Sound
<1> QED
  BY <1>10, <1>11, <1>12, SoundStep

LEMMA ToggleNamedSound ==
  ASSUME PadsInv, UNCHANGED session, NEW name \in Names, ToggleNamed(name)
  PROVE  PadsInv'
<1>1. /\ UNCHANGED <<session, outputVars, locked, configVars>>
      /\ definition[name] # NONE /\ OutputValid(World, focusedOutput)
  BY DEF ToggleNamed
<1> DEFINE named == {v \in Views : claim[v] = name}
<1>2. CASE name \in PendingNames
  BY <1>1, <1>2, RedirectSound DEF ToggleNamed
<1>3. CASE name \notin PendingNames /\ shown \in named
  <2>1. ToggleShown
    BY <1>3 DEF ToggleNamed
  <2>2. shown \in Views /\ shown # NONE /\ IsPad(Pads, shown)
    BY <1>3, Given, ViewsAssumption
  <2>3. UNCHANGED <<session, outputVars, locked, configVars, pending>>
    BY <1>1, <2>1 DEF ToggleShown
  <2>4. \/ \E p \in Hide(World, Pads, shown, FALSE) : Install(p)
        \/ \E p \in Show(World, Pads, shown, focusedOutput) : Install(p)
    BY <2>1 DEF ToggleShown
  <2>5. ASSUME NEW p \in Hide(World, Pads, shown, FALSE), Install(p)
        PROVE  PadsInv'
    BY <2>2, <2>3, <2>5, HideStep
  <2>6. ASSUME NEW p \in Show(World, Pads, shown, focusedOutput), Install(p)
        PROVE  PadsInv'
    BY <1>1, <2>2, <2>3, <2>6, ShowStep
  <2> QED
    BY <2>4, <2>5, <2>6
<1>4. CASE /\ name \notin PendingNames /\ shown \notin named
           /\ HiddenClaim(name) # <<>>
  <2> DEFINE v == HiddenClaim(name)[1]
  <2>1. ShowHidden(name, v)
    BY <1>4 DEF ToggleNamed
  <2>2. v \in Views /\ IsPad(Pads, v) /\ claim[v] = name
    BY <1>4, Given, PoolFirst, SMTT(60) DEF HiddenClaim
  <2> HIDE DEF v
  <2>3. definition[name] = identity[v] /\ \A u \in Views : claim[u] = name => u = v
    BY <2>2, Given, NamesAssumption
       DEF PadsInv, Sound, ClaimsMatch, PadsOK, ClaimsKept
  <2> QED
    BY <1>1, <1>4, <2>1, <2>2, <2>3, ShowHiddenSound
<1>5. CASE /\ name \notin PendingNames /\ shown \notin named
           /\ HiddenClaim(name) = <<>>
  <2>1. \A u \in Views : claim[u] # name
    BY <1>5, Unclaimed
  <2>2. CASE HiddenIdentity(name) # <<>>
    <3> DEFINE v == HiddenIdentity(name)[1]
    <3>1. ShowHidden(name, v)
      BY <1>5, <2>2 DEF ToggleNamed
    <3>2. /\ v \in Views /\ IsPad(Pads, v) /\ claim[v] = NONE
          /\ identity[v] = definition[name]
      <4> DEFINE S == {u \in Views : /\ Hidden(u) /\ claim[u] = NONE
                                     /\ identity[u] = definition[name]}
      <4>1. HiddenIdentity(name) = Selected(Pads.pool, S)
        BY Given DEF HiddenIdentity
      <4>2. v \in S \cap Views /\ IsPad(Pads, v)
        <5> HIDE DEF S
        <5> QED
          BY <2>2, <4>1, Given, PoolFirst
      <4> QED
        BY <4>2
    <3> HIDE DEF v
    <3> QED
      BY <1>1, <1>5, <2>1, <3>1, <3>2, ShowHiddenSound
  <2>3. CASE HiddenIdentity(name) = <<>> /\ TaggedIdentity(name) # <<>>
    <3> DEFINE v == TaggedIdentity(name)[1]
    <3>1. ClaimTagged(name, v)
      BY <1>5, <2>3 DEF ToggleNamed
    <3>2. history \in Seq(Views)
      BY Given DEF PadsType
    <3>3. v \in Views /\ owner[v].kind = "tag" /\ identity[v] = definition[name]
      BY <2>3, <3>2, SelectedFirst DEF TaggedIdentity
    <3> HIDE DEF v
    <3> QED
      BY <1>1, <1>5, <2>1, <3>1, <3>3, ClaimTaggedSound
  <2>4. CASE HiddenIdentity(name) = <<>> /\ TaggedIdentity(name) = <<>>
    <3>1. PendingCreate(name) /\ UNCHANGED padVars
      BY <1>5, <2>4 DEF ToggleNamed
    <3> QED
      BY <1>1, <1>5, <2>1, <3>1, PendingCreateSound
  <2> QED
    BY <2>2, <2>3, <2>4
<1> QED
  BY <1>2, <1>3, <1>4, <1>5

-----------------------------------------------------------------------------
(* Windows                                                                 *)

\* A refresh of any output after windows changed.
LEMMA RefreshStep ==
  ASSUME PadsInv, UNCHANGED <<session, outputVars, locked, configVars, pending>>,
         NEW q, PadsOK(q), ShownValid(World, q), FocusKept(World, q),
         ClaimsWithin(Pads, q),
         NEW o, NEW p \in Refresh(World, q, o), Install(p)
  PROVE  PadsInv' /\ shown' = q.shown /\ owner' = q.owner
<1>1. FocusOnly(q, p) /\ FocusKept(World, p)
  BY RefreshSound DEF PadsOK
<1>2. PadsOK(p) /\ ShownValid(World, p)
  BY <1>1, FocusOnlyKeeps
<1>3. ClaimsWithin(Pads, p)
  BY <1>1 DEF ClaimsWithin, FocusOnly
<1>4. shown' = q.shown /\ owner' = q.owner
  BY <1>1 DEF FocusOnly, Install
<1> QED
  BY <1>1, <1>2, <1>3, <1>4, PadsStep

LEMMA MapViewSound ==
  ASSUME PadsInv, UNCHANGED session,
         NEW v \in Views, NEW o \in Outputs, NEW id \in TagIds, MapView(v, o, id)
  PROVE  PadsInv' /\ ShownKept
<1> DEFINE x == TagOwner(<<o, id>>)
           placed == [Pads EXCEPT !.owner = [Pads.owner EXCEPT ![v] = x]]
           seen == IF o = focusedOutput /\ current[o] = id
                   THEN Focus(World, placed, v) ELSE placed
<1>1. UNCHANGED <<session, outputVars, locked, configVars, pending>>
  BY DEF MapView
<1>2. PICK p \in Refresh(World, seen, o) : Install(p)
  BY Given DEF MapView, PadsType
<1>3. x \in Owners /\ x.kind = "tag" /\ x.kind # "durable" /\ Eligible(x)
  <2>1. <<o, id>> \in Keys
    BY DEF Keys
  <2> QED
    BY <2>1, NewOwners DEF Eligible
<1>4. ~IsPad(Pads, v) /\ Pads.shown # v /\ Pads.claim[v] = NONE
  <2>1. owner[v].kind = "none"
    BY DEF MapView
  <2>2. ~IsPad(Pads, v)
    BY <2>1, Given DEF IsPad, IsDurable
  <2> QED
    BY <2>2, Given, ViewsAssumption DEF PadsOK, ClaimsKept
<1> HIDE DEF x
<1>5. /\ placed \in PadsType /\ placed.owner = [Pads.owner EXCEPT ![v] = x]
      /\ placed.claim = Pads.claim /\ placed.pool = Pads.pool
      /\ placed.shown = Pads.shown /\ placed.focusedView = Pads.focusedView
  BY <1>3, Given DEF PadsType
<1> HIDE DEF placed
<1>6. /\ placed.claim = [Pads.claim EXCEPT ![v] = NONE]
      /\ placed.shown = IF Pads.shown = v THEN NONE ELSE Pads.shown
      /\ Elements(placed.pool) = Elements(Pads.pool) \ {v}
      /\ Distinct(placed.pool)
  BY <1>4, <1>5, Given DEF PadsOK, PoolKept, PadsType
<1>7. /\ PadsOK(placed) /\ Renamed(Pads, placed, v, NONE)
      /\ FocusKept(World, placed)
  <2>1. PadsOK(Pads) /\ FocusKept(World, Pads)
    BY Given
  <2> QED
    BY <1>3, <1>5, <1>6, <2>1, LeavesSound, ZenonT(90)
<1>8. FocusOnly(placed, seen) /\ FocusKept(World, seen)
  BY <1>5, <1>7, FocusSound DEF FocusOnly
<1> HIDE DEF seen
<1>9. PadsOK(seen) /\ seen.shown = Pads.shown /\ Renamed(Pads, seen, v, NONE)
  BY <1>5, <1>7, <1>8, FocusOnlyKeeps DEF FocusOnly, Renamed
<1>10. ShownValid(World, seen)
  BY <1>4, <1>9, Given DEF ShownValid, Renamed
<1>11. ClaimsWithin(Pads, seen)
  BY <1>9, Given, ClaimsShrink DEF PadsOK
<1>12. PadsInv' /\ shown' = seen.shown
  BY <1>1, <1>2, <1>8, <1>9, <1>10, <1>11, RefreshStep
<1> QED
  BY <1>9, <1>12, Given DEF ShownKept

LEMMA UnmapViewSound ==
  ASSUME PadsInv, UNCHANGED session, NEW v \in Views, UnmapView(v)
  PROVE  PadsInv' /\ ShownKept
<1> DEFINE q == Departed(Pads, v)
<1>1. UNCHANGED <<session, outputVars, locked, configVars, pending>>
  BY DEF UnmapView
<1>2. PICK p \in Refresh(World, q, focusedOutput) : Install(p)
  BY DEF UnmapView
<1>3. /\ PadsOK(q) /\ Renamed(Pads, q, v, NONE) /\ FocusKept(World, q)
      /\ q.owner[v] = NoOwner
      /\ q.shown = IF Pads.shown = v THEN NONE ELSE Pads.shown
  BY Given, DepartedSound
<1> HIDE DEF q
<1>4. ShownValid(World, q) /\ ClaimsWithin(Pads, q)
  BY <1>3, Given, ClaimsShrink DEF ShownValid, Renamed, PadsOK
<1>5. PadsInv' /\ shown' = q.shown /\ owner' = q.owner
  BY <1>1, <1>2, <1>3, <1>4, RefreshStep
<1> QED
  BY <1>3, <1>5, Given DEF ShownKept

LEMMA SetFullscreenSound ==
  ASSUME PadsInv, UNCHANGED session, NEW v \in Views, SetFullscreen(v)
  PROVE  PadsInv' /\ ShownKept
<1> DEFINE q(F) == [Pads EXCEPT !.fullscreen = F]
<1>1. UNCHANGED <<session, outputVars, locked, configVars, pending>>
  BY DEF SetFullscreen
<1>2. ASSUME NEW F \in SUBSET Views
      PROVE  /\ PadsOK(q(F)) /\ ShownValid(World, q(F)) /\ FocusKept(World, q(F))
             /\ ClaimsWithin(Pads, q(F)) /\ q(F).shown = shown
  <2>1. /\ q(F) \in PadsType /\ q(F).owner = Pads.owner
        /\ q(F).claim = Pads.claim /\ q(F).pool = Pads.pool
        /\ q(F).shown = Pads.shown /\ q(F).focusedView = Pads.focusedView
    BY Given DEF PadsType
  <2> HIDE DEF q
  <2>2. PoolKept(q(F)) /\ ClaimsKept(q(F))
    BY <2>1, Given DEF PadsOK, PoolKept, ClaimsKept, IsPad
  <2>3. ShownValid(World, q(F)) /\ FocusKept(World, q(F))
    BY <2>1, Given DEF ShownValid, FocusKept
  <2> QED
    BY <2>1, <2>2, <2>3, Given DEF PadsOK, ClaimsWithin
<1>3. Pads.fullscreen \subseteq Views
  BY Given DEF PadsType
<1>4. CASE Install([Pads EXCEPT !.fullscreen = @ \ {v}])
  <2>1. Install(q(Pads.fullscreen \ {v}))
    BY <1>4
  <2> HIDE DEF q
  <2>2. PadsInv' /\ shown' = shown
    BY <1>1, <1>2, <1>3, <2>1, PadsStep DEF Install
  <2> QED
    BY <2>2 DEF ShownKept
<1>5. ASSUME NEW F \in SUBSET Views,
             NEW p \in Refresh(World, q(F), focusedOutput), Install(p)
      PROVE  PadsInv' /\ ShownKept
  <2> HIDE DEF q
  <2>1. PadsInv' /\ shown' = q(F).shown
    BY <1>1, <1>2, <1>5, RefreshStep
  <2> QED
    BY <1>2, <2>1 DEF ShownKept
<1>6. CASE \E p \in Refresh(World, [Pads EXCEPT !.fullscreen =
                                     IF v \in @ THEN @ \ {v} ELSE @ \cup {v}],
                            focusedOutput) : Install(p)
  <2> DEFINE F == IF v \in Pads.fullscreen THEN Pads.fullscreen \ {v}
                  ELSE Pads.fullscreen \cup {v}
  <2>1. F \in SUBSET Views
    BY <1>3
  <2>2. \E p \in Refresh(World, q(F), focusedOutput) : Install(p)
    BY <1>6
  <2> QED
    BY <1>5, <2>1, <2>2
<1> QED
  BY <1>4, <1>6 DEF SetFullscreen

-----------------------------------------------------------------------------
(* Launches                                                                *)

\* The launch that waits for an identity, and those that are left after it.
LEMMA AwaitedSound ==
  ASSUME PadsInv, NEW i, Awaiting(i) # <<>>
  PROVE  /\ Awaiting(i)[1] \in Elements(pending)
         /\ Awaiting(i)[1] \in Requests
         /\ Awaiting(i)[1].identity = i
         /\ \A u \in Views : claim[u] # Awaiting(i)[1].name
         /\ \A d, w, p : LaunchesKept(d, w, p, pending) =>
                           LaunchesKept(d, w, p, Served(i))
         /\ \A t \in Elements(Served(i)) : t.name # Awaiting(i)[1].name
         /\ Len(Served(i)) < Len(pending)
<1> DEFINE r == Awaiting(i)[1]
<1>1. LaunchesKept(definition, World, Pads, pending) /\ pending \in Seq(Requests)
  BY DEF PadsInv, Sound, LaunchesKept
<1>2. r \in Elements(pending) /\ r.identity = i
  <2> DEFINE S == {t \in Elements(pending) : t.identity = i}
  <2>1. Awaiting(i) = Selected(pending, S)
    BY DEF Awaiting
  <2>2. r \in Elements(pending) \cap S
    <3> HIDE DEF S
    <3> QED
      BY <1>1, <2>1, SelectedFirst
  <2> QED
    BY <2>2
<1>3. r \in Requests
  <2>1. \A k \in DOMAIN pending : pending[k] \in Requests
    BY <1>1
  <2> HIDE DEF r
  <2> QED
    BY <1>2, <2>1 DEF Elements
<1>4. Served(i) = Selected(pending, Elements(pending) \ {r})
  BY DEF Served, Without
<1> HIDE DEF r
<1>5. \A u \in Views : claim[u] # r.name
  BY <1>1, <1>2, Given DEF LaunchesKept
<1>6. \A d, w, p : LaunchesKept(d, w, p, pending) =>
                     LaunchesKept(d, w, p, Served(i))
  BY <1>4, LaunchesShrink
<1>7. Elements(Served(i)) = Elements(pending) \ {r}
  BY <1>1, <1>4, SelectedElements
<1>8. \A t \in Elements(Served(i)) : t.name # r.name
  BY <1>1, <1>2, <1>7 DEF LaunchesKept
<1>9. Len(Served(i)) < Len(pending)
  BY <1>1, <1>2, <1>4, SelectedLength
<1> QED
  BY <1>2, <1>3, <1>5, <1>6, <1>8, <1>9 DEF r

LEMMA LandingSound ==
  ASSUME PadsInv, NEW r, Landing(r) # NONE
  PROVE  Landing(r) \in Outputs /\ OutputValid(World, Landing(r))
<1>1. OutputValid(World, Landing(r))
  BY DEF Landing
<1> QED
  BY <1>1, Given DEF WorldType, OutputValid

LEMMA PendingTimeoutSound ==
  ASSUME PadsInv, UNCHANGED session, NEW name, PendingTimeout(name)
  PROVE  PadsInv'
<1>1. LaunchesKept(definition, World, Pads, pending')
  <2>1. LaunchesKept(definition, World, Pads, pending)
    BY DEF PadsInv, Sound
  <2> QED
    BY <2>1, LaunchesShrink DEF PendingTimeout
<1>2. /\ definition' = definition /\ identity' = identity
      /\ World' = World /\ Install(Pads)
  BY DEF PendingTimeout, outputVars, configVars, padVars, World, Install, Pads
<1>3. definition \in Definitions
  BY DEF PadsInv
<1>4. Sound(definition, identity, World, Pads, pending')
  BY <1>1 DEF PadsInv, Sound
<1> QED
  BY <1>2, <1>3, <1>4, SoundStep

\* A window that maps straight into the pool, shown on o unless that is NONE.
Adopted(p, v, name, o) ==
  [p EXCEPT !.owner[v] = DurableOwner(Scratch, o),
            !.claim[v] = name,
            !.shown = IF o = NONE THEN @ ELSE v,
            !.pool = Promote(@, v)]

LEMMA AdoptedSound ==
  ASSUME NEW w, NEW p, PadsOK(p), NEW v \in Views, p.owner[v].kind = "none",
         NEW name \in Names, \A u \in Views : p.claim[u] # name,
         NEW o \in Outputs \cup {NONE}, o # NONE => p.shown = NONE,
         NEW q, q = Adopted(p, v, name, o)
  PROVE  /\ PadsOK(q) /\ Renamed(p, q, v, name)
         /\ q.owner[v].output = o
         /\ q.shown = IF o = NONE THEN p.shown ELSE v
         /\ p.shown # v
         /\ FocusKept(w, p) => FocusKept(w, q)
<1> DEFINE own == [p.owner EXCEPT ![v] = DurableOwner(Scratch, o)]
           cl == [p.claim EXCEPT ![v] = name]
           pl == Promote(p.pool, v)
           sh == IF o = NONE THEN p.shown ELSE v
<1>1. p \in PadsType /\ ~IsPad(p, v) /\ p.shown # v
  BY ViewsAssumption DEF PadsOK, PoolKept, IsPad, IsDurable
<1>2. /\ own \in [Views -> Owners]
      /\ \A u \in Views : u # v => own[u] = p.owner[u]
      /\ IsDurable(own[v], Scratch) /\ own[v].output = o
  BY <1>1, NewOwners DEF PadsType
<1>3. /\ cl \in [Views -> Names \cup {NONE}]
      /\ cl[v] = name /\ \A u \in Views : u # v => cl[u] = p.claim[u]
  BY <1>1 DEF PadsType
<1>4. /\ pl \in Seq(Views) /\ Elements(pl) = Elements(p.pool) \cup {v}
      /\ Distinct(pl)
  <2>1. p.pool \in Seq(Views) /\ Distinct(p.pool)
    BY DEF PadsOK, PoolKept, PadsType
  <2> QED
    BY <2>1, PromoteElements
<1>5. sh \in Views \cup {NONE}
  BY <1>1 DEF PadsType
<1>6. q = [p EXCEPT !.owner = own, !.claim = cl, !.shown = sh, !.pool = pl]
  BY <1>1 DEF Adopted, PadsType
<1> HIDE DEF own, cl, pl
<1>7. /\ q \in PadsType /\ q.owner = own /\ q.claim = cl /\ q.pool = pl
      /\ q.shown = sh /\ q.focusedView = p.focusedView
  BY <1>1, <1>2, <1>3, <1>4, <1>5, <1>6, ZenonT(90) DEF PadsType
<1>8. \A u \in Views : IsPad(q, u) <=> IsPad(p, u) \/ u = v
  BY <1>2, <1>7 DEF IsPad
<1>9. PoolKept(q)
  <2>1. Elements(q.pool) = {u \in Views : IsPad(q, u)} /\ Distinct(q.pool)
    BY <1>4, <1>7, <1>8 DEF PadsOK, PoolKept
  <2>2. \A u \in Views :
          IsPad(q, u) => (q.owner[u].output # NONE <=> u = q.shown)
    BY <1>1, <1>2, <1>7, <1>8, ViewsAssumption DEF PadsOK, PoolKept
  <2>3. q.shown # NONE => IsPad(q, q.shown)
    BY <1>1, <1>7, <1>8 DEF PadsOK, PoolKept, PadsType
  <2> QED
    BY <2>1, <2>2, <2>3 DEF PoolKept
<1>10. ClaimsKept(q)
  <2>1. SUFFICES ASSUME NEW u \in Views, q.claim[u] # NONE
                 PROVE  /\ IsPad(q, u)
                        /\ \A x \in Views : q.claim[x] = q.claim[u] => x = u
    BY DEF ClaimsKept
  <2>2. IsPad(q, u)
    BY <1>3, <1>7, <1>8, <2>1 DEF PadsOK, ClaimsKept
  <2>3. ASSUME NEW x \in Views, q.claim[x] = q.claim[u] PROVE x = u
    BY <1>3, <1>7, <2>1, <2>3 DEF PadsOK, ClaimsKept
  <2> QED
    BY <2>2, <2>3
<1>11. FocusKept(w, p) => FocusKept(w, q)
  <2>1. p.focusedView # NONE => p.focusedView \in Views
    BY <1>1 DEF PadsType
  <2>2. p.focusedView = v => ~Eligible(p.owner[v])
    BY DEF Eligible
  <2> QED
    BY <1>2, <1>7, <2>1, <2>2 DEF FocusKept
<1>12. Renamed(p, q, v, name) /\ q.owner[v].output = o
  BY <1>2, <1>7 DEF Renamed, cl
<1> QED
  BY <1>1, <1>7, <1>9, <1>10, <1>11, <1>12 DEF PadsOK

LEMMA AdoptMapSound ==
  ASSUME PadsInv, UNCHANGED session, NEW v \in Views, AdoptMap(v)
  PROVE  PadsInv' /\ ShownKept
<1> DEFINE i == identity[v]
           r == Awaiting(i)[1]
           o == Landing(r)
           ready == IF o = NONE \/ shown = NONE THEN {Pads}
                    ELSE Hide(World, Pads, shown, FALSE)
<1>1. /\ UNCHANGED <<outputVars, locked, configVars>>
      /\ owner[v].kind = "none" /\ Awaiting(i) # <<>>
      /\ definition[r.name] = r.identity /\ pending' = Served(i)
  BY SMTT(60) DEF AdoptMap
<1>2. PICK q \in ready : Install(Focus(World, Adopted(q, v, r.name, o), v))
  BY DEF AdoptMap, Adopted
<1>3. /\ r \in Requests /\ r.identity = i
      /\ \A u \in Views : claim[u] # r.name
      /\ \A d, w, p : LaunchesKept(d, w, p, pending) =>
                        LaunchesKept(d, w, p, Served(i))
      /\ \A t \in Elements(Served(i)) : t.name # r.name
      /\ Len(Served(i)) < Len(pending)
  BY <1>1, AwaitedSound
<1>4. r.name \in Names
  BY <1>3 DEF Requests
<1>5. o \in Outputs \cup {NONE} /\ (o # NONE => OutputValid(World, o))
  BY LandingSound
<1> HIDE DEF i, r, o
<1>6. /\ PadsOK(q) /\ q.claim = Pads.claim /\ q.owner[v].kind = "none"
      /\ FocusKept(World, q) /\ ShownValid(World, q)
      /\ o # NONE => q.shown = NONE
      /\ q.shown = NONE \/ q = Pads
      /\ o = NONE => q = Pads
  <2>1. CASE o = NONE \/ shown = NONE
    BY <1>1, <1>2, <2>1, Given
  <2>2. CASE ~(o = NONE \/ shown = NONE)
    <3>1. Pads.shown # NONE /\ q \in Hide(World, Pads, Pads.shown, FALSE)
      BY <1>2, <2>2, Given
    <3>2. /\ PadsOK(q) /\ q.shown = NONE /\ Shuffled(Pads, q, {Pads.shown})
          /\ FocusKept(World, q)
      BY <3>1, Given, HideSound
    <3> QED
      BY <1>1, <3>2, Given DEF ShownValid, Shuffled
  <2> QED
    BY <2>1, <2>2
<1> DEFINE x == Adopted(q, v, r.name, o)
<1>7. /\ PadsOK(x) /\ Renamed(q, x, v, r.name) /\ x.owner[v].output = o
      /\ x.shown = (IF o = NONE THEN q.shown ELSE v) /\ q.shown # v
      /\ FocusKept(World, x)
  <2>1. \A u \in Views : q.claim[u] # r.name
    BY <1>3, <1>6, Given
  <2>2. o # NONE => q.shown = NONE
    BY <1>6
  <2> HIDE DEF ready
  <2> QED
    BY <1>4, <1>5, <1>6, <2>1, <2>2, AdoptedSound
<1> HIDE DEF x
<1> DEFINE p == Focus(World, x, v)
<1>8. FocusOnly(x, p) /\ FocusKept(World, p)
  BY <1>7, FocusSound DEF PadsOK
<1>9. Install(p)
  BY <1>2 DEF x
<1> HIDE DEF p
<1>10. ShownValid(World, x)
  BY <1>5, <1>6, <1>7 DEF ShownValid, Renamed, PadsOK, PadsType
<1>11. PadsOK(p) /\ ShownValid(World, p)
  BY <1>7, <1>8, <1>10, FocusOnlyKeeps
<1>12. p.claim = [Pads.claim EXCEPT ![v] = r.name]
  BY <1>6, <1>7, <1>8 DEF FocusOnly, Renamed
<1>13. /\ ClaimsMatch(definition, identity, Pads)
       /\ LaunchesKept(definition, World, Pads, pending')
  BY <1>1, <1>3 DEF PadsInv, Sound
<1>14. definition[r.name] = identity[v]
  BY <1>1, <1>3 DEF i
<1>15. /\ ClaimsMatch(definition, identity, p)
       /\ LaunchesKept(definition, World, p, pending')
  <2>1. Pads \in PadsType
    BY Given
  <2>2. \A t \in Elements(pending') : t.name # r.name
    BY <1>1, <1>3
  <2> QED
    BY <1>4, <1>12, <1>13, <1>14, <2>1, <2>2, NameTaken
<1>16. /\ definition' = definition /\ identity' = identity /\ World' = World
  BY <1>1 DEF outputVars, configVars, World
<1>17. Sound(definition, identity, World, p, pending')
  BY <1>8, <1>11, <1>15 DEF PadsInv, Sound
<1>18. definition \in Definitions
  BY DEF PadsInv
<1>19. PadsInv'
  BY <1>9, <1>16, <1>17, <1>18, SoundStep
<1>20. ShownKept
  <2>1. shown' = x.shown
    BY <1>8, <1>9 DEF FocusOnly, Install
  <2>2. CASE o = NONE
    BY <1>6, <1>7, <2>1, <2>2, Given DEF ShownKept
  <2>3. CASE o # NONE
    BY <1>1, <1>3, <1>7, <2>1, <2>3, ViewsAssumption DEF ShownKept
  <2> QED
    BY <2>2, <2>3
<1> QED
  BY <1>19, <1>20

\* What a new identity leaves of the claims.
LEMMA KeptSound ==
  ASSUME PadsInv, NEW v \in Views, NEW i \in Identities,
         NEW q, q = [Pads EXCEPT !.claim[v] = KeptClaim(v, i)]
  PROVE  /\ PadsOK(q) /\ ShownValid(World, q) /\ FocusKept(World, q)
         /\ ClaimsWithin(Pads, q) /\ q.owner = Pads.owner
         /\ ClaimsMatch(definition, [identity EXCEPT ![v] = i], q)
         /\ q.shown = Pads.shown
<1> DEFINE cl == [Pads.claim EXCEPT ![v] = KeptClaim(v, i)]
<1>1. /\ KeptClaim(v, i) \in {NONE, Pads.claim[v]}
      /\ KeptClaim(v, i) # NONE => definition[KeptClaim(v, i)] = i
  BY Given DEF KeptClaim
<1>2. /\ cl \in [Views -> Names \cup {NONE}]
      /\ cl[v] = KeptClaim(v, i)
      /\ \A u \in Views : u # v => cl[u] = Pads.claim[u]
  BY <1>1, Given DEF PadsType
<1>3. q = [Pads EXCEPT !.claim = cl]
  BY Given DEF PadsType
<1> HIDE DEF cl
<1>4. /\ q \in PadsType /\ q.claim = cl /\ q.owner = Pads.owner
      /\ q.pool = Pads.pool /\ q.shown = Pads.shown
      /\ q.focusedView = Pads.focusedView
  BY <1>2, <1>3, Given DEF PadsType
<1>5. PoolKept(q)
  BY <1>4, Given DEF PadsOK, PoolKept, IsPad
<1>6. ClaimsWithin(Pads, q)
  BY <1>1, <1>2, <1>4 DEF ClaimsWithin
<1>7. ClaimsKept(q)
  <2>1. ClaimsKept(Pads) /\ \A u \in Views : IsPad(q, u) <=> IsPad(Pads, u)
    BY <1>4, Given DEF PadsOK, IsPad
  <2> QED
    BY <1>6, <2>1 DEF ClaimsKept, ClaimsWithin
<1>8. ShownValid(World, q) /\ FocusKept(World, q)
  BY <1>4, Given DEF ShownValid, FocusKept
<1>9. ClaimsMatch(definition, [identity EXCEPT ![v] = i], q)
  <2>1. ClaimsMatch(definition, identity, Pads) /\ identity \in [Views -> Identities]
    BY DEF PadsInv, Sound
  <2> QED
    BY <1>1, <1>2, <1>4, <2>1 DEF ClaimsMatch
<1> QED
  BY <1>4, <1>5, <1>6, <1>7, <1>8, <1>9 DEF PadsOK

LEMMA SetIdentitySound ==
  ASSUME PadsInv, UNCHANGED session, NEW v \in Views, NEW i \in Identities,
         SetIdentity(v, i)
  PROVE  PadsInv' /\ ShownKept
<1> DEFINE kept == [Pads EXCEPT !.claim[v] = KeptClaim(v, i)]
           r == Awaiting(i)[1]
           adopts == /\ owner[v].kind = "tag" /\ Awaiting(i) # <<>>
                     /\ definition[r.name] = r.identity /\ kept.claim[v] = NONE
<1>1. /\ UNCHANGED <<outputVars, locked, definition>>
      /\ identity' = [identity EXCEPT ![v] = i]
  BY DEF SetIdentity
<1>2. /\ definition' = definition /\ World' = World
      /\ definition \in Definitions /\ DefinitionsOK(definition)
      /\ WorldOK(World)
      /\ identity' \in [Views -> Identities]
      /\ LaunchesKept(definition, World, Pads, pending)
  BY <1>1 DEF outputVars, World, PadsInv, Sound
<1>3. /\ PadsOK(kept) /\ ShownValid(World, kept) /\ FocusKept(World, kept)
      /\ ClaimsWithin(Pads, kept) /\ kept.owner = Pads.owner
      /\ ClaimsMatch(definition, identity', kept) /\ kept.shown = Pads.shown
  BY <1>1, KeptSound
<1>4. LaunchesKept(definition, World, kept, pending)
  <2>1. ClaimsMatch(definition, identity, Pads)
    BY DEF PadsInv, Sound
  <2> HIDE DEF kept
  <2> QED
    BY <1>2, <1>3, <2>1, NamesShrink
<1>5. CASE ~adopts
  <2>1. Install(kept) /\ pending' = pending
    BY <1>5 DEF SetIdentity
  <2> HIDE DEF kept
  <2>2. Sound(definition, identity', World, kept, pending)
    BY <1>2, <1>3, <1>4 DEF Sound
  <2>3. PadsInv'
    BY <1>2, <2>1, <2>2, SoundStep
  <2>4. shown' = shown
    BY <1>3, <2>1, Given DEF Install
  <2> QED
    BY <2>3, <2>4 DEF ShownKept
<1>6. CASE adopts
  <2>1. /\ \E q \in Pooled(World, kept, v, r.name) :
             \E p \in IF Landing(r) = NONE THEN {q}
                      ELSE Show(World, q, v, Landing(r)) : Install(p)
        /\ pending' = Served(i)
    BY <1>6 DEF SetIdentity
  <2>2. PICK q \in Pooled(World, kept, v, r.name) :
          \E p \in IF Landing(r) = NONE THEN {q}
                   ELSE Show(World, q, v, Landing(r)) : Install(p)
    BY <2>1
  <2>3. PICK p \in IF Landing(r) = NONE THEN {q}
                   ELSE Show(World, q, v, Landing(r)) : Install(p)
    BY <2>2
  <2>4. /\ r \in Requests /\ r.identity = i
        /\ \A u \in Views : claim[u] # r.name
        /\ LaunchesKept(definition, World, kept, Served(i))
        /\ \A t \in Elements(Served(i)) : t.name # r.name
        /\ Len(Served(i)) < Len(pending)
    BY <1>4, <1>6, AwaitedSound
  <2>5. r.name \in Names /\ definition[r.name] = i
    BY <1>6, <2>4 DEF Requests
  <2>6. kept.owner[v].kind = "tag"
    BY <1>3, <1>6, Given
  <2> HIDE DEF kept, r, adopts
  <2>7. \A u \in Views : kept.claim[u] # r.name
    BY <1>3, <2>4, <2>5, Given, NamesAssumption DEF ClaimsWithin
  <2>8. /\ PadsOK(p) /\ ShownValid(World, p) /\ FocusKept(World, p)
        /\ p.claim = [kept.claim EXCEPT ![v] = r.name]
        /\ p.shown \in {v, kept.shown}
    <3>1. CASE Landing(r) # NONE
      <4>1. p \in Show(World, q, v, Landing(r))
        BY <2>3, <3>1
      <4>2. Landing(r) \in Outputs /\ OutputValid(World, Landing(r))
        BY <3>1, LandingSound
      <4> QED
        BY <1>3, <2>5, <2>6, <2>7, <4>1, <4>2, PooledShown, SMTT(60)
    <3>2. CASE Landing(r) = NONE
      <4>1. p = q
        BY <2>3, <3>2
      <4>2. r.name # NONE
        BY <2>5, NamesAssumption
      <4>3. /\ PadsOK(q) /\ q.shown = kept.shown /\ kept.shown # v
            /\ Renamed(kept, q, v, r.name) /\ FocusKept(World, q)
        BY <1>3, <2>5, <2>6, <2>7, PooledSound
      <4>4. ShownValid(World, q)
        BY <1>3, <4>3 DEF ShownValid, Renamed, PadsOK, PadsType
      <4> QED
        BY <4>1, <4>3, <4>4 DEF Renamed
    <3> QED
      BY <3>1, <3>2
  <2>9. identity'[v] = i
    BY <1>1 DEF PadsInv, Sound
  <2>10. /\ ClaimsMatch(definition, identity', p)
         /\ LaunchesKept(definition, World, p, Served(i))
    <3>1. kept \in PadsType
      BY <1>3 DEF PadsOK
    <3>2. definition[r.name] = identity'[v]
      BY <2>5, <2>9
    <3> DEFINE ids == identity'
               l == Served(i)
    <3>3. /\ ClaimsMatch(definition, ids, kept) /\ definition[r.name] = ids[v]
          /\ LaunchesKept(definition, World, kept, l)
          /\ \A t \in Elements(l) : t.name # r.name
      BY <1>3, <2>4, <3>2
    <3> HIDE DEF ids, l
    <3>4. ClaimsMatch(definition, ids, p) /\ LaunchesKept(definition, World, p, l)
      BY <2>5, <2>8, <3>1, <3>3, NameTaken
    <3> QED
      BY <3>4 DEF ids, l
  <2>11. Sound(definition, identity', World, p, pending')
    BY <1>2, <2>1, <2>8, <2>10 DEF Sound
  <2>12. PadsInv'
    BY <1>2, <2>3, <2>11, SoundStep
  <2>13. shown' \in {v, shown}
    BY <1>3, <2>3, <2>8, Given DEF Install
  <2> QED
    BY <2>1, <2>4, <2>12, <2>13, ViewsAssumption DEF ShownKept
<1> QED
  BY <1>5, <1>6

-----------------------------------------------------------------------------
(* The lock and the focus                                                  *)

LEMMA LockSound ==
  ASSUME PadsInv, UNCHANGED session, Lock
  PROVE  PadsInv'
<1>1. /\ UNCHANGED <<session, configVars, pending, plugged>>
      /\ Install(Pads)
  BY DEF Lock, padVars, outputVars, Install, Pads
<1>2. WorldOK(World') /\ FocusKept(World', Pads)
  BY Given DEF Lock, outputVars, WorldOK, WorldType, World, FocusKept
<1>3. ShownValid(World', Pads)
  BY Given DEF Lock, outputVars, ShownValid, OutputValid, World
<1>4. PadsOK(Pads) /\ ClaimsWithin(Pads, Pads)
  BY Given DEF ClaimsWithin
<1> QED
  BY <1>1, <1>2, <1>3, <1>4, WindowsStep

\* The world after a step in which no output comes, goes or changes its power.
LEMMA SameOutputs ==
  ASSUME PadsInv, UNCHANGED <<plugged, enabled, powered>>,
         current' \in [Outputs -> TagIds], focusedOutput' \in Outputs \cup {NONE},
         locked' \in BOOLEAN
  PROVE  /\ WorldOK(World')
         /\ \A p : ShownValid(World, p) => ShownValid(World', p)
         /\ \A o : OutputValid(World, o) <=> OutputValid(World', o)
<1>1. WorldOK(World')
  BY Given DEF WorldOK, WorldType, World
<1>2. \A o : OutputValid(World, o) <=> OutputValid(World', o)
  BY DEF OutputValid, World
<1> QED
  BY <1>1, <1>2 DEF ShownValid

LEMMA WorldTypes ==
  ASSUME PadsInv
  PROVE  /\ current \in [Outputs -> TagIds] /\ locked \in BOOLEAN
         /\ focusedOutput \in Outputs \cup {NONE}
         /\ plugged \subseteq Outputs /\ enabled \subseteq plugged
         /\ powered \subseteq Outputs
         /\ World.plugged = plugged /\ World.enabled = enabled
         /\ World.powered = powered /\ World.locked = locked
         /\ World.focusedOutput = focusedOutput
<1>1. /\ World.plugged = plugged /\ World.enabled = enabled
      /\ World.powered = powered /\ World.locked = locked
      /\ World.focusedOutput = focusedOutput /\ World.current = current
  BY DEF World
<1> QED
  BY <1>1, Given DEF WorldOK, WorldType

LEMMA UnlockSound ==
  ASSUME PadsInv, UNCHANGED session, Unlock
  PROVE  PadsInv' /\ ShownKept
<1>1. /\ UNCHANGED <<session, configVars, pending, plugged, enabled, powered>>
      /\ UNCHANGED <<current, focusedOutput>> /\ locked' \in BOOLEAN
  BY DEF Unlock, outputVars
<1>2. PICK q \in RestoreKeyboardFocus(World', Pads) :
        \E p \in {q} \cup UNION {Point(World', q, o) : o \in enabled} : Install(p)
  BY DEF Unlock
<1>3. PICK p \in {q} \cup UNION {Point(World', q, o) : o \in enabled} : Install(p)
  BY <1>2
<1>4. WorldOK(World') /\ \A x : ShownValid(World, x) => ShownValid(World', x)
  BY <1>1, SameOutputs, WorldTypes
<1>5. FocusOnly(Pads, q) /\ FocusKept(World', q)
  BY Given, RestoreKeyboardFocusSound
<1>6. p = q \/ (FocusOnly(q, p) /\ FocusKept(World', p))
  <2>1. CASE p # q
    <3>1. PICK o : p \in Point(World', q, o)
      BY <1>3, <2>1
    <3> QED
      BY <1>5, <3>1, PointSound DEF FocusOnly
  <2> QED
    BY <2>1
<1>7. FocusOnly(Pads, p) /\ FocusKept(World', p)
  BY <1>5, <1>6 DEF FocusOnly
<1>8. PadsOK(p) /\ ShownValid(World', p) /\ ClaimsWithin(Pads, p)
  BY <1>4, <1>7, Given, FocusOnlyKeeps, ClaimsShrink DEF PadsOK
<1>9. PadsInv'
  BY <1>1, <1>3, <1>4, <1>7, <1>8, WindowsStep
<1>10. shown' = shown
  BY <1>3, <1>7, Given DEF FocusOnly, Install
<1> QED
  BY <1>9, <1>10 DEF ShownKept

LEMMA FocusTagSound ==
  ASSUME PadsInv, UNCHANGED session, NEW id \in TagIds, FocusTag(id)
  PROVE  PadsInv'
<1>1. /\ UNCHANGED <<session, configVars, pending, plugged, enabled, powered>>
      /\ UNCHANGED <<locked, focusedOutput>>
      /\ current' = [current EXCEPT ![focusedOutput] = id]
  BY DEF FocusTag
<1>2. PICK p \in Refresh(World', Pads, focusedOutput) : Install(p)
  BY DEF FocusTag
<1>3. WorldOK(World') /\ \A x : ShownValid(World, x) => ShownValid(World', x)
  <2>1. current' \in [Outputs -> TagIds]
    BY <1>1, WorldTypes
  <2> QED
    BY <1>1, <2>1, SameOutputs, WorldTypes
<1>4. FocusKept(World', Pads)
  BY <1>1, Given DEF FocusKept, World
<1>5. FocusOnly(Pads, p) /\ FocusKept(World', p)
  BY <1>2, <1>4, Given, RefreshSound
<1>6. PadsOK(p) /\ ShownValid(World', p) /\ ClaimsWithin(Pads, p)
  BY <1>3, <1>5, Given, FocusOnlyKeeps, ClaimsShrink DEF PadsOK
<1> QED
  BY <1>1, <1>2, <1>3, <1>5, <1>6, WindowsStep

LEMMA PointerMotionSound ==
  ASSUME PadsInv, UNCHANGED session, NEW o \in Outputs, PointerMotion(o)
  PROVE  PadsInv'
<1>1. /\ UNCHANGED <<session, configVars, pending, plugged, enabled, powered>>
      /\ UNCHANGED <<locked, current>> /\ focusedOutput' = o
  BY DEF PointerMotion
<1>2. PICK q \in IF o = focusedOutput THEN {Pads} ELSE Refresh(World', Pads, o) :
        \E p \in Point(World', q, o) : Install(p)
  BY DEF PointerMotion
<1>3. PICK p \in Point(World', q, o) : Install(p)
  BY <1>2
<1>4. WorldOK(World') /\ \A x : ShownValid(World, x) => ShownValid(World', x)
  BY <1>1, SameOutputs, WorldTypes
<1>5. FocusKept(World', Pads)
  BY <1>1, Given DEF FocusKept, World
<1>6. FocusOnly(Pads, q) /\ FocusKept(World', q)
  <2>1. CASE q = Pads
    BY <1>5, <2>1, Given DEF FocusOnly
  <2>2. CASE q # Pads
    BY <1>2, <1>5, <2>2, Given, RefreshSound
  <2> QED
    BY <2>1, <2>2
<1>7. FocusOnly(Pads, p) /\ FocusKept(World', p)
  BY <1>3, <1>6, PointSound DEF FocusOnly
<1>8. PadsOK(p) /\ ShownValid(World', p) /\ ClaimsWithin(Pads, p)
  BY <1>4, <1>7, Given, FocusOnlyKeeps, ClaimsShrink DEF PadsOK
<1> QED
  BY <1>1, <1>3, <1>4, <1>7, <1>8, WindowsStep

LEMMA ToplevelActivateSound ==
  ASSUME PadsInv, UNCHANGED session, ToplevelActivate
  PROVE  PadsInv'
<1> DEFINE p == Focus(World, Pads, shown)
<1>1. /\ UNCHANGED <<session, outputVars, locked, configVars, pending>>
      /\ Install(p) /\ shown # NONE
  BY DEF ToplevelActivate
<1>2. FocusOnly(Pads, p) /\ FocusKept(World, p)
  BY <1>1, Given, FocusSound
<1> HIDE DEF p
<1>3. PadsOK(p) /\ ShownValid(World, p) /\ ClaimsWithin(Pads, p)
  BY <1>2, Given, FocusOnlyKeeps, ClaimsShrink DEF PadsOK
<1> QED
  BY <1>1, <1>2, <1>3, PadsStep

LEMMA MoveShownSound ==
  ASSUME PadsInv, UNCHANGED session, NEW o \in Outputs, MoveShown(o)
  PROVE  PadsInv'
<1> DEFINE v == shown
           moved == [Pads EXCEPT !.owner = [Pads.owner EXCEPT ![v] =
                                              Presented(Pads.owner[v], o)]]
<1>1. /\ UNCHANGED <<session, configVars, pending, plugged, enabled, powered>>
      /\ UNCHANGED <<locked, current>> /\ focusedOutput' = o
      /\ shown # NONE /\ OutputValid(World, o)
  BY DEF MoveShown
<1>2. PICK q \in Refresh(World', moved, o) : Install(Focus(World', q, v))
  BY Given DEF MoveShown, PadsType
<1>3. /\ v \in Views /\ IsPad(Pads, v) /\ v = Pads.shown
      /\ Pads.owner[v] \in Owners /\ Pads.owner[v].kind = "durable"
  BY <1>1, Given DEF PadsType, IsPad, IsDurable
<1> HIDE DEF v
<1>4. /\ Presented(Pads.owner[v], o) \in Owners
      /\ Presented(Pads.owner[v], o).kind = "durable"
      /\ Presented(Pads.owner[v], o).reason = Pads.owner[v].reason
      /\ Presented(Pads.owner[v], o).output = o
  BY <1>3, PresentedOwner
<1>5. /\ moved \in PadsType
      /\ \A u \in Views : u # v => moved.owner[u] = Pads.owner[u]
      /\ moved.owner[v] = Presented(Pads.owner[v], o)
      /\ moved.claim = Pads.claim /\ moved.pool = Pads.pool
      /\ moved.shown = v /\ moved.focusedView = Pads.focusedView
  BY <1>3, <1>4, Given DEF PadsType
<1> HIDE DEF moved
<1>6. \A u \in Views : IsPad(moved, u) <=> IsPad(Pads, u)
  BY <1>3, <1>4, <1>5 DEF IsPad, IsDurable
<1>7. PadsOK(moved)
  <2>1. Elements(moved.pool) = {u \in Views : IsPad(moved, u)} /\ Distinct(moved.pool)
    BY <1>5, <1>6, Given DEF PadsOK, PoolKept
  <2>2. \A u \in Views : IsPad(moved, u) => (moved.owner[u].output # NONE <=> u = v)
    BY <1>3, <1>4, <1>5, <1>6, Given, ViewsAssumption DEF PadsOK, PoolKept
  <2>3. PoolKept(moved)
    BY <1>3, <1>5, <1>6, <2>1, <2>2 DEF PoolKept
  <2>4. ClaimsKept(moved)
    BY <1>5, <1>6, Given DEF PadsOK, ClaimsKept
  <2> QED
    BY <1>5, <2>3, <2>4 DEF PadsOK
<1>8. WorldOK(World') /\ \A x : OutputValid(World, x) <=> OutputValid(World', x)
  BY <1>1, SameOutputs, WorldTypes
<1>9. ShownValid(World', moved)
  BY <1>1, <1>4, <1>5, <1>8 DEF ShownValid
<1>10. World'.focusedOutput = o /\ o # NONE
  BY <1>1, ViewsAssumption DEF World
<1>11. FocusOnly(moved, q) /\ FocusKept(World', q)
  BY <1>2, <1>5, <1>10, RefreshSound
<1> DEFINE p == Focus(World', q, v)
<1>12. FocusOnly(q, p) /\ FocusKept(World', p)
  BY <1>3, <1>11, FocusSound DEF FocusOnly
<1>13. Install(p)
  BY <1>2
<1> HIDE DEF p
<1>14. PadsOK(p) /\ ShownValid(World', p)
  BY <1>7, <1>9, <1>11, <1>12, FocusOnlyKeeps
<1>15. ClaimsWithin(Pads, p)
  BY <1>5, <1>11, <1>12 DEF FocusOnly, ClaimsWithin
<1> QED
  BY <1>1, <1>8, <1>12, <1>13, <1>14, <1>15, WindowsStep

-----------------------------------------------------------------------------
(* Outputs and the configuration                                           *)

\* The world after leme_output_reconcile, whose outputs are those of w.
LEMMA SettledWorld ==
  ASSUME NEW w, WorldOK(w), NEW p, PadsOK(p), FocusKept(w, p),
         NEW s \in Settle(w, p),
         plugged' = w.plugged, enabled' = w.enabled, powered' = w.powered,
         locked' = w.locked, current' = w.current, focusedOutput' = s[1]
  PROVE  /\ WorldOK(World') /\ World'.plugged = w.plugged
         /\ PadsOK(s[2]) /\ ShownValid(World', s[2]) /\ FocusKept(World', s[2])
         /\ s[2].claim = p.claim
         /\ \/ s[2].shown = p.shown
            \/ ~OutputValid(World', p.owner[p.shown].output)
<1>1. /\ s[1] \in Outputs \cup {NONE}
      /\ PadsOK(s[2]) /\ ShownValid(w, s[2]) /\ Shuffled(p, s[2], {p.shown})
      /\ FocusKept(w, s[2])
      /\ \/ s[2].shown = p.shown
         \/ ~OutputValid(w, p.owner[p.shown].output)
  BY SettleSound
<1>2. /\ World'.plugged = w.plugged /\ World'.enabled = w.enabled
      /\ World'.powered = w.powered /\ World'.locked = w.locked
      /\ World'.current = w.current /\ World'.focusedOutput = s[1]
  BY DEF World
<1>3. WorldOK(World')
  <2>1. /\ w.plugged \in SUBSET Outputs /\ w.enabled \in SUBSET Outputs
        /\ w.powered \in SUBSET Outputs /\ w.current \in [Outputs -> TagIds]
        /\ w.locked \in BOOLEAN /\ w.enabled \subseteq w.plugged
    BY DEF WorldOK, WorldType
  <2>2. World' \in WorldType
    BY <1>1, <2>1 DEF World, WorldType
  <2> QED
    BY <1>2, <2>1, <2>2 DEF WorldOK
<1>4. ShownValid(World', s[2]) /\ FocusKept(World', s[2])
  BY <1>1, <1>2 DEF ShownValid, OutputValid, FocusKept
<1>5. \A x : OutputValid(World', x) <=> OutputValid(w, x)
  BY <1>2 DEF OutputValid
<1> QED
  BY <1>1, <1>2, <1>3, <1>4, <1>5 DEF Shuffled

LEMMA SetPowerSound ==
  ASSUME PadsInv, UNCHANGED session, NEW o, NEW on, SetPower(o, on)
  PROVE  PadsInv' /\ ShownKept
<1> DEFINE w == [World EXCEPT !.enabled = enabled', !.powered = powered']
<1>1. /\ UNCHANGED <<session, configVars, pending, plugged, current, locked>>
      /\ enabled' \in SUBSET plugged /\ powered' \in SUBSET Outputs
  BY WorldTypes DEF SetPower
<1>2. PICK s \in Settle(w, Pads) :
        /\ focusedOutput' = s[1]
        /\ \E p \in IF s[1] \in {NONE, focusedOutput} THEN {s[2]}
                    ELSE Point(World', s[2], s[1]) : Install(p)
  BY DEF SetPower
<1>3. /\ WorldOK(w) /\ FocusKept(w, Pads)
      /\ w.plugged = plugged /\ w.enabled = enabled' /\ w.powered = powered'
      /\ w.current = current /\ w.locked = locked
  <2>1. /\ w.plugged = plugged /\ w.enabled = enabled' /\ w.powered = powered'
        /\ w.current = current /\ w.locked = locked
    BY DEF World
  <2>2. w \in WorldType
    BY <1>1, Given, WorldTypes DEF WorldType
  <2>3. FocusKept(w, Pads)
    BY <2>1, Given, WorldTypes DEF FocusKept
  <2> QED
    BY <1>1, <2>1, <2>2, <2>3 DEF WorldOK
<1> HIDE DEF w
<1>4. /\ WorldOK(World') /\ PadsOK(s[2]) /\ ShownValid(World', s[2])
      /\ FocusKept(World', s[2]) /\ s[2].claim = Pads.claim
      /\ \/ s[2].shown = Pads.shown
         \/ ~OutputValid(World', Pads.owner[Pads.shown].output)
  BY <1>1, <1>2, <1>3, Given, SettledWorld
<1>5. PICK p \in IF s[1] \in {NONE, focusedOutput} THEN {s[2]}
                 ELSE Point(World', s[2], s[1]) : Install(p)
  BY <1>2
<1>6. FocusOnly(s[2], p) /\ FocusKept(World', p)
  BY <1>4, <1>5, PointSound DEF FocusOnly, PadsOK
<1>7. PadsOK(p) /\ ShownValid(World', p)
  BY <1>4, <1>6, FocusOnlyKeeps
<1>8. ClaimsWithin(Pads, p)
  BY <1>4, <1>6 DEF FocusOnly, ClaimsWithin
<1>9. PadsInv'
  BY <1>1, <1>4, <1>5, <1>6, <1>7, <1>8, WindowsStep
<1>10. shown' = s[2].shown
  BY <1>5, <1>6 DEF FocusOnly, Install
<1> QED
  BY <1>4, <1>9, <1>10, Given DEF ShownKept

LEMMA ManagerApplySound ==
  ASSUME PadsInv, UNCHANGED session, NEW heads \in SUBSET plugged,
         ManagerApply(heads)
  PROVE  PadsInv' /\ ShownKept
<1> DEFINE w == [World EXCEPT !.enabled = heads]
<1>1. /\ UNCHANGED <<session, configVars, pending, plugged, current, locked>>
      /\ UNCHANGED powered /\ enabled' = heads
  BY DEF ManagerApply
<1>2. PICK s \in Settle(w, Pads) : focusedOutput' = s[1] /\ Install(s[2])
  BY DEF ManagerApply
<1>3. /\ WorldOK(w) /\ FocusKept(w, Pads)
      /\ w.plugged = plugged /\ w.enabled = enabled' /\ w.powered = powered'
      /\ w.current = current /\ w.locked = locked
  <2>1. /\ w.plugged = plugged /\ w.enabled = enabled' /\ w.powered = powered'
        /\ w.current = current /\ w.locked = locked
    BY <1>1 DEF World
  <2>2. w \in WorldType
    BY Given, WorldTypes DEF WorldType
  <2>3. FocusKept(w, Pads)
    BY <2>1, Given, WorldTypes DEF FocusKept
  <2> QED
    BY <1>1, <2>1, <2>2, <2>3 DEF WorldOK
<1> HIDE DEF w
<1>4. /\ WorldOK(World') /\ PadsOK(s[2]) /\ ShownValid(World', s[2])
      /\ FocusKept(World', s[2]) /\ s[2].claim = Pads.claim
      /\ \/ s[2].shown = Pads.shown
         \/ ~OutputValid(World', Pads.owner[Pads.shown].output)
  BY <1>1, <1>2, <1>3, Given, SettledWorld
<1>5. ClaimsWithin(Pads, s[2])
  BY <1>4 DEF ClaimsWithin
<1>6. PadsInv'
  BY <1>1, <1>2, <1>4, <1>5, WindowsStep
<1>7. shown' = s[2].shown
  BY <1>2 DEF Install
<1> QED
  BY <1>4, <1>6, <1>7, Given DEF ShownKept

\* A step that changes the outputs themselves, and claims no name.
LEMMA OutputsStep ==
  ASSUME PadsInv, UNCHANGED <<session, configVars>>,
         NEW p, Install(p), WorldOK(World'),
         PadsOK(p), ShownValid(World', p), FocusKept(World', p),
         p.claim = Pads.claim,
         LaunchesKept(definition, World', Pads, pending')
  PROVE  PadsInv'
<1>1. definition' = definition /\ identity' = identity
  BY DEF configVars
<1>2. ClaimsMatch(definition, identity, p)
  BY DEF PadsInv, Sound, ClaimsMatch
<1>3. LaunchesKept(definition, World', p, pending')
  BY DEF LaunchesKept
<1>4. definition' \in Definitions
  BY <1>1 DEF PadsInv
<1>5. Sound(definition', identity', World', p, pending')
  BY <1>1, <1>2, <1>3 DEF PadsInv, Sound
<1> QED
  BY <1>4, <1>5, SoundStep

LEMMA PlugSound ==
  ASSUME PadsInv, UNCHANGED session, NEW o \in Outputs, Plug(o)
  PROVE  PadsInv' /\ ShownKept
<1> DEFINE w == [World EXCEPT !.plugged = plugged', !.powered = powered',
                              !.enabled = enabled']
<1>1. /\ UNCHANGED <<session, configVars, pending, current, locked>>
      /\ plugged' = plugged \cup {o} /\ powered' = powered \cup {o}
      /\ enabled' = plugged' \cap powered'
  BY DEF Plug
<1>2. PICK s \in Settle(w, Pads) : focusedOutput' = s[1] /\ Install(s[2])
  BY DEF Plug
<1>3. /\ w.plugged = plugged' /\ w.enabled = enabled' /\ w.powered = powered'
      /\ w.current = current /\ w.locked = locked
  BY DEF World
<1>4. WorldOK(w) /\ FocusKept(w, Pads)
  <2>1. w \in WorldType
    BY <1>1, Given, WorldTypes DEF WorldType
  <2>2. FocusKept(w, Pads)
    BY <1>3, Given, WorldTypes DEF FocusKept
  <2> QED
    BY <1>1, <1>3, <2>1, <2>2 DEF WorldOK
<1> HIDE DEF w
<1>5. /\ WorldOK(World') /\ PadsOK(s[2]) /\ ShownValid(World', s[2])
      /\ FocusKept(World', s[2]) /\ s[2].claim = Pads.claim
      /\ World'.plugged = w.plugged
      /\ \/ s[2].shown = Pads.shown
         \/ ~OutputValid(World', Pads.owner[Pads.shown].output)
  BY <1>1, <1>2, <1>3, <1>4, Given, SettledWorld
<1>6. LaunchesKept(definition, World', Pads, pending')
  BY <1>1, <1>3, <1>5, WorldTypes DEF PadsInv, Sound, LaunchesKept
<1>7. PadsInv'
  BY <1>1, <1>2, <1>5, <1>6, OutputsStep
<1>8. shown' = s[2].shown
  BY <1>2 DEF Install
<1> QED
  BY <1>5, <1>7, <1>8, Given DEF ShownKept

\* The launches that were for an output that left are for none.
LEMMA ForgottenSound ==
  ASSUME PadsInv, NEW o, NEW x, x.plugged = plugged \ {o}
  PROVE  LaunchesKept(definition, x, Pads, Forgotten(o))
<1>1. LaunchesKept(definition, World, Pads, pending) /\ pending \in Seq(Requests)
  BY DEF PadsInv, Sound, LaunchesKept
<1>2. \A i \in DOMAIN pending : pending[i] \in Requests /\ pending[i] \in Elements(pending)
  BY <1>1 DEF Elements
<1>3. \A i \in DOMAIN pending : pending[i].destination \in plugged \cup {NONE}
  BY <1>1, <1>2, WorldTypes DEF LaunchesKept
<1> DEFINE k == Forgotten(o)
<1>4. ASSUME NEW i \in DOMAIN pending
      PROVE  /\ k[i] \in Requests
             /\ k[i].name = pending[i].name
             /\ k[i].identity = pending[i].identity
             /\ k[i].destination \in x.plugged \cup {NONE}
  <2>1. k[i] = [pending[i] EXCEPT !.destination =
                  IF pending[i].destination = o THEN NONE
                  ELSE pending[i].destination]
    BY <1>2 DEF Forgotten, Requests
  <2> HIDE DEF k
  <2> QED
    BY <1>2, <1>3, <2>1 DEF Requests
<1>5. k \in [DOMAIN pending -> Requests]
  <2>1. k = [i \in DOMAIN pending |-> k[i]]
    BY DEF Forgotten
  <2> HIDE DEF k
  <2> QED
    BY <1>4, <2>1
<1> HIDE DEF k
<1>6. LaunchesKept(definition, x, Pads, k)
  BY <1>1, <1>4, <1>5, LaunchesMove
<1> QED
  BY <1>6 DEF k

\* Windows of the tags of o join the tags of its successor.
Migrated(q, o, successor) ==
  [q EXCEPT !.owner = [v \in Views |->
     IF q.owner[v].kind = "tag" /\ q.owner[v].tag[1] = o
     THEN TagOwner(<<successor, q.owner[v].tag[2]>>) ELSE q.owner[v]]]

LEMMA MigratedSound ==
  ASSUME NEW q, PadsOK(q), NEW o, NEW successor \in Outputs
  PROVE  LET m == Migrated(q, o, successor)
         IN /\ PadsOK(m) /\ m.shown = q.shown /\ m.claim = q.claim
            /\ \A v \in Views : IsPad(q, v) => m.owner[v] = q.owner[v]
            /\ \A w : FocusKept(w, q) => FocusKept(w, m)
<1> DEFINE own == [v \in Views |->
             IF q.owner[v].kind = "tag" /\ q.owner[v].tag[1] = o
             THEN TagOwner(<<successor, q.owner[v].tag[2]>>) ELSE q.owner[v]]
           m == Migrated(q, o, successor)
<1>1. q \in PadsType
  BY DEF PadsOK
<1>2. ASSUME NEW v \in Views
      PROVE  /\ own[v] \in Owners
             /\ own[v].kind = q.owner[v].kind
             /\ q.owner[v].kind # "tag" => own[v] = q.owner[v]
  <2>1. q.owner[v] \in Owners
    BY <1>1 DEF PadsType
  <2>2. CASE q.owner[v].kind = "tag" /\ q.owner[v].tag[1] = o
    <3>1. q.owner[v].tag \in Keys
      BY <2>1, <2>2, OwnerCases
    <3>2. <<successor, q.owner[v].tag[2]>> \in Keys
      BY <3>1 DEF Keys
    <3>3. own[v] = TagOwner(<<successor, q.owner[v].tag[2]>>)
      BY <2>2
    <3> HIDE DEF own
    <3> QED
      BY <2>2, <3>2, <3>3, NewOwners
  <2>3. CASE ~(q.owner[v].kind = "tag" /\ q.owner[v].tag[1] = o)
    BY <2>1, <2>3
  <2> QED
    BY <2>2, <2>3
<1>3. m = [q EXCEPT !.owner = own] /\ own = [v \in Views |-> own[v]]
  BY DEF Migrated
<1> HIDE DEF m, own
<1>4. own \in [Views -> Owners]
  BY <1>2, <1>3
<1>5. /\ m \in PadsType /\ m.owner = own /\ m.claim = q.claim
      /\ m.pool = q.pool /\ m.shown = q.shown /\ m.focusedView = q.focusedView
  BY <1>1, <1>3, <1>4 DEF PadsType
<1>6. \A v \in Views : /\ IsPad(m, v) <=> IsPad(q, v)
                       /\ IsPad(q, v) => m.owner[v] = q.owner[v]
                       /\ Eligible(q.owner[v]) => Eligible(m.owner[v])
  BY <1>2, <1>5 DEF IsPad, IsDurable, Eligible
<1>7. PoolKept(m) /\ ClaimsKept(m)
  <2>1. PoolKept(m)
    BY <1>1, <1>5, <1>6 DEF PadsOK, PoolKept, PadsType
  <2>2. ClaimsKept(m)
    BY <1>5, <1>6 DEF PadsOK, ClaimsKept
  <2> QED
    BY <2>1, <2>2
<1>8. \A w : FocusKept(w, q) => FocusKept(w, m)
  BY <1>1, <1>5, <1>6, SMTT(60) DEF FocusKept, PadsType
<1> QED
  BY <1>5, <1>6, <1>7, <1>8 DEF PadsOK, m

LEMMA UnplugSound ==
  ASSUME PadsInv, UNCHANGED session, NEW o \in Outputs, NEW successor \in Outputs,
         Unplug(o, successor)
  PROVE  PadsInv' /\ ShownKept
<1> DEFINE w == [World EXCEPT
                   !.plugged = plugged', !.powered = powered',
                   !.enabled = enabled', !.current = current',
                   !.focusedOutput = IF @ = o THEN successor ELSE @]
<1>1. /\ UNCHANGED <<session, configVars, locked>>
      /\ plugged' = plugged \ {o} /\ powered' = powered \ {o}
      /\ enabled' = plugged' \cap powered'
      /\ current' = [current EXCEPT ![o] = CHOOSE id \in PinnedIds : TRUE]
      /\ pending' = Forgotten(o)
  BY DEF Unplug
<1>2. PICK q \in IF shown # NONE /\ EffectiveOutput(owner[shown]) = o
                 THEN Hide(World, Pads, shown, FALSE) ELSE {Pads} :
        \E s \in Settle(w, Migrated(q, o, successor)) :
          focusedOutput' = s[1] /\ Install(s[2])
  BY DEF Unplug, Migrated
<1>3. PICK s \in Settle(w, Migrated(q, o, successor)) :
        focusedOutput' = s[1] /\ Install(s[2])
  BY <1>2
<1>4. /\ w.plugged = plugged' /\ w.enabled = enabled' /\ w.powered = powered'
      /\ w.current = current' /\ w.locked = locked
      /\ w.focusedOutput \in Outputs \cup {NONE}
  BY WorldTypes DEF World
<1>5. WorldOK(w)
  <2>1. (CHOOSE id \in PinnedIds : TRUE) \in TagIds
    BY TagIdsAssumption
  <2>2. current' \in [Outputs -> TagIds]
    BY <1>1, <2>1, WorldTypes, SMTT(60)
  <2>3. w \in WorldType
    BY <1>1, <2>2, Given, WorldTypes, ZenonT(90) DEF WorldType
  <2> QED
    BY <1>1, <1>4, <2>3 DEF WorldOK
<1> HIDE DEF w
<1>6. /\ PadsOK(q) /\ q.claim = Pads.claim /\ FocusKept(World, q)
      /\ q = Pads \/ (shown # NONE /\ EffectiveOutput(owner[shown]) = o)
  <2>1. CASE shown # NONE /\ EffectiveOutput(owner[shown]) = o
    <3>1. Pads.shown # NONE /\ q \in Hide(World, Pads, Pads.shown, FALSE)
      BY <1>2, <2>1, Given
    <3> QED
      BY <2>1, <3>1, Given, HideSound DEF Shuffled
  <2>2. CASE ~(shown # NONE /\ EffectiveOutput(owner[shown]) = o)
    BY <1>2, <2>2, Given
  <2> QED
    BY <2>1, <2>2
<1> DEFINE m == Migrated(q, o, successor)
<1>7. /\ PadsOK(m) /\ m.claim = Pads.claim /\ FocusKept(w, m)
      /\ m.shown = q.shown
      /\ \A v \in Views : IsPad(q, v) => m.owner[v] = q.owner[v]
  <2>1. FocusKept(w, q)
    BY <1>4, <1>6, WorldTypes DEF FocusKept
  <2> QED
    BY <1>6, <2>1, MigratedSound
<1> HIDE DEF m
<1>8. /\ WorldOK(World') /\ PadsOK(s[2]) /\ ShownValid(World', s[2])
      /\ FocusKept(World', s[2]) /\ s[2].claim = m.claim
      /\ World'.plugged = w.plugged
      /\ \/ s[2].shown = m.shown
         \/ ~OutputValid(World', m.owner[m.shown].output)
  <2>1. s \in Settle(w, m)
    BY <1>3 DEF m
  <2>2. /\ plugged' = w.plugged /\ enabled' = w.enabled /\ powered' = w.powered
        /\ locked' = w.locked /\ current' = w.current /\ focusedOutput' = s[1]
    BY <1>1, <1>3, <1>4
  <2>3. PadsOK(m) /\ FocusKept(w, m)
    BY <1>7
  <2> QED
    BY <1>5, <2>1, <2>2, <2>3, SettledWorld
<1>9. LaunchesKept(definition, World', Pads, pending')
  <2>1. World'.plugged = plugged \ {o}
    BY <1>1, <1>4, <1>8
  <2> QED
    BY <1>1, <2>1, ForgottenSound
<1>10. PadsInv'
  BY <1>1, <1>3, <1>7, <1>8, <1>9, OutputsStep
<1>11. ASSUME shown # NONE, shown' # shown
       PROVE  ~OutputValid(World', owner[shown].output)
  <2>1. IsPad(Pads, shown) /\ shown \in Views
    BY <1>11, Given
  <2>2. CASE q = Pads
    <3>1. shown' = s[2].shown
      BY <1>3 DEF Install
    <3> QED
      BY <1>7, <1>8, <1>11, <2>1, <2>2, <3>1, Given
  <2>3. CASE EffectiveOutput(owner[shown]) = o
    <3>1. owner[shown].output = o
      BY <2>1, <2>3, Given DEF IsPad, IsDurable, EffectiveOutput
    <3>2. o \notin World'.enabled
      BY <1>1, WorldTypes DEF World
    <3> QED
      BY <3>1, <3>2 DEF OutputValid
  <2> QED
    BY <1>6, <2>2, <2>3
<1> QED
  BY <1>10, <1>11 DEF ShownKept

\* leme_scratchpad_reconcile_config keeps a claim only if the name has the
\* same identity before and after.
LEMMA KeptClaimsSound ==
  ASSUME PadsInv, NEW next \in Definitions, NEW q, PadsOK(q),
         q.claim = Pads.claim,
         NEW x, x = [q EXCEPT !.claim = KeptClaims(next)]
  PROVE  /\ PadsOK(x) /\ ClaimsWithin(Pads, x)
         /\ ClaimsMatch(next, identity, x)
         /\ \A w : ShownValid(w, q) => ShownValid(w, x)
         /\ \A w : FocusKept(w, q) => FocusKept(w, x)
<1> DEFINE c == KeptClaims(next)
<1>1. \A v \in Views : c[v] \in {NONE, Pads.claim[v]}
  BY Given DEF KeptClaims
<1>2. c \in [Views -> Names \cup {NONE}]
  <2>1. c = [v \in Views |-> c[v]]
    BY DEF KeptClaims
  <2>2. \A v \in Views : Pads.claim[v] \in Names \cup {NONE}
    BY Given DEF PadsType
  <2> HIDE DEF c
  <2> QED
    BY <1>1, <2>1, <2>2
<1>3. ASSUME NEW v \in Views, c[v] # NONE PROVE next[c[v]] = identity[v]
  <2>1. c[v] = claim[v] /\ claim[v] # NONE
    BY <1>3 DEF KeptClaims
  <2>2. IsPad(Pads, v) /\ definition[claim[v]] = identity[v]
    BY <2>1, Given DEF PadsOK, ClaimsKept, PadsInv, Sound, ClaimsMatch
  <2>3. v \in Elements(pool)
    BY <2>2, Given DEF PadsOK, PoolKept
  <2>4. DefinitionKept(next, claim[v], definition[claim[v]])
    BY <1>3, <2>1, <2>3 DEF KeptClaims
  <2> QED
    BY <2>1, <2>2, <2>4 DEF DefinitionKept
<1>4. x = [q EXCEPT !.claim = c]
  OBVIOUS
<1> HIDE DEF c
<1>5. /\ x \in PadsType /\ x.claim = c /\ x.owner = q.owner /\ x.pool = q.pool
      /\ x.shown = q.shown /\ x.focusedView = q.focusedView
  BY <1>2, <1>4 DEF PadsOK, PadsType
<1>6. PoolKept(x)
  BY <1>5 DEF PadsOK, PoolKept, IsPad
<1>7. ClaimsKept(x)
  <2>1. ClaimsKept(q) /\ \A v \in Views : IsPad(x, v) <=> IsPad(q, v)
    BY <1>5 DEF PadsOK, IsPad
  <2> QED
    BY <1>1, <1>5, <2>1 DEF ClaimsKept
<1>8. ClaimsWithin(Pads, x) /\ ClaimsMatch(next, identity, x)
  BY <1>1, <1>3, <1>5 DEF ClaimsWithin, ClaimsMatch
<1>9. /\ \A w : ShownValid(w, q) => ShownValid(w, x)
      /\ \A w : FocusKept(w, q) => FocusKept(w, x)
  BY <1>5 DEF ShownValid, FocusKept
<1> QED
  BY <1>5, <1>6, <1>7, <1>8, <1>9 DEF PadsOK

LEMMA ReloadConfigSound ==
  ASSUME PadsInv, UNCHANGED session, NEW next \in Definitions, ReloadConfig(next)
  PROVE  PadsInv'
<1> DEFINE w == [World EXCEPT !.enabled = enabled']
<1>1. /\ UNCHANGED <<session, plugged, powered, current, locked, identity>>
      /\ definition' = next /\ pending' = KeptLaunches(next)
      /\ enabled' = plugged \cap powered
  BY DEF ReloadConfig
<1>2. PICK s \in Settle(w, Pads) :
        /\ focusedOutput' = s[1]
        /\ \E p \in Refresh(World', [s[2] EXCEPT !.claim = KeptClaims(next)],
                            s[1]) : Install(p)
  BY DEF ReloadConfig
<1>3. /\ WorldOK(w) /\ FocusKept(w, Pads)
      /\ w.plugged = plugged /\ w.enabled = enabled' /\ w.powered = powered'
      /\ w.current = current /\ w.locked = locked
  <2>1. /\ w.plugged = plugged /\ w.enabled = enabled' /\ w.powered = powered'
        /\ w.current = current /\ w.locked = locked
    BY <1>1 DEF World
  <2>2. w \in WorldType
    BY <1>1, Given, WorldTypes DEF WorldType
  <2>3. FocusKept(w, Pads)
    BY <2>1, Given, WorldTypes DEF FocusKept
  <2> QED
    BY <1>1, <2>1, <2>2, <2>3 DEF WorldOK
<1> HIDE DEF w
<1>4. /\ WorldOK(World') /\ PadsOK(s[2]) /\ ShownValid(World', s[2])
      /\ FocusKept(World', s[2]) /\ s[2].claim = Pads.claim
      /\ World'.plugged = World.plugged
  BY <1>1, <1>2, <1>3, Given, SettledWorld, WorldTypes
<1> DEFINE x == [s[2] EXCEPT !.claim = KeptClaims(next)]
<1>5. /\ PadsOK(x) /\ ClaimsWithin(Pads, x) /\ ClaimsMatch(next, identity, x)
      /\ ShownValid(World', x) /\ FocusKept(World', x)
  BY <1>4, KeptClaimsSound
<1>6. PICK p \in Refresh(World', x, s[1]) : Install(p)
  BY <1>2
<1> HIDE DEF x
<1>7. FocusOnly(x, p) /\ FocusKept(World', p)
  BY <1>5, <1>6, RefreshSound DEF PadsOK
<1>8. PadsOK(p) /\ ShownValid(World', p)
  BY <1>5, <1>7, FocusOnlyKeeps
<1>9. p.claim = x.claim
  BY <1>7 DEF FocusOnly
<1>10. ClaimsMatch(next, identity, p)
  BY <1>5, <1>9 DEF ClaimsMatch
<1>11. LaunchesKept(next, World', p, pending')
  <2> DEFINE S == {r \in Elements(pending) :
                     DefinitionKept(next, r.name, r.identity)}
  <2>1. pending' = Selected(pending, S)
    BY <1>1 DEF KeptLaunches
  <2>2. LaunchesKept(definition, World, Pads, pending) /\ pending \in Seq(Requests)
    BY DEF PadsInv, Sound, LaunchesKept
  <2>3. \A r \in S : next[r.name] = r.identity
    BY DEF DefinitionKept
  <2> HIDE DEF S
  <2>4. LaunchesKept(definition, World, Pads, pending')
    BY <2>1, <2>2, LaunchesShrink
  <2>5. Elements(pending') \subseteq S
    BY <2>1, <2>2, SelectedElements
  <2>6. LaunchesKept(next, World, Pads, pending')
    BY <2>3, <2>4, <2>5 DEF LaunchesKept
  <2>7. \A r \in Elements(pending') : r.name # NONE
    <3>1. Elements(pending') \subseteq Elements(pending)
      BY <2>1, <2>2, SelectedElements
    <3>2. \A i \in DOMAIN pending : pending[i] \in Requests
      BY <2>2
    <3>3. \A r \in Requests : r.name # NONE
      BY NamesAssumption DEF Requests
    <3> QED
      BY <3>1, <3>2, <3>3 DEF Elements
  <2>8. \A r \in Elements(pending') : \A v \in Views : p.claim[v] # r.name
    BY <1>5, <1>9, <2>6, <2>7 DEF LaunchesKept, ClaimsWithin
  <2> QED
    BY <1>4, <2>6, <2>8 DEF LaunchesKept
<1>12. DefinitionsOK(next)
  BY DEF Definitions, DefinitionsOK
<1>13. /\ definition' = next /\ identity' = identity
       /\ definition' \in Definitions
  BY <1>1
<1>14. Sound(definition', identity', World', p, pending')
  BY <1>4, <1>7, <1>8, <1>10, <1>11, <1>12, <1>13 DEF PadsInv, Sound
<1> QED
  BY <1>6, <1>13, <1>14, SoundStep

-----------------------------------------------------------------------------
(* The specification keeps the invariant                                   *)

LEMMA InitSound ==
  ASSUME Init
  PROVE  PadsInv
<1>1. DefinitionsOK(definition) /\ identity \in [Views -> Identities]
  BY DefinitionsSound DEF Init
<1>2. WorldOK(World)
  <2>1. session.outputs \subseteq Outputs
    BY SessionsAssumption DEF Init
  <2>2. (CHOOSE id \in PinnedIds : TRUE) \in TagIds
    BY TagIdsAssumption
  <2> QED
    BY <2>1, <2>2 DEF Init, World, WorldOK, WorldType
<1>3. /\ Pads \in PadsType /\ Pads.pool = <<>> /\ Pads.shown = NONE
      /\ Pads.focusedView = NONE
      /\ \A v \in Views : Pads.owner[v] = NoOwner /\ Pads.claim[v] = NONE
  BY NewOwners DEF Init, Pads, PadsType
<1>4. \A v \in Views : ~IsPad(Pads, v)
  BY <1>3, NewOwners DEF IsPad, IsDurable
<1>5. Elements(<<>>) = {} /\ Distinct(<<>>)
  BY DEF Elements, Distinct
<1>6. PoolKept(Pads) /\ ClaimsKept(Pads)
  BY <1>3, <1>4, <1>5 DEF PoolKept, ClaimsKept
<1>7. ShownValid(World, Pads) /\ FocusKept(World, Pads)
  BY <1>3 DEF ShownValid, FocusKept
<1>8. ClaimsMatch(definition, identity, Pads)
  BY <1>3 DEF ClaimsMatch
<1>9. LaunchesKept(definition, World, Pads, pending)
  BY <1>5 DEF LaunchesKept, Init
<1> QED
  BY <1>1, <1>2, <1>3, <1>6, <1>7, <1>8, <1>9 DEF Init, PadsInv, Sound, PadsOK

LEMMA StutterSound ==
  ASSUME PadsInv, UNCHANGED vars
  PROVE  PadsInv'
<1>1. /\ UNCHANGED <<session, outputVars, locked, configVars, pending>>
      /\ Install(Pads)
  BY DEF vars, padVars, Install, Pads
<1>2. ClaimsWithin(Pads, Pads)
  BY DEF ClaimsWithin
<1> QED
  BY <1>1, <1>2, Given, PadsStep

LEMMA NextSound ==
  ASSUME PadsInv, Next
  PROVE  PadsInv'
<1>1. /\ UNCHANGED session
      /\ session.outputs \subseteq Outputs /\ session.views \subseteq Views
      /\ session.names \subseteq Names
  BY SessionsAssumption DEF Next, PadsInv
<1>2. CASE Send
  BY <1>1, <1>2, SendSound
<1>3. CASE ToggleUnnamed
  BY <1>1, <1>3, ToggleUnnamedSound
<1>4. CASE \E name \in session.names : ToggleNamed(name)
  BY <1>1, <1>4, ToggleNamedSound
<1>5. CASE Retrieve
  BY <1>1, <1>5, RetrieveSound
<1>6. CASE \E v \in session.views, o \in session.outputs, id \in TagIds :
             MapView(v, o, id)
  BY <1>1, <1>6, MapViewSound
<1>7. CASE \E v \in session.views : AdoptMap(v)
  BY <1>1, <1>7, AdoptMapSound
<1>8. CASE \E v \in session.views : UnmapView(v)
  BY <1>1, <1>8, UnmapViewSound
<1>9. CASE \E v \in session.views, i \in Identities : SetIdentity(v, i)
  BY <1>1, <1>9, SetIdentitySound
<1>10. CASE \E v \in session.views : SetFullscreen(v)
  BY <1>1, <1>10, SetFullscreenSound
<1>11. CASE \E name \in session.names : PendingTimeout(name)
  BY <1>1, <1>11, PendingTimeoutSound
<1>12. CASE \E next \in Definitions : ReloadConfig(next)
  BY <1>1, <1>12, ReloadConfigSound
<1>13. CASE Lock
  BY <1>1, <1>13, LockSound
<1>14. CASE Unlock
  BY <1>1, <1>14, UnlockSound
<1>15. CASE \E id \in TagIds : FocusTag(id)
  BY <1>1, <1>15, FocusTagSound
<1>16. CASE \E o \in session.outputs : PointerMotion(o)
  BY <1>1, <1>16, PointerMotionSound
<1>17. CASE ToplevelActivate
  BY <1>1, <1>17, ToplevelActivateSound
<1>18. CASE \E o \in session.outputs : MoveShown(o)
  BY <1>1, <1>18, MoveShownSound
<1>19. CASE \E o \in session.outputs, on \in BOOLEAN : SetPower(o, on)
  BY <1>1, <1>19, SetPowerSound
<1>20. CASE \E heads \in SUBSET plugged : ManagerApply(heads)
  BY <1>1, <1>20, ManagerApplySound
<1>21. CASE \E o \in session.outputs : Plug(o)
  BY <1>1, <1>21, PlugSound
<1>22. CASE \E o, successor \in session.outputs : Unplug(o, successor)
  BY <1>1, <1>22, UnplugSound
<1> QED
  BY <1>2, <1>3, <1>4, <1>5, <1>6, <1>7, <1>8, <1>9, <1>10, <1>11, <1>12, <1>13,
     <1>14, <1>15, <1>16, <1>17, <1>18, <1>19, <1>20, <1>21, <1>22
     DEF Next, Operations

\* Under the lock a step leaves the scratchpad shown, or its window or its
\* output goes, or a launch takes its place.
LEMMA NextKeepsShown ==
  ASSUME PadsInv, [Next]_vars, locked
  PROVE  ShownKept
<1>1. CASE UNCHANGED vars
  BY <1>1 DEF vars, padVars, ShownKept
<1>2. CASE Next
  <2>1. /\ UNCHANGED session
        /\ session.outputs \subseteq Outputs /\ session.views \subseteq Views
        /\ session.names \subseteq Names
    BY <1>2, SessionsAssumption DEF Next, PadsInv
  <2>2. ~Allowed
    BY DEF Allowed
  <2>3. CASE Send
    BY <2>2, <2>3 DEF Send
  <2>4. CASE ToggleUnnamed
    BY <2>2, <2>4 DEF ToggleUnnamed
  <2>5. CASE \E name \in session.names : ToggleNamed(name)
    BY <2>2, <2>5 DEF ToggleNamed
  <2>6. CASE Retrieve
    BY <2>2, <2>6 DEF Retrieve
  <2>7. CASE \E v \in session.views, o \in session.outputs, id \in TagIds :
               MapView(v, o, id)
    BY <2>1, <2>7, MapViewSound
  <2>8. CASE \E v \in session.views : AdoptMap(v)
    BY <2>1, <2>8, AdoptMapSound
  <2>9. CASE \E v \in session.views : UnmapView(v)
    BY <2>1, <2>9, UnmapViewSound
  <2>10. CASE \E v \in session.views, i \in Identities : SetIdentity(v, i)
    BY <2>1, <2>10, SetIdentitySound
  <2>11. CASE \E v \in session.views : SetFullscreen(v)
    BY <2>1, <2>11, SetFullscreenSound
  <2>12. CASE \E name \in session.names : PendingTimeout(name)
    BY <2>12 DEF PendingTimeout, padVars, ShownKept
  <2>13. CASE \E next \in Definitions : ReloadConfig(next)
    BY <2>13 DEF ReloadConfig
  <2>14. CASE Lock
    BY <2>14 DEF Lock
  <2>15. CASE Unlock
    BY <2>1, <2>15, UnlockSound
  <2>16. CASE \E id \in TagIds : FocusTag(id)
    BY <2>2, <2>16 DEF FocusTag
  <2>17. CASE \E o \in session.outputs : PointerMotion(o)
    BY <2>17 DEF PointerMotion
  <2>18. CASE ToplevelActivate
    BY <2>18 DEF ToplevelActivate
  <2>19. CASE \E o \in session.outputs : MoveShown(o)
    BY <2>19 DEF MoveShown
  <2>20. CASE \E o \in session.outputs, on \in BOOLEAN : SetPower(o, on)
    BY <2>1, <2>20, SetPowerSound
  <2>21. CASE \E heads \in SUBSET plugged : ManagerApply(heads)
    BY <2>1, <2>21, ManagerApplySound
  <2>22. CASE \E o \in session.outputs : Plug(o)
    BY <2>1, <2>22, PlugSound
  <2>23. CASE \E o, successor \in session.outputs : Unplug(o, successor)
    BY <2>1, <2>23, UnplugSound
  <2> QED
    BY <1>2, <2>3, <2>4, <2>5, <2>6, <2>7, <2>8, <2>9, <2>10, <2>11, <2>12, <2>13,
       <2>14, <2>15, <2>16, <2>17, <2>18, <2>19, <2>20, <2>21, <2>22, <2>23
       DEF Next, Operations
<1> QED
  BY <1>1, <1>2

\* Every state of every session has the invariant.
THEOREM PadsInvariant == Spec => []PadsInv
<1>1. Init => PadsInv
  BY InitSound
<1>2. PadsInv /\ [Next]_vars => PadsInv'
  BY NextSound, StutterSound
<1> QED
  BY <1>1, <1>2, PTL DEF Spec

\* A launch under way for every name that is pending, and no other.
LEMMA PendingCounted ==
  ASSUME PadsInv
  PROVE  Cardinality(PendingNames) = Len(pending)
<1> DEFINE names == [i \in DOMAIN pending |-> pending[i].name]
<1>1. /\ pending \in Seq(Requests) /\ Distinct(pending)
      /\ \A r, t \in Elements(pending) : r.name = t.name => r = t
  BY DEF PadsInv, Sound, LaunchesKept
<1>2. Len(pending) \in Nat /\ DOMAIN pending = 1 .. Len(pending)
  BY <1>1
<1>3. names \in Seq(Names) /\ Len(names) = Len(pending)
  <2>1. \A i \in 1 .. Len(pending) : pending[i] \in Requests
    BY <1>1
  <2>2. \A i \in 1 .. Len(pending) : pending[i].name \in Names
    BY <2>1 DEF Requests
  <2>3. names \in [1 .. Len(pending) -> Names]
    BY <1>2, <2>2
  <2> HIDE DEF names
  <2> QED
    BY <1>2, <2>3
<1>4. Elements(names) = PendingNames
  BY DEF Elements, PendingNames
<1>5. Distinct(names)
  <2>1. \A i \in DOMAIN pending : pending[i] \in Elements(pending)
    BY DEF Elements
  <2> QED
    BY <1>1, <2>1 DEF Distinct
<1> HIDE DEF names
<1>6. Cardinality(Elements(names)) = Len(names)
  BY <1>3, <1>5, DistinctLength
<1> QED
  BY <1>3, <1>4, <1>6

LEMMA InvariantGives ==
  ASSUME PadsInv
  PROVE  MembersSound /\ NamesSound /\ FocusEligible
<1>1. TypeOK
  <2>1. pending \in Seq(Requests)
    BY DEF PadsInv, Sound, LaunchesKept
  <2>2. definition \in Definitions /\ identity \in [Views -> Identities]
    BY DEF PadsInv, Sound
  <2>3. /\ owner \in [Views -> OwnerType(Keys, Outputs)]
        /\ fullscreen \subseteq Views
        /\ claim \in [Views -> Names \cup {NONE}]
        /\ pool \in Seq(Views) /\ history \in Seq(Views)
        /\ shown \in Views \cup {NONE} /\ focusedView \in Views \cup {NONE}
    BY Given DEF PadsType, Pads, Owners
  <2> QED
    BY <2>1, <2>2, <2>3, WorldTypes DEF TypeOK
<1>2. PoolSound
  <2>1. /\ Elements(pool) = {v \in Views : IsPad(Pads, v)}
        /\ Distinct(pool) /\ pool \in Seq(Views)
    BY Given DEF PadsOK, PoolKept, PadsType
  <2> QED
    BY <2>1, DistinctLength DEF PoolSound
<1>3. ShownSound
  BY Given, ViewsAssumption DEF PadsOK, PoolKept, ShownValid, ShownSound
<1>4. ClaimsSound
  BY Given DEF PadsOK, ClaimsKept, ClaimsSound, PadsInv, Sound, ClaimsMatch
<1>5. LaunchesKept(definition, World, Pads, pending)
  BY DEF PadsInv, Sound
<1>6. LaunchesSound
  BY <1>5, Given, PendingCounted DEF LaunchesSound, LaunchesKept
<1>7. LaunchesLand
  BY <1>5, WorldTypes DEF LaunchesLand, LaunchesKept
<1>8. FocusEligible
  BY Given DEF FocusEligible, FocusKept, World, Pads
<1> QED
  BY <1>1, <1>2, <1>3, <1>4, <1>6, <1>7, <1>8 DEF MembersSound, NamesSound

\* The pool lists every scratchpad once, and at most one of them is on the
\* screen, the shown one, on an output that can show it.
THEOREM Members == Spec => []MembersSound
<1> QED
  BY PadsInvariant, InvariantGives, PTL

\* A name is claimed or awaited once, by the identity its definition gives, and
\* a launch never aims at an output that left.
THEOREM NamesAgree == Spec => []NamesSound
<1> QED
  BY PadsInvariant, InvariantGives, PTL

\* Outside the lock the keyboard is on a window that can be seen.
THEOREM KeyboardOnSeen == Spec => []FocusEligible
<1> QED
  BY PadsInvariant, InvariantGives, PTL

\* Under the lock no command, timer or event but the end of its window or its
\* output, and the window of an earlier launch, takes the scratchpad away.
THEOREM LockedShownStays == Spec => LockKeepsShown
<1>1. PadsInv /\ [Next]_vars =>
        [locked /\ shown # NONE =>
           \/ shown' = shown
           \/ owner'[shown] = NoOwner
           \/ ~OutputValid(World', owner[shown].output)
           \/ Len(pending') < Len(pending) /\ shown' # NONE]_vars
  BY NextKeepsShown DEF ShownKept
<1> QED
  BY <1>1, PadsInvariant, PTL DEF Spec, LockKeepsShown
=============================================================================
