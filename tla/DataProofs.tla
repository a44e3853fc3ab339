----------------------------- MODULE DataProofs -----------------------------
(***************************************************************************)
(* Lemmas about the two kinds of data that the components share: what a    *)
(* walk over a linked list returns (Lists), for lists of any length, and   *)
(* what every operation on a table of tags keeps (Tags), for any maximum.  *)
(***************************************************************************)
EXTENDS Tags, Lists, FiniteSetTheorems, WellFoundedInduction, TLAPS

-----------------------------------------------------------------------------
(* Lists.                                                                  *)

\* No element is linked twice.
Distinct(s) == \A i, j \in DOMAIN s : s[i] = s[j] => i = j

\* One step of the walk of Walked.
WalkStep(s, S, f, n) ==
  IF n = 0 THEN <<>>
  ELSE IF s[n] \in S THEN Append(f[n - 1], s[n]) ELSE f[n - 1]

\* A set of natural numbers has a least member.
LEMMA LeastNatural ==
  ASSUME NEW T, T \subseteq Nat, T # {}
  PROVE  \E k \in T : \A m \in T : k <= m
<1> DEFINE R == {ss \in Nat \X Nat : ss[1] < ss[2]}
<1>1. IsWellFoundedOn(R, Nat)
  BY NatLessThanWellFounded DEF OpToRel
<1>2. \A y, x \in Nat : y < x => <<y, x>> \in R
  OBVIOUS
<1> HIDE DEF R
<1>3. PICK k \in T : \A m \in T : ~(<<m, k>> \in R)
  BY <1>1, WFMin
<1>4. ASSUME NEW m \in T PROVE k <= m
  <2>1. ~(m < k)
    BY <1>2, <1>3
  <2>2. m \in Nat /\ k \in Nat
    OBVIOUS
  <2> QED
    BY <2>1, <2>2
<1> QED
  BY <1>4

\* A walk over the first k elements exists.
LEMMA WalkExists ==
  ASSUME NEW s, Len(s) \in Nat, NEW S
  PROVE  \E f : f = [n \in 0 .. Len(s) |-> WalkStep(s, S, f, n)]
<1> DEFINE WalkedTo(k) == \E f : f = [n \in 0 .. k |-> WalkStep(s, S, f, n)]
           bad == {k \in Nat : ~WalkedTo(k)}
<1>1. SUFFICES ASSUME Len(s) \in bad PROVE FALSE
  OBVIOUS
<1>2. PICK k \in bad : \A m \in bad : k <= m
  <2> HIDE DEF bad
  <2>1. bad \subseteq Nat
    BY DEF bad
  <2>2. Len(s) \in bad
    BY <1>1
  <2> QED
    BY <2>1, <2>2, LeastNatural
<1>3. k # 0
  <2>1. SUFFICES ASSUME k = 0 PROVE WalkedTo(0)
    BY <1>2
  <2> DEFINE f == [n \in 0 .. 0 |-> <<>>]
  <2>2. f = [n \in 0 .. 0 |-> WalkStep(s, S, f, n)]
    BY DEF WalkStep
  <2> QED
    BY <2>2
<1>4. k \in Nat /\ k - 1 \in Nat /\ ~WalkedTo(k)
  BY <1>2, <1>3
<1>5. WalkedTo(k - 1)
  <2> HIDE DEF WalkedTo
  <2>1. k - 1 \notin bad
    BY <1>2, <1>4
  <2> QED
    BY <1>4, <2>1
<1>6. PICK f : f = [n \in 0 .. k - 1 |-> WalkStep(s, S, f, n)]
  BY <1>5
<1> DEFINE g == [n \in 0 .. k |-> IF n < k THEN f[n] ELSE WalkStep(s, S, f, k)]
<1>7. ASSUME NEW n \in 0 .. k PROVE g[n] = WalkStep(s, S, g, n)
  <2>1. n \in Nat /\ n <= k
    BY <1>4, <1>7
  <2>2. n # 0 => g[n - 1] = f[n - 1]
    BY <1>4, <2>1
  <2>3. WalkStep(s, S, g, n) = WalkStep(s, S, f, n)
    BY <2>2 DEF WalkStep
  <2>4. CASE n < k
    <3>1. n \in 0 .. k - 1
      BY <1>4, <2>1, <2>4
    <3>2. f[n] = WalkStep(s, S, f, n)
      BY <1>6, <3>1
    <3> QED
      BY <2>3, <2>4, <3>2
  <2>5. CASE n = k
    BY <2>3, <2>5
  <2> QED
    BY <1>4, <2>1, <2>4, <2>5
<1>8. g = [n \in 0 .. k |-> WalkStep(s, S, g, n)]
  <2> DEFINE h == [n \in 0 .. k |-> WalkStep(s, S, g, n)]
  <2>1. \A n \in 0 .. k : g[n] = h[n]
    BY <1>7
  <2>2. g = [n \in 0 .. k |-> g[n]] /\ h = [n \in 0 .. k |-> h[n]]
    OBVIOUS
  <2> HIDE DEF g, h
  <2>3. [n \in 0 .. k |-> g[n]] = [n \in 0 .. k |-> h[n]]
    BY <2>1
  <2>4. g = h
    BY <2>2, <2>3
  <2> QED
    BY <2>4 DEF h
<1> QED
  <2> HIDE DEF g
  <2>1. WalkedTo(k)
    BY <1>8
  <2> QED
    BY <1>4, <2>1

\* Walked picks step by step.
LEMMA WalkedSteps ==
  ASSUME NEW s, Len(s) \in Nat, NEW S
  PROVE  \A n \in 0 .. Len(s) : Walked(s, S)[n] = WalkStep(s, S, Walked(s, S), n)
<1>1. \E f : f = [n \in 0 .. Len(s) |-> WalkStep(s, S, f, n)]
  BY WalkExists
<1>2. Walked(s, S) = CHOOSE f : f = [n \in 0 .. Len(s) |-> WalkStep(s, S, f, n)]
  BY DEF Walked, WalkStep
<1>3. Walked(s, S) = [n \in 0 .. Len(s) |-> WalkStep(s, S, Walked(s, S), n)]
  BY <1>1, <1>2
<1> QED
  BY <1>3

\* What one more element adds.
LEMMA AppendElements ==
  ASSUME NEW V, NEW q \in Seq(V), NEW x \in V
  PROVE  /\ Append(q, x) \in Seq(V) /\ Len(Append(q, x)) = Len(q) + 1
         /\ Elements(Append(q, x)) = Elements(q) \cup {x}
         /\ Distinct(q) /\ x \notin Elements(q) => Distinct(Append(q, x))
<1> DEFINE a == Append(q, x)
<1>1. a \in Seq(V) /\ Len(a) = Len(q) + 1 /\ Len(q) \in Nat
  OBVIOUS
<1>2. DOMAIN q = 1 .. Len(q) /\ DOMAIN a = 1 .. Len(q) + 1
  OBVIOUS
<1>3. \A i \in 1 .. Len(q) : a[i] = q[i]
  OBVIOUS
<1>4. a[Len(q) + 1] = x
  OBVIOUS
<1> HIDE DEF a
<1>5. \A i \in DOMAIN a : i \in DOMAIN q \/ i = Len(q) + 1
  BY <1>1, <1>2
<1>6. Elements(a) = Elements(q) \cup {x}
  <2>1. Elements(a) \subseteq Elements(q) \cup {x}
    BY <1>2, <1>3, <1>4, <1>5 DEF Elements
  <2>2. \A i \in DOMAIN q : i \in DOMAIN a /\ a[i] = q[i]
    BY <1>1, <1>2, <1>3
  <2>3. Len(q) + 1 \in DOMAIN a
    BY <1>1, <1>2
  <2> QED
    BY <1>4, <2>1, <2>2, <2>3 DEF Elements
<1>7. ASSUME Distinct(q), x \notin Elements(q) PROVE Distinct(a)
  <2>1. \A i \in DOMAIN q : a[i] = q[i] /\ a[i] # x
    BY <1>2, <1>3, <1>7 DEF Elements
  <2>2. SUFFICES ASSUME NEW i \in DOMAIN a, NEW j \in DOMAIN a, a[i] = a[j]
                 PROVE  i = j
    BY DEF Distinct
  <2> QED
    BY <1>4, <1>5, <1>7, <2>1, <2>2 DEF Distinct
<1> QED
  BY <1>1, <1>6, <1>7 DEF a

\* The first k elements of s.
Firsts(s, k) == {s[i] : i \in 1 .. k}

\* What q has picked out of the first k elements of s.
Picked(V, s, S, k, q) ==
  /\ q \in Seq(V) /\ Len(q) <= k
  /\ Elements(q) = Firsts(s, k) \cap S
  /\ Distinct(s) => Distinct(q)
  /\ Firsts(s, k) \subseteq S \/ Len(q) < k

LEMMA PickedStep ==
  ASSUME NEW V, NEW s \in Seq(V), NEW S, NEW k \in 1 .. Len(s), NEW f,
         Picked(V, s, S, k - 1, f[k - 1])
  PROVE  Picked(V, s, S, k, WalkStep(s, S, f, k))
<1> DEFINE q == f[k - 1]
<1>1. k \in Nat /\ k - 1 \in Nat /\ k # 0 /\ k <= Len(s)
  OBVIOUS
<1>2. /\ q \in Seq(V) /\ Len(q) <= k - 1
      /\ Elements(q) = Firsts(s, k - 1) \cap S
      /\ Distinct(s) => Distinct(q)
      /\ Firsts(s, k - 1) \subseteq S \/ Len(q) < k - 1
  BY DEF Picked
<1>3. Len(q) \in Nat /\ s[k] \in V
  BY <1>2
<1>4. Firsts(s, k) = Firsts(s, k - 1) \cup {s[k]}
  <2>1. \A i \in 1 .. k : i \in 1 .. k - 1 \/ i = k
    BY <1>1
  <2>2. \A i \in 1 .. k - 1 : i \in 1 .. k
    BY <1>1
  <2> QED
    BY <2>1, <2>2 DEF Firsts
<1>5. WalkStep(s, S, f, k) = IF s[k] \in S THEN Append(q, s[k]) ELSE q
  BY <1>1 DEF WalkStep
<1> HIDE DEF q
<1>6. CASE s[k] \in S
  <2> DEFINE a == Append(q, s[k])
  <2>1. /\ a \in Seq(V) /\ Len(a) = Len(q) + 1
        /\ Elements(a) = Elements(q) \cup {s[k]}
        /\ Distinct(q) /\ s[k] \notin Elements(q) => Distinct(a)
    BY <1>2, <1>3, AppendElements
  <2>2. WalkStep(s, S, f, k) = a
    BY <1>5, <1>6
  <2> HIDE DEF a
  <2>3. Len(a) <= k
    BY <1>1, <1>2, <1>3, <2>1
  <2>4. Elements(a) = Firsts(s, k) \cap S
    BY <1>2, <1>4, <1>6, <2>1
  <2>5. Distinct(s) => s[k] \notin Firsts(s, k - 1)
    <3>1. \A i \in 1 .. k - 1 : i \in DOMAIN s /\ i # k
      BY <1>1
    <3>2. k \in DOMAIN s
      BY <1>1
    <3> QED
      BY <3>1, <3>2 DEF Distinct, Firsts
  <2>6. Distinct(s) => Distinct(a)
    BY <1>2, <2>1, <2>5
  <2>7. Firsts(s, k) \subseteq S \/ Len(a) < k
    BY <1>1, <1>2, <1>3, <1>4, <1>6, <2>1
  <2> QED
    BY <2>1, <2>2, <2>3, <2>4, <2>6, <2>7 DEF Picked
<1>7. CASE s[k] \notin S
  <2>1. Len(q) < k
    BY <1>1, <1>2, <1>3
  <2>2. Elements(q) = Firsts(s, k) \cap S
    BY <1>2, <1>4, <1>7
  <2>3. Len(q) <= k
    BY <1>1, <1>3, <2>1
  <2> QED
    BY <1>2, <1>5, <1>7, <2>1, <2>2, <2>3 DEF Picked
<1> QED
  BY <1>6, <1>7

LEMMA WalkedPicked ==
  ASSUME NEW V, NEW s \in Seq(V), NEW S
  PROVE  \A k \in 0 .. Len(s) : Picked(V, s, S, k, Walked(s, S)[k])
<1> DEFINE f == Walked(s, S)
           bad == {k \in 0 .. Len(s) : ~Picked(V, s, S, k, f[k])}
<1>1. Len(s) \in Nat
  OBVIOUS
<1>2. \A n \in 0 .. Len(s) : f[n] = WalkStep(s, S, f, n)
  BY <1>1, WalkedSteps
<1> HIDE DEF f
<1>3. SUFFICES ASSUME bad # {} PROVE FALSE
  BY DEF f
<1>4. PICK k \in bad : \A m \in bad : k <= m
  <2> HIDE DEF bad
  <2>1. bad \subseteq Nat
    BY <1>1 DEF bad
  <2> QED
    BY <1>3, <2>1, LeastNatural
<1>5. k \in 0 .. Len(s) /\ f[k] = WalkStep(s, S, f, k) /\ ~Picked(V, s, S, k, f[k])
  BY <1>2, <1>4
<1>6. CASE k = 0
  <2>1. f[k] = <<>>
    BY <1>5, <1>6 DEF WalkStep
  <2>2. Elements(<<>>) = {} /\ Firsts(s, k) = {} /\ Distinct(<<>>)
    BY <1>6 DEF Elements, Firsts, Distinct
  <2>3. <<>> \in Seq(V) /\ Len(<<>>) = 0
    OBVIOUS
  <2> HIDE DEF bad
  <2>4. Picked(V, s, S, k, <<>>)
    BY <1>6, <2>2, <2>3 DEF Picked
  <2> QED
    BY <1>5, <2>1, <2>4
<1>7. CASE k # 0
  <2>1. k \in 1 .. Len(s) /\ k - 1 \in 0 .. Len(s) /\ ~(k <= k - 1)
    BY <1>1, <1>5, <1>7
  <2>2. Picked(V, s, S, k - 1, f[k - 1])
    BY <1>4, <2>1
  <2> HIDE DEF bad
  <2> QED
    BY <1>5, <2>1, <2>2, PickedStep
<1> QED
  BY <1>6, <1>7

LEMMA SelectedPicked ==
  ASSUME NEW V, NEW s \in Seq(V), NEW S
  PROVE  Picked(V, s, S, Len(s), Selected(s, S)) /\ Firsts(s, Len(s)) = Elements(s)
<1>1. Len(s) \in 0 .. Len(s) /\ DOMAIN s = 1 .. Len(s)
  OBVIOUS
<1>2. Firsts(s, Len(s)) = Elements(s)
  BY <1>1 DEF Firsts, Elements
<1> QED
  BY <1>1, <1>2, WalkedPicked DEF Selected

-----------------------------------------------------------------------------
(* The facts other modules cite.                                           *)

\* A walk finds exactly the elements it tests for, in a list no longer, and
\* shorter if the walk leaves one out.
LEMMA SelectedElements ==
  ASSUME NEW V, NEW s \in Seq(V), NEW S
  PROVE  /\ Selected(s, S) \in Seq(V)
         /\ Elements(Selected(s, S)) = Elements(s) \cap S
         /\ Distinct(s) => Distinct(Selected(s, S))
<1> QED
  BY SelectedPicked DEF Picked

LEMMA SelectedLength ==
  ASSUME NEW V, NEW s \in Seq(V), NEW S
  PROVE  /\ Len(Selected(s, S)) <= Len(s)
         /\ ~(Elements(s) \subseteq S) => Len(Selected(s, S)) < Len(s)
<1> QED
  BY SelectedPicked DEF Picked

\* The first match of a walk that finds one.
LEMMA SelectedFirst ==
  ASSUME NEW V, NEW s \in Seq(V), NEW S, Selected(s, S) # <<>>
  PROVE  Selected(s, S)[1] \in Elements(s) \cap S
<1> DEFINE q == Selected(s, S)
<1>1. q \in Seq(V) /\ Elements(q) = Elements(s) \cap S /\ q # <<>>
  BY SelectedElements
<1> HIDE DEF q
<1>2. 1 \in DOMAIN q
  BY <1>1
<1>3. q[1] \in Elements(q)
  BY <1>2 DEF Elements
<1> QED
  BY <1>1, <1>3 DEF q

LEMMA SelectedNone ==
  ASSUME NEW V, NEW s \in Seq(V), NEW S, Selected(s, S) = <<>>
  PROVE  Elements(s) \cap S = {}
<1>1. Elements(Selected(s, S)) = {}
  BY DEF Elements
<1> QED
  BY <1>1, SelectedElements

\* Unlinking an element.
LEMMA WithoutElements ==
  ASSUME NEW V, NEW s \in Seq(V), NEW v
  PROVE  /\ Without(s, v) \in Seq(V)
         /\ Elements(Without(s, v)) = Elements(s) \ {v}
         /\ Distinct(s) => Distinct(Without(s, v))
<1> DEFINE S == Elements(s) \ {v}
<1>1. /\ Selected(s, S) \in Seq(V)
      /\ Elements(Selected(s, S)) = Elements(s) \cap S
      /\ Distinct(s) => Distinct(Selected(s, S))
  BY SelectedElements
<1> QED
  BY <1>1 DEF Without

\* Linking an element in front.
LEMMA PushElements ==
  ASSUME NEW V, NEW q \in Seq(V), NEW x \in V
  PROVE  /\ <<x>> \o q \in Seq(V)
         /\ Elements(<<x>> \o q) = Elements(q) \cup {x}
         /\ Distinct(q) /\ x \notin Elements(q) => Distinct(<<x>> \o q)
<1> DEFINE a == <<x>> \o q
<1>1. a \in Seq(V) /\ Len(a) = Len(q) + 1 /\ Len(q) \in Nat
  OBVIOUS
<1>2. DOMAIN q = 1 .. Len(q) /\ DOMAIN a = 1 .. Len(q) + 1
  OBVIOUS
<1>3. \A i \in DOMAIN q : i + 1 \in DOMAIN a /\ a[i + 1] = q[i]
  OBVIOUS
<1>4. a[1] = x /\ 1 \in DOMAIN a
  OBVIOUS
<1>5. \A j \in DOMAIN a : j = 1 \/ (j - 1 \in DOMAIN q /\ a[j] = q[j - 1])
  OBVIOUS
<1> HIDE DEF a
<1>6. Elements(a) = Elements(q) \cup {x}
  BY <1>3, <1>4, <1>5 DEF Elements
<1>7. ASSUME Distinct(q), x \notin Elements(q) PROVE Distinct(a)
  <2>1. SUFFICES ASSUME NEW i \in DOMAIN a, NEW j \in DOMAIN a, a[i] = a[j]
                 PROVE  i = j
    BY DEF Distinct
  <2>2. \A k \in DOMAIN q : q[k] # x
    BY <1>7 DEF Elements
  <2>3. i = 1 <=> j = 1
    BY <1>4, <1>5, <2>1, <2>2
  <2>4. i # 1 => i - 1 = j - 1
    BY <1>5, <1>7, <2>1, <2>3 DEF Distinct
  <2> QED
    BY <1>1, <1>2, <2>3, <2>4
<1> QED
  BY <1>1, <1>6, <1>7 DEF a

\* How the list q was picked out of the first k elements of s: in their order,
\* each at its own place.
Sifted(s, S, k, q) ==
  \E h \in [DOMAIN q -> 1 .. k] :
    /\ \A i \in DOMAIN q : q[i] = s[h[i]]
    /\ \A i, j \in DOMAIN q : i < j => h[i] < h[j]
    /\ \A m \in 1 .. k : s[m] \in S => \E i \in DOMAIN q : h[i] = m

LEMMA SiftedStep ==
  ASSUME NEW V, NEW s \in Seq(V), NEW S, NEW k \in 1 .. Len(s), NEW f,
         f[k - 1] \in Seq(V), Sifted(s, S, k - 1, f[k - 1])
  PROVE  Sifted(s, S, k, WalkStep(s, S, f, k))
<1> DEFINE q == f[k - 1]
<1>1. k \in Nat /\ k - 1 \in Nat /\ k # 0 /\ k <= Len(s) /\ s[k] \in V
  OBVIOUS
<1>2. PICK h \in [DOMAIN q -> 1 .. k - 1] :
         /\ \A i \in DOMAIN q : q[i] = s[h[i]]
         /\ \A i, j \in DOMAIN q : i < j => h[i] < h[j]
         /\ \A m \in 1 .. k - 1 : s[m] \in S => \E i \in DOMAIN q : h[i] = m
  BY DEF Sifted
<1>3. WalkStep(s, S, f, k) = IF s[k] \in S THEN Append(q, s[k]) ELSE q
  BY <1>1 DEF WalkStep
<1>4. q \in Seq(V) /\ Len(q) \in Nat /\ DOMAIN q = 1 .. Len(q)
  OBVIOUS
<1>5. \A m \in 1 .. k : m \in 1 .. k - 1 \/ m = k
  BY <1>1
<1>6. \A m \in 1 .. k - 1 : m \in 1 .. k /\ m < k
  BY <1>1
<1> HIDE DEF q
<1>7. CASE s[k] \in S
  <2> DEFINE a == Append(q, s[k])
             g == [i \in 1 .. Len(q) + 1 |-> IF i = Len(q) + 1 THEN k ELSE h[i]]
  <2>1. DOMAIN a = 1 .. Len(q) + 1 /\ a[Len(q) + 1] = s[k]
        /\ \A i \in 1 .. Len(q) : a[i] = q[i]
    BY <1>1, <1>4
  <2>2. \A i \in DOMAIN a : i \in DOMAIN q \/ i = Len(q) + 1
    BY <1>4, <2>1
  <2>3. \A i \in DOMAIN q : i \in DOMAIN a /\ i # Len(q) + 1 /\ g[i] = h[i]
    BY <1>4, <2>1
  <2>4. g[Len(q) + 1] = k /\ Len(q) + 1 \in DOMAIN a
    BY <1>4, <2>1
  <2>5. g \in [DOMAIN a -> 1 .. k]
    <3>1. \A i \in DOMAIN a : g[i] \in 1 .. k
      BY <1>1, <1>2, <1>6, <2>2, <2>3, <2>4
    <3> QED
      BY <2>1, <3>1
  <2> HIDE DEF a, g
  <2>6. \A i \in DOMAIN a : a[i] = s[g[i]]
    BY <1>2, <1>4, <2>1, <2>2, <2>3, <2>4
  <2>7. \A i, j \in DOMAIN a : i < j => g[i] < g[j]
    <3>1. SUFFICES ASSUME NEW i \in DOMAIN a, NEW j \in DOMAIN a, i < j PROVE g[i] < g[j]
      OBVIOUS
    <3>2. i \in DOMAIN q
      BY <1>4, <2>1, <2>2, <3>1
    <3>3. CASE j \in DOMAIN q
      BY <1>2, <2>3, <3>1, <3>2, <3>3
    <3>4. CASE j = Len(q) + 1
      BY <1>2, <1>6, <2>3, <2>4, <3>2, <3>4
    <3> QED
      BY <2>2, <3>3, <3>4
  <2>8. \A m \in 1 .. k : s[m] \in S => \E i \in DOMAIN a : g[i] = m
    BY <1>2, <1>5, <2>3, <2>4
  <2>9. WalkStep(s, S, f, k) = a
    BY <1>3, <1>7 DEF a
  <2> QED
    BY <2>5, <2>6, <2>7, <2>8, <2>9 DEF Sifted
<1>8. CASE s[k] \notin S
  <2>1. h \in [DOMAIN q -> 1 .. k]
    BY <1>2, <1>6
  <2>2. \A m \in 1 .. k : s[m] \in S => \E i \in DOMAIN q : h[i] = m
    BY <1>2, <1>5, <1>8
  <2> QED
    BY <1>2, <1>3, <1>8, <2>1, <2>2 DEF Sifted
<1> QED
  BY <1>7, <1>8

LEMMA WalkedSifted ==
  ASSUME NEW V, NEW s \in Seq(V), NEW S
  PROVE  \A k \in 0 .. Len(s) : Sifted(s, S, k, Walked(s, S)[k])
<1> DEFINE f == Walked(s, S)
           bad == {k \in 0 .. Len(s) : ~Sifted(s, S, k, f[k])}
<1>1. Len(s) \in Nat
  OBVIOUS
<1>2. \A n \in 0 .. Len(s) : f[n] = WalkStep(s, S, f, n)
  BY <1>1, WalkedSteps
<1>3. \A n \in 0 .. Len(s) : f[n] \in Seq(V)
  BY WalkedPicked DEF Picked
<1> HIDE DEF f
<1>4. SUFFICES ASSUME bad # {} PROVE FALSE
  BY DEF f
<1>5. PICK k \in bad : \A m \in bad : k <= m
  <2> HIDE DEF bad
  <2>1. bad \subseteq Nat
    BY <1>1 DEF bad
  <2> QED
    BY <1>4, <2>1, LeastNatural
<1>6. k \in 0 .. Len(s) /\ f[k] = WalkStep(s, S, f, k) /\ ~Sifted(s, S, k, f[k])
  BY <1>2, <1>5
<1>7. CASE k = 0
  <2>1. f[k] = <<>>
    BY <1>6, <1>7 DEF WalkStep
  <2> DEFINE h == [i \in {} |-> 0]
  <2>2. DOMAIN <<>> = {} /\ h \in [{} -> 1 .. k] /\ 1 .. k = {}
    BY <1>7
  <2>3. Sifted(s, S, k, <<>>)
    BY <2>2 DEF Sifted
  <2> QED
    BY <1>6, <2>1, <2>3
<1>8. CASE k # 0
  <2>1. k \in 1 .. Len(s) /\ k - 1 \in 0 .. Len(s) /\ ~(k <= k - 1)
    BY <1>1, <1>6, <1>8
  <2>2. Sifted(s, S, k - 1, f[k - 1])
    BY <1>5, <2>1
  <2>3. f[k - 1] \in Seq(V)
    BY <1>3, <2>1
  <2> HIDE DEF bad
  <2> QED
    BY <1>6, <2>1, <2>2, <2>3, SiftedStep
<1> QED
  BY <1>7, <1>8

\* A walk keeps the order of the elements it picks, and picks none twice.
LEMMA SelectedOrder ==
  ASSUME NEW V, NEW s \in Seq(V), NEW S
  PROVE  Sifted(s, S, Len(s), Selected(s, S))
<1>1. Len(s) \in 0 .. Len(s)
  OBVIOUS
<1> QED
  BY <1>1, WalkedSifted DEF Selected

\* A list that links nothing twice has as many elements as links.
LEMMA DistinctLength ==
  ASSUME NEW V, NEW s \in Seq(V), Distinct(s)
  PROVE  Cardinality(Elements(s)) = Len(s)
<1>1. Len(s) \in Nat /\ DOMAIN s = 1 .. Len(s)
  OBVIOUS
<1> DEFINE f == [i \in 1 .. Len(s) |-> s[i]]
<1>2. f \in Bijection(1 .. Len(s), Elements(s))
  <2>1. \A i \in 1 .. Len(s) : f[i] \in Elements(s)
    BY <1>1 DEF Elements
  <2>2. \A i, j \in 1 .. Len(s) : f[i] = f[j] => i = j
    BY <1>1 DEF Distinct
  <2>3. \A x \in Elements(s) : \E i \in 1 .. Len(s) : f[i] = x
    BY <1>1 DEF Elements
  <2> QED
    BY <2>1, <2>2, <2>3
       DEF Bijection, Injection, Surjection, IsInjective
<1>3. ExistsBijection(1 .. Len(s), Elements(s))
  BY <1>2 DEF ExistsBijection
<1> QED
  BY <1>1, <1>3, FS_CountingElements

-----------------------------------------------------------------------------
(* Tables of tags.  A nonempty bounded set of naturals has a least and a   *)
(* greatest element: take a set of its lower (upper) parts that is minimal *)
(* for inclusion.                                                          *)

PartBelow(S, k) == {i \in S : i <= k}
PartAbove(S, k) == {i \in S : k <= i}

\* A minimal member of a nonempty family of subsets of a finite set.
LEMMA MinimalSubset ==
  ASSUME NEW S, IsFiniteSet(S), NEW F, F \subseteq SUBSET S, F # {}
  PROVE  \E x \in F : \A y \in F : ~(<<y, x>> \in StrictSubsetOrdering(S))
<1>1. IsWellFoundedOn(StrictSubsetOrdering(S), SUBSET S)
  BY FS_StrictSubsetOrderingWellFounded, FS_FiniteSubsetsOfFinite
<1> QED
  BY <1>1, WFMin

\* The tag ids and step counts the searches of tag.c scan have a smallest.
LEMMA LeastElement ==
  ASSUME NEW L \in Nat, NEW S \in SUBSET (0..L), S # {}
  PROVE  \E m \in S : \A k \in S : m <= k
<1>1. S \subseteq Int
  OBVIOUS
<1>2. IsFiniteSet(S)
  <2>1. IsFiniteSet(0..L)
    BY FS_Interval
  <2> QED
    BY <2>1, FS_Subset
<1> DEFINE F == {PartBelow(S, k) : k \in S}
           R == StrictSubsetOrdering(S)
<1>3. F \subseteq SUBSET S /\ F # {}
  BY DEF PartBelow
<1> HIDE DEF F
<1>4. \E x \in F : \A y \in F : ~(<<y, x>> \in R)
  BY <1>2, <1>3, MinimalSubset
<1>5. PICK m \in S : \A k \in S : ~(<<PartBelow(S, k), PartBelow(S, m)>> \in R)
  BY <1>4 DEF F
<1>6. ASSUME NEW k \in S, k < m PROVE FALSE
  <2>1. \A i \in Int : i <= k => i <= m
    BY <1>1, <1>6
  <2>2. m \in PartBelow(S, m) /\ m \notin PartBelow(S, k)
    BY <1>1, <1>6 DEF PartBelow
  <2>3. PartBelow(S, k) \subseteq PartBelow(S, m)
    BY <1>1, <2>1, Zenon DEF PartBelow
  <2>4. <<PartBelow(S, k), PartBelow(S, m)>> \in R
    BY <2>2, <2>3 DEF StrictSubsetOrdering, PartBelow
  <2> QED
    BY <1>5, <2>4
<1> QED
  BY <1>1, <1>6

\* The ids of a table have a largest.
LEMMA GreatestElement ==
  ASSUME NEW L \in Nat, NEW S \in SUBSET (0..L), S # {}
  PROVE  \E m \in S : \A k \in S : k <= m
<1>1. S \subseteq Int
  OBVIOUS
<1>2. IsFiniteSet(S)
  <2>1. IsFiniteSet(0..L)
    BY FS_Interval
  <2> QED
    BY <2>1, FS_Subset
<1> DEFINE F == {PartAbove(S, k) : k \in S}
           R == StrictSubsetOrdering(S)
<1>3. F \subseteq SUBSET S /\ F # {}
  BY DEF PartAbove
<1> HIDE DEF F
<1>4. \E x \in F : \A y \in F : ~(<<y, x>> \in R)
  BY <1>2, <1>3, MinimalSubset
<1>5. PICK m \in S : \A k \in S : ~(<<PartAbove(S, k), PartAbove(S, m)>> \in R)
  BY <1>4 DEF F
<1>6. ASSUME NEW k \in S, m < k PROVE FALSE
  <2>1. \A i \in Int : k <= i => m <= i
    BY <1>1, <1>6
  <2>2. m \in PartAbove(S, m) /\ m \notin PartAbove(S, k)
    BY <1>1, <1>6 DEF PartAbove
  <2>3. PartAbove(S, k) \subseteq PartAbove(S, m)
    BY <1>1, <2>1, Zenon DEF PartAbove
  <2>4. <<PartAbove(S, k), PartAbove(S, m)>> \in R
    BY <2>2, <2>3 DEF StrictSubsetOrdering, PartAbove
  <2> QED
    BY <1>5, <2>4
<1> QED
  BY <1>1, <1>6

-----------------------------------------------------------------------------
(* The operations on a sound table                                         *)

GoodTable(limit, t) == t \in TagsType(limit) /\ TableSound(t)

\* leme_tags_init allocates exactly the pinned tags.
LEMMA TagsInitGood ==
  ASSUME NEW limit \in Nat \ {0}, NEW initial \in 1..limit,
         NEW maximum \in 1..limit, initial <= maximum
  PROVE  GoodTable(limit, TagsInit(initial, maximum))
BY DEF GoodTable, TagsInit, TagsType, TableSound

\* A view that joins a valid id materializes that id and nothing else.
LEMMA OccupyGood ==
  ASSUME NEW limit \in Nat \ {0}, NEW t, GoodTable(limit, t),
         NEW id \in 1..t.max_tags
  PROVE  /\ GoodTable(limit, Occupy(t, id))
         /\ Occupy(t, id).table = t.table \cup {id}
         /\ Occupy(t, id).max_tags = t.max_tags
<1> DEFINE candidate == IF id = t.focused_id THEN FALSE
                        ELSE t.focused_is_candidate
<1>1. candidate \in BOOLEAN
  BY DEF GoodTable, TagsType
<1>2. Occupy(t, id) = [t EXCEPT !.table = t.table \cup {id},
                                !.focused_is_candidate = candidate]
  BY DEF GoodTable, Occupy, Materialize, TagsType
<1>3. t.table \cup {id} \in SUBSET (1..limit)
  BY DEF GoodTable, TagsType
<1> HIDE DEF candidate
<1>4. Occupy(t, id) \in TagsType(limit)
  BY <1>1, <1>2, <1>3 DEF GoodTable, TagsType
<1>5. /\ Occupy(t, id).table = t.table \cup {id}
      /\ Occupy(t, id).max_tags = t.max_tags
      /\ Occupy(t, id).initial_tags = t.initial_tags
      /\ Occupy(t, id).focused_id = t.focused_id
  BY <1>2 DEF GoodTable, TagsType
<1> QED
  BY <1>4, <1>5 DEF GoodTable, TagsType, TableSound

\* leme_tags_materialize keeps a table good and adds exactly the id.
LEMMA MaterializeGood ==
  ASSUME NEW limit \in Nat \ {0}, NEW t, GoodTable(limit, t),
         NEW id \in 1..t.max_tags
  PROVE  /\ GoodTable(limit, Materialize(t, id))
         /\ Materialize(t, id).table = t.table \cup {id}
         /\ Materialize(t, id).max_tags = t.max_tags
BY DEF GoodTable, Materialize, TagsType, TableSound

\* A prune takes at most the one id away, and only when its tag is empty.
LEMMA PruneGood ==
  ASSUME NEW limit \in Nat \ {0}, NEW t, GoodTable(limit, t),
         NEW id \in 1..limit, NEW empty \in BOOLEAN
  PROVE  /\ GoodTable(limit, PruneEmpty(t, id, empty))
         /\ PruneEmpty(t, id, empty).max_tags = t.max_tags
         /\ t.table \ {id} \subseteq PruneEmpty(t, id, empty).table
         /\ ~empty => PruneEmpty(t, id, empty).table = t.table
<1>1. CASE id <= t.initial_tags \/ ~empty
  BY <1>1 DEF PruneEmpty
<1>2. CASE ~(id <= t.initial_tags \/ ~empty)
  <2> DEFINE focused == t.focused_is_candidate \/ t.focused_id = id
             previous == \/ t.previous_is_candidate
                         \/ t.previous_valid /\ t.previous_id = id
  <2>1. focused \in BOOLEAN /\ previous \in BOOLEAN
    OBVIOUS
  <2>2. PruneEmpty(t, id, empty) =
          [t EXCEPT !.focused_is_candidate = focused,
                    !.previous_is_candidate = previous,
                    !.table = t.table \ {id}]
    BY <1>2 DEF PruneEmpty
  <2>3. t.table \ {id} \in SUBSET (1..limit)
    BY DEF GoodTable, TagsType
  <2> HIDE DEF focused, previous
  <2>4. PruneEmpty(t, id, empty) \in TagsType(limit)
    BY <2>1, <2>2, <2>3 DEF GoodTable, TagsType
  <2>5. /\ PruneEmpty(t, id, empty).table = t.table \ {id}
        /\ PruneEmpty(t, id, empty).max_tags = t.max_tags
        /\ PruneEmpty(t, id, empty).initial_tags = t.initial_tags
        /\ PruneEmpty(t, id, empty).focused_id = t.focused_id
    BY <2>2 DEF GoodTable, TagsType
  <2> QED
    BY <1>2, <2>4, <2>5 DEF GoodTable, TagsType, TableSound
<1> QED
  BY <1>1, <1>2

\* An update of the focused and the previous focus, field by field.
Refocus(t, id, candidate, old, was, valid) ==
  [t EXCEPT !.focused_id = id, !.focused_is_candidate = candidate,
            !.previous_id = old, !.previous_is_candidate = was,
            !.previous_valid = valid]

\* Writing a new focus and a new previous focus keeps a table good.
LEMMA RefocusGood ==
  ASSUME NEW limit \in Nat \ {0}, NEW t, GoodTable(limit, t),
         NEW id \in 1..t.max_tags, NEW candidate \in BOOLEAN,
         NEW old \in 0..limit, NEW was \in BOOLEAN, NEW valid \in BOOLEAN
  PROVE  /\ GoodTable(limit, Refocus(t, id, candidate, old, was, valid))
         /\ Refocus(t, id, candidate, old, was, valid).table = t.table
         /\ Refocus(t, id, candidate, old, was, valid).max_tags = t.max_tags
<1> DEFINE r == Refocus(t, id, candidate, old, was, valid)
<1>1. id \in 1..limit
  BY DEF GoodTable, TagsType
<1>2. r \in TagsType(limit)
  BY <1>1, Zenon DEF GoodTable, TagsType, Refocus
<1>3. /\ r.table = t.table
      /\ r.max_tags = t.max_tags
      /\ r.initial_tags = t.initial_tags
      /\ r.focused_id = id
  BY DEF GoodTable, TagsType, Refocus
<1> HIDE DEF r
<1>4. GoodTable(limit, r) /\ r.table = t.table /\ r.max_tags = t.max_tags
  BY <1>2, <1>3 DEF GoodTable, TableSound
<1> QED
  BY <1>4 DEF r

\* A change of the focused id to a valid one keeps the table.
LEMMA SetFocusStateGood ==
  ASSUME NEW limit \in Nat \ {0}, NEW t, GoodTable(limit, t),
         NEW id \in 1..t.max_tags, NEW candidate \in BOOLEAN
  PROVE  /\ GoodTable(limit, SetFocusState(t, id, candidate))
         /\ SetFocusState(t, id, candidate).table = t.table
         /\ SetFocusState(t, id, candidate).max_tags = t.max_tags
<1>1. CASE t.focused_id = id /\ t.focused_is_candidate = candidate
  BY <1>1 DEF SetFocusState
<1>2. CASE ~(t.focused_id = id /\ t.focused_is_candidate = candidate)
  <2> DEFINE was == t.focused_is_candidate
             old == t.focused_id
             valid == TRUE
  <2>1. was \in BOOLEAN /\ old \in 0..limit /\ valid \in BOOLEAN
    BY DEF GoodTable, TagsType
  <2>2. SetFocusState(t, id, candidate) =
          Refocus(t, id, candidate, old, was, valid)
    BY <1>2, Zenon DEF SetFocusState, Refocus, GoodTable, TagsType
  <2> HIDE DEF was, old, valid
  <2> QED
    BY <2>1, <2>2, RefocusGood
<1> QED
  BY <1>1, <1>2

\* leme_tags_focus_id keeps a table good and moves only the focus.
LEMMA FocusIdGood ==
  ASSUME NEW limit \in Nat \ {0}, NEW t, GoodTable(limit, t), NEW id \in 1..limit
  PROVE  /\ GoodTable(limit, FocusId(t, id))
         /\ FocusId(t, id).table = t.table
         /\ FocusId(t, id).max_tags = t.max_tags
<1>1. CASE ~ValidId(t, id)
  BY <1>1 DEF FocusId
<1>2. CASE ValidId(t, id) /\ t.focused_id = id
  BY <1>2 DEF FocusId, GoodTable, TagsType, TableSound
<1>3. CASE ValidId(t, id) /\ t.focused_id # id
  BY <1>3, SetFocusStateGood, ZenonT(90) DEF FocusId, ValidId
<1> QED
  BY <1>1, <1>2, <1>3

\* The id a backward step wraps to is a valid one.
LEMMA BackwardWrapValid ==
  ASSUME NEW limit \in Nat \ {0}, NEW t, GoodTable(limit, t)
  PROVE  BackwardWrapId(t) \in 1..t.max_tags
<1>1. t.max_tags \in 1..limit /\ t.table \subseteq 1..t.max_tags
  BY DEF GoodTable, TagsType, TableSound
<1>2. LastMaterialized(t) \in 1..t.max_tags
  <2>1. CASE t.table = {}
    BY <1>1, <2>1 DEF LastMaterialized
  <2>2. CASE t.table # {}
    <3>1. t.table \in SUBSET (0..limit) /\ limit \in Nat
      BY <1>1
    <3>2. \E m \in t.table : \A k \in t.table : k <= m
      BY <2>2, <3>1, GreatestElement
    <3> QED
      BY <1>1, <2>2, <3>2 DEF LastMaterialized
  <2> QED
    BY <2>1, <2>2
<1> QED
  BY <1>1, <1>2 DEF BackwardWrapId

\* The neighbour of the focused id is valid, so the table is never indexed
\* out of its bounds.
LEMMA AdjacentValid ==
  ASSUME NEW limit \in Nat \ {0}, NEW t, GoodTable(limit, t),
         NEW direction \in Directions
  PROVE  AdjacentId(t, direction) \in 1..t.max_tags
<1>1. t.max_tags \in 1..limit /\ t.focused_id \in 1..t.max_tags
  BY DEF GoodTable, TagsType, TableSound
<1> QED
  BY <1>1, BackwardWrapValid
  DEF AdjacentId, Neighbour, Directions, Forward, Backward

\* The search of a step ends on a member of what it looks for.
LEMMA FirstMetInGoal ==
  ASSUME NEW t, t.max_tags \in Nat, NEW from, NEW direction, NEW goal,
         Met(t, from, direction, goal) # {}
  PROVE  FirstMet(t, from, direction, goal) \in goal
<1> DEFINE met == Met(t, from, direction, goal)
<1>1. met \in SUBSET (0..t.max_tags)
  BY DEF Met
<1>2. \E m \in met : \A k \in met : m <= k
  <2> HIDE DEF met
  <2>1. met # {}
    BY DEF met
  <2> QED
    BY <1>1, <2>1, LeastElement
<1>3. \A k \in met : Walk(t, from, direction)[k] \in goal
  BY DEF Met
<1>4. (CHOOSE k \in met : \A other \in met : k <= other) \in met
  <2> HIDE DEF met
  <2> QED
    BY <1>2
<1> QED
  BY <1>3, <1>4 DEF FirstMet

\* leme_tags_focus_next and leme_tags_focus_previous.
LEMMA StepGood ==
  ASSUME NEW limit \in Nat \ {0}, NEW t, GoodTable(limit, t),
         NEW direction \in Directions
  PROVE  /\ GoodTable(limit, Step(t, direction))
         /\ Step(t, direction).table = t.table
         /\ Step(t, direction).max_tags = t.max_tags
<1> DEFINE met == Met(t, t.focused_id, direction, t.table)
           first == FirstMet(t, t.focused_id, direction, t.table)
<1>1. t.max_tags \in Nat /\ t.table \subseteq 1..t.max_tags
  BY DEF GoodTable, TagsType, TableSound
<1>2. CASE t.focused_is_candidate /\ met = {}
  BY <1>2 DEF Step
<1>3. CASE t.focused_is_candidate /\ met # {}
  <2>1. first \in 1..t.max_tags
    BY <1>1, <1>3, FirstMetInGoal
  <2>2. Step(t, direction) = SetFocusState(t, first, FALSE)
    BY <1>3 DEF Step
  <2> QED
    BY <2>1, <2>2, SetFocusStateGood, ZenonT(90)
<1>4. CASE ~t.focused_is_candidate
  <2>1. AdjacentId(t, direction) \in 1..t.max_tags
    BY AdjacentValid
  <2>2. Step(t, direction) =
          SetFocusState(t, AdjacentId(t, direction),
                        AdjacentId(t, direction) \notin t.table)
    BY <1>4 DEF Step
  <2> QED
    BY <2>1, <2>2, SetFocusStateGood, ZenonT(90)
<1> QED
  BY <1>2, <1>3, <1>4

\* leme_tags_focus_last.
LEMMA FocusLastGood ==
  ASSUME NEW limit \in Nat \ {0}, NEW t, GoodTable(limit, t)
  PROVE  /\ GoodTable(limit, FocusLast(t))
         /\ FocusLast(t).table = t.table
         /\ FocusLast(t).max_tags = t.max_tags
<1>1. CASE ~CanFocusLast(t)
  BY <1>1 DEF FocusLast
<1>2. CASE /\ CanFocusLast(t)
           /\ ~PreviousIsCandidate(t) /\ t.previous_id \notin t.table
  BY <1>2 DEF FocusLast, GoodTable, TagsType, TableSound
<1>3. CASE /\ CanFocusLast(t)
           /\ ~(~PreviousIsCandidate(t) /\ t.previous_id \notin t.table)
  <2> DEFINE was == t.focused_is_candidate
             old == t.focused_id
             valid == t.previous_valid
             id == t.previous_id
             candidate == PreviousIsCandidate(t)
  <2>1. was \in BOOLEAN /\ old \in 0..limit /\ valid \in BOOLEAN
    BY DEF GoodTable, TagsType
  <2>2. id \in 1..t.max_tags /\ candidate \in BOOLEAN
    BY <1>3 DEF CanFocusLast, ValidId, PreviousIsCandidate
  <2>3. FocusLast(t) = Refocus(t, id, candidate, old, was, valid)
    BY <1>3 DEF FocusLast, Refocus, GoodTable, TagsType
  <2> HIDE DEF was, old, valid, id, candidate
  <2> QED
    BY <2>1, <2>2, <2>3, RefocusGood
<1> QED
  BY <1>1, <1>2, <1>3

\* leme_tags_commit_set_max on a table that leme_tags_prepare_set_max
\* accepted: a focus above the new maximum falls back to tag 1.
LEMMA CommitSetMaxGood ==
  ASSUME NEW limit \in Nat \ {0}, NEW t, GoodTable(limit, t),
         NEW maximum \in 1..limit, PrepareSetMax(t, maximum)
  PROVE  /\ GoodTable(limit, CommitSetMax(t, maximum))
         /\ CommitSetMax(t, maximum).table = t.table
         /\ CommitSetMax(t, maximum).max_tags = maximum
<1>1. /\ t.table \subseteq 1..maximum
      /\ 1 \in t.table
      /\ t.initial_tags \in t.table
  BY DEF PrepareSetMax, CanSetMax, GoodTable, TagsType, TableSound
<1>2. (CHOOSE id \in t.table : \A other \in t.table : id <= other)
        \in 1..maximum
  <2>1. \A other \in t.table : 1 <= other
    BY <1>1
  <2> QED
    BY <1>1, <2>1
<1> DEFINE valid == t.previous_valid /\ t.previous_id <= maximum
           first == CHOOSE id \in t.table : \A other \in t.table : id <= other
           forgotten == [t EXCEPT !.max_tags = maximum,
                                  !.previous_valid = valid]
<1>3. valid \in BOOLEAN
  OBVIOUS
<1>4. CommitSetMax(t, maximum) =
        IF t.focused_id <= maximum THEN forgotten
        ELSE [forgotten EXCEPT !.focused_id = first,
                               !.focused_is_candidate = FALSE]
  BY DEF CommitSetMax
<1> HIDE DEF valid, first
<1>5. /\ forgotten \in TagsType(limit)
      /\ forgotten.table = t.table
      /\ forgotten.max_tags = maximum
      /\ forgotten.initial_tags = t.initial_tags
      /\ forgotten.focused_id = t.focused_id
  BY <1>3 DEF GoodTable, TagsType
<1> HIDE DEF forgotten
<1>6. CASE t.focused_id <= maximum
  BY <1>1, <1>4, <1>5, <1>6 DEF GoodTable, TagsType, TableSound
<1>7. CASE ~(t.focused_id <= maximum)
  <2> DEFINE no == FALSE
             fallen == [forgotten EXCEPT !.focused_id = first,
                                         !.focused_is_candidate = no]
  <2>1. no \in BOOLEAN /\ first \in 1..limit
    BY <1>2 DEF first
  <2>2. CommitSetMax(t, maximum) = fallen
    BY <1>4, <1>7
  <2> HIDE DEF no
  <2>3. /\ fallen \in TagsType(limit)
        /\ fallen.table = t.table
        /\ fallen.max_tags = maximum
        /\ fallen.initial_tags = t.initial_tags
        /\ fallen.focused_id = first
    BY <1>5, <2>1 DEF TagsType
  <2> HIDE DEF fallen
  <2> QED
    BY <1>1, <1>2, <2>2, <2>3 DEF GoodTable, TagsType, TableSound, first
<1> QED
  BY <1>6, <1>7

-----------------------------------------------------------------------------
(* The walk around the ids.  Its least counterexample to what it meets     *)
(* would follow a step that meets the right id.                            *)

\* One step of Walk.
Stroll(t, from, direction, f, k) ==
  IF k = 0 THEN from ELSE Neighbour(t, f[k - 1], direction)

\* A walk of any number of steps exists.
LEMMA StrollExists ==
  ASSUME NEW t, t.max_tags \in Nat, NEW from, NEW direction
  PROVE  \E f : f = [k \in 0..t.max_tags |-> Stroll(t, from, direction, f, k)]
<1> DEFINE m == t.max_tags
           Exists(n) == \E f : f = [k \in 0..n |-> Stroll(t, from, direction, f, k)]
           bad == {n \in 0..m : ~Exists(n)}
<1>1. SUFFICES ASSUME m \in bad PROVE FALSE
  OBVIOUS
<1>2. PICK n \in bad : \A other \in bad : n <= other
  <2> HIDE DEF Exists
  <2>1. bad \in SUBSET (0..m) /\ bad # {}
    BY <1>1
  <2> HIDE DEF bad
  <2> QED
    BY <2>1, LeastElement
<1>3. n # 0
  <2>1. SUFFICES ASSUME n = 0 PROVE Exists(0)
    BY <1>2
  <2> DEFINE f == [k \in 0..0 |-> from]
  <2>2. f = [k \in 0..0 |-> Stroll(t, from, direction, f, k)]
    BY DEF Stroll
  <2> QED
    BY <2>2
<1>4. n \in 1..m /\ n - 1 \in 0..m /\ ~Exists(n)
  BY <1>2, <1>3
<1>5. Exists(n - 1)
  <2> HIDE DEF Exists
  <2>1. n - 1 \notin bad
    BY <1>2, <1>4
  <2> QED
    BY <1>4, <2>1
<1>6. PICK f : f = [k \in 0..n - 1 |-> Stroll(t, from, direction, f, k)]
  BY <1>5
<1> DEFINE g == [k \in 0..n |-> IF k < n THEN f[k] ELSE Stroll(t, from, direction, f, n)]
<1>7. ASSUME NEW k \in 0..n PROVE g[k] = Stroll(t, from, direction, g, k)
  <2>1. k \in Nat /\ k <= n /\ n \in Nat
    BY <1>4, <1>7
  <2>2. k # 0 => g[k - 1] = f[k - 1]
    BY <2>1
  <2>3. Stroll(t, from, direction, g, k) = Stroll(t, from, direction, f, k)
    BY <2>2 DEF Stroll
  <2>4. CASE k < n
    <3>1. k \in 0..n - 1
      BY <2>1, <2>4
    <3>2. f[k] = Stroll(t, from, direction, f, k)
      BY <1>6, <3>1
    <3> QED
      BY <2>3, <2>4, <3>2
  <2>5. CASE k = n
    BY <2>3, <2>5
  <2> QED
    BY <2>1, <2>4, <2>5
<1>8. g = [k \in 0..n |-> Stroll(t, from, direction, g, k)]
  <2> DEFINE h == [k \in 0..n |-> Stroll(t, from, direction, g, k)]
  <2>1. \A k \in 0..n : g[k] = h[k]
    BY <1>7
  <2>2. g = [k \in 0..n |-> g[k]] /\ h = [k \in 0..n |-> h[k]]
    OBVIOUS
  <2> HIDE DEF g, h
  <2>3. [k \in 0..n |-> g[k]] = [k \in 0..n |-> h[k]]
    BY <2>1
  <2>4. g = h
    BY <2>2, <2>3
  <2> QED
    BY <2>4 DEF h
<1> QED
  <2> HIDE DEF g
  <2>1. Exists(n)
    BY <1>8
  <2> QED
    BY <1>4, <2>1

\* Walk starts at an id and goes from neighbour to neighbour.
LEMMA WalkSteps ==
  ASSUME NEW t, t.max_tags \in Nat, NEW from, NEW direction
  PROVE  /\ Walk(t, from, direction)[0] = from
         /\ \A k \in 1..t.max_tags :
              Walk(t, from, direction)[k]
                = Neighbour(t, Walk(t, from, direction)[k - 1], direction)
<1> DEFINE w == Walk(t, from, direction)
<1>1. \E f : f = [k \in 0..t.max_tags |-> Stroll(t, from, direction, f, k)]
  BY StrollExists, ZenonT(90)
<1>2. w = CHOOSE f : f = [k \in 0..t.max_tags |-> Stroll(t, from, direction, f, k)]
  BY DEF Walk, Stroll
<1> HIDE DEF w
<1>3. w = [k \in 0..t.max_tags |-> Stroll(t, from, direction, w, k)]
  BY <1>1, <1>2
<1>4. \A k \in 0..t.max_tags : w[k] = Stroll(t, from, direction, w, k)
  BY <1>3
<1> QED
  BY <1>4 DEF Stroll, w

\* The first member of a goal that a walk meets.
LEMMA FirstMetIs ==
  ASSUME NEW t, t.max_tags \in Nat, NEW from, NEW direction, NEW goal,
         NEW k \in 1..t.max_tags, Walk(t, from, direction)[k] \in goal,
         \A j \in 1..k - 1 : Walk(t, from, direction)[j] \notin goal
  PROVE  /\ Met(t, from, direction, goal) # {}
         /\ FirstMet(t, from, direction, goal) = Walk(t, from, direction)[k]
<1> DEFINE met == Met(t, from, direction, goal)
           first == CHOOSE i \in met : \A other \in met : i <= other
<1>1. met \subseteq 1..t.max_tags /\ k \in met
  BY DEF Met
<1>2. \A i \in met : k <= i
  <2>1. SUFFICES ASSUME NEW i \in met, i < k PROVE FALSE
    BY <1>1
  <2>2. i \in 1..k - 1
    BY <1>1, <2>1
  <2> QED
    BY <2>1, <2>2 DEF Met
<1> HIDE DEF met
<1>3. first \in met /\ \A other \in met : first <= other
  BY <1>1, <1>2
<1> HIDE DEF first
<1>4. first = k
  <2>1. first \in Int /\ k \in Int /\ first <= k /\ k <= first
    BY <1>1, <1>2, <1>3
  <2> QED
    BY <2>1
<1>5. FirstMet(t, from, direction, goal) = Walk(t, from, direction)[first]
  BY DEF FirstMet, first, met
<1> QED
  BY <1>1, <1>4, <1>5 DEF met

\* A walk forward meets the ids above its start one after the other.
LEMMA WalkForward ==
  ASSUME NEW t, t.max_tags \in Nat, NEW from \in 1..t.max_tags
  PROVE  \A k \in 0..t.max_tags - from : Walk(t, from, Forward)[k] = from + k
<1> DEFINE w == Walk(t, from, Forward)
           bad == {k \in 0..t.max_tags - from : w[k] # from + k}
<1>0. /\ w[0] = from
      /\ \A k \in 1..t.max_tags : w[k] = Neighbour(t, w[k - 1], Forward)
  BY WalkSteps
<1> HIDE DEF w
<1>1. SUFFICES ASSUME bad # {} PROVE FALSE
  BY DEF w
<1>2. PICK k \in bad : \A other \in bad : k <= other
  <2>1. bad \in SUBSET (0..t.max_tags)
    OBVIOUS
  <2> HIDE DEF bad
  <2> QED
    BY <1>1, <2>1, LeastElement
<1>3. k \in 1..t.max_tags - from /\ k \in 1..t.max_tags
  BY <1>0, <1>2
<1>4. k - 1 \notin bad
  BY <1>2, <1>3
<1>5. w[k - 1] = from + (k - 1)
  BY <1>3, <1>4
<1>6. w[k] = Neighbour(t, from + (k - 1), Forward)
  BY <1>0, <1>3, <1>5
<1>7. from + (k - 1) # t.max_tags /\ from + (k - 1) + 1 = from + k
  BY <1>3
<1>8. w[k] = from + k
  BY <1>6, <1>7 DEF Neighbour
<1> QED
  BY <1>2, <1>8

\* A walk backward meets the ids below its start one after the other.
LEMMA WalkBackward ==
  ASSUME NEW t, t.max_tags \in Nat, NEW from \in 1..t.max_tags
  PROVE  \A k \in 0..from - 1 : Walk(t, from, Backward)[k] = from - k
<1> DEFINE w == Walk(t, from, Backward)
           bad == {k \in 0..from - 1 : w[k] # from - k}
<1>0. /\ w[0] = from
      /\ \A k \in 1..t.max_tags : w[k] = Neighbour(t, w[k - 1], Backward)
  BY WalkSteps
<1> HIDE DEF w
<1>1. SUFFICES ASSUME bad # {} PROVE FALSE
  BY DEF w
<1>2. PICK k \in bad : \A other \in bad : k <= other
  <2>1. bad \in SUBSET (0..t.max_tags)
    OBVIOUS
  <2> HIDE DEF bad
  <2> QED
    BY <1>1, <2>1, LeastElement
<1>3. k \in 1..from - 1 /\ k \in 1..t.max_tags
  BY <1>0, <1>2
<1>4. k - 1 \notin bad
  BY <1>2, <1>3
<1>5. w[k - 1] = from - (k - 1)
  BY <1>3, <1>4
<1>6. w[k] = Neighbour(t, from - (k - 1), Backward)
  BY <1>0, <1>3, <1>5
<1>7. from - (k - 1) # 1 /\ from - (k - 1) - 1 = from - k
  BY <1>3
<1>8. w[k] = from - k
  BY <1>6, <1>7 DEF Neighbour, Forward, Backward
<1> QED
  BY <1>2, <1>8

-----------------------------------------------------------------------------
(* A step and the ring of a swipe                                          *)

LEMMA LowestIs ==
  ASSUME NEW S, S \subseteq Int, NEW x \in S, \A y \in S : x <= y
  PROVE  (CHOOSE id \in S : \A other \in S : id <= other) = x
<1> DEFINE low == CHOOSE id \in S : \A other \in S : id <= other
<1>1. low \in S /\ \A other \in S : low <= other
  OBVIOUS
<1> HIDE DEF low
<1>2. low <= x /\ x <= low /\ low \in Int /\ x \in Int
  BY <1>1
<1>3. low = x
  BY <1>2
<1> QED
  BY <1>3 DEF low

LEMMA HighestIs ==
  ASSUME NEW S, S \subseteq Int, NEW x \in S, \A y \in S : y <= x
  PROVE  (CHOOSE id \in S : \A other \in S : other <= id) = x
<1> DEFINE high == CHOOSE id \in S : \A other \in S : other <= id
<1>1. high \in S /\ \A other \in S : other <= high
  OBVIOUS
<1> HIDE DEF high
<1>2. x <= high /\ high <= x /\ high \in Int /\ x \in Int
  BY <1>1
<1>3. high = x
  BY <1>2
<1> QED
  BY <1>3 DEF high

\* The ring of a swipe that starts on a tag: the tags and the first free id,
\* which is the neighbour of the tag if that is free.
LEMMA RingOfTag ==
  ASSUME NEW limit \in Nat \ {0}, NEW t, GoodTable(limit, t), ~t.focused_is_candidate,
         NEW direction \in Directions
  PROVE  LET next == AdjacentId(t, direction)
         IN /\ next \in 1..t.max_tags
            /\ Step(t, direction).focused_id = next
            /\ t.table \subseteq Ring(t, direction)
            /\ Ring(t, direction) \subseteq 1..t.max_tags
            /\ next \in Ring(t, direction)
            /\ next \notin t.table => Ring(t, direction) = t.table \cup {next}
<1> DEFINE f == t.focused_id
           next == AdjacentId(t, direction)
           free == 1..t.max_tags \ t.table
           met == Met(t, f, direction, free)
           first == FirstMet(t, f, direction, free)
<1>1. /\ t.max_tags \in Nat /\ t.max_tags \in 1..t.max_tags /\ f \in 1..t.max_tags
      /\ t.table \subseteq 1..t.max_tags /\ 1 \in 1..t.max_tags
  BY DEF GoodTable, TagsType, TableSound
<1>2. next \in 1..t.max_tags
  BY AdjacentValid
<1>3. Walk(t, f, direction)[1] = next
  <2> DEFINE w == Walk(t, f, direction)
  <2>1. w[0] = f /\ \A k \in 1..t.max_tags : w[k] = Neighbour(t, w[k - 1], direction)
    BY <1>1, WalkSteps
  <2> HIDE DEF w
  <2>2. w[1] = Neighbour(t, w[1 - 1], direction)
    BY <1>1, <2>1
  <2>3. w[1] = Neighbour(t, f, direction)
    BY <2>1, <2>2
  <2> QED
    BY <2>3 DEF AdjacentId, w
<1>4. ASSUME next \notin t.table PROVE met # {} /\ first = next
  <2>1. Walk(t, f, direction)[1] \in free
    BY <1>2, <1>3, <1>4
  <2>2. \A j \in 1..1 - 1 : Walk(t, f, direction)[j] \notin free
    OBVIOUS
  <2> HIDE DEF free
  <2> QED
    BY <1>1, <1>3, <2>1, <2>2, FirstMetIs
<1>5. met # {} => first \in free
  BY <1>1, FirstMetInGoal
<1>6. Ring(t, direction) = t.table \cup (IF met = {} THEN {} ELSE {first})
  BY DEF Ring, Navigable
<1>7. Step(t, direction).focused_id = next
  <2>1. Step(t, direction) = SetFocusState(t, next, next \notin t.table)
    BY DEF Step
  <2> HIDE DEF next
  <2>2. t \in TagsType(limit)
    BY DEF GoodTable
  <2> QED
    BY <2>1, <2>2 DEF SetFocusState, TagsType
<1> HIDE DEF next, free, met, first
<1>8. Ring(t, direction) \subseteq 1..t.max_tags
  BY <1>1, <1>5, <1>6 DEF free
<1> QED
  BY <1>2, <1>4, <1>6, <1>7, <1>8 DEF next

\* A step from a tag goes to its neighbour, which is next on the ring.
LEMMA StepFromTag ==
  ASSUME NEW limit \in Nat \ {0}, NEW t, GoodTable(limit, t), ~t.focused_is_candidate,
         NEW direction \in Directions
  PROVE  StepOnRing(t, direction)
<1> DEFINE f == t.focused_id
           next == AdjacentId(t, direction)
           ring == Ring(t, direction)
           ahead == {id \in ring : id > f}
           behind == {id \in ring : id < f}
<1>1. /\ t.max_tags \in Nat /\ f \in 1..t.max_tags
      /\ t.table \subseteq 1..t.max_tags /\ 1 \in t.table
  BY DEF GoodTable, TagsType, TableSound
<1>2. /\ next \in 1..t.max_tags /\ Step(t, direction).focused_id = next
      /\ t.table \subseteq ring /\ ring \subseteq 1..t.max_tags /\ next \in ring
      /\ next \notin t.table => ring = t.table \cup {next}
  BY RingOfTag
<1> HIDE DEF ring
<1>3. next = IF direction = Forward
             THEN IF f = t.max_tags THEN 1 ELSE f + 1
             ELSE IF f = 1 THEN BackwardWrapId(t) ELSE f - 1
  BY DEF AdjacentId, Neighbour
<1> HIDE DEF next
<1>4. CASE direction = Forward /\ f # t.max_tags
  <2>1. next \in ahead /\ ahead \subseteq Int /\ \A y \in ahead : next <= y
    BY <1>1, <1>2, <1>3, <1>4
  <2>2. (CHOOSE id \in ahead : \A other \in ahead : id <= other) = next
    <3> HIDE DEF ahead
    <3> QED
      BY <2>1, LowestIs
  <2> QED
    BY <1>2, <1>4, <2>1, <2>2 DEF StepOnRing, ring
<1>5. CASE direction = Forward /\ f = t.max_tags
  <2>1. /\ next \in ring /\ ring \subseteq Int /\ \A y \in ring : next <= y
        /\ ahead = {}
    <3>1. next = 1
      BY <1>3, <1>5
    <3>2. \A y \in ring : y \in 1..f
      BY <1>2, <1>5
    <3>3. f \in Int
      BY <1>1
    <3>4. ahead = {}
      BY <3>2, <3>3
    <3> HIDE DEF ahead
    <3> QED
      BY <1>2, <3>1, <3>2, <3>3, <3>4
  <2>2. (CHOOSE id \in ring : \A other \in ring : id <= other) = next
    BY <2>1, LowestIs
  <2> QED
    BY <1>2, <1>5, <2>1, <2>2 DEF StepOnRing, ring
<1>6. CASE direction # Forward /\ f # 1
  <2>1. next \in behind /\ behind \subseteq Int /\ \A y \in behind : y <= next
    BY <1>1, <1>2, <1>3, <1>6
  <2>2. (CHOOSE id \in behind : \A other \in behind : other <= id) = next
    <3> HIDE DEF behind
    <3> QED
      BY <2>1, HighestIs
  <2> QED
    BY <1>2, <1>6, <2>1, <2>2 DEF StepOnRing, ring
<1>7. CASE direction # Forward /\ f = 1
  <2>1. behind = {} /\ ring \subseteq Int
    BY <1>1, <1>2, <1>7
  <2> DEFINE last == LastMaterialized(t)
  <2>2. last \in t.table /\ \A id \in t.table : id <= last
    <3>1. t.table \in SUBSET (0..t.max_tags) /\ t.table # {}
      BY <1>1
    <3>2. \E m \in t.table : \A k \in t.table : k <= m
      BY <1>1, <3>1, GreatestElement
    <3> QED
      BY <3>1, <3>2 DEF LastMaterialized
  <2>3. next = IF last < t.max_tags THEN last + 1 ELSE t.max_tags
    BY <1>3, <1>7 DEF BackwardWrapId
  <2> HIDE DEF last
  <2>4. \A y \in ring : y <= next
    <3>1. CASE last < t.max_tags
      <4>1. next = last + 1 /\ last \in Int
        BY <1>1, <2>2, <2>3, <3>1
      <4>2. next \notin t.table
        BY <1>1, <2>2, <4>1
      <4> QED
        BY <1>1, <1>2, <2>2, <4>1, <4>2
    <3>2. CASE ~(last < t.max_tags)
      BY <1>1, <1>2, <2>3, <3>2
    <3> QED
      BY <3>1, <3>2
  <2>5. (CHOOSE id \in ring : \A other \in ring : other <= id) = next
    BY <1>2, <2>1, <2>4, HighestIs
  <2> QED
    BY <1>2, <1>7, <2>1, <2>5 DEF StepOnRing, ring
<1> QED
  BY <1>4, <1>5, <1>6, <1>7

\* A step from a candidate skips to the next tag, and the ring of a candidate
\* has no other free id.
LEMMA StepFromCandidate ==
  ASSUME NEW limit \in Nat \ {0}, NEW t, GoodTable(limit, t), CandidateSound(t),
         t.focused_is_candidate, NEW direction \in Directions
  PROVE  StepOnRing(t, direction)
<1> DEFINE f == t.focused_id
           ring == Ring(t, direction)
           ahead == {id \in ring : id > f}
           behind == {id \in ring : id < f}
           w == Walk(t, f, direction)
<1>1. /\ t.max_tags \in Nat /\ f \in 1..t.max_tags /\ f \notin t.table /\ f # 1
      /\ t.table \subseteq 1..t.max_tags /\ 1 \in t.table
  BY DEF GoodTable, TagsType, TableSound, CandidateSound
<1>2. ring = t.table \cup {f}
  BY DEF Ring, Navigable
<1>3. ASSUME NEW k \in 1..t.max_tags, w[k] \in t.table,
             \A j \in 1..k - 1 : w[j] \notin t.table
      PROVE  Step(t, direction).focused_id = w[k]
  <2> DEFINE first == FirstMet(t, f, direction, t.table)
  <2>1. Met(t, f, direction, t.table) # {} /\ first = w[k]
    BY <1>1, <1>3, FirstMetIs
  <2>2. Step(t, direction) = SetFocusState(t, first, FALSE)
    BY <2>1 DEF Step
  <2> HIDE DEF first, w
  <2>3. t \in TagsType(limit)
    BY DEF GoodTable
  <2> QED
    BY <2>1, <2>2, <2>3 DEF SetFocusState, TagsType
<1> HIDE DEF w, ring
<1>4. CASE direction = Forward
  <2>1. \A k \in 0..t.max_tags - f : w[k] = f + k
    BY <1>1, <1>4, WalkForward DEF w
  <2> DEFINE above == {id \in t.table : id > f}
  <2>2. ahead = above
    BY <1>1, <1>2
  <2>3. CASE above # {}
    <3>1. above \in SUBSET (0..t.max_tags)
      BY <1>1
    <3>2. PICK a \in above : \A other \in above : a <= other
      <4> HIDE DEF above
      <4> QED
        BY <1>1, <2>3, <3>1, LeastElement
    <3> DEFINE k == a - f
    <3>3. k \in 1..t.max_tags /\ k \in 0..t.max_tags - f /\ w[k] = a /\ a \in t.table
      BY <1>1, <2>1, <3>2
    <3>4. ASSUME NEW j \in 1..k - 1 PROVE w[j] \notin t.table
      <4>1. w[j] = f + j /\ f + j > f /\ f + j < a
        BY <1>1, <2>1, <3>3
      <4>2. f + j \notin above
        BY <1>1, <3>2, <3>3, <4>1
      <4> QED
        BY <4>1, <4>2
    <3>5. Step(t, direction).focused_id = a
      <4> HIDE DEF k
      <4> QED
        BY <1>3, <3>3, <3>4
    <3>6. (CHOOSE id \in ahead : \A other \in ahead : id <= other) = a
      <4>1. ahead \subseteq Int /\ a \in ahead /\ \A y \in ahead : a <= y
        BY <1>1, <2>2, <3>2
      <4> HIDE DEF ahead
      <4> QED
        BY <4>1, LowestIs
    <3> QED
      BY <1>4, <2>2, <2>3, <3>5, <3>6 DEF StepOnRing, ring
  <2>4. CASE above = {}
    <3> DEFINE k == t.max_tags - f + 1
    <3>1. k \in 1..t.max_tags /\ k - 1 \in 0..t.max_tags - f /\ k - 1 = t.max_tags - f
      BY <1>1
    <3>2. w[k] = 1
      <4>1. w[k] = Neighbour(t, w[k - 1], direction)
        BY <1>1, <3>1, WalkSteps DEF w
      <4>2. w[k - 1] = t.max_tags
        BY <1>1, <2>1, <3>1
      <4> HIDE DEF k
      <4> QED
        BY <1>4, <4>1, <4>2 DEF Neighbour
    <3>3. ASSUME NEW j \in 1..k - 1 PROVE w[j] \notin t.table
      <4>1. w[j] = f + j /\ f + j > f
        BY <1>1, <2>1, <3>1
      <4> QED
        BY <2>4, <4>1
    <3>4. Step(t, direction).focused_id = 1
      <4> HIDE DEF k
      <4> QED
        BY <1>1, <1>3, <3>1, <3>2, <3>3
    <3>5. (CHOOSE id \in ring : \A other \in ring : id <= other) = 1
      <4>1. ring \subseteq Int /\ 1 \in ring /\ \A y \in ring : 1 <= y
        BY <1>1, <1>2
      <4> QED
        BY <4>1, LowestIs
    <3> QED
      BY <1>4, <2>2, <2>4, <3>4, <3>5 DEF StepOnRing, ring
  <2> QED
    BY <2>3, <2>4
<1>5. CASE direction # Forward
  <2>0. direction = Backward
    BY <1>5 DEF Directions
  <2>1. \A k \in 0..f - 1 : w[k] = f - k
    BY <1>1, <2>0, WalkBackward DEF w
  <2> DEFINE below == {id \in t.table : id < f}
  <2>2. behind = below /\ below # {} /\ below \in SUBSET (0..t.max_tags)
    BY <1>1, <1>2
  <2>3. PICK b \in below : \A other \in below : other <= b
    <3> HIDE DEF below
    <3> QED
      BY <1>1, <2>2, GreatestElement
  <2> DEFINE k == f - b
  <2>4. k \in 1..t.max_tags /\ k \in 0..f - 1 /\ w[k] = b /\ b \in t.table
    BY <1>1, <2>1, <2>3
  <2>5. ASSUME NEW j \in 1..k - 1 PROVE w[j] \notin t.table
    <3>1. w[j] = f - j /\ f - j < f /\ f - j > b
      BY <1>1, <2>1, <2>4
    <3>2. f - j \notin below
      BY <1>1, <2>3, <2>4, <3>1
    <3> QED
      BY <3>1, <3>2
  <2>6. Step(t, direction).focused_id = b
    <3> HIDE DEF k
    <3> QED
      BY <1>3, <2>4, <2>5
  <2>7. (CHOOSE id \in behind : \A other \in behind : other <= id) = b
    <3>1. behind \subseteq Int /\ b \in behind /\ \A y \in behind : y <= b
      BY <1>1, <2>2, <2>3
    <3> HIDE DEF behind
    <3> QED
      BY <3>1, HighestIs
  <2> QED
    BY <1>5, <2>2, <2>6, <2>7 DEF StepOnRing, ring
<1> QED
  BY <1>4, <1>5

\* focus_next_tag and focus_previous_tag of any table whose candidate is one.
LEMMA StepIsOnRing ==
  ASSUME NEW limit \in Nat \ {0}, NEW t, GoodTable(limit, t), CandidateSound(t),
         NEW direction \in Directions
  PROVE  StepOnRing(t, direction)
BY StepFromTag, StepFromCandidate DEF GoodTable, TagsType
=============================================================================
