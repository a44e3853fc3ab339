--------------------------- MODULE MonitorsProofs ---------------------------
(***************************************************************************)
(* Proofs about Monitors: for every set of connectors, modes, files and    *)
(* clients, and every number of faults, outputs that are on never overlap, *)
(* what the session keeps about them agrees, and a failed operation does   *)
(* no harm.                                                                *)
(*                                                                         *)
(* The invariant has a part that every state has, Base, and a part, Lit    *)
(* and Told, that only a state from which nothing was lost has.  Each      *)
(* operation maps a state to outcomes, and Ends says of an outcome what of *)
(* both parts it keeps, whatever kind it is of; it is proved for a commit  *)
(* with its reconciliation, a wake and a darkening, and carried through    *)
(* the operations made of them.  That outputs do not overlap rests on      *)
(* sizes: a plan rounds the size of a screen, the screen itself cuts it,   *)
(* so it lies in the box it was planned with, and boxes that are           *)
(* compatible have compatible parts.                                       *)
(***************************************************************************)
EXTENDS MonitorsProperties, DataProofs

-----------------------------------------------------------------------------
(* Integers                                                                *)

\* Walking up one by one from 0.
LEMMA StepByStep ==
  ASSUME NEW n \in Nat, NEW S, 0 \in S, \A k \in 1..n : k - 1 \in S => k \in S
  PROVE  \A k \in 0..n : k \in S
<1> DEFINE bad == {k \in 0..n : k \notin S}
<1>1. SUFFICES ASSUME bad # {} PROVE FALSE
  OBVIOUS
<1>2. PICK k \in bad : \A other \in bad : k <= other
  <2>1. bad \subseteq Nat
    OBVIOUS
  <2> HIDE DEF bad
  <2> QED
    BY <1>1, <2>1, LeastNatural
<1>3. k \in 1..n /\ k - 1 \in 0..n /\ ~(k <= k - 1)
  BY <1>2
<1>4. k - 1 \in S
  BY <1>2, <1>3
<1> QED
  BY <1>2, <1>3, <1>4

\* A set of integers that is bounded below has a least element.
LEMMA LeastInt ==
  ASSUME NEW S, S \subseteq Int, S # {}, NEW b \in Int, \A x \in S : b <= x
  PROVE  \E m \in S : \A x \in S : m <= x
<1> DEFINE T == {x - b : x \in S}
<1>0. \A x \in S : x - b \in Nat /\ x - b \in T
  OBVIOUS
<1>1. T \subseteq Nat /\ T # {}
  BY <1>0
<1>2. \E k \in T : \A m \in T : k <= m
  <2> HIDE DEF T
  <2> QED
    BY <1>1, LeastNatural
<1>3. PICK m \in S : \A x \in S : m - b <= x - b
  BY <1>2
<1> QED
  BY <1>3

\* A set of integers that is bounded above has a greatest element.
LEMMA GreatestInt ==
  ASSUME NEW S, S \subseteq Int, S # {}, NEW b \in Int, \A x \in S : x <= b
  PROVE  \E m \in S : \A x \in S : x <= m
<1> DEFINE T == {b - x : x \in S}
<1>0. \A x \in S : b - x \in Nat /\ b - x \in T
  OBVIOUS
<1>1. T \subseteq Nat /\ T # {}
  BY <1>0
<1>2. \E k \in T : \A m \in T : k <= m
  <2> HIDE DEF T
  <2> QED
    BY <1>1, LeastNatural
<1>3. PICK m \in S : \A x \in S : b - m <= b - x
  BY <1>2
<1> QED
  BY <1>3

\* The size of a screen, which cuts, is not larger than the size it was planned
\* with, which rounds.
LEMMA CutRounds ==
  ASSUME NEW n \in Nat, NEW scale \in Scales, scale <= 2 * n
  PROVE  /\ (2 * n) \div scale \in Nat /\ (4 * n + scale) \div (2 * scale) \in Nat
         /\ 1 <= (2 * n) \div scale
         /\ (2 * n) \div scale <= (4 * n + scale) \div (2 * scale)
<1> DEFINE q == (2 * n) \div scale
           r == (4 * n + scale) \div (2 * scale)
<1>1. q \in Int /\ scale * q <= 2 * n /\ 2 * n < scale * (q + 1)
  BY DEF Scales
<1>2. r \in Int /\ (2 * scale) * r <= 4 * n + scale /\ 4 * n + scale < (2 * scale) * (r + 1)
  BY DEF Scales
<1> HIDE DEF q, r
<1>3. 1 <= q
  BY <1>1 DEF Scales
<1>4. q <= r
  BY <1>1, <1>2 DEF Scales
<1> QED
  BY <1>1, <1>2, <1>3, <1>4 DEF q, r

-----------------------------------------------------------------------------
(* Placement                                                               *)

\* A function that is defined step by step.
Iterated(f, n, P, base, step) ==
  /\ f \in [0..n -> P] /\ f[0] = base
  /\ \A k \in 1..n : f[k] = step[<<k, f[k - 1]>>]

LEMMA Iterates ==
  ASSUME NEW P, NEW n \in Nat, NEW base \in P, NEW step \in [(1..n) \X P -> P]
  PROVE  \E f : Iterated(f, n, P, base, step)
<1> DEFINE Is(f, m) == f[0] = base /\ \A k \in 1..m : f[k] = step[<<k, f[k - 1]>>]
           S == {m \in 0..n : \E f \in [0..m -> P] : Is(f, m)}
<1>1. 0 \in S
  <2> DEFINE f == [k \in 0..0 |-> base]
  <2>1. f \in [0..0 -> P] /\ Is(f, 0)
    OBVIOUS
  <2>2. 0 \in 0..n
    OBVIOUS
  <2> HIDE DEF f, Is
  <2> QED
    BY <2>1, <2>2
<1>2. ASSUME NEW m \in 1..n, m - 1 \in S PROVE m \in S
  <2>1. PICK f \in [0..m - 1 -> P] : Is(f, m - 1)
    BY <1>2
  <2> DEFINE g == [k \in 0..m |-> IF k < m THEN f[k] ELSE step[<<m, f[m - 1]>>]]
  <2>2. f[m - 1] \in P /\ step[<<m, f[m - 1]>>] \in P
    BY <2>1
  <2>3. g \in [0..m -> P]
    BY <2>1, <2>2
  <2>4. ASSUME NEW k \in 1..m PROVE g[k] = step[<<k, g[k - 1]>>]
    <3>1. k - 1 \in 0..m - 1 /\ k - 1 < m /\ k - 1 \in 0..m
      OBVIOUS
    <3>2. g[k - 1] = f[k - 1]
      BY <3>1
    <3>3. CASE k = m
      <4>1. m \in 0..m /\ ~(m < m)
        OBVIOUS
      <4>2. g[m] = step[<<m, f[m - 1]>>]
        BY <4>1
      <4> QED
        BY <3>2, <3>3, <4>2
    <3>4. CASE k # m
      <4>1. k \in 1..m - 1 /\ k < m
        BY <3>4
      <4>2. f[k] = step[<<k, f[k - 1]>>] /\ g[k] = f[k]
        BY <2>1, <4>1
      <4> QED
        BY <3>2, <4>2
    <3> QED
      BY <3>3, <3>4
  <2>5. g[0] = base
    <3>1. 0 \in 0..m /\ 0 < m /\ f[0] = base
      BY <2>1
    <3> QED
      BY <3>1
  <2>6. Is(g, m)
    <3> HIDE DEF g
    <3> QED
      BY <2>4, <2>5
  <2>7. m \in 0..n
    OBVIOUS
  <2> HIDE DEF g, Is
  <2> QED
    BY <2>3, <2>6, <2>7
<1>3. n \in 0..n
  OBVIOUS
<1> HIDE DEF S
<1>4. n \in S
  BY <1>1, <1>2, <1>3, StepByStep
<1> QED
  BY <1>4 DEF S, Iterated

Coordinates == IntMin..IntMax

\* Requests that a configuration makes.
Requesting(requests, n) ==
  /\ n \in Nat /\ Len(requests) = n /\ DOMAIN requests = 1..n
  /\ \A i \in 1..n :
       /\ requests[i].size.width \in Nat /\ requests[i].size.height \in Nat
       /\ requests[i].position \in {Unplaced} \cup Places
       /\ requests[i].relation \in Relations

Placements(n) == [1..n -> {Unplaced} \cup Places]

LEMMA ClampType ==
  ASSUME NEW k \in Int
  PROVE  Clamp(k) \in Coordinates
BY IntMaxAssumption DEF Clamp, Coordinates, IntMin

\* No place is the empty sequence.
LEMMA PlacedIs ==
  ASSUME NEW p \in Places
  PROVE  /\ p # Unplaced /\ p[1] \in Coordinates /\ p[2] \in Coordinates
         /\ p[1] \in Int /\ p[2] \in Int /\ p = <<p[1], p[2]>>
<1>1. PICK x \in Coordinates, y \in Coordinates : p = <<x, y>>
  BY DEF Places, Coordinates
<1>2. Coordinates \subseteq Int
  BY IntMaxAssumption DEF Coordinates, IntMin
<1>3. <<x, y>> # <<>>
  OBVIOUS
<1> QED
  BY <1>1, <1>2, <1>3 DEF Unplaced

LEMMA BesidePlaced ==
  ASSUME NEW request, NEW reference, NEW anchor \in Places,
         request.size.width \in Nat, request.size.height \in Nat,
         reference.size.width \in Nat, reference.size.height \in Nat,
         request.relation \in Relations, request.relation # "none"
  PROVE  Beside(request, reference, anchor) \in Places
<1> DEFINE x == anchor[1]
           y == anchor[2]
<1>1. x \in Coordinates /\ y \in Coordinates /\ x \in Int /\ y \in Int
  BY PlacedIs
<1> HIDE DEF x, y
<1>2. /\ Clamp(x - request.size.width) \in Coordinates
      /\ Clamp(x + reference.size.width) \in Coordinates
      /\ Clamp(y - request.size.height) \in Coordinates
      /\ Clamp(y + reference.size.height) \in Coordinates
  BY <1>1, ClampType
<1>3. \A p, q \in Coordinates : <<p, q>> \in Places
  BY DEF Places, Coordinates
<1>4. \/ request.relation = "left_of" \/ request.relation = "right_of"
      \/ request.relation = "top_of" \/ request.relation = "bottom_of"
  BY DEF Relations
<1> QED
  BY <1>1, <1>2, <1>3, <1>4 DEF Beside, x, y

LEMMA RelatedOnceType ==
  ASSUME NEW n, NEW requests, Requesting(requests, n), NEW placements \in Placements(n)
  PROVE  RelatedOnce(requests, placements) \in Placements(n)
<1>1. SUFFICES ASSUME NEW i \in 1..n
               PROVE  RelatedOnce(requests, placements)[i] \in {Unplaced} \cup Places
  BY DEF RelatedOnce, Requesting, Placements
<1> DEFINE references == References(requests, placements, i)
           j == CHOOSE j \in references : TRUE
<1>2. RelatedOnce(requests, placements)[i] =
        IF placements[i] # Unplaced \/ requests[i].relation = "none" \/ references = {}
        THEN placements[i] ELSE Beside(requests[i], requests[j], placements[j])
  BY DEF RelatedOnce, Requesting
<1>3. CASE placements[i] # Unplaced \/ requests[i].relation = "none" \/ references = {}
  BY <1>2, <1>3 DEF Placements
<1>4. CASE ~(placements[i] # Unplaced \/ requests[i].relation = "none" \/ references = {})
  <2>1. j \in references
    BY <1>4
  <2>2. j \in 1..n /\ placements[j] # Unplaced
    BY <2>1 DEF References, Requesting
  <2> HIDE DEF j, references
  <2>3. placements[j] \in Places
    BY <2>2 DEF Placements
  <2>4. Beside(requests[i], requests[j], placements[j]) \in Places
    BY <1>4, <2>2, <2>3, BesidePlaced DEF Requesting
  <2> QED
    BY <1>2, <1>4, <2>4
<1> QED
  BY <1>3, <1>4

LEMMA RelatedType ==
  ASSUME NEW n, NEW requests, Requesting(requests, n)
  PROVE  Related(requests) \in Placements(n)
<1> DEFINE base == [i \in DOMAIN requests |-> requests[i].position]
           Pass(f, k) == IF k = 0 THEN base ELSE RelatedOnce(requests, f[k - 1])
           step == [kp \in (1..n) \X Placements(n) |-> RelatedOnce(requests, kp[2])]
           pass == CHOOSE f : f = [k \in 0..n |-> Pass(f, k)]
<1>0. n \in Nat
  BY DEF Requesting
<1>1. base \in Placements(n)
  BY DEF Requesting, Placements
<1>2. step \in [(1..n) \X Placements(n) -> Placements(n)]
  BY RelatedOnceType
<1>3. \E f : f = [k \in 0..n |-> Pass(f, k)]
  <2> HIDE DEF base, step
  <2>0. \E f \in [0..n -> Placements(n)] :
          f[0] = base /\ \A k \in 1..n : f[k] = step[<<k, f[k - 1]>>]
    <3> DEFINE P == Placements(n)
    <3>1. base \in P /\ step \in [(1..n) \X P -> P]
      BY <1>1, <1>2
    <3> HIDE DEF P, Pass, pass
    <3>2. \E f : Iterated(f, n, P, base, step)
      BY <1>0, <3>1, Iterates
    <3> QED
      BY <3>2 DEF P, Iterated
  <2>1. PICK f \in [0..n -> Placements(n)] :
          f[0] = base /\ \A k \in 1..n : f[k] = step[<<k, f[k - 1]>>]
    BY <2>0
  <2>2. ASSUME NEW k \in 0..n PROVE f[k] = Pass(f, k)
    <3>1. CASE k = 0
      BY <2>1, <3>1
    <3>2. CASE k # 0
      <4>1. k \in 1..n /\ k - 1 \in 0..n
        BY <1>0, <3>2
      <4>2. <<k, f[k - 1]>> \in (1..n) \X Placements(n)
        BY <4>1
      <4>3. step[<<k, f[k - 1]>>] = RelatedOnce(requests, f[k - 1])
        BY <4>2 DEF step
      <4> QED
        BY <2>1, <3>2, <4>1, <4>3
    <3> QED
      BY <3>1, <3>2
  <2>3. f = [k \in 0..n |-> f[k]]
    OBVIOUS
  <2> HIDE DEF Pass
  <2>4. f = [k \in 0..n |-> Pass(f, k)]
    BY <2>2, <2>3
  <2> QED
    BY <2>4
<1>4. pass = [k \in 0..n |-> Pass(pass, k)]
  BY <1>3
<1>5. Related(requests) = pass[n]
  BY DEF Related, Requesting
<1> DEFINE S == {k \in 0..n : pass[k] \in Placements(n)}
<1> HIDE DEF pass, base
<1>6. \A k \in 0..n : pass[k] = Pass(pass, k)
  BY <1>4
<1>7. 0 \in S
  BY <1>0, <1>1, <1>6
<1>8. ASSUME NEW k \in 1..n, k - 1 \in S PROVE k \in S
  <2>1. pass[k - 1] \in Placements(n)
    BY <1>8
  <2>2. RelatedOnce(requests, pass[k - 1]) \in Placements(n)
    BY <2>1, RelatedOnceType
  <2>3. k \in 0..n /\ k # 0
    BY <1>0
  <2> QED
    BY <1>6, <2>2, <2>3
<1>9. n \in S
  <2> HIDE DEF S
  <2> QED
    BY <1>0, <1>7, <1>8, StepByStep
<1> QED
  BY <1>5, <1>9

\* The right edge of what is placed is a coordinate.
LEMMA RightEdgeType ==
  ASSUME NEW n, NEW requests, Requesting(requests, n), NEW placements \in Placements(n)
  PROVE  RightEdge(requests, placements) \in Coordinates
<1> DEFINE edges == {0} \cup {Clamp(placements[i][1] + requests[i].size.width) :
                               i \in {j \in DOMAIN requests : placements[j] # Unplaced}}
<1>1. ASSUME NEW i \in DOMAIN requests, placements[i] # Unplaced
      PROVE  Clamp(placements[i][1] + requests[i].size.width) \in Coordinates
  <2>1. i \in 1..n /\ placements[i] \in Places
    BY <1>1 DEF Requesting, Placements
  <2>2. placements[i][1] \in Int /\ requests[i].size.width \in Nat
    BY <2>1, PlacedIs DEF Requesting
  <2> QED
    BY <2>2, ClampType
<1>2. 0 \in Coordinates /\ Coordinates \subseteq Int
      /\ IntMax \in Int /\ \A x \in Coordinates : x <= IntMax
  BY IntMaxAssumption DEF Coordinates, IntMin
<1>3. edges \subseteq Coordinates /\ edges # {}
  BY <1>1, <1>2
<1>4. RightEdge(requests, placements)
        = CHOOSE edge \in edges : \A other \in edges : other <= edge
  BY DEF RightEdge
<1> HIDE DEF edges
<1>5. \E edge \in edges : \A other \in edges : other <= edge
  BY <1>2, <1>3, GreatestInt
<1> QED
  BY <1>3, <1>4, <1>5

\* leme_placement_resolve gives every output a place that a C int can say.
LEMMA ResolvePlaces ==
  ASSUME NEW n, NEW requests, Requesting(requests, n)
  PROVE  \A i \in 1..n : Resolve(requests)[i] \in Places
<1> DEFINE P == Placements(n)
           base == Related(requests)
           Put(p, k) == IF p[k] # Unplaced THEN p
                        ELSE [p EXCEPT ![k] = <<RightEdge(requests, p), 0>>]
           Pass(f, k) == IF k = 0 THEN base ELSE Put(f[k - 1], k)
           step == [kp \in (1..n) \X P |-> Put(kp[2], kp[1])]
           placed == CHOOSE f : f = [k \in 0..n |-> Pass(f, k)]
<1>0. n \in Nat
  BY DEF Requesting
<1>1. base \in P
  BY RelatedType
<1>2. ASSUME NEW p \in P, NEW k \in 1..n
      PROVE  /\ Put(p, k) \in P /\ Put(p, k)[k] # Unplaced
             /\ \A j \in 1..n : p[j] # Unplaced => Put(p, k)[j] # Unplaced
  <2>1. RightEdge(requests, p) \in Coordinates
    BY <1>2, RightEdgeType
  <2>2. 0 \in Coordinates
    BY IntMaxAssumption DEF Coordinates, IntMin
  <2>3. <<RightEdge(requests, p), 0>> \in Places
    BY <2>1, <2>2 DEF Places, Coordinates
  <2>4. <<RightEdge(requests, p), 0>> # Unplaced
    BY <2>3, PlacedIs
  <2> HIDE DEF base
  <2> QED
    BY <1>2, <2>3, <2>4 DEF Placements
<1>3. step \in [(1..n) \X P -> P]
  <2> HIDE DEF P, Put
  <2> QED
    BY <1>2
<1>4. \E f : f = [k \in 0..n |-> Pass(f, k)]
  <2>1. \E f : Iterated(f, n, P, base, step)
    <3> HIDE DEF P, base, step
    <3> QED
      BY <1>0, <1>1, <1>3, Iterates
  <2>2. PICK f : Iterated(f, n, P, base, step)
    BY <2>1
  <2> HIDE DEF P, base, Put, step
  <2>3. /\ f \in [0..n -> P] /\ f[0] = base
        /\ \A k \in 1..n : f[k] = step[<<k, f[k - 1]>>]
    BY <2>2 DEF Iterated
  <2>4. ASSUME NEW k \in 0..n PROVE f[k] = Pass(f, k)
    <3>1. CASE k = 0
      BY <2>3, <3>1
    <3>2. CASE k # 0
      <4>1. k \in 1..n /\ k - 1 \in 0..n
        BY <1>0, <3>2
      <4>2. <<k, f[k - 1]>> \in (1..n) \X P
        BY <2>3, <4>1
      <4>3. step[<<k, f[k - 1]>>] = Put(f[k - 1], k)
        BY <4>2 DEF step
      <4> QED
        BY <2>3, <3>2, <4>1, <4>3
    <3> QED
      BY <3>1, <3>2
  <2>5. f = [k \in 0..n |-> f[k]]
    BY <2>3
  <2> HIDE DEF Pass
  <2>6. f = [k \in 0..n |-> Pass(f, k)]
    BY <2>4, <2>5, SMTT(60)
  <2> QED
    BY <2>6
<1>5. placed = [k \in 0..n |-> Pass(placed, k)]
  BY <1>4
<1>6. Resolve(requests) = placed[n]
  BY DEF Resolve, Requesting
<1> DEFINE S == {k \in 0..n : placed[k] \in P /\ \A j \in 1..k : placed[k][j] # Unplaced}
<1> HIDE DEF placed, base, P, Put
<1>7. \A k \in 0..n : placed[k] = Pass(placed, k)
  BY <1>5
<1>8. 0 \in S
  BY <1>0, <1>1, <1>7
<1>9. ASSUME NEW k \in 1..n, k - 1 \in S PROVE k \in S
  <2> DEFINE p == placed[k - 1]
  <2>1. p \in P /\ \A j \in 1..k - 1 : p[j] # Unplaced
    BY <1>9
  <2>2. k \in 0..n /\ k # 0
    BY <1>0
  <2>3. placed[k] = Put(p, k)
    BY <1>7, <2>2
  <2> HIDE DEF p
  <2>4. \A j \in 1..k : j \in 1..n /\ (j = k \/ j \in 1..k - 1)
    BY <1>0
  <2>5. \A j \in 1..k : Put(p, k)[j] # Unplaced
    BY <1>2, <2>1, <2>4
  <2> QED
    BY <1>2, <2>1, <2>2, <2>3, <2>5
<1>10. n \in S
  <2> HIDE DEF S
  <2> QED
    BY <1>0, <1>8, <1>9, StepByStep
<1> QED
  BY <1>6, <1>10 DEF P, Placements

-----------------------------------------------------------------------------
(* Boxes                                                                   *)

\* A box at the same place that is not larger.
Smaller(a, b) ==
  /\ a.x = b.x /\ a.y = b.y
  /\ {a.x, a.y, a.width, a.height, b.width, b.height} \subseteq Int
  /\ IntMin <= a.x /\ IntMin <= a.y
  /\ 1 <= a.width /\ a.width <= b.width /\ 1 <= a.height /\ a.height <= b.height

LEMMA EdgesSmaller ==
  ASSUME NEW a, NEW b, Smaller(a, b), HasEdges(b)
  PROVE  HasEdges(a)
<1>1. IntMax \in Int /\ IntMin \in Int
  BY IntMaxAssumption DEF IntMin
<1> HIDE DEF IntMin
<1> QED
  BY <1>1 DEF Smaller, HasEdges, Right, Bottom

LEMMA CompatibleSmaller ==
  ASSUME NEW a, NEW A, NEW b, NEW B, Smaller(a, A), Smaller(b, B), Compatible(A, B)
  PROVE  Compatible(a, b)
<1>1. HasEdges(A) /\ HasEdges(B)
  BY DEF Compatible, FitLayout
<1>2. HasEdges(a) /\ HasEdges(b)
  BY <1>1, EdgesSmaller
<1>3. IntMax \in Int
  BY IntMaxAssumption
<1>4. {a.x, a.y, a.width, a.height, A.width, A.height,
       b.x, b.y, b.width, b.height, B.width, B.height} \subseteq Int
  BY DEF Smaller
<1>5. /\ A.x = a.x /\ A.y = a.y /\ B.x = b.x /\ B.y = b.y
      /\ a.width <= A.width /\ a.height <= A.height
      /\ b.width <= B.width /\ b.height <= B.height
  BY DEF Smaller
<1>6. FitLayout(a, b)
  <2>1. /\ Greater(Right(A), Right(B)) - Lesser(A.x, B.x) <= IntMax
        /\ Greater(Bottom(A), Bottom(B)) - Lesser(A.y, B.y) <= IntMax
    BY DEF Compatible, FitLayout
  <2>2. Greater(Right(a), Right(b)) - Lesser(a.x, b.x) <= IntMax
    BY <1>3, <1>4, <1>5, <2>1 DEF Greater, Lesser, Right
  <2>3. Greater(Bottom(a), Bottom(b)) - Lesser(a.y, b.y) <= IntMax
    BY <1>3, <1>4, <1>5, <2>1 DEF Greater, Lesser, Bottom
  <2> QED
    BY <1>2, <2>2, <2>3 DEF FitLayout
<1>7. ~Overlap(a, b)
  <2>1. ~(/\ A.x < Right(B) /\ B.x < Right(A) /\ A.y < Bottom(B) /\ B.y < Bottom(A))
    BY DEF Compatible, Overlap
  <2>2. ~(/\ a.x < Right(b) /\ b.x < Right(a) /\ a.y < Bottom(b) /\ b.y < Bottom(a))
    BY <1>4, <1>5, <2>1 DEF Right, Bottom
  <2> QED
    BY <1>2, <2>2 DEF Overlap
<1> QED
  BY <1>6, <1>7 DEF Compatible

LEMMA CompatibleSymmetric ==
  ASSUME NEW a, NEW b, Compatible(a, b),
         {a.x, a.y, a.width, a.height, b.x, b.y, b.width, b.height} \subseteq Int
  PROVE  Compatible(b, a)
BY IntMaxAssumption DEF Compatible, FitLayout, Overlap, Greater, Lesser, Right, Bottom

\* A head of a plan and the screen it will be.
HeadShape(head) ==
  /\ head.mode \in ModeShape /\ head.scale \in Scales /\ head.rotated \in BOOLEAN
  /\ head.at \in Places /\ Fitting(head.mode, head.scale)

Spot(head) == Box(head.at, EffectiveSize(head.mode, head.scale, head.rotated))

LEMMA SpotSmaller ==
  ASSUME NEW head, HeadShape(head), HasEdges(HeadBox(head))
  PROVE  Smaller(Spot(head), HeadBox(head))
<1> DEFINE m == head.mode
           turned == Turned(m, head.rotated)
           n == turned.width
           k == turned.height
           scale == head.scale
           size == LogicalSize(m, scale, head.rotated)
           cut == EffectiveSize(m, scale, head.rotated)
<1>1. IntMax \in Int /\ IntMin \in Int /\ Coordinates \subseteq Int
  BY IntMaxAssumption DEF IntMin, Coordinates
<1>2. head.at[1] \in Coordinates /\ head.at[2] \in Coordinates
  BY PlacedIs DEF HeadShape
<1>3. size # NoSize
  BY <1>1 DEF HasEdges, HeadBox, Box, NoSize
<1>4. m.width > 0 /\ m.height > 0 /\ m.width \in Nat /\ m.height \in Nat
  <2>1. m.width \in Int /\ m.height \in Int
    BY IntMaxAssumption DEF HeadShape, ModeShape
  <2> QED
    BY <1>3, <2>1 DEF LogicalSize
<1>5. n \in Nat /\ k \in Nat /\ scale \in Scales /\ scale <= 2 * n /\ scale <= 2 * k
  BY <1>4 DEF Turned, HeadShape, Fitting
<1>6. size = [width |-> (4 * n + scale) \div (2 * scale),
              height |-> (4 * k + scale) \div (2 * scale)]
  BY <1>3 DEF LogicalSize
<1>7. cut = [width |-> (2 * n) \div scale, height |-> (2 * k) \div scale]
  BY DEF EffectiveSize
<1>8. /\ Spot(head).x = head.at[1] /\ Spot(head).y = head.at[2]
      /\ Spot(head).width = cut.width /\ Spot(head).height = cut.height
      /\ HeadBox(head).x = head.at[1] /\ HeadBox(head).y = head.at[2]
      /\ HeadBox(head).width = size.width /\ HeadBox(head).height = size.height
  BY DEF Spot, HeadBox, Box
<1> HIDE DEF size, cut, n, k, turned, m
<1>9. /\ (2 * n) \div scale \in Nat /\ (4 * n + scale) \div (2 * scale) \in Nat
      /\ 1 <= (2 * n) \div scale
      /\ (2 * n) \div scale <= (4 * n + scale) \div (2 * scale)
  BY <1>5, CutRounds
<1>10. /\ (2 * k) \div scale \in Nat /\ (4 * k + scale) \div (2 * scale) \in Nat
       /\ 1 <= (2 * k) \div scale
       /\ (2 * k) \div scale <= (4 * k + scale) \div (2 * scale)
  BY <1>5, CutRounds
<1>11. /\ cut.width \in Nat /\ size.width \in Nat /\ 1 <= cut.width
       /\ cut.width <= size.width
       /\ cut.height \in Nat /\ size.height \in Nat /\ 1 <= cut.height
       /\ cut.height <= size.height
  BY <1>6, <1>7, <1>9, <1>10
<1>12. IntMin <= head.at[1] /\ IntMin <= head.at[2]
  BY <1>1, <1>2 DEF Coordinates
<1>13. head.at[1] \in Int /\ head.at[2] \in Int
  BY <1>1, <1>2
<1>14. /\ Spot(head).width \in Int /\ Spot(head).height \in Int
       /\ HeadBox(head).width \in Int /\ HeadBox(head).height \in Int
  BY <1>8, <1>11
<1>15. /\ Spot(head).x = HeadBox(head).x /\ Spot(head).y = HeadBox(head).y
       /\ Spot(head).x \in Int /\ Spot(head).y \in Int
       /\ IntMin <= Spot(head).x /\ IntMin <= Spot(head).y
  BY <1>8, <1>12, <1>13
<1>16. /\ 1 <= Spot(head).width /\ Spot(head).width <= HeadBox(head).width
       /\ 1 <= Spot(head).height /\ Spot(head).height <= HeadBox(head).height
  BY <1>8, <1>11
<1> QED
  BY <1>14, <1>15, <1>16 DEF Smaller

-----------------------------------------------------------------------------
(* Sessions and plans                                                      *)

Known(config) == \E a \in Scenarios : config \in a.files

\* The modes an output may have.
Sizes(o) == {NoMode, NativeSize} \cup {Modes[o][i] : i \in DOMAIN Modes[o]}

\* A session is the record of these fields.
Whole(s) ==
  [outputs |-> s.outputs, enabled |-> s.enabled, powered |-> s.powered, mode |-> s.mode,
   scale |-> s.scale, rotated |-> s.rotated, at |-> s.at, laid |-> s.laid, scene |-> s.scene,
   full |-> s.full, focused |-> s.focused, config |-> s.config, keyed |-> s.keyed,
   locked |-> s.locked, blocker |-> s.blocker, published |-> s.published]

\* What holds of every session, also of one that is lost.
Base(s) ==
  /\ s = Whole(s)
  /\ s.outputs \in Seq(All) /\ Distinct(s.outputs)
  /\ s.enabled \subseteq Listed(s) /\ s.powered \subseteq Listed(s)
  /\ s.scene \subseteq Listed(s) /\ s.rotated \subseteq Listed(s)
  /\ s.focused \in All \cup {NONE}
  /\ s.mode = [o \in All |-> s.mode[o]] /\ \A o \in All : s.mode[o] \in Sizes(o)
  /\ s.scale \in [All -> Scales] /\ s.at \in [All -> Places]
  /\ s.laid \in [All -> {Unplaced} \cup Places]
  /\ \A o \in All : s.laid[o] # Unplaced => o \in Listed(s)
  /\ s.full = [o \in All |-> s.full[o]]
  /\ Known(s.config)

LEMMA SizesShape ==
  ASSUME NEW o \in All, NEW mode \in Sizes(o)
  PROVE  mode \in ModeShape
<1>1. NoMode \in ModeShape
  BY IntMaxAssumption DEF NoMode, ModeShape
<1>2. ASSUME NEW i \in DOMAIN Modes[o] PROVE Modes[o][i] \in ModeShape
  <2>1. Modes[o] \in Seq(ModeShape)
    BY MonitorsAssumption
  <2> QED
    BY <1>2, <2>1
<1> QED
  BY <1>1, <1>2, MonitorsAssumption DEF Sizes

\* What a configuration says of an output.
LEMMA EntryShape ==
  ASSUME NEW config, Known(config), NEW o \in All
  PROVE  LET entry == Entry(config, o) IN
         /\ entry.mode \in ModeShape /\ entry.scale \in Scales /\ entry.rotated \in BOOLEAN
         /\ entry.position \in {Unplaced} \cup Places /\ entry.relation \in Relations
         /\ \A mode \in Sizes(o) : Fitting(mode, entry.scale)
<1>1. PICK a \in Scenarios : config \in a.files
  BY DEF Known
<1>2. NoMode \in ModeShape
  BY IntMaxAssumption DEF NoMode, ModeShape
<1>3. \A scale : Fitting(NoMode, scale)
  BY DEF NoMode, Fitting
<1>4. CASE o \in DOMAIN config
  <2>1. Entry(config, o) = config[o]
    BY <1>4 DEF Entry
  <2>2. /\ config[o].mode \in ModeShape /\ config[o].scale \in Scales
        /\ config[o].rotated \in BOOLEAN /\ config[o].relation \in Relations
        /\ config[o].position \in {Unplaced} \cup Places
    BY <1>1, <1>4, ScenariosAssumption
  <2>3. \A mode \in {NativeSize} \cup {Modes[o][i] : i \in DOMAIN Modes[o]} :
           Fitting(mode, config[o].scale)
    BY <1>1, <1>4, SizesAssumption
  <2>4. \A mode \in Sizes(o) : Fitting(mode, config[o].scale)
    BY <1>3, <2>3 DEF Sizes
  <2> QED
    BY <2>1, <2>2, <2>4
<1>5. CASE o \notin DOMAIN config
  <2>1. /\ Entry(config, o).mode = NoMode /\ Entry(config, o).scale = 2
        /\ Entry(config, o).rotated = FALSE /\ Entry(config, o).position = Unplaced
        /\ Entry(config, o).relation = "none"
    BY <1>5 DEF Entry
  <2>2. \A mode \in Sizes(o) : Fitting(mode, 2)
    BY <1>3, SizesAssumption DEF Sizes
  <2>3. 2 \in Scales
    BY DEF Scales
  <2> QED
    BY <1>2, <2>1, <2>2, <2>3 DEF Relations
<1> QED
  BY <1>4, <1>5

\* The nearest of several numbers, the first of those that are equally near.
LEMMA NearestExists ==
  ASSUME NEW n \in Nat, NEW S, S \subseteq 1..n, S # {}, NEW far \in [S -> Int],
         NEW b \in Int, \A i \in S : b <= far[i]
  PROVE  \E i \in S : \A j \in S : far[i] < far[j] \/ (far[i] = far[j] /\ i <= j)
<1> DEFINE F == {far[i] : i \in S}
<1>1. F \subseteq Int /\ F # {} /\ \A x \in F : b <= x
  OBVIOUS
<1>2. \E m \in F : \A x \in F : m <= x
  <2> HIDE DEF F
  <2> QED
    BY <1>1, LeastInt
<1>3. PICK k \in S : \A j \in S : far[k] <= far[j]
  BY <1>2
<1> DEFINE T == {i \in S : far[i] = far[k]}
<1>4. T \subseteq Nat /\ T # {}
  <2>1. \A i \in S : i \in Nat
    OBVIOUS
  <2>2. k \in T
    BY <1>3
  <2> HIDE DEF F
  <2> QED
    BY <2>1, <2>2
<1>5. \E i \in T : \A j \in T : i <= j
  <2> HIDE DEF T
  <2> QED
    BY <1>4, LeastNatural
<1>6. PICK i \in T : \A j \in T : i <= j
  BY <1>5
<1>7. i \in S /\ far[i] = far[k]
  BY <1>6
<1> HIDE DEF F
<1>8. ASSUME NEW j \in S PROVE far[i] < far[j] \/ (far[i] = far[j] /\ i <= j)
  <2>1. CASE far[j] = far[k]
    BY <1>6, <1>7, <2>1
  <2>2. CASE far[j] # far[k]
    BY <1>3, <1>7, <2>2
  <2> QED
    BY <2>1, <2>2
<1> QED
  BY <1>7, <1>8

\* leme_output_select_mode chooses a mode of the output, or none.
LEMMA SelectModeType ==
  ASSUME NEW o \in All, NEW entry, entry.mode \in ModeShape
  PROVE  SelectMode(o, entry) \in Sizes(o)
<1> DEFINE sized == {i \in DOMAIN Modes[o] : Modes[o][i].width = entry.mode.width
                                          /\ Modes[o][i].height = entry.mode.height}
           Far(i) == IF entry.mode.refresh = 0 THEN -Modes[o][i].refresh
                     ELSE Difference(Modes[o][i], entry)
           best == CHOOSE i \in sized : \A j \in sized :
                     Far(i) < Far(j) \/ (Far(i) = Far(j) /\ i <= j)
<1>1. SelectMode(o, entry) =
        IF entry.mode = NoMode THEN Preferred(o)
        ELSE IF sized = {} THEN NoMode
        ELSE IF entry.mode.refresh # 0 /\ Far(best) > Tolerance THEN NoMode
        ELSE Modes[o][best]
  BY DEF SelectMode
<1>2. Modes[o] \in Seq(ModeShape)
  BY MonitorsAssumption
<1>3. Preferred(o) \in Sizes(o)
  BY <1>2 DEF Preferred, Sizes
<1>4. ASSUME sized # {} PROVE best \in sized
  <2> DEFINE n == Len(Modes[o])
             far == [i \in sized |-> Far(i)]
  <2>1. n \in Nat /\ sized \subseteq 1..n
    BY <1>2
  <2>2. IntMax \in Nat /\ -IntMax \in Int
    BY IntMaxAssumption
  <2>3. ASSUME NEW i \in sized PROVE Far(i) \in Int /\ -IntMax <= Far(i)
    <3>1. Modes[o][i] \in ModeShape
      BY <1>2, <2>3
    <3>2. /\ Modes[o][i].refresh \in Int /\ Modes[o][i].refresh <= IntMax
          /\ entry.mode.refresh \in Int
      BY <2>2, <3>1 DEF ModeShape
    <3> HIDE DEF sized
    <3> QED
      BY <2>2, <3>2 DEF Difference, Greater
  <2>4. far \in [sized -> Int] /\ \A i \in sized : -IntMax <= far[i]
    BY <2>3
  <2>5. \E i \in sized : \A j \in sized : far[i] < far[j] \/ (far[i] = far[j] /\ i <= j)
    <3> HIDE DEF sized, far, n
    <3> QED
      BY <1>4, <2>1, <2>2, <2>4, NearestExists
  <2>6. \E i \in sized : \A j \in sized : Far(i) < Far(j) \/ (Far(i) = Far(j) /\ i <= j)
    <3> HIDE DEF sized, Far
    <3> QED
      BY <2>5
  <2> HIDE DEF sized, Far
  <2> QED
    BY <2>6
<1>5. ASSUME sized # {} PROVE Modes[o][best] \in Sizes(o)
  <2>1. best \in DOMAIN Modes[o]
    BY <1>4, <1>5
  <2> QED
    BY <2>1 DEF Sizes
<1>6. NoMode \in Sizes(o)
  BY DEF Sizes
<1> HIDE DEF sized, best, Far
<1> QED
  BY <1>1, <1>3, <1>5, <1>6

\* The mode of a plan is one the output has.
LEMMA PlannedModeType ==
  ASSUME NEW s, NEW config, Known(config), NEW o \in All, s.mode[o] \in Sizes(o)
  PROVE  PlannedMode(s, config, o) \in Sizes(o)
<1> DEFINE choice == <<SelectMode(o, Entry(config, o)), Preferred(o), s.mode[o]>>
           Chosen(mode) == \E i \in 1..3 : /\ mode = choice[i]
                                          /\ i < 3 => mode # NoMode
                                          /\ \A j \in 1..(i - 1) : choice[j] = NoMode
           all == {choice[i] : i \in 1..3}
<1>1. choice[1] \in Sizes(o)
  BY EntryShape, SelectModeType
<1>2. choice[2] \in Sizes(o)
  <2>1. Modes[o] \in Seq(ModeShape)
    BY MonitorsAssumption
  <2> QED
    BY <2>1 DEF Preferred, Sizes
<1>3. choice[3] \in Sizes(o)
  OBVIOUS
<1>4. \E mode \in all : Chosen(mode)
  <2> HIDE DEF choice
  <2>1. CASE choice[1] # NoMode
    BY <2>1
  <2>2. CASE choice[1] = NoMode /\ choice[2] # NoMode
    BY <2>2
  <2>3. CASE choice[1] = NoMode /\ choice[2] = NoMode
    BY <2>3
  <2> QED
    BY <2>1, <2>2, <2>3
<1>5. PlannedMode(s, config, o) = CHOOSE mode \in all : Chosen(mode)
  BY DEF PlannedMode
<1> HIDE DEF Chosen
<1>6. PlannedMode(s, config, o) \in all
  BY <1>4, <1>5
<1> QED
  <2> HIDE DEF choice
  <2>1. \A i \in 1..3 : i = 1 \/ i = 2 \/ i = 3
    OBVIOUS
  <2> QED
    BY <1>1, <1>2, <1>3, <1>6, <2>1

LEMMA LogicalSizeType ==
  ASSUME NEW size, NEW scale, NEW rotated
  PROVE  /\ LogicalSize(size, scale, rotated).width \in Nat
         /\ LogicalSize(size, scale, rotated).height \in Nat
<1> DEFINE turned == Turned(size, rotated)
           Rounded(n) == (4 * n + scale) \div (2 * scale)
<1>1. LogicalSize(size, scale, rotated) =
        IF \/ size.width <= 0 \/ size.height <= 0
           \/ Rounded(turned.width) \notin 1..IntMax \/ Rounded(turned.height) \notin 1..IntMax
        THEN NoSize
        ELSE [width |-> Rounded(turned.width), height |-> Rounded(turned.height)]
  BY DEF LogicalSize
<1> HIDE DEF Rounded, turned
<1>2. \A n \in 1..IntMax : n \in Nat
  BY IntMaxAssumption
<1> QED
  BY <1>1, <1>2 DEF NoSize

\* A head of a plan is one the output can show.
PlannedHead(head, o) ==
  HeadShape(head) /\ head.mode \in Sizes(o) /\ head.enabled \in BOOLEAN

LEMMA PlansShape ==
  ASSUME NEW s, Base(s), NEW config, Known(config), NEW startup, NEW on,
         NEW heads \in Plans(s, config, startup, on)
  PROVE  /\ DOMAIN heads = Listed(s)
         /\ \A o \in Listed(s) : PlannedHead(heads[o], o) /\ heads[o].enabled = (o \in on)
<1> DEFINE requests == PlacementRequests(s, config)
           n == Len(s.outputs)
<1>1. /\ n \in Nat /\ DOMAIN s.outputs = 1..n /\ \A i \in 1..n : s.outputs[i] \in All
      /\ s.outputs \in Seq(All)
  BY DEF Base
<1>2. heads = [o \in Listed(s) |->
        [enabled |-> o \in on, at |-> Resolve(requests)[Index(s, o)],
         mode |-> PlannedMode(s, config, o),
         scale |-> Entry(config, o).scale, rotated |-> Entry(config, o).rotated]]
  BY DEF Plans
<1>3. Requesting(requests, n)
  <2>1. DOMAIN requests = 1..n /\ Len(requests) = n
    BY <1>1 DEF PlacementRequests
  <2>2. ASSUME NEW i \in 1..n
        PROVE  /\ requests[i].size.width \in Nat /\ requests[i].size.height \in Nat
               /\ requests[i].position \in {Unplaced} \cup Places
               /\ requests[i].relation \in Relations
    <3> DEFINE o == s.outputs[i]
    <3>1. o \in All
      BY <1>1
    <3>2. requests[i] = PlacementRequest(s, config, o)
      BY <1>1 DEF PlacementRequests
    <3> HIDE DEF requests, o
    <3>3. Entry(config, o).position \in {Unplaced} \cup Places
          /\ Entry(config, o).relation \in Relations
      BY <3>1, EntryShape
    <3>4. /\ requests[i].size = LogicalSize(PlannedMode(s, config, o), Entry(config, o).scale,
                                            Entry(config, o).rotated)
          /\ requests[i].position = Entry(config, o).position
          /\ requests[i].relation = Entry(config, o).relation
      BY <3>2 DEF PlacementRequest
    <3> QED
      BY <3>3, <3>4, LogicalSizeType
  <2> HIDE DEF requests
  <2> QED
    BY <1>1, <2>1, <2>2 DEF Requesting
<1> HIDE DEF requests
<1>4. \A i \in 1..n : Resolve(requests)[i] \in Places
  BY <1>3, ResolvePlaces
<1>5. ASSUME NEW o \in Listed(s)
      PROVE  PlannedHead(heads[o], o) /\ heads[o].enabled = (o \in on)
  <2>1. o \in All
    BY <1>1 DEF Listed, Elements
  <2>2. Index(s, o) \in 1..n
    BY <1>1 DEF Index, Listed, Elements
  <2>3. PlannedMode(s, config, o) \in Sizes(o)
    BY <2>1, PlannedModeType DEF Base
  <2>4. PlannedMode(s, config, o) \in ModeShape
    BY <2>1, <2>3, SizesShape
  <2>5. /\ Entry(config, o).scale \in Scales /\ Entry(config, o).rotated \in BOOLEAN
        /\ Fitting(PlannedMode(s, config, o), Entry(config, o).scale)
    BY <2>1, <2>3, EntryShape
  <2>6. heads[o] = [enabled |-> o \in on, at |-> Resolve(requests)[Index(s, o)],
                    mode |-> PlannedMode(s, config, o),
                    scale |-> Entry(config, o).scale, rotated |-> Entry(config, o).rotated]
    BY <1>2
  <2>7. Resolve(requests)[Index(s, o)] \in Places
    BY <1>4, <2>2
  <2>8. /\ heads[o].enabled = (o \in on) /\ heads[o].mode = PlannedMode(s, config, o)
        /\ heads[o].scale = Entry(config, o).scale
        /\ heads[o].rotated = Entry(config, o).rotated
        /\ heads[o].at = Resolve(requests)[Index(s, o)]
    BY <2>6
  <2>9. (o \in on) \in BOOLEAN
    OBVIOUS
  <2> QED
    BY <2>3, <2>4, <2>5, <2>7, <2>8, <2>9 DEF PlannedHead, HeadShape
<1> QED
  BY <1>2, <1>5

-----------------------------------------------------------------------------
(* Committing                                                              *)

\* An output as it is shown.
Shown(s, o) ==
  [at |-> s.at[o], mode |-> s.mode[o], scale |-> s.scale[o], rotated |-> o \in s.rotated]

Fits(s) ==
  \A a \in s.enabled :
    /\ HasEdges(Spot(Shown(s, a)))
    /\ \A b \in s.enabled \ {a} : Compatible(Spot(Shown(s, a)), Spot(Shown(s, b)))

\* The layout, the scene, the windows' boxes, the focus and the cover of the lock
\* are those of the outputs that are on.
Lit(s) ==
  /\ s.scene = s.enabled
  /\ \A o \in All : s.laid[o] = IF o \in s.enabled THEN s.at[o] ELSE Unplaced
  /\ \A o \in s.enabled : s.full[o] = Spot(Shown(s, o))
  /\ s.enabled # {} => s.focused \in s.enabled
  /\ s.locked => \A o \in s.enabled : Within(Spot(Shown(s, o)), s.blocker)
  /\ Fits(s)

\* What no commit changes.
Rest(t, s) ==
  /\ t.outputs = s.outputs /\ t.powered = s.powered /\ t.config = s.config
  /\ t.keyed = s.keyed /\ t.locked = s.locked /\ t.published = s.published

\* What no reconciliation changes.
Backend(t, s) ==
  /\ t.enabled = s.enabled /\ t.mode = s.mode /\ t.scale = s.scale
  /\ t.rotated = s.rotated /\ t.at = s.at

LEMMA ListedAll ==
  ASSUME NEW s, Base(s)
  PROVE  Listed(s) \subseteq All
BY DEF Base, Listed, Elements

LEMMA SpotInts ==
  ASSUME NEW s, Base(s), NEW o \in All
  PROVE  LET box == Spot(Shown(s, o)) IN
         /\ {box.x, box.y, box.width, box.height} \subseteq Int
         /\ IntMin <= box.x /\ IntMin <= box.y
<1> DEFINE m == s.mode[o]
           scale == s.scale[o]
           turned == Turned(m, o \in s.rotated)
<1>1. m \in ModeShape
  BY SizesShape DEF Base
<1>2. scale \in Scales /\ s.at[o] \in Places
  BY DEF Base
<1>3. turned.width \in Nat /\ turned.height \in Nat
  BY <1>1, IntMaxAssumption DEF ModeShape, Turned
<1>4. /\ s.at[o][1] \in Coordinates /\ s.at[o][2] \in Coordinates
      /\ s.at[o][1] \in Int /\ s.at[o][2] \in Int
  BY <1>2, PlacedIs
<1>5. IntMin <= s.at[o][1] /\ IntMin <= s.at[o][2]
  BY <1>4, IntMaxAssumption DEF Coordinates, IntMin
<1> HIDE DEF turned, scale, m
<1>6. (2 * turned.width) \div scale \in Int /\ (2 * turned.height) \div scale \in Int
  BY <1>2, <1>3 DEF Scales
<1>7. /\ Spot(Shown(s, o)).x = s.at[o][1] /\ Spot(Shown(s, o)).y = s.at[o][2]
      /\ Spot(Shown(s, o)).width = (2 * turned.width) \div scale
      /\ Spot(Shown(s, o)).height = (2 * turned.height) \div scale
  BY DEF Spot, Shown, Box, EffectiveSize, turned, scale, m
<1> QED
  BY <1>4, <1>5, <1>6, <1>7

\* The heads of a commit.
HeadsShape(s, heads) ==
  /\ DOMAIN heads \subseteq Listed(s)
  /\ \A o \in DOMAIN heads :
       /\ heads[o].at \in Places /\ heads[o].enabled \in BOOLEAN
       /\ heads[o].enabled =>
            /\ heads[o].mode \in Sizes(o) /\ heads[o].scale \in Scales
            /\ heads[o].rotated \in BOOLEAN

Lighted(heads) == {o \in DOMAIN heads : heads[o].enabled}

Switched(s, heads) == Tracked(Committed(s, heads), heads)

\* wlr_backend_commit changes what the heads say and nothing else.
LEMMA SwitchedIs ==
  ASSUME NEW s, Base(s), NEW heads, HeadsShape(s, heads)
  PROVE  LET t == Switched(s, heads)
             on == Lighted(heads) IN
         /\ Base(t) /\ Rest(t, s)
         /\ t.laid = s.laid /\ t.scene = s.scene /\ t.full = s.full
         /\ t.focused = s.focused /\ t.blocker = s.blocker
         /\ t.enabled = (s.enabled \ DOMAIN heads) \cup on
         /\ t.rotated = (s.rotated \ on) \cup {o \in on : heads[o].rotated}
         /\ \A o \in All :
              /\ t.at[o] = IF o \in DOMAIN heads THEN heads[o].at ELSE s.at[o]
              /\ t.mode[o] = IF o \in on THEN heads[o].mode ELSE s.mode[o]
              /\ t.scale[o] = IF o \in on THEN heads[o].scale ELSE s.scale[o]
<1> DEFINE on == Lighted(heads)
           c == Committed(s, heads)
           t == Switched(s, heads)
           enabled == (s.enabled \ DOMAIN heads) \cup on
           mode == [o \in All |-> IF o \in on THEN heads[o].mode ELSE s.mode[o]]
           scale == [o \in All |-> IF o \in on THEN heads[o].scale ELSE s.scale[o]]
           rotated == (s.rotated \ on) \cup {o \in on : heads[o].rotated}
           at == [o \in All |-> IF o \in DOMAIN heads THEN heads[o].at ELSE s.at[o]]
<1>0. s = Whole(s)
  BY DEF Base
<1>1. c = [s EXCEPT !.enabled = enabled, !.mode = mode, !.scale = scale, !.rotated = rotated]
  BY DEF Committed, Lighted
<1>2. c.at = s.at
  <2> HIDE DEF enabled, mode, scale, rotated, c
  <2> QED
    BY <1>0, <1>1 DEF Whole
<1>3. t = [c EXCEPT !.at = at]
  BY <1>2 DEF Switched, Tracked
<1> HIDE DEF enabled, mode, scale, rotated, at, c, t
<1>4. c = [outputs |-> s.outputs, enabled |-> enabled, powered |-> s.powered, mode |-> mode,
           scale |-> scale, rotated |-> rotated, at |-> s.at, laid |-> s.laid,
           scene |-> s.scene, full |-> s.full, focused |-> s.focused, config |-> s.config,
           keyed |-> s.keyed, locked |-> s.locked, blocker |-> s.blocker,
           published |-> s.published]
  BY <1>0, <1>1 DEF Whole
<1>5. t = [outputs |-> s.outputs, enabled |-> enabled, powered |-> s.powered, mode |-> mode,
           scale |-> scale, rotated |-> rotated, at |-> at, laid |-> s.laid,
           scene |-> s.scene, full |-> s.full, focused |-> s.focused, config |-> s.config,
           keyed |-> s.keyed, locked |-> s.locked, blocker |-> s.blocker,
           published |-> s.published]
  BY <1>3, <1>4
<1>6. /\ t.outputs = s.outputs /\ t.enabled = enabled /\ t.powered = s.powered
      /\ t.mode = mode /\ t.scale = scale /\ t.rotated = rotated /\ t.at = at
      /\ t.laid = s.laid /\ t.scene = s.scene /\ t.full = s.full /\ t.focused = s.focused
      /\ t.config = s.config /\ t.keyed = s.keyed /\ t.locked = s.locked
      /\ t.blocker = s.blocker /\ t.published = s.published
  BY <1>5
<1>7. t = Whole(t)
  BY <1>5, <1>6 DEF Whole
<1>8. Listed(t) = Listed(s) /\ Listed(s) \subseteq All /\ on \subseteq Listed(s)
  BY <1>6, ListedAll DEF Listed, HeadsShape, Lighted
<1>9. enabled \subseteq Listed(s) /\ rotated \subseteq Listed(s)
  BY <1>8 DEF enabled, rotated, Base
<1>10. mode = [o \in All |-> mode[o]] /\ \A o \in All : mode[o] \in Sizes(o)
  <2>1. \A o \in All : s.mode[o] \in Sizes(o)
    BY DEF Base
  <2>2. \A o \in on : heads[o].mode \in Sizes(o)
    BY DEF HeadsShape, Lighted
  <2> QED
    BY <2>1, <2>2 DEF mode
<1>11. scale \in [All -> Scales]
  <2>1. s.scale \in [All -> Scales]
    BY DEF Base
  <2>2. \A o \in on : heads[o].scale \in Scales
    BY DEF HeadsShape, Lighted
  <2> QED
    BY <2>1, <2>2 DEF scale
<1>12. at \in [All -> Places]
  <2>1. s.at \in [All -> Places]
    BY DEF Base
  <2>2. \A o \in DOMAIN heads : heads[o].at \in Places
    BY DEF HeadsShape
  <2> QED
    BY <2>1, <2>2 DEF at
<1>13. Base(t)
  BY <1>6, <1>7, <1>8, <1>9, <1>10, <1>11, <1>12 DEF Base
<1> QED
  <2>1. /\ t.enabled = (s.enabled \ DOMAIN heads) \cup on
        /\ t.rotated = (s.rotated \ on) \cup {o \in on : heads[o].rotated}
        /\ \A o \in All :
              /\ t.at[o] = IF o \in DOMAIN heads THEN heads[o].at ELSE s.at[o]
              /\ t.mode[o] = IF o \in on THEN heads[o].mode ELSE s.mode[o]
              /\ t.scale[o] = IF o \in on THEN heads[o].scale ELSE s.scale[o]
    BY <1>6 DEF enabled, mode, scale, rotated, at
  <2> HIDE DEF on
  <2> QED
    BY <1>6, <1>13, <2>1 DEF Rest, t, on

-----------------------------------------------------------------------------
(* Reconciling                                                             *)

\* The box around some boxes covers each of them.
LEMMA AroundCovers ==
  ASSUME NEW S,
         \A b \in S : /\ {b.x, b.y, b.width, b.height} \subseteq Int
                      /\ IntMin <= b.x /\ IntMin <= b.y /\ HasEdges(b),
         NEW b \in S
  PROVE  Within(b, Around(S))
<1> DEFINE X == {c.x : c \in S}
           Y == {c.y : c \in S}
           R == {Right(c) : c \in S}
           B == {Bottom(c) : c \in S}
           x == CHOOSE n \in X : \A m \in X : n <= m
           y == CHOOSE n \in Y : \A m \in Y : n <= m
           r == CHOOSE n \in R : \A m \in R : m <= n
           q == CHOOSE n \in B : \A m \in B : m <= n
<1>1. IntMin \in Int /\ IntMax \in Int
  BY IntMaxAssumption DEF IntMin
<1>2. Around(S) = [x |-> x, y |-> y, width |-> r - x, height |-> q - y]
  BY DEF Around
<1>3. \A c \in S : /\ Right(c) \in Int /\ Bottom(c) \in Int
                   /\ Right(c) <= IntMax /\ Bottom(c) <= IntMax
  BY <1>1 DEF Right, Bottom, HasEdges
<1>4. /\ b.x \in X /\ b.y \in Y /\ Right(b) \in R /\ Bottom(b) \in B
      /\ X \subseteq Int /\ Y \subseteq Int /\ R \subseteq Int /\ B \subseteq Int
  BY <1>3
<1>5. /\ \A n \in X : IntMin <= n
      /\ \A n \in Y : IntMin <= n
      /\ \A n \in R : n <= IntMax
      /\ \A n \in B : n <= IntMax
  BY <1>3
<1> HIDE DEF X, Y, R, B, IntMin
<1>6. x \in X /\ \A m \in X : x <= m
  BY <1>1, <1>4, <1>5, LeastInt
<1>7. y \in Y /\ \A m \in Y : y <= m
  BY <1>1, <1>4, <1>5, LeastInt
<1>8. r \in R /\ \A m \in R : m <= r
  BY <1>1, <1>4, <1>5, GreatestInt
<1>9. q \in B /\ \A m \in B : m <= q
  BY <1>1, <1>4, <1>5, GreatestInt
<1> HIDE DEF x, y, r, q
<1>10. /\ Around(S).x = x /\ Around(S).y = y
       /\ Around(S).width = r - x /\ Around(S).height = q - y
  BY <1>2
<1>11. x \in Int /\ y \in Int /\ r \in Int /\ q \in Int
  BY <1>4, <1>6, <1>7, <1>8, <1>9
<1>12. Right(Around(S)) = r /\ Bottom(Around(S)) = q
  BY <1>10, <1>11 DEF Right, Bottom
<1> QED
  BY <1>4, <1>6, <1>7, <1>8, <1>9, <1>10, <1>12 DEF Within

\* The first of the outputs in a set, if there is one.
LEMMA FirstOfIs ==
  ASSUME NEW s, s.outputs \in Seq(All), NEW which
  PROVE  IF which \cap Listed(s) = {} THEN FirstOf(s, which) = NONE
         ELSE FirstOf(s, which) \in which \cap Listed(s)
<1> DEFINE T == {i \in DOMAIN s.outputs : s.outputs[i] \in which}
           k == CHOOSE i \in DOMAIN s.outputs :
                  /\ s.outputs[i] \in which
                  /\ \A j \in DOMAIN s.outputs : s.outputs[j] \in which => i <= j
<1>1. SUFFICES ASSUME which \cap Listed(s) # {}
               PROVE  FirstOf(s, which) \in which \cap Listed(s)
  BY DEF FirstOf
<1>2. T \subseteq Nat /\ T # {}
  BY <1>1 DEF Listed, Elements
<1>3. \E i \in T : \A j \in T : i <= j
  <2> HIDE DEF T
  <2> QED
    BY <1>2, LeastNatural
<1>4. k \in DOMAIN s.outputs /\ s.outputs[k] \in which
  BY <1>3
<1>5. FirstOf(s, which) = s.outputs[k]
  BY <1>1 DEF FirstOf
<1> HIDE DEF k
<1> QED
  BY <1>4, <1>5 DEF Listed, Elements

\* The outputs a reconciliation has attached.
Done(s, broken) ==
  {o \in Listed(s) : broken \in Listed(s) => Index(s, o) < Index(s, broken)}

LEMMA AttachedIs ==
  ASSUME NEW s, Base(s), NEW broken
  PROVE  LET t == Attached(s, broken)
             done == Done(s, broken) IN
         /\ Base(t) /\ Rest(t, s) /\ Backend(t, s)
         /\ t.full = s.full /\ t.focused = s.focused /\ t.blocker = s.blocker
         /\ t.scene = (s.scene \ done) \cup (done \cap s.enabled)
         /\ \A o \in All : t.laid[o] = IF o \notin done THEN s.laid[o]
                                       ELSE IF o \in s.enabled THEN s.at[o] ELSE Unplaced
<1> DEFINE t == Attached(s, broken)
           done == Done(s, broken)
           scene == (s.scene \ done) \cup (done \cap s.enabled)
           laid == [o \in All |-> IF o \notin done THEN s.laid[o]
                                  ELSE IF o \in s.enabled THEN s.at[o] ELSE Unplaced]
<1>0. s = Whole(s)
  BY DEF Base
<1>1. t = [s EXCEPT !.scene = scene, !.laid = laid]
  BY DEF Attached, Done
<1> HIDE DEF t, scene, laid
<1>2. t = [outputs |-> s.outputs, enabled |-> s.enabled, powered |-> s.powered,
           mode |-> s.mode, scale |-> s.scale, rotated |-> s.rotated, at |-> s.at,
           laid |-> laid, scene |-> scene, full |-> s.full, focused |-> s.focused,
           config |-> s.config, keyed |-> s.keyed, locked |-> s.locked,
           blocker |-> s.blocker, published |-> s.published]
  BY <1>0, <1>1 DEF Whole
<1>3. /\ Rest(t, s) /\ Backend(t, s)
      /\ t.full = s.full /\ t.focused = s.focused /\ t.blocker = s.blocker
      /\ t.scene = scene /\ t.laid = laid
  BY <1>2 DEF Rest, Backend
<1>4. t = Whole(t)
  BY <1>2 DEF Whole
<1>5. Listed(t) = Listed(s) /\ done \subseteq Listed(s)
  BY <1>3 DEF Listed, Rest, Done
<1>6. scene \subseteq Listed(s)
  BY <1>5 DEF scene, Base
<1>7. laid \in [All -> {Unplaced} \cup Places]
  <2>1. s.laid \in [All -> {Unplaced} \cup Places] /\ s.at \in [All -> Places]
    BY DEF Base
  <2> QED
    BY <2>1 DEF laid
<1>8. \A o \in All : laid[o] # Unplaced => o \in Listed(s)
  BY <1>5 DEF laid, Base
<1>9. Base(t)
  BY <1>3, <1>4, <1>5, <1>6, <1>7, <1>8 DEF Base, Rest, Backend
<1> QED
  BY <1>3, <1>9 DEF t, scene, laid

\* The screen of an output that is laid where it is to be.
LEMMA ScreenIsSpot ==
  ASSUME NEW s, NEW o, s.laid[o] = s.at[o]
  PROVE  Screen(s, o) = Spot(Shown(s, o))
BY DEF Screen, Spot, Shown

\* The shown outputs are those of the backend.
LEMMA BackendShown ==
  ASSUME NEW s, NEW t, Backend(t, s)
  PROVE  /\ \A o : Shown(t, o) = Shown(s, o)
         /\ Fits(t) <=> Fits(s)
BY DEF Backend, Shown, Fits

\* The layout box is around the outputs that are on.
LEMMA LayoutCovers ==
  ASSUME NEW s, Base(s), Fits(s),
         \A o \in Listed(s) : s.laid[o] = IF o \in s.enabled THEN s.at[o] ELSE Unplaced
  PROVE  \A o \in s.enabled : Within(Spot(Shown(s, o)), LayoutBox(s))
<1> DEFINE S == {Screen(s, o) : o \in {p \in Listed(s) : s.laid[p] # Unplaced}}
<1>1. ASSUME NEW o \in {p \in Listed(s) : s.laid[p] # Unplaced}
      PROVE  o \in s.enabled /\ Screen(s, o) = Spot(Shown(s, o))
  BY <1>1, ScreenIsSpot
<1>2. ASSUME NEW b \in S
      PROVE  /\ {b.x, b.y, b.width, b.height} \subseteq Int
             /\ IntMin <= b.x /\ IntMin <= b.y /\ HasEdges(b)
  <2>1. PICK o \in {p \in Listed(s) : s.laid[p] # Unplaced} : b = Screen(s, o)
    BY <1>2
  <2>2. o \in s.enabled /\ o \in All /\ b = Spot(Shown(s, o))
    BY <1>1, <2>1, ListedAll
  <2> HIDE DEF S
  <2> QED
    BY <2>2, SpotInts DEF Fits
<1>3. ASSUME NEW o \in s.enabled PROVE Spot(Shown(s, o)) \in S
  <2>1. o \in Listed(s) /\ o \in All /\ s.at[o] \in Places /\ s.laid[o] = s.at[o]
    BY ListedAll DEF Base
  <2>2. s.laid[o] # Unplaced
    BY <2>1, PlacedIs
  <2> QED
    BY <2>1, <2>2, ScreenIsSpot
<1>4. LayoutBox(s) = Around(S)
  BY DEF LayoutBox
<1> HIDE DEF S
<1> QED
  BY <1>2, <1>3, <1>4, AroundCovers

\* After a reconciliation layout, scene, windows' boxes, focus and cover agree.
LEMMA ReconcileLit ==
  ASSUME NEW s, Base(s), Fits(s), NEW r \in Reconcile(s)
  PROVE  /\ Base(r) /\ Lit(r) /\ Rest(r, s) /\ Backend(r, s)
         /\ \A o \in All \ s.enabled : r.full[o] = s.full[o]
         /\ r.focused \in Listed(s) \cup {NONE}
         /\ s.focused \in s.enabled => r.focused = s.focused
<1> DEFINE t == Attached(s, NONE)
           full == [o \in All |-> IF o \in t.enabled THEN Screen(t, o) ELSE t.full[o]]
           focused == IF t.focused \in t.enabled THEN t.focused ELSE FirstOf(t, t.enabled)
           box == LayoutBox(t)
<1>1. /\ Base(t) /\ Rest(t, s) /\ Backend(t, s)
      /\ t.full = s.full /\ t.focused = s.focused /\ t.blocker = s.blocker
      /\ t.scene = (s.scene \ Listed(s)) \cup (Listed(s) \cap s.enabled)
      /\ \A o \in All : t.laid[o] = IF o \notin Listed(s) THEN s.laid[o]
                                    ELSE IF o \in s.enabled THEN s.at[o] ELSE Unplaced
  <2>1. NONE \notin Listed(s)
    BY MonitorsAssumption, ListedAll
  <2>2. Done(s, NONE) = Listed(s)
    BY <2>1 DEF Done
  <2> QED
    BY <2>2, AttachedIs
<1>2. r = [[t EXCEPT !.full = full] EXCEPT !.blocker = box, !.focused = focused]
  <2>1. Refreshed(t) = [t EXCEPT !.full = full]
    BY DEF Refreshed
  <2>2. Refreshed(t).focused = t.focused
    <3> HIDE DEF t, full
    <3> QED
      BY <1>1, <2>1 DEF Base, Whole
  <2>3. r = [Refreshed(t) EXCEPT !.blocker = LayoutBox(t),
               !.focused = IF @ \in t.enabled THEN @ ELSE FirstOf(t, t.enabled)]
    BY DEF Reconcile
  <2> HIDE DEF t, full
  <2> QED
    BY <2>1, <2>2, <2>3
<1> HIDE DEF t, full, focused, box
<1>3. r = [outputs |-> t.outputs, enabled |-> t.enabled, powered |-> t.powered,
           mode |-> t.mode, scale |-> t.scale, rotated |-> t.rotated, at |-> t.at,
           laid |-> t.laid, scene |-> t.scene, full |-> full, focused |-> focused,
           config |-> t.config, keyed |-> t.keyed, locked |-> t.locked,
           blocker |-> box, published |-> t.published]
  <2>1. t = Whole(t)
    BY <1>1 DEF Base
  <2> QED
    BY <1>2, <2>1 DEF Whole
<1>4. /\ Rest(r, t) /\ Backend(r, t) /\ r.laid = t.laid /\ r.scene = t.scene
      /\ r.full = full /\ r.focused = focused /\ r.blocker = box
      /\ r = Whole(r)
  BY <1>3 DEF Rest, Backend, Whole
<1>5. Rest(r, s) /\ Backend(r, s) /\ Listed(r) = Listed(s) /\ Listed(t) = Listed(s)
  BY <1>1, <1>4 DEF Rest, Backend, Listed
<1>6. /\ s.enabled \subseteq Listed(s) /\ s.scene \subseteq Listed(s)
      /\ t.enabled = s.enabled /\ t.at = s.at
      /\ s.outputs \in Seq(All) /\ t.outputs = s.outputs
  BY <1>1 DEF Base, Backend, Rest
<1>7. IF s.enabled = {} THEN focused = NONE
      ELSE focused \in s.enabled
  <2>1. t.enabled \cap Listed(t) = s.enabled
    BY <1>5, <1>6
  <2>2. IF s.enabled = {} THEN FirstOf(t, t.enabled) = NONE
        ELSE FirstOf(t, t.enabled) \in s.enabled
    BY <1>6, <2>1, FirstOfIs
  <2> QED
    BY <1>6, <2>2 DEF focused
<1>8. focused \in Listed(s) \cup {NONE} /\ focused \in All \cup {NONE}
  BY <1>6, <1>7, ListedAll
<1>9. full = [o \in All |-> full[o]]
  BY DEF full
<1>10. Base(r)
  BY <1>1, <1>4, <1>5, <1>8, <1>9 DEF Base, Rest, Backend
<1>11. r.scene = r.enabled
  BY <1>1, <1>4, <1>5, <1>6 DEF Backend
<1>12. \A o \in All : r.laid[o] = IF o \in r.enabled THEN r.at[o] ELSE Unplaced
  <2>1. \A o \in All : o \notin Listed(s) => s.laid[o] = Unplaced
    BY DEF Base
  <2> QED
    BY <1>1, <1>4, <1>5, <1>6, <2>1 DEF Backend
<1>13. \A o : Shown(r, o) = Shown(s, o) /\ Shown(t, o) = Shown(s, o)
  BY <1>1, <1>5, BackendShown
<1>14. ASSUME NEW o \in r.enabled PROVE r.full[o] = Spot(Shown(r, o))
  <2>1. o \in s.enabled /\ o \in All /\ o \in t.enabled
    BY <1>1, <1>5, <1>6, <1>14, ListedAll DEF Backend
  <2>2. t.laid[o] = t.at[o]
    BY <1>1, <1>6, <2>1
  <2>3. full[o] = Screen(t, o)
    BY <2>1 DEF full
  <2> QED
    BY <1>4, <1>13, <2>2, <2>3, ScreenIsSpot
<1>15. Fits(r) /\ Fits(t)
  BY <1>1, <1>5, BackendShown
<1>16. \A o \in r.enabled : Within(Spot(Shown(r, o)), r.blocker)
  <2>1. \A o \in Listed(t) : t.laid[o] = IF o \in t.enabled THEN t.at[o] ELSE Unplaced
    BY <1>1, <1>5, <1>6, ListedAll
  <2>2. \A o \in t.enabled : Within(Spot(Shown(t, o)), LayoutBox(t))
    BY <1>1, <1>15, <2>1, LayoutCovers
  <2> QED
    BY <1>4, <1>5, <1>6, <1>13, <2>2 DEF Backend, box
<1>17. r.enabled # {} => r.focused \in r.enabled
  BY <1>4, <1>5, <1>7 DEF Backend
<1>18. Lit(r)
  BY <1>11, <1>12, <1>14, <1>15, <1>16, <1>17 DEF Lit
<1>19. \A o \in All \ s.enabled : r.full[o] = s.full[o]
  BY <1>1, <1>4, <1>6 DEF full
<1>20. s.focused \in s.enabled => r.focused = s.focused
  BY <1>1, <1>4, <1>6 DEF focused
<1> QED
  BY <1>4, <1>5, <1>8, <1>10, <1>18, <1>19, <1>20

\* Spots are compatible when the boxes of their heads are.
LEMMA SpotsCompatible ==
  ASSUME NEW a, HeadShape(a), HasEdges(HeadBox(a)),
         NEW b, HeadShape(b), HasEdges(HeadBox(b)), Compatible(HeadBox(a), HeadBox(b))
  PROVE  HasEdges(Spot(a)) /\ Compatible(Spot(a), Spot(b))
BY SpotSmaller, EdgesSmaller, CompatibleSmaller

\* What an output that a commit lights will show.
LEMMA LightedShown ==
  ASSUME NEW s, Base(s), NEW heads, HeadsShape(s, heads), NEW o \in Lighted(heads)
  PROVE  Spot(Shown(Switched(s, heads), o)) = Spot(heads[o])
<1> DEFINE t == Switched(s, heads)
           on == Lighted(heads)
<1>1. /\ t.rotated = (s.rotated \ on) \cup {p \in on : heads[p].rotated}
      /\ \A p \in All :
           /\ t.at[p] = IF p \in DOMAIN heads THEN heads[p].at ELSE s.at[p]
           /\ t.mode[p] = IF p \in on THEN heads[p].mode ELSE s.mode[p]
           /\ t.scale[p] = IF p \in on THEN heads[p].scale ELSE s.scale[p]
  BY SwitchedIs
<1>2. o \in DOMAIN heads /\ o \in All /\ heads[o].enabled /\ heads[o].rotated \in BOOLEAN
  BY ListedAll DEF Lighted, HeadsShape
<1> HIDE DEF t, on
<1>3. /\ t.at[o] = heads[o].at /\ t.mode[o] = heads[o].mode /\ t.scale[o] = heads[o].scale
  BY <1>1, <1>2 DEF on
<1>4. (o \in t.rotated) = heads[o].rotated
  BY <1>1, <1>2 DEF on
<1>5. /\ Shown(t, o).at = heads[o].at /\ Shown(t, o).mode = heads[o].mode
      /\ Shown(t, o).scale = heads[o].scale /\ Shown(t, o).rotated = heads[o].rotated
  BY <1>3, <1>4 DEF Shown
<1> QED
  BY <1>5 DEF Spot, t

\* leme_output_heads_overlap keeps outputs apart that are planned together.
LEMMA PlannedFits ==
  ASSUME NEW s, Base(s), NEW heads, HeadsShape(s, heads), DOMAIN heads = Listed(s),
         \A o \in Listed(s) : HeadShape(heads[o]), ~HeadsOverlap(heads)
  PROVE  Fits(Switched(s, heads))
<1> DEFINE t == Switched(s, heads)
           on == Lighted(heads)
<1>1. t.enabled = on
  <2>1. t.enabled = (s.enabled \ DOMAIN heads) \cup on /\ s.enabled \subseteq Listed(s)
    BY SwitchedIs DEF Base
  <2> QED
    BY <2>1
<1>2. \A a, b \in on : /\ HasEdges(HeadBox(heads[a]))
                       /\ a # b => Compatible(HeadBox(heads[a]), HeadBox(heads[b]))
  <2> DEFINE boxes == [o \in on |-> HeadBox(heads[o])]
  <2>1. \A a, b \in on : HasEdges(boxes[a]) /\ (a # b => Compatible(boxes[a], boxes[b]))
    BY DEF HeadsOverlap, Lighted
  <2> QED
    BY <2>1
<1>3. \A o \in on : HeadShape(heads[o]) /\ Spot(Shown(t, o)) = Spot(heads[o])
  BY LightedShown DEF Lighted
<1> HIDE DEF t, on
<1>4. ASSUME NEW a \in t.enabled
      PROVE  /\ HasEdges(Spot(Shown(t, a)))
             /\ \A b \in t.enabled \ {a} : Compatible(Spot(Shown(t, a)), Spot(Shown(t, b)))
  <2>1. HasEdges(Spot(heads[a]))
    BY <1>1, <1>2, <1>3, <1>4, SpotSmaller, EdgesSmaller
  <2>2. ASSUME NEW b \in t.enabled \ {a} PROVE Compatible(Spot(heads[a]), Spot(heads[b]))
    <3>1. a \in on /\ b \in on /\ a # b
      BY <1>1, <1>4, <2>2
    <3> QED
      BY <1>2, <1>3, <3>1, SpotsCompatible
  <2> QED
    BY <1>1, <1>3, <2>1, <2>2
<1> QED
  BY <1>4 DEF Fits, t

\* After a way back: the outputs that are on are as they were.
Restored(t, s) ==
  /\ t.enabled = s.enabled /\ t.at = s.at
  /\ \A o \in s.enabled : Shown(t, o) = Shown(s, o)
  /\ s.focused \in s.enabled => t.focused = s.focused

\* leme_output_commit_and_reconcile attaches all outputs, or goes back, or is lost.
LEMMA CommitIs ==
  ASSUME NEW s, Base(s), Fits(s), NEW heads, HeadsShape(s, heads),
         Fits(Switched(s, heads)), NEW end \in CommitAndReconcile(s, heads)
  PROVE  /\ end = Outcome(end.state, end.kind)
         /\ end.kind \in {"refused", "done", "broken", "lost"}
         /\ Base(end.state) /\ Rest(end.state, s) /\ Fits(end.state)
         /\ end.state.focused \in Listed(s) \cup {NONE, s.focused}
         /\ end.kind \in {"done", "broken"} => Lit(end.state)
         /\ end.kind = "refused" => end.state = s
         /\ end.kind = "broken" => Restored(end.state, s)
         /\ end.kind = "done" => Backend(end.state, Switched(s, heads))
<1> DEFINE t == Switched(s, heads)
           current == CurrentHeads(s)
<1>1. /\ Base(t) /\ Rest(t, s) /\ t.focused = s.focused /\ Fits(t)
  BY SwitchedIs
<1>2. \/ end = Outcome(s, "refused")
      \/ \E r \in Reconcile(t) : end = Outcome(r, "done")
      \/ \E broken \in Broken(t) : end = Outcome([broken EXCEPT !.scene = {}], "lost")
      \/ \E broken \in Broken(t) : \E r \in Reconcile(Switched(broken, current)) :
           end = Outcome(r, "broken")
  <2> DEFINE Switch(from, to) == {Tracked(u, to) : u \in {Committed(from, to)}}
             lost == Outcomes({[broken EXCEPT !.scene = {}] : broken \in Broken(t)}, "lost")
             backs == UNION {Switch(broken, current) : broken \in Broken(t)}
             back == UNION {Outcomes(Reconcile(b), "broken") : b \in backs}
  <2>1. \A from, to : Switch(from, to) = {Switched(from, to)}
    BY DEF Switched
  <2>2. CommitAndReconcile(s, heads) =
          {Outcome(s, "refused")} \cup
            UNION {Outcomes(Reconcile(u), "done")
                     \cup Outcomes({[broken EXCEPT !.scene = {}] : broken \in Broken(u)}, "lost")
                     \cup UNION {Outcomes(Reconcile(b), "broken") :
                                   b \in UNION {Switch(broken, CurrentHeads(s)) :
                                                     broken \in Broken(u)}} :
                   u \in Switch(s, heads)}
    BY DEF CommitAndReconcile
  <2>3. Switch(s, heads) = {t}
    BY <2>1
  <2> HIDE DEF Switch, t, current
  <2>4. CommitAndReconcile(s, heads) =
          {Outcome(s, "refused")} \cup Outcomes(Reconcile(t), "done") \cup lost \cup back
    BY <2>2, <2>3 DEF current
  <2>5. CASE end \in lost
    BY <2>5 DEF Outcomes
  <2>6. CASE end \in back
    <3>1. PICK b \in backs : end \in Outcomes(Reconcile(b), "broken")
      BY <2>6
    <3>2. PICK broken \in Broken(t) : b \in Switch(broken, current)
      BY <3>1
    <3>3. b = Switched(broken, current)
      BY <2>1, <3>2
    <3> QED
      BY <3>1, <3>2, <3>3 DEF Outcomes
  <2>7. CASE end \in Outcomes(Reconcile(t), "done")
    BY <2>7 DEF Outcomes
  <2> HIDE DEF lost, back
  <2> QED
    BY <2>4, <2>5, <2>6, <2>7
<1> HIDE DEF t, current
<1>3. CASE end = Outcome(s, "refused")
  <2>1. end.state = s /\ end.kind = "refused"
    BY <1>3 DEF Outcome
  <2> QED
    BY <1>3, <2>1 DEF Rest
<1>4. CASE \E r \in Reconcile(t) : end = Outcome(r, "done")
  <2>1. PICK r \in Reconcile(t) : end = Outcome(r, "done")
    BY <1>4
  <2>2. end.state = r /\ end.kind = "done"
    BY <2>1 DEF Outcome
  <2>3. /\ Base(r) /\ Lit(r) /\ Rest(r, t) /\ Backend(r, t)
        /\ r.focused \in Listed(t) \cup {NONE}
    BY <1>1, ReconcileLit
  <2>4. Rest(r, s) /\ Listed(t) = Listed(s) /\ Fits(r)
    BY <1>1, <2>3 DEF Rest, Listed, Lit
  <2> QED
    BY <2>1, <2>2, <2>3, <2>4 DEF t
<1>5. CASE \E broken \in Broken(t) : end = Outcome([broken EXCEPT !.scene = {}], "lost")
  <2>1. PICK o : end = Outcome([Attached(t, o) EXCEPT !.scene = {}], "lost")
    BY <1>5 DEF Broken
  <2> DEFINE a == Attached(t, o)
             e == [a EXCEPT !.scene = {}]
  <2>2. Base(a) /\ Rest(a, t) /\ Backend(a, t) /\ a.focused = t.focused
    BY <1>1, AttachedIs
  <2>3. end.state = e /\ end.kind = "lost"
    BY <2>1 DEF Outcome
  <2> HIDE DEF a
  <2>4. e = [outputs |-> a.outputs, enabled |-> a.enabled, powered |-> a.powered,
             mode |-> a.mode, scale |-> a.scale, rotated |-> a.rotated, at |-> a.at,
             laid |-> a.laid, scene |-> {}, full |-> a.full, focused |-> a.focused,
             config |-> a.config, keyed |-> a.keyed, locked |-> a.locked,
             blocker |-> a.blocker, published |-> a.published]
    <3>1. a = Whole(a)
      BY <2>2 DEF Base
    <3> QED
      BY <3>1 DEF Whole
  <2> HIDE DEF e
  <2>5. /\ e = Whole(e) /\ Rest(e, a) /\ Backend(e, a) /\ e.laid = a.laid /\ e.scene = {}
        /\ e.full = a.full /\ e.focused = a.focused
    BY <2>4 DEF Whole, Rest, Backend
  <2>6. Listed(e) = Listed(a)
    BY <2>5 DEF Rest, Listed
  <2>7. Base(e)
    BY <2>2, <2>5, <2>6 DEF Base, Rest, Backend
  <2>8. Rest(e, s) /\ e.focused = s.focused
    BY <1>1, <2>2, <2>5 DEF Rest
  <2>9. Fits(e)
    BY <1>1, <2>2, <2>5, BackendShown
  <2> QED
    BY <2>1, <2>3, <2>7, <2>8, <2>9 DEF a, e
<1>6. CASE \E broken \in Broken(t) : \E r \in Reconcile(Switched(broken, current)) :
             end = Outcome(r, "broken")
  <2>1. PICK broken \in Broken(t) : \E r \in Reconcile(Switched(broken, current)) :
                                       end = Outcome(r, "broken")
    BY <1>6
  <2>2. PICK r \in Reconcile(Switched(broken, current)) : end = Outcome(r, "broken")
    BY <2>1
  <2>3. Base(broken) /\ Rest(broken, t) /\ Backend(broken, t) /\ broken.focused = t.focused
    <3>1. PICK o : broken = Attached(t, o)
      BY DEF Broken
    <3> QED
      BY <1>1, <3>1, AttachedIs
  <2>4. Listed(broken) = Listed(s) /\ broken.enabled \subseteq Listed(s)
    BY <1>1, <2>3 DEF Rest, Listed, Base
  <2>5. /\ DOMAIN current = Listed(s)
        /\ \A o \in Listed(s) :
             current[o] = [enabled |-> o \in s.enabled, at |-> s.at[o], mode |-> s.mode[o],
                           scale |-> s.scale[o], rotated |-> o \in s.rotated]
    BY DEF current, CurrentHeads
  <2>6. \A o \in Listed(s) :
          /\ current[o].enabled = (o \in s.enabled) /\ current[o].at = s.at[o]
          /\ current[o].mode = s.mode[o] /\ current[o].scale = s.scale[o]
          /\ current[o].rotated = (o \in s.rotated)
    BY <2>5
  <2>7. HeadsShape(broken, current)
    <3>1. ASSUME NEW o \in Listed(s)
          PROVE  /\ s.at[o] \in Places /\ s.mode[o] \in Sizes(o) /\ s.scale[o] \in Scales
                 /\ (o \in s.enabled) \in BOOLEAN /\ (o \in s.rotated) \in BOOLEAN
      BY ListedAll DEF Base
    <3> QED
      BY <2>4, <2>5, <2>6, <3>1, ZenonT(90) DEF HeadsShape
  <2> DEFINE back == Switched(broken, current)
             on == Lighted(current)
  <2>8. /\ Base(back) /\ Rest(back, broken) /\ back.focused = broken.focused
        /\ back.enabled = (broken.enabled \ DOMAIN current) \cup on
        /\ back.rotated = (broken.rotated \ on) \cup {o \in on : current[o].rotated}
        /\ \A o \in All :
             /\ back.at[o] = IF o \in DOMAIN current THEN current[o].at ELSE broken.at[o]
             /\ back.mode[o] = IF o \in on THEN current[o].mode ELSE broken.mode[o]
             /\ back.scale[o] = IF o \in on THEN current[o].scale ELSE broken.scale[o]
    BY <2>3, <2>7, SwitchedIs
  <2>9. on = s.enabled
    BY <2>5, <2>6 DEF Lighted, Base
  <2> HIDE DEF back, on
  <2>10. back.enabled = s.enabled
    BY <2>4, <2>5, <2>8, <2>9
  <2>11. back.at = s.at
    <3>1. s.at \in [All -> Places] /\ back.at \in [All -> Places]
      BY <2>8 DEF Base
    <3>2. ASSUME NEW o \in All PROVE back.at[o] = s.at[o]
      <4>1. CASE o \in Listed(s)
        BY <2>5, <2>6, <2>8, <4>1
      <4>2. CASE o \notin Listed(s)
        <5>1. broken.at[o] = t.at[o]
          BY <2>3 DEF Backend
        <5>2. t.at[o] = s.at[o]
          BY <4>2, SwitchedIs DEF t, HeadsShape
        <5> QED
          BY <2>5, <2>8, <4>2, <5>1, <5>2
      <4> QED
        BY <4>1, <4>2
    <3> QED
      BY <3>1, <3>2
  <2>12. ASSUME NEW o \in s.enabled PROVE Shown(back, o) = Shown(s, o)
    <3>1. o \in Listed(s) /\ o \in All /\ o \in on
      BY <2>9, ListedAll DEF Base
    <3>2. back.mode[o] = s.mode[o] /\ back.scale[o] = s.scale[o]
      BY <2>6, <2>8, <3>1
    <3>3. (o \in back.rotated) = (o \in s.rotated)
      <4>1. o \in back.rotated <=> o \in {p \in on : current[p].rotated}
        BY <2>8, <3>1
      <4>2. o \in {p \in on : current[p].rotated} <=> current[o].rotated
        BY <3>1
      <4>3. current[o].rotated = (o \in s.rotated)
        BY <2>6, <3>1
      <4> DEFINE x == o \in back.rotated
                 y == o \in s.rotated
                 z == current[o].rotated
      <4>4. x <=> z
        BY <4>1, <4>2
      <4>5. z = y
        BY <4>3
      <4> HIDE DEF x, y, z
      <4>6. (x <=> z) /\ z = y => (x <=> y)
        BY SMT
      <4>7. x <=> y
        BY <4>4, <4>5, <4>6
      <4>8. x \in BOOLEAN /\ y \in BOOLEAN
        BY DEF x, y
      <4>9. x = y
        BY <4>7, <4>8
      <4> QED
        BY <4>9 DEF x, y
    <3>4. back.at[o] = s.at[o]
      BY <2>11
    <3>5. [at |-> back.at[o], mode |-> back.mode[o], scale |-> back.scale[o],
           rotated |-> o \in back.rotated]
          = [at |-> s.at[o], mode |-> s.mode[o], scale |-> s.scale[o],
             rotated |-> o \in s.rotated]
      <4> DEFINE x == o \in back.rotated
                 y == o \in s.rotated
      <4>1. x = y
        BY <3>3
      <4> HIDE DEF x, y
      <4>2. [at |-> back.at[o], mode |-> back.mode[o], scale |-> back.scale[o], rotated |-> x]
            = [at |-> s.at[o], mode |-> s.mode[o], scale |-> s.scale[o], rotated |-> y]
        BY <3>2, <3>4, <4>1
      <4> QED
        BY <4>2 DEF x, y
    <3> QED
      BY <3>5 DEF Shown
  <2>13. Fits(back)
    BY <2>10, <2>12 DEF Fits
  <2>14. /\ Base(r) /\ Lit(r) /\ Rest(r, back) /\ Backend(r, back)
         /\ r.focused \in Listed(back) \cup {NONE}
         /\ back.focused \in back.enabled => r.focused = back.focused
    BY <2>2, <2>8, <2>13, ReconcileLit DEF back
  <2>15. Restored(r, s)
    <3>1. \A o : Shown(r, o) = Shown(back, o)
      BY <2>14, BackendShown
    <3>2. back.focused = s.focused
      BY <1>1, <2>3, <2>8
    <3> QED
      BY <2>10, <2>11, <2>12, <2>14, <3>1, <3>2 DEF Restored, Backend
  <2>16. Rest(r, s) /\ Listed(back) = Listed(s) /\ Fits(r)
    BY <1>1, <2>3, <2>8, <2>14 DEF Rest, Listed, Lit
  <2>17. end.state = r /\ end.kind = "broken"
    BY <2>2 DEF Outcome
  <2> QED
    BY <2>2, <2>14, <2>15, <2>16, <2>17
<1> QED
  BY <1>2, <1>3, <1>4, <1>5, <1>6

-----------------------------------------------------------------------------
(* What an operation makes of a session                                    *)

\* Two sessions that differ in the configuration, the wishes for power and what
\* clients were told, if at all.
Drawn(t, s) ==
  /\ Backend(t, s) /\ t.outputs = s.outputs /\ t.laid = s.laid /\ t.scene = s.scene
  /\ t.full = s.full /\ t.focused = s.focused /\ t.locked = s.locked
  /\ t.blocker = s.blocker

\* What clients are to be told, and that they were.
Announced(s) ==
  [o \in Listed(s) |-> [enabled |-> o \in s.enabled, at |-> s.at[o],
                        mode |-> IF o \in s.enabled THEN s.mode[o] ELSE NoMode]]

Told(s) == s.published = Announced(s)

LEMMA DrawnSame ==
  ASSUME NEW t, NEW s, Drawn(t, s)
  PROVE  /\ Listed(t) = Listed(s) /\ (Lit(t) <=> Lit(s)) /\ (Fits(t) <=> Fits(s))
         /\ Announced(t) = Announced(s)
         /\ \A o : Showing(t, o) = Showing(s, o)
<1>1. \A o : Shown(t, o) = Shown(s, o)
  BY BackendShown DEF Drawn
<1>2. Fits(t) <=> Fits(s)
  BY BackendShown DEF Drawn
<1>3. Listed(t) = Listed(s)
  BY DEF Drawn, Listed
<1>4. Lit(t) <=> Lit(s)
  BY <1>1, <1>2 DEF Drawn, Backend, Lit
<1>5. Announced(t) = Announced(s)
  BY <1>3 DEF Drawn, Backend, Announced
<1>6. \A o : Showing(t, o) = Showing(s, o)
  BY DEF Drawn, Backend, Showing
<1> QED
  BY <1>2, <1>3, <1>4, <1>5, <1>6

LEMMA DrawnBase ==
  ASSUME NEW t, NEW s, Base(s), Drawn(t, s), t = Whole(t),
         t.powered \subseteq Listed(s), Known(t.config)
  PROVE  Base(t)
<1>1. Listed(t) = Listed(s)
  BY DEF Drawn, Listed
<1> QED
  BY <1>1 DEF Base, Drawn, Backend

\* leme_output_publish_configuration
LEMMA PublishIs ==
  ASSUME NEW s, Base(s)
  PROVE  LET p == Publish(s) IN
         /\ Base(p) /\ Drawn(p, s) /\ Told(p) /\ p.published = Announced(s)
         /\ p.powered = s.powered /\ p.config = s.config /\ p.keyed = s.keyed
<1> DEFINE p == Publish(s)
           told == Announced(s)
<1>1. s = Whole(s)
  BY DEF Base
<1>2. p = [s EXCEPT !.published = told]
  BY DEF Publish, Announced
<1> HIDE DEF p, told
<1>3. p = [outputs |-> s.outputs, enabled |-> s.enabled, powered |-> s.powered,
           mode |-> s.mode, scale |-> s.scale, rotated |-> s.rotated, at |-> s.at,
           laid |-> s.laid, scene |-> s.scene, full |-> s.full, focused |-> s.focused,
           config |-> s.config, keyed |-> s.keyed, locked |-> s.locked,
           blocker |-> s.blocker, published |-> told]
  BY <1>1, <1>2 DEF Whole
<1>4. /\ p = Whole(p) /\ Drawn(p, s) /\ p.published = told
      /\ p.powered = s.powered /\ p.config = s.config /\ p.keyed = s.keyed
  BY <1>3 DEF Whole, Drawn, Backend
<1>5. Base(p)
  BY <1>4, DrawnBase DEF Base
<1>6. Told(p)
  BY <1>4, DrawnSame DEF Told, told
<1> QED
  BY <1>4, <1>5, <1>6 DEF p, told

\* Clients were told what ManagerInformed says they are to be told.
LEMMA ToldIs ==
  ASSUME NEW s, Base(s)
  PROVE  Told(s) <=> s.published = Publish(s).published
BY PublishIs DEF Told

\* An operation that failed.
Kept(t, s) ==
  /\ \A o \in Listed(s) : Showing(t, o) = Showing(s, o)
  /\ t.config = s.config /\ t.powered = s.powered /\ t.published = s.published
  /\ s.focused \in s.enabled => t.focused = s.focused

\* The state an operation ends in.
Ends(end, s) ==
  /\ end = Outcome(end.state, end.kind)
  /\ end.kind \in {"failed", "refused", "done", "broken", "lost"}
  /\ Base(end.state) /\ end.state.outputs = s.outputs
  /\ end.state.focused \in Listed(s) \cup {NONE, s.focused}
  /\ Lit(s) /\ end.kind # "lost" => Lit(end.state)
  /\ Lit(s) /\ Told(s) /\ end.kind # "lost" => Told(end.state)
  /\ Lit(s) /\ Told(s) /\ end.kind \notin {"done", "lost"} => Kept(end.state, s)

\* What is shown of an output that is off.
LEMMA OffShowing ==
  ASSUME NEW s, NEW o, o \notin s.enabled, o \notin s.scene
  PROVE  Showing(s, o) = [on |-> FALSE, at |-> s.at[o], laid |-> s.laid[o], drawn |-> FALSE,
                          mode |-> <<>>]
<1> DEFINE on == o \in s.enabled
           drawn == o \in s.scene
           lit == <<s.mode[o], s.scale[o], o \in s.rotated, s.full[o]>>
<1>1. on = FALSE /\ drawn = FALSE
  OBVIOUS
<1>2. Showing(s, o) = [on |-> on, at |-> s.at[o], laid |-> s.laid[o], drawn |-> drawn,
                       mode |-> IF on THEN lit ELSE <<>>]
  BY DEF Showing
<1> HIDE DEF on, drawn, lit
<1> QED
  BY <1>1, <1>2

\* What is shown of outputs that are as they were.
LEMMA LitShowing ==
  ASSUME NEW s, Base(s), Lit(s), NEW t, Base(t), Lit(t), NEW o \in All,
         (o \in t.enabled) = (o \in s.enabled), t.at[o] = s.at[o],
         o \in s.enabled => Shown(t, o) = Shown(s, o)
  PROVE  Showing(t, o) = Showing(s, o)
<1>1. CASE o \in s.enabled
  <2>1. o \in t.enabled /\ o \in t.scene /\ o \in s.scene
    BY <1>1 DEF Lit
  <2>2. t.laid[o] = s.laid[o] /\ t.full[o] = s.full[o]
    BY <1>1, <2>1 DEF Lit
  <2>3. t.mode[o] = s.mode[o] /\ t.scale[o] = s.scale[o]
        /\ (o \in t.rotated) = (o \in s.rotated)
    <3>1. Shown(t, o) = Shown(s, o)
      BY <1>1
    <3>2. /\ Shown(t, o).mode = t.mode[o] /\ Shown(t, o).scale = t.scale[o]
          /\ Shown(t, o).rotated = (o \in t.rotated)
          /\ Shown(s, o).mode = s.mode[o] /\ Shown(s, o).scale = s.scale[o]
          /\ Shown(s, o).rotated = (o \in s.rotated)
      BY DEF Shown
    <3> QED
      BY <3>1, <3>2
  <2> DEFINE x == o \in t.rotated
             y == o \in s.rotated
  <2>4. Showing(t, o) = [on |-> TRUE, at |-> t.at[o], laid |-> t.laid[o], drawn |-> TRUE,
                         mode |-> <<t.mode[o], t.scale[o], x, t.full[o]>>]
    BY <2>1 DEF Showing
  <2>5. Showing(s, o) = [on |-> TRUE, at |-> s.at[o], laid |-> s.laid[o], drawn |-> TRUE,
                         mode |-> <<s.mode[o], s.scale[o], y, s.full[o]>>]
    BY <1>1, <2>1 DEF Showing
  <2>6. x = y
    BY <2>3
  <2> HIDE DEF x, y
  <2> QED
    BY <2>2, <2>3, <2>4, <2>5, <2>6
<1>2. CASE o \notin s.enabled
  <2>1. o \notin t.enabled /\ o \notin t.scene /\ o \notin s.scene
    BY <1>2 DEF Lit
  <2>2. t.laid[o] = Unplaced /\ s.laid[o] = Unplaced
    BY <1>2, <2>1 DEF Lit
  <2> QED
    BY <1>2, <2>1, <2>2, OffShowing
<1> QED
  BY <1>1, <1>2

\* What is told of outputs that are as they were.
LEMMA ShowingAnnounced ==
  ASSUME NEW s, NEW t, Listed(t) = Listed(s),
         \A o \in Listed(s) : Showing(t, o) = Showing(s, o)
  PROVE  Announced(t) = Announced(s)
<1>1. ASSUME NEW o \in Listed(s)
      PROVE  [enabled |-> o \in t.enabled, at |-> t.at[o],
              mode |-> IF o \in t.enabled THEN t.mode[o] ELSE NoMode]
             = [enabled |-> o \in s.enabled, at |-> s.at[o],
                mode |-> IF o \in s.enabled THEN s.mode[o] ELSE NoMode]
  <2>1. Showing(t, o) = Showing(s, o)
    OBVIOUS
  <2>2. /\ Showing(t, o).on = (o \in t.enabled) /\ Showing(t, o).at = t.at[o]
        /\ o \in t.enabled => Showing(t, o).mode[1] = t.mode[o]
        /\ Showing(s, o).on = (o \in s.enabled) /\ Showing(s, o).at = s.at[o]
        /\ o \in s.enabled => Showing(s, o).mode[1] = s.mode[o]
    BY DEF Showing
  <2> DEFINE x == o \in t.enabled
             y == o \in s.enabled
  <2>3. x = y /\ t.at[o] = s.at[o] /\ (y => t.mode[o] = s.mode[o])
    BY <2>1, <2>2
  <2> HIDE DEF x, y
  <2>4. [enabled |-> x, at |-> t.at[o], mode |-> IF x THEN t.mode[o] ELSE NoMode]
        = [enabled |-> y, at |-> s.at[o], mode |-> IF y THEN s.mode[o] ELSE NoMode]
    BY <2>3
  <2> QED
    BY <2>4 DEF x, y
<1> QED
  BY <1>1 DEF Announced

\* Clients are told right of outputs that are as they were.
LEMMA KeptTold ==
  ASSUME NEW s, Told(s), NEW t, Kept(t, s), t.outputs = s.outputs
  PROVE  Told(t)
<1>1. Announced(t) = Announced(s)
  BY ShowingAnnounced DEF Kept, Listed
<1> QED
  BY <1>1 DEF Told, Kept

\* What was as it is again.
LEMMA RestoredKept ==
  ASSUME NEW s, Base(s), Lit(s), NEW t, Base(t), Lit(t), Restored(t, s), Rest(t, s)
  PROVE  Kept(t, s)
<1>1. ASSUME NEW o \in Listed(s) PROVE Showing(t, o) = Showing(s, o)
  BY <1>1, ListedAll, LitShowing DEF Restored
<1> QED
  BY <1>1 DEF Kept, Restored, Rest

\* An operation that does nothing.
LEMMA NothingEnds ==
  ASSUME NEW s, Base(s), NEW kind \in {"failed", "refused", "done"}
  PROVE  Ends(Outcome(s, kind), s)
<1> DEFINE end == Outcome(s, kind)
<1>1. end.state = s /\ end.kind = kind /\ end = Outcome(end.state, end.kind)
  BY DEF Outcome
<1>2. Kept(s, s)
  BY DEF Kept
<1> HIDE DEF end
<1>3. end.kind \in {"failed", "refused", "done"} /\ s.focused \in Listed(s) \cup {NONE, s.focused}
  BY <1>1
<1>4. end.kind \in {"failed", "refused", "done", "broken", "lost"}
  BY <1>3
<1>5. Ends(end, s)
  BY <1>1, <1>2, <1>3, <1>4 DEF Ends
<1> QED
  BY <1>5 DEF end

\* A commit and what clients are told of it.
LEMMA CommitEnds ==
  ASSUME NEW s, Base(s), Fits(s), NEW heads, HeadsShape(s, heads),
         Fits(Switched(s, heads)), NEW e \in CommitAndReconcile(s, heads)
  PROVE  LET end == Published(e) IN
         /\ Ends(end, s) /\ Fits(end.state)
         /\ end.state.powered = s.powered /\ end.state.config = s.config
<1> DEFINE end == Published(e)
           u == e.state
<1>1. /\ e = Outcome(u, e.kind) /\ e.kind \in {"refused", "done", "broken", "lost"}
      /\ Base(u) /\ Rest(u, s) /\ Fits(u)
      /\ u.focused \in Listed(s) \cup {NONE, s.focused}
      /\ e.kind \in {"done", "broken"} => Lit(u)
      /\ e.kind = "refused" => u = s
      /\ e.kind = "broken" => Restored(u, s)
  BY CommitIs
<1>2. CASE e.kind = "done"
  <2>1. end = Outcome(Publish(u), "done")
    BY <1>1, <1>2 DEF Published, Outcome
  <2>2. end.state = Publish(u) /\ end.kind = "done" /\ end = Outcome(end.state, end.kind)
    BY <2>1 DEF Outcome
  <2>3. /\ Base(Publish(u)) /\ Drawn(Publish(u), u) /\ Told(Publish(u))
        /\ Publish(u).powered = u.powered /\ Publish(u).config = u.config
    BY <1>1, PublishIs
  <2>4. Lit(Publish(u)) /\ Fits(Publish(u))
    BY <1>1, <1>2, <2>3, DrawnSame
  <2>5. Publish(u).outputs = s.outputs /\ Publish(u).focused = u.focused
        /\ Publish(u).powered = s.powered /\ Publish(u).config = s.config
    BY <1>1, <2>3 DEF Drawn, Rest
  <2> HIDE DEF end, u
  <2> QED
    BY <1>1, <2>2, <2>3, <2>4, <2>5 DEF Ends, end
<1>3. CASE e.kind # "done"
  <2>1. end = e
    BY <1>3 DEF Published
  <2>2. Lit(s) /\ e.kind # "lost" => Lit(u)
    BY <1>1, <1>3
  <2>3. Lit(s) /\ e.kind # "lost" => Kept(u, s)
    <3>1. CASE e.kind = "refused"
      BY <1>1, <3>1 DEF Kept
    <3>2. CASE e.kind = "broken"
      BY <1>1, <3>2, RestoredKept
    <3> QED
      BY <1>1, <1>3, <3>1, <3>2
  <2>4. Lit(s) /\ Told(s) /\ e.kind # "lost" => Told(u)
    BY <1>1, <2>3, KeptTold DEF Rest
  <2>5. u.outputs = s.outputs /\ u.powered = s.powered /\ u.config = s.config
    BY <1>1 DEF Rest
  <2> HIDE DEF end, u
  <2>6. Ends(e, s)
    BY <1>1, <2>2, <2>3, <2>4, <2>5 DEF Ends, u
  <2> QED
    BY <1>1, <2>1, <2>5, <2>6 DEF u, end
<1> QED
  BY <1>2, <1>3

\* leme_output_apply_config
LEMMA ApplyIs ==
  ASSUME NEW s, Base(s), Fits(s), NEW config, Known(config), NEW startup,
         NEW end \in ApplyConfig(s, config, startup)
  PROVE  /\ Ends(end, s) /\ Fits(end.state)
         /\ end.state.powered = s.powered /\ end.state.config = s.config
<1>1. \/ end = Outcome(s, "failed") \/ end = Outcome(s, "done")
      \/ \E heads \in BuildPersistent(s, config, startup) :
           \E e \in CommitAndReconcile(s, heads) : end = Published(e)
  BY DEF ApplyConfig
<1>2. ASSUME NEW kind \in {"failed", "done"}, end = Outcome(s, kind)
      PROVE  /\ Ends(end, s) /\ Fits(end.state)
             /\ end.state.powered = s.powered /\ end.state.config = s.config
  <2>1. end.state = s
    BY <1>2 DEF Outcome
  <2>2. kind \in {"failed", "refused", "done"}
    BY <1>2
  <2> QED
    BY <1>2, <2>1, <2>2, NothingEnds
<1>3. ASSUME NEW heads \in BuildPersistent(s, config, startup),
             NEW e \in CommitAndReconcile(s, heads), end = Published(e)
      PROVE  /\ Ends(end, s) /\ Fits(end.state)
             /\ end.state.powered = s.powered /\ end.state.config = s.config
  <2>1. heads \in Plans(s, config, startup, s.powered) /\ ~HeadsOverlap(heads)
    BY DEF BuildPersistent
  <2>2. /\ DOMAIN heads = Listed(s)
        /\ \A o \in Listed(s) : PlannedHead(heads[o], o)
    BY <2>1, PlansShape
  <2>3. HeadsShape(s, heads)
    BY <2>2 DEF HeadsShape, PlannedHead, HeadShape
  <2>4. Fits(Switched(s, heads))
    BY <2>1, <2>2, <2>3, PlannedFits DEF PlannedHead
  <2> QED
    BY <1>3, <2>3, <2>4, CommitEnds
<1> QED
  BY <1>1, <1>2, <1>3

-----------------------------------------------------------------------------
(* Connectors that come and go                                             *)

\* Lit but for the focus.
Shining(s) ==
  /\ s.scene = s.enabled
  /\ \A o \in All : s.laid[o] = IF o \in s.enabled THEN s.at[o] ELSE Unplaced
  /\ \A o \in s.enabled : s.full[o] = Spot(Shown(s, o))
  /\ s.locked => \A o \in s.enabled : Within(Spot(Shown(s, o)), s.blocker)
  /\ Fits(s)

LEMMA LitShining ==
  ASSUME NEW s
  PROVE  Lit(s) <=> Shining(s) /\ (s.enabled # {} => s.focused \in s.enabled)
BY DEF Lit, Shining

\* A session that shows some of what another does.
Dimmed(t, s) ==
  /\ t.enabled \subseteq s.enabled /\ t.locked = s.locked /\ t.blocker = s.blocker
  /\ \A o \in s.enabled \cap t.enabled : Shown(t, o) = Shown(s, o)

LEMMA DimmedFits ==
  ASSUME NEW s, NEW t, Dimmed(t, s)
  PROVE  /\ Fits(s) => Fits(t)
         /\ Shining(s) => /\ t.locked => \A o \in t.enabled : Within(Spot(Shown(t, o)), t.blocker)
                          /\ Fits(t)
<1>1. \A o \in t.enabled : o \in s.enabled /\ Shown(t, o) = Shown(s, o)
  BY DEF Dimmed
<1>2. Fits(s) => Fits(t)
  BY <1>1 DEF Fits
<1> QED
  BY <1>1, <1>2 DEF Dimmed, Shining

\* leme_output_handle_new up to the configuration of all outputs
LEMMA ConnectedIs ==
  ASSUME NEW s, Base(s), NEW o \in All \ Listed(s)
  PROVE  LET c == Connected(s, o) IN
         /\ Base(c) /\ Listed(c) = Listed(s) \cup {o}
         /\ Fits(s) => Fits(c)
         /\ Lit(s) => Lit(c)
         /\ c.config = s.config /\ c.focused = s.focused
<1> DEFINE c == Connected(s, o)
           outputs == Append(s.outputs, o)
           powered == s.powered \cup {o}
           first == IF Modes[o] = <<>> THEN NativeSize ELSE NoMode
           mode == [s.mode EXCEPT ![o] = first]
           scale == [s.scale EXCEPT ![o] = 2]
           at == [s.at EXCEPT ![o] = <<0, 0>>]
           full == [s.full EXCEPT ![o] = Box(<<0, 0>>, NoSize)]
<1>1. s = Whole(s)
  BY DEF Base
<1>2. c = [s EXCEPT !.outputs = outputs, !.powered = powered, !.mode = mode,
                    !.scale = scale, !.at = at, !.full = full]
  BY DEF Connected
<1> HIDE DEF c, outputs, powered, mode, scale, at, full
<1>3. c = [outputs |-> outputs, enabled |-> s.enabled, powered |-> powered,
           mode |-> mode, scale |-> scale, rotated |-> s.rotated, at |-> at,
           laid |-> s.laid, scene |-> s.scene, full |-> full, focused |-> s.focused,
           config |-> s.config, keyed |-> s.keyed, locked |-> s.locked,
           blocker |-> s.blocker, published |-> s.published]
  BY <1>1, <1>2 DEF Whole
<1>4. /\ c.outputs = outputs /\ c.enabled = s.enabled /\ c.powered = powered
      /\ c.mode = mode /\ c.scale = scale /\ c.rotated = s.rotated /\ c.at = at
      /\ c.laid = s.laid /\ c.scene = s.scene /\ c.full = full
      /\ c.focused = s.focused /\ c.config = s.config /\ c.locked = s.locked
      /\ c.blocker = s.blocker
  BY <1>3
<1>5. c = Whole(c)
  BY <1>3, <1>4 DEF Whole
<1>6. s.outputs \in Seq(All) /\ Distinct(s.outputs) /\ o \in All /\ o \notin Listed(s)
  BY DEF Base
<1>7. outputs \in Seq(All) /\ Distinct(outputs) /\ Listed(c) = Listed(s) \cup {o}
  BY <1>4, <1>6, AppendElements DEF outputs, Listed
<1>8. /\ s.enabled \subseteq Listed(s) /\ s.powered \subseteq Listed(s)
      /\ s.scene \subseteq Listed(s) /\ s.rotated \subseteq Listed(s)
      /\ \A p \in All : s.laid[p] # Unplaced => p \in Listed(s)
      /\ s.laid \in [All -> {Unplaced} \cup Places]
      /\ s.focused \in All \cup {NONE} /\ Known(s.config)
  BY DEF Base
<1>9. /\ mode = [p \in All |-> mode[p]]
      /\ \A p \in All : mode[p] = IF p = o THEN first ELSE s.mode[p]
      /\ \A p \in All : mode[p] \in Sizes(p)
  <2>1. s.mode = [p \in All |-> s.mode[p]] /\ \A p \in All : s.mode[p] \in Sizes(p)
    BY DEF Base
  <2>2. first \in Sizes(o)
    BY DEF Sizes
  <2> HIDE DEF first
  <2>3. mode = [p \in All |-> IF p = o THEN first ELSE s.mode[p]]
    BY <2>1 DEF mode
  <2> QED
    BY <2>1, <2>2, <2>3
<1>10. /\ scale \in [All -> Scales]
       /\ \A p \in All : p # o => scale[p] = s.scale[p]
  <2>1. s.scale \in [All -> Scales] /\ 2 \in Scales
    BY DEF Base, Scales
  <2> QED
    BY <2>1 DEF scale
<1>11. /\ at \in [All -> Places]
       /\ \A p \in All : p # o => at[p] = s.at[p]
  <2>1. s.at \in [All -> Places]
    BY DEF Base
  <2>2. <<0, 0>> \in Places
    BY IntMaxAssumption DEF Places, IntMin
  <2> QED
    BY <2>1, <2>2 DEF at
<1>12. /\ full = [p \in All |-> full[p]]
       /\ \A p \in All : p # o => full[p] = s.full[p]
  <2>1. s.full = [p \in All |-> s.full[p]]
    BY DEF Base
  <2> DEFINE box == Box(<<0, 0>>, NoSize)
  <2>2. full = [s.full EXCEPT ![o] = box]
    BY DEF full
  <2> HIDE DEF box
  <2>3. full = [p \in All |-> IF p = o THEN box ELSE s.full[p]]
    BY <2>1, <2>2
  <2> QED
    BY <2>3
<1>13. Base(c)
  BY <1>4, <1>5, <1>7, <1>8, <1>9, <1>10, <1>11, <1>12 DEF Base, powered
<1>14. \A p \in s.enabled : p # o /\ p \in All
  BY <1>6, <1>8, ListedAll
<1>15. \A p \in s.enabled : Shown(c, p) = Shown(s, p)
  BY <1>4, <1>9, <1>10, <1>11, <1>14 DEF Shown
<1>16. Dimmed(c, s)
  BY <1>4, <1>15 DEF Dimmed
<1>17. Fits(s) => Fits(c)
  BY <1>16, DimmedFits
<1>18. Lit(s) => Lit(c)
  <2> SUFFICES ASSUME Lit(s) PROVE Lit(c)
    OBVIOUS
  <2>1. Shining(s)
    BY LitShining
  <2>2. c.locked => \A p \in c.enabled : Within(Spot(Shown(c, p)), c.blocker)
    BY <1>16, <2>1, DimmedFits
  <2>3. \A p \in All : c.laid[p] = IF p \in c.enabled THEN c.at[p] ELSE Unplaced
    BY <1>4, <1>11, <1>14 DEF Lit
  <2>4. \A p \in c.enabled : c.full[p] = Spot(Shown(c, p))
    BY <1>4, <1>12, <1>14, <1>15 DEF Lit
  <2> QED
    BY <1>4, <1>17, <2>2, <2>3, <2>4 DEF Lit
<1> QED
  BY <1>4, <1>7, <1>13, <1>17, <1>18 DEF c

\* leme_output_handle_destroy up to the fallback
LEMMA GoneIs ==
  ASSUME NEW s, Base(s), NEW o \in All
  PROVE  LET g == Gone(s, o) IN
         /\ Base(g) /\ Listed(g) = Listed(s) \ {o}
         /\ Fits(s) => Fits(g)
         /\ Shining(s) => Shining(g)
         /\ Told(s) => Told(g)
         /\ g.enabled = s.enabled \ {o}
         /\ g.config = s.config /\ g.focused = s.focused
<1> DEFINE g == Gone(s, o)
           outputs == Without(s.outputs, o)
           mode == [s.mode EXCEPT ![o] = NoMode]
           at == [s.at EXCEPT ![o] = <<0, 0>>]
           laid == [s.laid EXCEPT ![o] = Unplaced]
           full == [s.full EXCEPT ![o] = Box(<<0, 0>>, NoSize)]
           published == [p \in DOMAIN s.published \ {o} |-> s.published[p]]
<1>1. s = Whole(s)
  BY DEF Base
<1>2. g = [s EXCEPT !.outputs = outputs, !.enabled = s.enabled \ {o},
                    !.powered = s.powered \ {o}, !.scene = s.scene \ {o}, !.laid = laid,
                    !.rotated = s.rotated \ {o}, !.mode = mode, !.at = at, !.full = full,
                    !.published = published]
  BY DEF Gone
<1> HIDE DEF g, outputs, mode, at, laid, full, published
<1>3. g = [outputs |-> outputs, enabled |-> s.enabled \ {o}, powered |-> s.powered \ {o},
           mode |-> mode, scale |-> s.scale, rotated |-> s.rotated \ {o}, at |-> at,
           laid |-> laid, scene |-> s.scene \ {o}, full |-> full, focused |-> s.focused,
           config |-> s.config, keyed |-> s.keyed, locked |-> s.locked,
           blocker |-> s.blocker, published |-> published]
  BY <1>1, <1>2 DEF Whole
<1>4. /\ g.outputs = outputs /\ g.enabled = s.enabled \ {o} /\ g.powered = s.powered \ {o}
      /\ g.mode = mode /\ g.scale = s.scale /\ g.rotated = s.rotated \ {o} /\ g.at = at
      /\ g.laid = laid /\ g.scene = s.scene \ {o} /\ g.full = full
      /\ g.focused = s.focused /\ g.config = s.config /\ g.locked = s.locked
      /\ g.blocker = s.blocker /\ g.published = published
  BY <1>3
<1>5. g = Whole(g)
  BY <1>3, <1>4 DEF Whole
<1>6. s.outputs \in Seq(All) /\ Distinct(s.outputs)
  BY DEF Base
<1>7. outputs \in Seq(All) /\ Distinct(outputs) /\ Listed(g) = Listed(s) \ {o}
  BY <1>4, <1>6, WithoutElements DEF outputs, Listed
<1>8. /\ s.enabled \subseteq Listed(s) /\ s.powered \subseteq Listed(s)
      /\ s.scene \subseteq Listed(s) /\ s.rotated \subseteq Listed(s)
      /\ \A p \in All : s.laid[p] # Unplaced => p \in Listed(s)
      /\ s.laid \in [All -> {Unplaced} \cup Places] /\ s.scale \in [All -> Scales]
      /\ s.focused \in All \cup {NONE} /\ Known(s.config)
  BY DEF Base
<1>9. /\ mode = [p \in All |-> mode[p]]
      /\ \A p \in All : p # o => mode[p] = s.mode[p]
      /\ \A p \in All : mode[p] \in Sizes(p)
  <2>1. s.mode = [p \in All |-> s.mode[p]] /\ \A p \in All : s.mode[p] \in Sizes(p)
    BY DEF Base
  <2>2. NoMode \in Sizes(o)
    BY DEF Sizes
  <2>3. mode = [p \in All |-> IF p = o THEN NoMode ELSE s.mode[p]]
    BY <2>1 DEF mode
  <2> QED
    BY <2>1, <2>2, <2>3
<1>10. /\ at \in [All -> Places]
       /\ \A p \in All : p # o => at[p] = s.at[p]
  <2>1. s.at \in [All -> Places]
    BY DEF Base
  <2>2. <<0, 0>> \in Places
    BY IntMaxAssumption DEF Places, IntMin
  <2> QED
    BY <2>1, <2>2 DEF at
<1>11. /\ laid \in [All -> {Unplaced} \cup Places]
       /\ \A p \in All : laid[p] = IF p = o THEN Unplaced ELSE s.laid[p]
  BY <1>8 DEF laid
<1>12. /\ full = [p \in All |-> full[p]]
       /\ \A p \in All : p # o => full[p] = s.full[p]
  <2>1. s.full = [p \in All |-> s.full[p]]
    BY DEF Base
  <2> DEFINE box == Box(<<0, 0>>, NoSize)
  <2>2. full = [s.full EXCEPT ![o] = box]
    BY DEF full
  <2> HIDE DEF box
  <2>3. full = [p \in All |-> IF p = o THEN box ELSE s.full[p]]
    BY <2>1, <2>2
  <2> QED
    BY <2>3
<1>13. Base(g)
  BY <1>4, <1>5, <1>7, <1>8, <1>9, <1>10, <1>11, <1>12 DEF Base
<1>14. Listed(s) \subseteq All
  BY ListedAll
<1>15. ASSUME NEW p \in s.enabled \ {o} PROVE Shown(g, p) = Shown(s, p)
  <2> DEFINE x == p \in g.rotated
             y == p \in s.rotated
  <2>1. x = y
    BY <1>4, <1>15
  <2>2. Shown(g, p) = [at |-> g.at[p], mode |-> g.mode[p], scale |-> g.scale[p], rotated |-> x]
    BY DEF Shown
  <2>3. Shown(s, p) = [at |-> s.at[p], mode |-> s.mode[p], scale |-> s.scale[p], rotated |-> y]
    BY DEF Shown
  <2> HIDE DEF x, y
  <2> QED
    BY <1>4, <1>8, <1>9, <1>10, <1>14, <1>15, <2>1, <2>2, <2>3
<1>16. Dimmed(g, s)
  BY <1>4, <1>15 DEF Dimmed
<1>17. Fits(s) => Fits(g)
  BY <1>16, DimmedFits
<1>18. Shining(s) => Shining(g)
  <2> SUFFICES ASSUME Shining(s) PROVE Shining(g)
    OBVIOUS
  <2>1. g.locked => \A p \in g.enabled : Within(Spot(Shown(g, p)), g.blocker)
    BY <1>16, DimmedFits
  <2>2. \A p \in All : g.laid[p] = IF p \in g.enabled THEN g.at[p] ELSE Unplaced
    BY <1>4, <1>10, <1>11 DEF Shining
  <2>3. \A p \in g.enabled : g.full[p] = Spot(Shown(g, p))
    BY <1>4, <1>8, <1>12, <1>14, <1>15 DEF Shining
  <2> QED
    BY <1>4, <1>17, <2>1, <2>2, <2>3 DEF Shining
<1>19. Told(s) => Told(g)
  <2> SUFFICES ASSUME Told(s) PROVE Told(g)
    OBVIOUS
  <2>1. /\ DOMAIN s.published = Listed(s)
        /\ \A p \in Listed(s) : s.published[p] =
             [enabled |-> p \in s.enabled, at |-> s.at[p],
              mode |-> IF p \in s.enabled THEN s.mode[p] ELSE NoMode]
    BY DEF Told, Announced
  <2>2. ASSUME NEW p \in Listed(s) \ {o}
        PROVE  s.published[p] = [enabled |-> p \in g.enabled, at |-> g.at[p],
                                 mode |-> IF p \in g.enabled THEN g.mode[p] ELSE NoMode]
    <3> DEFINE x == p \in g.enabled
               y == p \in s.enabled
    <3>1. x = y
      BY <1>4, <2>2
    <3>2. s.published[p] = [enabled |-> y, at |-> s.at[p],
                            mode |-> IF y THEN s.mode[p] ELSE NoMode]
      BY <2>1, <2>2
    <3>3. g.at[p] = s.at[p] /\ g.mode[p] = s.mode[p]
      BY <1>4, <1>9, <1>10, <1>14, <2>2
    <3> HIDE DEF x, y
    <3>4. s.published[p] = [enabled |-> x, at |-> g.at[p],
                            mode |-> IF x THEN g.mode[p] ELSE NoMode]
      BY <3>1, <3>2, <3>3
    <3> QED
      BY <3>4 DEF x
  <2>3. published = [p \in Listed(s) \ {o} |-> s.published[p]]
    BY <2>1 DEF published
  <2> QED
    BY <1>4, <1>7, <2>2, <2>3 DEF Told, Announced
<1> QED
  BY <1>4, <1>7, <1>13, <1>17, <1>18, <1>19 DEF g

\* The focus is on an output there is, or on none.
Aimed(s) == s.focused \in Listed(s) \cup {NONE}

LEMMA ListedNone ==
  ASSUME NEW s, s.outputs \in Seq(All)
  PROVE  s.outputs = <<>> <=> Listed(s) = {}
<1>1. DOMAIN s.outputs = 1..Len(s.outputs) /\ Len(s.outputs) \in Nat
  OBVIOUS
<1>2. s.outputs # <<>> => 1 \in DOMAIN s.outputs
  BY <1>1
<1>3. s.outputs = <<>> => DOMAIN s.outputs = {}
  OBVIOUS
<1> QED
  BY <1>2, <1>3 DEF Listed, Elements

\* leme_output_ensure_fallback
LEMMA EnsureIs ==
  ASSUME NEW s, Base(s), Listed(s) = {}, NEW r \in EnsureFallback(s)
  PROVE  /\ Base(r) /\ Fits(r) /\ Told(r) /\ Listed(r) = {Fallback}
         /\ Lit(s) => Lit(r)
         /\ r.focused \in {Fallback, NONE, s.focused}
         /\ r.config = s.config
<1> DEFINE c == Connected(s, Fallback)
<1>1. PICK end \in ApplyConfig(c, c.config, TRUE) :
        end.kind \notin Faults /\ r = Publish(end.state)
  BY DEF EnsureFallback
<1>2. /\ Base(c) /\ Listed(c) = {Fallback}
      /\ Fits(s) => Fits(c)
      /\ Lit(s) => Lit(c)
      /\ c.config = s.config /\ c.focused = s.focused
  BY ConnectedIs DEF All
<1>3. Fits(c)
  <2>1. s.enabled = {}
    BY DEF Base
  <2> QED
    BY <1>2, <2>1 DEF Fits
<1> HIDE DEF c
<1>4. Base(c) /\ Listed(c) = {Fallback} /\ Known(c.config)
  BY <1>2 DEF Base
<1>5. Ends(end, c) /\ Fits(end.state) /\ end.state.config = c.config
  BY <1>3, <1>4, ApplyIs, ZenonT(90)
<1>6. end.kind # "lost" /\ Base(end.state) /\ Listed(end.state) = Listed(c)
  BY <1>1, <1>5 DEF Faults, Ends, Listed
<1>7. /\ Base(r) /\ Drawn(r, end.state) /\ Told(r) /\ r.config = end.state.config
  BY <1>1, <1>6, PublishIs
<1>8. Listed(r) = {Fallback} /\ Fits(r) /\ (Lit(s) => Lit(r))
  BY <1>2, <1>4, <1>5, <1>6, <1>7, DrawnSame DEF Ends
<1>9. r.focused \in {Fallback, NONE, s.focused}
  BY <1>2, <1>4, <1>5, <1>7 DEF Ends, Drawn
<1> QED
  BY <1>2, <1>5, <1>7, <1>8, <1>9

\* The focus of an output that goes away passes on, and the cover follows.
Passed(s) == [s EXCEPT !.focused = Surviving(s), !.blocker = LayoutBox(s)]

LEMMA PassedIs ==
  ASSUME NEW s, Base(s), Fits(s)
  PROVE  LET t == Passed(s) IN
         /\ Base(t) /\ Fits(t) /\ Listed(t) = Listed(s) /\ Aimed(t)
         /\ Shining(s) => Lit(t)
         /\ Told(s) => Told(t)
         /\ t.config = s.config
<1> DEFINE t == Passed(s)
           focused == Surviving(s)
           blocker == LayoutBox(s)
<1>1. s = Whole(s)
  BY DEF Base
<1>2. t = [s EXCEPT !.focused = focused, !.blocker = blocker]
  BY DEF Passed
<1> HIDE DEF t, focused, blocker
<1>3. t = [outputs |-> s.outputs, enabled |-> s.enabled, powered |-> s.powered,
           mode |-> s.mode, scale |-> s.scale, rotated |-> s.rotated, at |-> s.at,
           laid |-> s.laid, scene |-> s.scene, full |-> s.full, focused |-> focused,
           config |-> s.config, keyed |-> s.keyed, locked |-> s.locked,
           blocker |-> blocker, published |-> s.published]
  BY <1>1, <1>2 DEF Whole
<1>4. /\ t.outputs = s.outputs /\ t.laid = s.laid /\ t.scene = s.scene /\ t.full = s.full
      /\ t.focused = focused /\ t.config = s.config /\ t.locked = s.locked
      /\ t.blocker = blocker /\ t.published = s.published /\ t.powered = s.powered
      /\ Backend(t, s) /\ t = Whole(t)
  BY <1>3 DEF Whole, Backend
<1>5. Listed(t) = Listed(s) /\ s.outputs \in Seq(All) /\ s.enabled \subseteq Listed(s)
      /\ Listed(s) \subseteq All
  BY <1>4, ListedAll DEF Listed, Base
<1>6. /\ focused \in Listed(s) \cup {NONE}
      /\ s.enabled # {} => focused \in s.enabled
  <2>1. CASE s.enabled # {}
    <3>1. s.enabled \cap Listed(s) # {}
      BY <1>5, <2>1
    <3>2. FirstOf(s, s.enabled) \in s.enabled
      BY <1>5, <3>1, FirstOfIs
    <3> QED
      BY <1>5, <2>1, <3>2 DEF focused, Surviving
  <2>2. CASE s.enabled = {}
    <3>1. FirstOf(s, Listed(s)) \in Listed(s) \cup {NONE}
      BY <1>5, FirstOfIs
    <3> QED
      BY <2>2, <3>1 DEF focused, Surviving
  <2> QED
    BY <2>1, <2>2
<1>7. Base(t)
  BY <1>4, <1>5, <1>6 DEF Base, Backend
<1>8. Fits(t) /\ \A o : Shown(t, o) = Shown(s, o)
  BY <1>4, BackendShown
<1>9. Aimed(t)
  BY <1>4, <1>5, <1>6 DEF Aimed
<1>10. Shining(s) => Lit(t)
  <2> SUFFICES ASSUME Shining(s) PROVE Lit(t)
    OBVIOUS
  <2>1. \A o \in s.enabled : Within(Spot(Shown(s, o)), blocker)
    BY <1>5, LayoutCovers DEF Shining, blocker
  <2> QED
    BY <1>4, <1>6, <1>8, <2>1 DEF Lit, Shining, Backend
<1>11. Told(s) => Told(t)
  BY <1>4, <1>5 DEF Told, Announced, Backend
<1> QED
  BY <1>4, <1>5, <1>7, <1>8, <1>9, <1>10, <1>11 DEF t

\* leme_output_handle_destroy
LEMMA DestroyIs ==
  ASSUME NEW s, Base(s), Fits(s), Aimed(s), NEW o \in Listed(s), NEW end \in Destroy(s, o)
  PROVE  /\ end.kind \in {"failed", "refused", "done", "broken", "lost"}
         /\ Base(end.state) /\ Aimed(end.state)
         /\ Listed(end.state) = IF Listed(s) = {o} THEN {Fallback} ELSE Listed(s) \ {o}
         /\ Lit(s) /\ end.kind # "lost" => Lit(end.state)
         /\ Lit(s) /\ Told(s) /\ end.kind # "lost" => Told(end.state)
         /\ end.state.config = s.config
<1> DEFINE alone == Gone(s, o)
<1>1. PICK rest \in (IF alone.outputs = <<>> THEN EnsureFallback(alone) ELSE {alone}) :
        \E t \in {IF s.focused # o THEN rest ELSE Passed(rest)} :
          end \in ApplyConfig(t, t.config, TRUE)
  BY DEF Destroy, Passed
<1>2. end \in (IF s.focused # o THEN ApplyConfig(rest, rest.config, TRUE)
               ELSE ApplyConfig(Passed(rest), Passed(rest).config, TRUE))
  BY <1>1
<1>3. /\ Base(alone) /\ Listed(alone) = Listed(s) \ {o} /\ Fits(alone)
      /\ Shining(s) => Shining(alone)
      /\ Told(s) => Told(alone)
      /\ alone.enabled = s.enabled \ {o}
      /\ alone.config = s.config /\ alone.focused = s.focused
  BY GoneIs, ListedAll
<1> HIDE DEF alone
<1>4. alone.outputs = <<>> <=> Listed(alone) = {}
  BY <1>3, ListedNone DEF Base
<1>5. /\ Base(rest) /\ Fits(rest) /\ rest.config = s.config
      /\ Listed(rest) = IF Listed(s) = {o} THEN {Fallback} ELSE Listed(s) \ {o}
      /\ Shining(s) => Shining(rest)
      /\ Told(s) => Told(rest)
      /\ s.focused # o => Aimed(rest)
      /\ Lit(s) /\ s.focused # o => Lit(rest)
  <2>1. CASE alone.outputs = <<>>
    <3>1. rest \in EnsureFallback(alone) /\ Listed(alone) = {} /\ Listed(s) = {o}
      BY <1>1, <1>3, <1>4, <2>1
    <3>2. alone.enabled = {}
      BY <1>3, <3>1 DEF Base
    <3>3. Shining(alone) => Lit(alone)
      BY <3>2, LitShining
    <3>4. /\ Base(rest) /\ Fits(rest) /\ Told(rest) /\ Listed(rest) = {Fallback}
          /\ Lit(alone) => Lit(rest)
          /\ rest.focused \in {Fallback, NONE, s.focused}
          /\ rest.config = s.config
      BY <1>3, <3>1, EnsureIs
    <3>5. s.focused # o => s.focused = NONE
      BY <3>1 DEF Aimed
    <3> QED
      BY <1>3, <3>1, <3>3, <3>4, <3>5, LitShining DEF Aimed
  <2>2. CASE alone.outputs # <<>>
    <3>1. rest = alone /\ Listed(s) # {o}
      BY <1>1, <1>3, <1>4, <2>2
    <3>2. s.focused # o => Aimed(alone)
      BY <1>3 DEF Aimed
    <3>3. Lit(s) /\ s.focused # o => Lit(alone)
      BY <1>3, LitShining
    <3> QED
      BY <1>3, <3>1, <3>2, <3>3
  <2> QED
    BY <2>1, <2>2
<1> DEFINE t == IF s.focused # o THEN rest ELSE Passed(rest)
<1>6. /\ Base(t) /\ Fits(t) /\ Aimed(t) /\ Listed(t) = Listed(rest) /\ t.config = s.config
      /\ Lit(s) => Lit(t)
      /\ Told(s) => Told(t)
  BY <1>5, PassedIs, LitShining
<1>7. end \in ApplyConfig(t, t.config, TRUE)
  BY <1>2
<1> HIDE DEF t
<1>8. Base(t) /\ Fits(t) /\ Known(t.config)
  BY <1>6 DEF Base
<1>9. Ends(end, t) /\ end.state.config = t.config
  BY <1>7, <1>8, ApplyIs, ZenonT(90)
<1>10. Listed(end.state) = Listed(t)
  BY <1>9 DEF Ends, Listed
<1>11. Aimed(end.state)
  BY <1>6, <1>9, <1>10 DEF Ends, Aimed
<1> QED
  BY <1>5, <1>6, <1>9, <1>10, <1>11 DEF Ends

\* leme_output_retire_fallback
LEMMA RetireIs ==
  ASSUME NEW s, Base(s), Fits(s), Aimed(s), Listed(s) # {Fallback}, NEW first,
         RetireFallback(s, first)
  PROVE  \E before, kind, r :
           /\ FinishAfter("plug", before, kind, r) /\ first \in {before, kind}
           /\ Lit(s) /\ "lost" \notin {before, kind} => Lit(r)
           /\ Lit(s) /\ Told(s) /\ "lost" \notin {before, kind} => Told(r)
           /\ Base(r) /\ Aimed(r) /\ Listed(r) = Listed(s) \ {Fallback}
           /\ r.config = s.config
<1>1. CASE Fallback \notin Listed(s)
  <2>1. FinishAfter("plug", "done", first, s)
    BY <1>1 DEF RetireFallback, Finish
  <2>2. Listed(s) = Listed(s) \ {Fallback}
    BY <1>1
  <2> QED
    BY <2>1, <2>2
<1>2. CASE Fallback \in Listed(s)
  <2>1. PICK end \in Destroy(s, Fallback) : FinishAfter("plug", first, end.kind, end.state)
    BY <1>2 DEF RetireFallback
  <2>2. /\ Base(end.state) /\ Aimed(end.state)
        /\ Listed(end.state) = Listed(s) \ {Fallback}
        /\ Lit(s) /\ end.kind # "lost" => Lit(end.state)
        /\ Lit(s) /\ Told(s) /\ end.kind # "lost" => Told(end.state)
        /\ end.state.config = s.config
    BY <1>2, DestroyIs
  <2> QED
    BY <2>1, <2>2
<1> QED
  BY <1>1, <1>2

-----------------------------------------------------------------------------
(* Clients of the output manager, and the power                            *)

\* The box of an output that is on is no larger than itself.
LEMMA OwnSmaller ==
  ASSUME NEW s, Base(s), NEW o \in All, HasEdges(Spot(Shown(s, o)))
  PROVE  Smaller(Spot(Shown(s, o)), Spot(Shown(s, o)))
<1> DEFINE b == Spot(Shown(s, o))
<1>1. {b.x, b.y, b.width, b.height} \subseteq Int /\ IntMin <= b.x /\ IntMin <= b.y
  BY SpotInts
<1>2. b.width > 0 /\ b.height > 0
  BY DEF HasEdges
<1> HIDE DEF b
<1>3. Smaller(b, b)
  BY <1>1, <1>2 DEF Smaller
<1> QED
  BY <1>3 DEF b

\* A commit leaves outputs that it says nothing of as they are shown.
LEMMA OtherShown ==
  ASSUME NEW s, Base(s), NEW heads, HeadsShape(s, heads), NEW o \in All \ DOMAIN heads
  PROVE  Shown(Switched(s, heads), o) = Shown(s, o)
<1> DEFINE t == Switched(s, heads)
           on == Lighted(heads)
           x == o \in t.rotated
           y == o \in s.rotated
<1>1. /\ t.rotated = (s.rotated \ on) \cup {p \in on : heads[p].rotated}
      /\ t.at[o] = IF o \in DOMAIN heads THEN heads[o].at ELSE s.at[o]
      /\ t.mode[o] = IF o \in on THEN heads[o].mode ELSE s.mode[o]
      /\ t.scale[o] = IF o \in on THEN heads[o].scale ELSE s.scale[o]
  BY SwitchedIs
<1>2. o \notin on
  BY DEF Lighted
<1> HIDE DEF t, on
<1>3. x = y
  BY <1>1, <1>2
<1>4. t.at[o] = s.at[o] /\ t.mode[o] = s.mode[o] /\ t.scale[o] = s.scale[o]
  BY <1>1, <1>2
<1>5. Shown(t, o) = [at |-> t.at[o], mode |-> t.mode[o], scale |-> t.scale[o], rotated |-> x]
  BY DEF Shown
<1>6. Shown(s, o) = [at |-> s.at[o], mode |-> s.mode[o], scale |-> s.scale[o], rotated |-> y]
  BY DEF Shown
<1> HIDE DEF x, y
<1> QED
  BY <1>3, <1>4, <1>5, <1>6 DEF t

\* leme_output_request_valid: what it lets through fits.
LEMMA RequestFits ==
  ASSUME NEW s, Base(s), Lit(s), NEW a \in Scenarios,
         NEW request, DOMAIN request \subseteq Listed(s),
         \A o \in DOMAIN request : request[o] \in a.heads,
         RequestValid(s, request)
  PROVE  HeadsShape(s, request) /\ Fits(Switched(s, request))
<1> DEFINE t == Switched(s, request)
           on == Lighted(request)
<1>1. ASSUME NEW o \in DOMAIN request, request[o].enabled
      PROVE  HeadShape(request[o]) /\ request[o].mode \in Sizes(o)
  <2>1. PICK i \in DOMAIN Modes[o] : Modes[o][i] = request[o].mode
    BY <1>1 DEF RequestValid
  <2>2. /\ request[o].mode \in ModeShape /\ request[o].scale \in Scales
        /\ request[o].rotated \in BOOLEAN /\ request[o].at \in Places
    BY ScenariosAssumption
  <2>3. o \in All
    BY ListedAll
  <2>4. Fitting(Modes[o][i], request[o].scale)
    BY <2>3, SizesAssumption
  <2> QED
    BY <2>1, <2>2, <2>4 DEF HeadShape, Sizes
<1>2. HeadsShape(s, request)
  <2>1. \A o \in DOMAIN request : request[o].at \in Places /\ request[o].enabled \in BOOLEAN
    BY ScenariosAssumption
  <2> QED
    BY <1>1, <2>1 DEF HeadsShape, HeadShape
<1>3. t.enabled = (s.enabled \ DOMAIN request) \cup on
  BY <1>2, SwitchedIs
<1> HIDE DEF t
<1>4. t.enabled = On(s, request)
  <2>1. s.enabled \subseteq Listed(s)
    BY DEF Base
  <2> QED
    BY <1>3, <2>1 DEF On, Lighted
<1>5. ASSUME NEW o \in t.enabled
      PROVE  Smaller(Spot(Shown(t, o)), RequestBox(s, request, o))
  <2>1. HasEdges(RequestBox(s, request, o))
    BY <1>4, <1>5 DEF RequestValid
  <2>2. CASE o \in DOMAIN request
    <3>1. o \in on /\ request[o].enabled
      BY <1>3, <2>2 DEF Lighted
    <3>2. Spot(Shown(t, o)) = Spot(request[o])
      BY <1>2, <3>1, LightedShown DEF t
    <3>3. RequestBox(s, request, o) = HeadBox(request[o])
      BY <2>2 DEF RequestBox
    <3>4. HeadShape(request[o])
      BY <1>1, <2>2, <3>1
    <3> QED
      BY <2>1, <3>2, <3>3, <3>4, SpotSmaller
  <2>3. CASE o \notin DOMAIN request
    <3>1. o \in s.enabled /\ o \in All
      BY <1>3, <1>5, <2>3, ListedAll DEF Lighted, Base
    <3>2. Shown(t, o) = Shown(s, o)
      BY <1>2, <2>3, <3>1, OtherShown DEF t
    <3>3. RequestBox(s, request, o) = Spot(Shown(s, o))
      BY <2>3, <3>1 DEF RequestBox, Lit
    <3> QED
      BY <2>1, <3>1, <3>2, <3>3, OwnSmaller
  <2> QED
    BY <2>2, <2>3
<1>6. ASSUME NEW p \in t.enabled
      PROVE  /\ HasEdges(Spot(Shown(t, p)))
             /\ \A q \in t.enabled \ {p} : Compatible(Spot(Shown(t, p)), Spot(Shown(t, q)))
  <2>1. HasEdges(RequestBox(s, request, p))
    BY <1>4 DEF RequestValid
  <2>2. ASSUME NEW q \in t.enabled \ {p}
        PROVE  Compatible(Spot(Shown(t, p)), Spot(Shown(t, q)))
    <3>1. Compatible(RequestBox(s, request, p), RequestBox(s, request, q))
      BY <1>4 DEF RequestValid
    <3> QED
      BY <1>5, <3>1, CompatibleSmaller
  <2> QED
    BY <1>5, <2>1, <2>2, EdgesSmaller
<1>7. Fits(t)
  BY <1>6 DEF Fits
<1> QED
  BY <1>2, <1>7 DEF t

\* The wishes for power do not show.
LEMMA PowerIs ==
  ASSUME NEW s, Base(s), NEW powered \in SUBSET Listed(s)
  PROVE  LET t == [s EXCEPT !.powered = powered] IN
         /\ Base(t) /\ Drawn(t, s) /\ t.published = s.published /\ t.config = s.config
<1> DEFINE t == [s EXCEPT !.powered = powered]
<1>1. s = Whole(s)
  BY DEF Base
<1>2. t = [outputs |-> s.outputs, enabled |-> s.enabled, powered |-> powered,
           mode |-> s.mode, scale |-> s.scale, rotated |-> s.rotated, at |-> s.at,
           laid |-> s.laid, scene |-> s.scene, full |-> s.full, focused |-> s.focused,
           config |-> s.config, keyed |-> s.keyed, locked |-> s.locked,
           blocker |-> s.blocker, published |-> s.published]
  BY <1>1 DEF Whole
<1> HIDE DEF t
<1>3. /\ t = Whole(t) /\ Drawn(t, s) /\ t.powered = powered
      /\ t.config = s.config /\ t.published = s.published
  BY <1>2 DEF Whole, Drawn, Backend
<1>4. Base(t)
  BY <1>3, DrawnBase DEF Base
<1> QED
  BY <1>3, <1>4 DEF t

\* The cover of a locked session is put around the layout as it is.
LEMMA RelockedIs ==
  ASSUME NEW s, Base(s)
  PROVE  LET t == Relocked(s) IN
         /\ Base(t)
         /\ Lit(s) => Lit(t)
         /\ t.outputs = s.outputs /\ t.focused = s.focused /\ t.config = s.config
         /\ t.powered = s.powered /\ t.published = s.published
         /\ Announced(t) = Announced(s)
         /\ \A o : Showing(t, o) = Showing(s, o)
<1> DEFINE t == Relocked(s)
           blocker == IF s.locked THEN LayoutBox(s) ELSE s.blocker
<1>1. s = Whole(s)
  BY DEF Base
<1>2. t = [s EXCEPT !.blocker = blocker]
  BY DEF Relocked
<1> HIDE DEF t, blocker
<1>3. t = [outputs |-> s.outputs, enabled |-> s.enabled, powered |-> s.powered,
           mode |-> s.mode, scale |-> s.scale, rotated |-> s.rotated, at |-> s.at,
           laid |-> s.laid, scene |-> s.scene, full |-> s.full, focused |-> s.focused,
           config |-> s.config, keyed |-> s.keyed, locked |-> s.locked,
           blocker |-> blocker, published |-> s.published]
  BY <1>1, <1>2 DEF Whole
<1>4. /\ t.outputs = s.outputs /\ t.laid = s.laid /\ t.scene = s.scene /\ t.full = s.full
      /\ t.focused = s.focused /\ t.config = s.config /\ t.locked = s.locked
      /\ t.blocker = blocker /\ t.published = s.published /\ t.powered = s.powered
      /\ Backend(t, s) /\ t = Whole(t)
  BY <1>3 DEF Whole, Backend
<1>5. Listed(t) = Listed(s)
  BY <1>4 DEF Listed
<1>6. Base(t)
  BY <1>4, <1>5 DEF Base, Backend
<1>7. (Fits(t) <=> Fits(s)) /\ \A o : Shown(t, o) = Shown(s, o)
  BY <1>4, BackendShown
<1>8. Lit(s) => Lit(t)
  <2> SUFFICES ASSUME Lit(s) PROVE Lit(t)
    OBVIOUS
  <2>1. \A o \in s.enabled : Within(Spot(Shown(s, o)), LayoutBox(s))
    BY ListedAll, LayoutCovers DEF Lit
  <2> QED
    BY <1>4, <1>7, <2>1 DEF Lit, Backend, blocker
<1>9. Announced(t) = Announced(s)
  BY <1>4, <1>5 DEF Announced, Backend
<1>10. \A o : Showing(t, o) = Showing(s, o)
  BY <1>4 DEF Showing, Backend
<1> QED
  BY <1>4, <1>6, <1>8, <1>9, <1>10 DEF t

\* A head that leme_output_set_power commits.
Wakeable(s, o, head) ==
  /\ PlannedHead(head, o) /\ head.enabled = TRUE
  /\ HasEdges(HeadBox(head)) /\ ~WakeConflicts(s, o, HeadBox(head))

\* Only one output was switched, and nothing is reconciled yet.
Waking(lit, s, o) ==
  /\ Base(lit) /\ Rest(lit, s) /\ Fits(lit)
  /\ lit.laid = s.laid /\ lit.scene = s.scene /\ lit.full = s.full
  /\ lit.focused = s.focused /\ lit.blocker = s.blocker
  /\ lit.enabled = s.enabled \cup {o}
  /\ \A p \in All \ {o} : lit.at[p] = s.at[p] /\ Shown(lit, p) = Shown(s, p)

\* An output that wakes alone.
LEMMA WakingIs ==
  ASSUME NEW s, Base(s), Lit(s), NEW o \in Listed(s), o \notin s.enabled,
         NEW head, Wakeable(s, o, head),
         NEW heads, DOMAIN heads = {o}, heads[o] = head
  PROVE  Waking(Switched(s, heads), s, o)
<1> DEFINE lit == Switched(s, heads)
<1>1. DOMAIN heads = {o} /\ heads[o] = head /\ o \in All
  BY ListedAll
<1>2. HeadsShape(s, heads) /\ Lighted(heads) = {o}
  BY <1>1 DEF HeadsShape, Lighted, PlannedHead, HeadShape, Wakeable
<1>3. /\ Base(lit) /\ Rest(lit, s)
      /\ lit.laid = s.laid /\ lit.scene = s.scene /\ lit.full = s.full
      /\ lit.focused = s.focused /\ lit.blocker = s.blocker
      /\ lit.enabled = (s.enabled \ DOMAIN heads) \cup Lighted(heads)
      /\ \A p \in All : lit.at[p] = IF p \in DOMAIN heads THEN heads[p].at ELSE s.at[p]
  BY <1>2, SwitchedIs
<1>4. lit.enabled = s.enabled \cup {o}
  BY <1>1, <1>2, <1>3
<1>5. \A p \in All \ {o} : lit.at[p] = s.at[p] /\ Shown(lit, p) = Shown(s, p)
  BY <1>1, <1>2, <1>3, OtherShown
<1>6. Spot(Shown(lit, o)) = Spot(head)
  BY <1>1, <1>2, LightedShown
<1> HIDE DEF lit
<1>7. Smaller(Spot(head), HeadBox(head)) /\ HasEdges(Spot(head))
  BY SpotSmaller, EdgesSmaller DEF PlannedHead, Wakeable
<1>8. ASSUME NEW p \in s.enabled
      PROVE  /\ Spot(Shown(lit, p)) = Spot(Shown(s, p)) /\ HasEdges(Spot(Shown(s, p)))
             /\ Compatible(Spot(head), Spot(Shown(s, p)))
             /\ Compatible(Spot(Shown(s, p)), Spot(head))
  <2>1. p # o /\ p \in All /\ HasEdges(Spot(Shown(s, p)))
    BY ListedAll DEF Base, Lit, Fits
  <2>2. Smaller(Spot(Shown(s, p)), Spot(Shown(s, p)))
    BY <2>1, OwnSmaller
  <2>3. Compatible(HeadBox(head), Spot(Shown(s, p)))
    BY <2>1 DEF Wakeable, WakeConflicts, Lit
  <2>4. Compatible(Spot(head), Spot(Shown(s, p)))
    BY <1>7, <2>2, <2>3, CompatibleSmaller
  <2>5. Compatible(Spot(Shown(s, p)), Spot(head))
    BY <1>7, <2>2, <2>4, CompatibleSymmetric DEF Smaller
  <2> QED
    BY <1>5, <2>1, <2>4, <2>5
<1>9. \A p \in s.enabled : \A q \in s.enabled \ {p} :
        Compatible(Spot(Shown(s, p)), Spot(Shown(s, q)))
  BY DEF Lit, Fits
<1>10. ASSUME NEW p \in lit.enabled
       PROVE  /\ HasEdges(Spot(Shown(lit, p)))
              /\ \A q \in lit.enabled \ {p} : Compatible(Spot(Shown(lit, p)), Spot(Shown(lit, q)))
  <2>1. CASE p = o
    BY <1>4, <1>6, <1>7, <1>8, <2>1
  <2>2. CASE p # o
    <3>1. p \in s.enabled
      BY <1>4, <2>2
    <3>2. ASSUME NEW q \in lit.enabled \ {p}
          PROVE  Compatible(Spot(Shown(lit, p)), Spot(Shown(lit, q)))
      <4>1. CASE q = o
        BY <1>6, <1>8, <3>1, <4>1
      <4>2. CASE q # o
        BY <1>4, <1>8, <1>9, <3>1, <3>2, <4>2
      <4> QED
        BY <4>1, <4>2
    <3> QED
      BY <1>8, <3>1, <3>2
  <2> QED
    BY <2>1, <2>2
<1>11. Fits(lit)
  BY <1>10 DEF Fits
<1> QED
  BY <1>3, <1>4, <1>5, <1>11 DEF lit, Waking

\* Only the output that is switched can break off the switching.
LEMMA BreaksAlone ==
  ASSUME NEW s, Base(s), Lit(s), NEW t, t.laid = s.laid, t.scene = s.scene
  PROVE  MayBreak(t) \cap s.enabled = {}
<1>1. ASSUME NEW p \in s.enabled PROVE s.laid[p] # Unplaced /\ p \in s.scene
  <2>1. p \in All /\ s.laid[p] = s.at[p] /\ s.at[p] \in Places
    BY ListedAll DEF Base, Lit
  <2>2. Unplaced \notin Places
    BY DEF Unplaced, Places
  <2> QED
    BY <2>1, <2>2 DEF Lit
<1> QED
  BY <1>1 DEF MayBreak

\* An output whose waking broke off is off again, and all are as they were.
LEMMA AsleepIs ==
  ASSUME NEW s, Base(s), Lit(s), NEW o \in Listed(s), o \notin s.enabled,
         NEW lit, Waking(lit, s, o)
  PROVE  LET back == Withdrawn(Attached(lit, o), o, s.at[o])
             off == [back EXCEPT !.enabled = back.enabled \ {o}] IN
         /\ Base(back) /\ Rest(back, s) /\ back.focused = s.focused
         /\ Base(off) /\ Rest(off, s) /\ off.focused = s.focused /\ Lit(off)
         /\ \A p \in All : Showing(off, p) = Showing(s, p)
<1> DEFINE b == Attached(lit, o)
           scene == b.scene \ {o}
           laid == [b.laid EXCEPT ![o] = Unplaced]
           at == [b.at EXCEPT ![o] = s.at[o]]
           back == Withdrawn(b, o, s.at[o])
           enabled == back.enabled \ {o}
           off == [back EXCEPT !.enabled = enabled]
           done == Done(lit, o)
<1>0. /\ Base(lit) /\ Rest(lit, s)
      /\ lit.laid = s.laid /\ lit.scene = s.scene /\ lit.full = s.full
      /\ lit.focused = s.focused /\ lit.blocker = s.blocker
      /\ lit.enabled = s.enabled \cup {o}
      /\ \A p \in All \ {o} : lit.at[p] = s.at[p] /\ Shown(lit, p) = Shown(s, p)
  BY DEF Waking
<1>1. /\ Base(b) /\ Rest(b, lit) /\ Backend(b, lit)
      /\ b.full = lit.full /\ b.focused = lit.focused /\ b.blocker = lit.blocker
      /\ b.scene = (lit.scene \ done) \cup (done \cap lit.enabled)
      /\ \A p \in All : b.laid[p] = IF p \notin done THEN lit.laid[p]
                                    ELSE IF p \in lit.enabled THEN lit.at[p] ELSE Unplaced
  BY <1>0, AttachedIs
<1>2. back = [b EXCEPT !.scene = scene, !.laid = laid, !.at = at]
  BY DEF Withdrawn
<1> HIDE DEF b, scene, laid, at, back, enabled, off, done
<1>3. b = Whole(b)
  BY <1>1 DEF Base
<1>4. back = [outputs |-> b.outputs, enabled |-> b.enabled, powered |-> b.powered,
              mode |-> b.mode, scale |-> b.scale, rotated |-> b.rotated, at |-> at,
              laid |-> laid, scene |-> scene, full |-> b.full, focused |-> b.focused,
              config |-> b.config, keyed |-> b.keyed, locked |-> b.locked,
              blocker |-> b.blocker, published |-> b.published]
  BY <1>2, <1>3 DEF Whole
<1>5. off = [outputs |-> b.outputs, enabled |-> enabled, powered |-> b.powered,
             mode |-> b.mode, scale |-> b.scale, rotated |-> b.rotated, at |-> at,
             laid |-> laid, scene |-> scene, full |-> b.full, focused |-> b.focused,
             config |-> b.config, keyed |-> b.keyed, locked |-> b.locked,
             blocker |-> b.blocker, published |-> b.published]
  BY <1>4 DEF off
<1>6. /\ back.mode = b.mode /\ back.scale = b.scale /\ back.rotated = b.rotated
      /\ back.enabled = b.enabled /\ back.at = at /\ back.laid = laid /\ back.scene = scene
      /\ back.full = b.full /\ back.focused = b.focused /\ Rest(back, b)
      /\ back = Whole(back)
  BY <1>4 DEF Whole, Rest
<1>7. /\ off.mode = b.mode /\ off.scale = b.scale /\ off.rotated = b.rotated
      /\ off.enabled = enabled /\ off.at = at /\ off.laid = laid /\ off.scene = scene
      /\ off.full = b.full /\ off.focused = b.focused /\ off.blocker = b.blocker
      /\ Rest(off, b) /\ off = Whole(off)
  BY <1>5 DEF Whole, Rest
<1>8. /\ Listed(b) = Listed(s) /\ Listed(back) = Listed(s) /\ Listed(off) = Listed(s)
      /\ Rest(b, s) /\ Rest(back, s) /\ Rest(off, s) /\ Listed(s) \subseteq All /\ o \in All
  BY <1>0, <1>1, <1>6, <1>7, ListedAll DEF Rest, Listed
<1>9. s.at \in [All -> Places] /\ s.enabled \subseteq Listed(s)
  BY DEF Base
<1>10. enabled = s.enabled
  BY <1>0, <1>1, <1>6 DEF Backend, enabled
<1>11. scene = s.enabled
  BY <1>0, <1>1 DEF scene, Lit
<1>12. at \in [All -> Places] /\ \A p \in All : at[p] = s.at[p]
  <2>1. b.at \in [All -> Places] /\ b.at = lit.at
    BY <1>1 DEF Base, Backend
  <2> QED
    BY <1>0, <1>8, <1>9, <2>1 DEF at
<1>13. /\ laid \in [All -> {Unplaced} \cup Places]
       /\ \A p \in All : laid[p] = IF p \in s.enabled THEN s.at[p] ELSE Unplaced
  <2>1. b.laid \in [All -> {Unplaced} \cup Places]
    BY <1>1 DEF Base
  <2>2. \A p \in All : s.laid[p] = IF p \in s.enabled THEN s.at[p] ELSE Unplaced
    BY DEF Lit
  <2>3. \A p \in All : laid[p] = IF p = o THEN Unplaced ELSE b.laid[p]
    BY <2>1 DEF laid
  <2>4. \A p \in All \ {o} : b.laid[p] = s.laid[p]
    BY <1>0, <1>1, <2>2
  <2>5. laid \in [All -> {Unplaced} \cup Places]
    BY <2>1 DEF laid
  <2> QED
    BY <2>2, <2>3, <2>4, <2>5
<1>14. \A p \in All : laid[p] # Unplaced => p \in Listed(s)
  BY <1>9, <1>13
<1>15. scene \subseteq Listed(s) /\ enabled \subseteq Listed(s)
  BY <1>9, <1>10, <1>11
<1>16. Base(back)
  BY <1>1, <1>6, <1>8, <1>12, <1>13, <1>14, <1>15 DEF Base, Rest
<1>17. Base(off)
  BY <1>1, <1>7, <1>8, <1>12, <1>13, <1>14, <1>15 DEF Base, Rest
<1>18. ASSUME NEW p \in s.enabled PROVE Shown(off, p) = Shown(s, p)
  <2>1. p \in All /\ p # o
    BY <1>8, <1>9
  <2>2. Shown(off, p) = Shown(lit, p)
    <3>1. off.at[p] = lit.at[p] /\ off.mode = lit.mode /\ off.scale = lit.scale
          /\ off.rotated = lit.rotated
      BY <1>0, <1>1, <1>7, <1>12, <2>1 DEF Backend
    <3> QED
      BY <3>1 DEF Shown
  <2> QED
    BY <1>0, <2>1, <2>2
<1>19. off.locked = s.locked /\ off.blocker = s.blocker /\ off.focused = s.focused
       /\ back.focused = s.focused /\ off.full = s.full
  BY <1>0, <1>1, <1>6, <1>7, <1>8 DEF Rest
<1>20. Dimmed(off, s)
  BY <1>7, <1>10, <1>18, <1>19 DEF Dimmed
<1>21. /\ off.locked => \A p \in off.enabled : Within(Spot(Shown(off, p)), off.blocker)
       /\ Fits(off)
  BY <1>20, DimmedFits, LitShining
<1>22. Lit(off)
  <2>1. /\ off.scene = off.enabled
        /\ \A p \in All : off.laid[p] = IF p \in off.enabled THEN off.at[p] ELSE Unplaced
    BY <1>7, <1>10, <1>11, <1>12, <1>13
  <2>2. \A p \in off.enabled : off.full[p] = Spot(Shown(off, p))
    BY <1>7, <1>10, <1>18, <1>19 DEF Lit
  <2>3. off.enabled # {} => off.focused \in off.enabled
    BY <1>7, <1>10, <1>19 DEF Lit
  <2> QED
    BY <1>21, <2>1, <2>2, <2>3 DEF Lit
<1>23. ASSUME NEW p \in All PROVE Showing(off, p) = Showing(s, p)
  <2>1. (p \in off.enabled) = (p \in s.enabled) /\ off.at[p] = s.at[p]
    BY <1>7, <1>10, <1>12
  <2> QED
    BY <1>17, <1>18, <1>22, <2>1, LitShowing
<1> QED
  BY <1>8, <1>16, <1>17, <1>19, <1>22, <1>23 DEF back, off, enabled, b

\* What a wake leaves of the outputs.
Undisturbed(end, s, o) ==
  \A p \in Listed(s) :
    end.kind # "lost" /\ (p # o \/ end.kind # "done") =>
      Showing(end.state, p) = Showing(s, p)

\* The ends of a wake that was committed, and of one that broke off.
Woken(o, lit) ==
  Outcomes({Publish([t EXCEPT !.powered = @ \cup {o}]) : t \in Reconcile(lit)}, "done")

Unwoken(s, o, lit) ==
  UNION {{Outcome(Publish(Relocked([back EXCEPT !.enabled = @ \ {o}])), "broken"),
          Outcome(Publish(Relocked(back)), "lost")} :
          back \in {Withdrawn(broken, o, s.at[o]) : broken \in Broken(lit)}}

\* leme_output_set_power(o, true) of an output that is off, with its head in the plan.
LEMMA WakeAsIs ==
  ASSUME NEW s, Base(s), Lit(s), NEW o \in Listed(s), o \notin s.enabled,
         NEW head, Wakeable(s, o, head),
         NEW end \in WakeAs(s, o, head)
  PROVE  Ends(end, s) /\ Undisturbed(end, s, o) /\ end.state.config = s.config
<1> DEFINE heads == [p \in {o} |-> head]
           lit == Switched(s, heads)
           back == Withdrawn(Attached(lit, o), o, s.at[o])
           off == [back EXCEPT !.enabled = back.enabled \ {o}]
<1>0. Waking(lit, s, o)
  <2>1. DOMAIN heads = {o} /\ heads[o] = head
    OBVIOUS
  <2> HIDE DEF heads
  <2> QED
    BY <2>1, WakingIs
<1>1. /\ Base(lit) /\ Rest(lit, s) /\ Fits(lit)
      /\ lit.laid = s.laid /\ lit.scene = s.scene
      /\ lit.enabled = s.enabled \cup {o}
      /\ \A p \in All \ {o} : lit.at[p] = s.at[p] /\ Shown(lit, p) = Shown(s, p)
  <2> HIDE DEF lit
  <2> QED
    BY <1>0 DEF Waking
<1>2. \/ end \in {Outcome(Relocked(s), "failed"), Outcome(Relocked(s), "refused")}
      \/ \E t \in Reconcile(lit) :
           end = Outcome(Publish([t EXCEPT !.powered = @ \cup {o}]), "done")
      \/ \E broken \in Broken(lit) : \E b \in {Withdrawn(broken, o, s.at[o])} :
           end \in {Outcome(Publish(Relocked([b EXCEPT !.enabled = @ \ {o}])), "broken"),
                    Outcome(Publish(Relocked(b)), "lost")}
  <2>1. WakeAs(s, o, head) \subseteq
          {Outcome(Relocked(s), "failed"), Outcome(Relocked(s), "refused")}
            \cup UNION {Woken(o, u) \cup Unwoken(s, o, u) :
                         u \in {Switched(s, alone) : alone \in {heads}}}
    BY DEF WakeAs, Woken, Unwoken, Switched
  <2> HIDE DEF heads
  <2>2. end \in {Outcome(Relocked(s), "failed"), Outcome(Relocked(s), "refused")}
               \cup Woken(o, lit) \cup Unwoken(s, o, lit)
    BY <2>1
  <2> HIDE DEF lit
  <2>3. end \in Woken(o, lit) => \E t \in Reconcile(lit) :
           end = Outcome(Publish([t EXCEPT !.powered = @ \cup {o}]), "done")
    BY DEF Woken, Outcomes
  <2>4. end \in Unwoken(s, o, lit) =>
           \E broken \in Broken(lit) : \E b \in {Withdrawn(broken, o, s.at[o])} :
             end \in {Outcome(Publish(Relocked([b EXCEPT !.enabled = @ \ {o}])), "broken"),
                      Outcome(Publish(Relocked(b)), "lost")}
    BY DEF Unwoken
  <2> QED
    BY <2>2, <2>3, <2>4
<1> HIDE DEF lit
<1>3. Listed(lit) = Listed(s) /\ Listed(s) \subseteq All
  BY <1>1, ListedAll DEF Rest, Listed
<1>4. CASE end \in {Outcome(Relocked(s), "failed"), Outcome(Relocked(s), "refused")}
  <2> DEFINE r == Relocked(s)
  <2>1. end.state = r /\ end.kind \in {"failed", "refused"}
        /\ end = Outcome(end.state, end.kind)
    BY <1>4 DEF Outcome
  <2>2. /\ Base(r)
        /\ Lit(s) => Lit(r)
        /\ r.outputs = s.outputs /\ r.focused = s.focused /\ r.config = s.config
        /\ r.powered = s.powered /\ r.published = s.published
        /\ Announced(r) = Announced(s)
        /\ \A p : Showing(r, p) = Showing(s, p)
    BY RelockedIs
  <2> HIDE DEF r
  <2>3. end.kind \in {"failed", "refused", "done", "broken", "lost"}
    BY <2>1
  <2>4. Kept(r, s) /\ (Told(s) => Told(r))
    BY <2>2 DEF Kept, Told
  <2>5. Ends(end, s)
    BY <2>1, <2>2, <2>3, <2>4 DEF Ends
  <2> QED
    BY <2>1, <2>2, <2>5 DEF Undisturbed
<1>5. CASE \E t \in Reconcile(lit) :
             end = Outcome(Publish([t EXCEPT !.powered = @ \cup {o}]), "done")
  <2>1. PICK t \in Reconcile(lit) :
          end = Outcome(Publish([t EXCEPT !.powered = @ \cup {o}]), "done")
    BY <1>5
  <2>2. /\ Base(t) /\ Lit(t) /\ Rest(t, lit) /\ Backend(t, lit)
        /\ t.focused \in Listed(lit) \cup {NONE}
    BY <1>1, ReconcileLit
  <2>3. Listed(t) = Listed(s) /\ t.outputs = s.outputs /\ t.powered \subseteq Listed(s)
        /\ t.config = s.config
    BY <1>1, <2>2 DEF Rest, Listed, Base
  <2> DEFINE powered == t.powered \cup {o}
             u == [t EXCEPT !.powered = powered]
             p == Publish(u)
  <2>4. /\ Base(u) /\ Drawn(u, t) /\ u.published = t.published /\ u.config = t.config
    <3>1. powered \in SUBSET Listed(t)
      BY <2>3
    <3> HIDE DEF powered
    <3> QED
      BY <2>2, <3>1, PowerIs
  <2>5. end = Outcome(p, "done")
    BY <2>1
  <2> HIDE DEF u
  <2>6. Base(p) /\ Drawn(p, u) /\ Told(p) /\ p.config = u.config
    BY <2>4, PublishIs
  <2> HIDE DEF p
  <2>7. Lit(p) /\ p.outputs = s.outputs /\ p.focused = t.focused /\ p.config = s.config
    BY <2>2, <2>3, <2>4, <2>6, DrawnSame DEF Drawn
  <2>8. ASSUME NEW q \in Listed(s) \ {o} PROVE Showing(p, q) = Showing(s, q)
    <3>1. Showing(p, q) = Showing(t, q)
      BY <2>4, <2>6, DrawnSame
    <3>2. (q \in t.enabled) = (q \in s.enabled) /\ t.at[q] = s.at[q] /\ q \in All
      BY <1>1, <1>3, <2>2, <2>8 DEF Backend
    <3>3. Shown(t, q) = Shown(s, q)
      BY <1>1, <1>3, <2>2, <2>8, BackendShown
    <3>4. Showing(t, q) = Showing(s, q)
      BY <2>2, <3>2, <3>3, LitShowing
    <3> QED
      BY <3>1, <3>4
  <2>9. end.state = p /\ end.kind = "done" /\ end = Outcome(end.state, end.kind)
    BY <2>5 DEF Outcome
  <2>10. Ends(end, s)
    BY <1>3, <2>2, <2>6, <2>7, <2>9 DEF Ends
  <2> QED
    BY <2>7, <2>8, <2>9, <2>10 DEF Undisturbed
<1>6. CASE \E broken \in Broken(lit) : \E b \in {Withdrawn(broken, o, s.at[o])} :
             end \in {Outcome(Publish(Relocked([b EXCEPT !.enabled = @ \ {o}])), "broken"),
                      Outcome(Publish(Relocked(b)), "lost")}
  <2>1. /\ Base(back) /\ Rest(back, s) /\ back.focused = s.focused
        /\ Base(off) /\ Rest(off, s) /\ off.focused = s.focused /\ Lit(off)
        /\ \A p \in All : Showing(off, p) = Showing(s, p)
    BY <1>0, AsleepIs
  <2>2. MayBreak(lit) \subseteq {o}
    <3>1. MayBreak(lit) \cap s.enabled = {} /\ MayBreak(lit) \subseteq lit.enabled
      BY <1>1, BreaksAlone DEF MayBreak
    <3> QED
      BY <1>1, <3>1
  <2>3. end \in {Outcome(Publish(Relocked(off)), "broken"), Outcome(Publish(Relocked(back)), "lost")}
    BY <1>6, <2>2 DEF Broken
  <2> HIDE DEF back, off
  <2>4. CASE end = Outcome(Publish(Relocked(off)), "broken")
    <3> DEFINE r == Relocked(off)
               p == Publish(r)
    <3>1. /\ Base(r)
          /\ Lit(off) => Lit(r)
          /\ r.outputs = off.outputs /\ r.focused = off.focused /\ r.config = off.config
          /\ r.powered = off.powered
          /\ \A q : Showing(r, q) = Showing(off, q)
      BY <2>1, RelockedIs
    <3> HIDE DEF r
    <3>2. Base(p) /\ Drawn(p, r) /\ Told(p) /\ p.config = r.config /\ p.powered = r.powered
          /\ p.published = Announced(r)
      BY <3>1, PublishIs
    <3>3. end.state = p /\ end.kind = "broken" /\ end = Outcome(end.state, end.kind)
      BY <2>4 DEF Outcome, r
    <3> HIDE DEF p
    <3>4. /\ Lit(p) /\ p.outputs = s.outputs /\ p.focused = s.focused /\ p.config = s.config
          /\ p.powered = s.powered
          /\ \A q \in Listed(s) : Showing(p, q) = Showing(s, q)
      BY <1>3, <2>1, <3>1, <3>2, DrawnSame DEF Drawn, Rest
    <3>5. Told(s) => p.published = s.published
      <4> SUFFICES ASSUME Told(s) PROVE p.published = s.published
        OBVIOUS
      <4>1. Listed(r) = Listed(s) /\ r.outputs = s.outputs
        BY <2>1, <3>1 DEF Rest, Listed
      <4>2. \A q \in Listed(s) : Showing(r, q) = Showing(s, q)
        BY <1>3, <2>1, <3>1
      <4>3. Announced(r) = Announced(s)
        BY <4>1, <4>2, ShowingAnnounced
      <4> QED
        BY <3>2, <4>3 DEF Told
    <3>6. Told(s) => Kept(p, s)
      BY <3>4, <3>5 DEF Kept
    <3>7. Ends(end, s)
      BY <3>2, <3>3, <3>4, <3>6 DEF Ends
    <3> QED
      BY <3>3, <3>4, <3>7 DEF Undisturbed
  <2>5. CASE end = Outcome(Publish(Relocked(back)), "lost")
    <3> DEFINE r == Relocked(back)
               p == Publish(r)
    <3>1. /\ Base(r)
          /\ r.outputs = back.outputs /\ r.focused = back.focused /\ r.config = back.config
      BY <2>1, RelockedIs
    <3> HIDE DEF r
    <3>2. Base(p) /\ Drawn(p, r) /\ p.config = r.config
      BY <3>1, PublishIs
    <3>3. end.state = p /\ end.kind = "lost" /\ end = Outcome(end.state, end.kind)
      BY <2>5 DEF Outcome, r
    <3> HIDE DEF p
    <3>4. /\ p.outputs = s.outputs /\ p.focused = s.focused /\ p.config = s.config
      BY <2>1, <3>1, <3>2 DEF Drawn, Rest
    <3>5. Ends(end, s)
      BY <3>2, <3>3, <3>4 DEF Ends
    <3> QED
      BY <3>3, <3>4, <3>5 DEF Undisturbed
  <2> QED
    BY <2>3, <2>4, <2>5
<1> QED
  BY <1>2, <1>4, <1>5, <1>6

\* leme_output_set_power(o, true) of an output that is off
LEMMA WakeIs ==
  ASSUME NEW s, Base(s), Lit(s), NEW o \in Listed(s), o \notin s.enabled,
         NEW end \in Wake(s, o)
  PROVE  Ends(end, s) /\ Undisturbed(end, s, o) /\ end.state.config = s.config
<1>1. \/ end = Outcome(s, "failed")
      \/ \E all \in Plans(s, s.config, FALSE, s.powered \cup {o}) :
           \E head \in {[all[o] EXCEPT !.enabled = TRUE]} :
             /\ HasEdges(HeadBox(head)) /\ ~WakeConflicts(s, o, HeadBox(head))
             /\ end \in WakeAs(s, o, head)
  BY DEF Wake
<1>2. CASE end = Outcome(s, "failed")
  <2>1. end.state = s
    BY <1>2 DEF Outcome
  <2> QED
    BY <1>2, <2>1, NothingEnds DEF Undisturbed
<1>3. ASSUME NEW all \in Plans(s, s.config, FALSE, s.powered \cup {o}),
             NEW head, head = [all[o] EXCEPT !.enabled = TRUE],
             HasEdges(HeadBox(head)), ~WakeConflicts(s, o, HeadBox(head)),
             end \in WakeAs(s, o, head)
      PROVE  Ends(end, s) /\ Undisturbed(end, s, o) /\ end.state.config = s.config
  <2> DEFINE on == s.powered \cup {o}
             h == all[o]
  <2>1. PICK places :
          all = [p \in Listed(s) |->
                  [enabled |-> p \in on, at |-> places[Index(s, p)],
                   mode |-> PlannedMode(s, s.config, p),
                   scale |-> Entry(s.config, p).scale,
                   rotated |-> Entry(s.config, p).rotated]]
    BY DEF Plans
  <2>2. PlannedHead(h, o)
    <3>1. Known(s.config)
      BY DEF Base
    <3> HIDE DEF on
    <3> QED
      BY <1>3, <3>1, PlansShape DEF on
  <2>3. h = [enabled |-> TRUE, at |-> h.at, mode |-> h.mode, scale |-> h.scale,
             rotated |-> h.rotated]
    <3> DEFINE at == places[Index(s, o)]
               mode == PlannedMode(s, s.config, o)
               scale == Entry(s.config, o).scale
               rotated == Entry(s.config, o).rotated
               lit == o \in on
    <3>1. h = [enabled |-> lit, at |-> at, mode |-> mode, scale |-> scale, rotated |-> rotated]
      BY <2>1
    <3>2. lit = TRUE
      OBVIOUS
    <3> HIDE DEF at, mode, scale, rotated, lit, h
    <3> QED
      BY <3>1, <3>2
  <2>4. head = [h EXCEPT !.enabled = TRUE]
    BY <1>3
  <2> HIDE DEF h
  <2>5. head = h /\ h.enabled = TRUE
    BY <2>3, <2>4
  <2>6. PlannedHead(head, o) /\ head.enabled = TRUE
    BY <2>2, <2>5
  <2>7. Wakeable(s, o, head)
    BY <1>3, <2>6 DEF Wakeable
  <2> QED
    BY <1>3, <2>7, WakeAsIs
<1> QED
  BY <1>1, <1>2, <1>3

\* leme_output_set_power(o, false) of an output that is on
LEMMA DarkenIs ==
  ASSUME NEW s, Base(s), Lit(s), NEW o \in Listed(s), NEW end \in Darken(s, o)
  PROVE  Ends(end, s) /\ end.state.config = s.config
<1> DEFINE enabled == s.enabled \ {o}
           dark == [s EXCEPT !.enabled = enabled]
<1>1. s = Whole(s) /\ s.enabled \subseteq Listed(s)
  BY DEF Base
<1>2. \/ end = Outcome(s, "refused")
      \/ \E t \in Reconcile(dark) :
           end = Outcome(Publish([t EXCEPT !.powered = @ \ {o}]), "done")
      \/ MayBreak(dark) # {}
  <2> DEFINE Over(d) ==
               UNION {Outcomes({Publish(t) : t \in Reconcile([back EXCEPT !.enabled = @ \cup {o}])},
                               "broken")
                        \cup {Outcome(Publish(back), "lost")} :
                        back \in {Withdrawn(broken, o, s.at[o]) : broken \in Broken(d)}}
             Out(d) == Outcomes({Publish([t EXCEPT !.powered = @ \ {o}]) : t \in Reconcile(d)},
                                "done")
  <2>1. Darken(s, o) = {Outcome(s, "refused")} \cup
          UNION {Out(d) \cup Over(d) : d \in {[s EXCEPT !.enabled = @ \ {o}]}}
    BY DEF Darken
  <2>2. [s EXCEPT !.enabled = @ \ {o}] = dark
    OBVIOUS
  <2>3. MayBreak(dark) = {} => Over(dark) = {}
    <3> HIDE DEF dark
    <3>1. MayBreak(dark) = {} => Broken(dark) = {}
      BY DEF Broken
    <3> QED
      BY <3>1
  <2>4. end \in Out(dark) => \E t \in Reconcile(dark) :
                               end = Outcome(Publish([t EXCEPT !.powered = @ \ {o}]), "done")
    <3> HIDE DEF dark
    <3> QED
      BY DEF Outcomes
  <2> HIDE DEF Over, Out, dark
  <2> QED
    BY <2>1, <2>2, <2>3, <2>4
<1> HIDE DEF dark, enabled
<1>3. dark = [outputs |-> s.outputs, enabled |-> enabled, powered |-> s.powered,
              mode |-> s.mode, scale |-> s.scale, rotated |-> s.rotated, at |-> s.at,
              laid |-> s.laid, scene |-> s.scene, full |-> s.full, focused |-> s.focused,
              config |-> s.config, keyed |-> s.keyed, locked |-> s.locked,
              blocker |-> s.blocker, published |-> s.published]
  BY <1>1 DEF Whole, dark
<1>4. /\ dark.enabled = enabled /\ dark.mode = s.mode /\ dark.scale = s.scale
      /\ dark.rotated = s.rotated /\ dark.at = s.at /\ dark.laid = s.laid
      /\ dark.scene = s.scene /\ dark.full = s.full /\ dark.focused = s.focused
      /\ dark.blocker = s.blocker /\ Rest(dark, s) /\ dark = Whole(dark)
  BY <1>3 DEF Rest, Whole
<1>5. Listed(dark) = Listed(s) /\ enabled \subseteq Listed(s) /\ enabled \subseteq s.enabled
  BY <1>1, <1>4 DEF Rest, Listed, enabled
<1>6. Base(dark)
  BY <1>4, <1>5 DEF Base, Rest
<1>7. Fits(dark)
  <2>1. \A p : Shown(dark, p) = Shown(s, p)
    BY <1>4 DEF Shown
  <2>2. Dimmed(dark, s)
    BY <1>4, <1>5, <2>1 DEF Dimmed, Rest
  <2> QED
    BY <2>2, DimmedFits DEF Lit
<1>8. MayBreak(dark) = {}
  <2>1. MayBreak(dark) \cap s.enabled = {} /\ MayBreak(dark) \subseteq s.enabled
    BY <1>4, <1>5, BreaksAlone DEF MayBreak
  <2> QED
    BY <2>1
<1>9. CASE end = Outcome(s, "refused")
  <2>1. end.state = s
    BY <1>9 DEF Outcome
  <2> QED
    BY <1>9, <2>1, NothingEnds
<1>10. CASE \E t \in Reconcile(dark) :
              end = Outcome(Publish([t EXCEPT !.powered = @ \ {o}]), "done")
  <2>1. PICK t \in Reconcile(dark) :
          end = Outcome(Publish([t EXCEPT !.powered = @ \ {o}]), "done")
    BY <1>10
  <2>2. /\ Base(t) /\ Lit(t) /\ Rest(t, dark)
        /\ t.focused \in Listed(dark) \cup {NONE}
    BY <1>6, <1>7, ReconcileLit
  <2>3. Listed(t) = Listed(s) /\ t.outputs = s.outputs /\ t.powered \subseteq Listed(t)
        /\ t.config = s.config
    BY <1>4, <2>2 DEF Rest, Listed, Base
  <2> DEFINE powered == t.powered \ {o}
             u == [t EXCEPT !.powered = powered]
             p == Publish(u)
  <2>4. Base(u) /\ Drawn(u, t) /\ u.config = t.config
    <3>1. powered \in SUBSET Listed(t)
      BY <2>3
    <3> HIDE DEF powered
    <3> QED
      BY <2>2, <3>1, PowerIs
  <2>5. end = Outcome(p, "done")
    BY <2>1
  <2> HIDE DEF u
  <2>6. Base(p) /\ Drawn(p, u) /\ Told(p) /\ p.config = u.config
    BY <2>4, PublishIs
  <2> HIDE DEF p
  <2>7. Lit(p) /\ p.outputs = s.outputs /\ p.focused = t.focused /\ p.config = s.config
    BY <2>2, <2>3, <2>4, <2>6, DrawnSame DEF Drawn
  <2>8. end.state = p /\ end.kind = "done" /\ end = Outcome(end.state, end.kind)
    BY <2>5 DEF Outcome
  <2> QED
    BY <1>5, <2>2, <2>6, <2>7, <2>8 DEF Ends
<1> QED
  BY <1>2, <1>8, <1>9, <1>10

\* leme_output_set_power
LEMMA PowerEnds ==
  ASSUME NEW s, Base(s), Lit(s), NEW o \in Listed(s), NEW on \in BOOLEAN,
         NEW end \in (IF ~on /\ o = Fallback THEN {Outcome(s, "failed")}
                      ELSE IF (o \in s.enabled) = on THEN {Outcome(Wish(s, o, on), "done")}
                      ELSE IF on THEN Wake(s, o) ELSE Darken(s, o))
  PROVE  /\ Ends(end, s) /\ end.state.config = s.config
         /\ on => Undisturbed(end, s, o)
<1>1. CASE end = Outcome(s, "failed")
  <2>1. end.state = s
    BY <1>1 DEF Outcome
  <2> QED
    BY <1>1, <2>1, NothingEnds DEF Undisturbed
<1>2. CASE end = Outcome(Wish(s, o, on), "done")
  <2> DEFINE powered == IF on THEN s.powered \cup {o} ELSE s.powered \ {o}
             t == [s EXCEPT !.powered = powered]
  <2>1. end.state = t /\ end.kind = "done" /\ end = Outcome(end.state, end.kind)
    BY <1>2 DEF Outcome, Wish
  <2>2. Base(t) /\ Drawn(t, s) /\ t.published = s.published /\ t.config = s.config
    <3>1. powered \in SUBSET Listed(s)
      BY DEF Base
    <3> HIDE DEF powered
    <3> QED
      BY <3>1, PowerIs
  <2> HIDE DEF t
  <2>3. /\ Lit(t) /\ t.outputs = s.outputs /\ t.focused = s.focused
        /\ Announced(t) = Announced(s) /\ \A p : Showing(t, p) = Showing(s, p)
    BY <2>2, DrawnSame DEF Drawn
  <2>4. Told(s) => Told(t)
    BY <2>2, <2>3 DEF Told
  <2>5. Ends(end, s)
    BY <2>1, <2>2, <2>3, <2>4 DEF Ends
  <2> QED
    BY <2>1, <2>2, <2>3, <2>5 DEF Undisturbed
<1>3. CASE on /\ o \notin s.enabled /\ end \in Wake(s, o)
  BY <1>3, WakeIs
<1>4. CASE ~on /\ end \in Darken(s, o)
  BY <1>4, DarkenIs
<1>5. (o \in s.enabled) = on \/ (on /\ o \notin s.enabled) \/ ~on
  OBVIOUS
<1> QED
  BY <1>1, <1>2, <1>3, <1>4, <1>5

-----------------------------------------------------------------------------
(* The invariant and its steps                                             *)

\* The headless output is there exactly while no connector is.
Housed(s) == s.outputs # <<>> => (Fallback \in Listed(s) <=> Listed(s) \cap Outputs = {})

MonitorsInv ==
  /\ around \in Scenarios /\ w.config \in around.files /\ faults \in 0..MaxFaults
  /\ Base(w) /\ Aimed(w) /\ Housed(w)
  /\ ~answer.lost => Lit(w) /\ Told(w)

\* The invariant of the next state, in terms of what it will be.
LEMMA Restated ==
  ASSUME NEW s, w' = s, around' \in Scenarios, s.config \in around.files, around' = around,
         faults' \in 0..MaxFaults, Base(s), Aimed(s), Housed(s),
         ~answer'.lost => Lit(s) /\ Told(s)
  PROVE  MonitorsInv'
BY ZenonT(90) DEF MonitorsInv, Base, Whole, Aimed, Housed, Lit, Told, Listed, Announced, Fits, Shown

\* How an operation ends: the state it may be taken to.
LEMMA FinishAfterKeeps ==
  ASSUME MonitorsInv, around' = around, NEW what, NEW before, NEW kind, NEW s,
         FinishAfter(what, before, kind, s),
         Base(s), Aimed(s), Housed(s), s.config \in around.files,
         "lost" \notin {before, kind} => Lit(s) /\ Told(s)
  PROVE  /\ MonitorsInv' /\ w' = s /\ answer'.what = what
         /\ answer'.done <=> kind = "done"
         /\ answer'.lost <=> "lost" \in {before, kind}
<1>1. /\ w' = s
      /\ answer' = [what |-> what, done |-> kind = "done", lost |-> "lost" \in {before, kind}]
      /\ faults' = faults + Hit(before) + Hit(kind) /\ faults' <= MaxFaults
  BY DEF FinishAfter
<1>2. /\ answer'.what = what
      /\ answer'.done <=> kind = "done"
      /\ answer'.lost <=> "lost" \in {before, kind}
  BY <1>1
<1>3. faults' \in 0..MaxFaults
  BY <1>1, MonitorsAssumption DEF MonitorsInv, Hit
<1>4. around' \in Scenarios
  BY DEF MonitorsInv
<1> QED
  BY <1>1, <1>2, <1>3, <1>4, Restated

LEMMA FinishKeeps ==
  ASSUME MonitorsInv, around' = around, NEW what, NEW kind, NEW s, Finish(what, kind, s),
         Base(s), Aimed(s), Housed(s), s.config \in around.files,
         kind # "lost" => Lit(s) /\ Told(s)
  PROVE  /\ MonitorsInv' /\ w' = s /\ answer'.what = what
         /\ answer'.done <=> kind = "done"
         /\ answer'.lost <=> kind = "lost"
<1>1. FinishAfter(what, "done", kind, s) /\ ("lost" \in {"done", kind} <=> kind = "lost")
  BY DEF Finish
<1> QED
  BY <1>1, FinishAfterKeeps

\* Operations that end in the configuration they began with.
LEMMA EndsKeep ==
  ASSUME MonitorsInv, ~answer.lost, around' = around, NEW what, NEW end, Ends(end, w),
         end.state.config = w.config, Finish(what, end.kind, end.state)
  PROVE  /\ MonitorsInv' /\ FailedKeeps /\ w' = end.state /\ answer'.what = what
         /\ answer'.done <=> end.kind = "done"
         /\ answer'.lost <=> end.kind = "lost"
         /\ w'.outputs = w.outputs
<1>1. Base(w) /\ Aimed(w) /\ Housed(w) /\ Lit(w) /\ Told(w) /\ w.config \in around.files
  BY DEF MonitorsInv
<1> DEFINE s == end.state
<1>2. Base(s) /\ Listed(s) = Listed(w) /\ s.outputs = w.outputs
  BY DEF Ends, Listed
<1>3. Aimed(s) /\ Housed(s)
  BY <1>1, <1>2 DEF Ends, Aimed, Housed
<1>4. end.kind # "lost" => Lit(s) /\ Told(s)
  BY <1>1 DEF Ends
<1>5. /\ MonitorsInv' /\ w' = s /\ answer'.what = what
      /\ answer'.done <=> end.kind = "done"
      /\ answer'.lost <=> end.kind = "lost"
  BY <1>1, <1>2, <1>3, <1>4, FinishKeeps
<1>6. FailedKeeps
  <2> SUFFICES ASSUME end.kind \notin {"done", "lost"}
               PROVE  /\ \A o \in Listed(w) : Showing(w', o) = Showing(w, o)
                      /\ w'.config = w.config /\ w'.powered = w.powered
                      /\ w'.published = w.published
                      /\ w.focused \in w.enabled => w'.focused = w.focused
    BY <1>5 DEF FailedKeeps
  <2>1. Kept(s, w)
    BY <1>1 DEF Ends
  <2> QED
    BY <1>5, <2>1 DEF Kept
<1> QED
  BY <1>2, <1>5, <1>6

\* The running configuration and the keymap of it do not show.
Configured(s, config, keyed) == [s EXCEPT !.config = config, !.keyed = keyed]

LEMMA ConfigIs ==
  ASSUME NEW s, Base(s), NEW config, Known(config), NEW keyed
  PROVE  LET t == Configured(s, config, keyed) IN
         /\ Base(t) /\ Drawn(t, s) /\ t.published = s.published /\ t.powered = s.powered
         /\ t.config = config /\ t.keyed = keyed
<1> DEFINE c == [s EXCEPT !.config = config]
           t == Configured(s, config, keyed)
<1>1. s = Whole(s)
  BY DEF Base
<1>2. t = [outputs |-> s.outputs, enabled |-> s.enabled, powered |-> s.powered,
           mode |-> s.mode, scale |-> s.scale, rotated |-> s.rotated, at |-> s.at,
           laid |-> s.laid, scene |-> s.scene, full |-> s.full, focused |-> s.focused,
           config |-> config, keyed |-> keyed, locked |-> s.locked,
           blocker |-> s.blocker, published |-> s.published]
  <2>1. c = [outputs |-> s.outputs, enabled |-> s.enabled, powered |-> s.powered,
             mode |-> s.mode, scale |-> s.scale, rotated |-> s.rotated, at |-> s.at,
             laid |-> s.laid, scene |-> s.scene, full |-> s.full, focused |-> s.focused,
             config |-> config, keyed |-> s.keyed, locked |-> s.locked,
             blocker |-> s.blocker, published |-> s.published]
    BY <1>1 DEF Whole
  <2>2. t = [c EXCEPT !.keyed = keyed]
    BY DEF Configured
  <2> HIDE DEF c, t
  <2> QED
    BY <2>1, <2>2
<1> HIDE DEF t
<1>3. /\ t = Whole(t) /\ Drawn(t, s) /\ t.powered = s.powered
      /\ t.config = config /\ t.keyed = keyed /\ t.published = s.published
  BY <1>2 DEF Whole, Drawn, Backend
<1>4. Base(t)
  BY <1>3, DrawnBase DEF Base
<1> QED
  BY <1>3, <1>4 DEF t

\* leme_output_handle_new
LEMMA PlugKeeps ==
  ASSUME MonitorsInv, ~answer.lost, around' = around, NEW o \in Outputs, Plug(o)
  PROVE  MonitorsInv' /\ answer'.what = "plug" /\ w'.outputs # <<>>
<1> DEFINE new == Connected(w, o)
<1>1. PICK end \in ApplyConfig(new, w.config, TRUE) :
        RetireFallback(Publish(end.state), end.kind)
  BY DEF Plug
<1>3. /\ Base(w) /\ Aimed(w) /\ Lit(w) /\ Fits(w) /\ w.config \in around.files
      /\ Known(w.config)
  BY DEF MonitorsInv, Lit, Base
<1>4. o \in All \ Listed(w) /\ o # Fallback
  BY MonitorsAssumption DEF Plug, All
<1>5. /\ Base(new) /\ Listed(new) = Listed(w) \cup {o} /\ Fits(new) /\ Lit(new)
      /\ new.config = w.config /\ new.focused = w.focused
  BY <1>3, <1>4, ConnectedIs
<1> HIDE DEF new
<1>6. Ends(end, new) /\ Fits(end.state) /\ end.state.config = w.config
  <2>1. Base(new) /\ Fits(new) /\ Known(w.config) /\ end \in ApplyConfig(new, w.config, TRUE)
    BY <1>3, <1>5
  <2>2. Ends(end, new) /\ Fits(end.state) /\ end.state.config = new.config
    BY <2>1, ApplyIs, ZenonT(90)
  <2> QED
    BY <1>5, <2>2
<1> DEFINE joined == Publish(end.state)
<1>7. /\ Base(joined) /\ Drawn(joined, end.state) /\ Told(joined)
      /\ joined.config = w.config
  BY <1>6, PublishIs DEF Ends
<1> HIDE DEF joined
<1>8. Listed(joined) = Listed(w) \cup {o} /\ joined.focused = end.state.focused
  BY <1>5, <1>6, <1>7 DEF Drawn, Ends, Listed
<1>9. Aimed(joined)
  BY <1>3, <1>5, <1>6, <1>8 DEF Aimed, Ends
<1>10. Fits(joined) /\ (end.kind # "lost" => Lit(joined))
  BY <1>5, <1>6, <1>7, DrawnSame DEF Ends
<1>11. Listed(joined) # {Fallback}
  BY <1>4, <1>8
<1>12. RetireFallback(joined, end.kind)
  BY <1>1 DEF joined
<1>13. PICK before, kind, r :
         /\ FinishAfter("plug", before, kind, r) /\ end.kind \in {before, kind}
         /\ Lit(joined) /\ "lost" \notin {before, kind} => Lit(r)
         /\ Lit(joined) /\ Told(joined) /\ "lost" \notin {before, kind} => Told(r)
         /\ Base(r) /\ Aimed(r) /\ Listed(r) = Listed(joined) \ {Fallback}
         /\ r.config = joined.config
  BY <1>7, <1>9, <1>10, <1>11, <1>12, RetireIs
<1>14. Housed(r) /\ r.config \in around.files /\ r.outputs # <<>>
  <2>1. o \in Listed(r) /\ o \in Outputs /\ Fallback \notin Listed(r)
    BY <1>4, <1>8, <1>13
  <2>2. r.outputs # <<>>
    BY <2>1 DEF Listed, Elements
  <2> QED
    BY <1>3, <1>7, <1>13, <2>1, <2>2 DEF Housed
<1>15. "lost" \notin {before, kind} => Lit(r) /\ Told(r)
  BY <1>7, <1>10, <1>13
<1> QED
  BY <1>13, <1>14, <1>15, FinishAfterKeeps

\* leme_output_handle_destroy
LEMMA UnplugKeeps ==
  ASSUME MonitorsInv, ~answer.lost, around' = around, NEW o \in Outputs, Unplug(o)
  PROVE  MonitorsInv' /\ answer'.what = "unplug" /\ w'.outputs # <<>>
<1>1. PICK end \in Destroy(w, o) : Finish("unplug", end.kind, end.state)
  BY DEF Unplug, FinishOne
<1>2. /\ Base(w) /\ Aimed(w) /\ Lit(w) /\ Told(w) /\ Fits(w) /\ Housed(w)
      /\ w.config \in around.files /\ o \in Listed(w) /\ w.outputs # <<>>
  BY ListedNone DEF MonitorsInv, Lit, Base, Unplug
<1>3. /\ Base(end.state) /\ Aimed(end.state)
      /\ Listed(end.state) = IF Listed(w) = {o} THEN {Fallback} ELSE Listed(w) \ {o}
      /\ end.kind # "lost" => Lit(end.state) /\ Told(end.state)
      /\ end.state.config = w.config
  BY <1>2, DestroyIs
<1>4. Housed(end.state)
  <2>1. Fallback \notin Listed(w) /\ Listed(w) \subseteq Outputs
    BY <1>2, ListedAll DEF Housed, All
  <2> QED
    BY <1>2, <1>3, <2>1, MonitorsAssumption DEF Housed
<1>5. end.state.outputs # <<>>
  <2>1. Listed(end.state) # {}
    <3>1. Listed(w) # {o} => Listed(w) \ {o} # {}
      BY <1>2
    <3> QED
      BY <1>3, <3>1
  <2> QED
    BY <2>1 DEF Listed, Elements
<1> QED
  BY <1>1, <1>2, <1>3, <1>4, <1>5, FinishKeeps

LEMMA KeyedIs ==
  ASSUME NEW s, Base(s), NEW keyed
  PROVE  LET t == [s EXCEPT !.keyed = keyed] IN
         /\ Base(t) /\ Drawn(t, s) /\ t.published = s.published /\ t.powered = s.powered
         /\ t.config = s.config
<1> DEFINE t == [s EXCEPT !.keyed = keyed]
<1>1. s = Whole(s)
  BY DEF Base
<1>2. t = [outputs |-> s.outputs, enabled |-> s.enabled, powered |-> s.powered,
           mode |-> s.mode, scale |-> s.scale, rotated |-> s.rotated, at |-> s.at,
           laid |-> s.laid, scene |-> s.scene, full |-> s.full, focused |-> s.focused,
           config |-> s.config, keyed |-> keyed, locked |-> s.locked,
           blocker |-> s.blocker, published |-> s.published]
  BY <1>1 DEF Whole
<1> HIDE DEF t
<1>3. /\ t = Whole(t) /\ Drawn(t, s) /\ t.powered = s.powered
      /\ t.config = s.config /\ t.published = s.published
  BY <1>2 DEF Whole, Drawn, Backend
<1>4. Base(t)
  BY <1>3, DrawnBase DEF Base
<1> QED
  BY <1>3, <1>4 DEF t

\* An operation cannot tell sessions apart that are drawn alike.
LEMMA DrawnEnds ==
  ASSUME NEW s, NEW k, Drawn(k, s), k.config = s.config, k.powered = s.powered,
         k.published = s.published, NEW end, Ends(end, k)
  PROVE  Ends(end, s)
<1>1. /\ Listed(k) = Listed(s) /\ (Lit(k) <=> Lit(s)) /\ Announced(k) = Announced(s)
      /\ \A o : Showing(k, o) = Showing(s, o)
  BY DrawnSame
<1>2. k.outputs = s.outputs /\ k.focused = s.focused /\ k.enabled = s.enabled
  BY DEF Drawn, Backend
<1>3. Told(k) <=> Told(s)
  BY <1>1 DEF Told
<1>4. Kept(end.state, k) => Kept(end.state, s)
  BY <1>1, <1>2 DEF Kept
<1> QED
  BY <1>1, <1>2, <1>3, <1>4 DEF Ends

\* The outputs' part of leme_config_apply
LEMMA ReloadKeeps ==
  ASSUME MonitorsInv, ~answer.lost, around' = around, NEW next \in around.files, Reload(next)
  PROVE  MonitorsInv' /\ FailedKeeps /\ answer'.what = "reload" /\ w'.outputs = w.outputs
<1>1. /\ Base(w) /\ Aimed(w) /\ Housed(w) /\ Lit(w) /\ Told(w) /\ Known(next)
  BY DEF MonitorsInv, Known
<1>2. CASE Finish("reload", "failed", w)
  <2> DEFINE end == Outcome(w, "failed")
  <2>1. end.state = w /\ end.kind = "failed" /\ Ends(end, w)
    BY <1>1, NothingEnds DEF Outcome
  <2> HIDE DEF end
  <2> QED
    BY <1>2, <2>1, EndsKeep
<1>3. CASE \E keyed \in {[w EXCEPT !.keyed = next = w.config]} :
             \E end \in ApplyConfig(keyed, next, FALSE) :
               Finish("reload", end.kind,
                 IF end.kind = "done" THEN [end.state EXCEPT !.config = next, !.keyed = TRUE]
                 ELSE end.state)
  <2> DEFINE keyed == [w EXCEPT !.keyed = next = w.config]
  <2>1. PICK end \in ApplyConfig(keyed, next, FALSE) :
          Finish("reload", end.kind,
            IF end.kind = "done" THEN [end.state EXCEPT !.config = next, !.keyed = TRUE]
            ELSE end.state)
    BY <1>3
  <2>2. /\ Base(keyed) /\ Drawn(keyed, w) /\ keyed.published = w.published
        /\ keyed.powered = w.powered /\ keyed.config = w.config
    BY <1>1, KeyedIs
  <2> HIDE DEF keyed
  <2>3. Lit(keyed) /\ Fits(keyed) /\ Told(keyed)
    BY <1>1, <2>2, DrawnSame DEF Lit, Told
  <2>4. Ends(end, keyed) /\ end.state.config = w.config
    <3>1. Base(keyed) /\ Fits(keyed) /\ Known(next)
      BY <1>1, <2>2, <2>3
    <3>2. Ends(end, keyed) /\ end.state.config = keyed.config
      BY <3>1, ApplyIs, ZenonT(90)
    <3> QED
      BY <2>2, <3>2
  <2>5. Ends(end, w)
    BY <2>2, <2>4, DrawnEnds
  <2>6. CASE end.kind = "done"
    <3> DEFINE t == end.state
               yes == TRUE
               s == Configured(t, next, yes)
    <3>1. Base(t) /\ t.outputs = w.outputs /\ Listed(t) = Listed(w) /\ Lit(t) /\ Told(t)
          /\ t.focused \in Listed(w) \cup {NONE, w.focused}
      BY <1>1, <2>5, <2>6 DEF Ends, Listed
    <3> HIDE DEF t, yes
    <3>2. Base(s) /\ Drawn(s, t) /\ s.published = t.published /\ s.config = next
      <4>1. Base(t) /\ Known(next)
        BY <1>1, <3>1
      <4> QED
        BY <4>1, ConfigIs
    <3>3. Finish("reload", "done", s)
      BY <2>1, <2>6 DEF t, yes, Configured
    <3> HIDE DEF s
    <3>4. Lit(s) /\ Told(s) /\ Listed(s) = Listed(w) /\ s.outputs = w.outputs
          /\ s.focused = t.focused
      BY <3>1, <3>2, DrawnSame DEF Told, Drawn
    <3>5. Aimed(s) /\ Housed(s)
      BY <1>1, <3>1, <3>4 DEF Aimed, Housed
    <3>6. MonitorsInv' /\ answer'.what = "reload" /\ answer'.done /\ w' = s
      BY <3>2, <3>3, <3>4, <3>5, FinishKeeps
    <3> QED
      BY <3>4, <3>6 DEF FailedKeeps
  <2>7. CASE end.kind # "done"
    <3>1. Finish("reload", end.kind, end.state)
      BY <2>1, <2>7
    <3> QED
      BY <2>4, <2>5, <3>1, EndsKeep
  <2> QED
    BY <2>6, <2>7
<1> QED
  BY <1>2, <1>3 DEF Reload

\* leme_output_handle_manager_apply
LEMMA ApplyKeeps ==
  ASSUME MonitorsInv, ~answer.lost, around' = around, NEW request \in Requests,
         ManagerApply(request)
  PROVE  MonitorsInv' /\ FailedKeeps /\ answer'.what = "apply" /\ w'.outputs = w.outputs
<1>1. Base(w) /\ Lit(w) /\ Fits(w) /\ around \in Scenarios
  BY DEF MonitorsInv, Lit
<1>2. CASE Finish("apply", "failed", w)
  <2> DEFINE end == Outcome(w, "failed")
  <2>1. end.state = w /\ end.kind = "failed" /\ Ends(end, w)
    BY <1>1, NothingEnds DEF Outcome
  <2> HIDE DEF end
  <2> QED
    BY <1>2, <2>1, EndsKeep
<1>3. CASE /\ RequestValid(w, request)
           /\ FinishOne("apply", {Published(end) : end \in CommitAndReconcile(w, request)})
  <2>1. PICK e \in CommitAndReconcile(w, request) :
          Finish("apply", Published(e).kind, Published(e).state)
    BY <1>3 DEF FinishOne
  <2>2. /\ DOMAIN request \subseteq Listed(w)
        /\ \A o \in DOMAIN request : request[o] \in around.heads
    BY DEF Requests, ManagerApply
  <2>3. HeadsShape(w, request) /\ Fits(Switched(w, request))
    BY <1>1, <1>3, <2>2, RequestFits
  <2> DEFINE end == Published(e)
  <2>4. Ends(end, w) /\ end.state.config = w.config
    BY <1>1, <2>3, CommitEnds
  <2> HIDE DEF end
  <2>5. Finish("apply", end.kind, end.state)
    BY <2>1 DEF end
  <2> QED
    BY <2>4, <2>5, EndsKeep
<1> QED
  BY <1>2, <1>3 DEF ManagerApply

\* leme_output_set_power
LEMMA PowerKeeps ==
  ASSUME MonitorsInv, ~answer.lost, around' = around, NEW o \in All, NEW on \in BOOLEAN,
         SetPower(o, on)
  PROVE  MonitorsInv' /\ FailedKeeps /\ WakeHarmless /\ w'.outputs = w.outputs
<1>1. Base(w) /\ Lit(w) /\ o \in Listed(w)
  BY DEF MonitorsInv, SetPower
<1> DEFINE what == IF on THEN "wake" ELSE "darken"
<1>2. PICK end \in (IF ~on /\ o = Fallback THEN {Outcome(w, "failed")}
                    ELSE IF (o \in w.enabled) = on THEN {Outcome(Wish(w, o, on), "done")}
                    ELSE IF on THEN Wake(w, o) ELSE Darken(w, o)) :
        Finish(what, end.kind, end.state)
  BY DEF SetPower, FinishOne
<1>3. /\ Ends(end, w) /\ end.state.config = w.config
      /\ on => Undisturbed(end, w, o)
  BY <1>1, <1>2, PowerEnds
<1> HIDE DEF what
<1>4. /\ MonitorsInv' /\ FailedKeeps /\ w' = end.state /\ answer'.what = what
      /\ answer'.done <=> end.kind = "done"
      /\ answer'.lost <=> end.kind = "lost"
      /\ w'.outputs = w.outputs
  BY <1>2, <1>3, EndsKeep
<1>5. WakeHarmless
  <2> SUFFICES ASSUME what = "wake", end.kind # "lost"
               PROVE  \E p \in Listed(w) : \A other \in Listed(w) :
                        other # p \/ end.kind # "done" => Showing(w', other) = Showing(w, other)
    BY <1>4 DEF WakeHarmless
  <2>1. Undisturbed(end, w, o)
    BY <1>3 DEF what
  <2> QED
    BY <1>1, <1>4, <2>1 DEF Undisturbed
<1> QED
  BY <1>4, <1>5

\* leme_render_session_set_locked
LEMMA LockKeeps ==
  ASSUME MonitorsInv, ~answer.lost, around' = around, SetLocked
  PROVE  MonitorsInv' /\ answer'.what = "other" /\ w'.outputs = w.outputs
<1> DEFINE locked == ~w.locked
           blocker == LayoutBox(w)
           c == [w EXCEPT !.locked = locked]
           t == [w EXCEPT !.locked = locked, !.blocker = blocker]
<1>1. /\ faults' = faults /\ answer' = [what |-> "other", done |-> TRUE, lost |-> FALSE]
      /\ w' = t
  BY DEF SetLocked, Other
<1>2. /\ Base(w) /\ Aimed(w) /\ Housed(w) /\ Lit(w) /\ Told(w) /\ w = Whole(w)
  BY DEF MonitorsInv, Base
<1>3. t = [outputs |-> w.outputs, enabled |-> w.enabled, powered |-> w.powered,
           mode |-> w.mode, scale |-> w.scale, rotated |-> w.rotated, at |-> w.at,
           laid |-> w.laid, scene |-> w.scene, full |-> w.full, focused |-> w.focused,
           config |-> w.config, keyed |-> w.keyed, locked |-> locked,
           blocker |-> blocker, published |-> w.published]
  <2> HIDE DEF locked, blocker
  <2>1. c = [outputs |-> w.outputs, enabled |-> w.enabled, powered |-> w.powered,
             mode |-> w.mode, scale |-> w.scale, rotated |-> w.rotated, at |-> w.at,
             laid |-> w.laid, scene |-> w.scene, full |-> w.full, focused |-> w.focused,
             config |-> w.config, keyed |-> w.keyed, locked |-> locked,
             blocker |-> w.blocker, published |-> w.published]
    BY <1>2 DEF Whole
  <2>2. t = [c EXCEPT !.blocker = blocker]
    OBVIOUS
  <2> HIDE DEF c, t
  <2> QED
    BY <2>1, <2>2
<1> HIDE DEF c, t, locked, blocker
<1>4. /\ t.outputs = w.outputs /\ t.laid = w.laid /\ t.scene = w.scene /\ t.full = w.full
      /\ t.focused = w.focused /\ t.config = w.config /\ t.powered = w.powered
      /\ t.blocker = blocker /\ t.published = w.published
      /\ Backend(t, w) /\ t = Whole(t)
  BY <1>3 DEF Whole, Backend
<1>5. Listed(t) = Listed(w)
  BY <1>4 DEF Listed
<1>6. Base(t)
  BY <1>2, <1>4, <1>5 DEF Base, Backend
<1>7. Lit(t)
  <2>1. \A o \in w.enabled : Within(Spot(Shown(w, o)), LayoutBox(w))
    BY <1>2, ListedAll, LayoutCovers DEF Lit
  <2>2. (Fits(t) <=> Fits(w)) /\ \A o : Shown(t, o) = Shown(w, o)
    BY <1>4, BackendShown
  <2> QED
    BY <1>2, <1>4, <2>1, <2>2 DEF Lit, Backend, blocker
<1>8. Told(t) /\ Aimed(t) /\ Housed(t)
  BY <1>2, <1>4, <1>5 DEF Told, Announced, Backend, Aimed, Housed
<1>9. t.config \in around.files /\ faults' \in 0..MaxFaults /\ around' \in Scenarios
  BY <1>1, <1>4 DEF MonitorsInv
<1> QED
  BY <1>1, <1>4, <1>6, <1>7, <1>8, <1>9, Restated

\* leme_output_set_focused
LEMMA FocusKeeps ==
  ASSUME MonitorsInv, ~answer.lost, around' = around, NEW o \in All, SetFocused(o)
  PROVE  MonitorsInv' /\ answer'.what = "other" /\ w'.outputs = w.outputs
<1> DEFINE t == [w EXCEPT !.focused = o]
<1>1. /\ faults' = faults /\ answer' = [what |-> "other", done |-> TRUE, lost |-> FALSE]
      /\ w' = t /\ o \in w.enabled
  BY DEF SetFocused, Other
<1>2. /\ Base(w) /\ Aimed(w) /\ Housed(w) /\ Lit(w) /\ Told(w) /\ w = Whole(w)
  BY DEF MonitorsInv, Base
<1>3. t = [outputs |-> w.outputs, enabled |-> w.enabled, powered |-> w.powered,
           mode |-> w.mode, scale |-> w.scale, rotated |-> w.rotated, at |-> w.at,
           laid |-> w.laid, scene |-> w.scene, full |-> w.full, focused |-> o,
           config |-> w.config, keyed |-> w.keyed, locked |-> w.locked,
           blocker |-> w.blocker, published |-> w.published]
  BY <1>2 DEF Whole
<1> HIDE DEF t
<1>4. /\ t.outputs = w.outputs /\ t.laid = w.laid /\ t.scene = w.scene /\ t.full = w.full
      /\ t.focused = o /\ t.config = w.config /\ t.powered = w.powered
      /\ t.locked = w.locked /\ t.blocker = w.blocker /\ t.published = w.published
      /\ Backend(t, w) /\ t = Whole(t)
  BY <1>3 DEF Whole, Backend
<1>5. Listed(t) = Listed(w) /\ o \in Listed(w)
  BY <1>1, <1>2, <1>4 DEF Listed, Base
<1>6. Base(t)
  BY <1>2, <1>4, <1>5 DEF Base, Backend
<1>7. Lit(t)
  <2>1. (Fits(t) <=> Fits(w)) /\ \A p : Shown(t, p) = Shown(w, p)
    BY <1>4, BackendShown
  <2> QED
    BY <1>1, <1>2, <1>4, <2>1 DEF Lit, Backend
<1>8. Told(t) /\ Aimed(t) /\ Housed(t)
  BY <1>2, <1>4, <1>5 DEF Told, Announced, Backend, Aimed, Housed
<1>9. t.config \in around.files /\ faults' \in 0..MaxFaults /\ around' \in Scenarios
  BY <1>1, <1>4 DEF MonitorsInv
<1> QED
  BY <1>1, <1>4, <1>6, <1>7, <1>8, <1>9, Restated

-----------------------------------------------------------------------------
(* What the invariant says, and the theorems                               *)

\* Before the backend starts nothing is on and nobody was told of anything.
LEMMA InitKeeps ==
  ASSUME Init
  PROVE  MonitorsInv
<1>1. PICK config \in around.files :
       w = [outputs |-> <<>>, enabled |-> {}, powered |-> {},
            mode |-> [o \in All |-> NoMode], scale |-> [o \in All |-> 2], rotated |-> {},
            at |-> [o \in All |-> <<0, 0>>], laid |-> [o \in All |-> Unplaced], scene |-> {},
            full |-> [o \in All |-> Box(<<0, 0>>, NoSize)], focused |-> NONE,
            config |-> config, keyed |-> TRUE, locked |-> FALSE,
            blocker |-> Box(<<0, 0>>, NoSize), published |-> NoHeads]
  BY DEF Init
<1>2. /\ around \in Scenarios /\ config \in around.files
      /\ answer = [what |-> "other", done |-> TRUE, lost |-> FALSE] /\ faults = 0
  BY <1>1 DEF Init
<1>3. /\ w.outputs = <<>> /\ w.enabled = {} /\ w.powered = {} /\ w.scene = {}
      /\ w.rotated = {} /\ w.focused = NONE /\ w.config = config /\ ~w.locked
      /\ w.mode = [o \in All |-> NoMode] /\ w.scale = [o \in All |-> 2]
      /\ w.at = [o \in All |-> <<0, 0>>] /\ w.laid = [o \in All |-> Unplaced]
      /\ w.full = [o \in All |-> Box(<<0, 0>>, NoSize)]
      /\ w.published = NoHeads /\ w = Whole(w)
  BY <1>1 DEF Whole
<1>4. Listed(w) = {} /\ w.outputs \in Seq(All) /\ Distinct(w.outputs)
  BY <1>3 DEF Listed, Elements, Distinct
<1>5. Base(w)
  <2>1. <<0, 0>> \in Places /\ 2 \in Scales
    BY IntMaxAssumption DEF Places, IntMin, Scales
  <2>2. Known(w.config)
    BY <1>2, <1>3 DEF Known
  <2>3. /\ w.mode = [o \in All |-> w.mode[o]] /\ \A o \in All : w.mode[o] \in Sizes(o)
        /\ w.scale \in [All -> Scales] /\ w.at \in [All -> Places]
        /\ w.laid \in [All -> {Unplaced} \cup Places]
        /\ \A o \in All : ~(w.laid[o] # Unplaced)
        /\ w.full = [o \in All |-> w.full[o]]
    BY <1>3, <2>1 DEF Sizes
  <2> QED
    BY <1>3, <1>4, <2>2, <2>3 DEF Base
<1>6. Lit(w)
  BY <1>3 DEF Lit, Fits
<1>7. Told(w)
  BY <1>3, <1>4 DEF Told, Announced, NoHeads
<1>8. Aimed(w) /\ Housed(w)
  BY <1>3 DEF Aimed, Housed
<1> QED
  BY <1>2, <1>3, <1>5, <1>6, <1>7, <1>8, MonitorsAssumption DEF MonitorsInv

\* Every operation keeps the invariant, and does no harm when it fails.
LEMMA NextKeeps ==
  ASSUME MonitorsInv, Next
  PROVE  /\ MonitorsInv' /\ WakeHarmless /\ FailedKeeps
         /\ w.outputs # <<>> => w'.outputs # <<>>
<1>1. ~answer.lost /\ around' = around
  BY DEF Next
<1>2. CASE \E o \in Outputs : Plug(o)
  BY <1>1, <1>2, PlugKeeps DEF WakeHarmless, FailedKeeps
<1>3. CASE \E o \in Outputs : Unplug(o)
  BY <1>1, <1>3, UnplugKeeps DEF WakeHarmless, FailedKeeps
<1>4. CASE \E next \in around.files : Reload(next)
  BY <1>1, <1>4, ReloadKeeps DEF WakeHarmless
<1>5. CASE \E request \in Requests : ManagerApply(request)
  BY <1>1, <1>5, ApplyKeeps DEF WakeHarmless
<1>6. CASE \E o \in All, on \in BOOLEAN : SetPower(o, on)
  BY <1>1, <1>6, PowerKeeps
<1>7. CASE SetLocked
  BY <1>1, <1>7, LockKeeps DEF WakeHarmless, FailedKeeps
<1>8. CASE \E o \in All : SetFocused(o)
  BY <1>1, <1>8, FocusKeeps DEF WakeHarmless, FailedKeeps
<1> QED
  BY <1>2, <1>3, <1>4, <1>5, <1>6, <1>7, <1>8 DEF Next, Operations

\* Where nothing happens the invariant stays.
LEMMA StutterKeeps ==
  ASSUME MonitorsInv, UNCHANGED vars
  PROVE  MonitorsInv'
BY ZenonT(90) DEF MonitorsInv, vars, Base, Whole, Aimed, Housed, Lit, Told, Listed, Announced, Fits, Shown

\* The screens of a session that is not lost.
LEMMA LitScreens ==
  ASSUME NEW s, Lit(s), Base(s), NEW o \in s.enabled
  PROVE  Screen(s, o) = Spot(Shown(s, o))
<1>1. o \in All
  BY ListedAll DEF Base
<1> QED
  BY <1>1, ScreenIsSpot DEF Lit

LEMMA InvNoOverlap ==
  ASSUME MonitorsInv
  PROVE  NoOverlap
<1> SUFFICES ASSUME ~answer.lost, NEW a \in w.enabled, NEW b \in w.enabled, a # b
             PROVE  Compatible(Screen(w, a), Screen(w, b))
  BY DEF NoOverlap, Sound
<1>1. Lit(w) /\ Base(w)
  BY DEF MonitorsInv
<1>2. Compatible(Spot(Shown(w, a)), Spot(Shown(w, b)))
  BY <1>1 DEF Lit, Fits
<1> QED
  BY <1>1, <1>2, LitScreens

LEMMA InvScreensSound ==
  ASSUME MonitorsInv
  PROVE  ScreensSound
<1>1. /\ Base(w) /\ Aimed(w) /\ Housed(w) /\ Listed(w) \subseteq All
      /\ w.config \in around.files /\ faults \in 0..MaxFaults
  BY ListedAll DEF MonitorsInv
<1>2. TypeOK
  <2>1. w.outputs \in Seq(All) /\ Distinct(w.outputs)
    BY <1>1 DEF Base
  <2>2. Len(w.outputs) = Cardinality(Listed(w))
    BY <2>1, DistinctLength DEF Listed
  <2>3. \A o \in All : w.at[o] \in Places /\ w.laid[o] \in {Unplaced} \cup Places
    BY <1>1 DEF Base
  <2>4. /\ w.enabled \subseteq Listed(w) /\ w.powered \subseteq Listed(w)
        /\ w.scene \subseteq Listed(w) /\ w.rotated \subseteq Listed(w)
    BY <1>1 DEF Base
  <2> QED
    BY <1>1, <2>2, <2>3, <2>4 DEF TypeOK, Aimed, Places
<1>3. SceneAgrees
  <2> SUFFICES ASSUME ~answer.lost
               PROVE  /\ w.scene = w.enabled
                      /\ {o \in All : w.laid[o] # Unplaced} = w.enabled
                      /\ \A o \in w.enabled : w.laid[o] = w.at[o] /\ w.full[o] = Screen(w, o)
                      /\ w.enabled # {} => w.focused \in w.enabled
    BY DEF SceneAgrees, Sound
  <2>1. Lit(w) /\ w.enabled \subseteq All
    BY <1>1 DEF MonitorsInv, Base
  <2>2. \A o \in All : w.at[o] # Unplaced
    BY <1>1, PlacedIs DEF Base
  <2>3. {o \in All : w.laid[o] # Unplaced} = w.enabled
    BY <2>1, <2>2 DEF Lit
  <2>4. \A o \in w.enabled : w.laid[o] = w.at[o] /\ w.full[o] = Screen(w, o)
    BY <1>1, <2>1, LitScreens DEF Lit
  <2> QED
    BY <2>1, <2>3, <2>4 DEF Lit
<1>4. LockCovers
  <2> SUFFICES ASSUME ~answer.lost, w.locked, NEW o \in w.scene
               PROVE  Within(Screen(w, o), w.blocker)
    BY DEF LockCovers, Sound
  <2>1. Lit(w) /\ o \in w.enabled
    BY DEF MonitorsInv, Lit
  <2> QED
    BY <1>1, <2>1, LitScreens DEF Lit
<1>5. ManagerInformed
  BY <1>1, ToldIs DEF MonitorsInv, ManagerInformed, Sound
<1> QED
  BY <1>2, <1>3, <1>4, <1>5 DEF ScreensSound

\* The invariant holds of every state of every session.
LEMMA MonitorsInvariant == Spec => []MonitorsInv
<1>1. Init => MonitorsInv
  BY InitKeeps
<1>2. MonitorsInv /\ [Next]_vars => MonitorsInv'
  BY NextKeeps, StutterKeeps
<1> QED
  BY <1>1, <1>2, PTL DEF Spec

\* Two outputs that are on never share a point of the layout, whatever a
\* configuration, a client, a hotplug or a failure made of them
\* (output/output.c, output/placement.c).
THEOREM LitNeverOverlap == Spec => []NoOverlap
<1>1. MonitorsInv => NoOverlap
  BY InvNoOverlap
<1> QED
  BY <1>1, MonitorsInvariant, PTL

\* The outputs, the layout, the scene, the cover of the lock and what clients
\* were told agree after every operation, those that fail half way included, a
\* connector that comes while the headless fallback leaves among them
\* (leme_output_reconcile and the ways back to it).
THEOREM ScreensStaySound == Spec => []ScreensSound
<1>1. MonitorsInv => ScreensSound
  BY InvScreensSound
<1> QED
  BY <1>1, MonitorsInvariant, PTL

\* No step takes the last output away, and the headless fallback is there
\* exactly while no connector is, however what is left was configured
\* (leme_output_ensure_fallback, leme_output_retire_fallback).
THEOREM FallbackStaysReady == Spec => FallbackReady
<1>1. MonitorsInv /\ MonitorsInv' /\ [Next]_vars =>
        [(w.outputs # <<>> \/ w'.outputs # <<>>) =>
           (Fallback \in Listed(w')) = (Listed(w') \cap Outputs = {})]_vars
  <2> SUFFICES ASSUME MonitorsInv, MonitorsInv', Next, w.outputs # <<>> \/ w'.outputs # <<>>
               PROVE  (Fallback \in Listed(w')) = (Listed(w') \cap Outputs = {})
    OBVIOUS
  <2>1. w'.outputs # <<>>
    BY NextKeeps
  <2>2. Housed(w')
    BY DEF MonitorsInv, Housed, Listed
  <2> QED
    BY <2>1, <2>2 DEF Housed
<1> QED
  BY <1>1, MonitorsInvariant, PTL DEF Spec, FallbackReady

\* No operation that fails does harm, and a wake does none at all
\* (leme_output_commit_and_reconcile, leme_output_set_power).
THEOREM FailuresStayHarmless == Spec => FailuresHarmless
<1>1. MonitorsInv /\ [Next]_vars => [WakeHarmless /\ FailedKeeps]_vars
  BY NextKeeps
<1> QED
  BY <1>1, MonitorsInvariant, PTL DEF Spec, FailuresHarmless
=============================================================================
