------------------------------ MODULE Placement ------------------------------
(***************************************************************************)
(* Where outputs go in the layout: output/placement.c, and the boxes of    *)
(* output/output.c.  A coordinate is a C int, from IntMin to IntMax.       *)
(*                                                                         *)
(* Requests are a sequence in connect order.  A request has the name of    *)
(* its output, its size, the position or the relation its configuration    *)
(* block gives, and the name the relation refers to.                       *)
(***************************************************************************)
EXTENDS Integers, Sequences, FiniteSets

CONSTANT IntMax   \* INT_MAX

ASSUME IntMaxAssumption == IntMax \in Nat \ {0}

IntMin == -IntMax - 1

Unplaced == <<>>

-----------------------------------------------------------------------------
(* Placement                                                               *)

\* leme_placement_clamp
Clamp(n) == IF n > IntMax THEN IntMax ELSE IF n < IntMin THEN IntMin ELSE n

\* Mutant: a coordinate may leave the range of an int.
BesideUnclamped(request, reference, anchor) ==
  CASE request.relation = "left_of" -> <<anchor[1] - request.size.width, anchor[2]>>
    [] request.relation = "right_of" -> <<anchor[1] + reference.size.width, anchor[2]>>
    [] request.relation = "top_of" -> <<anchor[1], anchor[2] - request.size.height>>
    [] request.relation = "bottom_of" -> <<anchor[1], anchor[2] + reference.size.height>>

\* leme_placement_apply_relation
Beside(request, reference, anchor) ==
  CASE request.relation = "left_of" ->
         <<Clamp(anchor[1] - request.size.width), anchor[2]>>
    [] request.relation = "right_of" ->
         <<Clamp(anchor[1] + reference.size.width), anchor[2]>>
    [] request.relation = "top_of" ->
         <<anchor[1], Clamp(anchor[2] - request.size.height)>>
    [] request.relation = "bottom_of" ->
         <<anchor[1], Clamp(anchor[2] + reference.size.height)>>

\* The requests that request i may be placed beside.
References(requests, placements, i) ==
  {j \in DOMAIN requests \ {i} :
     placements[j] # Unplaced /\ requests[j].name = requests[i].relative_to}

\* One pass of leme_placement_resolve over the relations.  A pass of the code
\* may already use what it has just placed; the passes end in the same place.
RelatedOnce(requests, placements) ==
  [i \in DOMAIN requests |->
     LET references == References(requests, placements, i) IN
     IF \/ placements[i] # Unplaced \/ requests[i].relation = "none"
        \/ references = {}
     THEN placements[i]
     ELSE LET j == CHOOSE j \in references : TRUE
          IN Beside(requests[i], requests[j], placements[j])]

Related(requests) ==
  LET pass[k \in 0..Len(requests)] ==
        IF k = 0 THEN [i \in DOMAIN requests |-> requests[i].position]
        ELSE RelatedOnce(requests, pass[k - 1])
  IN pass[Len(requests)]

\* leme_placement_right_edge
RightEdge(requests, placements) ==
  LET edges == {0} \cup {Clamp(placements[i][1] + requests[i].size.width) :
                           i \in {j \in DOMAIN requests : placements[j] # Unplaced}}
  IN CHOOSE edge \in edges : \A other \in edges : other <= edge

\* leme_placement_resolve: positions, relations, and what is left over at the
\* right edge, in connect order.
Resolve(requests) ==
  LET placed[k \in 0..Len(requests)] ==
        IF k = 0 THEN Related(requests)
        ELSE IF placed[k - 1][k] # Unplaced THEN placed[k - 1]
        ELSE [placed[k - 1] EXCEPT ![k] = <<RightEdge(requests, placed[k - 1]), 0>>]
  IN placed[Len(requests)]

-----------------------------------------------------------------------------
(* Sizes and boxes.  A scale is given in halves.                           *)

NoSize == [width |-> 0, height |-> 0]

Turned(size, rotated) ==
  IF rotated THEN [width |-> size.height, height |-> size.width] ELSE size

\* leme_output_logical_size rounds; NoSize when there is none.
LogicalSize(size, scale, rotated) ==
  LET turned == Turned(size, rotated)
      rounded(n) == (4 * n + scale) \div (2 * scale)
      width == rounded(turned.width)
      height == rounded(turned.height)
  IN IF \/ size.width <= 0 \/ size.height <= 0
        \/ width \notin 1..IntMax \/ height \notin 1..IntMax
     THEN NoSize ELSE [width |-> width, height |-> height]

\* wlr_output_effective_resolution cuts.
EffectiveSize(size, scale, rotated) ==
  LET turned == Turned(size, rotated) IN
  [width |-> (2 * turned.width) \div scale, height |-> (2 * turned.height) \div scale]

Box(at, size) == [x |-> at[1], y |-> at[2], width |-> size.width, height |-> size.height]

Right(box) == box.x + box.width
Bottom(box) == box.y + box.height

\* leme_output_box_edges
HasEdges(box) ==
  /\ box.width > 0 /\ box.height > 0
  /\ Right(box) \in IntMin..IntMax /\ Bottom(box) \in IntMin..IntMax

\* leme_output_boxes_overlap: a box without edges overlaps every other.
Overlap(first, second) ==
  \/ ~HasEdges(first) \/ ~HasEdges(second)
  \/ /\ first.x < Right(second) /\ second.x < Right(first)
     /\ first.y < Bottom(second) /\ second.y < Bottom(first)

Lesser(a, b) == IF a < b THEN a ELSE b
Greater(a, b) == IF a < b THEN b ELSE a

\* leme_output_boxes_fit_layout
FitLayout(first, second) ==
  /\ HasEdges(first) /\ HasEdges(second)
  /\ Greater(Right(first), Right(second)) - Lesser(first.x, second.x) <= IntMax
  /\ Greater(Bottom(first), Bottom(second)) - Lesser(first.y, second.y) <= IntMax

Compatible(first, second) == FitLayout(first, second) /\ ~Overlap(first, second)

\* The box around some boxes: wlr_output_layout_get_box, and the one of
\* leme_render_session_prepare_output_wake.
Around(boxes) ==
  IF boxes = {} THEN Box(<<0, 0>>, NoSize)
  ELSE LET low(S) == CHOOSE n \in S : \A m \in S : n <= m
           high(S) == CHOOSE n \in S : \A m \in S : m <= n
           x == low({b.x : b \in boxes})
           y == low({b.y : b \in boxes})
       IN [x |-> x, y |-> y, width |-> high({Right(b) : b \in boxes}) - x,
           height |-> high({Bottom(b) : b \in boxes}) - y]

Within(box, outer) ==
  /\ outer.x <= box.x /\ outer.y <= box.y
  /\ Right(box) <= Right(outer) /\ Bottom(box) <= Bottom(outer)

=============================================================================
