------------------------------ MODULE Geometry ------------------------------
(***************************************************************************)
(* The arithmetic of workspace/layout.c: how a box is cut in two, the      *)
(* columns of the list layouts, the drop under the cursor, the neighbour   *)
(* in a direction and the boxes of floating windows, whose coordinates     *)
(* saturate at the limits of int.                                          *)
(***************************************************************************)
EXTENDS Integers, Sequences

CONSTANTS
  IntMax,        \* INT_MAX, and INT_MIN is -IntMax - 1
  NMaster        \* layout->nmaster

ASSUME GeometryAssumption == IntMax \in Nat /\ NMaster \in 1..16

IntMin == -IntMax - 1
Box(x, y, width, height) == [x |-> x, y |-> y, width |-> width, height |-> height]

Directions == {"left", "right", "up", "down"}
Axis(d) == IF d \in {"left", "right"} THEN "horizontal" ELSE "vertical"
Leading(d) == d \in {"left", "up"}

Least(a, b) == IF a < b THEN a ELSE b
Most(a, b) == IF a > b THEN a ELSE b
Within(low, n, high) == Most(low, Least(n, high))
Abs(n) == IF n < 0 THEN -n ELSE n

-----------------------------------------------------------------------------
(* Tiles.                                                                  *)

\* Mutant: the second tile forgets the gap.
CutSizeNoGap(size, ratio, gap) ==
  LET used == IF gap <= size - 2 THEN gap ELSE 0
      available == size - used
      first == Within(1, (available * ratio) \div 10, available - 1)
  IN IF available < 2 THEN <<1, 0, 1>> ELSE <<first, first, available - first + used>>

\* The sizes of both parts and the offset of the second one, along the axis.
CutSize(size, ratio, gap) ==
  LET used == IF gap <= size - 2 THEN gap ELSE 0
      available == size - used
      first == Within(1, (available * ratio) \div 10, available - 1)
  IN IF available < 2 THEN <<1, 0, 1>> ELSE <<first, first + used, available - first>>

\* The branch of leme_layout_arrange_node.
Cut(box, split, ratio, gap) ==
  LET h == CutSize(box.width, ratio, gap)
      v == CutSize(box.height, ratio, gap)
  IN IF split = "horizontal"
     THEN <<[box EXCEPT !.width = h[1]],
            [box EXCEPT !.x = @ + h[2], !.width = h[3]]>>
     ELSE <<[box EXCEPT !.height = v[1]],
            [box EXCEPT !.y = @ + v[2], !.height = v[3]]>>

\* Mutant: the tiles of a column that is too short have no height.
ColumnBare(order, area, gap) ==
  LET count == Len(order)
      available == Most(area.height - (count - 1) * gap, 0)
      height == available \div count
  IN [k \in 1..count |->
        Box(area.x, area.y + (k - 1) * (height + gap), area.width,
            IF k = count THEN available - (count - 1) * height ELSE height)]

\* leme_layout_arrange_column
Column(order, area, gap) ==
  LET count == Len(order)
      available == Most(area.height - (count - 1) * gap, count)
      height == available \div count
  IN [k \in 1..count |->
        Box(area.x, area.y + (k - 1) * (height + gap), area.width,
            IF k = count THEN available - (count - 1) * height ELSE height)]

Placed(order, boxes) ==
  [v \in {order[k] : k \in DOMAIN order} |->
     boxes[CHOOSE k \in DOMAIN order : order[k] = v]]

\* leme_layout_arrange_master_stack; mfact is in tenths.
MasterStackBoxes(order, mfact, area, gap) ==
  LET masters == Least(NMaster, Len(order))
      wanted == ((area.width - gap) * mfact) \div 10
      split == IF wanted < 1 THEN 1 ELSE Least(wanted, area.width - gap - 1)
      master == [area EXCEPT !.width = split]
      stack == [area EXCEPT !.x = @ + split + gap, !.width = @ - split - gap]
  IN Placed(order,
       IF masters = Len(order) THEN Column(order, area, gap)
       ELSE Column(SubSeq(order, 1, masters), master, gap)
            \o Column(SubSeq(order, masters + 1, Len(order)), stack, gap))

\* Mutant: strips keep their width when there is no room for it.
AccordionRigid(order, focused, width, area, gap) ==
  LET count == Len(order)
      at == {k \in 1..count : order[k] = focused}
      expanded == IF at = {} THEN 1 ELSE CHOOSE k \in at : TRUE
      wide == Most(1, area.width - (count - 1) * (width + gap))
  IN Placed(order,
       [k \in 1..count |->
          Box(area.x + (k - 1) * (width + gap) + (IF k > expanded THEN wide - width ELSE 0),
              area.y, IF k = expanded THEN wide ELSE width, Most(1, area.height))])

\* leme_layout_arrange_accordion: strips give way until the expanded view fits.
AccordionBoxes(order, focused, width, area, gap) ==
  LET count == Len(order)
      at == {k \in 1..count : order[k] = focused}
      expanded == IF at = {} THEN 1 ELSE CHOOSE k \in at : TRUE
      fits == {c \in 1..width : (count - 1) * (c + gap) + 1 <= area.width}
      collapse == IF fits = {} THEN 1
                  ELSE IF count = 1 THEN width
                  ELSE CHOOSE c \in fits : \A d \in fits : d <= c
      wide == Most(1, area.width - (count - 1) * (collapse + gap))
  IN Placed(order,
       [k \in 1..count |->
          Box(area.x + (k - 1) * (collapse + gap)
                + (IF k > expanded THEN wide - collapse ELSE 0),
              area.y, IF k = expanded THEN wide ELSE collapse, Most(1, area.height))])

-----------------------------------------------------------------------------
(* Pointing at windows.  A candidate has a view and a box.                 *)

Contains(box, x, y) ==
  /\ box.x <= x /\ x < box.x + box.width
  /\ box.y <= y /\ y < box.y + box.height

\* The first of the candidates in S, in list order, with the least measure.
Nearest(candidates, S, Measure(_)) ==
  LET best == {k \in S : \A j \in S : Measure(candidates[k].box) <= Measure(candidates[j].box)}
  IN candidates[CHOOSE k \in best : \A j \in best : k <= j].view

\* leme_layout_nearest_candidate; distances are doubled, as centers are halves.
NearestCandidate(candidates, x, y) ==
  LET under == {k \in DOMAIN candidates : Contains(candidates[k].box, x, y)}
      Distance(b) == (2 * b.x + b.width - 2 * x) * (2 * b.x + b.width - 2 * x)
                     + (2 * b.y + b.height - 2 * y) * (2 * b.y + b.height - 2 * y)
      Any(b) == 0
  IN IF under # {} THEN Nearest(candidates, under, Any)
     ELSE Nearest(candidates, DOMAIN candidates, Distance)

\* leme_layout_directional_candidate; {} for none.
Towards(candidates, origin, direction) ==
  LET from == (CHOOSE k \in DOMAIN candidates : candidates[k].view = origin)
      o == candidates[from].box
      dx(b) == (2 * b.x + b.width) - (2 * o.x + o.width)
      dy(b) == (2 * b.y + b.height) - (2 * o.y + o.height)
      Along(b) == CASE direction = "left" -> -dx(b) [] direction = "right" -> dx(b)
                    [] direction = "up" -> -dy(b) [] direction = "down" -> dy(b)
      Across(b) == IF Axis(direction) = "horizontal" THEN Abs(dy(b)) ELSE Abs(dx(b))
      Distance(b) == dx(b) * dx(b) + dy(b) * dy(b)
      S == {k \in DOMAIN candidates \ {from} :
              /\ Along(candidates[k].box) > 0
              /\ Across(candidates[k].box) <= Along(candidates[k].box)}
  IN IF (\A k \in DOMAIN candidates : candidates[k].view # origin) \/ S = {} THEN {}
     ELSE {Nearest(candidates, S, Distance)}

\* leme_layout_drop_at
DropAt(mode, box, x, y) ==
  LET distance == [left |-> Abs(x - box.x), right |-> Abs(x - (box.x + box.width)),
                   up |-> Abs(y - box.y), down |-> Abs(y - (box.y + box.height))]
      order == <<"left", "right", "up", "down">>
      best == {k \in 1..4 : \A j \in 1..4 : distance[order[k]] <= distance[order[j]]}
  IN IF mode = "edges" THEN order[CHOOSE k \in best : \A j \in best : k <= j]
     ELSE IF box.width >= box.height
          THEN IF 2 * x < 2 * box.x + box.width THEN "left" ELSE "right"
     ELSE IF 2 * y < 2 * box.y + box.height THEN "up" ELSE "down"

-----------------------------------------------------------------------------
(* Boxes of floating windows.                                              *)

\* leme_layout_saturate_origin
SaturateOrigin(n, extent) == Within(IntMin, n, IntMax - Most(extent, 0))

\* leme_layout_saturate_dimension
SaturateDimension(n) == Within(1, n, IntMax)

\* leme_layout_saturate_box
SaturateBox(b) == [b EXCEPT !.x = SaturateOrigin(@, b.width),
                            !.y = SaturateOrigin(@, b.height)]

\* Mutant: the sum saturates and the far edge overflows.
MoveBoxPlain(b, direction, amount) ==
  LET by == IF Leading(direction) THEN -amount ELSE amount
  IN IF Axis(direction) = "horizontal"
     THEN [b EXCEPT !.x = Within(IntMin, @ + by, IntMax)]
     ELSE [b EXCEPT !.y = Within(IntMin, @ + by, IntMax)]

\* leme_layout_move_box
MoveBox(b, direction, amount) ==
  LET by == IF Leading(direction) THEN -amount ELSE amount
  IN IF Axis(direction) = "horizontal"
     THEN [b EXCEPT !.x = SaturateOrigin(@ + by, b.width)]
     ELSE [b EXCEPT !.y = SaturateOrigin(@ + by, b.height)]

\* leme_layout_resize_box: the edges opposite to those dragged stay.
ResizeBox(b, edges, dx, dy) ==
  LET width == Most(1, IF "left" \in edges THEN b.width - dx
                       ELSE IF "right" \in edges THEN b.width + dx ELSE b.width)
      height == Most(1, IF "up" \in edges THEN b.height - dy
                        ELSE IF "down" \in edges THEN b.height + dy ELSE b.height)
      x == IF "left" \in edges THEN b.x + b.width - width ELSE b.x
      y == IF "up" \in edges THEN b.y + b.height - height ELSE b.y
      w == SaturateDimension(width)
      h == SaturateDimension(height)
  IN IF edges = {} \/ {"left", "right"} \subseteq edges \/ {"up", "down"} \subseteq edges
     THEN b
     ELSE Box(SaturateOrigin(x, w), SaturateOrigin(y, h), w, h)

=============================================================================
