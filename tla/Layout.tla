------------------------------- MODULE Layout -------------------------------
(***************************************************************************)
(* workspace/layout.c: the tree of the dwindle layout, and what the drags  *)
(* do to it.  Geometry has the boxes.                                      *)
(*                                                                         *)
(* Nodes keep their identity, because the pointer grabs keep pointers to   *)
(* them: a forest is the nodes that are allocated and the root of every    *)
(* tag.  Freed nodes leave the domain of `node' and calloc takes the       *)
(* lowest free number, so that a stale pointer may meet a new node.  Tags  *)
(* are numbers, and Renumber forgets the addresses when nothing points to  *)
(* nodes from outside.                                                     *)
(*                                                                         *)
(* Ratios are in tenths.  axis_length is left out: arranging a tag sets it *)
(* to a positive length and only windows of an arranged tag are resized.   *)
(***************************************************************************)
EXTENDS Geometry, FiniteSets, TLC

CONSTANTS
  NONE,
  Tags,
  Views,
  CollapseMin,  \* 10 and
  CollapseMax   \* 400, between which a strip of an accordion is resized

ASSUME LayoutAssumption == CollapseMin \in Nat \ {0} /\ CollapseMax \in Nat

NULL == 0
Ids == 1..(2 * Cardinality(Views))
Dwindle == "dwindle"
Kinds == {Dwindle, "master_stack", "accordion"}

Node == [parent : Ids \cup {NULL}, view : Views \cup {NONE},
         first : Ids \cup {NULL}, second : Ids \cup {NULL},
         split : {"horizontal", "vertical"}, ratio : 1..9]
IsLeaf(n) == n.view # NONE

\* leme_layout_leaf
Leaf(parent, v) == [parent |-> parent, view |-> v, first |-> NULL,
                    second |-> NULL, split |-> "horizontal", ratio |-> 5]
Branch(parent, first, second, split) ==
  [parent |-> parent, view |-> NONE, first |-> first, second |-> second,
   split |-> split, ratio |-> 5]

Empty == [node |-> <<>>, root |-> [g \in Tags |-> NULL]]

-----------------------------------------------------------------------------
(* Walks.                                                                  *)

\* calloc
Fresh(f) == CHOOSE i \in Ids \ DOMAIN f.node :
              \A j \in Ids \ DOMAIN f.node : i <= j

\* The nodes of the tree of g.
Subtree(f, g) ==
  LET below[i \in Ids \cup {NULL}] ==
        IF i \notin DOMAIN f.node THEN {}
        ELSE {i} \cup (IF IsLeaf(f.node[i]) THEN {}
                       ELSE below[f.node[i].first] \cup below[f.node[i].second])
  IN below[f.root[g]]

Leaves(f, g) == {f.node[i].view : i \in {j \in Subtree(f, g) : IsLeaf(f.node[j])}}

\* The same forest at other addresses: in preorder, tag after tag.  A forest
\* that leaks or shares nodes is left as it is.
Renumber(f) ==
  LET list[i \in Ids \cup {NULL}] ==
        IF i \notin DOMAIN f.node THEN <<>>
        ELSE <<i>> \o IF IsLeaf(f.node[i]) THEN <<>>
                      ELSE list[f.node[i].first] \o list[f.node[i].second]
      all[k \in Nat] ==
        IF k = 0 THEN <<>>
        ELSE all[k - 1] \o IF k \in Tags THEN list[f.root[k]] ELSE <<>>
      order == all[CHOOSE k \in Tags : \A j \in Tags : j <= k]
      at(i) == IF i = NULL THEN NULL ELSE CHOOSE k \in DOMAIN order : order[k] = i
  IN IF Len(order) # Cardinality(DOMAIN f.node) THEN f
     ELSE [node |-> [k \in DOMAIN order |->
                       [f.node[order[k]] EXCEPT !.parent = at(@), !.first = at(@),
                                                !.second = at(@)]],
           root |-> [g \in Tags |-> at(f.root[g])]]

\* leme_layout_find
Find(f, g, v) ==
  LET found == {i \in Subtree(f, g) : f.node[i].view = v}
  IN IF found = {} \/ v = NONE THEN NULL ELSE CHOOSE i \in found : TRUE

\* leme_layout_first
First(f, g) ==
  LET first[i \in Ids] == IF IsLeaf(f.node[i]) THEN i ELSE first[f.node[i].first]
  IN first[f.root[g]]

\* leme_layout_depth
Depth(f, i) ==
  LET depth[j \in Ids] ==
        IF f.node[j].parent = NULL THEN 0 ELSE 1 + depth[f.node[j].parent]
  IN depth[i]

IsFirst(f, parent, i) == f.node[parent].first = i
Sibling(f, parent, i) ==
  IF IsFirst(f, parent, i) THEN f.node[parent].second ELSE f.node[parent].first

\* The pointer to `old' in its parent, or the root of g, becomes `new'.
Replace(f, g, parent, old, new) ==
  IF parent = NULL THEN [f EXCEPT !.root[g] = new]
  ELSE IF IsFirst(f, parent, old) THEN [f EXCEPT !.node[parent].first = new]
  ELSE [f EXCEPT !.node[parent].second = new]

Free(f, ids) ==
  [f EXCEPT !.node = [i \in DOMAIN f.node \ ids |-> f.node[i]]]

-----------------------------------------------------------------------------
(* Windows enter, leave and swap.                                          *)

\* leme_layout_insert: the tile of the focused view, or the first one, is split
\* in two; its node becomes the branch.
Insert(f, g, focused, v) ==
  IF f.root[g] = NULL
  THEN [node |-> (Fresh(f) :> Leaf(NULL, v)) @@ f.node,
        root |-> [f.root EXCEPT ![g] = Fresh(f)]]
  ELSE LET old == IF Find(f, g, focused) = NULL THEN First(f, g)
                  ELSE Find(f, g, focused)
           kept == Fresh(f)
           split == IF Depth(f, old) % 2 = 0 THEN "horizontal" ELSE "vertical"
           h == [f EXCEPT !.node = (kept :> Leaf(old, f.node[old].view)) @@ @]
           new == Fresh(h)
       IN [h EXCEPT !.node = (old :> Branch(f.node[old].parent, kept, new, split))
                             @@ (new :> Leaf(old, v)) @@ @]

\* leme_layout_remove: the sibling takes the place of the parent.
Remove(f, g, v) ==
  LET leaf == Find(f, g, v)
      parent == f.node[leaf].parent
      sibling == Sibling(f, parent, leaf)
      up == f.node[parent].parent
  IN IF leaf = NULL THEN f
     ELSE IF parent = NULL THEN Free([f EXCEPT !.root[g] = NULL], {leaf})
     ELSE Free([Replace(f, g, up, parent, sibling)
                  EXCEPT !.node[sibling].parent = up], {leaf, parent})

\* leme_layout_swap_views
Swap(f, g, v, w) ==
  [f EXCEPT !.node[Find(f, g, v)].view = w, !.node[Find(f, g, w)].view = v]

\* leme_layout_destroy and leme_layout_finish
Destroy(f, g) == Free([f EXCEPT !.root[g] = NULL], Subtree(f, g))

\* leme_layout_set_kind, towards a kind that differs; order lists the tiled
\* views of the tag.
SetKind(f, g, kind, order) ==
  LET build[k \in 0..Len(order)] ==
        IF k = 0 THEN Destroy(f, g)
        ELSE Insert(build[k - 1], g, IF k = 1 THEN NONE ELSE order[k - 1], order[k])
  IN IF kind = Dwindle THEN build[Len(order)] ELSE Destroy(f, g)

-----------------------------------------------------------------------------
(* A window is dragged out of the tree; struct leme_layout_detach.         *)

NoDetach == [leaf |-> NULL, branch |-> NULL, sibling |-> NULL,
             grandparent |-> NULL, branch_was_first |-> FALSE]

\* What leme_layout_detach_view returns.
DetachRecord(f, g, v) ==
  LET leaf == Find(f, g, v)
      branch == f.node[leaf].parent
      up == f.node[branch].parent
  IN IF leaf = NULL THEN NoDetach
     ELSE IF branch = NULL THEN [NoDetach EXCEPT !.leaf = leaf]
     ELSE [leaf |-> leaf, branch |-> branch, sibling |-> Sibling(f, branch, leaf),
           grandparent |-> up,
           branch_was_first |-> up # NULL /\ IsFirst(f, up, branch)]

\* Mutant: the sibling keeps its pointer to the branch that left the tree.
DetachStale(f, g, v) ==
  LET d == DetachRecord(f, g, v)
  IN IF d.branch = NULL THEN [f EXCEPT !.root[g] = NULL]
     ELSE Replace(f, g, d.grandparent, d.branch, d.sibling)

\* What leme_layout_detach_view does to the tree.
Detach(f, g, v) ==
  LET d == DetachRecord(f, g, v)
  IN IF d.branch = NULL THEN [f EXCEPT !.root[g] = NULL]
     ELSE [Replace(f, g, d.grandparent, d.branch, d.sibling)
             EXCEPT !.node[d.sibling].parent = d.grandparent]

\* Mutant: a tile always goes back as the second child of the grandparent.
RestoreSecond(f, g, d) ==
  LET h == [f EXCEPT !.node[d.leaf].parent = d.branch]
  IN IF d.branch = NULL THEN [h EXCEPT !.root[g] = d.leaf]
     ELSE [(IF d.grandparent = NULL THEN [h EXCEPT !.root[g] = d.branch]
            ELSE [h EXCEPT !.node[d.grandparent].second = d.branch])
             EXCEPT !.node[d.branch].parent = d.grandparent,
                    !.node[d.sibling].parent = d.branch]

\* The slot that leme_layout_restore_view reads: it must hold the sibling.  The
\* root is the one of the tag that owns the view now.
CanRestore(f, g, d) ==
  IF d.branch = NULL THEN f.root[g] = NULL
  ELSE IF d.grandparent = NULL THEN f.root[g] = d.sibling
  ELSE d.sibling = IF d.branch_was_first THEN f.node[d.grandparent].first
                   ELSE f.node[d.grandparent].second

\* leme_layout_restore_view, when it can.
Restore(f, g, d) ==
  LET h == [f EXCEPT !.node[d.leaf].parent = d.branch]
  IN IF d.branch = NULL THEN [h EXCEPT !.root[g] = d.leaf]
     ELSE [(IF d.grandparent = NULL THEN [h EXCEPT !.root[g] = d.branch]
            ELSE IF d.branch_was_first
                 THEN [h EXCEPT !.node[d.grandparent].first = d.branch]
            ELSE [h EXCEPT !.node[d.grandparent].second = d.branch])
             EXCEPT !.node[d.branch].parent = d.grandparent,
                    !.node[d.sibling].parent = d.branch]

\* Mutant: the branch of the old place is used only when it is missing.
InsertDetachedNew(f, g, d, target, direction) ==
  LET at == Find(f, g, target)
      up == f.node[at].parent
      branch == Fresh(f)
  IN [Replace(f, g, up, at, branch)
        EXCEPT !.node = (branch :> Branch(up, IF Leading(direction) THEN d.leaf ELSE at,
                                          IF Leading(direction) THEN at ELSE d.leaf,
                                          Axis(direction)))
                        @@ [i \in DOMAIN @ |->
                              IF i \in {at, d.leaf} THEN [@[i] EXCEPT !.parent = branch]
                              ELSE @[i]]]

\* leme_layout_insert_detached, of a target that is in the tree: the branch that
\* left the tree with the view is used again.
InsertDetached(f, g, d, target, direction) ==
  LET at == Find(f, g, target)
      up == f.node[at].parent
      branch == IF d.branch = NULL THEN Fresh(f) ELSE d.branch
      first == IF Leading(direction) THEN d.leaf ELSE at
      second == IF Leading(direction) THEN at ELSE d.leaf
      h == Replace(f, g, up, at, branch)
      adopted == [i \in DOMAIN h.node |->
                    IF i \in {at, d.leaf} THEN [h.node[i] EXCEPT !.parent = branch]
                    ELSE h.node[i]]
  IN [h EXCEPT !.node = (branch :> Branch(up, first, second, Axis(direction))) @@ adopted]

\* leme_layout_discard_detached
Discard(f, d) == Free(f, {d.leaf, d.branch})

-----------------------------------------------------------------------------
(* Splits move.                                                            *)

\* Mutant: a split may reach the far edge.
ClampLow(ratio) == IF ratio < 1 THEN 1 ELSE ratio

\* leme_layout_clamp_ratio
Clamp(ratio) == IF ratio < 1 THEN 1 ELSE IF ratio > 9 THEN 9 ELSE ratio

\* The first branch above v, from its leaf up, that splits along the axis and
\* has v on the far side from the edge; NULL when there is none.
Edge(f, g, v, edge) ==
  LET up[i \in Ids] ==
        LET parent == f.node[i].parent
        IN IF parent = NULL THEN NULL
           ELSE IF /\ f.node[parent].split = Axis(edge)
                   /\ IsFirst(f, parent, i) = ~Leading(edge)
                THEN parent
           ELSE up[parent]
  IN IF Find(f, g, v) = NULL THEN NULL ELSE up[Find(f, g, v)]

\* leme_layout_resize_focused
ResizeFocused(f, i, edge, delta) ==
  [f EXCEPT !.node[i].ratio = Clamp(IF Leading(edge) THEN @ - delta ELSE @ + delta)]

\* leme_layout_resize of a list layout, by a tenth of the area or in pixels
ResizeList(kind, factors, edge, delta, pixels) ==
  LET Step(n) == IF Leading(edge) THEN -n ELSE n IN
  IF Axis(edge) = "vertical" THEN factors
  ELSE IF kind = "accordion"
       THEN [factors EXCEPT !.collapse = Within(CollapseMin, @ + Step(pixels), CollapseMax)]
       ELSE [factors EXCEPT !.mfact = Clamp(@ + Step(delta))]

\* leme_layout_resize_drag_update; the ratios are those of the beginning.
DragSplits(f, drag, dx, dy) ==
  [f EXCEPT !.node = [i \in DOMAIN @ |->
     IF i = drag.horizontal THEN [@[i] EXCEPT !.ratio = Clamp(drag.horizontal_ratio + dx)]
     ELSE IF i = drag.vertical THEN [@[i] EXCEPT !.ratio = Clamp(drag.vertical_ratio + dy)]
     ELSE @[i]]]

-----------------------------------------------------------------------------
(* leme_layout_arrange_node and leme_layout_arrange_subject.               *)

DwindleBoxes(f, g, area, gap) ==
  LET box[i \in Ids] ==
        LET parent == f.node[i].parent
            halves == Cut(box[parent], f.node[parent].split, f.node[parent].ratio, gap)
        IN IF parent = NULL THEN area
           ELSE IF IsFirst(f, parent, i) THEN halves[1] ELSE halves[2]
  IN [v \in Leaves(f, g) |-> box[Find(f, g, v)]]

\* What the list layouts are arranged by: layout->mfact, in tenths, and
\* layout->collapse_width.
Factors == [mfact : 1..9, collapse : CollapseMin..CollapseMax]

Boxes(f, g, kind, order, focused, factors, area, gap) ==
  CASE kind = Dwindle -> DwindleBoxes(f, g, area, gap)
    [] kind = "master_stack" -> MasterStackBoxes(order, factors.mfact, area, gap)
    [] kind = "accordion" -> AccordionBoxes(order, focused, factors.collapse, area, gap)

=============================================================================
