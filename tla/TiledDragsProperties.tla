------------------------ MODULE TiledDragsProperties ------------------------
(***************************************************************************)
(* What must hold of layouts and drags.                                    *)
(***************************************************************************)
EXTENDS TiledDrags

TileOf(g, v) ==
  wm.view[v].tag = g /\ ~wm.view[v].floating /\ ~wm.view[v].detached

\* The tree of a dwindle tag is a tree: pointers to parents and to children
\* agree, no node is shared, and its leaves are the tiles of the tag, each once;
\* the other layouts have no tree (leme_layout_insert, _remove, _detach_view,
\* _insert_detached and _set_kind, under every order of the calls).
TreesSound ==
  \A g \in Tags :
    LET f == wm.forest
        N == Subtree(f, g)
    IN /\ f.root[g] # NULL => f.root[g] \in N /\ f.node[f.root[g]].parent = NULL
       /\ \A i \in N : ~IsLeaf(f.node[i]) =>
            /\ f.node[i].first # f.node[i].second
            /\ \A c \in {f.node[i].first, f.node[i].second} :
                 c \in N /\ f.node[c].parent = i
       /\ \A i, j \in N : IsLeaf(f.node[i]) /\ f.node[i].view = f.node[j].view => i = j
       /\ Leaves(f, g) = IF wm.kind[g] = Dwindle THEN {v \in Views : TileOf(g, v)} ELSE {}

\* Nodes are freed exactly once: what is allocated is what the trees hold, each
\* node in one of them, and what a tiled move took out (leme_layout_remove,
\* _insert_detached and _discard_detached).
NodesAccounted ==
  LET d == wm.grab.detach
      out == {d.leaf, d.branch} \ {NULL}
  IN /\ DOMAIN wm.forest.node = out \cup UNION {Subtree(wm.forest, g) : g \in Tags}
     /\ \A g \in Tags : out \cap Subtree(wm.forest, g) = {}
     /\ \A g, h \in Tags : g # h => Subtree(wm.forest, g) \cap Subtree(wm.forest, h) = {}

\* A tiled move can be taken back whenever it is cancelled: the view is out of
\* its tag's tree, and putting it back gives the tree it was taken from, shape,
\* splits and ratios (leme_layout_restore_view, whatever happened meanwhile).
MoveCanBeUndone ==
  LET v == wm.grab.view
      d == wm.grab.detach
  IN /\ wm.grab.mode = "tiled_move" <=> d # NoDetach
     /\ \A w \in Views : wm.view[w].detached <=> d # NoDetach /\ w = v
     /\ d # NoDetach =>
          /\ wm.view[v].tag = before.tag /\ wm.kind[before.tag] = Dwindle
          /\ CanRestore(wm.forest, before.tag, d)
          /\ Shape(Restore(wm.forest, before.tag, d), before.tag) = before.shape

\* The splits that a tiled resize moves are branches above the window it
\* started on: no layout change frees them under the grab, which keeps plain
\* pointers (struct leme_layout_resize_drag).
SplitsAlive ==
  wm.grab.mode = "tiled_resize" =>
    LET v == wm.grab.view
        g == wm.view[v].tag
        N == Subtree(wm.forest, g)
    IN /\ g # NONE /\ Find(wm.forest, g, v) # NULL
       /\ \A axis \in {"horizontal", "vertical"} :
            LET i == IF axis = "horizontal" THEN wm.grab.drag.horizontal
                     ELSE wm.grab.drag.vertical
            IN i # NULL => i \in N /\ wm.forest.node[i].split = axis

\* A grab of a floating window ends before the window becomes a tile, covers
\* the screen or goes away (leme_input_pointer_grab_cancel_view).
FloatingGrabSound ==
  wm.grab.mode \in {"float_move", "float_resize"} =>
    LET w == wm.view[wm.grab.view]
    IN w.tag # NONE /\ w.floating /\ ~w.fullscreen

Inside(b, area) ==
  /\ b.width >= 1 /\ b.height >= 1 /\ area.x <= b.x /\ area.y <= b.y
  /\ b.x + b.width <= area.x + area.width /\ b.y + b.height <= area.y + area.height
Apart(a, b, gap) ==
  \/ a.x + a.width + gap <= b.x \/ b.x + b.width + gap <= a.x
  \/ a.y + a.height + gap <= b.y \/ b.y + b.height + gap <= a.y

\* Every tile of a tag has a box inside the usable area and two of them are a
\* gap apart, in the three layouts and for the ratios, master columns and strips
\* that drags and commands can reach, where there is room.  In an area smaller
\* than the gaps every tile keeps a size; those of a dwindle tag stay inside, and
\* those of the other layouts a gap apart, if two columns and their gap have room
\* (leme_layout_arrange_subject).
BoxesApart ==
  \A g \in Tags : \A focused \in Expanded(wm, g) :
    LET boxes == TagBoxes(wm, g, focused)
        area == Area[OutputOf(g)]
    IN wm.grab.mode = "none" =>
         /\ \A v \in Views : TileOf(g, v) /\ ~wm.view[v].fullscreen => v \in DOMAIN boxes
         /\ \A v \in DOMAIN boxes : Inside(boxes[v], area)
         /\ \A v, w \in DOMAIN boxes : v # w => Apart(boxes[v], boxes[w], Gap)
         /\ wm.kind[g] = Dwindle =>
              LET tiny == Box(0, 0, 2, 2)
                  small == DwindleBoxes(wm.forest, g, tiny, Gap)
              IN \A v \in DOMAIN small : Inside(small[v], tiny)
         /\ wm.kind[g] # Dwindle =>
              LET tiny == Box(0, 0, 3, 2)
                  small == Boxes(wm.forest, g, wm.kind[g], TiledViews(wm, g), focused,
                                 wm.factors[g], tiny, Gap)
              IN \A v, u \in DOMAIN small :
                   /\ small[v].width >= 1 /\ small[v].height >= 1
                   /\ v # u => Apart(small[v], small[u], Gap)

\* A floating box that is moved or resized keeps a positive size and its far
\* edge within int; a resize keeps the edge opposite to the one it drags
\* (leme_layout_move_box and leme_layout_resize_box, for boxes at the limits of
\* int; looked at where one floating window is all there is).
BoxesSaturate ==
  LET origins == {IntMin, IntMin + 1, -1, 0, 1, IntMax - 2, IntMax - 1}
      sizes == {1, 2, IntMax - 1, IntMax}
      steps == {-IntMax, -2, 0, 2, IntMax}
      boxes == {b \in [x : origins, y : {0}, width : sizes, height : {1, 2}] :
                  b.x + b.width <= IntMax}
      Fits(b) == /\ b.width \in 1..IntMax /\ b.height \in 1..IntMax
                 /\ b.x \in IntMin..IntMax /\ b.y \in IntMin..IntMax
                 /\ b.x + b.width <= IntMax /\ b.y + b.height <= IntMax
  IN wm.grab.mode = "float_resize" /\ (\A v \in Views \ {wm.grab.view} : wm.view[v] = Unmapped)
     => \A b \in boxes :
       /\ \A d \in Directions, n \in {1, 2, IntMax} : Fits(MoveBox(b, d, n))
       /\ \A h \in {"left", "right"}, v \in {"up", "down"}, dx, dy \in steps :
            LET r == ResizeBox(b, {h, v}, dx, dy)
            IN /\ Fits(r)
               /\ h = "left" /\ b.width - dx <= IntMax /\ b.x + dx >= IntMin
                    => r.x + r.width = b.x + b.width
               /\ h = "right" /\ b.x + b.width + dx <= IntMax => r.x = b.x

\* The trees and lists implement sets of tiles: a change of layout, a swap, a
\* resize, a cancelled drag lose or duplicate no window.
TilesOf(g) ==
  IF wm.kind[g] = Dwindle THEN Leaves(wm.forest, g)
  ELSE {v \in Members(wm, g) : ~wm.view[v].floating}
HeldView ==
  IF wm.grab.mode = "tiled_move"
  THEN [view |-> wm.grab.view, from |-> wm.view[wm.grab.view].tag]
  ELSE [view |-> NONE, from |-> NONE]
Tiles == INSTANCE Tiling WITH tiles <- [g \in Tags |-> TilesOf(g)], held <- HeldView

\* Layouts implement Tiling.
ImplementsTiling == Tiles!Spec

\* The trees of the dwindle tags and the node that a drag took out account for
\* every allocated node and every tile (workspace/layout.c).
ForestSound == TypeOK /\ TreesSound /\ NodesAccounted

\* Whatever happens to windows and tags, the grab that is active can be ended in
\* every way it may have to be (the grabs of input/pointer.c).
GrabsSound == MoveCanBeUndone /\ SplitsAlive /\ FloatingGrabSound

\* The boxes the layouts compute, for tiles and for floating windows
\* (leme_layout_arrange_subject, leme_layout_move_box, leme_layout_resize_box).
BoxesSound == BoxesApart /\ BoxesSaturate

=============================================================================
