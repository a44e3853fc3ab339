----------------------------- MODULE MCMonitors -----------------------------
(***************************************************************************)
(* An instance of Monitors for TLC: two connectors and the fallback, with  *)
(* modes of a few units and INT_MAX at 15.                                 *)
(***************************************************************************)
EXTENDS MonitorsProperties, TLC

CONSTANTS o1, o2

MCOutputs == {o1, o2}

Mode(width, height, refresh) == [width |-> width, height |-> height, refresh |-> refresh]

\* The second connector is one of a nested session, which has no modes.
MCModes ==
  (o1 :> <<Mode(4, 2, 6), Mode(4, 2, 9), Mode(3, 3, 6), Mode(4, 2, 8)>>)
    @@ (o2 :> <<>>) @@ (Fallback :> <<>>)

MCNativeSize == Mode(3, 2, 0)

Block(mode, scale, rotated, position, relation, other) ==
  [mode |-> mode, scale |-> scale, rotated |-> rotated, position |-> position,
   relation |-> relation, relative_to |-> other]

At(position) == Block(NoMode, 2, FALSE, position, "none", NONE)
Near(relation, other) == Block(NoMode, 2, FALSE, Unplaced, relation, other)

Row == (o1 :> At(<<0, 0>>)) @@ (o2 :> Near("right_of", o1))

\* A rotated output, and a scaled one above it.
Column == (o1 :> Block(Mode(4, 2, 8), 2, TRUE, <<2, -1>>, "none", NONE))
            @@ (o2 :> Block(NoMode, 3, FALSE, Unplaced, "top_of", o1))

Cycle == (o1 :> Near("left_of", o2)) @@ (o2 :> Near("right_of", o1))

Overlapping == (o1 :> At(<<0, 0>>)) @@ (o2 :> At(<<3, 1>>))

\* Places next to INT_MAX and INT_MIN.
FarRight == (o1 :> At(<<11, 0>>)) @@ (o2 :> Near("right_of", o1))
FarLeft == (o1 :> Block(Mode(4, 2, 0), 2, FALSE, Unplaced, "left_of", o2))
             @@ (o2 :> At(<<-16, 0>>))

\* A mode that is not there, for one connector only.
Missing == o1 :> Block(Mode(5, 5, 0), 2, FALSE, <<0, 0>>, "none", NONE)

Wanted(enabled, at, mode) ==
  [enabled |-> enabled, at |-> at, mode |-> mode, scale |-> 2, rotated |-> FALSE]

MCHeads ==
  {Wanted(FALSE, <<0, 0>>, NoMode), Wanted(TRUE, <<0, 0>>, Mode(4, 2, 6)),
   Wanted(TRUE, <<-5, 1>>, Mode(3, 3, 6))}

Files(files) == [files |-> files, heads |-> {}, locks |-> FALSE]
Clients(files) == [files |-> files, heads |-> MCHeads, locks |-> TRUE]

MCScenarios ==
  {Files({<<>>, Row, Column}), Files({Row, Cycle, Overlapping}),
   Files({Missing, FarRight, FarLeft}), Clients({Row}), Clients({Column})}

=============================================================================
