------------------------ MODULE ScratchpadProperties ------------------------
(***************************************************************************)
(* The correctness properties of Scratchpad.                               *)
(***************************************************************************)
EXTENDS Scratchpad

\* The pool lists every scratchpad once and nothing else, so no window that
\* left it can be shown or retrieved again.
PoolSound ==
  /\ Elements(pool) = {v \in Views : IsPad(Pads, v)}
  /\ Cardinality(Elements(pool)) = Len(pool)

\* At most one scratchpad is presented on an output, it is the one the manager
\* calls shown, and that output is plugged, enabled and powered.
ShownSound ==
  \A v \in Views : IsPad(Pads, v) =>
    /\ owner[v].output # NONE <=> v = shown
    /\ owner[v].output # NONE => OutputValid(World, owner[v].output)

\* A name is claimed by one window at most, a scratchpad that has the identity
\* the configuration gives to the name.
ClaimsSound ==
  \A v \in Views : claim[v] # NONE =>
    /\ IsPad(Pads, v)
    /\ definition[claim[v]] = identity[v]
    /\ \A u \in Views : claim[u] = claim[v] => u = v

\* A name has one launch under way at most, started from its current
\* definition, and none while a window claims the name.
LaunchesSound ==
  /\ Cardinality(PendingNames) = Len(pending)
  /\ \A r \in Elements(pending) :
       definition[r.name] = r.identity /\ \A v \in Views : claim[v] # r.name

\* A launch never points to an output that was unplugged.
LaunchesLand ==
  \A r \in Elements(pending) : r.destination \in plugged \cup {NONE}

\* The members of the pool: who is in it, and who of them is on the screen.
\* Every command, map, unmap and change of outputs moves windows between the
\* pool list, the owner record and the shown pointer of scratchpad.c.
MembersSound == TypeOK /\ PoolSound /\ ShownSound

\* The names: a window that claims one, a launch for it and the output the
\* launch goes to agree with each other and with the configuration, whichever
\* of timeout, map, rename, toggle, unplug and reload comes first.
NamesSound == ClaimsSound /\ LaunchesSound /\ LaunchesLand

\* Outside the lock the keyboard is on a window of a tag or on the shown
\* scratchpad, never on a hidden one or on a window that is gone.
FocusEligible == ~locked /\ focusedView # NONE => Eligible(owner[focusedView])

\* Under the lock the shown scratchpad stays shown, and so is there again after
\* it, unless its window or its output goes or the window of a launch takes its
\* place: the lock refuses commands and timers show nothing.
LockKeepsShown ==
  [][locked /\ shown # NONE =>
       \/ shown' = shown
       \/ owner'[shown] = NoOwner
       \/ ~OutputValid(World', owner[shown].output)
       \/ Len(pending') < Len(pending) /\ shown' # NONE]_vars
=============================================================================
