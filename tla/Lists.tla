------------------------------- MODULE Lists -------------------------------
(***************************************************************************)
(* The linked lists of the program (struct wl_list), as sequences: what a  *)
(* wl_list_for_each that tests its elements sees, and wl_list_remove.      *)
(* Selected is a SelectSeq that the proof system can expand.               *)
(***************************************************************************)
EXTENDS Sequences, Naturals

Elements(s) == {s[i] : i \in DOMAIN s}

\* What a walk over s has picked out of S after each element.
Walked(s, S) ==
  LET walked[n \in 0 .. Len(s)] ==
        IF n = 0 THEN <<>>
        ELSE IF s[n] \in S THEN Append(walked[n - 1], s[n]) ELSE walked[n - 1]
  IN walked

\* The elements of s that are in S, in their order.
Selected(s, S) == Walked(s, S)[Len(s)]

Without(s, v) == Selected(s, Elements(s) \ {v})
=============================================================================
