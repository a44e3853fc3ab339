----------------------------- MODULE Ownership -----------------------------
(***************************************************************************)
(* Who owns a view: struct leme_view_owner of shell/ownership.c.  A view   *)
(* is owned by nobody (it is not mapped), by a tag, or it is durable: it   *)
(* outlives the tags, as a scratchpad or as part of a sticky group.  A tag *)
(* is its key <<output, id>>.                                              *)
(*                                                                         *)
(* The presentation of a durable view is HIDDEN exactly when its output is *)
(* null (leme_ownership_valid_durable), so the record keeps only the       *)
(* output.  A transition is prepared, which may refuse, and committed, and *)
(* no handler runs in between: here the preparation is a guard.            *)
(***************************************************************************)
CONSTANT NONE    \* a null pointer

\* enum leme_durable_reason.
Scratch == "scratchpad"
Sticky == "sticky"
Reasons == {Scratch, Sticky}

NoOwner ==
  [kind |-> "none", tag |-> NONE, reason |-> NONE, output |-> NONE]

TagOwner(key) ==
  [kind |-> "tag", tag |-> key, reason |-> NONE, output |-> NONE]

\* Hidden when output is NONE.
DurableOwner(reason, output) ==
  [kind |-> "durable", tag |-> NONE, reason |-> reason, output |-> output]

\* leme_ownership_valid_durable: no other mixture of fields is an owner.
OwnerType(Keys, Outputs) ==
  {NoOwner} \cup {TagOwner(key) : key \in Keys}
    \cup {DurableOwner(reason, output) : reason \in Reasons,
                                         output \in Outputs \cup {NONE}}

\* leme_ownership_present_durable: the reason stays.
Presented(owner, output) == [owner EXCEPT !.output = output]

IsDurable(owner, reason) == owner.kind = "durable" /\ owner.reason = reason

EffectiveOutput(owner) ==
  IF owner.kind = "tag" THEN owner.tag[1] ELSE owner.output

\* A view of a tag, or a durable one that is presented, may be seen, hit,
\* focused, activated, published and captured.
Eligible(owner) ==
  \/ owner.kind = "tag"
  \/ owner.kind = "durable" /\ owner.output # NONE
=============================================================================
