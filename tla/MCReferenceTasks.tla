-------------------------- MODULE MCReferenceTasks --------------------------
(* Small instances of ReferenceTasks for TLC. *)
EXTENDS ReferenceTasks, TLC

CONSTANTS r1, r2, i1, i2, upper, lower, blank, text, null,
          s1, s2, s3

\* Two spellings of one title.
MCLower == [t \in Titles |-> IF t = upper THEN lower ELSE t]

\* One open task and a free id: enough for a create to race a reopening.
MCTableOne ==
  (i1 :> [title |-> upper, details |-> null, status |-> "in_progress",
          created_at |-> s1, updated_at |-> s1])
  @@ [id \in TaskIds |-> NoRow]

\* What collides on one row, closing it against reopening it with new details,
\* and a patch that is refused.
MCPatchesSmall ==
  { [NoPatch EXCEPT !.status = "done"],
    [NoPatch EXCEPT !.status = "pending", !.details = text],
    [NoPatch EXCEPT !.title = blank] }
=============================================================================
