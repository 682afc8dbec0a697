---------------------------- MODULE ChildProcess ----------------------------
(***************************************************************************)
(* What the harness relies on of subprocess.run(capture_output=True,       *)
(* timeout=...): the standard library starts one child, collects both its  *)
(* pipes until every writer has closed them, and kills the child when the  *)
(* timeout expires or an exception passes through.  The child owes nothing.*)
(***************************************************************************)
EXTENDS Naturals, Sequences

CONSTANT MaxOutput \* max_output_bytes, in words

VARIABLE child     \* [at, out, err, code, held]

NoChild == [at |-> "none", out |-> <<>>, err |-> 0, code |-> 0, held |-> FALSE]

\* The limit is looked at only afterwards; one word over it is as good as more.
Writable == child.at = "running" \/ (child.at = "exited" /\ child.held)

Launch == child' = [NoChild EXCEPT !.at = "running"]

Prints(word) ==
  /\ Writable /\ Len(child.out) <= MaxOutput
  /\ child' = [child EXCEPT !.out = Append(@, word)]

Complains ==
  /\ Writable /\ child.err <= MaxOutput
  /\ child' = [child EXCEPT !.err = @ + 1]

\* A descendant may keep the pipes open beyond the child's own end.
Exits(code, held) ==
  /\ child.at = "running"
  /\ child' = [child EXCEPT !.at = "exited", !.code = code, !.held = held]

PipesClose ==
  /\ child.at = "exited" /\ child.held
  /\ child' = [child EXCEPT !.held = FALSE]

\* subprocess.run can return.
Ended == child.at = "exited" /\ ~child.held

Kill == child' = [child EXCEPT !.at = "killed"]

WithinLimit(c) == Len(c.out) <= MaxOutput /\ c.err <= MaxOutput
=============================================================================
