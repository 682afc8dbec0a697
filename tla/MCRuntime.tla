----------------------------- MODULE MCRuntime -----------------------------
(* One criterion checked by a baseline obligation, an optional check in the  *)
(* challenge catalog, and callers who configure the run in different ways.   *)
EXTENDS Runtime

CONSTANTS crit1, ob1, ob2, tool, other, r1, r2

base     == [id |-> ob1, criteria |-> {crit1}, kind |-> tool]
optional == [id |-> ob2, criteria |-> {crit1}, kind |-> tool]
exotic   == [id |-> ob2, criteria |-> {crit1}, kind |-> other]
twin     == [id |-> ob1, criteria |-> {crit1}, kind |-> other]

AllObligations == {base, optional, exotic, twin}

Plain ==
  [criteria |-> {crit1}, approved |-> TRUE, baseline |-> {base}, critic |-> FALSE,
   catalog |-> {}, sameProvider |-> FALSE, requireDistinct |-> TRUE,
   maxSelected |-> 8, maxRepairs |-> 1, allowed |-> {"agent.invoke", "verifier.invoke"},
   approval |-> {}, resolver |-> FALSE, plugins |-> {tool}]

NoRepair == [Plain EXCEPT !.maxRepairs = 0]

Challenged ==
  [Plain EXCEPT !.critic = TRUE, !.catalog = {optional}, !.approval = {"agent.challenge"},
                !.resolver = TRUE]

\* Every configuration the code distinguishes.
Varied ==
  {Plain, Challenged,
   NoRepair,
   [Plain EXCEPT !.approved = FALSE],
   [Plain EXCEPT !.criteria = {}],
   [Plain EXCEPT !.allowed = {"agent.invoke"}],
   [Plain EXCEPT !.allowed = {"verifier.invoke"}, !.approval = {"agent.invoke"}],
   [Plain EXCEPT !.plugins = {other}],
   [Plain EXCEPT !.baseline = {base, twin}],
   [Plain EXCEPT !.maxRepairs = 2],
   [Challenged EXCEPT !.resolver = FALSE],
   [Challenged EXCEPT !.sameProvider = TRUE],
   [Challenged EXCEPT !.sameProvider = TRUE, !.requireDistinct = FALSE],
   [Challenged EXCEPT !.catalog = {exotic}],
   [Challenged EXCEPT !.catalog = {twin}],
   [Challenged EXCEPT !.maxSelected = 0],
   [Challenged EXCEPT !.maxRepairs = 2]}

\* Two runs may share the file, one after the other, at once or around a crash,
\* if neither has a repair, or if nothing fails and one of them has; every other
\* configuration has the file to itself.
\* The runs differ in name only, so r1 is the one that begins first.
SharedOrAlone ==
  ~At(r2, "idle") =>
    /\ ~At(r1, "idle")
    /\ run[r2].cfg = NoRepair
    /\ run[r1].cfg = NoRepair \/ (run[r1].cfg = Plain /\ faults + crashes = 0)

MCSpec == Init /\ [][Next /\ SharedOrAlone']_vars /\ Fairness
=============================================================================
