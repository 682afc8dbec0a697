-------------------------- MODULE VerifierRegistry --------------------------
(***************************************************************************)
(* VerifierRegistry.collect (verifiers.py): every obligation of a plan is  *)
(* routed to one plugin and observed behind the action gate (actions.py);  *)
(* whatever goes wrong on the way becomes ERROR evidence.  The policy, the *)
(* approval resolver and the plugins are foreign code that answers, raises *)
(* or returns nonsense; the plugin for "command.exit_code" is the library's*)
(* own and runs a child process.                                           *)
(***************************************************************************)
EXTENDS ChildProcess

CONSTANTS
  Registries,  \* plugin tuples a caller may pass, each plugin a set of kinds
  Plans,       \* tuples of obligations [id, kind, payload]
  Ids,         \* obligation identities a plugin may mention
  Malformed    \* a payload the command plugin refuses; the others are exit codes

Command == "command.exit_code"

\* What a policy and a resolver may do when asked.
Verdicts == {"ALLOW", "REQUIRE_APPROVAL", "DENY", "foreign", "invalid", "raises"}
Approvals == {"true", "false", "invalid", "raises"}

VARIABLES
  stage, plugins, plan,
  observations,  \* of the obligations handled so far
  asked,         \* what the policy and the resolver said: [item, verdict, approval]
  runs           \* the plugin calls: [item, plugin, said, child]

vars == <<stage, plugins, plan, observations, asked, runs, child>>

item == Len(observations) + 1
current == plan[item]

Init ==
  /\ stage = "construct"
  /\ plugins \in Registries
  /\ plan \in Plans
  /\ observations = <<>> /\ asked = <<>> /\ runs = <<>>
  /\ child = NoChild

Observation(id, status) == [id |-> id, status |-> status]
Nothing == Observation("none", "ERROR")

Record(status) ==
  /\ observations' = Append(observations, Observation(current.id, status))
  /\ stage' = "next"

\* The registry's own except clause.
Contain == Record("ERROR")

-----------------------------------------------------------------------------
(* Routing *)

\* No two plugins for one kind; no empty registry, plugin or plan.
Construct ==
  /\ stage = "construct"
  /\ stage' = IF /\ plugins # <<>> /\ plan # <<>>
                 /\ \A n \in DOMAIN plugins : plugins[n] # {}
                 /\ \A m, n \in DOMAIN plugins : m # n => plugins[m] \cap plugins[n] = {}
              THEN "next" ELSE "raised"
  /\ UNCHANGED <<plugins, plan, observations, asked, runs, child>>

Routed == \E n \in DOMAIN plugins : current.kind \in plugins[n]
Route == CHOOSE n \in DOMAIN plugins : current.kind \in plugins[n]

Pending == stage = "next" /\ item <= Len(plan)

Unsupported ==
  /\ Pending /\ ~Routed
  /\ Contain
  /\ UNCHANGED <<plugins, plan, asked, runs, child>>

-----------------------------------------------------------------------------
(* ActionGate.execute *)

\* Mutant: a verdict is remembered for the plugin it was given for.
AskOnce(verdict) ==
  LET before == {n \in DOMAIN asked : /\ asked[n].verdict = "ALLOW"
                                      /\ plan[asked[n].item].kind = current.kind} IN
  /\ Pending /\ Routed
  /\ IF before # {} THEN UNCHANGED asked
     ELSE asked' = Append(asked, [item |-> item, verdict |-> verdict, approval |-> "none"])
  /\ CASE verdict = "ALLOW" \/ before # {} -> stage' = "granted" /\ UNCHANGED observations
       [] verdict = "REQUIRE_APPROVAL" /\ before = {} ->
            stage' = "resolver" /\ UNCHANGED observations
       [] OTHER                        -> Contain
  /\ UNCHANGED <<plugins, plan, runs, child>>

\* Any other answer, another policy's decision included, denies.
Ask(verdict) ==
  /\ Pending /\ Routed
  /\ asked' = Append(asked, [item |-> item, verdict |-> verdict, approval |-> "none"])
  /\ CASE verdict = "ALLOW"            -> stage' = "granted" /\ UNCHANGED observations
       [] verdict = "REQUIRE_APPROVAL" -> stage' = "resolver" /\ UNCHANGED observations
       [] OTHER                        -> Contain
  /\ UNCHANGED <<plugins, plan, runs, child>>

\* Only the bool True approves; a gate without a resolver denies like "false".
Resolve(approval) ==
  /\ stage = "resolver"
  /\ asked' = [asked EXCEPT ![Len(asked)].approval = approval]
  /\ IF approval = "true" THEN stage' = "granted" /\ UNCHANGED observations ELSE Contain
  /\ UNCHANGED <<plugins, plan, runs, child>>

-----------------------------------------------------------------------------
(* The plugins *)

Called(said, c) == [item |-> item, plugin |-> Route, said |-> said, child |-> c]

\* Mutant: the identity of the observation is not compared.
ObserveUnchecked(said) ==
  /\ stage = "granted" /\ current.kind # Command
  /\ runs' = Append(runs, Called(said, NoChild))
  /\ observations' = Append(observations, said) /\ stage' = "next"
  /\ UNCHANGED <<plugins, plan, asked, child>>

\* A foreign plugin returns an observation, perhaps of an obligation it saw
\* before; Nothing stands for one that raises or returns no Observation.
Observe(said) ==
  /\ stage = "granted" /\ current.kind # Command
  /\ runs' = Append(runs, Called(said, NoChild))
  /\ IF said.id = current.id THEN Record(said.status) ELSE Contain
  /\ UNCHANGED <<plugins, plan, asked, child>>

\* The payload is no {argv, expected_exit_code}, or the process cannot start.
CannotRun ==
  /\ stage = "granted" /\ current.kind = Command
  /\ runs' = Append(runs, Called(Nothing, NoChild))
  /\ Contain
  /\ UNCHANGED <<plugins, plan, asked, child>>

StartCommand ==
  /\ stage = "granted" /\ current.kind = Command
  /\ current.payload # Malformed
  /\ Launch
  /\ runs' = Append(runs, Called(Nothing, NoChild))
  /\ stage' = "wait"
  /\ UNCHANGED <<plugins, plan, observations, asked>>

Stopped(c) == runs' = [runs EXCEPT ![Len(runs)].child = c]

Judge ==
  /\ stage = "wait" /\ Ended
  /\ Stopped(child)
  /\ Record(IF ~WithinLimit(child) THEN "ERROR"
            ELSE IF child.code = current.payload THEN "PASSED" ELSE "FAILED")
  /\ UNCHANGED <<plugins, plan, asked, child>>

\* TimeoutExpired, perhaps just when the child has ended.
TimesOut ==
  /\ stage = "wait"
  /\ Kill
  /\ Stopped([child EXCEPT !.at = "killed"])
  /\ Contain
  /\ UNCHANGED <<plugins, plan, asked>>

\* KeyboardInterrupt and GeneratorExit pass through every handler.
Interrupt ==
  /\ Pending \/ (stage \in {"resolver", "granted", "wait"})
  /\ stage' = "raised"
  /\ IF stage = "wait" THEN Kill ELSE UNCHANGED child
  /\ UNCHANGED <<plugins, plan, observations, asked, runs>>

Return ==
  /\ stage = "next" /\ item > Len(plan)
  /\ stage' = "returned"
  /\ UNCHANGED <<plugins, plan, observations, asked, runs, child>>

-----------------------------------------------------------------------------

ChildStep ==
  /\ \/ Prints("word") \/ Complains \/ PipesClose
     \/ \E code \in {0, 1}, held \in BOOLEAN : Exits(code, held)
  /\ UNCHANGED <<stage, plugins, plan, observations, asked, runs>>

Collect ==
  \/ Construct \/ Unsupported \/ CannotRun \/ StartCommand \/ Judge \/ TimesOut \/ Return
  \/ \E verdict \in Verdicts : Ask(verdict)
  \/ \E approval \in Approvals : Resolve(approval)
  \/ \E id \in Ids, status \in {"PASSED", "FAILED", "INCONCLUSIVE", "ERROR"} :
       Observe(Observation(id, status))
  \/ Observe(Nothing)

Next == Collect \/ Interrupt \/ ChildStep

Spec == Init /\ [][Next]_vars

-----------------------------------------------------------------------------
(* Properties *)

Earned(run, k, o) ==
  /\ run.item = k /\ plan[k].kind \in plugins[run.plugin]
  /\ IF plan[k].kind # Command THEN run.said = o
     ELSE /\ run.child.at = "exited" /\ ~run.child.held /\ WithinLimit(run.child)
          /\ o.status = "PASSED" <=> run.child.code = plan[k].payload

\* The observations follow the plan, one each and in order, and all but
\* ERROR is evidence: the one plugin of the kind said so of this obligation,
\* or its child ended by itself, within time and limits, with that exit code.
\* A denial, a timeout or a broken plugin is neither (verifiers.py).
EvidenceIsEarned ==
  \A k \in DOMAIN observations :
    LET o == observations[k] IN
    /\ o.id = plan[k].id
    /\ o.status # "ERROR" => \E n \in DOMAIN runs : Earned(runs[n], k, o)

\* No plugin is called for an obligation before the policy, asked about this
\* very obligation, allowed it or its approval came back true; and none twice.
NothingRunsUngranted ==
  \A n \in DOMAIN runs :
    /\ \E g \in DOMAIN asked :
         /\ asked[g].item = runs[n].item
         /\ \/ asked[g].verdict = "ALLOW"
            \/ /\ asked[g].verdict = "REQUIRE_APPROVAL"
               /\ asked[g].approval = "true"
    /\ \A m \in DOMAIN runs : runs[m].item = runs[n].item => m = n
=============================================================================
