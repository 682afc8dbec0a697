-------------------------- MODULE MCPythonVerifier --------------------------
(* Two obligations of every kind, two test cases with different answers.    *)
EXTENDS PythonVerifier

CONSTANTS v1, v2, o1, o2

Kinds == {"TEST_EXECUTION", "REQUIRED_ENTRYPOINT", "FORBIDDEN_TEXT", "UNKNOWN"}

\* The first obligation has id o1; the second has the same one or another.
MCPlans == {p \in UNION {[1..n -> [id : {o1, o2}, kind : Kinds]] : n \in 0..2} :
              p # <<>> => p[1].id = o1}

\* One that passes every static check, one that fails either, one that is no Python.
MCCandidates ==
  {[parses |-> TRUE, defines |-> TRUE, forbidden |-> FALSE],
   [parses |-> TRUE, defines |-> FALSE, forbidden |-> TRUE],
   [parses |-> FALSE, defines |-> FALSE, forbidden |-> FALSE]}
MCValues == {v1, v2, Huge}
MCExpected == <<v1, v2>>
=============================================================================
