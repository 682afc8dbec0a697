--------------------------- MODULE PythonVerifier ---------------------------
(***************************************************************************)
(* VerifierAgent.verify (agents/verifier.py): the obligations of one plan  *)
(* are evaluated in order, each test case in a child process of its own    *)
(* that runs the candidate.  The child is a second actor: it answers,      *)
(* raises, writes to the pipe what it likes, an answer of its own making   *)
(* included, exits or hangs, while the parent waits for it under a         *)
(* timeout.  Signing is the last step.                                     *)
(***************************************************************************)
EXTENDS Naturals, Sequences, SequencesExt

CONSTANTS
  Plans,     \* tuples of obligations [id, kind] a caller may pass
  Candidates, \* as their syntax shows: [parses, defines, forbidden]
  Values,    \* what a candidate may compute, as far as JSON and == tell it apart
  Huge,      \* a value whose JSON exceeds max_response_bytes
  Expected,  \* expected output of each test case of the spec
  MaxWritten \* bound: words in the pipe up to which a candidate adds its own

\* A spec has test cases, and what they expect is something.
ASSUME VerifierConstants ==
  /\ Len(Expected) \in Nat \ {0} /\ DOMAIN Expected = 1..Len(Expected)
  /\ "nothing" \notin Values \cup Range(Expected)

VARIABLES
  stage,     \* where the parent is in verify
  plan, code,
  case,      \* test case under execution
  child,     \* its process, with what it wrote to the pipe
  evidence,  \* of the obligations evaluated so far
  runs       \* the children there were: [item, case, child]

verifierVars == <<stage, plan, code, case, child, evidence, runs>>

\* `computed` is what the candidate's function returned, known to nobody else.
Fresh == [at |-> "candidate", out |-> <<>>, code |-> 0, computed |-> "nothing"]
NoChild == [Fresh EXCEPT !.at = "none"]

Alive == child.at \in {"candidate", "reported"}

item == Len(evidence) + 1

VerifierInit ==
  /\ stage = "called"
  /\ plan \in Plans
  /\ code \in Candidates
  /\ case = 0
  /\ child = NoChild
  /\ evidence = <<>>
  /\ runs = <<>>

-----------------------------------------------------------------------------
(* The child: runner.py around the candidate *)

\* What is written to the pipe, and by whom: the parent cannot see that.
Word(by, says, value) == [by |-> by, says |-> says, output |-> value]
Noise == Word("candidate", "noise", "nothing")

\* The candidate's own words, white space that JSON ignores and well-formed answers
\* with any output included; pieces that only together make one word count as that
\* word, white space beyond the size limit as noise.
OwnWords == {Noise, Word("candidate", "blank", "nothing")} \cup
            {Word("candidate", "answer", v) : v \in Values}

\* The candidate runs in the runner's process and shares its file descriptor 1; what
\* it makes the runner write (a replaced json.dumps) is its own word too.
ChildWrites(word) ==
  /\ Alive
  /\ Len(child.out) < MaxWritten
  /\ child' = [child EXCEPT !.out = Append(@, word)]

\* The entrypoint returns v and report writes it.
ChildAnswers(v) ==
  /\ child.at = "candidate"
  /\ child' = [child EXCEPT !.at = "reported", !.computed = v,
                            !.out = Append(@, Word("runner", "answer", v))]

\* A syntax error, an exception, sys.exit, a missing entrypoint or an output
\* that is no JSON; or the answer is written and its flush raises.
ChildReportsError ==
  /\ Alive
  /\ \A n \in DOMAIN child.out : child.out[n].says # "error"
  /\ child' = [child EXCEPT !.at = "reported", !.out = Append(@, Word("runner", "error", "nothing"))]

\* The interpreter ends, or the candidate ends it (os._exit, a signal).
ChildExits(c) ==
  /\ Alive
  /\ child' = [child EXCEPT !.at = "exited", !.code = c]

Child ==
  /\ \/ ChildReportsError
     \/ \E word \in OwnWords : ChildWrites(word)
     \/ \E v \in Values : ChildAnswers(v)
     \/ \E c \in {0, 1} : ChildExits(c)
  /\ UNCHANGED <<stage, plan, code, case, evidence, runs>>

-----------------------------------------------------------------------------
(* The parent *)

Observe(status) ==
  /\ evidence' = Append(evidence, [id |-> plan[item].id, status |-> status])
  /\ stage' = "next"

Raises ==
  /\ stage' = "raised"
  /\ UNCHANGED <<plan, code, case, child, evidence, runs>>

\* _validate_obligations: at least one, and no id twice.
Validate ==
  /\ stage = "called"
  /\ stage' = IF plan # <<>> /\ \A i, j \in DOMAIN plan : plan[i].id = plan[j].id => i = j
              THEN "next" ELSE "raised"
  /\ UNCHANGED <<plan, code, case, child, evidence, runs>>

\* The obligations evaluated without running anything; an unknown kind fails.
StaticPasses ==
  CASE plan[item].kind = "REQUIRED_ENTRYPOINT" -> code.parses /\ code.defines
    [] plan[item].kind = "FORBIDDEN_TEXT"      -> ~code.forbidden
    [] OTHER                                   -> FALSE

VerifyStatic ==
  /\ stage = "next" /\ item <= Len(plan)
  /\ plan[item].kind # "TEST_EXECUTION"
  /\ Observe(IF StaticPasses THEN "PASSED" ELSE "FAILED")
  /\ UNCHANGED <<plan, code, case, child, runs>>

\* Mutant: the test cases of a later obligation resume where the last one stopped.
VerifyTestsResumes ==
  /\ stage = "next" /\ item <= Len(plan)
  /\ plan[item].kind = "TEST_EXECUTION"
  /\ stage' = "case"
  /\ case' = IF case = 0 THEN 1 ELSE case
  /\ UNCHANGED <<plan, code, child, evidence, runs>>

VerifyTests ==
  /\ stage = "next" /\ item <= Len(plan)
  /\ plan[item].kind = "TEST_EXECUTION"
  /\ stage' = "case"
  /\ case' = 1
  /\ UNCHANGED <<plan, code, child, evidence, runs>>

\* A fresh directory, runner and process.
Spawn ==
  /\ stage = "case"
  /\ stage' = "wait"
  /\ child' = Fresh
  /\ UNCHANGED <<plan, code, case, evidence, runs>>

\* canonical_json refuses the input, or the process cannot be started.
SpawnFails ==
  /\ stage = "case"
  /\ Observe("FAILED")
  /\ runs' = Append(runs, [item |-> item, case |-> case, child |-> NoChild])
  /\ UNCHANGED <<plan, code, case, child>>

\* What no handler covers: the runner cannot be written, the child's bytes are
\* not text of the parent's encoding or a document json.loads gives up on (nested
\* too deep, an integer too long), or ast.parse raises another error.
Escapes ==
  /\ \/ stage = "case"
     \/ stage = "next" /\ item <= Len(plan) /\ plan[item].kind = "REQUIRED_ENTRYPOINT"
     \/ stage = "wait" /\ child.at = "exited" /\ Noise \in Range(child.out)
  /\ Raises

\* subprocess.run returns: the child exited and its pipe was read to the end.
Completes ==
  /\ stage = "wait" /\ child.at = "exited"
  /\ stage' = "judge"
  /\ UNCHANGED <<plan, code, case, child, evidence, runs>>

\* Mutant: no timeout.
TimesOutNever ==
  /\ stage = "wait" /\ child.at = "exited"
  /\ Observe("FAILED")
  /\ UNCHANGED <<plan, code, case, child, runs>>

\* TimeoutExpired: the child is killed, whatever it has written or is about to
\* write is dropped.  An exited child may have left its pipe open, so that the
\* parent kept waiting: it counts as killed.
TimesOut ==
  /\ stage = "wait"
  /\ LET killed == [NoChild EXCEPT !.at = "killed"] IN
     /\ child' = killed
     /\ runs' = Append(runs, [item |-> item, case |-> case, child |-> killed])
  /\ Observe("FAILED")
  /\ UNCHANGED <<plan, code, case>>

\* What is in the pipe beside white space.
Spoken(c) == {n \in DOMAIN c.out : c.out[n].says # "blank"}

\* Exit code, size, one JSON document, its shape, ok and its output v.
Says(c, v) ==
  /\ c.at = "exited" /\ c.code = 0
  /\ v # Huge
  /\ \E n \in Spoken(c) :
       Spoken(c) = {n} /\ c.out[n].says = "answer" /\ c.out[n].output = v

\* Mutant: every case is compared with the first one's expected output.
JudgeFirst ==
  LET right == Says(child, Expected[1]) IN
  /\ stage = "judge"
  /\ runs' = Append(runs, [item |-> item, case |-> case, child |-> child])
  /\ IF ~right THEN Observe("FAILED") /\ UNCHANGED case
     ELSE IF case < Len(Expected)
     THEN stage' = "case" /\ case' = case + 1 /\ UNCHANGED evidence
     ELSE Observe("PASSED") /\ UNCHANGED case
  /\ UNCHANGED <<plan, code, child>>

\* The first case that is not answered as expected decides the obligation.
Judge ==
  LET right == Says(child, Expected[case]) IN
  /\ stage = "judge"
  /\ runs' = Append(runs, [item |-> item, case |-> case, child |-> child])
  /\ IF ~right THEN Observe("FAILED") /\ UNCHANGED case
     ELSE IF case < Len(Expected)
     THEN stage' = "case" /\ case' = case + 1 /\ UNCHANGED evidence
     ELSE Observe("PASSED") /\ UNCHANGED case
  /\ UNCHANGED <<plan, code, child>>

\* The receipt lists plan and evidence and is signed.
Sign ==
  /\ stage = "next" /\ item > Len(plan)
  /\ stage' = "returned"
  /\ UNCHANGED <<plan, code, case, child, evidence, runs>>

Parent ==
  \/ Validate \/ VerifyStatic \/ VerifyTests \/ Spawn \/ SpawnFails \/ Escapes
  \/ Completes \/ TimesOut \/ Judge \/ Sign

VerifierNext == Parent \/ Child

\* The parent keeps running and its timeout expires; the child owes nothing.
VerifierSpec == VerifierInit /\ [][VerifierNext]_verifierVars /\ WF_verifierVars(Parent)

-----------------------------------------------------------------------------
(* Properties *)

\* Item n ran k children, those behind `before` in the order of all runs.
Ran(n, before, k) ==
  {i \in DOMAIN runs : runs[i].item = n} = (before + 1)..(before + k)

\* The candidate, not the runner, wrote what there is to read: nothing tells the
\* parent.
Forged(c) == \A n \in Spoken(c) : c.out[n].by = "candidate"

\* The run's child said what test case c expects, and had computed it or made
\* the answer up.
Right(c, r) ==
  /\ r.case = c /\ Says(r.child, Expected[c])
  /\ r.child.computed = Expected[c] \/ Forged(r.child)

\* A TEST_EXECUTION obligation passed only if, for every test case in order, a
\* child of its own gave the expected answer and no other one, exited by itself,
\* and had computed that value unless the candidate forged the answer in this very
\* child: no late, partial or foreign answer counts.
PassIsEarned ==
  \A n \in DOMAIN evidence :
    evidence[n].status = "PASSED" /\ plan[n].kind = "TEST_EXECUTION" =>
      \E before \in 0..Len(runs) :
        /\ Ran(n, before, Len(Expected))
        /\ \A c \in DOMAIN Expected : Right(c, runs[before + c])

\* The child did not end by itself and in order, left nothing to read or more than
\* one word, or neither computed what test case c expects nor forged it.
Wrong(c, r) ==
  \/ r.at # "exited" \/ r.code # 0
  \/ \A n \in Spoken(r) : Spoken(r) # {n}
  \/ Expected[c] = Huge
  \/ ~Forged(r) /\ r.computed # Expected[c]
  \/ Forged(r) /\ \E n \in Spoken(r) : r.out[n] # Word("candidate", "answer", Expected[c])

\* It failed only because of the last child it ran, and not for what another
\* one did: those before it were right, and it was wrong.  White space that a
\* candidate writes beside its answer costs it nothing.
FailureIsOwn ==
  \A n \in DOMAIN evidence :
    evidence[n].status = "FAILED" /\ plan[n].kind = "TEST_EXECUTION" =>
      \E before \in 0..Len(runs), k \in DOMAIN Expected :
        /\ Ran(n, before, k)
        /\ \A c \in 1..(k - 1) : Right(c, runs[before + c])
        /\ Wrong(k, runs[before + k].child)

\* Whatever the candidate does, verify ends, and no child outlives it.
VerifyEnds == <>(stage \in {"returned", "raised"} /\ ~Alive)
=============================================================================
