--------------------------- MODULE AgentProviders ---------------------------
(***************************************************************************)
(* One invocation of an agent provider: CommandAgentProvider               *)
(* (providers.py), OpenCodeAgentProvider with its official runner          *)
(* (opencode_provider.py), CodexAgentProvider with its own                 *)
(* (codex_provider.py) and CallableAgentProvider.  The agent is a child    *)
(* process or an SDK turn that prints, fails, ends or hangs as it likes.   *)
(* A provider returns the one answer or raises; nothing it returns is      *)
(* trusted, but it must be the agent's answer and not a part of it.        *)
(***************************************************************************)
EXTENDS ChildProcess, FiniteSets

CONSTANTS
  Document,   \* the pieces of a text that parses as one AgentOutput object
  Pieces,     \* pieces of text an agent prints, those and others
  MaxEvents   \* max_events of OpenCodeAgentProvider

\* The empty text is no document; max_events is positive.
ASSUME ProviderConstants ==
  /\ Document \in Seq(Pieces) /\ Document # <<>>
  /\ MaxEvents \in Nat \ {0}

VARIABLES
  provider,   \* which of the four
  config,     \* [sandbox, cwd] a caller asks for
  step,
  session,    \* the Codex client and thread: "none", "open" or "closed"
  turn,       \* what the turn came to: [error, response]
  read,       \* what _final_text made of the lines before `next`
  answer      \* the text the returned AgentOutput was parsed from

invokeVars == <<provider, config, step, session, turn, answer, read, child>>

NoText == <<>>
NothingRead == [next |-> 1, count |-> 0, chunks |-> NoText]
NoTurn == [error |-> FALSE, response |-> NoText]
Timed == {"command", "opencode"}
Final == {"answered", "raised"}

InvokeInit ==
  /\ provider \in Timed \cup {"codex", "callable"}
  /\ config \in [sandbox : {"read_only", "workspace_write"}, cwd : {"none", "directory"}]
  /\ step = "construct" /\ session = "none"
  /\ turn = NoTurn /\ read = NothingRead /\ answer = NoText
  /\ child = NoChild

Raises == step' = "raised" /\ UNCHANGED answer

Answers(text) == step' = "answered" /\ answer' = text

\* strict_json_loads, an object, and exactly payload_type and payload.
Parses(text) == text = Document

-----------------------------------------------------------------------------
(* Construction *)

\* OpenCode always, Codex when it may write, needs an existing directory.
ConstructProvider ==
  /\ step = "construct"
  /\ IF /\ config.cwd = "none"
        /\ \/ provider = "opencode"
           \/ provider = "codex" /\ config.sandbox = "workspace_write"
     THEN Raises ELSE step' = "ready" /\ UNCHANGED answer
  /\ UNCHANGED <<provider, config, session, turn, child, read>>

-----------------------------------------------------------------------------
(* The two that run a command *)

Run ==
  /\ step = "ready" /\ provider \in Timed
  /\ Launch
  /\ step' = "wait"
  /\ UNCHANGED <<provider, config, session, turn, answer, read>>

\* The executable is not there, or cannot be started.
CannotInvoke ==
  /\ step = "ready" /\ provider \in Timed
  /\ Raises
  /\ UNCHANGED <<provider, config, session, turn, child, read>>

\* Mutant: no timeout.
TimesOutNever ==
  /\ step = "wait" /\ Ended
  /\ Kill
  /\ Raises
  /\ UNCHANGED <<provider, config, session, turn, read>>

InvokeTimesOut ==
  /\ step = "wait"
  /\ Kill
  /\ Raises
  /\ UNCHANGED <<provider, config, session, turn, read>>

\* What came back can be answered, or it raises.
Conclude(text) == IF Parses(text) THEN Answers(text) ELSE Raises

\* Size and exit code, then the text; OpenCode's is read line by line.
Returns ==
  /\ step = "wait" /\ Ended
  /\ \/ /\ WithinLimit(child) /\ child.code = 0 /\ provider = "opencode"
        /\ step' = "read" /\ UNCHANGED answer
     \/ /\ WithinLimit(child) /\ child.code = 0 /\ provider = "command"
        /\ Conclude([n \in DOMAIN child.out |-> child.out[n].text])
     \/ ~(WithinLimit(child) /\ child.code = 0) /\ Raises
  /\ UNCHANGED <<provider, config, session, turn, child, read>>

\* Mutant: an error event is one more event without text.
RefusesLenient(line) == line.type = "broken"

\* A line that str.splitlines cut off within a JSON string is broken like any
\* other.
Refuses(line) == line.type \in {"error", "broken"}

\* What _final_text makes of one more line.
ReadLine ==
  LET line == child.out[read.next] IN
  /\ step = "read" /\ read.next <= Len(child.out)
  /\ \/ /\ line.type = "blank"
        /\ read' = [read EXCEPT !.next = @ + 1]
        /\ UNCHANGED <<step, answer>>
     \/ /\ line.type # "blank"
        /\ read.count = MaxEvents \/ Refuses(line)
        /\ Raises /\ UNCHANGED read
     \/ /\ line.type # "blank"
        /\ read.count # MaxEvents /\ ~Refuses(line)
        /\ read' = [next   |-> read.next + 1,
                    count  |-> read.count + 1,
                    chunks |-> IF line.type = "text" THEN Append(read.chunks, line.text)
                               ELSE read.chunks]
        /\ UNCHANGED <<step, answer>>
  /\ UNCHANGED <<provider, config, session, turn, child>>

\* The text is what the chunks make; its size is below the output's.
ReturnText ==
  /\ step = "read" /\ read.next > Len(child.out)
  /\ Conclude(read.chunks)
  /\ UNCHANGED <<provider, config, session, turn, child, read>>

-----------------------------------------------------------------------------
(* Codex *)

\* The SDK is missing, or offers no denial of approvals or no such sandbox.
SdkUnusable ==
  /\ step = "ready" /\ provider = "codex"
  /\ Raises
  /\ UNCHANGED <<provider, config, session, turn, child, read>>

\* One client and one ephemeral thread for each invocation; no timeout.
StartTurn ==
  /\ step = "ready" /\ provider = "codex"
  /\ session' = "open"
  /\ step' = "turn"
  /\ UNCHANGED <<provider, config, turn, answer, child, read>>

\* The SDK raises: with the client's context manager, the session is closed.
TurnRaises ==
  /\ step = "turn"
  /\ session' = "closed"
  /\ Raises
  /\ UNCHANGED <<provider, config, turn, child, read>>

\* A turn may report an error beside a response.
TurnEnds(error, response) ==
  /\ step = "turn"
  /\ session' = "closed"
  /\ turn' = [error |-> error, response |-> response]
  /\ step' = "result"
  /\ UNCHANGED <<provider, config, answer, child, read>>

JudgeTurn ==
  /\ step = "result"
  /\ IF ~turn.error /\ Len(turn.response) <= MaxOutput THEN Conclude(turn.response) ELSE Raises
  /\ UNCHANGED <<provider, config, session, turn, child, read>>

-----------------------------------------------------------------------------
(* The callback, whose result is passed on as it is *)

CallBack ==
  /\ step = "ready" /\ provider = "callable"
  /\ Raises \/ Answers(Document)
  /\ UNCHANGED <<provider, config, session, turn, child, read>>

-----------------------------------------------------------------------------

Texts == [type : {"text"}, text : Pieces]
Others == [type : {"step", "error", "broken", "blank"}, text : {"none"}]

\* A command prints text, OpenCode events that carry it.
Words == IF provider = "command" THEN Texts ELSE Texts \cup Others

AgentStep ==
  /\ \/ \E word \in Words : Prints(word)
     \/ Complains \/ PipesClose
     \/ \E code \in {0, 1}, held \in BOOLEAN : Exits(code, held)
  /\ UNCHANGED <<provider, config, step, session, turn, answer, read>>

Responses == UNION {[1..n -> Pieces] : n \in 0..(MaxOutput + 1)}

Sdk == TurnRaises \/ \E error \in BOOLEAN, r \in Responses : TurnEnds(error, r)

Provider ==
  ConstructProvider \/ Run \/ CannotInvoke \/ InvokeTimesOut \/ Returns \/ ReadLine \/ ReturnText
  \/ SdkUnusable \/ StartTurn \/ JudgeTurn

InvokeNext == Provider \/ Sdk \/ CallBack \/ AgentStep

\* Only the library's own steps are owed: not the child's, the SDK's or the
\* callback's.
InvokeSpec == InvokeInit /\ [][InvokeNext]_invokeVars /\ WF_invokeVars(Provider)

-----------------------------------------------------------------------------
(* Properties *)

Said == {n \in DOMAIN child.out : child.out[n].type = "text"}
Failures == {n \in DOMAIN child.out : child.out[n].type \in {"error", "broken"}}
Events == {n \in DOMAIN child.out : child.out[n].type # "blank"}

\* The function `at` numbers the lines of `which` in their order, and they say `text`.
Spells(at, text, which) ==
  /\ \A k, m \in DOMAIN text : k < m => at[k] < at[m]
  /\ {at[k] : k \in DOMAIN text} = which
  /\ \A k \in DOMAIN text : text[k] = child.out[at[k]].text

\* The text is everything the agent said.
Whole(text) == \E at \in [DOMAIN text -> DOMAIN child.out] : Spells(at, text, Said)

\* An answer is everything the agent said, in order, of a run that ended well
\* by itself within the limits; and such a run is answered (_final_text's loop
\* over the lines against what the lines say as a whole).
AnswerIsWhole ==
  /\ step = "answered" /\ provider \in Timed =>
       /\ child.at = "exited" /\ child.code = 0 /\ WithinLimit(child)
       /\ Parses(answer) /\ Whole(answer)
       /\ Failures = {}
       /\ provider = "opencode" => Cardinality(Events) <= MaxEvents
  /\ step = "answered" /\ provider = "codex" =>
       ~turn.error /\ answer = turn.response /\ Parses(turn.response)
  /\ step = "raised" /\ child.at = "exited" /\ child.code = 0 /\ WithinLimit(child) =>
       \/ ~Whole(Document) \/ Failures # {}
       \/ provider = "opencode" /\ Cardinality(Events) > MaxEvents

\* Whatever the command does, an invocation that runs one ends, and the command
\* with it; a Codex turn may last for ever, but never outlives its invocation.
InvokeEnds ==
  /\ (provider \in Timed) ~> (step \in Final /\ child.at # "running")
  /\ [](step \in Final => session # "open")
=============================================================================
