----------------------------- MODULE AgentLoop -----------------------------
(***************************************************************************)
(* Agent.run (agent.py) as the REPL drives it (cli.py): one conversation,  *)
(* one run after another.  A run alternates ensure_fits, a model call and  *)
(* the tools the model asked for, until the model answers or the run       *)
(* fails.  The model, and what the tools return, are nondeterministic.     *)
(***************************************************************************)
EXTENDS Context

CONSTANTS
    MaxIterations,     \* cfg.max_iterations
    MaxParseRetries,   \* cfg.max_parse_retries
    PromptCost,        \* what the system prompt costs
    TaskCosts,         \* what a task typed at the REPL may cost
    ResultSizes,       \* what a tool may return
    MaxCalls,          \* bound: tool calls in one completion
    MaxRuns            \* bound: tasks typed in one session

ASSUME AgentAssumption ==
    /\ MaxIterations \in Int
    /\ MaxParseRetries \in Nat
    /\ PromptCost \in Nat
    /\ TaskCosts \subseteq Nat
    /\ ResultSizes \subseteq Nat
    /\ MaxCalls \in Nat \ {0}
    /\ MaxRuns \in Nat \ {0}

VARIABLES
    messages,   \* conversation.messages
    pc,         \* where the program is
    run,        \* how many tasks have been started
    iter,       \* i, the iteration of the loop
    failures,   \* parse_failures
    steps,      \* steps, those of the run that have been emitted
    step,       \* the step of this iteration
    outcome,    \* how the last run ended, or "none" while one is active
    added,      \* how many messages were ever added: created_at's order
    files       \* .spill/

vars == <<messages, pc, run, iter, failures, steps, step, outcome, added, files>>

\* A run that ends badly raises: ParseRetriesExhausted and AgentLoopExhausted
\* leave the REPL alive, LLMError and anything else end the process.
Failures == {"parse_retries", "loop_exhausted", "llm_error", "escaped"}
Outcomes == {"none", "answer"} \union Failures

\* What a completion parses to: no call and no problem (answer), only problems
\* (garbage), or calls: from the text, from the text with unusable spans
\* beside them (mixed), or from the provider's structured field (native).
Shapes == {"answer", "garbage", "text", "mixed", "native"}

NoStep == [n |-> 0, shape |-> "answer", compacted |-> FALSE,
           calls |-> <<>>, results |-> 0]

Step == [n: Nat, shape: Shapes, compacted: BOOLEAN,
         calls: Seq(CallId), results: Nat]

TypeOK ==
    /\ messages \in Seq(Message)
    /\ pc \in {"repl", "fit", "model", "tools", "exited"}
    /\ run \in Nat
    /\ iter \in Nat
    /\ failures \in Nat
    /\ steps \in Seq(Step)
    /\ step \in Step
    /\ outcome \in Outcomes
    /\ added \in Nat
    /\ files \subseteq [name: CallId, content: CallId]

Init ==
    /\ messages = <<SystemMessage(PromptCost)>>
    /\ pc = "repl"
    /\ run = 0
    /\ iter = 0
    /\ failures = 0
    /\ steps = <<>>
    /\ step = NoStep
    /\ outcome = "none"
    /\ added = 0
    /\ files = {}

-----------------------------------------------------------------------------

\* The REPL reads a task; run() adds it and enters the loop.
BeginRun ==
    /\ pc = "repl"
    /\ run < MaxRuns
    /\ \E cost \in TaskCosts :
        messages' = Append(messages,
                           UserMessage("task", run + 1, added + 1, cost))
    /\ pc' = "fit"
    /\ run' = run + 1
    /\ iter' = 1
    /\ failures' = 0
    /\ steps' = <<>>
    /\ step' = NoStep
    /\ outcome' = "none"
    /\ added' = added + 1
    /\ UNCHANGED files

\* End of input or /quit.
Quit ==
    /\ pc = "repl"
    /\ pc' = "exited"
    /\ UNCHANGED <<messages, run, iter, failures, steps, step, outcome, added, files>>

\* A new step, with what ensure_fits returned, and on to the model call.
Fitted(compacted) ==
    /\ step' = [NoStep EXCEPT !.n = iter, !.compacted = compacted]
    /\ pc' = "model"
    /\ UNCHANGED <<run, iter, failures, steps, outcome, added, files>>

LoopTop == pc = "fit" /\ iter <= MaxIterations

\* ensure_fits: nothing to do.
Fits ==
    /\ LoopTop
    /\ ~OverThreshold(messages)
    /\ UNCHANGED messages
    /\ Fitted(FALSE)

\* Mutant: compacts again until the history fits.
CannotFitLooping ==
    /\ LoopTop
    /\ OverThreshold(messages)
    /\ CutPoints(messages) = {}
    /\ UNCHANGED vars

\* ensure_fits over the threshold with no turn to drop: it says it compacted.
CannotFit ==
    /\ LoopTop
    /\ KnownStrategy
    /\ OverThreshold(messages)
    /\ CutPoints(messages) = {}
    /\ UNCHANGED messages
    /\ Fitted(TRUE)

\* ensure_fits drops the oldest turns.  _ask_for_summary never raises, so the
\* model call of the summarize strategy only chooses the marker's cost.  A
\* strategy of any other name is a ValueError, turns to drop or not.
Compact ==
    /\ LoopTop
    /\ OverThreshold(messages)
    /\ IF KnownStrategy
       THEN /\ \E c \in CutPoints(messages), cost \in MarkerCosts :
                messages' = Rebuild(messages, c, cost)
            /\ Fitted(TRUE)
       ELSE /\ pc' = "exited"
            /\ outcome' = "escaped"
            /\ step' = NoStep
            /\ UNCHANGED <<messages, run, iter, failures, steps, added, files>>

-----------------------------------------------------------------------------

\* No completion that can be used.  run() catches neither the LLMError of
\* client.complete (repl() returns 1), nor what else complete may raise
\* (LLMClient!Escape) or the parser does (Parsing!Rungs, "raises").
ModelFails ==
    /\ pc = "model"
    /\ pc' = "exited"
    /\ outcome' \in {"llm_error", "escaped"}
    /\ UNCHANGED <<messages, run, iter, failures, steps, step, added, files>>

\* steps.append(step); _emit(step)
Emit(s) == steps' = Append(steps, s)

\* No call, no problem: the model is done.
Answer ==
    /\ pc = "model"
    /\ messages' = Append(messages,
                          AssistantMessage("answer", run, added + 1, 1, <<>>))
    /\ added' = added + 1
    /\ Emit(step)
    /\ pc' = "repl"
    /\ outcome' = "answer"
    /\ UNCHANGED <<run, iter, failures, step, files>>

Garbage == [step EXCEPT !.shape = "garbage"]

\* Problems only, and a retry left: the reply and a nudge go into the history.
Nudge ==
    /\ pc = "model"
    /\ failures + 1 <= MaxParseRetries
    /\ failures' = failures + 1
    /\ Emit(Garbage)
    /\ messages' = messages
                    \o <<AssistantMessage("garbage", run, added + 1, 1, <<>>),
                         UserMessage("nudge", run, added + 2, 1)>>
    /\ added' = added + 2
    /\ iter' = iter + 1
    /\ pc' = "fit"
    /\ UNCHANGED <<run, step, outcome, files>>

\* Mutant: falls through and returns the unparseable text as the answer.
GiveUpAnswering ==
    /\ pc = "model"
    /\ failures + 1 > MaxParseRetries
    /\ failures' = failures + 1
    /\ Emit(Garbage)
    /\ pc' = "repl"
    /\ outcome' = "answer"
    /\ UNCHANGED <<messages, run, iter, step, added, files>>

\* Mutant: raises before the step is emitted.
GiveUpParsingUnemitted ==
    /\ pc = "model"
    /\ failures + 1 > MaxParseRetries
    /\ failures' = failures + 1
    /\ pc' = "repl"
    /\ outcome' = "parse_retries"
    /\ UNCHANGED <<messages, run, iter, steps, step, added, files>>

\* Problems only, and none left: the reply is not recorded.
GiveUpParsing ==
    /\ pc = "model"
    /\ failures + 1 > MaxParseRetries
    /\ failures' = failures + 1
    /\ Emit(Garbage)
    /\ pc' = "repl"
    /\ outcome' = "parse_retries"
    /\ UNCHANGED <<messages, run, iter, step, added, files>>

\* Calls: problems that came with them are dropped.
RequestTools ==
    /\ pc = "model"
    /\ failures' = 0
    /\ \E n \in 1..MaxCalls, shape \in {"text", "mixed", "native"} :
        LET calls == [k \in 1..n |-> <<run, iter, k>>]
        IN  /\ step' = [step EXCEPT !.shape = shape, !.calls = calls]
            /\ messages' = Append(messages,
                    AssistantMessage("calls", run, added + 1, 1, calls))
    /\ added' = added + 1
    /\ pc' = "tools"
    /\ UNCHANGED <<run, iter, steps, outcome, files>>

\* One call of the completion: execute, trim, record.  The last one ends the
\* iteration.
RunTool ==
    /\ pc = "tools"
    /\ LET k    == step.results + 1
           id   == step.calls[k]
           done == [step EXCEPT !.results = k]
       IN  /\ \E size \in ResultSizes, saved \in BOOLEAN :
                LET kind == ResultKind(size, saved)
                IN  /\ messages' = Append(messages,
                            ToolMessage(kind, run, added + 1,
                                        TrimmedCost(size), id))
                    /\ files' = IF kind = "spilled" THEN Spilled(files, id)
                                                    ELSE files
           /\ step' = done
           /\ IF k = Len(step.calls)
              THEN Emit(done) /\ iter' = iter + 1 /\ pc' = "fit"
              ELSE UNCHANGED <<steps, iter, pc>>
    /\ added' = added + 1
    /\ UNCHANGED <<run, failures, outcome>>

\* registry.execute copies the arguments with dict() outside its try: native
\* arguments that dict() cannot copy raise through run().
ToolEscapes ==
    /\ pc = "tools"
    /\ step.shape = "native"
    /\ pc' = "exited"
    /\ outcome' = "escaped"
    /\ UNCHANGED <<messages, run, iter, failures, steps, step, added, files>>

\* The loop ran out.  Its message reads steps[-1]: with no step at all that is
\* an IndexError.
LoopExhausted ==
    /\ pc = "fit"
    /\ iter > MaxIterations
    /\ IF steps = <<>>
       THEN pc' = "exited" /\ outcome' = "escaped"
       ELSE pc' = "repl" /\ outcome' = "loop_exhausted"
    /\ UNCHANGED <<messages, run, iter, failures, steps, step, added, files>>

Exited == pc = "exited" /\ UNCHANGED vars

\* What a run does once it has begun.
RunStep ==
    \/ Fits \/ CannotFit \/ Compact
    \/ ModelFails \/ Answer \/ Nudge \/ GiveUpParsing \/ RequestTools
    \/ RunTool \/ ToolEscapes
    \/ LoopExhausted

Next == BeginRun \/ Quit \/ RunStep \/ Exited

\* A run is a sequential program: it keeps taking steps, as long as the model
\* call and the tool it waits for return.  The model call does (LLMClient).  That
\* the tool does is assumed here: a search for a regular expression has no
\* timeout, and an MCP server may put off the end of a call (Dispatch!Unbounded).
\* Nothing obliges the user to type.
Spec == Init /\ [][Next]_vars /\ WF_vars(RunStep)

-----------------------------------------------------------------------------
(***************************************************************************)
(* Properties.                                                             *)
(***************************************************************************)

\* How many of the latest completions in a row could not be parsed.
Streak(ss) ==
    Cardinality({i \in DOMAIN ss :
                    \A j \in i..Len(ss) : ss[j].shape = "garbage"})

Nudges == Cardinality({i \in DOMAIN steps : steps[i].shape = "garbage"})

\* A hosted provider accepts the history of every model call: results follow
\* the call they answer and every call has its result, whatever compaction
\* dropped and however the runs before this one ended (conversation.py:55-63).
WireOK == pc = "model" => WirePaired(messages)

\* What the model sees is the system prompt, at most one marker, and the latest
\* messages with no gap: compaction never loses a message from the middle, and
\* one compaction after another never stacks markers (context.py:302-305).
KeptIsSuffix ==
    /\ messages[1].kind = "prompt"
    /\ \A i \in 2..Len(messages) :
        \/ i = 2 /\ messages[i].kind = "marker"
        \/ /\ messages[i].role # "system"
           /\ messages[i].at = added - (Len(messages) - i)

TaskAt(i) == messages[i].kind = "task" /\ messages[i].run = run

\* The model still sees the task it works on, as long as the run has sent fewer
\* nudges than keep_recent_turns: each nudge opens a turn of its own and pushes
\* the task towards the cut (agent.py:232-236, conversation.py:155-175).
TaskInView ==
    pc = "model" /\ Nudges < KeepN => \E i \in DOMAIN messages : TaskAt(i)

\* ensure_fits leaves a history that fits, or one that only holds the turns it
\* may not drop (context.py:245-300).
FitsOrMinimal ==
    pc = "model" =>
        \/ ~OverThreshold(messages)
        \/ Cardinality({i \in TurnStarts(messages) :
                            messages[i].kind # "marker"}) <= KeepN

\* A trimmed result that names a spill file can be read back from it, for as
\* long as the history names it (context.py:389-391, 412-417).
SpillReadable ==
    \A i \in DOMAIN messages : messages[i].kind = "spilled" =>
        [name |-> SpillName(messages[i].id), content |-> messages[i].id]
            \in files

\* A run whose tools return ends: with an answer, with a failure the REPL
\* survives or with the process (agent.py:175, 291).
RunEnds == (pc \in {"fit", "model", "tools"}) ~> (pc \in {"repl", "exited"})

\* What the loop does is a run as its callers know it: the abstract history of
\* a run is its emitted steps (agent.py:54-82, 175-296).
Contract == INSTANCE RunContract WITH
    phase <- IF pc = "repl" THEN "waiting"
             ELSE IF pc = "exited" THEN "over" ELSE "running",
    runs <- run,
    asked <- Len(steps),
    streak <- Streak(steps),
    verdict <- outcome

ContractHolds == Contract!Spec

\* The marker tells the model how many messages are missing.  The code does not
\* keep this: a later compaction counts the old marker as one message and
\* forgets those it stood for (context.py:315-320, 333-343).
MarkerCountsDropped ==
    Len(messages) > 1 /\ messages[2].kind = "marker" =>
        messages[2].lost = added - (Len(messages) - 2)

\* A completion whose call could not be parsed is told so: the next model call
\* comes after a nudge (parsing.py:107-108).  The code does not keep this when
\* another call of the same completion did parse.
ProblemsFedBack ==
    pc = "fit" /\ steps # <<>>
        /\ steps[Len(steps)].shape \in {"garbage", "mixed"}
        => messages[Len(messages)].kind = "nudge"
=============================================================================
