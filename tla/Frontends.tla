----------------------------- MODULE Frontends -----------------------------
(***************************************************************************)
(* Who drives Agent.run and what they are told: the REPL and the one-shot  *)
(* command line (cli.py), each perhaps with a tracer                       *)
(* (observability/trace.py), and one request of the HTTP server            *)
(* (server.py), which builds an agent of its own.                          *)
(***************************************************************************)
EXTENDS AgentLoop

VARIABLES
    front,      \* "repl", "once" or "http"
    records,    \* Tracer.records, added up as summary() does
    reply,      \* what the run that ended last came to, for who asked for it
    summary,    \* the run summary that was shown, if one was
    ran         \* calls that were executed: in this run, and in all of them

fvars == <<vars, front, records, reply, summary, ran>>

NoRecords == [steps |-> 0, calls |-> 0, compactions |-> 0]
NoReply == [told |-> "none", iterations |-> 0, calls |-> 0]

FrontInit ==
    /\ Init
    /\ front \in {"repl", "once", "http"}
    /\ records = NoRecords
    /\ reply = NoReply
    /\ summary = NoRecords
    /\ ran = [now |-> 0, all |-> 0]

-----------------------------------------------------------------------------
(***************************************************************************)
(* During a run.                                                           *)
(***************************************************************************)

\* A record counts the results of its step.
Record(s) ==
    [steps |-> records.steps + 1, calls |-> records.calls + s.results,
     compactions |-> records.compactions + (IF s.compacted THEN 1 ELSE 0)]

\* Mutant: a step whose number was recorded before, in an earlier run, is left out.
OnStepByNumber ==
    records' = IF /\ front # "http" /\ Len(steps') > Len(steps)
                  /\ steps'[Len(steps')].n > records.steps
               THEN Record(steps'[Len(steps')]) ELSE records

\* The callback of _emit.  The server's agents have none.  That a line of the
\* trace may fail to be written changes nothing else.
OnStep ==
    records' = IF front # "http" /\ Len(steps') > Len(steps)
               THEN Record(steps'[Len(steps')]) ELSE records

\* Observation: a result came into the conversation.
Count ==
    ran' = IF added' > added /\ messages'[Len(messages')].role = "tool"
           THEN [now |-> ran.now + 1, all |-> ran.all + 1] ELSE ran

Running ==
    /\ RunStep
    /\ OnStep
    /\ Count
    /\ UNCHANGED <<front, reply, summary>>

-----------------------------------------------------------------------------
(***************************************************************************)
(* Before and after it.                                                    *)
(***************************************************************************)

\* The run that went before was reported.
Heard == outcome = "none" \/ reply.told # "none"

\* One task for the command line and for a request, any number for the REPL.
Begin ==
    /\ Heard
    /\ front # "repl" => run = 0 /\ reply = NoReply
    /\ BeginRun
    /\ reply' = NoReply
    /\ ran' = [ran EXCEPT !.now = 0]
    /\ UNCHANGED <<front, records, summary>>

\* _check_key, and a body that is no RunRequest, before there is an agent.
Refuse ==
    /\ front = "http"
    /\ run = 0
    /\ reply = NoReply
    /\ reply' = [NoReply EXCEPT !.told = "refused"]
    /\ UNCHANGED <<vars, front, records, summary, ran>>

\* AgentFailure is caught everywhere: exit code 2, a message of the REPL, status
\* 502.  LLMError is caught by the command line only; the server lets it become
\* a status 500, and what else is raised ends the process or the request.
Told(end) ==
    CASE end = "answer" -> "answer"
      [] end \in {"parse_retries", "loop_exhausted"} -> "failed"
      [] end = "llm_error" /\ front # "http" -> "error"
      [] OTHER -> "crash"

\* The calls that some steps asked for.
CallsOf(S) == UNION {{i} \X DOMAIN steps[i].calls : i \in S}

\* Mutant: the calls of the last completion that had any are left out.
AgentRunShort ==
    [told |-> "answer", iterations |-> Len(steps),
     calls |-> Cardinality(CallsOf(DOMAIN steps \ {Len(steps) - 1}))]

\* AgentRun.iterations and tool_calls, which counts the calls that were asked for.
AgentRun ==
    [told |-> "answer", iterations |-> Len(steps),
     calls |-> Cardinality(CallsOf(DOMAIN steps))]

\* run() returned or raised.  The command line shows a summary of the trace with
\* an answer or an AgentFailure; the REPL never does.
Respond ==
    /\ pc \in {"repl", "exited"}
    /\ outcome # "none"
    /\ reply = NoReply
    /\ reply' = IF outcome = "answer" THEN AgentRun
                ELSE [NoReply EXCEPT !.told = Told(outcome)]
    /\ summary' = IF front = "once" /\ Told(outcome) \in {"answer", "failed"}
                  THEN records ELSE summary
    /\ UNCHANGED <<vars, front, records, ran>>

\* The user leaves the REPL; the others are done when they have replied.
Leave ==
    /\ Heard
    /\ front # "repl" => reply # NoReply
    /\ Quit
    /\ UNCHANGED <<front, records, reply, summary, ran>>

Over == pc = "exited" /\ UNCHANGED fvars

FrontNext == Running \/ Begin \/ Refuse \/ Respond \/ Leave \/ Over

\* A run goes on: AgentLoop's own properties are checked under its front ends.
FrontSpec == FrontInit /\ [][FrontNext]_fvars /\ WF_fvars(Running)

-----------------------------------------------------------------------------
(***************************************************************************)
(* Properties.                                                             *)
(***************************************************************************)

\* The trace accounts for every tool that was executed, in all runs of a session
\* and however they ended, but for those of the step that is open or in which
\* something was raised (agent.py:281-289, trace.py:65-92).
TraceAccounts ==
    LET open == IF pc = "tools" \/ outcome = "escaped" THEN step.results ELSE 0
    IN  front # "http" => records.calls + open = ran.all

\* Who gets an answer is told the truth about how it came to be: it is what the
\* model said last, every call it asked for was executed, and the summary of the
\* trace, if there is one, says the same (server.py:89-95, cli.py:131-135).
ReplyTrue ==
    reply.told = "answer" =>
        /\ outcome = "answer"
        /\ messages[Len(messages)].kind = "answer"
        /\ reply.calls = ran.now
        /\ front = "once" =>
            summary.calls = ran.now /\ summary.steps = reply.iterations

\* A one-shot run that failed still gets the summary of its trace, and the
\* summary is of the whole run: it has a step for every completion, the one that
\* made the loop give up included, and every call that was executed
\* (cli.py:119-123, agent.py:217-231, 291-296).
FailureShown ==
    front = "once" /\ reply.told = "failed" =>
        /\ summary.calls = ran.now
        /\ summary.steps = IF outcome = "parse_retries" THEN iter ELSE MaxIterations
=============================================================================
