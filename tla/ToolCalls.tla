----------------------------- MODULE ToolCalls -----------------------------
(***************************************************************************)
(* From what the model wrote to the results it is given (agent.py:281-289):*)
(* the completion is scanned and parsed, and its calls are executed one    *)
(* after the other.                                                        *)
(***************************************************************************)
EXTENDS Scanner, Executor

CONSTANTS
    SpanShapes,     \* what the first span may turn out to hold, closed or not
    LaterShapes,    \* what those after it may hold
    NativeObjects,  \* calls a provider may return in native mode
    MaxText         \* bound: characters of a completion

\* An object in the form of a call, with arguments that are words.
IsObject(o) ==
    /\ o.form \in Forms
    /\ \A i \in DOMAIN o.args.words : IsRaw(o.args.words[i].raw)

ASSUME ToolCallsAssumption ==
    /\ MaxText \in Nat
    /\ \A span \in SpanShapes \union LaterShapes :
        span.objects \in Seq({o \in Range(span.objects) : IsObject(o)})
    /\ \A o \in NativeObjects : IsObject(o)

VARIABLES
    text,      \* the completion, as far as it was read
    scan,      \* the locals of balanced_spans
    closed     \* the spans it returned: whether each was closed

reading == <<text, scan, closed>>
vars == <<dispatch, executor, reading>>

Init ==
    /\ pc = "reading"
    /\ session \in Sessions
    /\ calls = <<>>
    /\ results = <<>>
    /\ approved = {}
    /\ audit = <<>>
    /\ effects = {}
    /\ files = Disk
    /\ stats = NoStats
    /\ node = "up"
    /\ waited = 0
    /\ jobs = <<>>
    /\ text = <<>>
    /\ scan = Fresh
    /\ closed = <<>>

\* The scanner takes one more character.
Read ==
    /\ pc = "reading"
    /\ Len(text) < MaxText
    /\ \E c \in Chars : text' = Append(text, c) /\ scan' = Feed(scan, c)
    /\ UNCHANGED <<dispatch, executor, closed>>

\* The text ends, and balanced_spans returns: only the last may be unclosed.
EndOfText ==
    /\ pc = "reading"
    /\ pc' = "parsing"
    /\ closed' = [i \in DOMAIN Spans(scan) |-> i <= Len(scan.spans)]
    /\ text' = <<>>
    /\ scan' = Fresh
    /\ UNCHANGED <<session, calls, results, approved, audit, effects, files, stats,
                   executor>>

\* The calls of a completion begin.
Begun(parsed) ==
    /\ Len(parsed.calls) <= MaxCalls
    /\ calls' = parsed.calls
    /\ stats' = parsed.stats
    /\ pc' = IF parsed.calls = <<>> THEN "done" ELSE "call"
    /\ closed' = <<>>
    /\ UNCHANGED <<session, results, approved, audit, effects, files, executor,
                   text, scan>>

\* What spans hold is open, but for what the scanner knows of them.
Held ==
    IF closed = <<>> THEN {<<>>}
    ELSE UNION {{<<first>> \o later : later \in [1..(Len(closed) - 1) -> LaterShapes]} :
                    first \in SpanShapes}

\* parse_tool_calls returns or raises, through the loop and out of the run.
Parse ==
    /\ pc = "parsing"
    /\ \E fenced \in BOOLEAN, spans \in Held :
        /\ \A i \in DOMAIN spans : spans[i].rung \in {"none"} \union Rungs(closed[i])
        /\ Begun(IF \E i \in DOMAIN spans : Raises(spans[i])
                 THEN RaisedResult(spans, stats)
                 ELSE ParseResult(spans, fenced, stats))

ParseNative ==
    /\ pc = "reading"
    /\ text = <<>>
    /\ \E objects \in UNION {[1..n -> NativeObjects] : n \in 1..MaxCalls} :
        Begun(NativeResult(objects, stats))

Done == pc = "done" /\ UNCHANGED vars

Agent == (Execute /\ UNCHANGED executor) \/ Client

Next ==
    \/ Read \/ EndOfText \/ Parse \/ ParseNative
    \/ Done
    \/ /\ UNCHANGED reading
       /\ \/ Agent
          \/ Answer /\ UNCHANGED executor
          \/ Tick \/ Faults
          \/ \E k \in DOMAIN jobs : Service(k)

\* The agent does not stop between two steps, time passes, and the executor's
\* timeout kills what takes too long.  The user may never answer, and a search or
\* a server may never return.
Spec ==
    /\ Init
    /\ [][Next]_vars
    /\ WF_vars(Agent /\ ~Unbounded /\ UNCHANGED reading)
    /\ WF_vars(Tick /\ UNCHANGED reading)
    /\ WF_vars((\E k \in DOMAIN jobs : Kill(k)) /\ UNCHANGED reading)

-----------------------------------------------------------------------------
(***************************************************************************)
(* Properties of the scanners, whatever the text (parsing.py:170-223,      *)
(* 282-313).                                                               *)
(***************************************************************************)

IsCall(c) ==
    /\ DOMAIN c = {"name", "args", "repairs", "altered", "shape"}
    /\ c.shape \in {"object", "flattened", "empty", "positional", "raw"}

TypeOK ==
    /\ pc \in {"reading", "parsing", "call", "asking", "run", "bash", "done"}
    /\ session \in Sessions
    /\ \A i \in DOMAIN calls : IsCall(calls[i])
    /\ results \in Seq(Ends)
    /\ Len(results) + Len(calls) <= MaxCalls
    /\ approved \subseteq 1..MaxCalls
    /\ \A e \in effects : e.call \in 1..MaxCalls /\ e.node \in {"agent", "executor", "server"}
    /\ \A p \in DOMAIN files : files[p] \in {"file", "dir"}
    /\ node \in {"up", "down"}
    /\ waited \in 0..ClientTimeout
    /\ DOMAIN jobs \subseteq 1..MaxCalls
    /\ \A k \in DOMAIN jobs :
        /\ jobs[k].state \in JobStates
        /\ jobs[k].ran \in 0..CommandTimeout
        /\ jobs[k].answer \in Ends

\* Spans are regions of the text, in order and apart, each from an opening
\* bracket to a closing one or, if it is the last, to the end of the text.
SpansApart ==
    LET spans == Spans(scan)
    IN  \A i \in DOMAIN spans :
            LET from == spans[i][1]
                to == spans[i][2]
            IN  /\ from < to /\ to <= Len(text)
                /\ text[from + 1] \in Openers
                /\ text[to] \in Closers \/ (i = Len(spans) /\ Unclosed(scan))
                /\ i > 1 => spans[i - 1][2] <= from

\* An object the model closed is found, whole and nothing but it, whatever
\* prose without brackets comes before it: apostrophes, quotes, backslashes.
CallFound ==
    \A i \in 0..Len(text), j \in 0..Len(text) :
        /\ \A h \in 1..i : text[h] \notin Openers \union Closers
        /\ i < j
        /\ Whole(SubSeq(text, i + 1, j))
        => Spans(scan) # <<>> /\ Spans(scan)[1] = <<i, j>>

\* An object cut anywhere but after a backslash is closed so that its brackets
\* and strings pair up, as long as what there is of it does.
CloseBalances ==
    LET raw == SubSeq(text, scan.start + 1, Len(text))
    IN  /\ Unclosed(scan) /\ ~scan.esc
        /\ Len(FoldLeft(Stack, Nothing, raw).stack) = scan.depth
        => Whole(Close(raw))

-----------------------------------------------------------------------------
(***************************************************************************)
(* Properties of the execution of calls.                                   *)
(***************************************************************************)

\* The call differs from what was written in a way that a repair stands for.
Repaired(c) == c.altered \ Unrecorded # {}

\* A call that is not what the model was asked to write is counted in STATS
\* (parsing.py:22-23, 513-520), but for the two changes that parsing.py records
\* for no call, although every repair is to be (parsing.py:22): "title" and
\* "$schema" taken out of the arguments (401-402), and what is made of the string
\* a native call holds (542).
RepairsCounted ==
    (\E i \in DOMAIN calls : Repaired(calls[i])) => stats.needing_repair > 0

\* Whatever a tool got to, the permission layer let this very call through
\* before, and a tool that writes was approved by the user for this call, unless
\* the session was told not to ask (permissions.py:78-107, mcp/adapter.py:93-99).
Writes == {"write_file", "bash"} \union WriteShaped

Approved ==
    \A e \in effects :
        /\ \E i \in DOMAIN audit :
            audit[i].call = e.call /\ audit[i].tool = e.tool /\ audit[i].allowed
        /\ \/ e.tool \notin Writes
           \/ e.call \in approved
           \/ session.auto_approve
           \/ e.tool \in DOMAIN session.policies /\ session.policies[e.tool] = "allow"

\* Every link leads to something: a lone name whose link leads nowhere does not
\* exist, so confine_paths takes it for no path (sandbox.py:187-192).
LinksLead == \A link \in DOMAIN Links : Walk[[at |-> <<>>, rest |-> Links[link]]] \in DOMAIN Disk

\* The forms of words out of which confine_paths reads the path that is meant.
\* It does not for several short flags in one word, of which it cuts off two
\* characters, nor for a word after "--" without a "=" (sandbox.py:210-218).
ReadAsMeant == {"bare", "assigned", "joined"}

\* No tool, of this process, of the executor or of a server, gets to a path
\* outside the root or to a credential file that exists, through any spelling,
\* link or ".." of the paths it is given in words of those forms
\* (sandbox.py:58-104, 196-249).
Confined ==
    \A e \in effects : e.form \in ReadAsMeant =>
        /\ Contained(e.path)
        /\ e.file => ~LooksSecret(e.path)

\* What the model is told is so: a call that was refused in any way never had an
\* effect, not even later, and a command that succeeded was run.
ToldTrue ==
    \A k \in DOMAIN results :
        /\ results[k] \in {"unknown", "invalid", "disabled", "declined",
                           "refused", "escaped"}
            => \A e \in effects : e.call # k
        /\ results[k] = "ok" /\ k \in DOMAIN jobs
            => \E e \in effects : e.call = k /\ e.tool = "bash"

\* With an executor, no command ever runs in this process, whatever happens to
\* the executor (tools/shell.py:107-113, executor/client.py:10-15).
NoLocalFallback ==
    session.remote => \A e \in effects : e.tool = "bash" => e.node = "executor"

\* A command is called unreachable only when the connection broke, the node was
\* down, or it had to wait for a thread of the node: the time a command may take
\* is not enough (CommandTimeout is below ClientTimeout; core.py:79, client.py:25).
SlowIsNotLost ==
    \A k \in DOMAIN results :
        results[k] = "unreachable" =>
            \/ k \notin DOMAIN jobs
            \/ jobs[k].cut
            \/ jobs[k].delay + CommandTimeout >= ClientTimeout

\* A command that may still start or run when the next call begins is one the
\* model was told it lost.  That is weaker than what agent.py:278-280 is after,
\* that side effects do not race: a command whose answer did not come may run on
\* beside the calls after it, and here it may, too.
OneAtATime ==
    \A k \in DOMAIN results :
        k \in DOMAIN jobs /\ jobs[k].state \in {"queued", "running"} =>
            results[k] = "unreachable"

\* The calls of a completion end, or wait for the user or for a tool that nothing
\* obliges to return, whatever the executor does: a command on a node that is
\* slow, silent or dead is given up (fs.py:166-184, executor/client.py:48-63).
BatchEnds ==
    pc \in {"call", "run", "bash"} ~> (pc \in {"done", "asking"} \/ Unbounded)
=============================================================================
