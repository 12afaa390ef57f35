----------------------------- MODULE Executor ------------------------------
(***************************************************************************)
(* The bash tool (tools/shell.py): one run_command (executor/core.py), in  *)
(* this process or, behind HTTP (executor/client.py, executor/service.py), *)
(* on a node with the same project.  Both ends have a timeout; the node    *)
(* may be busy, die and come back, and its answer may be lost.             *)
(***************************************************************************)
EXTENDS Dispatch

CONSTANTS
    CommandTimeout,    \* TIMEOUT_S, in ticks
    ClientTimeout      \* ExecutorClient.timeout, in ticks

ASSUME ExecutorAssumption ==
    /\ CommandTimeout \in Nat \ {0}
    /\ ClientTimeout \in Nat \ {0}

VARIABLES
    node,      \* the executor: "up" or "down"
    waited,    \* ticks since the client sent its request
    jobs       \* what became of the commands that were sent or spawned, by call

executor == <<node, waited, jobs>>

\* A command waits for a thread of the service, runs, is answered, or is lost
\* with the node.  `ran` and `delay` are ticks; `cut`: the client's connection
\* is gone.
JobStates == {"queued", "running", "answered", "lost"}

NewJob(state, place) ==
    [state |-> state, place |-> place, ran |-> 0, delay |-> 0, cut |-> FALSE,
     answer |-> "ok", args |-> Call.args]

Launch(state, place) ==
    jobs' = [k \in DOMAIN jobs \union {N} |->
                IF k = N THEN NewJob(state, place) ELSE jobs[k]]

-----------------------------------------------------------------------------
(***************************************************************************)
(* run_command, up to the spawn.                                           *)
(***************************************************************************)

Permitted == {"cat", "sort", "git"}
GitReadonly == {"status", "log"}

\* Not words of one command, a program that is not listed, a flag that runs
\* programs, a path to stay away from, or a git command that writes.
CommandRefused(args) ==
    \/ args.syntax # "words"
    \/ args.program \notin Permitted
    \/ args.banned
    \/ ~ConfinePaths(args.words, DOMAIN files)
    \/ args.program = "git" /\ args.sub \notin GitReadonly

\* What a program opens for word i of the command of call k.
OpenedFor(k, args, place, i) ==
    {[call |-> k, tool |-> "bash", node |-> place, path |-> Reached(raw),
      file |-> IsFile(Reached(raw)), form |-> args.words[i].form] :
        raw \in Opens(args.words[i])}

\* What a command of call k gets to when it is spawned, in the root.
Spawned(k, args, place) ==
    {[call |-> k, tool |-> "bash", node |-> place, path |-> Root, file |-> FALSE,
      form |-> "bare"]}
    \union (UNION {OpenedFor(k, args, place, i) : i \in DOMAIN args.words})

\* How a command that was spawned ends by itself: with output, whatever its
\* exit code, or with output that cannot be decoded, an exception that is not
\* a ToolError.
ExitEnds(place) == {"ok"} \union {IF place = "agent" THEN "error" ELSE "status"}

-----------------------------------------------------------------------------
(***************************************************************************)
(* Bash.run and, when an executor is configured, ExecutorClient.execute.   *)
(***************************************************************************)

RunBash == pc = "run" /\ Tool = "bash"

RefuseHere ==
    /\ RunBash
    /\ ~session.remote
    /\ CommandRefused(Call.args)
    /\ ReturnOnly("refused")
    /\ UNCHANGED executor

\* The program may not be installed.
NotFoundHere ==
    /\ RunBash
    /\ ~session.remote
    /\ ~CommandRefused(Call.args)
    /\ ReturnOnly("error")
    /\ UNCHANGED executor

SpawnHere ==
    /\ RunBash
    /\ ~session.remote
    /\ ~CommandRefused(Call.args)
    /\ pc' = "bash"
    /\ Launch("running", "agent")
    /\ effects' = effects \union Spawned(N, Call.args, "agent")
    /\ waited' = 0
    /\ UNCHANGED <<session, calls, results, approved, audit, files, stats, node>>

\* Mutant: with nobody to ask, the command runs in this process.
UnreachableRunsHere ==
    /\ RunBash
    /\ session.remote
    /\ node = "down"
    /\ effects' = effects \union Spawned(N, Call.args, "agent")
    /\ Return("ok")
    /\ UNCHANGED <<session, approved, audit, files, stats, executor>>

\* The connection is refused.
Unreachable ==
    /\ RunBash
    /\ session.remote
    /\ node = "down"
    /\ ReturnOnly("unreachable")
    /\ UNCHANGED executor

\* ExecRequest: a command of at least one character and at most 8000.
Taken(args) == args.syntax # "empty" /\ ~args.long

\* _check_key, or a body the service does not take: a status other than 200.
Rejected ==
    /\ RunBash
    /\ session.remote
    /\ node = "up"
    /\ ~session.key \/ ~Taken(Call.args)
    /\ ReturnOnly("status")
    /\ UNCHANGED executor

Post ==
    /\ RunBash
    /\ session.remote
    /\ node = "up"
    /\ session.key
    /\ Taken(Call.args)
    /\ pc' = "bash"
    /\ Launch("queued", "executor")
    /\ waited' = 0
    /\ UNCHANGED <<session, calls, results, approved, audit, effects, files, stats, node>>

\* The answer, as a result or as the ToolError it stands for.
Hear ==
    /\ pc = "bash"
    /\ jobs[N].state = "answered"
    /\ ~jobs[N].cut
    /\ ReturnOnly(jobs[N].answer)
    /\ UNCHANGED executor

\* The connection breaks: httpx.HTTPError.
Broken ==
    /\ pc = "bash"
    /\ jobs[N].cut
    /\ ReturnOnly("unreachable")
    /\ UNCHANGED executor

\* Mutant: the client waits no longer than the command may take.
ExpiredEarly == jobs[N].place = "executor" /\ waited >= CommandTimeout

\* Mutant: it waits one tick too long.
ExpiredLate == jobs[N].place = "executor" /\ waited > ClientTimeout

\* httpx.ReadTimeout.  A command in this process has no client.
Expired == jobs[N].place = "executor" /\ waited >= ClientTimeout

\* Mutant: a timeout is reported as a command that failed.
GiveUpAsError ==
    /\ pc = "bash"
    /\ jobs[N].state \in {"queued", "running"}
    /\ ~jobs[N].cut
    /\ Expired
    /\ ReturnOnly("error")
    /\ UNCHANGED executor

GiveUp ==
    /\ pc = "bash"
    /\ jobs[N].state \in {"queued", "running"}
    /\ ~jobs[N].cut
    /\ Expired
    /\ ReturnOnly("unreachable")
    /\ UNCHANGED executor

-----------------------------------------------------------------------------
(***************************************************************************)
(* The service, and commands that run.                                     *)
(***************************************************************************)

Answered(k, end) ==
    jobs' = [jobs EXCEPT ![k].state = "answered", ![k].answer = end]

\* Mutant: the command is refused after it was spawned.
BeginThenRefuse(k) ==
    /\ jobs[k].state = "queued"
    /\ effects' = effects \union Spawned(k, jobs[k].args, "executor")
    /\ IF CommandRefused(jobs[k].args)
       THEN Answered(k, "refused")
       ELSE jobs' = [jobs EXCEPT ![k].state = "running"]
    /\ UNCHANGED <<pc, session, calls, results, approved, audit, files, stats,
                   node, waited>>

\* A thread takes the request, and run_command refuses it or spawns it.
Begin(k) ==
    /\ jobs[k].state = "queued"
    /\ \/ /\ CommandRefused(jobs[k].args)
          /\ Answered(k, "refused")
          /\ UNCHANGED effects
       \/ /\ ~CommandRefused(jobs[k].args)
          /\ Answered(k, "error")
          /\ UNCHANGED effects
       \/ /\ ~CommandRefused(jobs[k].args)
          /\ jobs' = [jobs EXCEPT ![k].state = "running"]
          /\ effects' = effects \union Spawned(k, jobs[k].args, "executor")
    /\ UNCHANGED <<pc, session, calls, results, approved, audit, files, stats,
                   node, waited>>

Exit(k) ==
    /\ jobs[k].state = "running"
    /\ \E end \in ExitEnds(jobs[k].place) : Answered(k, end)
    /\ UNCHANGED <<dispatch, node, waited>>

\* Mutant: subprocess.run without a timeout.
KillNever(k) == FALSE /\ UNCHANGED <<dispatch, node, waited, jobs>>

\* subprocess.TimeoutExpired: the process is killed.
Kill(k) ==
    /\ jobs[k].state = "running"
    /\ jobs[k].ran = CommandTimeout
    /\ Answered(k, "error")
    /\ UNCHANGED <<dispatch, node, waited>>

\* Time passes for whoever waits.  What is due happens first: commands are
\* killed, answers are heard and the client gives up on time.
Tick ==
    /\ pc = "bash"
    /\ jobs[N].state \in {"queued", "running"}
    /\ ~jobs[N].cut
    /\ ~Expired
    /\ \A k \in DOMAIN jobs : jobs[k].state = "running" => jobs[k].ran < CommandTimeout
    /\ waited' = IF jobs[N].place = "executor" THEN waited + 1 ELSE waited
    /\ jobs' = [k \in DOMAIN jobs |->
                    CASE jobs[k].state = "running" -> [jobs[k] EXCEPT !.ran = @ + 1]
                      [] jobs[k].state = "queued" /\ k = N -> [jobs[k] EXCEPT !.delay = @ + 1]
                      [] OTHER -> jobs[k]]
    /\ UNCHANGED <<dispatch, node>>

-----------------------------------------------------------------------------
(***************************************************************************)
(* What can go wrong with the node.                                        *)
(***************************************************************************)

\* The node dies with the commands it has and the connections to it.
Crash ==
    /\ node = "up"
    /\ node' = "down"
    /\ jobs' = [k \in DOMAIN jobs |->
                    IF jobs[k].place = "executor"
                    THEN [jobs[k] EXCEPT !.state = "lost", !.cut = TRUE]
                    ELSE jobs[k]]
    /\ UNCHANGED <<dispatch, waited>>

Restart ==
    /\ node = "down"
    /\ node' = "up"
    /\ UNCHANGED <<dispatch, waited, jobs>>

\* The connection is lost; what the node was asked to do goes on.
LoseConnection ==
    /\ pc = "bash"
    /\ jobs[N].place = "executor"
    /\ ~jobs[N].cut
    /\ jobs' = [jobs EXCEPT ![N].cut = TRUE]
    /\ UNCHANGED <<dispatch, node, waited>>

Client == RefuseHere \/ NotFoundHere \/ SpawnHere \/ Unreachable \/ Rejected
          \/ Post \/ Hear \/ Broken \/ GiveUp

Service(k) == Begin(k) \/ Exit(k) \/ Kill(k)

Faults == Crash \/ Restart \/ LoseConnection
=============================================================================
